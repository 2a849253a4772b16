------------------------------ MODULE MCShaping ------------------------------
(***************************************************************************)
(* The interfaces, jobs and limit sets are model values; of the limit sets *)
(* those of Cuts let no request through.  The interfaces are alike until   *)
(* one of them is in use, so it is the same one in every start.  The jobs  *)
(* could be a symmetry set, but the runs check liveness.                   *)
(***************************************************************************)
EXTENDS Shaping

MCInit == Init /\ iface = CHOOSE i \in Ifaces : TRUE
MCSpec == MCInit /\ [][Next]_vars /\ Fairness
=============================================================================
