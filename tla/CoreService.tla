---------------------------- MODULE CoreService ----------------------------
(***************************************************************************)
(* What whoever is behind the core may rely on, whatever the panel does to *)
(* change it: the abstract specification that XrayLifecycle implements.    *)
(*                                                                         *)
(* One change at a time.  Its goal is made of what the database said since *)
(* the change began, no part older.  While it is under way the core loses  *)
(* or gains only what the goal changes, so nobody else's traffic notices.  *)
(* It ends in the old state, in the goal, or with the core down; and a     *)
(* core that comes up, after whatever crash, serves the last settled goal. *)
(***************************************************************************)
CONSTANTS
  Parts,      \* the parts of a configuration
  Material,   \* those of them that the core sees
  Start,      \* the configuration at the panel's start
  Gone        \* what the core holds of a part it has lost

VARIABLES
  wanted,     \* the database's configuration
  stage,      \* "free" between changes, or of a change that does "read" or is "acting"
  goal,       \* the configuration the change is to bring about
  settled,    \* the configuration a core that comes up serves
  up,         \* the core serves
  held        \* what it serves, or served last

promised == <<wanted, stage, goal, settled, up, held>>

Seen(c) == [q \in Material |-> c[q]]

Init ==
  /\ wanted = Start /\ goal = Start /\ settled = Start
  /\ stage = "free" /\ up = FALSE /\ held = Seen(Start)

Want ==
  /\ wanted' \in [Parts -> {0, 1}]
  /\ UNCHANGED <<stage, goal, settled, up, held>>

Begin ==
  /\ stage = "free" /\ stage' = "read" /\ goal' = wanted
  /\ UNCHANGED <<wanted, settled, up, held>>

Read ==
  /\ stage = "read" /\ stage' = "acting"
  /\ goal' \in [Parts -> {0, 1}]
  /\ \A q \in Parts : goal'[q] \in {goal[q], wanted[q]}
  /\ UNCHANGED <<wanted, settled, up, held>>

Alter ==
  /\ stage = "acting" /\ up
  /\ \A q \in Material : held'[q] # held[q] => /\ goal[q] # settled[q]
                                               /\ held'[q] \in {Gone, goal[q]}
  /\ UNCHANGED <<wanted, stage, goal, settled, up>>

End == stage # "free" /\ stage' = "free" /\ goal' = Start /\ UNCHANGED <<wanted, held>>

(* Nothing to do, or no goal could be made. *)
Leave ==
  /\ up => held = Seen(settled)
  /\ UNCHANGED <<settled, up>>
  /\ End

Settle ==
  /\ settled' = goal
  /\ up' => up /\ held = Seen(goal)
  /\ End

GoDown ==
  /\ up /\ up' = FALSE
  /\ UNCHANGED <<wanted, stage, goal, settled, held>>

ComeUp ==
  /\ ~up /\ up' = TRUE /\ held' = Seen(settled)
  /\ UNCHANGED <<wanted, stage, goal, settled>>

Next == Want \/ Begin \/ Read \/ Alter \/ Leave \/ Settle \/ GoDown \/ ComeUp

Spec == Init /\ [][Next]_promised
=============================================================================
