--------------------------------- MODULE Lists ---------------------------------
(***************************************************************************)
(* Lists the code builds: by a loop with a condition and an append, and by *)
(* a query with an order.                                                  *)
(***************************************************************************)
EXTENDS Naturals, Sequences, FiniteSets, SequencesExt

IsList(list) == list \in Seq(ToSet(list))

(* The entries of a list that are in a set, in the order of the list: what a   *)
(* loop with a condition and an append leaves.                                 *)
Filtered(list, kept) ==
  LET upTo[n \in 0..Len(list)] ==
        IF n = 0 THEN <<>>
        ELSE IF list[n] \in kept THEN Append(upTo[n - 1], list[n]) ELSE upTo[n - 1]
  IN  upTo[Len(list)]

(* A finite set in an order: the n-th is the one that n - 1 of them come before. *)
InOrder(S, before) ==
  [n \in 1..Cardinality(S) |-> CHOOSE x \in S : Cardinality({y \in S : <<y, x>> \in before}) = n - 1]
================================================================================
