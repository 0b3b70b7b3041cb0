----------------------------- MODULE BoundedFifo -----------------------------
(***************************************************************************)
(* What a single-producer single-consumer queue promises: everything that  *)
(* was put is taken exactly once and in order, and no more than Capacity   *)
(* items are in it at a time.                                              *)
(***************************************************************************)
EXTENDS Naturals, Sequences

CONSTANTS Item, Capacity

VARIABLES
  put,      \* every item put so far
  taken     \* every item taken so far

Init == put = <<>> /\ taken = <<>>

Put ==
  /\ Len(put) - Len(taken) < Capacity
  /\ \E x \in Item : put' = Append(put, x)
  /\ UNCHANGED taken

Take ==
  /\ Len(taken) < Len(put)
  /\ taken' = Append(taken, put[Len(taken) + 1])
  /\ UNCHANGED put

Spec == Init /\ [][Put \/ Take]_<<put, taken>>
=============================================================================
