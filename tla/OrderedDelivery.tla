--------------------------- MODULE OrderedDelivery ---------------------------
(***************************************************************************)
(* What the receive path of the feed handler promises to the book: it is   *)
(* given the messages of the session in sequence order, each exactly once  *)
(* and none skipped.  A single datagram may release several of them.       *)
(***************************************************************************)
EXTENDS Naturals, Sequences

CONSTANT Session      \* the exchange's messages, in sequence order

VARIABLE delivered    \* the messages handed to the book so far

Init == delivered = <<>>

Deliver ==
  \E m \in (Len(delivered) + 1) .. Len(Session) : delivered' = SubSeq(Session, 1, m)

Spec == Init /\ [][Deliver]_delivered
=============================================================================
