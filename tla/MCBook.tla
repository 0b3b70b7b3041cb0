------------------------------- MODULE MCBook -------------------------------
(* Book for TLC: words of two bits, so that four price levels span three      *)
(* words, and quantities that overflow a level with two orders on it.  The    *)
(* order numbers are only compared: they are interchangeable.                 *)
EXTENDS Book, TLC

NoTrades == {}

OneTrade == {<<1, 1>>}

OrderSymmetry == Permutations(OrderIds)
=============================================================================
