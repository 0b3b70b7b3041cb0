----------------------------- MODULE MCEventFlow -----------------------------
(* EventFlow for TLC: two symbols, and trades that the book accepts, that     *)
(* have no quantity, and that have an unknown symbol.                         *)
EXTENDS EventFlow

MCTrades == {<<1, 1>>, <<2, 1>>}

MCWireTrades ==
  {<<0, <<1, 1>> >>, <<0, <<2, 1>> >>, <<1, <<1, 1>> >>, <<0, <<1, 0>> >>, <<kMaxSymbols, <<1, 1>> >>}
=============================================================================
