--------------------------- MODULE MCBarAggregator ---------------------------
(* BarAggregator for TLC: one symbol with trades of every kind, a second one  *)
(* whose trades come in between, and a third one that is unknown.             *)
EXTENDS BarAggregator

CONSTANTS Prices, Quantities, Stamps

TradeOf(s, price, qty, ts) == [symbol_id |-> s, price |-> price, qty |-> qty, ts_ns |-> ts]

MCTrades ==
  {TradeOf(0, p, q, ts) : p \in Prices, q \in Quantities, ts \in Stamps}
    \cup {TradeOf(1, 3, 2, 3), TradeOf(2, 1, 1, 1)}
=============================================================================
