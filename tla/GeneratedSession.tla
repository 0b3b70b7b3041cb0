-------------------------- MODULE GeneratedSession --------------------------
(***************************************************************************)
(* FeedSimulator::generate_session() and the book it is meant for.  The    *)
(* generator keeps the orders it believes to be live and draws modifies    *)
(* and deletes from them; the messages reach the book complete and in      *)
(* order (RecoveringFeed).  What the random numbers decide is a choice.    *)
(* The book ignores what it has no symbol, no order or no room for.        *)
(***************************************************************************)
EXTENDS Book

CONSTANTS
  messages,         \* cfg_.messages
  symbols           \* cfg_.symbols, which may be more than the book has

ASSUME GeneratorAssumption ==
  messages \in Nat /\ symbols \in Nat \ {0} /\ 1 .. messages \subseteq OrderIds

VARIABLES
  seq,              \* messages generated so far
  next_order,       \* next_order
  live_orders,      \* live_orders
  refused           \* history: the orders that the book did not take

generatorVars == <<seq, next_order, live_orders, refused>>

GeneratorInit ==
  /\ Init
  /\ seq = 0
  /\ next_order = 1
  /\ live_orders = {}
  /\ refused = {}

\* sym_dist
DrawnSymbols == 0 .. (symbols - 1)

\* Odd orders buy, even orders sell, also when they are modified.
DrawnFor(id) ==
  [symbol_id : DrawnSymbols, side : {IF id % 2 = 1 THEN "bid" ELSE "ask"}, price : Prices,
   qty : Quantities]

Takes(r) == r.symbol_id \in Symbols /\ Cardinality(DOMAIN orders) < kOrderPool

GenerateAdd ==
  \E r \in DrawnFor(next_order) :
    /\ IF Takes(r) THEN OnAdd(next_order, r) ELSE UNCHANGED vars
    /\ refused' = IF Takes(r) THEN refused ELSE refused \cup {next_order}
    /\ live_orders' = live_orders \cup {next_order}
    /\ next_order' = next_order + 1

\* Also into another symbol.
GenerateModify(id) ==
  \E r \in DrawnFor(id) :
    /\ IF id \in DOMAIN orders /\ r.symbol_id \in Symbols THEN OnModify(id, r) ELSE UNCHANGED vars
    /\ UNCHANGED <<next_order, live_orders, refused>>

\* Mutant of GenerateDelete: the order stays in live_orders.
GenerateDeleteStays(id) ==
  /\ IF id \in DOMAIN orders THEN OnDelete(id) ELSE UNCHANGED vars
  /\ UNCHANGED <<next_order, live_orders, refused>>

\* Under any symbol: the book does not look at it.
GenerateDelete(id) ==
  /\ IF id \in DOMAIN orders THEN OnDelete(id) ELSE UNCHANGED vars
  /\ live_orders' = live_orders \ {id}
  /\ UNCHANGED <<next_order, refused>>

GenerateTrade ==
  \E s \in DrawnSymbols, t \in Trades :
    /\ live_orders # {}
    /\ IF s \in Symbols THEN OnTrade(s, t) ELSE UNCHANGED vars
    /\ UNCHANGED <<next_order, live_orders, refused>>

Generate ==
  /\ seq < messages
  /\ seq' = seq + 1
  /\ \/ GenerateAdd \/ GenerateTrade
     \/ \E id \in live_orders : GenerateModify(id) \/ GenerateDelete(id)

SessionEnds == seq = messages /\ UNCHANGED <<vars, generatorVars>>

GeneratorNext == Generate \/ SessionEnds

GeneratorSpec == GeneratorInit /\ [][GeneratorNext]_<<vars, generatorVars>>

-----------------------------------------------------------------------------
\* The generator and the book agree on what rests, through a full pool and unknown
\* symbols: the book has exactly the orders that live_orders draws from but for those it
\* refused when they were added, each on the side of its parity.  An order that was
\* refused never gets in by a modify, one that rests is never left behind, and none is
\* added again while it rests.
RestingAreLive ==
  /\ DOMAIN orders = live_orders \ refused
  /\ \A id \in DOMAIN orders : orders[id] \in DrawnFor(id)
  /\ readded = {}
=============================================================================
