----------------------- MODULE GeneratedSessionProofs -----------------------
(***************************************************************************)
(* The session generator and the book, for every number of messages, of    *)
(* symbols on either side and of slots in the order pool.                  *)
(*                                                                         *)
(* RestingAreLive is not inductive: a new order must be one that the book  *)
(* neither has nor refused before.  NumberInv adds that order numbers are  *)
(* given out upwards, one message at a time.                               *)
(***************************************************************************)
EXTENDS GeneratedSession, TLAPS

NumberInv ==
  /\ seq \in 0 .. messages
  /\ next_order \in 1 .. (seq + 1)
  /\ live_orders \cup refused \subseteq 1 .. (next_order - 1)

SessionInv == RestingAreLive /\ NumberInv

\* A drawn order whose symbol the book has is an order of the book.
LEMMA DrawnIsOrder ==
  ASSUME NEW id, NEW r \in DrawnFor(id), r.symbol_id \in Symbols
  PROVE  r \in Order
BY DEF DrawnFor, Order, Sides

\* The numbers of a session are numbers of orders.
LEMMA NumberIsId ==
  ASSUME NumberInv, seq < messages
  PROVE  /\ messages \in Nat /\ seq \in Nat /\ next_order \in OrderIds
         /\ next_order \notin live_orders \cup refused
         /\ live_orders \subseteq OrderIds
<1>1. messages \in Nat /\ 1 .. messages \subseteq OrderIds
  BY GeneratorAssumption
<1>2. next_order \in 1 .. messages /\ 1 .. (next_order - 1) \subseteq 1 .. messages
  BY <1>1 DEF NumberInv
<1>3. next_order \notin 1 .. (next_order - 1)
  BY <1>2
<1> QED
  BY <1>1, <1>2, <1>3 DEF NumberInv

-----------------------------------------------------------------------------
LEMMA AddKeepsResting ==
  ASSUME SessionInv, seq < messages, seq' = seq + 1, GenerateAdd
  PROVE  SessionInv'
<1>1. PICK r \in DrawnFor(next_order) :
        /\ IF Takes(r) THEN OnAdd(next_order, r) ELSE UNCHANGED vars
        /\ refused' = IF Takes(r) THEN refused ELSE refused \cup {next_order}
        /\ live_orders' = live_orders \cup {next_order}
        /\ next_order' = next_order + 1
  BY DEF GenerateAdd
<1>2. messages \in Nat /\ seq \in Nat /\ next_order \notin live_orders \cup refused
  BY NumberIsId DEF SessionInv
<1>3. NumberInv'
  <2>1. next_order \in Nat /\ next_order >= 1 /\ next_order <= seq + 1
    BY <1>2 DEF SessionInv, NumberInv
  <2>2. live_orders' \cup refused' \subseteq live_orders \cup refused \cup {next_order}
    BY <1>1
  <2>3. 1 .. (next_order - 1) \cup {next_order} \subseteq 1 .. (next_order' - 1)
    BY <1>1, <2>1
  <2>4. live_orders' \cup refused' \subseteq 1 .. (next_order' - 1)
    BY <2>2, <2>3 DEF SessionInv, NumberInv
  <2> QED
    BY <1>1, <1>2, <2>1, <2>4 DEF NumberInv
<1>4. next_order \notin DOMAIN orders
  BY <1>2 DEF SessionInv, RestingAreLive
<1>5. CASE Takes(r)
  <2>1. /\ orders' = [i \in DOMAIN orders \cup {next_order} |-> IF i = next_order THEN r ELSE orders[i]]
        /\ readded' = (readded \cup {}) \ AddTicks(next_order, r)
    BY <1>1, <1>4, <1>5 DEF OnAdd, Return
  <2>2. DOMAIN orders' = live_orders' \ refused'
    BY <1>1, <1>2, <1>5, <2>1 DEF SessionInv, RestingAreLive
  <2>3. \A id \in DOMAIN orders' : orders'[id] \in DrawnFor(id)
    BY <2>1 DEF SessionInv, RestingAreLive
  <2>4. readded' = {}
    BY <2>1 DEF SessionInv, RestingAreLive
  <2> QED
    BY <1>3, <2>2, <2>3, <2>4 DEF SessionInv, RestingAreLive, DrawnFor
<1>6. CASE ~Takes(r)
  <2>1. orders' = orders /\ readded' = readded
    BY <1>1, <1>6 DEF vars
  <2>2. live_orders' \ refused' = live_orders \ refused
    BY <1>1, <1>2, <1>6
  <2> QED
    BY <1>3, <2>1, <2>2 DEF SessionInv, RestingAreLive, DrawnFor
<1> QED
  BY <1>5, <1>6

LEMMA ModifyKeepsResting ==
  ASSUME SessionInv, seq < messages, seq' = seq + 1, NEW id \in live_orders, GenerateModify(id)
  PROVE  SessionInv'
<1>1. PICK r \in DrawnFor(id) :
        IF id \in DOMAIN orders /\ r.symbol_id \in Symbols THEN OnModify(id, r) ELSE UNCHANGED vars
  BY DEF GenerateModify
<1>2. UNCHANGED <<next_order, live_orders, refused>>
  BY DEF GenerateModify
<1>3. NumberInv'
  BY <1>2, NumberIsId DEF SessionInv, NumberInv
<1>4. CASE id \in DOMAIN orders /\ r.symbol_id \in Symbols
  <2>1. orders' = [orders EXCEPT ![id] = r] /\ readded' = (readded \cup {}) \ ModifyTicks(id, r)
    BY <1>1, <1>4 DEF OnModify, Return
  <2>2. DOMAIN orders' = DOMAIN orders /\ \A x \in DOMAIN orders' : orders'[x] \in DrawnFor(x)
    BY <2>1 DEF SessionInv, RestingAreLive
  <2>3. readded' = {}
    BY <2>1 DEF SessionInv, RestingAreLive
  <2> QED
    BY <1>2, <1>3, <2>2, <2>3 DEF SessionInv, RestingAreLive, DrawnFor
<1>5. CASE ~(id \in DOMAIN orders /\ r.symbol_id \in Symbols)
  <2>1. orders' = orders /\ readded' = readded
    BY <1>1, <1>5 DEF vars
  <2> QED
    BY <1>2, <1>3, <2>1 DEF SessionInv, RestingAreLive, DrawnFor
<1> QED
  BY <1>4, <1>5

LEMMA DeleteKeepsResting ==
  ASSUME SessionInv, seq < messages, seq' = seq + 1, NEW id \in live_orders, GenerateDelete(id)
  PROVE  SessionInv'
<1>1. /\ IF id \in DOMAIN orders THEN OnDelete(id) ELSE UNCHANGED vars
      /\ live_orders' = live_orders \ {id} /\ UNCHANGED <<next_order, refused>>
  BY DEF GenerateDelete
<1>2. NumberInv'
  BY <1>1, NumberIsId DEF SessionInv, NumberInv
<1>3. CASE id \in DOMAIN orders
  <2>1. /\ orders' = [x \in DOMAIN orders \ {id} |-> orders[x]]
        /\ readded' = (readded \cup {}) \ DeleteTicks(id)
    BY <1>1, <1>3 DEF OnDelete, Return, Restrict
  <2>2. DOMAIN orders' = DOMAIN orders \ {id} /\ \A x \in DOMAIN orders' : orders'[x] \in DrawnFor(x)
    BY <2>1 DEF SessionInv, RestingAreLive
  <2>3. readded' = {}
    BY <2>1 DEF SessionInv, RestingAreLive
  <2> QED
    BY <1>1, <1>2, <2>2, <2>3 DEF SessionInv, RestingAreLive, DrawnFor
<1>4. CASE id \notin DOMAIN orders
  <2>1. orders' = orders /\ readded' = readded
    BY <1>1, <1>4 DEF vars
  <2>2. live_orders' \ refused' = live_orders \ refused
    BY <1>1, <1>4 DEF SessionInv, RestingAreLive
  <2> QED
    BY <1>2, <2>1, <2>2 DEF SessionInv, RestingAreLive, DrawnFor
<1> QED
  BY <1>3, <1>4

LEMMA TradeKeepsResting ==
  ASSUME SessionInv, seq < messages, seq' = seq + 1, GenerateTrade
  PROVE  SessionInv'
<1>1. UNCHANGED <<next_order, live_orders, refused>>
  BY DEF GenerateTrade
<1>2. NumberInv'
  BY <1>1, NumberIsId DEF SessionInv, NumberInv
<1>3. orders' = orders /\ readded' = {}
  BY DEF GenerateTrade, OnTrade, Return, vars, SessionInv, RestingAreLive
<1> QED
  BY <1>1, <1>2, <1>3 DEF SessionInv, RestingAreLive, DrawnFor

-----------------------------------------------------------------------------
LEMMA SessionInvHolds == GeneratorSpec => []SessionInv
<1>1. GeneratorInit => SessionInv
  BY GeneratorAssumption DEF GeneratorInit, Init, SessionInv, RestingAreLive, NumberInv
<1>2. SessionInv /\ [GeneratorNext]_<<vars, generatorVars>> => SessionInv'
  <2> SUFFICES ASSUME SessionInv, [GeneratorNext]_<<vars, generatorVars>> PROVE SessionInv'
    OBVIOUS
  <2>1. CASE Generate
    BY <2>1, AddKeepsResting, ModifyKeepsResting, DeleteKeepsResting, TradeKeepsResting DEF Generate
  <2>2. CASE UNCHANGED <<vars, generatorVars>>
    BY <2>2 DEF vars, generatorVars, SessionInv, RestingAreLive, DrawnFor, NumberInv
  <2> QED
    BY <2>1, <2>2 DEF GeneratorNext, SessionEnds
<1> QED
  BY <1>1, <1>2, PTL DEF GeneratorSpec

\* In every session that generate_session() can draw, the book has exactly the orders that
\* the generator believes live, but for those refused when they were added; no order is
\* added while it rests.
THEOREM GeneratorAndBookAgree == GeneratorSpec => []RestingAreLive
<1>1. SessionInv => RestingAreLive
  BY DEF SessionInv
<1> QED
  BY <1>1, SessionInvHolds, PTL

\* Every message of the generator is one that Book describes, or is ignored: what is proved
\* of the book holds in every generated session.
THEOREM SessionDrivesTheBook == GeneratorSpec => Spec
<1>1. GeneratorInit => Init
  BY DEF GeneratorInit
<1>2. SessionInv /\ [GeneratorNext]_<<vars, generatorVars>> => [Next]_vars
  <2> SUFFICES ASSUME SessionInv, [GeneratorNext]_<<vars, generatorVars>> PROVE [Next]_vars
    OBVIOUS
  <2>1. CASE Generate
    <3>1. next_order \in OrderIds /\ live_orders \subseteq OrderIds
      BY <2>1, NumberIsId DEF Generate, SessionInv
    <3>2. CASE GenerateAdd
      BY <3>1, <3>2, DrawnIsOrder DEF GenerateAdd, Takes, Next
    <3>3. ASSUME NEW id \in live_orders, GenerateModify(id) PROVE [Next]_vars
      BY <3>1, <3>3, DrawnIsOrder DEF GenerateModify, Next
    <3>4. ASSUME NEW id \in live_orders, GenerateDelete(id) PROVE [Next]_vars
      BY <3>1, <3>4 DEF GenerateDelete, Next
    <3>5. CASE GenerateTrade
      BY <3>5 DEF GenerateTrade, Next
    <3> QED
      BY <2>1, <3>2, <3>3, <3>4, <3>5 DEF Generate
  <2>2. CASE UNCHANGED <<vars, generatorVars>>
    BY <2>2
  <2> QED
    BY <2>1, <2>2 DEF GeneratorNext, SessionEnds
<1> QED
  BY <1>1, <1>2, SessionInvHolds, PTL DEF GeneratorSpec, Spec
=============================================================================
