-------------------------------- MODULE Book --------------------------------
(***************************************************************************)
(* mdp::BookBuilder: resting orders, and for each symbol and side a        *)
(* quantity per price level, a word bitmap of the populated levels and the *)
(* best price.  Each operation returns a tick for the BBO publisher, or    *)
(* nothing.                                                                *)
(*                                                                         *)
(* The order pool is the map it implements (OrderPool models its table).   *)
(* A message with an unknown symbol, a price outside the levels or a zero  *)
(* quantity, one for an order that is not resting, and an add to a full    *)
(* pool change nothing: they are stuttering steps.                         *)
(***************************************************************************)
EXTENDS Integers, FiniteSets, FiniteSetsExt, Functions

CONSTANTS
  kMaxSymbols,      \* number of symbols (32 in the code)
  kPriceLevels,     \* prices are 1 .. kPriceLevels (4096 in the code)
  WordBits,         \* bits of a bitmap word (64 in the code)
  QtyMod,           \* quantities are added modulo QtyMod (2^32 in the code)
  kOrderPool,       \* orders the pool can hold (2^16 in the code)
  OrderIds,         \* order numbers that occur on the wire
  Quantities,       \* order quantities that occur on the wire
  Trades            \* trades that occur on the wire, as <<price, qty>>

Symbols == 0 .. (kMaxSymbols - 1)
Prices == 1 .. kPriceLevels
Words == 0 .. (kPriceLevels \div WordBits)
Sides == {"bid", "ask"}

ASSUME BookAssumption ==
  /\ kMaxSymbols \in Nat \ {0} /\ kPriceLevels \in Nat \ {0} /\ WordBits \in Nat \ {0}
  /\ QtyMod \in Nat \ {0} /\ kOrderPool \in Nat
  /\ Quantities \subseteq 1 .. (QtyMod - 1)
  /\ Trades \subseteq Prices \X Quantities

Order == [symbol_id : Symbols, side : Sides, price : Prices, qty : Quantities]

VARIABLES
  books,            \* books_[symbol_id].bid and .ask
  last,             \* books_[symbol_id].last_price and .last_qty
  orders,           \* the live records of orders_
  published,        \* history: the last tick returned for each symbol
  moved,            \* history: symbols without a tick since a modify moved an order
                    \* between them and another symbol
  readded,          \* history: symbols without a tick since a resting order was added
                    \* again to or from them
  wrapped           \* history: a level's quantity has overflowed

vars == <<books, last, orders, published, moved, readded, wrapped>>

-----------------------------------------------------------------------------
(* Price levels. *)

EmptySide ==
  [qty |-> [p \in 0 .. kPriceLevels |-> 0], occupied |-> [w \in Words |-> {}], best_price |-> 0]

\* Mutant of SetOccupied: the levels are taken to start at zero.
SetOccupiedBelow(occupied, price) ==
  [occupied EXCEPT ![(price - 1) \div WordBits] = @ \cup {(price - 1) % WordBits}]

SetOccupied(occupied, price) ==
  [occupied EXCEPT ![price \div WordBits] = @ \cup {price % WordBits}]

\* Mutant of ClearOccupied: an empty level stays populated.
ClearOccupiedNever(occupied, price) == occupied

ClearOccupied(occupied, price) ==
  [occupied EXCEPT ![price \div WordBits] = @ \ {price % WordBits}]

Better(side, p, q) == IF side = "bid" THEN p > q ELSE p < q

BestOf(side, S) == IF side = "bid" THEN Max(S) ELSE Min(S)

\* Scan the words from that of the old best price, away from it; bits of that first
\* word that are better than the old best are masked out.
RecomputeBest(occupied, side, old) ==
  LET first == old \div WordBits
      Bits(w) == {b \in occupied[w] : w = first => ~Better(side, b, old % WordBits)}
      found == {w \in Words : ~Better(side, w, first) /\ Bits(w) # {}}
      word == BestOf(side, found)
  IN  IF found = {} THEN 0 ELSE word * WordBits + BestOf(side, Bits(word))

AddLevel(book, side, price, qty) ==
  [qty |-> [book.qty EXCEPT ![price] = (@ + qty) % QtyMod],
   occupied |-> IF book.qty[price] = 0 THEN SetOccupied(book.occupied, price) ELSE book.occupied,
   best_price |-> IF book.best_price = 0 \/ Better(side, price, book.best_price)
                    THEN price ELSE book.best_price]

\* Mutant of LevelLeft: the difference is not clamped.
LevelLeftUnclamped(level, qty) == level - qty

\* What is left of a level's quantity; never less than nothing.
LevelLeft(level, qty) == IF qty >= level THEN 0 ELSE level - qty

RemoveLevel(book, side, price, qty) ==
  LET left == LevelLeft(book.qty[price], qty)
      occupied == IF left = 0 THEN ClearOccupied(book.occupied, price) ELSE book.occupied
  IN  [qty |-> [book.qty EXCEPT ![price] = left],
       occupied |-> occupied,
       best_price |-> IF price = book.best_price /\ left = 0
                        THEN RecomputeBest(occupied, side, book.best_price)
                        ELSE book.best_price]

\* The books bs after order r was put on, or taken off, its level.
WithOrder(bs, r) ==
  [bs EXCEPT ![r.symbol_id][r.side] = AddLevel(@, r.side, r.price, r.qty)]

WithoutOrder(bs, r) ==
  [bs EXCEPT ![r.symbol_id][r.side] = RemoveLevel(@, r.side, r.price, r.qty)]

Overflows(bs, r) == bs[r.symbol_id][r.side].qty[r.price] + r.qty >= QtyMod

BestQty(book) == IF book.best_price = 0 THEN 0 ELSE book.qty[book.best_price]

\* top(): the best bid and offer of symbol s.
Top(bs, s) ==
  [side \in Sides |-> [price |-> bs[s][side].best_price, qty |-> BestQty(bs[s][side])]]

-----------------------------------------------------------------------------
Init ==
  /\ books = [s \in Symbols |-> [side \in Sides |-> EmptySide]]
  /\ last = [s \in Symbols |-> <<0, 0>>]
  /\ orders = <<>>
  /\ published = [s \in Symbols |-> [top |-> Top(books, s), last |-> <<0, 0>>]]
  /\ moved = {} /\ readded = {}
  /\ wrapped = FALSE

\* Mutant of TopsEqual: only the bids are compared.
BidsEqual(before, after) == before.bid = after.bid

TopsEqual(before, after) == before = after

\* The symbols for which an operation returns make_tick(): its own, when the operation
\* found its two tops different.
TickFor(s, before, after) == IF TopsEqual(before, after) THEN {} ELSE {s}

\* An operation returns a tick for the symbols of ticked.  It has moved an order between
\* the symbols of from, or added one again, from or to those of again.
Return(ticked, from, again) ==
  /\ published' = [i \in Symbols |->
       IF i \in ticked THEN [top |-> Top(books', i), last |-> last'[i]] ELSE published[i]]
  /\ moved' = (moved \cup from) \ ticked
  /\ readded' = (readded \cup again) \ ticked

\* on_add(): an order that is already resting is taken off its level first, and the
\* top is read after that.
Cleared(id) == IF id \in DOMAIN orders THEN WithoutOrder(books, orders[id]) ELSE books

AddTicks(id, r) ==
  TickFor(r.symbol_id, Top(Cleared(id), r.symbol_id), Top(WithOrder(Cleared(id), r), r.symbol_id))

OnAdd(id, r) ==
  /\ Cardinality(DOMAIN orders) < kOrderPool
  /\ books' = WithOrder(Cleared(id), r)
  /\ wrapped' = (wrapped \/ Overflows(Cleared(id), r))
  /\ orders' = [i \in DOMAIN orders \cup {id} |-> IF i = id THEN r ELSE orders[i]]
  /\ UNCHANGED last
  /\ Return(AddTicks(id, r), {},
            IF id \in DOMAIN orders THEN {r.symbol_id, orders[id].symbol_id} ELSE {})

\* on_modify(): the top of the order's old symbol is compared with the top of its
\* new one.
ModifyTicks(id, r) ==
  TickFor(r.symbol_id, Top(books, orders[id].symbol_id), Top(WithOrder(Cleared(id), r), r.symbol_id))

OnModify(id, r) ==
  LET old == orders[id].symbol_id
  IN  /\ id \in DOMAIN orders
      /\ books' = WithOrder(Cleared(id), r)
      /\ wrapped' = (wrapped \/ Overflows(Cleared(id), r))
      /\ orders' = [orders EXCEPT ![id] = r]
      /\ UNCHANGED last
      /\ Return(ModifyTicks(id, r), IF r.symbol_id # old THEN {r.symbol_id, old} ELSE {}, {})

DeleteTicks(id) ==
  TickFor(orders[id].symbol_id, Top(books, orders[id].symbol_id), Top(Cleared(id), orders[id].symbol_id))

OnDelete(id) ==
  /\ id \in DOMAIN orders
  /\ books' = Cleared(id)
  /\ orders' = Restrict(orders, DOMAIN orders \ {id})
  /\ UNCHANGED <<last, wrapped>>
  /\ Return(DeleteTicks(id), {}, {})

\* on_trade(): always returns a tick.
OnTrade(s, t) ==
  /\ last' = [last EXCEPT ![s] = t]
  /\ UNCHANGED <<books, orders, wrapped>>
  /\ Return({s}, {}, {})

Next ==
  \/ \E id \in OrderIds, r \in Order : OnAdd(id, r) \/ OnModify(id, r)
  \/ \E id \in OrderIds : OnDelete(id)
  \/ \E s \in Symbols, t \in Trades : OnTrade(s, t)

Spec == Init /\ [][Next]_vars

-----------------------------------------------------------------------------
SideBook ==
  [qty : [0 .. kPriceLevels -> 0 .. (QtyMod - 1)],
   occupied : [Words -> SUBSET (0 .. (WordBits - 1))],
   best_price : 0 .. kPriceLevels]

\* Every field of the books keeps the type and the index range book.hpp declares.
TypeOK ==
  /\ books \in [Symbols -> [Sides -> SideBook]]
  /\ last \in [Symbols -> Trades \cup {<<0, 0>>}]
  /\ DOMAIN orders \subseteq OrderIds /\ \A id \in DOMAIN orders : orders[id] \in Order
  /\ Cardinality(DOMAIN orders) <= kOrderPool
  /\ moved \subseteq Symbols /\ readded \subseteq Symbols /\ wrapped \in BOOLEAN

\* The prices whose bit is set.
Populated(book) == {p \in 0 .. kPriceLevels : p % WordBits \in book.occupied[p \div WordBits]}

\* best_price is the best populated level, across the words of the bitmap, and 0
\* when there is none; a level with a quantity is populated.  This survives an
\* overflow of a level's quantity.
BestIsBest ==
  \A s \in Symbols, side \in Sides :
    LET book == books[s][side]
    IN  /\ book.best_price = IF Populated(book) = {} THEN 0 ELSE BestOf(side, Populated(book))
        /\ {p \in 0 .. kPriceLevels : book.qty[p] # 0} \subseteq Populated(book)

\* As long as no level has overflowed, a level holds exactly the quantity of the
\* orders that rest on it, and only levels with orders are populated.
LevelsMatchOrders ==
  ~wrapped =>
    \A s \in Symbols, side \in Sides, p \in 0 .. kPriceLevels :
      LET at == {id \in DOMAIN orders :
                   orders[id].symbol_id = s /\ orders[id].side = side /\ orders[id].price = p}
      IN  /\ books[s][side].qty[p] = MapThenSumSet(LAMBDA id : orders[id].qty, at)
          /\ p \in Populated(books[s][side]) <=> at # {}

\* The BBO publisher is up to date on every symbol that no order was moved out of or
\* into, or added to again, since its last tick: an operation on an order that stays
\* in its symbol returns a tick whenever it changes that symbol's best bid or offer.
BboIsCurrentUnlessMoved ==
  \A s \in Symbols \ (moved \cup readded) :
    published[s] = [top |-> Top(books, s), last |-> last[s]]

\* The same without the exception for modify: on_modify() too returns nothing only when
\* no best bid or offer has changed, also when the order changes its symbol.
BboIsCurrentAfterModify ==
  \A s \in Symbols \ readded : published[s] = [top |-> Top(books, s), last |-> last[s]]
=============================================================================
