--------------------------- MODULE EventFlowProofs ---------------------------
(***************************************************************************)
(* The book and the output files that show it.  First the book, whatever   *)
(* messages it gets; then, on top of its invariant, what the files say,    *)
(* for every capacity of the queue and also when publish() gives up        *)
(* events.                                                                 *)
(***************************************************************************)
EXTENDS EventFlow, SlotLemmas, FiniteSetTheorems, SequenceTheorems

-----------------------------------------------------------------------------
(***************************************************************************)
(* The book, for every number of symbols, levels and bits of a word, and   *)
(* whatever the order messages: the best price is the best populated level *)
(* of its side, and a symbol's last tick shows its top unless an order was *)
(* moved or added again across symbols.                                    *)
(*                                                                         *)
(* The inductive invariant says of each side of each book that a set bit   *)
(* stands for a price (bits of the last word beyond kPriceLevels, and bit  *)
(* 0 of the first word, stay clear: recompute_best() scans them too), that *)
(* a level with a quantity has its bit set, and that best_price is the     *)
(* best of the set bits.                                                   *)
(***************************************************************************)
-----------------------------------------------------------------------------
(* The best of a set of prices. *)

\* x is in S and nothing in S is better.
IsBest(side, S, x) == x \in S /\ \A y \in S : ~Better(side, y, x)

\* A bounded set of numbers that is not empty has a largest and a smallest one.
LEMMA ExtremesExist ==
  ASSUME NEW n \in Nat, NEW S \in SUBSET (0 .. n), S # {}
  PROVE  /\ Max(S) \in S /\ \A y \in S : Max(S) >= y
         /\ Min(S) \in S /\ \A y \in S : Min(S) <= y
<1>1. \E x \in S : \A y \in S : x <= y
  BY LeastNumber
<1>2. \E x \in S : \A y \in S : x >= y
  <2> DEFINE T == {n - x : x \in S}
  <2>1. T \in SUBSET Nat /\ T # {}
    <3>1. \A x \in S : n - x \in Nat
      OBVIOUS
    <3> QED
      BY <3>1, Zenon
  <2>2. PICK t \in T : \A y \in T : t <= y
    <3> HIDE DEF T
    <3> QED
      BY <2>1, LeastNumber
  <2>3. PICK x \in S : t = n - x
    OBVIOUS
  <2>4. ASSUME NEW y \in S PROVE x >= y
    <3>1. t <= n - y
      BY <2>2
    <3> QED
      BY <2>3, <3>1
  <2> QED
    BY <2>4
<1> QED
  BY <1>1, <1>2 DEF Max, Min

LEMMA BestOfIsBest ==
  ASSUME NEW n \in Nat, NEW S \in SUBSET (0 .. n), S # {}, NEW side \in Sides
  PROVE  IsBest(side, S, BestOf(side, S))
<1>1. /\ Max(S) \in S /\ \A y \in S : Max(S) >= y
      /\ Min(S) \in S /\ \A y \in S : Min(S) <= y
  BY ExtremesExist
<1> DEFINE hi == Max(S)
           lo == Min(S)
<1>2. hi \in S /\ (\A y \in S : hi >= y) /\ lo \in S /\ (\A y \in S : lo <= y)
  BY <1>1
<1>3. BestOf(side, S) = IF side = "bid" THEN hi ELSE lo
  BY DEF BestOf
<1> HIDE DEF hi, lo
<1> QED
  BY <1>2, <1>3 DEF IsBest, Better

\* There is only one best.
LEMMA BestIsUnique ==
  ASSUME NEW S \in SUBSET Nat, NEW side, NEW x, NEW y, IsBest(side, S, x), IsBest(side, S, y)
  PROVE  x = y
BY DEF IsBest, Better

-----------------------------------------------------------------------------
(* Words and bits. *)

LEMMA BookConstants ==
  /\ kMaxSymbols \in Nat \ {0} /\ kPriceLevels \in Nat \ {0} /\ WordBits \in Nat \ {0}
  /\ QtyMod \in Nat \ {0} /\ kOrderPool \in Nat
  /\ Quantities \subseteq 1 .. (QtyMod - 1)
  /\ Trades \subseteq Prices \X Quantities
BY BookAssumption

\* A later word comes after every bit of an earlier one.
LEMMA WordsAreOrdered ==
  ASSUME NEW W \in Nat \ {0}, NEW v \in Nat, NEW w \in Nat, NEW b \in 0 .. (W - 1),
         NEW c \in 0 .. (W - 1), v < w
  PROVE  v * W + b < w * W + c
<1>1. (w - v) * W >= W
  <2>1. w - v >= 1 /\ w - v \in Nat
    OBVIOUS
  <2> QED
    BY <2>1
<1>2. w * W = v * W + (w - v) * W
  OBVIOUS
<1>3. v * W \in Nat /\ w * W \in Nat /\ (w - v) * W \in Int
  OBVIOUS
<1> QED
  BY <1>1, <1>2, <1>3

\* A price is its word and its bit.
LEMMA PriceIsBit ==
  ASSUME NEW W \in Nat \ {0}, NEW p \in Nat
  PROVE  /\ p \div W \in Nat /\ p % W \in 0 .. (W - 1)
         /\ p = ((p \div W) * W) + (p % W)
<1> DEFINE q == p \div W
<1>1. p = (W * q) + (p % W) /\ q \in Int /\ p % W \in 0 .. (W - 1)
  OBVIOUS
<1> HIDE DEF q
<1>2. q >= 0
  <2>1. SUFFICES ASSUME q <= -1 PROVE FALSE
    BY <1>1
  <2>2. W * q <= -W
    BY <1>1, <2>1
  <2> QED
    BY <1>1, <2>2
<1> QED
  BY <1>1, <1>2 DEF q

\* A word and a bit are those of one price.
LEMMA BitIsPrice ==
  ASSUME NEW W \in Nat \ {0}, NEW w \in Nat, NEW b \in 0 .. (W - 1)
  PROVE  /\ w * W + b \in Nat
         /\ (w * W + b) \div W = w /\ (w * W + b) % W = b
<1> DEFINE p == w * W + b
           q == p \div W
           c == p % W
<1>1. p \in Nat
  OBVIOUS
<1>2. q \in Nat /\ c \in 0 .. (W - 1) /\ p = q * W + c
  <2> HIDE DEF p
  <2> QED
    BY <1>1, PriceIsBit
<1>3. p = w * W + b
  OBVIOUS
<1> HIDE DEF p, q, c
<1>4. ~(q < w)
  BY <1>2, <1>3, WordsAreOrdered
<1>5. ~(w < q)
  BY <1>2, <1>3, WordsAreOrdered
<1>6. q = w
  BY <1>2, <1>4, <1>5
<1>7. c = b
  BY <1>2, <1>3, <1>6
<1> QED
  BY <1>1, <1>6, <1>7 DEF p, q, c

-----------------------------------------------------------------------------
(* The bitmap of a side. *)

Bitmaps == [Words -> SUBSET (0 .. (WordBits - 1))]

\* Every set bit stands for a price.
BitsArePrices(occupied) ==
  \A w \in Words : \A b \in occupied[w] : w * WordBits + b \in Prices

\* The prices whose bit is set; Populated() of a book.
PricesOf(occupied) == {p \in 0 .. kPriceLevels : p % WordBits \in occupied[p \div WordBits]}

LEMMA WordOfPrice ==
  ASSUME NEW p \in 0 .. kPriceLevels
  PROVE  /\ p \in Nat /\ p \div WordBits \in Words /\ p % WordBits \in 0 .. (WordBits - 1)
         /\ p = ((p \div WordBits) * WordBits) + (p % WordBits)
<1> DEFINE W == WordBits
           n == kPriceLevels
<1>1. W \in Nat \ {0} /\ n \in Nat /\ p \in Nat /\ p <= n
  BY BookConstants
<1> HIDE DEF W, n
<1> DEFINE v == p \div W
           b == p % W
           w == n \div W
           c == n % W
<1>2. v \in Nat /\ b \in 0 .. (W - 1) /\ p = (v * W) + b
  BY <1>1, PriceIsBit
<1>3. w \in Nat /\ c \in 0 .. (W - 1) /\ n = (w * W) + c
  BY <1>1, PriceIsBit
<1>4. v <= w
  <2> HIDE DEF v, b, w, c
  <2>1. ~(w < v)
    BY <1>1, <1>2, <1>3, WordsAreOrdered
  <2> QED
    BY <1>2, <1>3, <2>1
<1>5. v \in 0 .. w
  <2> HIDE DEF v, w
  <2> QED
    BY <1>2, <1>3, <1>4
<1> QED
  BY <1>1, <1>2, <1>5 DEF Words, W, n

LEMMA WordsAreNumbers == Words \subseteq 0 .. (kPriceLevels \div WordBits)
                           /\ kPriceLevels \div WordBits \in Nat
BY BookConstants, WordOfPrice DEF Words

\* A set bit is a populated price, and the other way around.
LEMMA BitIsPopulated ==
  ASSUME NEW occupied \in Bitmaps, BitsArePrices(occupied), NEW w \in Words, NEW b \in occupied[w]
  PROVE  w * WordBits + b \in PricesOf(occupied) /\ w * WordBits + b \in Prices
<1> DEFINE p == w * WordBits + b
<1>1. w \in Nat /\ b \in 0 .. (WordBits - 1)
  BY WordsAreNumbers DEF Bitmaps
<1>2. p \div WordBits = w /\ p % WordBits = b
  BY <1>1, BookConstants, BitIsPrice
<1>3. p \in Prices
  BY DEF BitsArePrices
<1>4. p \in 0 .. kPriceLevels
  BY <1>3, BookConstants DEF Prices
<1> HIDE DEF p
<1> QED
  BY <1>2, <1>3, <1>4 DEF PricesOf, p

\* No order rests at price 0: best_price = 0 is free to say that there is none.
LEMMA PopulatedArePrices ==
  ASSUME NEW occupied \in Bitmaps, BitsArePrices(occupied)
  PROVE  PricesOf(occupied) \subseteq Prices
<1> SUFFICES ASSUME NEW p \in PricesOf(occupied) PROVE p \in Prices
  OBVIOUS
<1>1. p \in 0 .. kPriceLevels /\ p % WordBits \in occupied[p \div WordBits]
  BY DEF PricesOf
<1>2. p \div WordBits \in Words /\ p = ((p \div WordBits) * WordBits) + (p % WordBits)
  BY <1>1, WordOfPrice
<1>3. ((p \div WordBits) * WordBits) + (p % WordBits) \in Prices
  BY <1>1, <1>2, Zenon DEF BitsArePrices
<1> QED
  BY <1>2, <1>3

\* The order of prices is that of their words, then that of their bits.
LEMMA BetterByWords ==
  ASSUME NEW side, NEW v \in Nat, NEW w \in Nat,
         NEW b \in 0 .. (WordBits - 1), NEW c \in 0 .. (WordBits - 1)
  PROVE  Better(side, v * WordBits + b, w * WordBits + c)
           <=> Better(side, v, w) \/ (v = w /\ Better(side, b, c))
<1> DEFINE W == WordBits
           x == v * W + b
           y == w * W + c
<1>1. v < w => x < y
  BY BookConstants, WordsAreOrdered
<1>2. w < v => y < x
  BY BookConstants, WordsAreOrdered
<1>3. v = w => (x < y <=> b < c) /\ (y < x <=> c < b)
  BY BookConstants
<1>4. x \in Int /\ y \in Int
  BY BookConstants
<1> HIDE DEF x, y
<1>5. (x < y <=> v < w \/ (v = w /\ b < c)) /\ (y < x <=> w < v \/ (v = w /\ c < b))
  BY <1>1, <1>2, <1>3, <1>4
<1>6. Better(side, x, y) <=> Better(side, v, w) \/ (v = w /\ Better(side, b, c))
  BY <1>4, <1>5 DEF Better
<1> QED
  BY <1>6, Zenon DEF x, y

\* setting a bit populates its price,
LEMMA SetOccupiedAdds ==
  ASSUME NEW occupied \in Bitmaps, BitsArePrices(occupied), NEW price \in Prices
  PROVE  /\ SetOccupied(occupied, price) \in Bitmaps
         /\ BitsArePrices(SetOccupied(occupied, price))
         /\ PricesOf(SetOccupied(occupied, price)) = PricesOf(occupied) \cup {price}
<1> DEFINE w == price \div WordBits
           b == price % WordBits
           new == SetOccupied(occupied, price)
<1>1. price \in 0 .. kPriceLevels
  BY BookConstants DEF Prices
<1>2. w \in Words /\ b \in 0 .. (WordBits - 1) /\ price = (w * WordBits) + b
  BY <1>1, WordOfPrice
<1>3. new = [occupied EXCEPT ![w] = @ \cup {b}]
  BY DEF SetOccupied
<1>4. new \in Bitmaps
  <2> HIDE DEF w, b, new
  <2> QED
    BY <1>2, <1>3 DEF Bitmaps
<1>5. \A v \in Words : \A c : c \in new[v] <=> c \in occupied[v] \/ (v = w /\ c = b)
  <2> HIDE DEF w, b, new
  <2> QED
    BY <1>2, <1>3 DEF Bitmaps
<1>6. BitsArePrices(new)
  <2> HIDE DEF w, b, new
  <2> SUFFICES ASSUME NEW v \in Words, NEW c \in new[v] PROVE v * WordBits + c \in Prices
    BY DEF BitsArePrices
  <2>1. CASE c \in occupied[v]
    BY <2>1 DEF BitsArePrices
  <2>2. CASE v = w /\ c = b
    BY <2>2, <1>2
  <2> QED
    BY <2>1, <2>2, <1>5
<1>7. ASSUME NEW p \in 0 .. kPriceLevels
      PROVE  p \in PricesOf(new) <=> p \in PricesOf(occupied) \/ p = price
  <2> DEFINE v == p \div WordBits
             c == p % WordBits
  <2>1. v \in Words /\ p = (v * WordBits) + c
    BY WordOfPrice
  <2>2. p \in PricesOf(new) <=> c \in new[v]
    BY DEF PricesOf
  <2>3. p \in PricesOf(occupied) <=> c \in occupied[v]
    BY DEF PricesOf
  <2>4. v = w /\ c = b => p = price
    <3> HIDE DEF v, c, w, b
    <3> QED
      BY <1>2, <2>1
  <2>5. p = price => v = w /\ c = b
    OBVIOUS
  <2> HIDE DEF v, c, w, b, new
  <2> QED
    BY <1>5, <2>1, <2>2, <2>3, <2>4, <2>5
<1>8. PricesOf(new) \subseteq 0 .. kPriceLevels /\ PricesOf(occupied) \subseteq 0 .. kPriceLevels
  BY DEF PricesOf
<1> HIDE DEF new
<1>9. PricesOf(new) = PricesOf(occupied) \cup {price}
  BY <1>1, <1>7, <1>8
<1> QED
  BY <1>4, <1>6, <1>9 DEF new

\* and clearing it takes the price away.
LEMMA ClearOccupiedRemoves ==
  ASSUME NEW occupied \in Bitmaps, BitsArePrices(occupied), NEW price \in Prices
  PROVE  /\ ClearOccupied(occupied, price) \in Bitmaps
         /\ BitsArePrices(ClearOccupied(occupied, price))
         /\ PricesOf(ClearOccupied(occupied, price)) = PricesOf(occupied) \ {price}
<1> DEFINE w == price \div WordBits
           b == price % WordBits
           new == ClearOccupied(occupied, price)
<1>1. price \in 0 .. kPriceLevels
  BY BookConstants DEF Prices
<1>2. w \in Words /\ b \in 0 .. (WordBits - 1) /\ price = (w * WordBits) + b
  BY <1>1, WordOfPrice
<1>3. new = [occupied EXCEPT ![w] = @ \ {b}]
  BY DEF ClearOccupied
<1>4. new \in Bitmaps
  <2> HIDE DEF w, b, new
  <2> QED
    BY <1>2, <1>3 DEF Bitmaps
<1>5. \A v \in Words : \A c : c \in new[v] <=> c \in occupied[v] /\ ~(v = w /\ c = b)
  <2> HIDE DEF w, b, new
  <2> QED
    BY <1>2, <1>3 DEF Bitmaps
<1>6. BitsArePrices(new)
  <2> HIDE DEF w, b, new
  <2> QED
    BY <1>5 DEF BitsArePrices
<1>7. ASSUME NEW p \in 0 .. kPriceLevels
      PROVE  p \in PricesOf(new) <=> p \in PricesOf(occupied) /\ p # price
  <2> DEFINE v == p \div WordBits
             c == p % WordBits
  <2>1. v \in Words /\ p = (v * WordBits) + c
    BY WordOfPrice
  <2>2. p \in PricesOf(new) <=> c \in new[v]
    BY DEF PricesOf
  <2>3. p \in PricesOf(occupied) <=> c \in occupied[v]
    BY DEF PricesOf
  <2>4. v = w /\ c = b => p = price
    <3> HIDE DEF v, c, w, b
    <3> QED
      BY <1>2, <2>1
  <2>5. p = price => v = w /\ c = b
    OBVIOUS
  <2> HIDE DEF v, c, w, b, new
  <2> QED
    BY <1>5, <2>1, <2>2, <2>3, <2>4, <2>5
<1>8. PricesOf(new) \subseteq 0 .. kPriceLevels /\ PricesOf(occupied) \subseteq 0 .. kPriceLevels
  BY DEF PricesOf
<1> HIDE DEF new
<1>9. PricesOf(new) = PricesOf(occupied) \ {price}
  BY <1>1, <1>7, <1>8
<1> QED
  BY <1>4, <1>6, <1>9 DEF new

\* recompute_best() finds the best populated price, or 0 when there is none, although
\* it looks only at the words from that of the old best price on: nothing that is
\* populated may be better than the old best.
LEMMA RecomputeFindsBest ==
  ASSUME NEW occupied \in Bitmaps, BitsArePrices(occupied), NEW side \in Sides,
         NEW old \in 0 .. kPriceLevels, \A p \in PricesOf(occupied) : ~Better(side, p, old)
  PROVE  LET best == RecomputeBest(occupied, side, old)
         IN  IF PricesOf(occupied) = {} THEN best = 0 ELSE IsBest(side, PricesOf(occupied), best)
<1> DEFINE first == old \div WordBits
           bit == old % WordBits
           Bits(w) == {b \in occupied[w] : w = first => ~Better(side, b, bit)}
           found == {w \in Words : ~Better(side, w, first) /\ Bits(w) # {}}
           word == BestOf(side, found)
           best == RecomputeBest(occupied, side, old)
<1>1. best = IF found = {} THEN 0 ELSE word * WordBits + BestOf(side, Bits(word))
  BY Zenon DEF RecomputeBest
<1>2. first \in Nat /\ bit \in 0 .. (WordBits - 1) /\ old = (first * WordBits) + bit
  <2>1. first \in Words /\ bit \in 0 .. (WordBits - 1) /\ old = (first * WordBits) + bit
    BY WordOfPrice
  <2> HIDE DEF first
  <2>2. first \in Nat
    BY <2>1, WordsAreNumbers
  <2> QED
    BY <2>1, <2>2
<1>3. \A w \in Words : w \in Nat /\ occupied[w] \subseteq 0 .. (WordBits - 1)
  BY WordsAreNumbers DEF Bitmaps
\* The masks hide nothing.
<1>4. ASSUME NEW w \in Words, NEW b \in occupied[w]
      PROVE  w \in found /\ b \in Bits(w)
  <2>1. w * WordBits + b \in PricesOf(occupied)
    BY BitIsPopulated
  <2>2. ~Better(side, w * WordBits + b, old)
    BY <2>1
  <2>3. w \in Nat /\ b \in 0 .. (WordBits - 1)
    BY <1>3
  <2> HIDE DEF first, bit
  <2>4. ~(Better(side, w, first) \/ (w = first /\ Better(side, b, bit)))
    BY <1>2, <2>2, <2>3, BetterByWords
  <2>5. b \in Bits(w)
    BY <2>4
  <2> QED
    BY <2>4, <2>5
<1>5. \A w \in found : w \in Words /\ Bits(w) # {} /\ Bits(w) \subseteq occupied[w]
  OBVIOUS
<1> HIDE DEF first, bit, Bits, found, best
<1>6. CASE found = {}
  <2>1. PricesOf(occupied) = {}
    <3> SUFFICES ASSUME NEW p \in PricesOf(occupied) PROVE FALSE
      OBVIOUS
    <3>1. p \in 0 .. kPriceLevels /\ p % WordBits \in occupied[p \div WordBits]
      BY DEF PricesOf
    <3>2. p \div WordBits \in Words
      BY <3>1, WordOfPrice
    <3> QED
      BY <1>4, <1>6, <3>1, <3>2
  <2> QED
    BY <1>1, <1>6, <2>1 DEF best
<1>7. CASE found # {}
  <2> DEFINE n == kPriceLevels \div WordBits
  <2>1. found \in SUBSET (0 .. n) /\ n \in Nat
    BY <1>5, WordsAreNumbers
  <2>2. IsBest(side, found, word)
    <3> HIDE DEF n
    <3> QED
      BY <1>7, <2>1, BestOfIsBest
  <2> HIDE DEF n, word
  <2>3. word \in found /\ word \in Words /\ word \in Nat
    BY <1>3, <1>5, <2>2 DEF IsBest
  <2> DEFINE low == BestOf(side, Bits(word))
  <2>4. Bits(word) \in SUBSET (0 .. (WordBits - 1)) /\ Bits(word) # {} /\ WordBits - 1 \in Nat
    BY <1>3, <1>5, <2>3, BookConstants
  <2>5. IsBest(side, Bits(word), low)
    BY <2>4, BestOfIsBest
  <2> HIDE DEF low
  <2>6. low \in Bits(word) /\ low \in occupied[word] /\ low \in 0 .. (WordBits - 1)
    BY <1>5, <2>3, <2>4, <2>5 DEF IsBest
  <2>7. best = word * WordBits + low
    BY <1>1, <1>7 DEF low, word
  <2>8. best \in PricesOf(occupied)
    BY <2>3, <2>6, <2>7, BitIsPopulated
  <2>9. ASSUME NEW p \in PricesOf(occupied) PROVE ~Better(side, p, best)
    <3> DEFINE v == p \div WordBits
               b == p % WordBits
    <3>1. p \in 0 .. kPriceLevels /\ b \in occupied[v]
      BY DEF PricesOf
    <3>2. v \in Words /\ p = (v * WordBits) + b
      BY <3>1, WordOfPrice
    <3> HIDE DEF v, b
    <3>3. v \in found /\ b \in Bits(v) /\ v \in Nat /\ b \in 0 .. (WordBits - 1)
      BY <1>3, <1>4, <3>1, <3>2
    <3>4. ~Better(side, v, word)
      BY <2>2, <3>3 DEF IsBest
    <3>5. v = word => ~Better(side, b, low)
      BY <2>5, <3>3 DEF IsBest
    <3> QED
      BY <2>3, <2>6, <2>7, <3>2, <3>3, <3>4, <3>5, BetterByWords
  <2> QED
    BY <2>8, <2>9 DEF IsBest, best
<1> QED
  BY <1>6, <1>7

-----------------------------------------------------------------------------
(* One side of a book. *)

SideInv(side, book) ==
  /\ book \in SideBook
  /\ BitsArePrices(book.occupied)
  /\ \A p \in 0 .. kPriceLevels : book.qty[p] # 0 => p \in PricesOf(book.occupied)
  /\ IF PricesOf(book.occupied) = {}
       THEN book.best_price = 0
       ELSE IsBest(side, PricesOf(book.occupied), book.best_price)

LEMMA SideBookFields ==
  ASSUME NEW book \in SideBook
  PROVE  /\ book.qty \in [0 .. kPriceLevels -> 0 .. (QtyMod - 1)]
         /\ book.occupied \in Bitmaps
         /\ book.best_price \in 0 .. kPriceLevels
BY DEF SideBook, Bitmaps

LEMMA EmptySideKeeps == ASSUME NEW side PROVE SideInv(side, EmptySide)
<1>1. EmptySide \in SideBook
  BY BookConstants DEF EmptySide, SideBook
<1>2. BitsArePrices(EmptySide.occupied)
  BY DEF BitsArePrices, EmptySide
<1>3. PricesOf(EmptySide.occupied) = {}
  <2> SUFFICES ASSUME NEW p \in PricesOf(EmptySide.occupied) PROVE FALSE
    OBVIOUS
  <2>1. p \div WordBits \in Words /\ p % WordBits \in EmptySide.occupied[p \div WordBits]
    BY WordOfPrice DEF PricesOf
  <2> QED
    BY <2>1 DEF EmptySide
<1> QED
  BY <1>1, <1>2, <1>3 DEF SideInv, EmptySide

\* best_price is 0 exactly when nothing is populated.
LEMMA NoBestPrice ==
  ASSUME NEW side, NEW book, SideInv(side, book)
  PROVE  book.best_price = 0 <=> PricesOf(book.occupied) = {}
<1>1. PricesOf(book.occupied) \subseteq Prices
  BY SideBookFields, PopulatedArePrices DEF SideInv
<1>2. 0 \notin Prices
  BY DEF Prices
<1> QED
  BY <1>1, <1>2 DEF SideInv, IsBest

\* add_level() sets the bit only of a level without quantity; one with a quantity has its
\* bit set already.
LEMMA AddLevelKeeps ==
  ASSUME NEW side \in Sides, NEW book, SideInv(side, book),
         NEW price \in Prices, NEW qty \in Quantities
  PROVE  SideInv(side, AddLevel(book, side, price, qty))
<1> DEFINE new == AddLevel(book, side, price, qty)
           was == PricesOf(book.occupied)
           sum == (book.qty[price] + qty) % QtyMod
<1>1. /\ book.qty \in [0 .. kPriceLevels -> 0 .. (QtyMod - 1)]
      /\ book.occupied \in Bitmaps
      /\ book.best_price \in 0 .. kPriceLevels
      /\ BitsArePrices(book.occupied)
      /\ price \in 0 .. kPriceLevels
  BY SideBookFields, BookConstants DEF SideInv, Prices
<1>2. sum \in 0 .. (QtyMod - 1)
  <2>1. book.qty[price] \in Nat /\ qty \in Nat /\ QtyMod \in Nat \ {0}
    BY <1>1, BookConstants
  <2>2. book.qty[price] + qty \in Nat
    BY <2>1
  <2> QED
    BY <2>1, <2>2, ModRange
<1>3. /\ new.qty = [book.qty EXCEPT ![price] = sum]
      /\ new.occupied = IF book.qty[price] = 0
                          THEN SetOccupied(book.occupied, price) ELSE book.occupied
      /\ new.best_price = IF book.best_price = 0 \/ Better(side, price, book.best_price)
                            THEN price ELSE book.best_price
      /\ new = [qty |-> new.qty, occupied |-> new.occupied, best_price |-> new.best_price]
  BY DEF AddLevel
<1>4. new.occupied \in Bitmaps /\ BitsArePrices(new.occupied)
        /\ PricesOf(new.occupied) = was \cup {price}
  <2>1. CASE book.qty[price] = 0
    BY <1>1, <1>3, <2>1, SetOccupiedAdds
  <2>2. CASE book.qty[price] # 0
    <3>1. price \in was
      BY <1>1, <2>2 DEF SideInv
    <3> QED
      BY <1>1, <1>3, <2>2, <3>1
  <2> QED
    BY <2>1, <2>2
<1> HIDE DEF new, sum
<1>5. new \in SideBook
  BY <1>1, <1>2, <1>3, <1>4 DEF SideBook, Bitmaps
<1>6. ASSUME NEW p \in 0 .. kPriceLevels, new.qty[p] # 0 PROVE p \in PricesOf(new.occupied)
  <2>1. p = price \/ book.qty[p] # 0
    BY <1>1, <1>3, <1>6
  <2> QED
    BY <1>4, <2>1 DEF SideInv
<1>7. IsBest(side, PricesOf(new.occupied), new.best_price)
  <2>1. book.best_price = 0 <=> was = {}
    BY NoBestPrice
  <2>2. ~Better(side, price, price)
    BY BookConstants DEF Better, Prices
  <2>3. CASE was = {}
    BY <1>3, <1>4, <2>1, <2>2, <2>3 DEF IsBest
  <2>4. CASE was # {}
    <3>1. IsBest(side, was, book.best_price)
      BY <2>4 DEF SideInv
    <3>2. was \subseteq Nat /\ price \in Nat /\ book.best_price \in Nat
      BY <1>1 DEF PricesOf
    <3>3. CASE Better(side, price, book.best_price)
      <4>1. \A p \in was : ~Better(side, p, price)
        BY <3>1, <3>2, <3>3 DEF IsBest, Better
      <4> QED
        BY <1>3, <1>4, <2>2, <3>3, <4>1 DEF IsBest
    <3>4. CASE ~Better(side, price, book.best_price)
      BY <1>3, <1>4, <2>1, <2>4, <3>1, <3>4 DEF IsBest
    <3> QED
      BY <3>3, <3>4
  <2> QED
    BY <2>3, <2>4
<1> QED
  BY <1>4, <1>5, <1>6, <1>7 DEF SideInv, new

\* The clamped difference is again a quantity.
LEMMA LevelLeftType ==
  ASSUME NEW level \in 0 .. (QtyMod - 1), NEW qty \in Quantities
  PROVE  LevelLeft(level, qty) \in 0 .. (QtyMod - 1) /\ (LevelLeft(level, qty) # 0 => level # 0)
BY BookConstants DEF LevelLeft

\* remove_level() recomputes the best price only when it was that level that became empty.
LEMMA RemoveLevelKeeps ==
  ASSUME NEW side \in Sides, NEW book, SideInv(side, book),
         NEW price \in Prices, NEW qty \in Quantities
  PROVE  SideInv(side, RemoveLevel(book, side, price, qty))
<1> DEFINE new == RemoveLevel(book, side, price, qty)
           was == PricesOf(book.occupied)
           left == LevelLeft(book.qty[price], qty)
<1>1. /\ book.qty \in [0 .. kPriceLevels -> 0 .. (QtyMod - 1)]
      /\ book.occupied \in Bitmaps
      /\ book.best_price \in 0 .. kPriceLevels
      /\ BitsArePrices(book.occupied)
      /\ price \in 0 .. kPriceLevels
  BY SideBookFields, BookConstants DEF SideInv, Prices
<1>2. left \in 0 .. (QtyMod - 1) /\ (left # 0 => book.qty[price] # 0)
  <2>1. book.qty[price] \in 0 .. (QtyMod - 1)
    BY <1>1
  <2> QED
    BY <2>1, LevelLeftType
<1>3. /\ new.qty = [book.qty EXCEPT ![price] = left]
      /\ new.occupied = IF left = 0 THEN ClearOccupied(book.occupied, price) ELSE book.occupied
      /\ new.best_price = IF price = book.best_price /\ left = 0
                            THEN RecomputeBest(new.occupied, side, book.best_price)
                            ELSE book.best_price
      /\ new = [qty |-> new.qty, occupied |-> new.occupied, best_price |-> new.best_price]
  BY DEF RemoveLevel
<1> HIDE DEF new, left
<1> DEFINE is == PricesOf(new.occupied)
<1>4. new.occupied \in Bitmaps /\ BitsArePrices(new.occupied)
        /\ is = IF left = 0 THEN was \ {price} ELSE was
  BY <1>1, <1>3, ClearOccupiedRemoves
<1>5. \A p \in was : ~Better(side, p, book.best_price)
  BY DEF SideInv, IsBest
<1>6. IF is = {} THEN new.best_price = 0 ELSE IsBest(side, is, new.best_price)
  <2>1. CASE price = book.best_price /\ left = 0
    <3>1. \A p \in is : ~Better(side, p, book.best_price)
      BY <1>4, <1>5
    <3> QED
      BY <1>1, <1>3, <1>4, <2>1, <3>1, RecomputeFindsBest
  <2>2. CASE ~(price = book.best_price /\ left = 0)
    <3>1. new.best_price = book.best_price
      BY <1>3, <2>2
    <3>2. CASE was = {}
      BY <1>4, <3>1, <3>2 DEF SideInv
    <3>3. CASE was # {}
      <4>1. IsBest(side, was, book.best_price)
        BY <3>3 DEF SideInv
      <4>2. book.best_price \in is /\ is \subseteq was
        BY <1>4, <2>2, <4>1 DEF IsBest
      <4> QED
        BY <3>1, <4>1, <4>2 DEF IsBest
    <3> QED
      BY <3>2, <3>3
  <2> QED
    BY <2>1, <2>2
<1>7. new.best_price \in 0 .. kPriceLevels
  BY <1>6, BookConstants DEF IsBest, PricesOf
<1>8. new \in SideBook
  BY <1>1, <1>2, <1>3, <1>4, <1>7 DEF SideBook, Bitmaps
<1>9. ASSUME NEW p \in 0 .. kPriceLevels, new.qty[p] # 0 PROVE p \in is
  <2>1. CASE p = price
    <3>1. left # 0
      BY <1>1, <1>3, <1>9, <2>1
    <3> QED
      BY <1>1, <1>2, <1>4, <2>1, <3>1 DEF SideInv
  <2>2. CASE p # price
    <3>1. book.qty[p] # 0
      BY <1>1, <1>3, <1>9, <2>2
    <3> QED
      BY <1>4, <2>2, <3>1 DEF SideInv
  <2> QED
    BY <2>1, <2>2
<1> QED
  BY <1>4, <1>6, <1>8, <1>9 DEF SideInv, new

-----------------------------------------------------------------------------
(* All books. *)

BooksInv(bs) ==
  /\ bs \in [Symbols -> [Sides -> SideBook]]
  /\ \A s \in Symbols, side \in Sides : SideInv(side, bs[s][side])

OrdersInv ==
  /\ IsFiniteSet(DOMAIN orders) /\ Cardinality(DOMAIN orders) <= kOrderPool
  /\ DOMAIN orders \subseteq OrderIds
  /\ \A id \in DOMAIN orders : orders[id] \in Order

HistoryInv ==
  /\ last \in [Symbols -> Trades \cup {<<0, 0>>}]
  /\ moved \subseteq Symbols /\ readded \subseteq Symbols /\ wrapped \in BOOLEAN

BookInv == BooksInv(books) /\ OrdersInv /\ HistoryInv /\ BboIsCurrentUnlessMoved

LEMMA OrderFields ==
  ASSUME NEW r \in Order
  PROVE  r.symbol_id \in Symbols /\ r.side \in Sides /\ r.price \in Prices /\ r.qty \in Quantities
BY DEF Order

\* Changing one side of one book leaves the other symbols alone.
LEMMA OneSideChanges ==
  ASSUME NEW bs, BooksInv(bs), NEW s \in Symbols, NEW side \in Sides,
         NEW new \in [Symbols -> [Sides -> SideBook]], SideInv(side, new[s][side]),
         \A i \in Symbols \ {s} : new[i] = bs[i],
         \A d \in Sides \ {side} : new[s][d] = bs[s][d]
  PROVE  BooksInv(new) /\ \A i \in Symbols \ {s} : Top(new, i) = Top(bs, i)
<1>1. ASSUME NEW i \in Symbols, NEW d \in Sides PROVE SideInv(d, new[i][d])
  BY DEF BooksInv
<1>2. \A i \in Symbols \ {s} : Top(new, i) = Top(bs, i)
  BY DEF Top
<1> QED
  BY <1>1, <1>2 DEF BooksInv

LEMMA WithOrderKeeps ==
  ASSUME NEW bs, BooksInv(bs), NEW r \in Order
  PROVE  /\ BooksInv(WithOrder(bs, r))
         /\ \A i \in Symbols \ {r.symbol_id} : Top(WithOrder(bs, r), i) = Top(bs, i)
<1> DEFINE s == r.symbol_id
           side == r.side
           book == AddLevel(bs[s][side], side, r.price, r.qty)
           new == WithOrder(bs, r)
<1>1. s \in Symbols /\ side \in Sides /\ bs \in [Symbols -> [Sides -> SideBook]]
  BY OrderFields DEF BooksInv
<1>2. SideInv(side, book) /\ book \in SideBook
  BY OrderFields, AddLevelKeeps DEF BooksInv, SideInv
<1>3. new = [bs EXCEPT ![s][side] = book]
  BY <1>1 DEF WithOrder
<1> HIDE DEF s, side, book, new
<1>4. /\ new \in [Symbols -> [Sides -> SideBook]] /\ new[s][side] = book
      /\ \A i \in Symbols \ {s} : new[i] = bs[i]
      /\ \A d \in Sides \ {side} : new[s][d] = bs[s][d]
  BY <1>1, <1>2, <1>3
<1>5. BooksInv(new) /\ \A i \in Symbols \ {s} : Top(new, i) = Top(bs, i)
  BY <1>1, <1>2, <1>4, OneSideChanges
<1> QED
  BY <1>5 DEF s, new

LEMMA WithoutOrderKeeps ==
  ASSUME NEW bs, BooksInv(bs), NEW r \in Order
  PROVE  /\ BooksInv(WithoutOrder(bs, r))
         /\ \A i \in Symbols \ {r.symbol_id} : Top(WithoutOrder(bs, r), i) = Top(bs, i)
<1> DEFINE s == r.symbol_id
           side == r.side
           book == RemoveLevel(bs[s][side], side, r.price, r.qty)
           new == WithoutOrder(bs, r)
<1>1. s \in Symbols /\ side \in Sides /\ bs \in [Symbols -> [Sides -> SideBook]]
  BY OrderFields DEF BooksInv
<1>2. SideInv(side, book) /\ book \in SideBook
  BY OrderFields, RemoveLevelKeeps DEF BooksInv, SideInv
<1>3. new = [bs EXCEPT ![s][side] = book]
  BY <1>1 DEF WithoutOrder
<1> HIDE DEF s, side, book, new
<1>4. /\ new \in [Symbols -> [Sides -> SideBook]] /\ new[s][side] = book
      /\ \A i \in Symbols \ {s} : new[i] = bs[i]
      /\ \A d \in Sides \ {side} : new[s][d] = bs[s][d]
  BY <1>1, <1>2, <1>3
<1>5. BooksInv(new) /\ \A i \in Symbols \ {s} : Top(new, i) = Top(bs, i)
  BY <1>1, <1>2, <1>4, OneSideChanges
<1> QED
  BY <1>5 DEF s, new

LEMMA ClearedKeeps ==
  ASSUME BookInv, NEW id
  PROVE  /\ BooksInv(Cleared(id))
         /\ id \in DOMAIN orders =>
              \A i \in Symbols \ {orders[id].symbol_id} : Top(Cleared(id), i) = Top(books, i)
         /\ id \notin DOMAIN orders => Cleared(id) = books
BY WithoutOrderKeeps DEF BookInv, OrdersInv, Cleared

\* What a returned tick does to the publisher's view of a symbol: it is current after the
\* operation when the operation ticked it, or left its top and last trade alone.
LEMMA ReturnKeepsBbo ==
  ASSUME BookInv, NEW ticked, NEW from, NEW again, Return(ticked, from, again),
         \A s \in Symbols \ (ticked \cup from \cup again \cup moved \cup readded) :
           Top(books', s) = Top(books, s) /\ last'[s] = last[s]
  PROVE  BboIsCurrentUnlessMoved'
<1> SUFFICES ASSUME NEW s \in Symbols, s \notin moved', s \notin readded'
             PROVE  published'[s] = [top |-> Top(books', s), last |-> last'[s]]
  BY DEF BboIsCurrentUnlessMoved, Top
<1>1. CASE s \in ticked
  BY <1>1 DEF Return
<1>2. CASE s \notin ticked
  <2>1. s \notin from /\ s \notin again /\ s \notin moved /\ s \notin readded
    BY <1>2 DEF Return
  <2>2. published'[s] = published[s]
    BY <1>2 DEF Return
  <2>3. published[s] = [top |-> Top(books, s), last |-> last[s]]
    BY <2>1 DEF BookInv, BboIsCurrentUnlessMoved
  <2>4. Top(books', s) = Top(books, s) /\ last'[s] = last[s]
    BY <1>2, <2>1
  <2> QED
    BY <2>2, <2>3, <2>4
<1> QED
  BY <1>1, <1>2

LEMMA ReturnKeepsHistory ==
  ASSUME BookInv, NEW ticked, NEW from \in SUBSET Symbols, NEW again \in SUBSET Symbols,
         Return(ticked, from, again)
  PROVE  moved' \subseteq Symbols /\ readded' \subseteq Symbols
BY DEF BookInv, HistoryInv, Return

LEMMA TickedSymbol ==
  ASSUME NEW s, NEW before, NEW after, s \notin TickFor(s, before, after)
  PROVE  before = after
BY DEF TickFor, TopsEqual

LEMMA OnAddKeepsInv ==
  ASSUME BookInv, NEW id \in OrderIds, NEW r \in Order, OnAdd(id, r)
  PROVE  BookInv'
<1> DEFINE again == IF id \in DOMAIN orders THEN {r.symbol_id, orders[id].symbol_id} ELSE {}
<1>1. r.symbol_id \in Symbols /\ again \in SUBSET Symbols
  BY OrderFields DEF BookInv, OrdersInv
<1>2. Return(AddTicks(id, r), {}, again) /\ last' = last
  BY DEF OnAdd
<1>3. BooksInv(Cleared(id))
  BY ClearedKeeps
<1>4. books' = WithOrder(Cleared(id), r)
  BY DEF OnAdd
<1>5. BooksInv(books)'
  <2>1. BooksInv(WithOrder(Cleared(id), r))
    BY <1>3, WithOrderKeeps
  <2> QED
    BY <1>4, <2>1 DEF BooksInv
<1>6. OrdersInv'
  <2>1. IsFiniteSet(DOMAIN orders) /\ Cardinality(DOMAIN orders) \in Nat
    BY FS_CardinalityType DEF BookInv, OrdersInv
  <2>2. DOMAIN orders' = DOMAIN orders \cup {id}
    BY DEF OnAdd
  <2>3. /\ IsFiniteSet(DOMAIN orders \cup {id})
        /\ Cardinality(DOMAIN orders \cup {id}) <= Cardinality(DOMAIN orders) + 1
    BY <2>1, FS_AddElement
  <2>4. Cardinality(DOMAIN orders \cup {id}) \in Nat
    BY <2>3, FS_CardinalityType
  <2>5. Cardinality(DOMAIN orders \cup {id}) <= kOrderPool
    BY <2>1, <2>3, <2>4, BookConstants DEF OnAdd
  <2>6. \A i \in DOMAIN orders' : orders'[i] \in Order
    BY DEF OnAdd, BookInv, OrdersInv
  <2> QED
    BY <2>2, <2>3, <2>5, <2>6 DEF BookInv, OrdersInv
<1>7. HistoryInv'
  <2>1. moved' \subseteq Symbols /\ readded' \subseteq Symbols
    BY <1>1, <1>2, ReturnKeepsHistory
  <2>2. wrapped' \in BOOLEAN
    BY DEF OnAdd
  <2> QED
    BY <1>2, <2>1, <2>2 DEF BookInv, HistoryInv
<1>8. ASSUME NEW s \in Symbols \ (AddTicks(id, r) \cup {} \cup again \cup moved \cup readded)
      PROVE  Top(books', s) = Top(books, s) /\ last'[s] = last[s]
  <2>1. CASE id \in DOMAIN orders
    <3>1. s # r.symbol_id /\ s # orders[id].symbol_id
      BY <2>1
    <3>2. Top(Cleared(id), s) = Top(books, s)
      BY <2>1, <3>1, ClearedKeeps
    <3>3. Top(WithOrder(Cleared(id), r), s) = Top(Cleared(id), s)
      BY <1>3, <3>1, WithOrderKeeps
    <3> QED
      BY <1>2, <1>4, <3>2, <3>3
  <2>2. CASE id \notin DOMAIN orders
    <3>1. Cleared(id) = books
      BY <2>2, ClearedKeeps
    <3>2. Top(WithOrder(books, r), s) = Top(books, s)
      <4>1. CASE s = r.symbol_id
        <5>1. s \notin TickFor(s, Top(books, s), Top(WithOrder(books, r), s))
          BY <3>1, <4>1 DEF AddTicks
        <5> QED
          BY <5>1, TickedSymbol
      <4>2. CASE s # r.symbol_id
        BY <4>2, WithOrderKeeps DEF BookInv
      <4> QED
        BY <4>1, <4>2
    <3> QED
      BY <1>2, <1>4, <3>1, <3>2
  <2> QED
    BY <2>1, <2>2
<1> HIDE DEF again
<1>9. BboIsCurrentUnlessMoved'
  BY <1>2, <1>8, ReturnKeepsBbo
<1> QED
  BY <1>5, <1>6, <1>7, <1>9 DEF BookInv

LEMMA OnModifyKeepsInv ==
  ASSUME BookInv, NEW id \in OrderIds, NEW r \in Order, OnModify(id, r)
  PROVE  BookInv'
<1> DEFINE old == orders[id].symbol_id
           from == IF r.symbol_id # old THEN {r.symbol_id, old} ELSE {}
<1>1. /\ id \in DOMAIN orders /\ orders[id] \in Order
      /\ r.symbol_id \in Symbols /\ old \in Symbols /\ from \in SUBSET Symbols
  BY OrderFields DEF BookInv, OrdersInv, OnModify
<1>2. Return(ModifyTicks(id, r), from, {}) /\ last' = last
  BY DEF OnModify
<1>3. BooksInv(Cleared(id))
  BY ClearedKeeps
<1>4. books' = WithOrder(Cleared(id), r)
  BY DEF OnModify
<1>5. BooksInv(books)'
  <2>1. BooksInv(WithOrder(Cleared(id), r))
    BY <1>3, WithOrderKeeps
  <2> QED
    BY <1>4, <2>1 DEF BooksInv
<1>6. OrdersInv'
  <2>1. DOMAIN orders' = DOMAIN orders
    BY DEF OnModify
  <2>2. \A i \in DOMAIN orders' : orders'[i] \in Order
    BY DEF OnModify, BookInv, OrdersInv
  <2> QED
    BY <2>1, <2>2 DEF BookInv, OrdersInv
<1>7. HistoryInv'
  <2>1. moved' \subseteq Symbols /\ readded' \subseteq Symbols
    BY <1>1, <1>2, ReturnKeepsHistory
  <2>2. wrapped' \in BOOLEAN
    BY DEF OnModify
  <2> QED
    BY <1>2, <2>1, <2>2 DEF BookInv, HistoryInv
<1>8. ASSUME NEW s \in Symbols \ (ModifyTicks(id, r) \cup from \cup {} \cup moved \cup readded)
      PROVE  Top(books', s) = Top(books, s) /\ last'[s] = last[s]
  <2>1. CASE s = r.symbol_id
    <3>1. old = s
      BY <2>1
    <3>2. s \notin TickFor(s, Top(books, s), Top(WithOrder(Cleared(id), r), s))
      BY <2>1, <3>1 DEF ModifyTicks
    <3> QED
      BY <1>2, <1>4, <3>2, TickedSymbol
  <2>2. CASE s # r.symbol_id
    <3>1. s # old
      BY <2>2
    <3>2. Top(Cleared(id), s) = Top(books, s)
      BY <1>1, <3>1, ClearedKeeps
    <3>3. Top(WithOrder(Cleared(id), r), s) = Top(Cleared(id), s)
      BY <1>3, <2>2, WithOrderKeeps
    <3> QED
      BY <1>2, <1>4, <3>2, <3>3
  <2> QED
    BY <2>1, <2>2
<1> HIDE DEF from
<1>9. BboIsCurrentUnlessMoved'
  BY <1>2, <1>8, ReturnKeepsBbo
<1> QED
  BY <1>5, <1>6, <1>7, <1>9 DEF BookInv

LEMMA OnDeleteKeepsInv ==
  ASSUME BookInv, NEW id \in OrderIds, OnDelete(id)
  PROVE  BookInv'
<1> DEFINE old == orders[id].symbol_id
<1>1. id \in DOMAIN orders /\ orders[id] \in Order /\ old \in Symbols
  BY OrderFields DEF BookInv, OrdersInv, OnDelete
<1>2. Return(DeleteTicks(id), {}, {}) /\ last' = last
  BY DEF OnDelete
<1>3. books' = Cleared(id)
  BY DEF OnDelete
<1>4. BooksInv(books)'
  BY <1>3, ClearedKeeps DEF BooksInv
<1>5. OrdersInv'
  <2>1. DOMAIN orders' = DOMAIN orders \ {id} /\ \A i \in DOMAIN orders' : orders'[i] = orders[i]
    BY DEF OnDelete, Restrict
  <2>2. IsFiniteSet(DOMAIN orders) /\ Cardinality(DOMAIN orders) \in Nat
    BY FS_CardinalityType DEF BookInv, OrdersInv
  <2>3. /\ IsFiniteSet(DOMAIN orders \ {id})
        /\ Cardinality(DOMAIN orders \ {id}) = Cardinality(DOMAIN orders) - 1
    BY <1>1, <2>2, FS_RemoveElement
  <2>4. Cardinality(DOMAIN orders \ {id}) <= kOrderPool
    BY <2>2, <2>3, BookConstants DEF BookInv, OrdersInv
  <2> QED
    BY <2>1, <2>3, <2>4 DEF BookInv, OrdersInv
<1>6. HistoryInv'
  <2>1. moved' \subseteq Symbols /\ readded' \subseteq Symbols
    BY <1>2, ReturnKeepsHistory
  <2>2. wrapped' = wrapped
    BY DEF OnDelete
  <2> QED
    BY <1>2, <2>1, <2>2 DEF BookInv, HistoryInv
<1>7. ASSUME NEW s \in Symbols \ (DeleteTicks(id) \cup {} \cup {} \cup moved \cup readded)
      PROVE  Top(books', s) = Top(books, s) /\ last'[s] = last[s]
  <2>1. CASE s = old
    <3>1. s \notin TickFor(s, Top(books, s), Top(Cleared(id), s))
      BY <2>1 DEF DeleteTicks
    <3> QED
      BY <1>2, <1>3, <3>1, TickedSymbol
  <2>2. CASE s # old
    BY <1>1, <1>2, <1>3, <2>2, ClearedKeeps
  <2> QED
    BY <2>1, <2>2
<1>8. BboIsCurrentUnlessMoved'
  BY <1>2, <1>7, ReturnKeepsBbo
<1> QED
  BY <1>4, <1>5, <1>6, <1>8 DEF BookInv

LEMMA OnTradeKeepsInv ==
  ASSUME BookInv, NEW s \in Symbols, NEW t \in Trades, OnTrade(s, t)
  PROVE  BookInv'
<1>1. /\ last' = [last EXCEPT ![s] = t] /\ books' = books /\ orders' = orders
      /\ wrapped' = wrapped /\ Return({s}, {}, {})
  BY DEF OnTrade
<1>2. BooksInv(books)' /\ OrdersInv'
  BY <1>1 DEF BookInv, BooksInv, OrdersInv
<1>3. HistoryInv'
  <2>1. moved' \subseteq Symbols /\ readded' \subseteq Symbols
    BY <1>1, ReturnKeepsHistory
  <2> QED
    BY <1>1, <2>1 DEF BookInv, HistoryInv
<1>4. ASSUME NEW i \in Symbols \ ({s} \cup {} \cup {} \cup moved \cup readded)
      PROVE  Top(books', i) = Top(books, i) /\ last'[i] = last[i]
  BY <1>1 DEF BookInv, HistoryInv
<1>5. BboIsCurrentUnlessMoved'
  BY <1>1, <1>4, ReturnKeepsBbo
<1> QED
  BY <1>2, <1>3, <1>5 DEF BookInv

LEMMA NextKeepsBook == ASSUME BookInv, [Next]_vars PROVE BookInv'
<1>1. ASSUME NEW id \in OrderIds, NEW r \in Order, OnAdd(id, r) \/ OnModify(id, r) PROVE BookInv'
  BY <1>1, OnAddKeepsInv, OnModifyKeepsInv
<1>2. ASSUME NEW id \in OrderIds, OnDelete(id) PROVE BookInv'
  BY <1>2, OnDeleteKeepsInv
<1>3. ASSUME NEW s \in Symbols, NEW t \in Trades, OnTrade(s, t) PROVE BookInv'
  BY <1>3, OnTradeKeepsInv
<1>4. CASE UNCHANGED vars
  BY <1>4 DEF vars, BookInv, BooksInv, OrdersInv, HistoryInv, BboIsCurrentUnlessMoved, Top
<1> QED
  BY <1>1, <1>2, <1>3, <1>4 DEF Next

LEMMA InitSatisfiesBookInv == ASSUME Init PROVE BookInv
<1>1. BooksInv(books)
  BY EmptySideKeeps DEF Init, BooksInv, SideInv
<1>2. OrdersInv
  <2>1. DOMAIN orders = {}
    BY DEF Init
  <2> QED
    BY <2>1, FS_EmptySet, BookConstants DEF OrdersInv
<1>3. HistoryInv /\ BboIsCurrentUnlessMoved
  BY DEF Init, HistoryInv, BboIsCurrentUnlessMoved
<1> QED
  BY <1>1, <1>2, <1>3 DEF BookInv

LEMMA BookInvHolds == Spec => []BookInv
<1>1. Init => BookInv
  BY InitSatisfiesBookInv
<1>2. BookInv /\ [Next]_vars => BookInv'
  BY NextKeepsBook
<1> QED
  BY <1>1, <1>2, PTL DEF Spec

\* Whatever messages on_add(), on_modify(), on_delete() and on_trade() get, the levels,
\* bitmaps, best prices, orders and last trades stay within their types.
THEOREM BookIsWellTyped == Spec => []TypeOK
<1>1. BookInv => TypeOK
  BY DEF BookInv, BooksInv, OrdersInv, HistoryInv, TypeOK
<1> QED
  BY <1>1, BookInvHolds, PTL

\* best_price is the best populated level for every number of levels and every width of
\* a word, after any sequence of adds, modifies and deletes, overflows included.
THEOREM BestPriceIsBest == Spec => []BestIsBest
<1>1. ASSUME BookInv, NEW s \in Symbols, NEW side \in Sides
      PROVE  LET book == books[s][side]
             IN  /\ book.best_price =
                      IF Populated(book) = {} THEN 0 ELSE BestOf(side, Populated(book))
                 /\ {p \in 0 .. kPriceLevels : book.qty[p] # 0} \subseteq Populated(book)
  <2> DEFINE book == books[s][side]
             levels == PricesOf(book.occupied)
  <2>1. SideInv(side, book)
    BY <1>1 DEF BookInv, BooksInv
  <2>2. Populated(book) = levels
    BY DEF Populated, PricesOf
  <2>3. levels \in SUBSET (0 .. kPriceLevels) /\ levels \in SUBSET Nat /\ kPriceLevels \in Nat
    BY BookConstants DEF PricesOf
  <2> HIDE DEF book, levels
  <2>4. levels # {} => book.best_price = BestOf(side, levels)
    <3>1. SUFFICES ASSUME levels # {} PROVE book.best_price = BestOf(side, levels)
      OBVIOUS
    <3>2. IsBest(side, levels, book.best_price)
      BY <2>1, <3>1 DEF SideInv, levels
    <3>3. IsBest(side, levels, BestOf(side, levels))
      BY <2>3, <3>1, BestOfIsBest
    <3> QED
      BY <2>3, <3>2, <3>3, BestIsUnique
  <2>5. levels = {} => book.best_price = 0
    BY <2>1 DEF SideInv, levels
  <2>6. \A p \in 0 .. kPriceLevels : book.qty[p] # 0 => p \in levels
    BY <2>1 DEF SideInv, levels
  <2> QED
    BY <2>2, <2>4, <2>5, <2>6 DEF book
<1>2. BookInv => BestIsBest
  BY <1>1 DEF BestIsBest
<1> QED
  BY <1>2, BookInvHolds, PTL

\* The last tick of a symbol shows its top and last trade unless an order was moved out
\* of or into the symbol, or added again, since: the comparison of the two tops misses
\* no change in any other case.
THEOREM TicksAreCurrent == Spec => []BboIsCurrentUnlessMoved
<1>1. BookInv => BboIsCurrentUnlessMoved
  BY DEF BookInv
<1> QED
  BY <1>1, BookInvHolds, PTL

-----------------------------------------------------------------------------
(***************************************************************************)
(* The levels hold the orders.  What a level should hold is a sum over the *)
(* set of the orders on it (QtySum of SlotLemmas).                         *)
(***************************************************************************)
(* What add_level() and remove_level() do to the levels. *)

LEMMA AddLevelEffect ==
  ASSUME NEW side, NEW book, SideInv(side, book), NEW price \in Prices, NEW qty, NEW new,
         new = AddLevel(book, side, price, qty)
  PROVE  /\ \A p \in 0 .. kPriceLevels : p # price =>
              /\ new.qty[p] = book.qty[p]
              /\ p \in PricesOf(new.occupied) <=> p \in PricesOf(book.occupied)
         /\ new.qty[price] = (book.qty[price] + qty) % QtyMod
         /\ price \in PricesOf(new.occupied)
<1>1. /\ book.qty \in [0 .. kPriceLevels -> 0 .. (QtyMod - 1)]
      /\ book.occupied \in Bitmaps
      /\ BitsArePrices(book.occupied)
      /\ price \in 0 .. kPriceLevels
  BY SideBookFields, BookConstants DEF SideInv, Prices
<1>2. /\ new.qty = [book.qty EXCEPT ![price] = (book.qty[price] + qty) % QtyMod]
      /\ new.occupied = IF book.qty[price] = 0
                          THEN SetOccupied(book.occupied, price) ELSE book.occupied
  BY DEF AddLevel
<1>3. PricesOf(new.occupied) = PricesOf(book.occupied) \cup {price}
  <2>1. CASE book.qty[price] = 0
    BY <1>1, <1>2, <2>1, SetOccupiedAdds
  <2>2. CASE book.qty[price] # 0
    <3>1. price \in PricesOf(book.occupied)
      BY <1>1, <2>2 DEF SideInv
    <3> QED
      BY <1>2, <2>2, <3>1
  <2> QED
    BY <2>1, <2>2
<1>4. /\ new.qty[price] = (book.qty[price] + qty) % QtyMod
      /\ \A p \in 0 .. kPriceLevels : p # price => new.qty[p] = book.qty[p]
  BY <1>1, <1>2
<1> QED
  BY <1>3, <1>4

LEMMA RemoveLevelEffect ==
  ASSUME NEW side, NEW book, SideInv(side, book), NEW price \in Prices, NEW qty, NEW new,
         new = RemoveLevel(book, side, price, qty)
  PROVE  /\ \A p \in 0 .. kPriceLevels : p # price =>
              /\ new.qty[p] = book.qty[p]
              /\ p \in PricesOf(new.occupied) <=> p \in PricesOf(book.occupied)
         /\ new.qty[price] = LevelLeft(book.qty[price], qty)
         /\ price \in PricesOf(new.occupied) <=>
              LevelLeft(book.qty[price], qty) # 0 /\ price \in PricesOf(book.occupied)
<1> DEFINE left == LevelLeft(book.qty[price], qty)
<1>1. /\ book.qty \in [0 .. kPriceLevels -> 0 .. (QtyMod - 1)]
      /\ book.occupied \in Bitmaps
      /\ BitsArePrices(book.occupied)
      /\ price \in 0 .. kPriceLevels
  BY SideBookFields, BookConstants DEF SideInv, Prices
<1>2. /\ new.qty = [book.qty EXCEPT ![price] = left]
      /\ new.occupied = IF left = 0 THEN ClearOccupied(book.occupied, price) ELSE book.occupied
  BY DEF RemoveLevel
<1> HIDE DEF left
<1>3. PricesOf(new.occupied) =
        IF left = 0 THEN PricesOf(book.occupied) \ {price} ELSE PricesOf(book.occupied)
  BY <1>1, <1>2, ClearOccupiedRemoves
<1>4. /\ new.qty[price] = left
      /\ \A p \in 0 .. kPriceLevels : p # price => new.qty[p] = book.qty[p]
  BY <1>1, <1>2
<1>5. /\ new.qty[price] = left
      /\ price \in PricesOf(new.occupied) <=> left # 0 /\ price \in PricesOf(book.occupied)
  BY <1>3, <1>4
<1>6. \A p \in 0 .. kPriceLevels : p # price =>
        /\ new.qty[p] = book.qty[p]
        /\ p \in PricesOf(new.occupied) <=> p \in PricesOf(book.occupied)
  BY <1>3, <1>4
<1> QED
  BY <1>5, <1>6 DEF left

LEMMA WithOrderSides ==
  ASSUME NEW bs, BooksInv(bs), NEW r \in Order, NEW s \in Symbols, NEW side \in Sides
  PROVE  WithOrder(bs, r)[s][side] =
           IF s = r.symbol_id /\ side = r.side
             THEN AddLevel(bs[s][side], r.side, r.price, r.qty) ELSE bs[s][side]
<1>1. r.symbol_id \in Symbols /\ r.side \in Sides /\ bs \in [Symbols -> [Sides -> SideBook]]
  BY OrderFields DEF BooksInv
<1> QED
  BY <1>1 DEF WithOrder

LEMMA WithoutOrderSides ==
  ASSUME NEW bs, BooksInv(bs), NEW r \in Order, NEW s \in Symbols, NEW side \in Sides
  PROVE  WithoutOrder(bs, r)[s][side] =
           IF s = r.symbol_id /\ side = r.side
             THEN RemoveLevel(bs[s][side], r.side, r.price, r.qty) ELSE bs[s][side]
<1>1. r.symbol_id \in Symbols /\ r.side \in Sides /\ bs \in [Symbols -> [Sides -> SideBook]]
  BY OrderFields DEF BooksInv
<1> QED
  BY <1>1 DEF WithoutOrder

-----------------------------------------------------------------------------
(* The levels and the orders. *)

At(o, id, s, side, p) == o[id].symbol_id = s /\ o[id].side = side /\ o[id].price = p

OrdersAt(o, s, side, p) == {id \in DOMAIN o : At(o, id, s, side, p)}

\* Level p of a side holds the quantity of the orders on it, and is populated by them.
LevelHolds(book, o, on, p) ==
  book.qty[p] = QtySum(o, on) /\ (p \in PricesOf(book.occupied) <=> on # {})

MatchInv(bs, o) ==
  \A s \in Symbols, side \in Sides, p \in 0 .. kPriceLevels :
    LevelHolds(bs[s][side], o, OrdersAt(o, s, side, p), p)

OrderMap(o) == IsFiniteSet(DOMAIN o) /\ \A id \in DOMAIN o : o[id] \in Order

LEMMA OrdersAtFacts ==
  ASSUME NEW o, OrderMap(o), NEW s, NEW side, NEW p
  PROVE  /\ IsFiniteSet(OrdersAt(o, s, side, p)) /\ OrdersAt(o, s, side, p) \subseteq DOMAIN o
         /\ \A id \in OrdersAt(o, s, side, p) : o[id].qty \in Nat \ {0}
<1>1. OrdersAt(o, s, side, p) \subseteq DOMAIN o
  BY DEF OrdersAt
<1>2. IsFiniteSet(OrdersAt(o, s, side, p))
  BY <1>1, FS_Subset DEF OrderMap
<1>3. \A id \in DOMAIN o : o[id].qty \in Quantities
  BY OrderFields DEF OrderMap
<1>4. Quantities \subseteq Nat \ {0}
  BY BookAssumption DEF BookAssumption
<1> QED
  BY <1>1, <1>2, <1>3, <1>4

\* A level whose orders are the same holds them still.
LEMMA SameLevelHolds ==
  ASSUME NEW o, OrderMap(o), NEW q, NEW s, NEW side, NEW p \in 0 .. kPriceLevels,
         OrdersAt(q, s, side, p) = OrdersAt(o, s, side, p),
         \A id \in OrdersAt(o, s, side, p) : q[id] = o[id],
         NEW book, NEW new, LevelHolds(book, o, OrdersAt(o, s, side, p), p),
         new.qty[p] = book.qty[p], p \in PricesOf(new.occupied) <=> p \in PricesOf(book.occupied)
  PROVE  LevelHolds(new, q, OrdersAt(q, s, side, p), p)
<1> DEFINE on == OrdersAt(o, s, side, p)
<1>1. IsFiniteSet(on) /\ \A id \in on : o[id].qty = q[id].qty
  BY OrdersAtFacts
<1> HIDE DEF on
<1>2. QtySum(o, on) = QtySum(q, on)
  BY <1>1, QtySumSame
<1> QED
  BY <1>2 DEF LevelHolds, on

\* Taking an order off its level leaves the sum of the others, and clears the bit with the
\* last of them.
LEMMA RemoveMatch ==
  ASSUME NEW bs, BooksInv(bs), NEW o, OrderMap(o), MatchInv(bs, o), NEW id \in DOMAIN o,
         NEW q, DOMAIN q = DOMAIN o \ {id}, \A i \in DOMAIN q : q[i] = o[i]
  PROVE  MatchInv(WithoutOrder(bs, o[id]), q) /\ OrderMap(q)
<1> DEFINE r == o[id]
           new == WithoutOrder(bs, r)
<1>1. /\ r \in Order /\ r.symbol_id \in Symbols /\ r.side \in Sides
      /\ r.price \in Prices /\ r.qty \in Quantities
  BY OrderFields DEF OrderMap
<1>2. OrderMap(q)
  <2>1. IsFiniteSet(DOMAIN q)
    BY FS_Subset DEF OrderMap
  <2> QED
    BY <2>1 DEF OrderMap
<1>3. ASSUME NEW s \in Symbols, NEW side \in Sides
      PROVE  new[s][side] = IF s = r.symbol_id /\ side = r.side
               THEN RemoveLevel(bs[s][side], r.side, r.price, r.qty) ELSE bs[s][side]
  BY <1>1, WithoutOrderSides
<1>4. ASSUME NEW s \in Symbols, NEW side \in Sides PROVE SideInv(side, bs[s][side])
  BY DEF BooksInv
<1>5. \A s, side, p : ~At(o, id, s, side, p) => OrdersAt(q, s, side, p) = OrdersAt(o, s, side, p)
  BY DEF OrdersAt, At
<1>6. \A s, side, p : At(o, id, s, side, p) =>
        OrdersAt(q, s, side, p) = OrdersAt(o, s, side, p) \ {id}
  BY DEF OrdersAt, At
<1> HIDE DEF new
<1>7. ASSUME NEW s \in Symbols, NEW side \in Sides, NEW p \in 0 .. kPriceLevels
      PROVE  LevelHolds(new[s][side], q, OrdersAt(q, s, side, p), p)
  <2> DEFINE was == bs[s][side]
             on == OrdersAt(o, s, side, p)
             left == OrdersAt(q, s, side, p)
  <2>1. LevelHolds(was, o, on, p)
    BY DEF MatchInv
  <2>2. CASE ~At(o, id, s, side, p)
    <3>1. left = on /\ \A i \in on : q[i] = o[i]
      <4>1. left = on
        BY <1>5, <2>2
      <4>2. \A i \in left : q[i] = o[i]
        BY DEF OrdersAt
      <4> QED
        BY <4>1, <4>2
    <3>2. /\ new[s][side].qty[p] = was.qty[p]
          /\ p \in PricesOf(new[s][side].occupied) <=> p \in PricesOf(was.occupied)
      <4>1. CASE s = r.symbol_id /\ side = r.side
        <5>1. p # r.price
          BY <2>2, <4>1 DEF At
        <5>2. new[s][side] = RemoveLevel(was, side, r.price, r.qty)
          BY <1>3, <4>1
        <5>3. SideInv(side, was)
          BY <1>4
        <5> HIDE DEF was, r
        <5> QED
          BY <1>1, <5>1, <5>2, <5>3, RemoveLevelEffect
      <4>2. CASE ~(s = r.symbol_id /\ side = r.side)
        BY <1>3, <4>2
      <4> QED
        BY <4>1, <4>2
    <3> QED
      BY <2>1, <3>1, <3>2, SameLevelHolds
  <2>3. CASE At(o, id, s, side, p)
    <3>1. s = r.symbol_id /\ side = r.side /\ p = r.price /\ id \in on
      BY <2>3 DEF At, OrdersAt
    <3>2. left = on \ {id}
      BY <1>6, <2>3
    <3>3. IsFiniteSet(on) /\ \A i \in on : o[i].qty \in Nat \ {0}
      BY OrdersAtFacts
    <3>4. IsFiniteSet(left) /\ \A i \in left : q[i].qty \in Nat \ {0}
      BY <1>2, OrdersAtFacts
    <3>5. \A i \in left : q[i].qty = o[i].qty
      BY DEF OrdersAt
    <3> HIDE DEF was, on, left
    <3>6. QtySum(o, on) = o[id].qty + QtySum(o, on \ {id}) /\ QtySum(o, on \ {id}) \in Nat
      BY <3>1, <3>3, QtySumRemove
    <3>7. QtySum(q, left) = QtySum(o, left)
      BY <3>4, <3>5, QtySumSame
    <3>8. QtySum(q, left) \in Nat /\ (QtySum(q, left) = 0 <=> left = {})
      BY <3>4, QtySumPositive
    <3>9. SideInv(side, was)
      BY <1>4 DEF was
    <3>10. new[s][side] = RemoveLevel(was, side, r.price, r.qty)
      BY <1>3, <3>1 DEF was
    <3>11. /\ new[s][side].qty[p] = LevelLeft(was.qty[p], r.qty)
           /\ p \in PricesOf(new[s][side].occupied) <=>
                LevelLeft(was.qty[p], r.qty) # 0 /\ p \in PricesOf(was.occupied)
      <4> HIDE DEF r
      <4> QED
        BY <1>1, <3>1, <3>9, <3>10, RemoveLevelEffect
    <3>12. LevelLeft(was.qty[p], r.qty) = QtySum(q, left)
      <4>1. was.qty[p] = r.qty + QtySum(q, left) /\ r.qty \in Nat
        BY <2>1, <3>1, <3>2, <3>3, <3>6, <3>7 DEF LevelHolds
      <4> DEFINE n == QtySum(q, left)   lev == was.qty[p]   a == r.qty
      <4>2. lev = a + n /\ a \in Nat /\ n \in Nat
        BY <3>8, <4>1
      <4> HIDE DEF n, lev, a
      <4>3. LevelLeft(lev, a) = n
        BY <4>2 DEF LevelLeft
      <4> QED
        BY <4>3 DEF n, lev, a
    <3>13. p \in PricesOf(was.occupied)
      BY <2>1, <3>1 DEF LevelHolds
    <3>14. LevelHolds(new[s][side], q, left, p)
      BY <3>8, <3>11, <3>12, <3>13 DEF LevelHolds
    <3> QED
      BY <3>14 DEF left
  <2> QED
    BY <2>2, <2>3
<1> QED
  BY <1>2, <1>7 DEF MatchInv, new

\* Putting an order on its level adds its quantity, unless the sum overflows.
LEMMA AddMatch ==
  ASSUME NEW bs, BooksInv(bs), NEW o, OrderMap(o), MatchInv(bs, o), NEW id, id \notin DOMAIN o,
         NEW r \in Order, ~Overflows(bs, r),
         NEW q, DOMAIN q = DOMAIN o \cup {id}, q[id] = r, \A i \in DOMAIN o : q[i] = o[i]
  PROVE  MatchInv(WithOrder(bs, r), q)
<1> DEFINE new == WithOrder(bs, r)
<1>1. /\ r.symbol_id \in Symbols /\ r.side \in Sides
      /\ r.price \in Prices /\ r.qty \in Quantities
  BY OrderFields
<1>2. OrderMap(q)
  <2>1. IsFiniteSet(DOMAIN q)
    BY FS_AddElement DEF OrderMap
  <2> QED
    BY <2>1 DEF OrderMap
<1>3. ASSUME NEW s \in Symbols, NEW side \in Sides
      PROVE  new[s][side] = IF s = r.symbol_id /\ side = r.side
               THEN AddLevel(bs[s][side], r.side, r.price, r.qty) ELSE bs[s][side]
  BY WithOrderSides
<1>4. ASSUME NEW s \in Symbols, NEW side \in Sides PROVE SideInv(side, bs[s][side])
  BY DEF BooksInv
<1>5. \A s, side, p : ~At(q, id, s, side, p) => OrdersAt(q, s, side, p) = OrdersAt(o, s, side, p)
  BY DEF OrdersAt, At
<1>6. \A s, side, p : At(q, id, s, side, p) =>
        id \in OrdersAt(q, s, side, p) /\ OrdersAt(q, s, side, p) \ {id} = OrdersAt(o, s, side, p)
  BY DEF OrdersAt, At
<1> HIDE DEF new
<1>7. ASSUME NEW s \in Symbols, NEW side \in Sides, NEW p \in 0 .. kPriceLevels
      PROVE  LevelHolds(new[s][side], q, OrdersAt(q, s, side, p), p)
  <2> DEFINE was == bs[s][side]
             on == OrdersAt(o, s, side, p)
             more == OrdersAt(q, s, side, p)
  <2>1. LevelHolds(was, o, on, p)
    BY DEF MatchInv
  <2>2. \A i \in on : q[i] = o[i]
    BY DEF OrdersAt
  <2>3. CASE ~At(q, id, s, side, p)
    <3>1. more = on
      BY <1>5, <2>3
    <3>2. /\ new[s][side].qty[p] = was.qty[p]
          /\ p \in PricesOf(new[s][side].occupied) <=> p \in PricesOf(was.occupied)
      <4>1. CASE s = r.symbol_id /\ side = r.side
        <5>1. p # r.price
          BY <2>3, <4>1 DEF At
        <5>2. new[s][side] = AddLevel(was, side, r.price, r.qty)
          BY <1>3, <4>1
        <5>3. SideInv(side, was)
          BY <1>4
        <5> HIDE DEF was
        <5> QED
          BY <1>1, <5>1, <5>2, <5>3, AddLevelEffect
      <4>2. CASE ~(s = r.symbol_id /\ side = r.side)
        BY <1>3, <4>2
      <4> QED
        BY <4>1, <4>2
    <3> QED
      BY <2>1, <2>2, <3>1, <3>2, SameLevelHolds
  <2>4. CASE At(q, id, s, side, p)
    <3>1. s = r.symbol_id /\ side = r.side /\ p = r.price
      BY <2>4 DEF At
    <3>2. id \in more /\ more \ {id} = on
      BY <1>6, <2>4
    <3>3. IsFiniteSet(on) /\ \A i \in on : o[i].qty = q[i].qty
      BY <2>2, OrdersAtFacts
    <3>4. IsFiniteSet(more) /\ \A i \in more : q[i].qty \in Nat
      BY <1>2, OrdersAtFacts
    <3> HIDE DEF was, on, more
    <3>5. QtySum(o, on) = QtySum(q, on)
      BY <3>3, QtySumSame
    <3>6. QtySum(q, more) = q[id].qty + QtySum(q, more \ {id}) /\ QtySum(q, more \ {id}) \in Nat
      BY <3>2, <3>4, QtySumRemove
    <3>7. SideInv(side, was)
      BY <1>4 DEF was
    <3>8. new[s][side] = AddLevel(was, side, r.price, r.qty)
      BY <1>3, <3>1 DEF was
    <3>9. /\ new[s][side].qty[p] = (was.qty[p] + r.qty) % QtyMod
          /\ p \in PricesOf(new[s][side].occupied)
      BY <1>1, <3>1, <3>7, <3>8, AddLevelEffect
    <3>10. (was.qty[p] + r.qty) % QtyMod = QtySum(q, more)
      <4>1. was.qty[p] = QtySum(q, on) /\ QtySum(q, more) = r.qty + QtySum(q, on)
              /\ QtySum(q, on) \in Nat /\ r.qty \in Nat
        BY <2>1, <3>2, <3>4, <3>5, <3>6 DEF LevelHolds
      <4>2. ~(was.qty[p] + r.qty >= QtyMod)
        BY <3>1 DEF Overflows, was
      <4>3. QtyMod \in Nat \ {0}
        BY BookConstants
      <4> DEFINE n == QtySum(q, on)   all == QtySum(q, more)   lev == was.qty[p]   a == r.qty
      <4>4. lev = n /\ all = a + n /\ n \in Nat /\ a \in Nat /\ ~(lev + a >= QtyMod)
        BY <4>1, <4>2
      <4> HIDE DEF n, all, lev, a
      <4>5. (lev + a) % QtyMod = all
        BY <4>3, <4>4
      <4> QED
        BY <4>5 DEF n, all, lev, a
    <3>11. LevelHolds(new[s][side], q, more, p)
      BY <3>2, <3>9, <3>10 DEF LevelHolds
    <3> QED
      BY <3>11 DEF more
  <2> QED
    BY <2>3, <2>4
<1> QED
  BY <1>7 DEF MatchInv, new

-----------------------------------------------------------------------------
(* The operations. *)

LevelsInv == ~wrapped => MatchInv(books, orders)

\* The books without order id hold the other orders.
LEMMA ClearedMatch ==
  ASSUME BookInv, MatchInv(books, orders), NEW id, NEW o,
         DOMAIN o = DOMAIN orders \ {id}, \A i \in DOMAIN o : o[i] = orders[i]
  PROVE  MatchInv(Cleared(id), o) /\ OrderMap(o) /\ BooksInv(Cleared(id))
<1>1. BooksInv(books) /\ OrderMap(orders)
  BY DEF BookInv, OrdersInv, OrderMap
<1>2. BooksInv(Cleared(id))
  BY ClearedKeeps
<1>3. CASE id \in DOMAIN orders
  <2>1. MatchInv(WithoutOrder(books, orders[id]), o) /\ OrderMap(o)
    BY <1>1, <1>3, RemoveMatch
  <2> QED
    BY <1>2, <1>3, <2>1 DEF Cleared
<1>4. CASE id \notin DOMAIN orders
  <2>1. DOMAIN o = DOMAIN orders
    BY <1>4
  <2>2. OrderMap(o)
    BY <1>1, <2>1 DEF OrderMap
  <2>3. ASSUME NEW s \in Symbols, NEW side \in Sides, NEW p \in 0 .. kPriceLevels
        PROVE  LevelHolds(books[s][side], o, OrdersAt(o, s, side, p), p)
    <3>1. OrdersAt(o, s, side, p) = OrdersAt(orders, s, side, p)
      BY <2>1 DEF OrdersAt, At
    <3>2. \A i \in OrdersAt(orders, s, side, p) : o[i] = orders[i]
      BY <2>1 DEF OrdersAt
    <3>3. LevelHolds(books[s][side], orders, OrdersAt(orders, s, side, p), p)
      BY DEF MatchInv
    <3> QED
      BY <1>1, <3>1, <3>2, <3>3, SameLevelHolds
  <2> QED
    BY <1>2, <1>4, <2>2, <2>3 DEF Cleared, MatchInv
<1> QED
  BY <1>3, <1>4

\* on_add() and on_modify() leave the old level before they enter the new one, so that an
\* order is never counted twice, also when it stays on its level.
LEMMA PutMatch ==
  ASSUME BookInv, LevelsInv, NEW id, NEW r \in Order,
         books' = WithOrder(Cleared(id), r),
         wrapped' = (wrapped \/ Overflows(Cleared(id), r)),
         DOMAIN orders' = DOMAIN orders \cup {id}, orders'[id] = r,
         \A i \in DOMAIN orders \ {id} : orders'[i] = orders[i]
  PROVE  LevelsInv'
<1> SUFFICES ASSUME ~wrapped' PROVE MatchInv(books', orders')
  BY DEF LevelsInv
<1>1. ~wrapped /\ ~Overflows(Cleared(id), r)
  OBVIOUS
<1>2. MatchInv(books, orders)
  BY <1>1 DEF LevelsInv
<1> DEFINE o == [i \in DOMAIN orders \ {id} |-> orders[i]]
<1>3. DOMAIN o = DOMAIN orders \ {id} /\ \A i \in DOMAIN o : o[i] = orders[i]
  OBVIOUS
<1> HIDE DEF o
<1>4. MatchInv(Cleared(id), o) /\ OrderMap(o) /\ BooksInv(Cleared(id))
  BY <1>2, <1>3, ClearedMatch
<1>5. id \notin DOMAIN o /\ DOMAIN orders' = DOMAIN o \cup {id} /\ \A i \in DOMAIN o : orders'[i] = o[i]
  BY <1>3
<1>6. MatchInv(WithOrder(Cleared(id), r), orders')
  BY <1>1, <1>4, <1>5, AddMatch
<1> QED
  BY <1>6

LEMMA OnAddKeepsLevels ==
  ASSUME BookInv, LevelsInv, NEW id \in OrderIds, NEW r \in Order, OnAdd(id, r)
  PROVE  LevelsInv'
<1>1. /\ books' = WithOrder(Cleared(id), r)
      /\ wrapped' = (wrapped \/ Overflows(Cleared(id), r))
      /\ orders' = [i \in DOMAIN orders \cup {id} |-> IF i = id THEN r ELSE orders[i]]
  BY DEF OnAdd
<1>2. /\ DOMAIN orders' = DOMAIN orders \cup {id} /\ orders'[id] = r
      /\ \A i \in DOMAIN orders \ {id} : orders'[i] = orders[i]
  BY <1>1
<1> QED
  BY <1>1, <1>2, PutMatch

LEMMA OnModifyKeepsLevels ==
  ASSUME BookInv, LevelsInv, NEW id \in OrderIds, NEW r \in Order, OnModify(id, r)
  PROVE  LevelsInv'
<1>1. /\ id \in DOMAIN orders
      /\ books' = WithOrder(Cleared(id), r)
      /\ wrapped' = (wrapped \/ Overflows(Cleared(id), r))
      /\ orders' = [orders EXCEPT ![id] = r]
  BY DEF OnModify
<1>2. /\ DOMAIN orders' = DOMAIN orders \cup {id} /\ orders'[id] = r
      /\ \A i \in DOMAIN orders \ {id} : orders'[i] = orders[i]
  BY <1>1
<1> QED
  BY <1>1, <1>2, PutMatch

LEMMA OnDeleteKeepsLevels ==
  ASSUME BookInv, LevelsInv, NEW id \in OrderIds, OnDelete(id)
  PROVE  LevelsInv'
<1> SUFFICES ASSUME ~wrapped' PROVE MatchInv(books', orders')
  BY DEF LevelsInv
<1>1. MatchInv(books, orders)
  BY DEF LevelsInv, OnDelete
<1>2. /\ DOMAIN orders' = DOMAIN orders \ {id} /\ \A i \in DOMAIN orders' : orders'[i] = orders[i]
      /\ books' = Cleared(id)
  BY DEF OnDelete, Restrict
<1>3. MatchInv(Cleared(id), orders')
  BY <1>1, <1>2, ClearedMatch
<1> QED
  BY <1>2, <1>3

LEMMA NextKeepsLevels == ASSUME BookInv, LevelsInv, [Next]_vars PROVE LevelsInv'
<1>1. ASSUME UNCHANGED <<books, orders, wrapped>> PROVE LevelsInv'
  BY <1>1 DEF LevelsInv
<1>2. ASSUME NEW s \in Symbols, NEW t \in Trades, OnTrade(s, t) PROVE LevelsInv'
  BY <1>1, <1>2 DEF OnTrade
<1>3. CASE UNCHANGED vars
  BY <1>1, <1>3 DEF vars
<1> QED
  BY <1>2, <1>3, OnAddKeepsLevels, OnModifyKeepsLevels, OnDeleteKeepsLevels DEF Next

LEMMA InitSatisfiesLevels == ASSUME Init PROVE LevelsInv
<1>1. orders = <<>> /\ books = [s \in Symbols |-> [side \in Sides |-> EmptySide]]
  BY DEF Init
<1>2. ASSUME NEW s \in Symbols, NEW side \in Sides, NEW p \in 0 .. kPriceLevels
      PROVE  LevelHolds(books[s][side], orders, OrdersAt(orders, s, side, p), p)
  <2>1. OrdersAt(orders, s, side, p) = {}
    BY <1>1 DEF OrdersAt
  <2>2. books[s][side] = EmptySide
    BY <1>1
  <2>3. EmptySide.qty[p] = 0 /\ EmptySide.best_price = 0
    BY DEF EmptySide
  <2>4. PricesOf(EmptySide.occupied) = {}
    BY <2>3, EmptySideKeeps, NoBestPrice
  <2> QED
    BY <2>1, <2>2, <2>3, <2>4, QtySumEmpty DEF LevelHolds
<1> QED
  BY <1>2 DEF LevelsInv, MatchInv

LEMMA LevelsInvIsEnough == LevelsInv => LevelsMatchOrders
<1> SUFFICES ASSUME LevelsInv, ~wrapped,
                    NEW s \in Symbols, NEW side \in Sides, NEW p \in 0 .. kPriceLevels
             PROVE  LET at == {id \in DOMAIN orders :
                                 orders[id].symbol_id = s /\ orders[id].side = side /\ orders[id].price = p}
                    IN  /\ books[s][side].qty[p] = MapThenSumSet(LAMBDA id : orders[id].qty, at)
                        /\ p \in Populated(books[s][side]) <=> at # {}
  BY DEF LevelsMatchOrders
<1>1. LevelHolds(books[s][side], orders, OrdersAt(orders, s, side, p), p)
  BY DEF LevelsInv, MatchInv
<1> QED
  BY <1>1 DEF LevelHolds, OrdersAt, At, QtySum, Populated, PricesOf

\* As long as no level's quantity has overflowed 32 bits, each level of book.hpp holds the
\* exact sum of the orders that rest on it and its bit is set exactly when there are some:
\* the incremental updates of on_add(), on_modify() and on_delete() never drift from the
\* orders, and the clamp in remove_level() never hides a difference.
THEOREM LevelsHoldTheOrders == Spec => []LevelsMatchOrders
<1>1. Init => LevelsInv
  BY InitSatisfiesLevels
<1>2. BookInv /\ LevelsInv /\ [Next]_vars => LevelsInv'
  BY NextKeepsLevels
<1>3. LevelsInv => LevelsMatchOrders
  BY LevelsInvIsEnough
<1> QED
  BY <1>1, <1>2, <1>3, BookInvHolds, PTL DEF Spec

-----------------------------------------------------------------------------
(***************************************************************************)
(* What the output files say.                                              *)
(*                                                                         *)
(* The properties are about the tape and the file of the BBO publisher;    *)
(* the inductive invariant says the same of the events that are still in   *)
(* the queue or not yet published.  A trade is in exactly one of the three *)
(* places, or was given up (TapeInv); its tick is ahead of it, is out, or  *)
(* was given up (TickInv); the last tick of a symbol on its way shows what *)
(* the book last returned for it (BboInv).                                 *)
(***************************************************************************)
Level == [price : 0 .. kPriceLevels, qty : 0 .. (QtyMod - 1)]
Tick == [top : [Sides -> Level], last : Trades \cup {<<0, 0>>}]
WireSymbols == {w[1] : w \in WireTrades}
WireQuantities == {w[2] : w \in WireTrades}

TickSet == [kind : {"tick"}, symbol_id : Symbols, tick : Tick, seq : Nat]
TradeSet == [kind : {"trade"}, symbol_id : WireSymbols, trade : WireQuantities, seq : Nat]
Event == TickSet \cup TradeSet

FlowTypeOK ==
  /\ pending \in Seq(Event) /\ queue \in Seq(Event) /\ tape \in Seq(TradeSet)
  /\ good \in [bbo : BOOLEAN, tape : BOOLEAN]
  /\ bbo \in [Symbols -> [Sides -> Level]]
  /\ seq \in Nat
  /\ accepted \subseteq trades /\ trades \subseteq 1 .. seq /\ lostTrades \subseteq 0 .. seq

IsTick(e) == e.kind = "tick"
IsTrade(e) == e.kind = "trade"

\* handle_parsed() publishes at most a tick and then a trade, both of the last message.
PendingInv ==
  /\ Len(pending) <= 2
  /\ Len(pending) = 2 => IsTick(pending[1]) /\ IsTrade(pending[2])
  /\ \A i \in DOMAIN pending : pending[i].seq = seq

\* Trades come out in the order of their numbers.
TapeOrderInv ==
  /\ \A i \in DOMAIN tape : tape[i].seq <= seq
  /\ \A i, j \in DOMAIN tape : i < j => tape[i].seq < tape[j].seq
QueueOrderInv ==
  /\ \A i \in DOMAIN queue : queue[i].seq <= seq
  /\ \A i, j \in DOMAIN queue :
       i < j /\ IsTrade(queue[i]) /\ IsTrade(queue[j]) => queue[i].seq < queue[j].seq
  /\ \A i \in DOMAIN tape, j \in DOMAIN queue : IsTrade(queue[j]) => tape[i].seq < queue[j].seq
PendingOrderInv ==
  \A j \in DOMAIN pending : IsTrade(pending[j]) =>
    /\ \A i \in DOMAIN tape : tape[i].seq < seq
    /\ \A i \in DOMAIN queue : IsTrade(queue[i]) => queue[i].seq < seq
OrderInv == PendingInv /\ TapeOrderInv /\ QueueOrderInv /\ PendingOrderInv

\* The tick of an accepted trade is ahead of it, or has left the queue.
Ticked(n) == n \in ticksOut \cup lostTicks
TickInv ==
  /\ TickBeforeTrade
  /\ \A i \in DOMAIN queue : IsTrade(queue[i]) /\ queue[i].seq \in accepted =>
       \/ Ticked(queue[i].seq)
       \/ \E j \in 1 .. (i - 1) : IsTick(queue[j]) /\ queue[j].seq = queue[i].seq
  /\ \A i \in DOMAIN pending : IsTrade(pending[i]) /\ pending[i].seq \in accepted =>
       \/ i = 2
       \/ Ticked(pending[i].seq)
       \/ \E j \in DOMAIN queue : IsTick(queue[j]) /\ queue[j].seq = pending[i].seq

\* The trades that are in the tape or on their way to it.
TradesOf(events) == {events[i] : i \in {i \in DOMAIN events : IsTrade(events[i])}}
OnTheWay == TradesOf(tape) \cup TradesOf(queue) \cup TradesOf(pending)

\* Those of a symbol that the book has accepted.
Own(s, events) == {e \in events : e.symbol_id = s /\ e.seq \in accepted}

LastAgrees(s, events) ==
  IF Own(s, events) = {} THEN last[s] = <<0, 0>>
  ELSE \E e \in Own(s, events) : last[s] = e.trade /\ \A f \in Own(s, events) : f.seq <= e.seq

TapeInv ==
  good.tape =>
    /\ {e.seq : e \in OnTheWay} = trades \ lostTrades
    /\ lostTrades \cap accepted = {} => \A s \in Symbols : LastAgrees(s, OnTheWay)

\* The last tick of s among the events shows what the book last returned for s.
ShowsLast(s, events) ==
  \A i \in DOMAIN events :
    /\ IsTick(events[i]) /\ events[i].symbol_id = s
    /\ \A j \in DOMAIN events : j > i => ~(IsTick(events[j]) /\ events[j].symbol_id = s)
    => events[i].tick = published[s]
HasTick(s, events) == \E i \in DOMAIN events : IsTick(events[i]) /\ events[i].symbol_id = s

BboInv ==
  \A s \in Symbols :
    /\ ShowsLast(s, pending)
    /\ s \notin unpublished /\ ~HasTick(s, pending) =>
         /\ ShowsLast(s, queue)
         /\ good.bbo /\ ~HasTick(s, queue) => bbo[s] = published[s].top

FlowInv == BookInv /\ FlowTypeOK /\ OrderInv /\ TickInv /\ TapeInv /\ BboInv

-----------------------------------------------------------------------------
(* Sequences and events. *)

LEMMA AppendFacts ==
  ASSUME NEW E, NEW q \in Seq(E), NEW e \in E
  PROVE  /\ Len(q) \in Nat /\ DOMAIN q = 1 .. Len(q)
         /\ Append(q, e) \in Seq(E) /\ Len(Append(q, e)) = Len(q) + 1
         /\ DOMAIN Append(q, e) = 1 .. (Len(q) + 1)
         /\ \A i \in 1 .. Len(q) : Append(q, e)[i] = q[i]
         /\ Append(q, e)[Len(q) + 1] = e
OBVIOUS

LEMMA TailFacts ==
  ASSUME NEW E, NEW q \in Seq(E), q # <<>>
  PROVE  /\ Len(q) \in Nat \ {0} /\ DOMAIN q = 1 .. Len(q)
         /\ Head(q) = q[1] /\ Head(q) \in E /\ 1 \in DOMAIN q
         /\ Tail(q) \in Seq(E) /\ Len(Tail(q)) = Len(q) - 1
         /\ DOMAIN Tail(q) = 1 .. (Len(q) - 1)
         /\ \A i \in 1 .. (Len(q) - 1) : Tail(q)[i] = q[i + 1]
OBVIOUS

LEMMA EventFacts ==
  ASSUME NEW e \in Event
  PROVE  /\ e.seq \in Nat /\ (IsTick(e) \/ IsTrade(e)) /\ ~(IsTick(e) /\ IsTrade(e))
         /\ IsTick(e) => e \in TickSet /\ e.symbol_id \in Symbols /\ e.tick \in Tick
         /\ IsTrade(e) => e \in TradeSet
BY DEF Event, TickSet, TradeSet, IsTick, IsTrade

LEMMA TickEventFacts ==
  ASSUME NEW s \in Symbols, NEW tick \in Tick, NEW n \in Nat
  PROVE  LET e == TickEvent(s, tick, n)
         IN  e \in Event /\ IsTick(e) /\ ~IsTrade(e) /\ e.symbol_id = s /\ e.tick = tick /\ e.seq = n
BY DEF TickEvent, Event, TickSet, IsTick, IsTrade

LEMMA TradeEventFacts ==
  ASSUME NEW s \in WireSymbols, NEW t \in WireQuantities, NEW n \in Nat
  PROVE  LET e == TradeEvent(s, t, n)
         IN  /\ e \in Event /\ e \in TradeSet /\ IsTrade(e) /\ ~IsTick(e)
             /\ e.symbol_id = s /\ e.trade = t /\ e.seq = n
BY DEF TradeEvent, Event, TradeSet, IsTick, IsTrade

\* What a tick shows has the type of a tick.
LEMMA TopIsTyped ==
  ASSUME NEW bs, BooksInv(bs), NEW s \in Symbols
  PROVE  Top(bs, s) \in [Sides -> Level]
<1> SUFFICES ASSUME NEW side \in Sides
             PROVE  [price |-> bs[s][side].best_price, qty |-> BestQty(bs[s][side])] \in Level
  BY DEF Top
<1>1. bs[s][side] \in SideBook
  BY DEF BooksInv
<1>2. /\ bs[s][side].qty \in [0 .. kPriceLevels -> 0 .. (QtyMod - 1)]
      /\ bs[s][side].best_price \in 0 .. kPriceLevels
  BY <1>1, SideBookFields
<1>3. BestQty(bs[s][side]) \in 0 .. (QtyMod - 1)
  BY <1>2, BookConstants DEF BestQty
<1> QED
  BY <1>2, <1>3 DEF Level

LEMMA ReturnedTick ==
  ASSUME BooksInv(books'), HistoryInv', NEW ticked, NEW from, NEW again,
         Return(ticked, from, again)
  PROVE  /\ \A s \in ticked \cap Symbols : published'[s] \in Tick
         /\ \A s \in Symbols \ ticked : published'[s] = published[s]
<1>1. \A s \in Symbols : Top(books', s) \in [Sides -> Level]
  BY TopIsTyped
<1>2. \A s \in Symbols : last'[s] \in Trades \cup {<<0, 0>>}
  BY DEF HistoryInv
<1> QED
  BY <1>1, <1>2 DEF Return, Tick

-----------------------------------------------------------------------------
(* What handling a message comes to. *)

\* The pending tick of symbol s, the only one whose last tick has changed.
TicksOnly(s) ==
  /\ s \in Symbols /\ published'[s] \in Tick
  /\ \A i \in Symbols \ {s} : published'[i] = published[i]

OrderShape ==
  /\ trades' = trades /\ accepted' = accepted /\ last' = last
  /\ \/ pending' = <<>> /\ \A i \in Symbols : published'[i] = published[i]
     \/ \E s \in Symbols : TicksOnly(s) /\ pending' = <<TickEvent(s, published'[s], seq + 1)>>

TradeShape(s, t) ==
  /\ s \in WireSymbols /\ t \in WireQuantities
  /\ trades' = trades \cup {seq + 1}
  /\ \/ /\ TicksOnly(s) /\ accepted' = accepted \cup {seq + 1}
        /\ last' = [last EXCEPT ![s] = t]
        /\ pending' = <<TickEvent(s, published'[s], seq + 1), TradeEvent(s, t, seq + 1)>>
     \/ /\ accepted' = accepted /\ last' = last
        /\ \A i \in Symbols : published'[i] = published[i]
        /\ pending' = <<TradeEvent(s, t, seq + 1)>>

Message ==
  /\ pending = <<>> /\ seq' = seq + 1
  /\ UNCHANGED <<queue, good, bbo, tape, ticksOut, lossVars>>
  /\ OrderShape \/ \E s, t : TradeShape(s, t)

LEMMA TickForFacts ==
  ASSUME NEW s, NEW before, NEW after
  PROVE  TickFor(s, before, after) = {} \/ TickFor(s, before, after) = {s}
BY DEF TickFor

LEMMA OrderHasShape ==
  ASSUME BookInv', NEW s \in Symbols, NEW ticked, ticked = {} \/ ticked = {s},
         NEW from, NEW again, Return(ticked, from, again), pending' = TickEvents(ticked),
         trades' = trades, accepted' = accepted, last' = last
  PROVE  OrderShape
<1>1. /\ \A i \in ticked \cap Symbols : published'[i] \in Tick
      /\ \A i \in Symbols \ ticked : published'[i] = published[i]
  <2>1. BooksInv(books') /\ HistoryInv'
    BY DEF BookInv, BooksInv
  <2> QED
    BY <2>1, ReturnedTick
<1>2. CASE ticked = {}
  BY <1>1, <1>2 DEF TickEvents, OrderShape
<1>3. CASE ticked = {s}
  <2>1. pending' = <<TickEvent(s, published'[s], seq + 1)>>
    <3>1. (CHOOSE i \in ticked : TRUE) = s
      BY <1>3
    <3> QED
      BY <1>3, <3>1 DEF TickEvents
  <2>2. TicksOnly(s)
    BY <1>1, <1>3 DEF TicksOnly
  <2> QED
    BY <2>1, <2>2 DEF OrderShape
<1> QED
  BY <1>2, <1>3

LEMMA HandleOrderIsMessage == ASSUME FlowInv, HandleOrder PROVE Message /\ BookInv'
<1>1. /\ pending = <<>> /\ seq' = seq + 1
      /\ UNCHANGED <<queue, good, bbo, tape, ticksOut, lossVars>>
      /\ trades' = trades /\ accepted' = accepted
  BY DEF HandleOrder
<1>2. \A id \in DOMAIN orders : orders[id] \in Order
  BY DEF FlowInv, BookInv, OrdersInv
<1>3. ASSUME NEW id \in OrderIds, NEW r \in Order, OnAdd(id, r),
             pending' = TickEvents(AddTicks(id, r))
      PROVE  OrderShape /\ BookInv'
  <2>1. BookInv' /\ last' = last
    BY <1>3, OnAddKeepsInv DEF FlowInv, OnAdd
  <2>2. AddTicks(id, r) = {} \/ AddTicks(id, r) = {r.symbol_id}
    BY TickForFacts DEF AddTicks
  <2>3. \E again : Return(AddTicks(id, r), {}, again)
    BY <1>3 DEF OnAdd
  <2> QED
    BY <1>1, <1>3, <2>1, <2>2, <2>3, OrderFields, OrderHasShape
<1>4. ASSUME NEW id \in OrderIds, NEW r \in Order, OnModify(id, r),
             pending' = TickEvents(ModifyTicks(id, r))
      PROVE  OrderShape /\ BookInv'
  <2>1. BookInv' /\ last' = last
    BY <1>4, OnModifyKeepsInv DEF FlowInv, OnModify
  <2>2. ModifyTicks(id, r) = {} \/ ModifyTicks(id, r) = {r.symbol_id}
    BY TickForFacts DEF ModifyTicks
  <2>3. \E from : Return(ModifyTicks(id, r), from, {})
    BY <1>4 DEF OnModify
  <2> QED
    BY <1>1, <1>4, <2>1, <2>2, <2>3, OrderFields, OrderHasShape
<1>5. ASSUME NEW id \in OrderIds, OnDelete(id), pending' = TickEvents(DeleteTicks(id))
      PROVE  OrderShape /\ BookInv'
  <2>1. BookInv' /\ last' = last /\ id \in DOMAIN orders
    BY <1>5, OnDeleteKeepsInv DEF FlowInv, OnDelete
  <2>2. DeleteTicks(id) = {} \/ DeleteTicks(id) = {orders[id].symbol_id}
    BY TickForFacts DEF DeleteTicks
  <2>3. Return(DeleteTicks(id), {}, {}) /\ orders[id].symbol_id \in Symbols
    BY <1>2, <1>5, <2>1, OrderFields DEF OnDelete
  <2> QED
    BY <1>1, <1>5, <2>1, <2>2, <2>3, OrderHasShape
<1> QED
  BY <1>1, <1>3, <1>4, <1>5 DEF HandleOrder, Message

LEMMA HandleTradeIsMessage ==
  ASSUME FlowInv, NEW w \in WireTrades,
         HandleTrade(w[1], w[2]) \/ HandleRejectedTrade(w[1], w[2])
  PROVE  Message /\ BookInv'
<1> DEFINE s == w[1]
           t == w[2]
<1>1. s \in WireSymbols /\ t \in WireQuantities
  BY DEF WireSymbols, WireQuantities
<1> HIDE DEF s, t
<1>2. CASE HandleTrade(s, t)
  <2>1. /\ s \in Symbols /\ t \in Trades /\ OnTrade(s, t)
        /\ pending = <<>> /\ seq' = seq + 1
        /\ UNCHANGED <<queue, good, bbo, tape, ticksOut, lossVars>>
        /\ trades' = trades \cup {seq + 1} /\ accepted' = accepted \cup {seq + 1}
        /\ pending' = <<TickEvent(s, published'[s], seq + 1), TradeEvent(s, t, seq + 1)>>
    BY <1>2 DEF HandleTrade, Accepts
  <2>2. BookInv'
    BY <2>1, OnTradeKeepsInv DEF FlowInv
  <2>3. Return({s}, {}, {}) /\ last' = [last EXCEPT ![s] = t]
    BY <2>1 DEF OnTrade
  <2>4. BooksInv(books') /\ HistoryInv'
    BY <2>2 DEF BookInv, BooksInv
  <2>5. TicksOnly(s)
    BY <2>1, <2>3, <2>4, ReturnedTick DEF TicksOnly
  <2>6. TradeShape(s, t)
    BY <1>1, <2>1, <2>3, <2>5 DEF TradeShape
  <2> QED
    BY <2>1, <2>2, <2>6 DEF Message
<1>3. CASE HandleRejectedTrade(s, t)
  <2>1. /\ pending = <<>> /\ seq' = seq + 1
        /\ UNCHANGED <<queue, good, bbo, tape, ticksOut, lossVars>>
        /\ trades' = trades \cup {seq + 1} /\ accepted' = accepted /\ UNCHANGED vars
        /\ pending' = <<TradeEvent(s, t, seq + 1)>>
    BY <1>3 DEF HandleRejectedTrade
  <2>2. BookInv'
    BY <2>1, NextKeepsBook DEF FlowInv
  <2>3. TradeShape(s, t)
    BY <1>1, <2>1 DEF TradeShape, vars
  <2> QED
    BY <2>1, <2>2, <2>3 DEF Message
<1> QED
  BY <1>2, <1>3 DEF s, t

-----------------------------------------------------------------------------
(* Types. *)

\* The shapes of what a message leaves to publish.
LEMMA PendingOfMessage ==
  ASSUME FlowTypeOK, Message
  PROVE  /\ pending' \in Seq(Event)
         /\ Len(pending') <= 2 /\ DOMAIN pending' = 1 .. Len(pending')
         /\ \A i \in DOMAIN pending' : pending'[i].seq = seq + 1
         /\ Len(pending') = 2 => IsTick(pending'[1]) /\ IsTrade(pending'[2])
<1>1. seq + 1 \in Nat
  BY DEF FlowTypeOK
<1>2. CASE pending' = <<>>
  BY <1>2
<1>3. ASSUME NEW s \in Symbols, TicksOnly(s), pending' = <<TickEvent(s, published'[s], seq + 1)>>
      PROVE  /\ pending' \in Seq(Event) /\ Len(pending') = 1 /\ DOMAIN pending' = {1}
             /\ pending'[1].seq = seq + 1
  <2> DEFINE e == TickEvent(s, published'[s], seq + 1)
  <2>1. e \in Event /\ e.seq = seq + 1
    BY <1>1, <1>3, TickEventFacts DEF TicksOnly
  <2> HIDE DEF e
  <2>2. pending' = <<e>>
    BY <1>3 DEF e
  <2> QED
    BY <2>1, <2>2
<1>4. ASSUME NEW s \in WireSymbols, NEW t \in WireQuantities, TicksOnly(s),
             pending' = <<TickEvent(s, published'[s], seq + 1), TradeEvent(s, t, seq + 1)>>
      PROVE  /\ pending' \in Seq(Event) /\ Len(pending') = 2 /\ DOMAIN pending' = {1, 2}
             /\ pending'[1].seq = seq + 1 /\ pending'[2].seq = seq + 1
             /\ IsTick(pending'[1]) /\ IsTrade(pending'[2])
  <2> DEFINE e == TickEvent(s, published'[s], seq + 1)
             f == TradeEvent(s, t, seq + 1)
  <2>1. e \in Event /\ e.seq = seq + 1 /\ IsTick(e)
    BY <1>1, <1>4, TickEventFacts DEF TicksOnly
  <2>2. f \in Event /\ f.seq = seq + 1 /\ IsTrade(f)
    BY <1>1, TradeEventFacts
  <2> HIDE DEF e, f
  <2>3. pending' = <<e, f>>
    BY <1>4 DEF e, f
  <2> QED
    BY <2>1, <2>2, <2>3
<1>5. ASSUME NEW s \in WireSymbols, NEW t \in WireQuantities,
             pending' = <<TradeEvent(s, t, seq + 1)>>
      PROVE  /\ pending' \in Seq(Event) /\ Len(pending') = 1 /\ DOMAIN pending' = {1}
             /\ pending'[1].seq = seq + 1
  <2> DEFINE f == TradeEvent(s, t, seq + 1)
  <2>1. f \in Event /\ f.seq = seq + 1
    BY <1>1, TradeEventFacts
  <2> HIDE DEF f
  <2>2. pending' = <<f>>
    BY <1>5 DEF f
  <2> QED
    BY <2>1, <2>2
<1>6. CASE OrderShape
  <2>1. \/ pending' = <<>>
        \/ \E s \in Symbols : TicksOnly(s) /\ pending' = <<TickEvent(s, published'[s], seq + 1)>>
    BY <1>6 DEF OrderShape
  <2> QED
    BY <1>2, <1>3, <2>1
<1>7. ASSUME NEW s, NEW t, TradeShape(s, t)
      PROVE  /\ pending' \in Seq(Event)
             /\ Len(pending') <= 2 /\ DOMAIN pending' = 1 .. Len(pending')
             /\ \A i \in DOMAIN pending' : pending'[i].seq = seq + 1
             /\ Len(pending') = 2 => IsTick(pending'[1]) /\ IsTrade(pending'[2])
  <2>1. s \in WireSymbols /\ t \in WireQuantities
    BY <1>7 DEF TradeShape
  <2>2. CASE TicksOnly(s)
             /\ pending' = <<TickEvent(s, published'[s], seq + 1), TradeEvent(s, t, seq + 1)>>
    BY <1>4, <2>1, <2>2
  <2>3. CASE pending' = <<TradeEvent(s, t, seq + 1)>>
    BY <1>5, <2>1, <2>3
  <2> QED
    BY <1>7, <2>2, <2>3 DEF TradeShape
<1> QED
  BY <1>6, <1>7 DEF Message

LEMMA MessageKeepsTypes == ASSUME FlowInv, Message PROVE FlowTypeOK'
<1>1. /\ pending' \in Seq(Event)
      /\ seq \in Nat /\ seq' = seq + 1
      /\ UNCHANGED <<queue, good, bbo, tape, lostTrades>>
  BY PendingOfMessage DEF FlowInv, FlowTypeOK, Message, lossVars
<1>2. /\ trades' \subseteq trades \cup {seq + 1} /\ trades \subseteq trades'
      /\ accepted' \subseteq trades'
  <2>1. accepted \subseteq trades
    BY DEF FlowInv, FlowTypeOK
  <2> QED
    BY <2>1 DEF Message, OrderShape, TradeShape
<1>3. trades' \subseteq 1 .. seq' /\ lostTrades' \subseteq 0 .. seq'
  BY <1>1, <1>2 DEF FlowInv, FlowTypeOK
<1> QED
  BY <1>1, <1>2, <1>3 DEF FlowInv, FlowTypeOK

LEMMA PublishKeepsTypes == ASSUME FlowInv, Publish PROVE FlowTypeOK'
<1>1. /\ pending \in Seq(Event) /\ pending # <<>> /\ queue \in Seq(Event)
      /\ queue' = Append(queue, Head(pending)) /\ pending' = Tail(pending)
      /\ UNCHANGED <<tape, good, bbo, seq, trades, accepted, lostTrades>>
  BY DEF FlowInv, FlowTypeOK, Publish, messageVars
<1>2. Head(pending) \in Event /\ Tail(pending) \in Seq(Event)
  BY <1>1, TailFacts
<1>3. queue' \in Seq(Event)
  BY <1>1, <1>2, AppendFacts
<1> QED
  BY <1>1, <1>2, <1>3 DEF FlowInv, FlowTypeOK

LEMMA GiveUpKeepsTypes == ASSUME FlowInv, GiveUp PROVE FlowTypeOK'
<1>1. /\ pending \in Seq(Event) /\ pending # <<>> /\ pending' = Tail(pending)
      /\ UNCHANGED <<queue, tape, good, bbo, seq, trades, accepted>>
      /\ lostTrades' \subseteq lostTrades \cup {Head(pending).seq}
      /\ (lostTrades' # lostTrades => IsTrade(Head(pending)))
  BY DEF FlowInv, FlowTypeOK, GiveUp, messageVars, IsTrade
<1>2. Head(pending) = pending[1] /\ 1 \in DOMAIN pending /\ Tail(pending) \in Seq(Event)
        /\ Head(pending) \in Event
  BY <1>1, TailFacts
<1>3. Head(pending).seq = seq
  BY <1>2 DEF FlowInv, OrderInv, PendingInv
<1>4. lostTrades' \subseteq 0 .. seq
  BY <1>1, <1>3 DEF FlowInv, FlowTypeOK
<1> QED
  BY <1>1, <1>2, <1>4 DEF FlowInv, FlowTypeOK

LEMMA DispatchTickKeepsTypes == ASSUME FlowInv, DispatchTick PROVE FlowTypeOK'
<1> DEFINE ev == Head(queue)
<1>1. /\ queue \in Seq(Event) /\ queue # <<>> /\ queue' = Tail(queue)
      /\ UNCHANGED <<pending, tape, good, seq, trades, accepted, lostTrades>>
      /\ IsTick(ev)
      /\ bbo' = IF good.bbo THEN [bbo EXCEPT ![ev.symbol_id] = ev.tick.top] ELSE bbo
  BY DEF FlowInv, FlowTypeOK, DispatchTick, messageVars, lossVars, IsTick
<1>2. ev \in Event /\ Tail(queue) \in Seq(Event)
  BY <1>1, TailFacts
<1> HIDE DEF ev
<1>3. ev.tick \in Tick
  BY <1>1, <1>2, EventFacts
<1>4. bbo' \in [Symbols -> [Sides -> Level]]
  BY <1>1, <1>3 DEF FlowInv, FlowTypeOK, Tick
<1> QED
  BY <1>1, <1>2, <1>4 DEF FlowInv, FlowTypeOK

LEMMA DispatchTradeKeepsTypes == ASSUME FlowInv, DispatchTrade PROVE FlowTypeOK'
<1> DEFINE ev == Head(queue)
<1>1. /\ queue \in Seq(Event) /\ queue # <<>> /\ queue' = Tail(queue)
      /\ UNCHANGED <<pending, bbo, good, seq, trades, accepted, lostTrades>>
      /\ IsTrade(ev) /\ tape \in Seq(TradeSet)
      /\ tape' = IF good.tape THEN Append(tape, ev) ELSE tape
  BY DEF FlowInv, FlowTypeOK, DispatchTrade, messageVars, lossVars, IsTrade
<1>2. ev \in Event /\ Tail(queue) \in Seq(Event)
  BY <1>1, TailFacts
<1> HIDE DEF ev
<1>3. ev \in TradeSet
  BY <1>1, <1>2, EventFacts
<1>4. tape' \in Seq(TradeSet)
  BY <1>1, <1>3, AppendFacts
<1> QED
  BY <1>1, <1>2, <1>4 DEF FlowInv, FlowTypeOK

-----------------------------------------------------------------------------
(* The order of the events. *)

LEMMA MessageKeepsOrder == ASSUME FlowInv, Message PROVE OrderInv'
<1>1. seq \in Nat /\ seq' = seq + 1 /\ UNCHANGED <<queue, tape>>
  BY DEF FlowInv, FlowTypeOK, Message
<1>2. /\ \A i \in DOMAIN queue : queue[i].seq \in Nat /\ queue[i].seq <= seq
      /\ \A i \in DOMAIN tape : tape[i].seq \in Nat /\ tape[i].seq <= seq
  <2>1. \A i \in DOMAIN queue : queue[i] \in Event
    BY DEF FlowInv, FlowTypeOK
  <2>2. \A i \in DOMAIN tape : tape[i] \in TradeSet
    BY DEF FlowInv, FlowTypeOK
  <2> QED
    BY <2>1, <2>2, EventFacts DEF TradeSet, FlowInv, OrderInv, QueueOrderInv, TapeOrderInv
<1>3. PendingInv'
  BY <1>1, PendingOfMessage DEF FlowInv, PendingInv
<1>4. TapeOrderInv'
  BY <1>1, <1>2 DEF TapeOrderInv, FlowInv, OrderInv
<1>5. QueueOrderInv'
  BY <1>1, <1>2 DEF QueueOrderInv, FlowInv, OrderInv
<1>6. PendingOrderInv'
  BY <1>1, <1>2 DEF PendingOrderInv
<1> QED
  BY <1>3, <1>4, <1>5, <1>6 DEF OrderInv

\* What publish() does to the events that are still to be published.
LEMMA PendingShrinks ==
  ASSUME FlowInv, pending # <<>>
  PROVE  /\ Head(pending) = pending[1] /\ Head(pending) \in Event /\ Head(pending).seq = seq
         /\ seq \in Nat /\ Len(pending) \in {1, 2} /\ 1 \in DOMAIN pending
         /\ DOMAIN Tail(pending) = 1 .. (Len(pending) - 1)
         /\ Len(Tail(pending)) = Len(pending) - 1
         /\ \A i \in DOMAIN Tail(pending) :
              /\ i = 1 /\ Len(pending) = 2 /\ Tail(pending)[i] = pending[2] /\ 2 \in DOMAIN pending
              /\ Tail(pending)[i].seq = seq /\ IsTrade(Tail(pending)[i]) /\ IsTick(Head(pending))
<1>1. pending \in Seq(Event) /\ seq \in Nat
  BY DEF FlowInv, FlowTypeOK
<1>2. /\ Len(pending) \in Nat \ {0} /\ DOMAIN pending = 1 .. Len(pending)
      /\ Head(pending) = pending[1] /\ Head(pending) \in Event /\ 1 \in DOMAIN pending
      /\ Len(Tail(pending)) = Len(pending) - 1
      /\ DOMAIN Tail(pending) = 1 .. (Len(pending) - 1)
      /\ \A i \in 1 .. (Len(pending) - 1) : Tail(pending)[i] = pending[i + 1]
  BY <1>1, TailFacts
<1>3. /\ Len(pending) <= 2 /\ \A i \in DOMAIN pending : pending[i].seq = seq
      /\ (Len(pending) = 2 => IsTick(pending[1]) /\ IsTrade(pending[2]))
  BY DEF FlowInv, OrderInv, PendingInv
<1>4. ASSUME NEW i \in DOMAIN Tail(pending)
      PROVE  i = 1 /\ Len(pending) = 2 /\ Tail(pending)[i] = pending[2] /\ 2 \in DOMAIN pending
  BY <1>2, <1>3
<1> QED
  BY <1>1, <1>2, <1>3, <1>4

LEMMA TailKeepsPending ==
  ASSUME FlowInv, pending # <<>>, pending' = Tail(pending), seq' = seq
  PROVE  PendingInv'
<1>1. /\ Len(pending') <= 1
      /\ \A i \in DOMAIN pending' : pending'[i].seq = seq
  BY PendingShrinks
<1> QED
  BY <1>1 DEF PendingInv

\* What publish() does to the queue.
LEMMA QueueGrows ==
  ASSUME FlowInv, Publish
  PROVE  /\ Len(queue) \in Nat /\ DOMAIN queue = 1 .. Len(queue)
         /\ DOMAIN queue' = 1 .. (Len(queue) + 1)
         /\ \A i \in DOMAIN queue : queue'[i] = queue[i] /\ queue[i] \in Event
         /\ queue'[Len(queue) + 1] = Head(pending)
         /\ pending # <<>> /\ pending' = Tail(pending)
         /\ UNCHANGED <<vars, tape, good, bbo, seq, trades, accepted, ticksOut, lostTicks, lostTrades>>
<1>1. /\ queue \in Seq(Event) /\ pending # <<>> /\ queue' = Append(queue, Head(pending))
      /\ pending' = Tail(pending)
      /\ UNCHANGED <<vars, tape, good, bbo, seq, trades, accepted, ticksOut, lostTicks, lostTrades>>
  BY DEF FlowInv, FlowTypeOK, Publish, messageVars
<1>2. Head(pending) \in Event
  BY <1>1, PendingShrinks
<1>3. /\ Len(queue) \in Nat /\ DOMAIN queue = 1 .. Len(queue)
      /\ DOMAIN queue' = 1 .. (Len(queue) + 1)
      /\ \A i \in 1 .. Len(queue) : queue'[i] = queue[i]
      /\ queue'[Len(queue) + 1] = Head(pending)
  BY <1>1, <1>2, AppendFacts
<1>4. \A i \in DOMAIN queue : queue[i] \in Event
  BY <1>1
<1> QED
  BY <1>1, <1>3, <1>4

LEMMA PublishKeepsOrder == ASSUME FlowInv, Publish PROVE OrderInv'
<1> USE QueueGrows
<1> DEFINE n == Len(queue) + 1
<1>1. /\ seq' = seq /\ tape' = tape /\ pending # <<>> /\ pending' = Tail(pending)
      /\ Head(pending).seq = seq /\ seq \in Nat /\ 1 \in DOMAIN pending /\ Head(pending) = pending[1]
  BY PendingShrinks
<1>2. PendingInv'
  BY <1>1, TailKeepsPending
<1>3. TapeOrderInv'
  BY <1>1 DEF TapeOrderInv, FlowInv, OrderInv
<1>4. IsTrade(Head(pending)) =>
        /\ \A i \in DOMAIN tape : tape[i].seq < seq
        /\ \A i \in DOMAIN queue : IsTrade(queue[i]) => queue[i].seq < seq
  BY <1>1 DEF FlowInv, OrderInv, PendingOrderInv
<1>5. \A i \in DOMAIN queue' : (i \in DOMAIN queue /\ queue'[i] = queue[i])
                                 \/ (i = n /\ queue'[i] = Head(pending))
  OBVIOUS
<1>6. QueueOrderInv'
  <2>1. ASSUME NEW i \in DOMAIN queue' PROVE queue'[i].seq <= seq
    BY <1>1, <1>5 DEF FlowInv, OrderInv, QueueOrderInv
  <2>2. ASSUME NEW i \in DOMAIN queue', NEW j \in DOMAIN queue', i < j,
               IsTrade(queue'[i]), IsTrade(queue'[j])
        PROVE  queue'[i].seq < queue'[j].seq
    <3>1. i \in DOMAIN queue /\ queue'[i] = queue[i]
      BY <1>5, <2>2
    <3> QED
      BY <1>1, <1>4, <1>5, <2>2, <3>1 DEF FlowInv, OrderInv, QueueOrderInv
  <2>3. ASSUME NEW i \in DOMAIN tape, NEW j \in DOMAIN queue', IsTrade(queue'[j])
        PROVE  tape[i].seq < queue'[j].seq
    BY <1>1, <1>4, <1>5, <2>3 DEF FlowInv, OrderInv, QueueOrderInv
  <2> QED
    BY <1>1, <2>1, <2>2, <2>3 DEF QueueOrderInv
<1>7. PendingOrderInv'
  <2> SUFFICES ASSUME NEW j \in DOMAIN pending', IsTrade(pending'[j])
               PROVE  /\ \A i \in DOMAIN tape : tape[i].seq < seq
                      /\ \A i \in DOMAIN queue' : IsTrade(queue'[i]) => queue'[i].seq < seq
    BY <1>1 DEF PendingOrderInv
  <2>1. IsTick(Head(pending)) /\ 2 \in DOMAIN pending /\ IsTrade(pending[2])
    BY <1>1, PendingShrinks
  <2>2. ~IsTrade(Head(pending))
    BY <2>1 DEF IsTick, IsTrade
  <2> QED
    BY <1>5, <2>1, <2>2 DEF FlowInv, OrderInv, PendingOrderInv
<1> QED
  BY <1>2, <1>3, <1>6, <1>7 DEF OrderInv

LEMMA GiveUpKeepsOrder == ASSUME FlowInv, GiveUp PROVE OrderInv'
<1>1. /\ UNCHANGED <<queue, tape, seq>> /\ pending # <<>> /\ pending' = Tail(pending)
  BY DEF GiveUp, messageVars
<1>2. PendingInv'
  BY <1>1, TailKeepsPending
<1>3. TapeOrderInv' /\ QueueOrderInv'
  BY <1>1 DEF TapeOrderInv, QueueOrderInv, FlowInv, OrderInv
<1>4. PendingOrderInv'
  <2> SUFFICES ASSUME NEW j \in DOMAIN pending', IsTrade(pending'[j])
               PROVE  /\ \A i \in DOMAIN tape : tape[i].seq < seq
                      /\ \A i \in DOMAIN queue : IsTrade(queue[i]) => queue[i].seq < seq
    BY <1>1 DEF PendingOrderInv
  <2>1. 2 \in DOMAIN pending /\ IsTrade(pending[2])
    BY <1>1, PendingShrinks
  <2> QED
    BY <2>1 DEF FlowInv, OrderInv, PendingOrderInv
<1> QED
  BY <1>2, <1>3, <1>4 DEF OrderInv

\* What consumer_loop() does to the queue.
LEMMA QueueShrinks ==
  ASSUME FlowInv, queue # <<>>, queue' = Tail(queue)
  PROVE  /\ Head(queue) = queue[1] /\ Head(queue) \in Event /\ 1 \in DOMAIN queue
         /\ Len(queue) \in Nat \ {0} /\ DOMAIN queue = 1 .. Len(queue)
         /\ DOMAIN queue' = 1 .. (Len(queue) - 1)
         /\ \A i \in DOMAIN queue' : i + 1 \in DOMAIN queue /\ queue'[i] = queue[i + 1]
         /\ \A i \in DOMAIN queue : queue[i] \in Event /\ i \in Nat
<1>1. queue \in Seq(Event)
  BY DEF FlowInv, FlowTypeOK
<1>2. /\ Len(queue) \in Nat \ {0} /\ DOMAIN queue = 1 .. Len(queue)
      /\ Head(queue) = queue[1] /\ Head(queue) \in Event /\ 1 \in DOMAIN queue
      /\ DOMAIN queue' = 1 .. (Len(queue) - 1)
      /\ \A i \in 1 .. (Len(queue) - 1) : queue'[i] = queue[i + 1]
  BY <1>1, TailFacts
<1>3. \A i \in 1 .. Len(queue) : queue[i] \in Event
  BY <1>1
<1> QED
  BY <1>2, <1>3

LEMMA DispatchTickKeepsOrder == ASSUME FlowInv, DispatchTick PROVE OrderInv'
<1>1. queue # <<>> /\ queue' = Tail(queue) /\ UNCHANGED <<pending, tape, seq>>
  BY DEF DispatchTick, messageVars
<1>2. \A i \in DOMAIN queue' : i \in Int /\ i + 1 \in DOMAIN queue /\ queue'[i] = queue[i + 1]
  BY <1>1, QueueShrinks
<1>3. PendingInv' /\ TapeOrderInv'
  BY <1>1 DEF PendingInv, TapeOrderInv, FlowInv, OrderInv
<1>4. QueueOrderInv'
  BY <1>1, <1>2 DEF QueueOrderInv, FlowInv, OrderInv
<1>5. PendingOrderInv'
  BY <1>1, <1>2 DEF PendingOrderInv, FlowInv, OrderInv
<1> QED
  BY <1>3, <1>4, <1>5 DEF OrderInv

\* What the tape gets.
LEMMA TapeGrows ==
  ASSUME FlowInv, DispatchTrade
  PROVE  /\ queue # <<>> /\ queue' = Tail(queue) /\ IsTrade(Head(queue)) /\ Head(queue) \in TradeSet
         /\ Len(tape) \in Nat /\ DOMAIN tape = 1 .. Len(tape)
         /\ \A i \in DOMAIN tape : tape'[i] = tape[i]
         /\ ~good.tape => tape' = tape
         /\ good.tape => DOMAIN tape' = 1 .. (Len(tape) + 1) /\ tape'[Len(tape) + 1] = Head(queue)
         /\ UNCHANGED <<vars, pending, good, bbo, seq, trades, accepted, ticksOut, lostTicks,
                        lostTrades, unpublished>>
<1>1. /\ queue # <<>> /\ queue' = Tail(queue) /\ IsTrade(Head(queue)) /\ tape \in Seq(TradeSet)
      /\ tape' = IF good.tape THEN Append(tape, Head(queue)) ELSE tape
      /\ UNCHANGED <<vars, pending, good, bbo, seq, trades, accepted, ticksOut, lostTicks,
                     lostTrades, unpublished>>
  BY DEF FlowInv, FlowTypeOK, DispatchTrade, messageVars, lossVars, IsTrade
<1>2. Head(queue) \in TradeSet
  BY <1>1, QueueShrinks, EventFacts
<1>3. Len(tape) \in Nat /\ DOMAIN tape = 1 .. Len(tape)
  BY <1>1
<1>4. CASE good.tape
  BY <1>1, <1>2, <1>4, AppendFacts
<1>5. CASE ~good.tape
  BY <1>1, <1>2, <1>3, <1>5
<1> QED
  BY <1>4, <1>5

LEMMA DispatchTradeKeepsOrder == ASSUME FlowInv, DispatchTrade PROVE OrderInv'
<1> DEFINE ev == Head(queue)
<1>1. queue # <<>> /\ queue' = Tail(queue) /\ UNCHANGED <<pending, seq>> /\ IsTrade(ev)
  BY TapeGrows
<1>2. /\ \A i \in DOMAIN queue' : i \in Int /\ i >= 1 /\ i + 1 \in DOMAIN queue /\ queue'[i] = queue[i + 1]
      /\ ev = queue[1] /\ 1 \in DOMAIN queue
  BY <1>1, QueueShrinks
<1>3. /\ \A i \in DOMAIN tape' : \/ i \in DOMAIN tape /\ tape'[i] = tape[i]
                                 \/ i = Len(tape) + 1 /\ tape'[i] = ev
      /\ Len(tape) \in Nat /\ DOMAIN tape = 1 .. Len(tape)
  BY TapeGrows
<1> HIDE DEF ev
<1>4. ev.seq <= seq /\ \A i \in DOMAIN tape : tape[i].seq < ev.seq
  BY <1>1, <1>2 DEF FlowInv, OrderInv, QueueOrderInv
<1>5. PendingInv'
  BY <1>1 DEF PendingInv, FlowInv, OrderInv
<1>6. TapeOrderInv'
  BY <1>1, <1>3, <1>4 DEF TapeOrderInv, FlowInv, OrderInv
<1>7. QueueOrderInv'
  <2>1. ASSUME NEW i \in DOMAIN tape', NEW j \in DOMAIN queue', IsTrade(queue'[j])
        PROVE  tape'[i].seq < queue'[j].seq
    BY <1>1, <1>2, <1>3, <2>1 DEF QueueOrderInv, FlowInv, OrderInv
  <2>2. \A i \in DOMAIN queue' : queue'[i].seq <= seq
    BY <1>2 DEF QueueOrderInv, FlowInv, OrderInv
  <2>3. ASSUME NEW i \in DOMAIN queue', NEW j \in DOMAIN queue', i < j,
               IsTrade(queue'[i]), IsTrade(queue'[j])
        PROVE  queue'[i].seq < queue'[j].seq
    BY <1>2, <2>3 DEF QueueOrderInv, FlowInv, OrderInv
  <2> QED
    BY <1>1, <2>1, <2>2, <2>3 DEF QueueOrderInv
<1>8. PendingOrderInv'
  BY <1>1, <1>2, <1>3 DEF PendingOrderInv, FlowInv, OrderInv
<1> QED
  BY <1>5, <1>6, <1>7, <1>8 DEF OrderInv

-----------------------------------------------------------------------------
(* A tick before its trade. *)

LEMMA NumbersSoFar ==
  ASSUME FlowInv
  PROVE  /\ seq \in Nat
         /\ \A i \in DOMAIN queue : queue[i] \in Event /\ queue[i].seq \in Nat /\ queue[i].seq <= seq
         /\ \A i \in DOMAIN tape : tape[i] \in TradeSet /\ tape[i].seq \in Nat /\ tape[i].seq <= seq
         /\ \A n \in trades \cup accepted \cup lostTrades : n \in Nat /\ n <= seq
<1>1. \A i \in DOMAIN queue : queue[i] \in Event
  BY DEF FlowInv, FlowTypeOK
<1>2. \A i \in DOMAIN tape : tape[i] \in TradeSet
  BY DEF FlowInv, FlowTypeOK
<1>3. seq \in Nat /\ \A n \in trades \cup accepted \cup lostTrades : n \in Nat /\ n <= seq
  BY DEF FlowInv, FlowTypeOK
<1> QED
  BY <1>1, <1>2, <1>3, EventFacts DEF TradeSet, FlowInv, OrderInv, QueueOrderInv, TapeOrderInv

\* Only an accepted trade's number is new among the accepted ones.
LEMMA MessageNumbers ==
  ASSUME FlowInv, Message
  PROVE  /\ \A n \in accepted' : n \in accepted \/ n = seq + 1
         /\ \A i \in DOMAIN pending' : IsTrade(pending'[i]) /\ seq + 1 \in accepted' => i = 2
<1>1. seq \in Nat /\ seq + 1 \in Nat /\ seq + 1 \notin accepted
  BY NumbersSoFar
<1>2. \A n \in accepted' : n \in accepted \/ n = seq + 1
  BY DEF Message, OrderShape, TradeShape
<1>3. ASSUME NEW i \in DOMAIN pending', IsTrade(pending'[i]), seq + 1 \in accepted' PROVE i = 2
  <2>1. ~OrderShape
    BY <1>1, <1>3 DEF OrderShape
  <2>2. PICK s, t : TradeShape(s, t)
    BY <2>1 DEF Message
  <2> DEFINE e == TickEvent(s, published'[s], seq + 1)
             f == TradeEvent(s, t, seq + 1)
  <2>3. pending' = <<e, f>> /\ TicksOnly(s)
    BY <1>1, <1>3, <2>2 DEF TradeShape
  <2>4. ~IsTrade(e)
    BY <1>1, <2>3, TickEventFacts DEF TicksOnly
  <2> HIDE DEF e, f
  <2> QED
    BY <1>3, <2>3, <2>4
<1> QED
  BY <1>2, <1>3

LEMMA MessageKeepsTicks == ASSUME FlowInv, Message PROVE TickInv'
<1>1. /\ seq' = seq + 1 /\ seq \in Nat /\ UNCHANGED <<queue, tape, ticksOut, lostTicks>>
  BY NumbersSoFar DEF Message, lossVars
<1>2. \A n : Ticked(n)' <=> Ticked(n)
  BY <1>1 DEF Ticked
<1>3. TickBeforeTrade'
  <2> SUFFICES ASSUME NEW i \in DOMAIN tape, tape[i].seq \in accepted'
               PROVE  tape[i].seq \in ticksOut \cup lostTicks
    BY <1>1 DEF TickBeforeTrade
  <2>1. tape[i].seq \in accepted
    BY <1>1, NumbersSoFar, MessageNumbers
  <2> QED
    BY <2>1 DEF FlowInv, TickInv, TickBeforeTrade
<1>4. ASSUME NEW i \in DOMAIN queue, IsTrade(queue[i]), queue[i].seq \in accepted'
      PROVE  \/ Ticked(queue[i].seq)
             \/ \E j \in 1 .. (i - 1) : IsTick(queue[j]) /\ queue[j].seq = queue[i].seq
  <2>1. queue[i].seq \in accepted
    BY <1>1, <1>4, NumbersSoFar, MessageNumbers
  <2> QED
    BY <1>4, <2>1 DEF FlowInv, TickInv
<1>5. ASSUME NEW i \in DOMAIN pending', IsTrade(pending'[i]), pending'[i].seq \in accepted'
      PROVE  i = 2
  BY <1>5, PendingOfMessage, MessageNumbers DEF FlowInv
<1> QED
  BY <1>1, <1>2, <1>3, <1>4, <1>5 DEF TickInv

LEMMA PublishKeepsTicks == ASSUME FlowInv, Publish PROVE TickInv'
<1> DEFINE n == Len(queue) + 1
           ev == Head(pending)
<1>1. /\ UNCHANGED <<tape, seq, accepted, ticksOut, lostTicks>> /\ pending # <<>>
      /\ pending' = Tail(pending)
      /\ Len(queue) \in Nat /\ DOMAIN queue = 1 .. Len(queue) /\ DOMAIN queue' = 1 .. n
      /\ \A i \in DOMAIN queue : queue'[i] = queue[i]
      /\ queue'[n] = ev
  BY QueueGrows
<1>2. ev = pending[1] /\ ev.seq = seq /\ 1 \in DOMAIN pending
  BY <1>1, PendingShrinks
<1> HIDE DEF ev
<1>3. \A m : Ticked(m)' <=> Ticked(m)
  BY <1>1 DEF Ticked
<1>4. TickBeforeTrade'
  BY <1>1 DEF TickBeforeTrade, FlowInv, TickInv
<1>5. ASSUME NEW i \in DOMAIN queue', IsTrade(queue'[i]), queue'[i].seq \in accepted
      PROVE  \/ Ticked(queue'[i].seq)
             \/ \E j \in 1 .. (i - 1) : IsTick(queue'[j]) /\ queue'[j].seq = queue'[i].seq
  <2>1. CASE i \in DOMAIN queue
    <3>1. \/ Ticked(queue[i].seq)
          \/ \E j \in 1 .. (i - 1) : IsTick(queue[j]) /\ queue[j].seq = queue[i].seq
      BY <1>1, <1>5, <2>1 DEF FlowInv, TickInv
    <3>2. \A j \in 1 .. (i - 1) : j \in DOMAIN queue
      BY <1>1, <2>1
    <3> QED
      BY <1>1, <2>1, <3>1, <3>2
  <2>2. CASE i = n
    <3>1. \/ Ticked(ev.seq)
          \/ \E j \in DOMAIN queue : IsTick(queue[j]) /\ queue[j].seq = ev.seq
      BY <1>1, <1>2, <1>5, <2>2 DEF FlowInv, TickInv
    <3>2. 1 .. (i - 1) = DOMAIN queue
      BY <1>1, <2>2
    <3> QED
      BY <1>1, <2>2, <3>1, <3>2
  <2> QED
    BY <1>1, <2>1, <2>2
<1>6. ASSUME NEW i \in DOMAIN pending', IsTrade(pending'[i])
      PROVE  \E j \in DOMAIN queue' : IsTick(queue'[j]) /\ queue'[j].seq = pending'[i].seq
  <2>1. pending'[i].seq = seq /\ IsTick(ev)
    BY <1>1, PendingShrinks DEF ev
  <2>2. n \in DOMAIN queue'
    BY <1>1
  <2> QED
    BY <1>1, <1>2, <2>1, <2>2
<1> QED
  BY <1>1, <1>3, <1>4, <1>5, <1>6 DEF TickInv

LEMMA GiveUpKeepsTicks == ASSUME FlowInv, GiveUp PROVE TickInv'
<1> DEFINE ev == Head(pending)
           out == ticksOut' \cup lostTicks'
<1>1. /\ UNCHANGED <<queue, tape, seq, accepted, ticksOut>> /\ pending # <<>>
      /\ pending' = Tail(pending)
      /\ lostTicks \subseteq lostTicks' /\ (IsTick(ev) => ev.seq \in lostTicks')
  BY DEF GiveUp, messageVars, IsTick
<1>2. \A m : Ticked(m) => m \in out
  BY <1>1 DEF Ticked
<1>3. TickBeforeTrade'
  BY <1>1 DEF TickBeforeTrade, FlowInv, TickInv
<1>4. ASSUME NEW i \in DOMAIN pending' PROVE pending'[i].seq \in out
  <2>1. pending'[i].seq = seq /\ IsTick(ev) /\ ev.seq = seq
    BY <1>1, PendingShrinks
  <2> QED
    BY <1>1, <2>1 DEF Ticked
<1> QED
  BY <1>1, <1>2, <1>3, <1>4 DEF TickInv, FlowInv, Ticked

LEMMA DispatchTickKeepsTicks == ASSUME FlowInv, DispatchTick PROVE TickInv'
<1> DEFINE ev == Head(queue)
           out == ticksOut' \cup lostTicks'
<1>1. /\ queue # <<>> /\ queue' = Tail(queue) /\ UNCHANGED <<pending, tape, accepted, lostTicks>>
      /\ ticksOut' = ticksOut \cup {ev.seq}
  BY DEF DispatchTick, messageVars, lossVars
<1>2. /\ \A i \in DOMAIN queue' : i + 1 \in DOMAIN queue /\ queue'[i] = queue[i + 1]
      /\ ev = queue[1] /\ Len(queue) \in Nat \ {0} /\ DOMAIN queue = 1 .. Len(queue)
      /\ DOMAIN queue' = 1 .. (Len(queue) - 1)
  BY <1>1, QueueShrinks
<1> HIDE DEF ev
<1>3. (\A m : Ticked(m) => m \in out) /\ ev.seq \in out
  BY <1>1 DEF Ticked
<1>4. TickBeforeTrade'
  BY <1>1 DEF TickBeforeTrade, FlowInv, TickInv
\* A tick that was ahead is still ahead, unless it is the one that has just left.
<1>5. ASSUME NEW j \in DOMAIN queue, IsTick(queue[j])
      PROVE  queue[j].seq \in out \/ (j - 1 \in DOMAIN queue' /\ queue'[j - 1] = queue[j])
  <2>1. CASE j = 1
    BY <1>2, <1>3, <2>1
  <2>2. CASE j # 1
    BY <1>2, <2>2
  <2> QED
    BY <2>1, <2>2
<1>6. ASSUME NEW i \in DOMAIN queue', IsTrade(queue'[i]), queue'[i].seq \in accepted
      PROVE  \/ queue'[i].seq \in out
             \/ \E j \in 1 .. (i - 1) : IsTick(queue'[j]) /\ queue'[j].seq = queue'[i].seq
  <2>1. \/ Ticked(queue[i + 1].seq)
        \/ \E j \in 1 .. ((i + 1) - 1) : IsTick(queue[j]) /\ queue[j].seq = queue[i + 1].seq
    BY <1>2, <1>6 DEF FlowInv, TickInv
  <2>2. ASSUME NEW j \in 1 .. ((i + 1) - 1), IsTick(queue[j]), queue[j].seq = queue[i + 1].seq
        PROVE  \/ queue'[i].seq \in out
               \/ \E k \in 1 .. (i - 1) : IsTick(queue'[k]) /\ queue'[k].seq = queue'[i].seq
    <3>1. j \in DOMAIN queue
      BY <1>2
    <3>2. j - 1 \in DOMAIN queue' => j - 1 \in 1 .. (i - 1)
      BY <1>2
    <3> QED
      BY <1>2, <1>5, <2>2, <3>1, <3>2
  <2> QED
    BY <1>2, <1>3, <2>1, <2>2
<1>7. ASSUME NEW i \in DOMAIN pending, IsTrade(pending[i]), pending[i].seq \in accepted
      PROVE  \/ i = 2
             \/ pending[i].seq \in out
             \/ \E j \in DOMAIN queue' : IsTick(queue'[j]) /\ queue'[j].seq = pending[i].seq
  <2>1. \/ i = 2
        \/ Ticked(pending[i].seq)
        \/ \E j \in DOMAIN queue : IsTick(queue[j]) /\ queue[j].seq = pending[i].seq
    BY <1>7 DEF FlowInv, TickInv
  <2> QED
    BY <1>3, <1>5, <2>1
<1> QED
  BY <1>1, <1>4, <1>6, <1>7 DEF TickInv, Ticked

LEMMA DispatchTradeKeepsTicks == ASSUME FlowInv, DispatchTrade PROVE TickInv'
<1> DEFINE ev == Head(queue)
<1>1. /\ queue # <<>> /\ queue' = Tail(queue) /\ UNCHANGED <<pending, accepted, ticksOut, lostTicks>>
      /\ IsTrade(ev)
  BY TapeGrows
<1>2. /\ \A i \in DOMAIN queue' : i + 1 \in DOMAIN queue /\ queue'[i] = queue[i + 1]
      /\ ev = queue[1] /\ Len(queue) \in Nat \ {0} /\ DOMAIN queue = 1 .. Len(queue)
      /\ DOMAIN queue' = 1 .. (Len(queue) - 1)
  BY <1>1, QueueShrinks
<1>3. \A i \in DOMAIN tape' : \/ i \in DOMAIN tape /\ tape'[i] = tape[i]
                              \/ tape'[i] = ev
  BY TapeGrows
<1> HIDE DEF ev
<1>4. (\A m : Ticked(m)' <=> Ticked(m)) /\ ~IsTick(ev)
  BY <1>1 DEF Ticked, IsTick, IsTrade
<1>5. ev.seq \in accepted => Ticked(ev.seq)
  BY <1>1, <1>2 DEF FlowInv, TickInv
<1>6. TickBeforeTrade'
  BY <1>1, <1>3, <1>5 DEF TickBeforeTrade, Ticked, FlowInv, TickInv
<1>7. ASSUME NEW j \in DOMAIN queue, IsTick(queue[j])
      PROVE  j - 1 \in DOMAIN queue' /\ queue'[j - 1] = queue[j]
  <2>1. j # 1
    BY <1>2, <1>4, <1>7
  <2> QED
    BY <1>2, <2>1
<1>8. ASSUME NEW i \in DOMAIN queue', IsTrade(queue'[i]), queue'[i].seq \in accepted
      PROVE  \/ Ticked(queue'[i].seq)
             \/ \E j \in 1 .. (i - 1) : IsTick(queue'[j]) /\ queue'[j].seq = queue'[i].seq
  <2>1. \/ Ticked(queue[i + 1].seq)
        \/ \E j \in 1 .. ((i + 1) - 1) : IsTick(queue[j]) /\ queue[j].seq = queue[i + 1].seq
    BY <1>2, <1>8 DEF FlowInv, TickInv
  <2>2. ASSUME NEW j \in 1 .. ((i + 1) - 1), IsTick(queue[j]), queue[j].seq = queue[i + 1].seq
        PROVE  \E k \in 1 .. (i - 1) : IsTick(queue'[k]) /\ queue'[k].seq = queue'[i].seq
    <3>1. j \in DOMAIN queue
      BY <1>2
    <3>2. j - 1 \in DOMAIN queue' => j - 1 \in 1 .. (i - 1)
      BY <1>2
    <3> QED
      BY <1>2, <1>7, <2>2, <3>1, <3>2
  <2> QED
    BY <1>2, <2>1, <2>2
<1>9. ASSUME NEW i \in DOMAIN pending, IsTrade(pending[i]), pending[i].seq \in accepted
      PROVE  \/ i = 2
             \/ Ticked(pending[i].seq)
             \/ \E j \in DOMAIN queue' : IsTick(queue'[j]) /\ queue'[j].seq = pending[i].seq
  <2>1. \/ i = 2
        \/ Ticked(pending[i].seq)
        \/ \E j \in DOMAIN queue : IsTick(queue[j]) /\ queue[j].seq = pending[i].seq
    BY <1>9 DEF FlowInv, TickInv
  <2> QED
    BY <1>7, <2>1
<1> QED
  BY <1>1, <1>4, <1>6, <1>8, <1>9 DEF TickInv

-----------------------------------------------------------------------------
(* The trades on the tape and on their way to it. *)

LEMMA TradesOfTail ==
  ASSUME NEW q \in Seq(Event), q # <<>>
  PROVE  TradesOf(q) = TradesOf(Tail(q)) \cup (IF IsTrade(Head(q)) THEN {Head(q)} ELSE {})
<1>1. /\ Len(q) \in Nat \ {0} /\ DOMAIN q = 1 .. Len(q) /\ Head(q) = q[1]
      /\ DOMAIN Tail(q) = 1 .. (Len(q) - 1)
      /\ \A i \in 1 .. (Len(q) - 1) : Tail(q)[i] = q[i + 1]
  BY TailFacts
<1> DEFINE t == Tail(q)
<1>2. ASSUME NEW e
      PROVE  (\E i \in DOMAIN q : IsTrade(q[i]) /\ e = q[i])
               <=> (\E i \in DOMAIN t : IsTrade(t[i]) /\ e = t[i]) \/ (IsTrade(q[1]) /\ e = q[1])
  <2>1. ASSUME NEW i \in DOMAIN q, i # 1 PROVE i - 1 \in DOMAIN t /\ t[i - 1] = q[i]
    BY <1>1, <2>1
  <2>2. ASSUME NEW i \in DOMAIN t PROVE i + 1 \in DOMAIN q /\ t[i] = q[i + 1]
    BY <1>1
  <2>3. 1 \in DOMAIN q
    BY <1>1
  <2> HIDE DEF t
  <2> QED
    BY <2>1, <2>2, <2>3, Zenon
<1> HIDE DEF t
<1>3. \A e : e \in TradesOf(q) <=> \E i \in DOMAIN q : IsTrade(q[i]) /\ e = q[i]
  BY DEF TradesOf
<1>4. \A e : e \in TradesOf(t) <=> \E i \in DOMAIN t : IsTrade(t[i]) /\ e = t[i]
  BY DEF TradesOf
<1>5. \A e : e \in TradesOf(q) <=> e \in TradesOf(t) \/ (IsTrade(q[1]) /\ e = q[1])
  BY <1>2, <1>3, <1>4, Zenon
<1> QED
  BY <1>1, <1>5 DEF t

LEMMA TradesOfAppend ==
  ASSUME NEW E, NEW q \in Seq(E), NEW e \in E
  PROVE  TradesOf(Append(q, e)) = TradesOf(q) \cup (IF IsTrade(e) THEN {e} ELSE {})
<1> DEFINE a == Append(q, e)
           n == Len(q) + 1
<1>1. /\ Len(q) \in Nat /\ DOMAIN q = 1 .. Len(q) /\ DOMAIN a = 1 .. n
      /\ \A i \in 1 .. Len(q) : a[i] = q[i]
      /\ a[n] = e
  BY AppendFacts
<1> HIDE DEF a
<1>2. (\A i \in DOMAIN a : i \in DOMAIN q \/ i = n) /\ (\A i \in DOMAIN q : i \in DOMAIN a /\ a[i] = q[i])
        /\ n \in DOMAIN a /\ a[n] = e
  BY <1>1
<1>3. \A f : f \in TradesOf(q) <=> \E i \in DOMAIN q : IsTrade(q[i]) /\ f = q[i]
  BY DEF TradesOf
<1>4. \A f : f \in TradesOf(a) <=> \E i \in DOMAIN a : IsTrade(a[i]) /\ f = a[i]
  BY DEF TradesOf
<1> HIDE DEF n
<1>5. \A f : f \in TradesOf(a) <=> f \in TradesOf(q) \/ (IsTrade(e) /\ f = e)
  <2>1. \A f : f \in TradesOf(a) => f \in TradesOf(q) \/ (IsTrade(e) /\ f = e)
    <3> SUFFICES ASSUME NEW f \in TradesOf(a), f \notin TradesOf(q) PROVE IsTrade(e) /\ f = e
      OBVIOUS
    <3>1. PICK i \in DOMAIN a : IsTrade(a[i]) /\ f = a[i]
      BY <1>4
    <3>2. i \notin DOMAIN q
      BY <1>2, <1>3, <3>1
    <3> QED
      BY <1>2, <3>1, <3>2
  <2>2. \A f : f \in TradesOf(q) \/ (IsTrade(e) /\ f = e) => f \in TradesOf(a)
    BY <1>2, <1>3, <1>4, Zenon
  <2> QED
    BY <2>1, <2>2
<1> QED
  BY <1>5 DEF a

LEMMA TradesOfNone == TradesOf(<<>>) = {}
BY DEF TradesOf

LEMMA OnTheWayNumbers ==
  ASSUME FlowInv
  PROVE  \A e \in OnTheWay : e \in TradeSet /\ e.seq \in Nat /\ e.seq <= seq
<1>1. ASSUME NEW e \in TradesOf(tape) PROVE e \in TradeSet /\ e.seq \in Nat /\ e.seq <= seq
  BY NumbersSoFar DEF TradesOf
<1>2. ASSUME NEW e \in TradesOf(queue) PROVE e \in TradeSet /\ e.seq \in Nat /\ e.seq <= seq
  BY NumbersSoFar, EventFacts DEF TradesOf
<1>3. ASSUME NEW e \in TradesOf(pending) PROVE e \in TradeSet /\ e.seq \in Nat /\ e.seq <= seq
  <2>1. PICK i \in DOMAIN pending : e = pending[i] /\ IsTrade(pending[i])
    BY DEF TradesOf
  <2>2. pending[i] \in Event /\ pending[i].seq = seq
    BY DEF FlowInv, FlowTypeOK, OrderInv, PendingInv
  <2> QED
    BY <2>1, <2>2, EventFacts, NumbersSoFar
<1> QED
  BY <1>1, <1>2, <1>3 DEF OnTheWay

\* The same trades on their way, accepted and lost: nothing changes.
LEMMA TapeUnchanged ==
  ASSUME FlowInv, good' = good, good.tape => OnTheWay' = OnTheWay,
         UNCHANGED <<trades, accepted, lostTrades, last>>
  PROVE  TapeInv'
BY DEF FlowInv, TapeInv, LastAgrees, Own

LEMMA PublishKeepsTape == ASSUME FlowInv, Publish PROVE TapeInv'
<1>1. /\ pending \in Seq(Event) /\ pending # <<>> /\ queue \in Seq(Event)
      /\ queue' = Append(queue, Head(pending)) /\ pending' = Tail(pending)
      /\ UNCHANGED <<vars, good, tape, trades, accepted, lostTrades>>
  BY DEF FlowInv, FlowTypeOK, Publish, messageVars
<1>2. Head(pending) \in Event
  BY <1>1, TailFacts
<1>3. TradesOf(queue') = TradesOf(queue) \cup (IF IsTrade(Head(pending)) THEN {Head(pending)} ELSE {})
  BY <1>1, <1>2, TradesOfAppend
<1>4. TradesOf(pending) = TradesOf(pending') \cup (IF IsTrade(Head(pending)) THEN {Head(pending)} ELSE {})
  BY <1>1, TradesOfTail
<1>5. OnTheWay' = TradesOf(tape) \cup TradesOf(queue') \cup TradesOf(pending')
  BY <1>1 DEF OnTheWay, TradesOf
<1>6. OnTheWay' = OnTheWay
  BY <1>3, <1>4, <1>5 DEF OnTheWay
<1> QED
  BY <1>1, <1>6, TapeUnchanged DEF vars

LEMMA DispatchTickKeepsTape == ASSUME FlowInv, DispatchTick PROVE TapeInv'
<1>1. /\ queue \in Seq(Event) /\ queue # <<>> /\ queue' = Tail(queue) /\ ~IsTrade(Head(queue))
      /\ UNCHANGED <<vars, good, tape, pending, trades, accepted, lostTrades>>
  BY DEF FlowInv, FlowTypeOK, DispatchTick, messageVars, lossVars, IsTrade
<1>2. TradesOf(queue) = TradesOf(queue')
  BY <1>1, TradesOfTail
<1>3. OnTheWay' = TradesOf(tape) \cup TradesOf(queue') \cup TradesOf(pending)
  BY <1>1 DEF OnTheWay, TradesOf
<1>4. OnTheWay' = OnTheWay
  BY <1>2, <1>3 DEF OnTheWay
<1> QED
  BY <1>1, <1>4, TapeUnchanged DEF vars

LEMMA DispatchTradeKeepsTape == ASSUME FlowInv, DispatchTrade PROVE TapeInv'
<1> DEFINE ev == Head(queue)
<1>1. /\ queue \in Seq(Event) /\ queue # <<>> /\ queue' = Tail(queue) /\ IsTrade(ev)
      /\ tape \in Seq(TradeSet) /\ ev \in TradeSet
      /\ UNCHANGED <<vars, good, pending, trades, accepted, lostTrades>>
  BY TapeGrows DEF FlowInv, FlowTypeOK
<1>2. SUFFICES ASSUME good.tape PROVE OnTheWay' = OnTheWay
  BY <1>1, TapeUnchanged DEF vars
<1>3. tape' = Append(tape, ev)
  BY <1>2 DEF DispatchTrade
<1>4. TradesOf(queue) = TradesOf(queue') \cup {ev}
  BY <1>1, TradesOfTail
<1>5. TradesOf(tape') = TradesOf(tape) \cup {ev}
  BY <1>1, <1>3, TradesOfAppend
<1>6. OnTheWay' = TradesOf(tape') \cup TradesOf(queue') \cup TradesOf(pending)
  BY <1>1 DEF OnTheWay, TradesOf
<1> QED
  BY <1>4, <1>5, <1>6 DEF OnTheWay

LEMMA GiveUpKeepsTape == ASSUME FlowInv, GiveUp PROVE TapeInv'
<1> DEFINE ev == Head(pending)
<1>1. /\ pending \in Seq(Event) /\ pending # <<>> /\ pending' = Tail(pending)
      /\ UNCHANGED <<vars, good, tape, queue, trades, accepted>>
      /\ lostTrades' = IF IsTrade(ev) THEN lostTrades \cup {ev.seq} ELSE lostTrades
  BY DEF FlowInv, FlowTypeOK, GiveUp, messageVars, IsTrade
<1>2. TradesOf(pending) = TradesOf(pending') \cup (IF IsTrade(ev) THEN {ev} ELSE {})
  BY <1>1, TradesOfTail
<1>3. OnTheWay' = TradesOf(tape) \cup TradesOf(queue) \cup TradesOf(pending')
  BY <1>1 DEF OnTheWay, TradesOf
<1>4. OnTheWay = OnTheWay' \cup (IF IsTrade(ev) THEN {ev} ELSE {})
  BY <1>2, <1>3 DEF OnTheWay
<1>5. CASE ~IsTrade(ev)
  BY <1>1, <1>4, <1>5, TapeUnchanged DEF vars
<1>6. CASE IsTrade(ev)
  <2>1. ev = pending[1] /\ 1 \in DOMAIN pending /\ ev.seq = seq /\ seq \in Nat
    BY <1>1, PendingShrinks
  <2>2. TradesOf(pending') = {}
    <3>1. DOMAIN pending' = {}
      <4>1. \A i \in DOMAIN pending' : IsTick(ev)
        BY <1>1, PendingShrinks
      <4> QED
        BY <1>6, <4>1 DEF IsTick, IsTrade
    <3> QED
      BY <3>1 DEF TradesOf
  <2>3. ASSUME NEW e \in OnTheWay' PROVE e.seq # seq
    <3>1. /\ \A i \in DOMAIN tape : tape[i].seq < seq
          /\ \A i \in DOMAIN queue : IsTrade(queue[i]) => queue[i].seq < seq
      BY <1>6, <2>1 DEF FlowInv, OrderInv, PendingOrderInv
    <3>2. \/ \E i \in DOMAIN tape : e = tape[i]
          \/ \E i \in DOMAIN queue : IsTrade(queue[i]) /\ e = queue[i]
      BY <1>3, <2>2, <2>3 DEF TradesOf
    <3> QED
      BY <3>1, <3>2, NumbersSoFar
  <2> DEFINE rest == OnTheWay'
  <2>4. OnTheWay = rest \cup {ev} /\ (\A e \in rest : e.seq # seq) /\ lostTrades' = lostTrades \cup {seq}
    BY <1>1, <1>4, <1>6, <2>1, <2>3
  <2> HIDE DEF rest
  <2>5. ASSUME good.tape
        PROVE  /\ {e.seq : e \in rest} = trades \ lostTrades'
               /\ lostTrades' \cap accepted = {} =>
                    \A s \in Symbols : LastAgrees(s, OnTheWay) /\ Own(s, OnTheWay) = Own(s, rest)
    <3>1. {e.seq : e \in rest \cup {ev}} = trades \ lostTrades
      BY <2>4, <2>5 DEF FlowInv, TapeInv
    <3>2. {e.seq : e \in rest} = trades \ lostTrades'
      <4>1. ASSUME NEW n PROVE (\E e \in rest : n = e.seq) <=> n \in trades /\ n \notin lostTrades /\ n # seq
        <5>1. (\E e \in rest \cup {ev} : n = e.seq) <=> n \in trades /\ n \notin lostTrades
          BY <3>1
        <5> QED
          BY <2>1, <2>4, <5>1
      <4> QED
        BY <2>4, <4>1
    <3>3. ASSUME lostTrades' \cap accepted = {}, NEW s \in Symbols
          PROVE  LastAgrees(s, OnTheWay) /\ Own(s, OnTheWay) = Own(s, rest)
      <4>1. seq \notin accepted /\ lostTrades \cap accepted = {}
        BY <2>4, <3>3
      <4>2. LastAgrees(s, OnTheWay)
        BY <2>5, <4>1 DEF FlowInv, TapeInv
      <4>3. Own(s, OnTheWay) = Own(s, rest)
        BY <2>1, <2>4, <4>1 DEF Own
      <4> QED
        BY <4>2, <4>3
    <3> QED
      BY <3>2, <3>3
  <2>6. \A s \in Symbols : Own(s, rest) = {e \in OnTheWay' : e.symbol_id = s /\ e.seq \in accepted}
    BY DEF Own, rest
  <2> QED
    BY <1>1, <2>5, <2>6 DEF TapeInv, LastAgrees, Own, rest, vars
<1> QED
  BY <1>5, <1>6

LEMMA OrderMessageKeepsTape == ASSUME FlowInv, Message, OrderShape PROVE TapeInv'
<1>1. /\ pending = <<>> /\ UNCHANGED <<queue, tape, good, trades, accepted, lostTrades, last>>
  BY DEF Message, OrderShape, lossVars
<1>2. TradesOf(pending') = {}
  <2>1. CASE pending' = <<>>
    BY <2>1, TradesOfNone
  <2>2. ASSUME NEW s \in Symbols, TicksOnly(s), pending' = <<TickEvent(s, published'[s], seq + 1)>>
        PROVE  TradesOf(pending') = {}
    <3> DEFINE e == TickEvent(s, published'[s], seq + 1)
    <3>1. ~IsTrade(e)
      BY <2>2, NumbersSoFar, TickEventFacts DEF TicksOnly
    <3> HIDE DEF e
    <3>2. pending' = <<e>>
      BY <2>2 DEF e
    <3> QED
      BY <3>1, <3>2 DEF TradesOf
  <2> QED
    BY <2>1, <2>2 DEF OrderShape
<1>3. OnTheWay' = TradesOf(tape) \cup TradesOf(queue) \cup TradesOf(pending')
  BY <1>1 DEF OnTheWay, TradesOf
<1>4. OnTheWay = TradesOf(tape) \cup TradesOf(queue)
  BY <1>1, TradesOfNone DEF OnTheWay
<1> QED
  BY <1>1, <1>2, <1>3, <1>4, TapeUnchanged

\* A trade adds itself, with the largest number so far; the book's last trade changes with
\* it when the book accepts it.
LEMMA TradeMessageKeepsTape ==
  ASSUME FlowInv, Message, NEW s, NEW t, TradeShape(s, t)
  PROVE  TapeInv'
<1> DEFINE f == TradeEvent(s, t, seq + 1)
           all == OnTheWay'
<1>1. /\ pending = <<>> /\ UNCHANGED <<queue, tape, good, lostTrades>>
      /\ trades' = trades \cup {seq + 1} /\ seq \in Nat /\ seq + 1 \in Nat
      /\ s \in WireSymbols /\ t \in WireQuantities
  BY NumbersSoFar DEF Message, TradeShape, lossVars
<1>2. f \in TradeSet /\ IsTrade(f) /\ f.symbol_id = s /\ f.trade = t /\ f.seq = seq + 1
  BY <1>1, TradeEventFacts
<1>3. TradesOf(pending') = {f}
  <2>1. CASE pending' = <<f>>
    <3> HIDE DEF f
    <3> QED
      BY <1>2, <2>1 DEF TradesOf
  <2>2. CASE TicksOnly(s) /\ pending' = <<TickEvent(s, published'[s], seq + 1), f>>
    <3> DEFINE e == TickEvent(s, published'[s], seq + 1)
    <3>1. ~IsTrade(e)
      BY <1>1, <2>2, TickEventFacts DEF TicksOnly
    <3>2. pending' = <<e, f>>
      BY <2>2
    <3> HIDE DEF e, f
    <3>3. DOMAIN pending' = {1, 2} /\ pending'[1] = e /\ pending'[2] = f
      BY <3>2
    <3> QED
      BY <1>2, <3>1, <3>3 DEF TradesOf
  <2> QED
    BY <2>1, <2>2 DEF TradeShape
<1> HIDE DEF f
<1>4. OnTheWay' = TradesOf(tape) \cup TradesOf(queue) \cup TradesOf(pending')
  BY <1>1 DEF OnTheWay, TradesOf
<1>5. OnTheWay = TradesOf(tape) \cup TradesOf(queue)
  BY <1>1, TradesOfNone DEF OnTheWay
<1>6. all = OnTheWay \cup {f}
  BY <1>3, <1>4, <1>5
<1>7. \A e \in OnTheWay : e.seq \in Nat /\ e.seq # seq + 1 /\ e.seq <= seq
  BY <1>1, OnTheWayNumbers
<1>8. seq + 1 \notin accepted /\ seq + 1 \notin lostTrades
  BY <1>1, NumbersSoFar
<1> HIDE DEF all
<1>9. good.tape => {e.seq : e \in all} = trades' \ lostTrades
  <2> SUFFICES ASSUME good.tape, NEW n
               PROVE  (\E e \in all : n = e.seq) <=> n \in trades' /\ n \notin lostTrades
    OBVIOUS
  <2>1. (\E e \in OnTheWay : n = e.seq) <=> n \in trades /\ n \notin lostTrades
    <3>1. {e.seq : e \in OnTheWay} = trades \ lostTrades
      BY DEF FlowInv, TapeInv
    <3> QED
      BY <3>1
  <2> QED
    BY <1>1, <1>2, <1>6, <1>8, <2>1
<1>10. ASSUME good.tape, lostTrades \cap accepted' = {}, NEW i \in Symbols
       PROVE  LET own == {e \in all : e.symbol_id = i /\ e.seq \in accepted'}
              IN  IF own = {} THEN last'[i] = <<0, 0>>
                  ELSE \E e \in own : last'[i] = e.trade /\ \A g \in own : g.seq <= e.seq
  <2> DEFINE own == {e \in all : e.symbol_id = i /\ e.seq \in accepted'}
  <2>1. LastAgrees(i, OnTheWay)
    <3>1. lostTrades \cap accepted = {}
      BY <1>10 DEF TradeShape
    <3> QED
      BY <1>10, <3>1 DEF FlowInv, TapeInv
  <2>2. CASE i = s /\ seq + 1 \in accepted'
    <3>1. last'[i] = t
      BY <1>8, <2>2 DEF TradeShape, FlowInv, BookInv, HistoryInv
    <3>2. f \in own
      BY <1>2, <1>6, <2>2
    <3>3. \A g \in own : g.seq <= f.seq
      BY <1>1, <1>2, <1>6, <1>7
    <3> HIDE DEF own
    <3> QED
      BY <1>2, <3>1, <3>2, <3>3 DEF own
  <2>3. CASE ~(i = s /\ seq + 1 \in accepted')
    <3>1. last'[i] = last[i]
      BY <2>3 DEF TradeShape, FlowInv, BookInv, HistoryInv
    <3>2. \A e \in OnTheWay : e.seq \in accepted' <=> e.seq \in accepted
      BY <1>7 DEF TradeShape
    <3>3. own = Own(i, OnTheWay)
      BY <1>2, <1>6, <2>3, <3>2 DEF Own
    <3> QED
      BY <2>1, <3>1, <3>3 DEF LastAgrees
  <2> QED
    BY <2>2, <2>3
<1> QED
  BY <1>1, <1>9, <1>10 DEF TapeInv, LastAgrees, Own, all

-----------------------------------------------------------------------------
(* The last tick of a symbol. *)

\* A tick that is not one of symbol s, or a trade, does not matter to s.
LEMMA ShrinkingShowsLast ==
  ASSUME NEW s, NEW q \in Seq(Event), q # <<>>, ShowsLast(s, q)
  PROVE  /\ ShowsLast(s, Tail(q))
         /\ HasTick(s, q) <=> HasTick(s, Tail(q)) \/ (IsTick(Head(q)) /\ Head(q).symbol_id = s)
         /\ IsTick(Head(q)) /\ Head(q).symbol_id = s /\ ~HasTick(s, Tail(q)) =>
              Head(q).tick = published[s]
<1> DEFINE t == Tail(q)
           Of(e) == IsTick(e) /\ e.symbol_id = s
<1>1. /\ Len(q) \in Nat \ {0} /\ DOMAIN q = 1 .. Len(q) /\ Head(q) = q[1]
      /\ DOMAIN t = 1 .. (Len(q) - 1) /\ 1 \in DOMAIN q
      /\ \A i \in 1 .. (Len(q) - 1) : t[i] = q[i + 1]
  BY TailFacts
<1>2. \A i \in DOMAIN t : i + 1 \in DOMAIN q /\ t[i] = q[i + 1] /\ i \in Int
  BY <1>1
<1>3. \A i \in DOMAIN q : i \in Int /\ i >= 1 /\ (i = 1 \/ (i - 1 \in DOMAIN t /\ t[i - 1] = q[i]))
  BY <1>1
<1>4. \A i \in DOMAIN q : Of(q[i]) /\ (\A j \in DOMAIN q : j > i => ~Of(q[j])) => q[i].tick = published[s]
  BY DEF ShowsLast
<1>5. (HasTick(s, q) <=> \E i \in DOMAIN q : Of(q[i])) /\ (HasTick(s, t) <=> \E i \in DOMAIN t : Of(t[i]))
  BY DEF HasTick
<1> HIDE DEF t, Of
<1>6. ASSUME NEW i \in DOMAIN t, Of(t[i]), \A j \in DOMAIN t : j > i => ~Of(t[j])
      PROVE  t[i].tick = published[s]
  <2>1. ASSUME NEW j \in DOMAIN q, j > i + 1 PROVE ~Of(q[j])
    <3>1. j - 1 \in DOMAIN t /\ t[j - 1] = q[j] /\ j - 1 > i
      BY <1>1, <1>2, <1>3, <2>1
    <3> QED
      BY <1>6, <3>1
  <2> QED
    BY <1>2, <1>4, <1>6, <2>1
<1>7. (\E i \in DOMAIN q : Of(q[i])) <=> (\E i \in DOMAIN t : Of(t[i])) \/ Of(q[1])
  BY <1>1, <1>2, <1>3
<1>8. Of(q[1]) /\ ~(\E i \in DOMAIN t : Of(t[i])) => q[1].tick = published[s]
  <2> SUFFICES ASSUME Of(q[1]), ~(\E i \in DOMAIN t : Of(t[i])) PROVE q[1].tick = published[s]
    OBVIOUS
  <2>1. \A j \in DOMAIN q : j > 1 => ~Of(q[j])
    BY <1>3
  <2> QED
    BY <1>1, <1>4, <2>1
<1>9. ShowsLast(s, t)
  BY <1>6 DEF ShowsLast, Of
<1> QED
  BY <1>1, <1>5, <1>7, <1>8, <1>9 DEF t, Of

\* Among the events of a message, only those of a tick concern its symbol.
LEMMA ShowsLastOfMessage ==
  ASSUME FlowInv, Message, NEW s \in Symbols
  PROVE  \/ /\ ~HasTick(s, pending') /\ published'[s] = published[s]
         \/ /\ HasTick(s, pending')
            /\ \A i \in DOMAIN pending' : IsTick(pending'[i]) => pending'[i].tick = published'[s]
<1>1. seq + 1 \in Nat
  BY NumbersSoFar
<1>2. CASE OrderShape
  <2>1. CASE pending' = <<>> /\ \A i \in Symbols : published'[i] = published[i]
    BY <2>1 DEF HasTick
  <2>2. ASSUME NEW r \in Symbols, TicksOnly(r), pending' = <<TickEvent(r, published'[r], seq + 1)>>
        PROVE  \/ /\ ~HasTick(s, pending') /\ published'[s] = published[s]
               \/ /\ HasTick(s, pending')
                  /\ \A i \in DOMAIN pending' : IsTick(pending'[i]) => pending'[i].tick = published'[s]
    <3> DEFINE e == TickEvent(r, published'[r], seq + 1)
    <3>1. IsTick(e) /\ e.symbol_id = r /\ e.tick = published'[r]
      BY <1>1, <2>2, TickEventFacts DEF TicksOnly
    <3>2. pending' = <<e>>
      BY <2>2
    <3> HIDE DEF e
    <3>3. DOMAIN pending' = {1} /\ pending'[1] = e
      BY <3>2
    <3>4. HasTick(s, pending') <=> r = s
      BY <3>1, <3>3 DEF HasTick
    <3> QED
      BY <2>2, <3>1, <3>3, <3>4 DEF TicksOnly
  <2> QED
    BY <1>2, <2>1, <2>2 DEF OrderShape
<1>3. ASSUME NEW r, NEW t, TradeShape(r, t)
      PROVE  \/ /\ ~HasTick(s, pending') /\ published'[s] = published[s]
             \/ /\ HasTick(s, pending')
                /\ \A i \in DOMAIN pending' : IsTick(pending'[i]) => pending'[i].tick = published'[s]
  <2> DEFINE e == TickEvent(r, published'[r], seq + 1)
             f == TradeEvent(r, t, seq + 1)
  <2>1. ~IsTick(f)
    BY <1>1, <1>3, TradeEventFacts DEF TradeShape
  <2>2. CASE TicksOnly(r) /\ pending' = <<e, f>>
    <3>1. IsTick(e) /\ e.symbol_id = r /\ e.tick = published'[r]
      BY <1>1, <2>2, TickEventFacts DEF TicksOnly
    <3> HIDE DEF e, f
    <3>2. DOMAIN pending' = {1, 2} /\ pending'[1] = e /\ pending'[2] = f
      BY <2>2
    <3>3. HasTick(s, pending') <=> r = s
      BY <2>1, <3>1, <3>2 DEF HasTick
    <3> QED
      BY <2>1, <2>2, <3>1, <3>2, <3>3 DEF TicksOnly
  <2>3. CASE pending' = <<f>> /\ \A i \in Symbols : published'[i] = published[i]
    <3> HIDE DEF f
    <3>1. DOMAIN pending' = {1} /\ pending'[1] = f
      BY <2>3
    <3> QED
      BY <2>1, <2>3, <3>1 DEF HasTick
  <2> QED
    BY <1>3, <2>2, <2>3 DEF TradeShape
<1> QED
  BY <1>2, <1>3 DEF Message

LEMMA MessageKeepsBbo == ASSUME FlowInv, Message PROVE BboInv'
<1>1. pending = <<>> /\ UNCHANGED <<queue, good, bbo, unpublished>>
  BY DEF Message, lossVars
<1>2. ASSUME NEW s \in Symbols
      PROVE  /\ ShowsLast(s, pending)'
             /\ s \notin unpublished' /\ ~HasTick(s, pending)' =>
                  /\ ShowsLast(s, queue)'
                  /\ good'.bbo /\ ~HasTick(s, queue)' => bbo'[s] = published'[s].top
  <2>1. HasTick(s, pending)' <=> HasTick(s, pending')
    BY DEF HasTick
  <2>2. CASE HasTick(s, pending') /\
             \A i \in DOMAIN pending' : IsTick(pending'[i]) => pending'[i].tick = published'[s]
    BY <2>1, <2>2 DEF ShowsLast
  <2>3. CASE ~HasTick(s, pending') /\ published'[s] = published[s]
    <3>1. ShowsLast(s, pending)'
      BY <2>3 DEF ShowsLast, HasTick
    <3>2. ~HasTick(s, pending)
      BY <1>1 DEF HasTick
    <3>3. s \notin unpublished =>
            ShowsLast(s, queue) /\ (good.bbo /\ ~HasTick(s, queue) => bbo[s] = published[s].top)
      BY <3>2 DEF FlowInv, BboInv
    <3>4. ShowsLast(s, queue) => ShowsLast(s, queue)'
      BY <1>1, <2>3 DEF ShowsLast
    <3>5. HasTick(s, queue)' <=> HasTick(s, queue)
      BY <1>1 DEF HasTick
    <3> QED
      BY <1>1, <2>3, <3>1, <3>3, <3>4, <3>5
  <2> QED
    BY <2>2, <2>3, ShowsLastOfMessage
<1> QED
  BY <1>2 DEF BboInv

\* Appending the last tick of s, or an event that does not concern s.
LEMMA GrowingShowsLast ==
  ASSUME NEW s, NEW q \in Seq(Event), NEW e \in Event
  PROVE  LET a == Append(q, e)
             of == IsTick(e) /\ e.symbol_id = s
         IN  /\ HasTick(s, a) <=> HasTick(s, q) \/ of
             /\ of /\ e.tick = published[s] => ShowsLast(s, a)
             /\ ~of /\ ShowsLast(s, q) => ShowsLast(s, a)
<1> DEFINE a == Append(q, e)
           n == Len(q) + 1
           Of(x) == IsTick(x) /\ x.symbol_id = s
<1>1. /\ Len(q) \in Nat /\ DOMAIN q = 1 .. Len(q) /\ DOMAIN a = 1 .. n
      /\ \A i \in 1 .. Len(q) : a[i] = q[i]
      /\ a[n] = e
  BY AppendFacts
<1> HIDE DEF a, Of
<1>2. /\ \A i \in DOMAIN a : i \in Int /\ ((i \in DOMAIN q /\ i < n) \/ i = n)
      /\ \A i \in DOMAIN q : i \in DOMAIN a /\ a[i] = q[i]
      /\ n \in DOMAIN a /\ a[n] = e /\ n \in Int
  BY <1>1
<1> HIDE DEF n
<1>3. (\E i \in DOMAIN a : Of(a[i])) <=> (\E i \in DOMAIN q : Of(q[i])) \/ Of(e)
  BY <1>2
<1>4. ASSUME Of(e), e.tick = published[s], NEW i \in DOMAIN a,
             \A j \in DOMAIN a : j > i => ~Of(a[j])
      PROVE  a[i].tick = published[s]
  <2>1. ~(n > i)
    BY <1>2, <1>4
  <2> QED
    BY <1>2, <1>4, <2>1
<1>5. ASSUME ~Of(e), ShowsLast(s, q), NEW i \in DOMAIN a, Of(a[i]),
             \A j \in DOMAIN a : j > i => ~Of(a[j])
      PROVE  a[i].tick = published[s]
  <2>1. i \in DOMAIN q /\ a[i] = q[i] /\ \A j \in DOMAIN q : j > i => ~Of(q[j])
    BY <1>2, <1>5
  <2> QED
    BY <1>5, <2>1 DEF ShowsLast, Of
<1>6. Of(e) /\ e.tick = published[s] => ShowsLast(s, a)
  BY <1>4 DEF ShowsLast, Of
<1>7. ~Of(e) /\ ShowsLast(s, q) => ShowsLast(s, a)
  BY <1>5 DEF ShowsLast, Of
<1>8. HasTick(s, a) <=> HasTick(s, q) \/ Of(e)
  BY <1>3 DEF HasTick, Of
<1> QED
  BY <1>6, <1>7, <1>8 DEF a, Of

LEMMA BboByParts ==
  ASSUME \A s \in Symbols :
           /\ ShowsLast(s, pending')
           /\ s \notin unpublished' /\ ~HasTick(s, pending') =>
                /\ ShowsLast(s, queue')
                /\ good'.bbo /\ ~HasTick(s, queue') => bbo'[s] = published'[s].top,
         UNCHANGED vars
  PROVE  BboInv'
BY DEF BboInv, ShowsLast, HasTick, vars

LEMMA PublishKeepsBbo == ASSUME FlowInv, Publish PROVE BboInv'
<1> DEFINE ev == Head(pending)
<1>1. /\ pending \in Seq(Event) /\ queue \in Seq(Event) /\ pending # <<>>
      /\ pending' = Tail(pending) /\ queue' = Append(queue, ev) /\ UNCHANGED <<vars, good, bbo>>
      /\ unpublished' = IF IsTick(ev) THEN unpublished \ {ev.symbol_id} ELSE unpublished
  BY DEF FlowInv, FlowTypeOK, Publish, IsTick
<1>2. ev \in Event
  BY <1>1, TailFacts
<1>3. \A i \in DOMAIN pending' : IsTrade(pending'[i])
  BY <1>1, PendingShrinks
<1>4. published' = published
  BY <1>1 DEF vars
<1>5. ASSUME NEW s \in Symbols
      PROVE  /\ ShowsLast(s, pending')
             /\ s \notin unpublished' /\ ~HasTick(s, pending') =>
                  /\ ShowsLast(s, queue')
                  /\ good'.bbo /\ ~HasTick(s, queue') => bbo'[s] = published'[s].top
  <2>1. ~HasTick(s, pending')
    BY <1>3 DEF HasTick, IsTick, IsTrade
  <2>2. ShowsLast(s, pending)
    BY DEF FlowInv, BboInv
  <2>3. /\ ShowsLast(s, pending')
        /\ HasTick(s, pending) <=> IsTick(ev) /\ ev.symbol_id = s
        /\ IsTick(ev) /\ ev.symbol_id = s => ev.tick = published[s]
    BY <1>1, <2>1, <2>2, ShrinkingShowsLast
  <2>4. /\ HasTick(s, queue') <=> HasTick(s, queue) \/ (IsTick(ev) /\ ev.symbol_id = s)
        /\ IsTick(ev) /\ ev.symbol_id = s /\ ev.tick = published[s] => ShowsLast(s, queue')
        /\ ~(IsTick(ev) /\ ev.symbol_id = s) /\ ShowsLast(s, queue) => ShowsLast(s, queue')
    <3> HIDE DEF ev
    <3> QED
      BY <1>1, <1>2, GrowingShowsLast
  <2> HIDE DEF ev
  <2>5. CASE IsTick(ev) /\ ev.symbol_id = s
    BY <2>3, <2>4, <2>5
  <2>6. CASE ~(IsTick(ev) /\ ev.symbol_id = s)
    <3>1. s \notin unpublished' => s \notin unpublished
      BY <1>1, <2>6
    <3>2. s \notin unpublished =>
            ShowsLast(s, queue) /\ (good.bbo /\ ~HasTick(s, queue) => bbo[s] = published[s].top)
      BY <2>3, <2>6 DEF FlowInv, BboInv
    <3> QED
      BY <1>1, <1>4, <2>3, <2>4, <2>6, <3>1, <3>2
  <2> QED
    BY <2>5, <2>6
<1> QED
  BY <1>1, <1>5, BboByParts

LEMMA GiveUpKeepsBbo == ASSUME FlowInv, GiveUp PROVE BboInv'
<1> DEFINE ev == Head(pending)
<1>1. /\ pending \in Seq(Event) /\ pending # <<>>
      /\ pending' = Tail(pending) /\ UNCHANGED <<vars, queue, good, bbo>>
      /\ unpublished' = IF IsTick(ev) THEN unpublished \cup {ev.symbol_id} ELSE unpublished
  BY DEF FlowInv, FlowTypeOK, GiveUp, IsTick
<1>2. published' = published
  BY <1>1 DEF vars
<1>3. ASSUME NEW s \in Symbols
      PROVE  /\ ShowsLast(s, pending')
             /\ s \notin unpublished' /\ ~HasTick(s, pending') =>
                  /\ ShowsLast(s, queue')
                  /\ good'.bbo /\ ~HasTick(s, queue') => bbo'[s] = published'[s].top
  <2>1. /\ ShowsLast(s, pending)
        /\ s \notin unpublished /\ ~HasTick(s, pending) =>
             ShowsLast(s, queue) /\ (good.bbo /\ ~HasTick(s, queue) => bbo[s] = published[s].top)
    BY DEF FlowInv, BboInv
  <2>2. /\ ShowsLast(s, pending')
        /\ HasTick(s, pending) <=> HasTick(s, pending') \/ (IsTick(ev) /\ ev.symbol_id = s)
    BY <1>1, <2>1, ShrinkingShowsLast
  <2>3. s \notin unpublished' => s \notin unpublished /\ ~(IsTick(ev) /\ ev.symbol_id = s)
    BY <1>1
  <2> QED
    BY <1>1, <1>2, <2>1, <2>2, <2>3
<1> QED
  BY <1>1, <1>3, BboByParts

LEMMA DispatchTickKeepsBbo == ASSUME FlowInv, DispatchTick PROVE BboInv'
<1> DEFINE ev == Head(queue)
<1>1. /\ queue \in Seq(Event) /\ queue # <<>> /\ queue' = Tail(queue)
      /\ UNCHANGED <<vars, pending, good, unpublished>> /\ IsTick(ev)
      /\ bbo' = IF good.bbo THEN [bbo EXCEPT ![ev.symbol_id] = ev.tick.top] ELSE bbo
      /\ bbo \in [Symbols -> [Sides -> Level]]
  BY DEF FlowInv, FlowTypeOK, DispatchTick, lossVars, IsTick
<1>2. published' = published
  BY <1>1 DEF vars
<1>3. ASSUME NEW s \in Symbols
      PROVE  /\ ShowsLast(s, pending')
             /\ s \notin unpublished' /\ ~HasTick(s, pending') =>
                  /\ ShowsLast(s, queue')
                  /\ good'.bbo /\ ~HasTick(s, queue') => bbo'[s] = published'[s].top
  <2>1. ShowsLast(s, pending)
    BY DEF FlowInv, BboInv
  <2>2. SUFFICES ASSUME s \notin unpublished, ~HasTick(s, pending)
                 PROVE  /\ ShowsLast(s, queue')
                        /\ good.bbo /\ ~HasTick(s, queue') => bbo'[s] = published[s].top
    BY <1>1, <1>2, <2>1
  <2>3. ShowsLast(s, queue) /\ (good.bbo /\ ~HasTick(s, queue) => bbo[s] = published[s].top)
    BY <2>2 DEF FlowInv, BboInv
  <2>4. /\ ShowsLast(s, queue')
        /\ HasTick(s, queue) <=> HasTick(s, queue') \/ (IsTick(ev) /\ ev.symbol_id = s)
        /\ IsTick(ev) /\ ev.symbol_id = s /\ ~HasTick(s, queue') => ev.tick = published[s]
    BY <1>1, <2>3, ShrinkingShowsLast
  <2> HIDE DEF ev
  <2>5. good.bbo => bbo'[s] = IF ev.symbol_id = s THEN ev.tick.top ELSE bbo[s]
    BY <1>1
  <2> QED
    BY <1>1, <2>3, <2>4, <2>5
<1> QED
  BY <1>1, <1>3, BboByParts

LEMMA DispatchTradeKeepsBbo == ASSUME FlowInv, DispatchTrade PROVE BboInv'
<1> DEFINE ev == Head(queue)
<1>1. /\ queue \in Seq(Event) /\ queue # <<>> /\ queue' = Tail(queue)
      /\ UNCHANGED <<vars, pending, good, bbo, unpublished>> /\ ~IsTick(ev)
  BY DEF FlowInv, FlowTypeOK, DispatchTrade, lossVars, IsTick
<1>2. published' = published
  BY <1>1 DEF vars
<1>3. ASSUME NEW s \in Symbols
      PROVE  /\ ShowsLast(s, pending')
             /\ s \notin unpublished' /\ ~HasTick(s, pending') =>
                  /\ ShowsLast(s, queue')
                  /\ good'.bbo /\ ~HasTick(s, queue') => bbo'[s] = published'[s].top
  <2>1. ShowsLast(s, pending)
    BY DEF FlowInv, BboInv
  <2>2. SUFFICES ASSUME s \notin unpublished, ~HasTick(s, pending)
                 PROVE  /\ ShowsLast(s, queue')
                        /\ good.bbo /\ ~HasTick(s, queue') => bbo[s] = published[s].top
    BY <1>1, <1>2, <2>1
  <2>3. ShowsLast(s, queue) /\ (good.bbo /\ ~HasTick(s, queue) => bbo[s] = published[s].top)
    BY <2>2 DEF FlowInv, BboInv
  <2>4. ShowsLast(s, queue') /\ (HasTick(s, queue) <=> HasTick(s, queue'))
    BY <1>1, <2>3, ShrinkingShowsLast
  <2> QED
    BY <2>3, <2>4
<1> QED
  BY <1>1, <1>3, BboByParts

-----------------------------------------------------------------------------
LEMMA BookUnchanged == ASSUME BookInv, UNCHANGED vars PROVE BookInv'
BY NextKeepsBook

LEMMA NextKeepsFlow == ASSUME FlowInv, [FlowNext]_allVars PROVE FlowInv'
<1>1. ASSUME Message, BookInv' PROVE FlowInv'
  <2>1. TapeInv'
    BY <1>1, OrderMessageKeepsTape, TradeMessageKeepsTape DEF Message
  <2> QED
    BY <1>1, <2>1, MessageKeepsTypes, MessageKeepsOrder, MessageKeepsTicks, MessageKeepsBbo DEF FlowInv
<1>2. CASE HandleOrder
  BY <1>1, <1>2, HandleOrderIsMessage
<1>3. ASSUME NEW w \in WireTrades, HandleTrade(w[1], w[2]) \/ HandleRejectedTrade(w[1], w[2])
      PROVE  FlowInv'
  BY <1>1, <1>3, HandleTradeIsMessage
<1>4. CASE Publish
  <2>1. BookInv'
    BY <1>4, BookUnchanged DEF Publish, FlowInv
  <2> QED
    BY <1>4, <2>1, PublishKeepsTypes, PublishKeepsOrder, PublishKeepsTicks, PublishKeepsTape,
       PublishKeepsBbo DEF FlowInv
<1>5. CASE GiveUp
  <2>1. BookInv'
    BY <1>5, BookUnchanged DEF GiveUp, FlowInv
  <2> QED
    BY <1>5, <2>1, GiveUpKeepsTypes, GiveUpKeepsOrder, GiveUpKeepsTicks, GiveUpKeepsTape,
       GiveUpKeepsBbo DEF FlowInv
<1>6. CASE DispatchTick
  <2>1. BookInv'
    BY <1>6, BookUnchanged DEF DispatchTick, FlowInv
  <2> QED
    BY <1>6, <2>1, DispatchTickKeepsTypes, DispatchTickKeepsOrder, DispatchTickKeepsTicks,
       DispatchTickKeepsTape, DispatchTickKeepsBbo DEF FlowInv
<1>7. CASE DispatchTrade
  <2>1. BookInv'
    BY <1>7, BookUnchanged DEF DispatchTrade, FlowInv
  <2> QED
    BY <1>7, <2>1, DispatchTradeKeepsTypes, DispatchTradeKeepsOrder, DispatchTradeKeepsTicks,
       DispatchTradeKeepsTape, DispatchTradeKeepsBbo DEF FlowInv
<1>8. CASE UNCHANGED allVars
  <2>1. BookInv'
    BY <1>8, BookUnchanged DEF allVars, FlowInv
  <2>2. UNCHANGED <<pending, queue, good, bbo, tape, seq, trades, accepted, ticksOut, lostTicks,
                    lostTrades, unpublished, published, last>>
    BY <1>8 DEF allVars, vars, flowVars, messageVars, lossVars
  <2>3. FlowTypeOK'
    BY <2>2 DEF FlowInv, FlowTypeOK
  <2>4. OrderInv'
    BY <2>2 DEF FlowInv, OrderInv, PendingInv, TapeOrderInv, QueueOrderInv, PendingOrderInv
  <2>5. TickInv'
    BY <2>2 DEF FlowInv, TickInv, TickBeforeTrade, Ticked
  <2>6. TapeInv'
    BY <2>2 DEF FlowInv, TapeInv, LastAgrees, Own, OnTheWay, TradesOf
  <2>7. BboInv'
    BY <2>2 DEF FlowInv, BboInv, ShowsLast, HasTick
  <2> QED
    BY <2>1, <2>3, <2>4, <2>5, <2>6, <2>7 DEF FlowInv
<1> QED
  BY <1>2, <1>3, <1>4, <1>5, <1>6, <1>7, <1>8 DEF FlowNext, Wait

LEMMA InitSatisfiesFlow == ASSUME FlowInit PROVE FlowInv
<1>1. BookInv
  BY InitSatisfiesBookInv DEF FlowInit
<1>2. FlowTypeOK
  <2>1. \A s \in Symbols : Top(books, s) \in [Sides -> Level]
    BY <1>1, TopIsTyped DEF BookInv
  <2>2. <<>> \in Seq(Event) /\ <<>> \in Seq(TradeSet)
    OBVIOUS
  <2> QED
    BY <2>1, <2>2 DEF FlowInit, FlowTypeOK
<1>3. OrderInv /\ TickInv
  BY DEF FlowInit, OrderInv, PendingInv, TapeOrderInv, QueueOrderInv, PendingOrderInv, TickInv,
         TickBeforeTrade
<1>4. TapeInv
  <2>1. OnTheWay = {}
    BY TradesOfNone DEF FlowInit, OnTheWay
  <2>2. \A s \in Symbols : last[s] = <<0, 0>>
    BY DEF FlowInit, Init
  <2> QED
    BY <2>1, <2>2 DEF FlowInit, TapeInv, LastAgrees, Own
<1>5. BboInv
  <2>1. \A s \in Symbols : bbo[s] = published[s].top
    BY DEF FlowInit, Init
  <2> QED
    BY <2>1 DEF FlowInit, BboInv, ShowsLast
<1> QED
  BY <1>1, <1>2, <1>3, <1>4, <1>5 DEF FlowInv

LEMMA FlowInvHolds == FlowSpec => []FlowInv
<1>1. FlowInit => FlowInv
  BY InitSatisfiesFlow
<1>2. FlowInv /\ [FlowNext]_allVars => FlowInv'
  BY NextKeepsFlow
<1> QED
  BY <1>1, <1>2, PTL DEF FlowSpec

\* No trade gets to the tape and the bars before its tick got to the BBO publisher or was
\* given up, however full the queue and whatever publish() gives up.
THEOREM TradesFollowTheirTicks == FlowSpec => []TickBeforeTrade
<1>1. FlowInv => TickBeforeTrade
  BY DEF FlowInv, TickInv
<1> QED
  BY <1>1, FlowInvHolds, PTL

\* Once the queue is drained, the BBO file shows the top of the book of every symbol whose
\* last tick was not given up and that no order was moved or added again across.
THEOREM BboFileShowsTheBook == FlowSpec => []BboFileIsCurrent
<1>1. ASSUME FlowInv, Quiet, good.bbo, NEW s \in Symbols \ (unpublished \cup moved \cup readded)
      PROVE  bbo[s] = Top(books, s)
  <2>1. ~HasTick(s, pending) /\ ~HasTick(s, queue)
    BY <1>1 DEF Quiet, HasTick
  <2>2. bbo[s] = published[s].top
    BY <1>1, <2>1 DEF FlowInv, BboInv
  <2>3. published[s] = [top |-> Top(books, s), last |-> last[s]]
    BY <1>1 DEF FlowInv, BookInv, BboIsCurrentUnlessMoved
  <2> QED
    BY <2>2, <2>3
<1>2. FlowInv => BboFileIsCurrent
  BY <1>1 DEF BboFileIsCurrent
<1> QED
  BY <1>2, FlowInvHolds, PTL

\* The tape is in the order of the feed; once the queue is drained it has every trade
\* that was not given up, and the last accepted trade of a symbol on it is the book's.
THEOREM TapeMatchesTheBook == FlowSpec => []TapeAgreesWithBook
<1>1. ASSUME FlowInv, Quiet, good.tape
      PROVE  /\ {tape[i].seq : i \in DOMAIN tape} = trades \ lostTrades
             /\ \A s \in Symbols :
                  LET own == {i \in DOMAIN tape : tape[i].symbol_id = s /\ tape[i].seq \in accepted}
                  IN  \/ last[s] = IF own = {} THEN <<0, 0>> ELSE tape[Max(own)].trade
                      \/ lostTrades \cap accepted # {}
  <2>1. OnTheWay = TradesOf(tape)
    BY <1>1, TradesOfNone DEF Quiet, OnTheWay
  <2>2. \A i \in DOMAIN tape : IsTrade(tape[i]) /\ tape[i].seq \in Nat
    BY <1>1, NumbersSoFar DEF TradeSet, IsTrade
  <2>3. \A e : e \in OnTheWay <=> \E i \in DOMAIN tape : e = tape[i]
    BY <2>1, <2>2 DEF TradesOf
  <2>4. {e.seq : e \in OnTheWay} = trades \ lostTrades
    BY <1>1 DEF FlowInv, TapeInv
  <2>5. {tape[i].seq : i \in DOMAIN tape} = {e.seq : e \in OnTheWay}
    BY <2>3
  <2>6. ASSUME NEW s \in Symbols, lostTrades \cap accepted = {}
        PROVE  LET own == {i \in DOMAIN tape : tape[i].symbol_id = s /\ tape[i].seq \in accepted}
               IN  last[s] = IF own = {} THEN <<0, 0>> ELSE tape[Max(own)].trade
    <3> DEFINE own == {i \in DOMAIN tape : tape[i].symbol_id = s /\ tape[i].seq \in accepted}
    <3>1. LastAgrees(s, OnTheWay)
      BY <1>1, <2>6 DEF FlowInv, TapeInv
    <3>2. \A e : e \in Own(s, OnTheWay) <=> \E i \in own : e = tape[i]
      BY <2>3 DEF Own
    <3>3. CASE own = {}
      <4>1. Own(s, OnTheWay) = {}
        BY <3>2, <3>3
      <4> QED
        BY <3>1, <3>3, <4>1 DEF LastAgrees
    <3>4. CASE own # {}
      <4> DEFINE m == Max(own)
      <4>1. Len(tape) \in Nat /\ own \in SUBSET (0 .. Len(tape))
        <5>1. tape \in Seq(TradeSet)
          BY <1>1 DEF FlowInv, FlowTypeOK
        <5> QED
          BY <5>1
      <4>2. m \in own /\ \A i \in own : m >= i
        <5> HIDE DEF own
        <5> QED
          BY <3>4, <4>1, ExtremesExist
      <4> HIDE DEF m
      <4>3. Own(s, OnTheWay) # {}
        BY <3>2, <4>2
      <4>4. PICK e \in Own(s, OnTheWay) :
              last[s] = e.trade /\ \A f \in Own(s, OnTheWay) : f.seq <= e.seq
        BY <3>1, <4>3 DEF LastAgrees
      <4>5. PICK k \in own : e = tape[k]
        BY <3>2
      <4>6. tape[m] \in Own(s, OnTheWay)
        BY <3>2, <4>2
      <4>7. tape[m].seq <= tape[k].seq
        BY <4>4, <4>5, <4>6
      <4>8. ~(k < m)
        <5>1. k < m => tape[k].seq < tape[m].seq
          BY <1>1, <4>2, <4>5 DEF FlowInv, OrderInv, TapeOrderInv
        <5>2. tape[k].seq \in Nat /\ tape[m].seq \in Nat
          BY <2>2, <4>2, <4>5
        <5> QED
          BY <4>7, <5>1, <5>2
      <4>9. k = m
        BY <4>1, <4>2, <4>5, <4>8
      <4> QED
        BY <3>4, <4>4, <4>5, <4>9 DEF m
    <3> QED
      BY <3>3, <3>4
  <2> QED
    BY <2>4, <2>5, <2>6
<1>2. FlowInv => TapeAgreesWithBook
  <2>1. FlowInv => \A i, j \in DOMAIN tape : i < j => tape[i].seq < tape[j].seq
    BY DEF FlowInv, OrderInv, TapeOrderInv
  <2> QED
    BY <1>1, <2>1 DEF TapeAgreesWithBook
<1> QED
  BY <1>2, FlowInvHolds, PTL
=============================================================================
