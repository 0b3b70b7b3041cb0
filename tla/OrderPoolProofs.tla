--------------------------- MODULE OrderPoolProofs ---------------------------
(***************************************************************************)
(* The order table finds exactly the live orders, for every number of      *)
(* slots, every hash and every sequence of inserts and erases.             *)
(*                                                                         *)
(* That each order can be reached from its home is not inductive: in a     *)
(* full table two probe chains could each go through the other's slot, and *)
(* the backshift, which ends where it started, would break one of them.    *)
(* No insertion order makes such a table.  What excludes it is a barrier,  *)
(* a slot that no probe chain goes through: the free slots are barriers,   *)
(* and in a full table the slot that was filled last.  Counted from behind *)
(* the barrier, every chain runs upwards from its home to its order, and   *)
(* the arithmetic around the end of the table disappears.                  *)
(*                                                                         *)
(* While an order is erased, the slot of the hole does not count, and the  *)
(* orders behind the hole that the backshift has passed have their homes   *)
(* behind the hole.                                                        *)
(***************************************************************************)
EXTENDS OrderPool, SlotLemmas, FiniteSetTheorems

\* The place of slot i, counted from the slot behind f; f itself comes last.
Place(f, i) == IF i > f THEN i - f - 1 ELSE i - f - 1 + kOrderPool

\* The slots whose records count.
Held == IF found = None THEN Slots ELSE Slots \ {hole}

Used == {i \in Slots : slots[i] # Free}

PoolTypeOK ==
  /\ home \in [OrderIds -> Slots]
  /\ slots \in [Slots -> OrderIds \cup {Free}]
  /\ live_count \in Nat
  /\ live \subseteq OrderIds
  /\ found \in Slots \cup {None} /\ hole \in Slots /\ cur \in Slots

\* Each live order is in one slot, and nothing else is in the table.
ContentInv ==
  /\ \A i, j \in Held : slots[i] # Free /\ slots[i] = slots[j] => i = j
  /\ \A id \in OrderIds : id \in live <=> \E i \in Held : slots[i] = id

CountInv ==
  /\ IsFiniteSet(live)
  /\ live_count = Cardinality(Used)
  /\ live_count = Cardinality(live) + (IF found = None THEN 0 ELSE 1)

\* Every chain runs upwards from behind the barrier f and has no free slot.
ChainInv(f) ==
  \A i \in Held : slots[i] # Free =>
    /\ Place(f, home[slots[i]]) <= Place(f, i)
    /\ \A j \in Slots : Place(f, home[slots[i]]) <= Place(f, j) /\ Place(f, j) < Place(f, i) =>
         slots[j] # Free

\* Order i does not go through the hole.
Behind(f, i) == Place(f, hole) < Place(f, home[slots[i]])

ScanInv(f) ==
  found # None =>
    /\ slots[hole] # Free
    /\ Place(f, found) <= Place(f, hole)
    /\ \/ /\ Place(f, hole) < Place(f, cur)
          /\ \A i \in Held : slots[i] # Free /\ Place(f, hole) < Place(f, i)
                               /\ Place(f, i) < Place(f, cur) => Behind(f, i)
       \/ /\ Place(f, cur) <= Place(f, found)
          /\ \A i \in Held : slots[i] # Free /\ Place(f, hole) < Place(f, i) => Behind(f, i)

PoolInv == PoolTypeOK /\ ContentInv /\ CountInv /\ \E f \in Slots : ChainInv(f) /\ ScanInv(f)

-----------------------------------------------------------------------------
(* Slots and places. *)

LEMMA PoolSize == kOrderPool \in Nat \ {0} /\ kOrderPool >= 2
BY PoolAssumption

LEMMA RemainderBelowTwo ==
  ASSUME NEW K \in Nat \ {0}, NEW a \in Nat, a < 2 * K
  PROVE  a % K = IF a < K THEN a ELSE a - K
<1>1. ASSUME NEW b \in Nat, b < K PROVE b % K = b
  <2> DEFINE q == b \div K
  <2>1. b = (K * q) + (b % K) /\ q \in Int /\ b % K \in 0 .. (K - 1)
    OBVIOUS
  <2> HIDE DEF q
  <2>2. CASE q >= 1
    <3>1. K * q >= K
      BY <2>1, <2>2
    <3> QED
      BY <1>1, <2>1, <3>1
  <2>3. CASE q <= -1
    <3>1. K * q <= -K
      BY <2>1, <2>3
    <3> QED
      BY <1>1, <2>1, <3>1
  <2>4. CASE q = 0
    BY <2>1, <2>4
  <2> QED
    BY <2>1, <2>2, <2>3, <2>4
<1>2. CASE a < K
  BY <1>1, <1>2
<1>3. CASE ~(a < K)
  <2>1. a - K \in Nat /\ a - K < K
    BY <1>3
  <2>2. ((a - K) + K) % K = (a - K) % K
    BY <2>1, ModWraps
  <2>3. (a - K) + K = a
    OBVIOUS
  <2> QED
    BY <1>1, <1>3, <2>1, <2>2, <2>3
<1> QED
  BY <1>2, <1>3

LEMMA StepIs ==
  ASSUME NEW i \in Slots
  PROVE  Step(i) = (IF i = kOrderPool - 1 THEN 0 ELSE i + 1) /\ Step(i) \in Slots
<1> DEFINE a == i + 1
<1>1. a \in Nat /\ a < 2 * kOrderPool
  BY PoolSize DEF Slots
<1>2. a % kOrderPool = IF a < kOrderPool THEN a ELSE a - kOrderPool
  <2> HIDE DEF a
  <2> QED
    BY <1>1, PoolSize, RemainderBelowTwo
<1> QED
  BY <1>2, PoolSize DEF Step, Slots

LEMMA ProbeIs ==
  ASSUME PoolTypeOK, NEW id \in OrderIds, NEW k \in 0 .. (kOrderPool - 1)
  PROVE  /\ Probe(id, k) = IF home[id] + k < kOrderPool THEN home[id] + k
                           ELSE home[id] + k - kOrderPool
         /\ Probe(id, k) \in Slots /\ home[id] \in Slots
<1>1. home[id] \in Slots
  BY DEF PoolTypeOK
<1> DEFINE a == home[id] + k
<1>2. a \in Nat /\ a < 2 * kOrderPool
  BY <1>1, PoolSize DEF Slots
<1>3. a % kOrderPool = IF a < kOrderPool THEN a ELSE a - kOrderPool
  <2> HIDE DEF a
  <2> QED
    BY <1>2, PoolSize, RemainderBelowTwo
<1> QED
  BY <1>1, <1>3, PoolSize DEF Probe, Slots

\* Different slots have different places.
LEMMA PlaceFacts ==
  ASSUME NEW f \in Slots, NEW i \in Slots
  PROVE  /\ Place(f, i) \in 0 .. (kOrderPool - 1)
         /\ i = f <=> Place(f, i) = kOrderPool - 1
         /\ \A j \in Slots : Place(f, i) = Place(f, j) => i = j
BY PoolSize DEF Place, Slots

\* The next slot has the next place, and the one behind the barrier the first.
LEMMA PlaceOfStep ==
  ASSUME NEW f \in Slots, NEW i \in Slots
  PROVE  Place(f, Step(i)) = IF i = f THEN 0 ELSE Place(f, i) + 1
BY StepIs, PoolSize DEF Place, Slots

\* A slot that a chain does not go through can be its barrier.
LEMMA NewBarrier ==
  ASSUME NEW f \in Slots, NEW p \in Slots, NEW h \in Slots, NEW i \in Slots, i # p,
         Place(f, h) <= Place(f, i),
         ~(Place(f, h) <= Place(f, p) /\ Place(f, p) < Place(f, i))
  PROVE  /\ Place(p, h) <= Place(p, i)
         /\ \A j \in Slots : Place(p, h) <= Place(p, j) /\ Place(p, j) < Place(p, i) =>
              Place(f, h) <= Place(f, j) /\ Place(f, j) < Place(f, i)
BY PoolSize DEF Place, Slots

\* With barrier f, order id at place i: the probe for id gets to i and what it meets before
\* is on the chain.
LEMMA ProbesUpTo ==
  ASSUME PoolTypeOK, NEW f \in Slots, NEW id \in OrderIds, NEW i \in Slots,
         Place(f, home[id]) <= Place(f, i)
  PROVE  \E k \in 0 .. (kOrderPool - 1) :
           /\ Probe(id, k) = i
           /\ \A j \in 0 .. (k - 1) :
                /\ Probe(id, j) \in Slots /\ Probe(id, j) # i
                /\ Place(f, home[id]) <= Place(f, Probe(id, j))
                /\ Place(f, Probe(id, j)) < Place(f, i)
<1> DEFINE h == home[id]
           k == IF h <= i THEN i - h ELSE i - h + kOrderPool
<1>1. h \in Slots
  BY DEF PoolTypeOK
<1> HIDE DEF h
<1>2. k \in 0 .. (kOrderPool - 1)
  BY <1>1, PoolSize DEF Slots
<1>3. \A j \in 0 .. (kOrderPool - 1) :
        Probe(id, j) = (IF h + j < kOrderPool THEN h + j ELSE h + j - kOrderPool)
  BY ProbeIs DEF h
<1>4. Probe(id, k) = i
  BY <1>1, <1>2, <1>3, PoolSize DEF Slots
<1>5. ASSUME NEW j \in 0 .. (k - 1)
      PROVE  /\ Probe(id, j) \in Slots /\ Probe(id, j) # i
             /\ Place(f, h) <= Place(f, Probe(id, j)) /\ Place(f, Probe(id, j)) < Place(f, i)
  <2>1. j \in 0 .. (kOrderPool - 1)
    BY <1>1, PoolSize DEF Slots
  <2> DEFINE p == IF h + j < kOrderPool THEN h + j ELSE h + j - kOrderPool
  <2>2. Probe(id, j) = p
    BY <1>3, <2>1
  <2>3. p \in Slots /\ p # i /\ Place(f, h) <= Place(f, p) /\ Place(f, p) < Place(f, i)
    BY <1>1, <2>1, PoolSize DEF Slots, Place, h
  <2> QED
    BY <2>2, <2>3
<1> QED
  BY <1>2, <1>4, <1>5 DEF h

-----------------------------------------------------------------------------
(* Finding an order. *)

LEMMA FindsTheLive ==
  ASSUME PoolTypeOK, ContentInv, found = None, NEW f \in Slots, ChainInv(f), NEW id \in OrderIds
  PROVE  Finds(id) <=> id \in live
<1>1. Held = Slots /\ id # Free
  BY FreeAssumption DEF Held
<1>2. ASSUME id \in live PROVE Finds(id)
  <2>1. PICK i \in Slots : slots[i] = id
    BY <1>1, <1>2 DEF ContentInv
  <2>2. /\ Place(f, home[id]) <= Place(f, i)
        /\ \A j \in Slots : Place(f, home[id]) <= Place(f, j) /\ Place(f, j) < Place(f, i) =>
             slots[j] # Free
    BY <1>1, <2>1 DEF ChainInv
  <2>3. PICK k \in 0 .. (kOrderPool - 1) :
           /\ Probe(id, k) = i
           /\ \A j \in 0 .. (k - 1) :
                /\ Probe(id, j) \in Slots /\ Probe(id, j) # i
                /\ Place(f, home[id]) <= Place(f, Probe(id, j))
                /\ Place(f, Probe(id, j)) < Place(f, i)
    BY <2>2, ProbesUpTo
  <2>4. Reaches(id, k)
    <3> SUFFICES ASSUME NEW j \in 0 .. (k - 1) PROVE slots[Probe(id, j)] \notin {id, Free}
      BY DEF Reaches
    <3>1. slots[Probe(id, j)] # Free
      BY <2>2, <2>3
    <3>2. slots[Probe(id, j)] # id
      BY <1>1, <2>1, <2>3, <3>1 DEF ContentInv
    <3> QED
      BY <3>1, <3>2
  <2> QED
    BY <2>1, <2>3, <2>4 DEF Finds, FindsAt
<1>3. ASSUME Finds(id) PROVE id \in live
  BY <1>1, <1>3 DEF Finds, FindsAt, ContentInv
<1> QED
  BY <1>2, <1>3

-----------------------------------------------------------------------------
(* Counting. *)

LEMMA UsedIsFinite == IsFiniteSet(Used) /\ Cardinality(Used) \in Nat
<1>1. 0 \in Int /\ kOrderPool - 1 \in Int
  BY PoolSize
<1>2. IsFiniteSet(Slots)
  BY <1>1, FS_Interval DEF Slots
<1>3. Used \subseteq Slots
  BY DEF Used
<1>4. IsFiniteSet(Used)
  BY <1>2, <1>3, FS_Subset
<1> QED
  BY <1>4, FS_CardinalityType

LEMMA NoneIsNoSlot == None \notin Slots
BY PoolSize DEF None, Slots

-----------------------------------------------------------------------------
(* insert_order() *)

\* The slot that is filled becomes the barrier: it was free, so no chain goes through it.
LEMMA InsertKeepsInv == ASSUME PoolInv, NEW id \in OrderIds, InsertOrder(id) PROVE PoolInv'
<1>1. PICK f \in Slots : ChainInv(f) /\ ScanInv(f)
  BY DEF PoolInv
<1>2. PICK k \in 0 .. (kOrderPool - 1) :
        /\ slots[Probe(id, k)] = Free /\ Reaches(id, k)
        /\ slots' = [slots EXCEPT ![Probe(id, k)] = id]
  BY DEF InsertOrder
<1>slot. PICK p \in Slots : Probe(id, k) = p
  BY ProbeIs DEF PoolInv
<1>3. /\ found = None /\ found' = None /\ ~Finds(id)
      /\ live_count' = live_count + 1 /\ live' = live \cup {id}
      /\ UNCHANGED <<home, hole, cur>>
  BY DEF InsertOrder
<1>4. p \in Slots /\ home[id] \in Slots /\ id # Free
  BY FreeAssumption DEF PoolInv, PoolTypeOK
<1>5. slots \in [Slots -> OrderIds \cup {Free}] /\ Held = Slots /\ Held' = Slots
  BY <1>3 DEF PoolInv, PoolTypeOK, Held
<1>6. slots'[p] = id /\ \A i \in Slots \ {p} : slots'[i] = slots[i]
  BY <1>2, <1>4, <1>5, <1>slot
<1>7. slots[p] = Free
  BY <1>2, <1>slot
<1>8. id \notin live
  BY <1>1, <1>3, FindsTheLive DEF PoolInv
<1>9. PoolTypeOK'
  BY <1>2, <1>3, <1>4, <1>slot DEF PoolInv, PoolTypeOK
<1>10. \A j \in 0 .. (k - 1) : slots[Probe(id, j)] # Free
  BY <1>2 DEF Reaches
<1>12. ContentInv'
  <2>1. \A i \in Slots : slots[i] # id
    BY <1>5, <1>8 DEF PoolInv, ContentInv
  <2>2. ASSUME NEW i \in Slots, NEW j \in Slots, slots'[i] # Free, slots'[i] = slots'[j] PROVE i = j
    BY <1>5, <1>6, <2>1, <2>2 DEF PoolInv, ContentInv
  <2>3. ASSUME NEW x \in OrderIds PROVE x \in live' <=> \E i \in Slots : slots'[i] = x
    <3>1. x \in live <=> \E i \in Slots : slots[i] = x
      BY <1>5 DEF PoolInv, ContentInv
    <3>2. x # Free
      BY FreeAssumption
    <3> QED
      BY <1>3, <1>4, <1>6, <1>7, <3>1, <3>2
  <2> QED
    BY <1>5, <2>2, <2>3 DEF ContentInv
<1>13. CountInv'
  <2>1. Used' = Used \cup {p} /\ p \notin Used
    BY <1>4, <1>6, <1>7 DEF Used
  <2>2. Cardinality(Used \cup {p}) = Cardinality(Used) + 1
    BY <2>1, UsedIsFinite, FS_AddElement
  <2>3. IsFiniteSet(live \cup {id}) /\ Cardinality(live \cup {id}) = Cardinality(live) + 1
    BY <1>8, FS_AddElement DEF PoolInv, CountInv
  <2>4. Cardinality(live) \in Nat /\ Cardinality(Used) \in Nat
    BY UsedIsFinite, FS_CardinalityType DEF PoolInv, CountInv
  <2> QED
    BY <1>3, <2>1, <2>2, <2>3, <2>4 DEF PoolInv, CountInv
<1>14. ChainInv(p)'
  <2>1. ASSUME NEW i \in Slots, slots'[i] # Free
        PROVE  /\ Place(p, home[slots'[i]]) <= Place(p, i)
               /\ \A j \in Slots :
                    Place(p, home[slots'[i]]) <= Place(p, j) /\ Place(p, j) < Place(p, i) =>
                      slots'[j] # Free
    <3>1. CASE i = p
      <4>1. Place(p, p) = kOrderPool - 1 /\ \A j \in Slots : Place(p, j) <= kOrderPool - 1
        BY <1>4, PlaceFacts, PoolSize
      <4>2. Place(p, home[id]) <= Place(p, p)
        BY <1>4, <4>1
      <4>3. ASSUME NEW j \in Slots, Place(p, home[id]) <= Place(p, j), Place(p, j) < Place(p, p)
            PROVE  slots[j] # Free
        <5>1. PICK m \in 0 .. (kOrderPool - 1) :
                /\ Probe(id, m) = j
                /\ \A l \in 0 .. (m - 1) : Place(p, Probe(id, l)) < Place(p, j)
          BY <1>4, <4>3, ProbesUpTo DEF PoolInv
        <5>2. ~(k \in 0 .. (m - 1))
          <6>1. Place(p, j) \in Int /\ Place(p, p) \in Int
            BY <1>4, PlaceFacts
          <6> QED
            BY <1>slot, <4>3, <5>1, <6>1
        <5>3. k # m
          <6>1. j # p
            BY <1>4, <4>3, PlaceFacts
          <6> QED
            BY <1>slot, <5>1, <6>1
        <5>4. m \in 0 .. (k - 1)
          BY <5>2, <5>3
        <5> QED
          BY <1>10, <5>1, <5>4
      <4> QED
        BY <1>4, <1>6, <3>1, <4>2, <4>3
    <3>2. CASE i # p
      <4> DEFINE h == home[slots[i]]
      <4>1. slots'[i] = slots[i] /\ slots[i] # Free /\ h \in Slots
        BY <1>6, <2>1, <3>2 DEF PoolInv, PoolTypeOK
      <4>2. /\ Place(f, h) <= Place(f, i)
            /\ \A j \in Slots : Place(f, h) <= Place(f, j) /\ Place(f, j) < Place(f, i) => slots[j] # Free
        BY <1>1, <1>5, <4>1 DEF ChainInv
      <4> HIDE DEF h
      <4>3. ~(Place(f, h) <= Place(f, p) /\ Place(f, p) < Place(f, i))
        BY <1>4, <1>7, <4>2
      <4>4. /\ Place(p, h) <= Place(p, i)
            /\ \A j \in Slots : Place(p, h) <= Place(p, j) /\ Place(p, j) < Place(p, i) =>
                 Place(f, h) <= Place(f, j) /\ Place(f, j) < Place(f, i)
        BY <1>4, <3>2, <4>1, <4>2, <4>3, NewBarrier
      <4>5. \A j \in Slots : slots[j] # Free => slots'[j] # Free
        BY <1>4, <1>6
      <4> QED
        BY <4>1, <4>2, <4>4, <4>5 DEF h
    <3> QED
      BY <3>1, <3>2
  <2> QED
    BY <1>3, <1>4, <1>5, <2>1 DEF ChainInv, Place
<1>15. ScanInv(p)'
  BY <1>3 DEF ScanInv
<1> QED
  BY <1>4, <1>9, <1>12, <1>13, <1>14, <1>15 DEF PoolInv

-----------------------------------------------------------------------------
(* erase_order() *)

LEMMA EraseKeepsInv == ASSUME PoolInv, NEW id \in OrderIds, EraseOrder(id) PROVE PoolInv'
<1>1. PICK f \in Slots : ChainInv(f) /\ ScanInv(f)
  BY DEF PoolInv
<1>2. PICK i \in Slots : FindsAt(id, i) /\ found' = i /\ hole' = i /\ cur' = Step(i)
  BY DEF EraseOrder
<1>3. found = None /\ live' = live \ {id} /\ UNCHANGED <<home, slots, live_count>>
  BY DEF EraseOrder
<1>4. slots[i] = id /\ id # Free
  BY <1>2, FreeAssumption DEF FindsAt
<1>5. Held = Slots /\ found' # None /\ Held' = Slots \ {i}
  BY <1>2, <1>3, NoneIsNoSlot DEF Held
<1>6. PoolTypeOK'
  BY <1>2, <1>3, StepIs DEF PoolInv, PoolTypeOK
<1>7. ContentInv'
  <2>1. \A j \in Slots : slots[j] = id => j = i
    BY <1>4, <1>5 DEF PoolInv, ContentInv
  <2>2. \A x \in OrderIds : x \in live <=> \E j \in Slots : slots[j] = x
    BY <1>5 DEF PoolInv, ContentInv
  <2>3. \A x \in OrderIds : x \in live' <=> \E j \in Slots \ {i} : slots[j] = x
    BY <1>3, <1>4, <2>1, <2>2
  <2>4. \A j, l \in Slots \ {i} : slots[j] # Free /\ slots[j] = slots[l] => j = l
    BY <1>5 DEF PoolInv, ContentInv
  <2> QED
    BY <1>3, <1>5, <2>3, <2>4 DEF ContentInv
<1>8. CountInv'
  <2>1. id \in live
    BY <1>2, <1>4, <1>5 DEF PoolInv, ContentInv
  <2>2. IsFiniteSet(live \ {id}) /\ Cardinality(live \ {id}) = Cardinality(live) - 1
    BY <2>1, FS_RemoveElement DEF PoolInv, CountInv
  <2>3. Used' = Used
    BY <1>3 DEF Used
  <2>4. Cardinality(live) \in Nat
    BY FS_CardinalityType DEF PoolInv, CountInv
  <2>5. live_count = Cardinality(live) /\ live_count = Cardinality(Used)
    BY <1>3, <2>4 DEF PoolInv, CountInv
  <2>6. Cardinality(live') = live_count - 1 /\ IsFiniteSet(live')
    BY <1>3, <2>2, <2>5
  <2>7. live_count' = Cardinality(live') + 1 /\ live_count' = Cardinality(Used')
    BY <1>3, <2>3, <2>4, <2>5, <2>6
  <2> QED
    BY <1>5, <2>6, <2>7 DEF CountInv
<1>9. ChainInv(f)'
  BY <1>1, <1>3, <1>5 DEF ChainInv, Place
<1>10. ScanInv(f)'
  <2>1. Place(f, i) \in 0 .. (kOrderPool - 1) /\ \A j \in Slots : Place(f, j) \in 0 .. (kOrderPool - 1)
    BY PlaceFacts
  <2>2. CASE i = f
    <3>1. Place(f, Step(i)) = 0 /\ Place(f, i) = kOrderPool - 1
      BY <2>2, PlaceOfStep, PlaceFacts
    <3>2. \A j \in Slots : ~(Place(f, i) < Place(f, j))
      BY <2>1, <3>1, PoolSize
    <3> QED
      BY <1>2, <1>3, <1>4, <1>5, <2>1, <3>1, <3>2 DEF ScanInv, Place
  <2>3. CASE i # f
    <3>1. Place(f, Step(i)) = Place(f, i) + 1
      BY <2>3, PlaceOfStep
    <3>2. Place(f, i) < Place(f, Step(i))
      BY <2>1, <3>1
    <3>3. \A j \in Slots : ~(Place(f, i) < Place(f, j) /\ Place(f, j) < Place(f, Step(i)))
      BY <2>1, <3>1
    <3> QED
      BY <1>2, <1>3, <1>4, <1>5, <2>1, <3>2, <3>3 DEF ScanInv, Place
  <2> QED
    BY <2>2, <2>3
<1> QED
  BY <1>6, <1>7, <1>8, <1>9, <1>10 DEF PoolInv

\* Counted from behind a barrier that the chain to c does not cross, the test of the
\* backshift is whether the home of the order is at or before the hole.
LEMMA CanMoveIs ==
  ASSUME NEW f \in Slots, NEW g \in Slots, NEW c \in Slots, NEW h \in Slots, g # c,
         Place(f, h) <= Place(f, c)
  PROVE  CanMove(g, c, h) <=> Place(f, g) < Place(f, c) /\ Place(f, h) <= Place(f, g)
BY PoolSize DEF CanMove, Place, Slots

\* What an iteration of the backshift knows about the order it looks at: the order is not
\* in the hole, and it can be moved only when the loop is above the hole.
LEMMA BackshiftFacts ==
  ASSUME PoolInv, Backshift, NEW f \in Slots, ChainInv(f), ScanInv(f)
  PROVE  /\ cur \in Held /\ slots[cur] # Free /\ slots[cur] \in OrderIds
         /\ home[slots[cur]] \in Slots /\ Place(f, home[slots[cur]]) <= Place(f, cur)
         /\ CanMove(hole, cur, home[slots[cur]]) <=>
              Place(f, hole) < Place(f, cur) /\ Place(f, home[slots[cur]]) <= Place(f, hole)
<1>1. found # None /\ slots[cur] # Free /\ cur # found
  BY DEF Backshift, BackshiftEnds
<1>2. found \in Slots /\ hole \in Slots /\ cur \in Slots
  BY <1>1 DEF PoolInv, PoolTypeOK
<1>3. slots[cur] \in OrderIds /\ home[slots[cur]] \in Slots
  BY <1>1, <1>2 DEF PoolInv, PoolTypeOK
<1>4. Place(f, hole) \in Int /\ Place(f, cur) \in Int /\ Place(f, found) \in Int
  BY <1>2, PlaceFacts
<1>5. Place(f, cur) # Place(f, found)
  BY <1>1, <1>2, PlaceFacts
<1>6. Place(f, found) <= Place(f, hole)
  BY <1>1 DEF ScanInv
<1>7. Place(f, hole) < Place(f, cur) \/ Place(f, cur) <= Place(f, found)
  BY <1>1 DEF ScanInv
<1>8. hole # cur
  BY <1>4, <1>5, <1>6, <1>7
<1>9. cur \in Held
  BY <1>1, <1>2, <1>8 DEF Held
<1>10. Place(f, home[slots[cur]]) <= Place(f, cur)
  BY <1>1, <1>9 DEF ChainInv
<1> QED
  BY <1>1, <1>2, <1>3, <1>8, <1>9, <1>10, CanMoveIs

\* The order goes into the hole, and its slot is the new hole.
LEMMA MoveKeepsInv ==
  ASSUME PoolInv, Backshift, CanMove(hole, cur, home[slots[cur]])
  PROVE  PoolInv'
<1>1. PICK f \in Slots : ChainInv(f) /\ ScanInv(f)
  BY DEF PoolInv
<1>2. PICK g \in Slots : g = hole
  BY DEF PoolInv, PoolTypeOK
<1>3. PICK c \in Slots : c = cur
  BY DEF PoolInv, PoolTypeOK
<1>4. PICK id \in OrderIds : id = slots[c]
  BY <1>1, <1>3, BackshiftFacts
<1>5. /\ c \in Held /\ id # Free /\ home[id] \in Slots
      /\ Place(f, g) < Place(f, c) /\ Place(f, home[id]) <= Place(f, g)
  BY <1>1, <1>2, <1>3, <1>4, BackshiftFacts
<1>6. /\ slots' = [slots EXCEPT ![g] = id] /\ hole' = c /\ cur' = Step(c)
      /\ found # None /\ UNCHANGED <<home, live_count, found, live>>
  BY <1>2, <1>3, <1>4 DEF Backshift
<1>7. Held = Slots \ {g} /\ Held' = Slots \ {c}
  BY <1>2, <1>6 DEF Held
<1>8. slots \in [Slots -> OrderIds \cup {Free}] /\ found \in Slots
  BY <1>6 DEF PoolInv, PoolTypeOK
<1>9. slots'[g] = id /\ \A i \in Slots \ {g} : slots'[i] = slots[i]
  BY <1>6, <1>8
<1>10. slots[g] # Free /\ Place(f, found) <= Place(f, g)
  BY <1>1, <1>2, <1>6 DEF ScanInv
<1>11. \A i \in Slots : slots[i] # Free <=> slots'[i] # Free
  BY <1>5, <1>9, <1>10
<1>12. PoolTypeOK'
  BY <1>6, StepIs DEF PoolInv, PoolTypeOK
<1>13. ContentInv'
  <2>1. \A i, j \in Slots \ {g} : slots[i] # Free /\ slots[i] = slots[j] => i = j
    BY <1>7 DEF PoolInv, ContentInv
  <2>2. \A i, j \in Slots \ {c} : slots'[i] # Free /\ slots'[i] = slots'[j] => i = j
    BY <1>4, <1>5, <1>7, <1>9, <2>1
  <2>3. \A x \in OrderIds : x \in live <=> \E i \in Slots \ {g} : slots[i] = x
    BY <1>7 DEF PoolInv, ContentInv
  <2>4. g # c
    BY <1>5, <1>7
  <2>5. \A x \in OrderIds : x \in live' <=> \E i \in Slots \ {c} : slots'[i] = x
    BY <1>4, <1>6, <1>9, <2>3, <2>4
  <2> QED
    BY <1>7, <2>2, <2>5 DEF ContentInv
<1>14. CountInv'
  <2>1. Used' = Used
    BY <1>11 DEF Used
  <2> QED
    BY <1>6, <2>1 DEF PoolInv, CountInv
<1>15. ChainInv(f)'
  <2>1. ASSUME NEW i \in Slots \ {c}, slots'[i] # Free
        PROVE  /\ Place(f, home[slots'[i]]) <= Place(f, i)
               /\ \A j \in Slots :
                    Place(f, home[slots'[i]]) <= Place(f, j) /\ Place(f, j) < Place(f, i) =>
                      slots'[j] # Free
    <3>1. CASE i = g
      <4>1. \A j \in Slots : Place(f, home[id]) <= Place(f, j) /\ Place(f, j) < Place(f, c) =>
              slots[j] # Free
        BY <1>1, <1>4, <1>5 DEF ChainInv
      <4>2. \A j \in Slots : Place(f, j) < Place(f, g) => Place(f, j) < Place(f, c)
        <5>1. \A j \in Slots : Place(f, j) \in Int
          BY PlaceFacts
        <5> QED
          BY <1>5, <5>1
      <4> QED
        BY <1>5, <1>9, <1>11, <3>1, <4>1, <4>2
    <3>2. CASE i # g
      <4>1. slots'[i] = slots[i] /\ i \in Held
        BY <1>7, <1>9, <3>2
      <4> QED
        BY <1>1, <1>11, <2>1, <4>1 DEF ChainInv
    <3> QED
      BY <3>1, <3>2
  <2> QED
    BY <1>6, <1>7, <2>1 DEF ChainInv, Place
<1>16. ScanInv(f)'
  <2>1. \A j \in Slots : Place(f, j) \in 0 .. (kOrderPool - 1)
    BY PlaceFacts
  <2>2. Place(f, found) <= Place(f, c)
    BY <1>5, <1>8, <1>10, <2>1
  <2>3. slots'[c] # Free
    BY <1>4, <1>5, <1>11
  <2>4. CASE c = f
    <3>1. Place(f, Step(c)) = 0 /\ Place(f, c) = kOrderPool - 1
      BY <2>4, PlaceOfStep, PlaceFacts
    <3>2. \A j \in Slots : ~(Place(f, c) < Place(f, j))
      BY <2>1, <3>1, PoolSize
    <3>3. Place(f, Step(c)) <= Place(f, found)
      BY <1>8, <2>1, <3>1
    <3> QED
      BY <1>6, <1>7, <2>2, <2>3, <3>2, <3>3 DEF ScanInv, Place
  <2>5. CASE c # f
    <3>1. Place(f, Step(c)) = Place(f, c) + 1
      BY <2>5, PlaceOfStep
    <3>2. Place(f, c) < Place(f, Step(c))
      BY <2>1, <3>1
    <3>3. \A j \in Slots : ~(Place(f, c) < Place(f, j) /\ Place(f, j) < Place(f, Step(c)))
      BY <2>1, <3>1
    <3> QED
      BY <1>6, <1>7, <2>2, <2>3, <3>2, <3>3 DEF ScanInv, Place
  <2> QED
    BY <2>4, <2>5
<1> QED
  BY <1>12, <1>13, <1>14, <1>15, <1>16 DEF PoolInv

\* The order stays where it is.  Above the hole its home is then behind the hole too; when
\* the loop has gone past the barrier, every order it meets stays.
LEMMA PassKeepsInv ==
  ASSUME PoolInv, Backshift, ~CanMove(hole, cur, home[slots[cur]])
  PROVE  PoolInv'
<1>1. PICK f \in Slots : ChainInv(f) /\ ScanInv(f)
  BY DEF PoolInv
<1>2. PICK g \in Slots : g = hole
  BY DEF PoolInv, PoolTypeOK
<1>3. PICK c \in Slots : c = cur
  BY DEF PoolInv, PoolTypeOK
<1>4. /\ cur' = Step(c) /\ found # None /\ c # found
      /\ UNCHANGED <<home, slots, live_count, found, hole, live>>
  BY <1>3 DEF Backshift, BackshiftEnds
<1>5. Held' = Held /\ Held \subseteq Slots /\ found \in Slots
  BY <1>4 DEF Held, PoolInv, PoolTypeOK
<1>6. PoolTypeOK'
  BY <1>4, StepIs DEF PoolInv, PoolTypeOK
<1>7. ContentInv'
  BY <1>4, <1>5 DEF PoolInv, ContentInv
<1>8. CountInv'
  <2>1. Used' = Used
    BY <1>4 DEF Used
  <2> QED
    BY <1>4, <2>1 DEF PoolInv, CountInv
<1>9. ChainInv(f)'
  BY <1>1, <1>4, <1>5 DEF ChainInv, Place
<1>10. ScanInv(f)'
  <2>1. \A j \in Slots : Place(f, j) \in 0 .. (kOrderPool - 1)
    BY PlaceFacts
  <2> DEFINE B(i) == Place(f, g) < Place(f, home[slots[i]])
  <2>2. slots[g] # Free /\ Place(f, found) <= Place(f, g)
    BY <1>1, <1>2, <1>4 DEF ScanInv
  <2>3. \/ /\ Place(f, g) < Place(f, c)
           /\ \A i \in Held : slots[i] # Free /\ Place(f, g) < Place(f, i)
                                /\ Place(f, i) < Place(f, c) => B(i)
        \/ /\ Place(f, c) <= Place(f, found)
           /\ \A i \in Held : slots[i] # Free /\ Place(f, g) < Place(f, i) => B(i)
    BY <1>1, <1>2, <1>3, <1>4 DEF ScanInv, Behind
  <2>4. Place(f, g) < Place(f, c) => B(c)
    <3>1. home[slots[c]] \in Slots
      BY <1>1, <1>3, BackshiftFacts
    <3>2. ~(Place(f, g) < Place(f, c) /\ Place(f, home[slots[c]]) <= Place(f, g))
      BY <1>1, <1>2, <1>3, BackshiftFacts
    <3> QED
      BY <2>1, <3>1, <3>2
  <2>5. \A i \in Slots : Place(f, i) = Place(f, c) => i = c
    BY PlaceFacts
  <2> HIDE DEF B
  <2>6. SUFFICES
          \/ /\ Place(f, g) < Place(f, Step(c))
             /\ \A i \in Held : slots[i] # Free /\ Place(f, g) < Place(f, i)
                                  /\ Place(f, i) < Place(f, Step(c)) => B(i)
          \/ /\ Place(f, Step(c)) <= Place(f, found)
             /\ \A i \in Held : slots[i] # Free /\ Place(f, g) < Place(f, i) => B(i)
    BY <1>2, <1>4, <1>5, <2>2 DEF ScanInv, Behind, Place, B
  <2>7. CASE c = f
    <3>1. Place(f, Step(c)) = 0 /\ Place(f, c) = kOrderPool - 1
      BY <2>7, PlaceOfStep, PlaceFacts
    <3>2. Place(f, Step(c)) <= Place(f, found)
      BY <1>5, <2>1, <3>1
    <3>3. ~(Place(f, c) <= Place(f, found))
      <4>1. Place(f, found) # Place(f, c)
        BY <1>4, <1>5, <2>5
      <4> QED
        BY <1>5, <2>1, <3>1, <4>1, PoolSize
    <3>4. \A i \in Held : i = c \/ Place(f, i) < Place(f, c)
      BY <1>5, <2>1, <2>5, <3>1, PoolSize
    <3> QED
      BY <2>3, <2>4, <3>2, <3>3, <3>4
  <2>8. CASE c # f
    <3>1. Place(f, Step(c)) = Place(f, c) + 1
      BY <2>8, PlaceOfStep
    <3>2. CASE Place(f, c) <= Place(f, found) /\ ~(Place(f, g) < Place(f, c))
      <4>1. Place(f, found) # Place(f, c)
        BY <1>4, <1>5, <2>5
      <4>2. Place(f, Step(c)) <= Place(f, found)
        BY <1>5, <2>1, <3>1, <3>2, <4>1
      <4> QED
        BY <2>3, <3>2, <4>2
    <3>3. CASE Place(f, g) < Place(f, c)
      <4>1. Place(f, g) < Place(f, Step(c))
        BY <2>1, <3>1, <3>3
      <4>2. \A i \in Held : Place(f, i) < Place(f, Step(c)) => i = c \/ Place(f, i) < Place(f, c)
        BY <1>5, <2>1, <2>5, <3>1
      <4>3. ~(Place(f, c) <= Place(f, found))
        BY <1>5, <2>1, <2>2, <3>3
      <4> QED
        BY <2>3, <2>4, <3>3, <4>1, <4>2, <4>3
    <3> QED
      BY <2>3, <3>2, <3>3
  <2> QED
    BY <2>7, <2>8
<1> QED
  BY <1>6, <1>7, <1>8, <1>9, <1>10 DEF PoolInv

\* When the loop ends, no chain goes through the hole: a chain from before the hole to an
\* order that the loop did not see would have to go through the free slot that ended it.
LEMMA FinishKeepsInv == ASSUME PoolInv, FinishErase PROVE PoolInv'
<1>1. PICK f \in Slots : ChainInv(f) /\ ScanInv(f)
  BY DEF PoolInv
<1>2. PICK g \in Slots : g = hole
  BY DEF PoolInv, PoolTypeOK
<1>3. /\ slots' = [slots EXCEPT ![g] = Free] /\ found # None
      /\ live_count' = IF live_count > 0 THEN live_count - 1 ELSE live_count
      /\ found' = None /\ hole' = 0 /\ cur' = 0
      /\ UNCHANGED <<home, live>>
  BY <1>2 DEF FinishErase
<1>4. slots \in [Slots -> OrderIds \cup {Free}] /\ found \in Slots /\ cur \in Slots
  BY <1>3 DEF PoolInv, PoolTypeOK
<1>5. slots'[g] = Free /\ \A i \in Slots \ {g} : slots'[i] = slots[i]
  BY <1>3, <1>4
<1>6. Held = Slots \ {g} /\ Held' = Slots
  BY <1>2, <1>3 DEF Held
<1>7. slots[g] # Free /\ Place(f, found) <= Place(f, g)
  BY <1>1, <1>2, <1>3 DEF ScanInv
<1>8. PoolTypeOK'
  <2>1. 0 \in Slots
    BY PoolSize DEF Slots
  <2> QED
    BY <1>3, <1>4, <2>1 DEF PoolInv, PoolTypeOK
<1>9. ContentInv'
  <2>1. \A i, j \in Slots \ {g} : slots[i] # Free /\ slots[i] = slots[j] => i = j
    BY <1>6 DEF PoolInv, ContentInv
  <2>2. \A i, j \in Slots : slots'[i] # Free /\ slots'[i] = slots'[j] => i = j
    BY <1>5, <2>1
  <2>3. \A x \in OrderIds : x \in live <=> \E i \in Slots \ {g} : slots[i] = x
    BY <1>6 DEF PoolInv, ContentInv
  <2>4. \A x \in OrderIds : x # Free
    BY FreeAssumption
  <2>5. \A x \in OrderIds : x \in live' <=> \E i \in Slots : slots'[i] = x
    BY <1>3, <1>5, <2>3, <2>4
  <2> QED
    BY <1>6, <2>2, <2>5 DEF ContentInv
<1>10. CountInv'
  <2>1. Used' = Used \ {g} /\ g \in Used
    BY <1>5, <1>7 DEF Used
  <2>2. Cardinality(Used \ {g}) = Cardinality(Used) - 1
    BY <2>1, UsedIsFinite, FS_RemoveElement
  <2>3. IsFiniteSet(live) /\ live_count = Cardinality(live) + 1 /\ live_count = Cardinality(Used)
    BY <1>3 DEF PoolInv, CountInv
  <2>4. Cardinality(live) \in Nat
    BY <2>3, FS_CardinalityType
  <2>5. live_count' = live_count - 1
    BY <1>3, <2>3, <2>4
  <2>6. live_count' = Cardinality(live') /\ live_count' = Cardinality(Used') /\ IsFiniteSet(live')
    BY <1>3, <2>1, <2>2, <2>3, <2>4, <2>5
  <2> QED
    BY <1>3, <2>4, <2>6 DEF CountInv
<1>11. ASSUME NEW i \in Slots \ {g}, slots[i] # Free, Place(f, g) < Place(f, i)
       PROVE  Place(f, g) < Place(f, home[slots[i]])
  <2>1. \A j \in Slots : Place(f, j) \in 0 .. (kOrderPool - 1)
    BY PlaceFacts
  <2>2. home[slots[i]] \in Slots
    BY <1>4, <1>11 DEF PoolInv, PoolTypeOK
  <2>3. CASE Place(f, cur) <= Place(f, found) /\ ~(Place(f, g) < Place(f, cur))
    BY <1>1, <1>2, <1>3, <1>6, <1>11, <2>3 DEF ScanInv, Behind
  <2>4. CASE Place(f, g) < Place(f, cur)
    <3>1. ~(Place(f, cur) <= Place(f, found))
      BY <1>4, <1>7, <2>1, <2>4
    <3>2. \A j \in Slots \ {g} : slots[j] # Free /\ Place(f, g) < Place(f, j)
                                   /\ Place(f, j) < Place(f, cur) =>
            Place(f, g) < Place(f, home[slots[j]])
      BY <1>1, <1>2, <1>3, <1>6, <3>1 DEF ScanInv, Behind
    <3>3. slots[cur] = Free
      <4>1. cur # found
        BY <1>4, <2>1, <3>1
      <4> QED
        BY <4>1 DEF FinishErase, BackshiftEnds
    <3>4. Place(f, i) # Place(f, cur)
      BY <1>4, <1>11, <3>3, PlaceFacts
    <3>5. CASE Place(f, i) < Place(f, cur)
      BY <1>11, <3>2, <3>5
    <3>6. CASE Place(f, cur) < Place(f, i)
      <4>1. ~(Place(f, home[slots[i]]) <= Place(f, cur))
        BY <1>1, <1>4, <1>6, <1>11, <3>3, <3>6 DEF ChainInv
      <4> QED
        BY <1>4, <2>1, <2>2, <2>4, <4>1
    <3> QED
      BY <1>4, <2>1, <3>4, <3>5, <3>6
  <2> QED
    BY <1>1, <1>2, <1>3, <2>3, <2>4 DEF ScanInv
<1>12. ChainInv(f)'
  <2>1. ASSUME NEW i \in Slots, slots'[i] # Free
        PROVE  /\ Place(f, home[slots'[i]]) <= Place(f, i)
               /\ \A j \in Slots :
                    Place(f, home[slots'[i]]) <= Place(f, j) /\ Place(f, j) < Place(f, i) =>
                      slots'[j] # Free
    <3>1. i # g /\ slots'[i] = slots[i] /\ slots[i] # Free /\ i \in Held
      BY <1>5, <1>6, <2>1
    <3>2. home[slots[i]] \in Slots
      BY <1>4, <3>1 DEF PoolInv, PoolTypeOK
    <3>3. ~(Place(f, home[slots[i]]) <= Place(f, g) /\ Place(f, g) < Place(f, i))
      <4>1. Place(f, home[slots[i]]) \in Int /\ Place(f, g) \in Int
        BY <3>2, PlaceFacts
      <4> QED
        BY <1>11, <3>1, <4>1
    <3> QED
      BY <1>1, <1>5, <3>1, <3>3 DEF ChainInv
  <2> QED
    BY <1>3, <1>6, <2>1 DEF ChainInv, Place
<1>13. ScanInv(f)'
  BY <1>3 DEF ScanInv
<1> QED
  BY <1>8, <1>9, <1>10, <1>12, <1>13 DEF PoolInv

-----------------------------------------------------------------------------
(* The theorem. *)

LEMMA InitEstablishesInv == Init => PoolInv
<1> SUFFICES ASSUME Init PROVE PoolInv
  OBVIOUS
<1>1. 0 \in Slots
  BY PoolSize DEF Slots
<1>2. \A i \in Slots : slots[i] = Free
  BY DEF Init
<1>3. PoolTypeOK
  BY <1>1 DEF Init, PoolTypeOK
<1>4. Held = Slots /\ found = None
  BY DEF Init, Held
<1>5. ContentInv
  BY <1>2, <1>4, FreeAssumption DEF Init, ContentInv
<1>6. Used = {} /\ Cardinality({}) = 0 /\ IsFiniteSet({})
  BY <1>2, FS_EmptySet DEF Used
<1>7. CountInv
  BY <1>4, <1>6 DEF Init, CountInv
<1>8. ChainInv(0) /\ ScanInv(0)
  BY <1>2, <1>4 DEF ChainInv, ScanInv
<1> QED
  BY <1>1, <1>3, <1>5, <1>7, <1>8 DEF PoolInv

LEMMA NextKeepsInv == PoolInv /\ [Next]_vars => PoolInv'
<1> SUFFICES ASSUME PoolInv, [Next]_vars PROVE PoolInv'
  OBVIOUS
<1>1. ASSUME NEW id \in OrderIds, InsertOrder(id) PROVE PoolInv'
  BY <1>1, InsertKeepsInv
<1>2. ASSUME NEW id \in OrderIds, EraseOrder(id) PROVE PoolInv'
  BY <1>2, EraseKeepsInv
<1>3. CASE Backshift
  BY <1>3, MoveKeepsInv, PassKeepsInv
<1>4. CASE FinishErase
  BY <1>4, FinishKeepsInv
<1>5. CASE UNCHANGED vars
  <2>1. PICK f \in Slots : ChainInv(f) /\ ScanInv(f)
    BY DEF PoolInv
  <2>2. UNCHANGED <<home, slots, live_count, found, hole, cur, live>> /\ Held' = Held /\ Used' = Used
    BY <1>5 DEF vars, Held, Used
  <2>3. PoolTypeOK' /\ ContentInv' /\ CountInv'
    BY <2>2 DEF PoolInv, PoolTypeOK, ContentInv, CountInv
  <2>4. ChainInv(f)' /\ ScanInv(f)'
    BY <2>1, <2>2 DEF ChainInv, ScanInv, Behind, Place
  <2> QED
    BY <2>3, <2>4 DEF PoolInv
<1> QED
  BY <1>1, <1>2, <1>3, <1>4, <1>5 DEF Next

LEMMA InvImpliesExact == PoolInv => TableIsExact
<1> SUFFICES ASSUME PoolInv, found = None PROVE FindIsExact /\ CountIsExact
  BY DEF TableIsExact
<1>1. FindIsExact
  BY FindsTheLive DEF PoolInv, FindIsExact
<1>2. Cardinality(live) \in Nat
  BY FS_CardinalityType DEF PoolInv, CountInv
<1>3. CountIsExact
  BY <1>2 DEF PoolInv, CountInv, CountIsExact, Used
<1> QED
  BY <1>1, <1>3

\* For every pool size, every hash of order numbers and every sequence of insert_order()
\* and erase_order(): between the calls find_order() finds exactly the orders that were
\* inserted and not erased since, no order has two slots and live_count_ counts the slots in
\* use.
THEOREM TableHoldsTheLive == Spec => []TableIsExact
<1>1. Spec => []PoolInv
  BY InitEstablishesInv, NextKeepsInv, PTL DEF Spec
<1> QED
  BY <1>1, InvImpliesExact, PTL
=============================================================================
