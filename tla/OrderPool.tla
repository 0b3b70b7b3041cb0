------------------------------ MODULE OrderPool ------------------------------
(***************************************************************************)
(* The order table of mdp::BookBuilder: open addressing with linear        *)
(* probing, and deletion by backshift, so that no tombstones are needed.   *)
(* A slot holds the number of a live order or is free; what else the       *)
(* record carries does not matter here.                                    *)
(*                                                                         *)
(* order_slot() is an arbitrary hash: home is chosen at the start and      *)
(* never changes.  An insert or an erase that finds nothing to do changes  *)
(* nothing.  The loop of erase_order() takes one step per iteration.       *)
(***************************************************************************)
EXTENDS Integers, FiniteSets

CONSTANTS
  kOrderPool,       \* number of slots
  OrderIds,         \* order numbers
  Free              \* a slot whose state is 0

ASSUME PoolAssumption == kOrderPool \in Nat /\ kOrderPool >= 2
ASSUME FreeAssumption == Free \notin OrderIds

VARIABLES
  home,             \* order_slot()
  slots,            \* orders_
  live_count,       \* live_count_
  found, hole, cur, \* locals of erase_order(); found is None outside its loop
  live              \* history: the orders inserted and not erased

vars == <<home, slots, live_count, found, hole, cur, live>>

Slots == 0 .. (kOrderPool - 1)
None == kOrderPool

Init ==
  /\ home \in [OrderIds -> Slots]
  /\ slots = [i \in Slots |-> Free]
  /\ live_count = 0
  /\ found = None /\ hole = 0 /\ cur = 0
  /\ live = {}

-----------------------------------------------------------------------------
Step(i) == (i + 1) % kOrderPool

\* The k-th slot that a probe for id looks at.
Probe(id, k) == (home[id] + k) % kOrderPool

\* A probe for id reaches its k-th slot: it met neither id nor a free slot before.
Reaches(id, k) == \A j \in 0 .. (k - 1) : slots[Probe(id, j)] \notin {id, Free}

\* find_order(id), and the search at the start of erase_order(id), end at slot i.
FindsAt(id, i) ==
  \E k \in 0 .. (kOrderPool - 1) : Probe(id, k) = i /\ Reaches(id, k) /\ slots[i] = id

Finds(id) == \E i \in Slots : FindsAt(id, i)

\* insert_order(id) takes the first free slot, unless id is there already or the
\* pool is full.
InsertOrder(id) ==
  /\ found = None
  /\ live_count < kOrderPool
  /\ ~Finds(id)
  /\ \E k \in 0 .. (kOrderPool - 1) :
       /\ slots[Probe(id, k)] = Free /\ Reaches(id, k)
       /\ slots' = [slots EXCEPT ![Probe(id, k)] = id]
  /\ live_count' = live_count + 1
  /\ live' = live \cup {id}
  /\ UNCHANGED <<home, found, hole, cur>>

\* erase_order(id) has found the order; the backshift starts behind it.
EraseOrder(id) ==
  /\ found = None
  /\ \E i \in Slots : FindsAt(id, i) /\ found' = i /\ hole' = i /\ cur' = Step(i)
  /\ live' = live \ {id}
  /\ UNCHANGED <<home, slots, live_count>>

\* Mutant of CanMove: as if a probe chain never went around the end of the table.
CanMoveStraight(g, c, h) == h <= g

\* The order in slot c, whose home is h, may be moved back into the hole g.
CanMove(g, c, h) == IF g < c THEN h <= g \/ h > c ELSE h <= g /\ h > c

\* Mutant of BackshiftEnds: only a free slot ends the loop.
BackshiftEndsAtFree == slots[cur] = Free

\* The loop is over at a free slot, or when it has come around to where it started.
BackshiftEnds == slots[cur] = Free \/ cur = found

\* One iteration of the backshift.
Backshift ==
  /\ found # None
  /\ ~BackshiftEnds
  /\ IF CanMove(hole, cur, home[slots[cur]])
       THEN slots' = [slots EXCEPT ![hole] = slots[cur]] /\ hole' = cur
       ELSE UNCHANGED <<slots, hole>>
  /\ cur' = Step(cur)
  /\ UNCHANGED <<home, live_count, found, live>>

\* The hole that is left becomes free.
FinishErase ==
  /\ found # None
  /\ BackshiftEnds
  /\ slots' = [slots EXCEPT ![hole] = Free]
  /\ live_count' = IF live_count > 0 THEN live_count - 1 ELSE live_count
  /\ found' = None /\ hole' = 0 /\ cur' = 0
  /\ UNCHANGED <<home, live>>

Next ==
  \/ \E id \in OrderIds : InsertOrder(id) \/ EraseOrder(id)
  \/ Backshift
  \/ FinishErase

Spec == Init /\ [][Next]_vars /\ WF_vars(Backshift \/ FinishErase)

-----------------------------------------------------------------------------
\* Outside erase_order(), find_order() finds exactly the orders that were inserted and
\* not erased since.
FindIsExact == \A id \in OrderIds : Finds(id) <=> id \in live

\* No order is in two slots and live_count_ counts the slots in use.
CountIsExact ==
  /\ live_count = Cardinality(live)
  /\ live_count = Cardinality({i \in Slots : slots[i] # Free})

\* The table is the set it stands for, whatever deletions have done to the probe chains,
\* around the end of the table too and when it is full, and a full pool is reported
\* exactly when it is full.
TableIsExact == found = None => FindIsExact /\ CountIsExact

\* erase_order() comes to an end, also in a table without a free slot.
EraseEnds == (found # None) ~> (found = None)
=============================================================================
