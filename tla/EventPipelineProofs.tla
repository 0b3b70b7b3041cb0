------------------------ MODULE EventPipelineProofs ------------------------
(***************************************************************************)
(* The ring of SpscQueue, and the hand-over between the feed thread and    *)
(* the consumer thread and the shutdown of FeedHandler::run(), for every   *)
(* capacity, every number of retries in publish() and every schedule.      *)
(*                                                                         *)
(* The first part is about the queue alone, whatever its two threads do:   *)
(* no data race, exact sequence numbers, and the refinement of             *)
(* BoundedFifo, all from QueueInv.  The second part is about the           *)
(* pipeline, whose steps keep QueueInv too.  PlaceInv says which thread    *)
(* may be where, EventInv what became of the events, LoopInv what the      *)
(* consumer has dispatched, and StopInv what is known once stop_ is set.   *)
(***************************************************************************)
EXTENDS EventPipeline, SlotLemmas, SequenceTheorems

-----------------------------------------------------------------------------
(* The queue. *)

\* The positions whose item was moved out.
Taken == IF cpc \in {"release", "advance"} THEN tail + 1 ELSE tail

\* The histories count the positions.
CountInv == Len(pushed) = Published /\ Len(popped) = Taken

\* At most Capacity positions lie between the consumer and the producer, and a thread
\* inside a call has its position to itself.
OrderInv ==
  /\ Taken <= Published /\ Published <= Released + Capacity
  /\ ppc \in {"write", "publish"} => head < Released + Capacity
  /\ cpc = "read" => tail < Published

\* The Capacity positions from Released on have one slot each; its sequence number says
\* whether the position was published.
TurnInv ==
  \A p \in Released .. (Released + Capacity - 1) :
    sequence[SlotOf(p)] = IF p < Published THEN p + 1 ELSE p

\* What was published and not moved out is still in its slot.
StorageInv ==
  /\ \A p \in Taken .. (Published - 1) : storage[SlotOf(p)] = pushed[p + 1]
  /\ ppc = "publish" => storage[SlotOf(head)] = pitem
  /\ ppc # "idle" => pitem \in Item

\* What was moved out is what was published.
FifoInv == \A i \in 1 .. Len(popped) : popped[i] = pushed[i]

\* The consumer's view of head_ lags behind its own position by one at most, and not
\* at all inside try_pop().
SeenInv == head_seen <= head /\ tail <= head_seen + 1 /\ (cpc # "idle" => tail <= head_seen)

QueueInv == QueueTypeOK /\ CountInv /\ OrderInv /\ TurnInv /\ StorageInv /\ FifoInv /\ SeenInv

-----------------------------------------------------------------------------
\* Facts about positions that every step needs.
LEMMA QueueArithmetic ==
  ASSUME QueueTypeOK
  PROVE  /\ Capacity \in Nat \ {0}
         /\ head \in Nat /\ tail \in Nat /\ head_seen \in Nat
         /\ Published \in Nat /\ Released \in Nat /\ Taken \in Nat
         /\ tail <= Released /\ Released <= Taken /\ Taken <= tail + 1
         /\ head <= Published /\ Published <= head + 1
BY CapacityAssumption DEF QueueTypeOK, Published, Released, Taken

LEMMA CapacityPositive == Capacity \in Nat \ {0} /\ Capacity >= 2
BY CapacityAssumption

LEMMA SlotInRange == ASSUME NEW p \in Nat PROVE SlotOf(p) \in Slots
BY CapacityPositive, ModRange DEF SlotOf, Slots

\* Positions less than Capacity apart do not share a slot.
LEMMA SlotsDiffer ==
  ASSUME NEW p \in Nat, NEW q \in Nat, p # q, p < q + Capacity, q < p + Capacity
  PROVE  SlotOf(p) # SlotOf(q)
<1>1. Capacity \in Nat \ {0}
  BY CapacityPositive
<1>2. CASE p < q
  BY <1>1, <1>2, ModDistinct DEF SlotOf
<1>3. CASE q < p
  BY <1>1, <1>3, ModDistinct DEF SlotOf
<1> QED
  BY <1>2, <1>3

LEMMA SlotWraps == ASSUME NEW p \in Nat PROVE SlotOf(p + Capacity) = SlotOf(p)
BY CapacityPositive, ModWraps DEF SlotOf

LEMMA QueueInitSatisfiesInv == ASSUME QueueInit PROVE QueueInv
<1> USE DEF QueueInit
<1>1. QueueTypeOK
  BY CapacityAssumption DEF QueueTypeOK, Slots
<1>2. Published = 0 /\ Released = 0 /\ Taken = 0
  BY DEF Published, Released, Taken
<1>3. TurnInv
  <2>1. ASSUME NEW p \in 0 .. (Capacity - 1)
        PROVE  sequence[SlotOf(p)] = p /\ ~(p < 0)
    <3>1. SlotOf(p) = p
      BY CapacityAssumption DEF SlotOf
    <3> QED
      BY <3>1 DEF Slots
  <2> HIDE DEF QueueInit
  <2> SUFFICES ASSUME NEW p \in Released .. (Released + Capacity - 1)
               PROVE  sequence[SlotOf(p)] = IF p < Published THEN p + 1 ELSE p
    BY DEF TurnInv
  <2>2. p \in 0 .. (Capacity - 1)
    BY <1>2, CapacityAssumption
  <2> QED
    BY <1>2, <2>1, <2>2
<1> QED
  BY <1>1, <1>2, <1>3, CapacityAssumption DEF QueueInv, CountInv, OrderInv, StorageInv, FifoInv, SeenInv

-----------------------------------------------------------------------------
(* What a load of a sequence number tells. *)

\* The slot of position head has the number head exactly when the consumer has released
\* its last use.
LEMMA ProducerTurn ==
  ASSUME QueueInv, ppc = "idle"
  PROVE  sequence[SlotOf(head)] = head <=> head < Released + Capacity
<1>1. /\ Capacity \in Nat /\ Capacity >= 2 /\ head \in Nat /\ Released \in Nat
      /\ Published = head /\ head <= Released + Capacity /\ Released <= head
  BY QueueArithmetic, CapacityPositive DEF QueueInv, OrderInv, Published
<1>2. CASE head < Released + Capacity
  BY <1>1, <1>2 DEF QueueInv, TurnInv
<1>3. CASE head = Released + Capacity
  <2>1. SlotOf(head) = SlotOf(Released)
    BY <1>1, <1>3, SlotWraps
  <2>2. sequence[SlotOf(Released)] = Released + 1
    BY <1>1, <1>3 DEF QueueInv, TurnInv
  <2> QED
    BY <1>1, <1>3, <2>1, <2>2
<1> QED
  BY <1>1, <1>2, <1>3

\* The slot of position tail has the number tail + 1 exactly when it was published.
LEMMA ConsumerTurn ==
  ASSUME QueueInv, cpc = "idle"
  PROVE  sequence[SlotOf(tail)] = tail + 1 <=> tail < Published
<1>1. Capacity \in Nat \ {0} /\ tail \in Nat /\ Released = tail /\ Published \in Nat
  BY QueueArithmetic DEF QueueInv, Released
<1>2. sequence[SlotOf(tail)] = IF tail < Published THEN tail + 1 ELSE tail
  BY <1>1 DEF QueueInv, TurnInv
<1> QED
  BY <1>1, <1>2

-----------------------------------------------------------------------------
(* try_push() keeps the invariant. *)

LEMMA PushLoadKeepsInv ==
  ASSUME QueueInv, NEW x \in Item, PushLoad(x)
  PROVE  QueueInv'
<1> USE DEF PushLoad, consumerVars, slotVars
<1>1. Capacity \in Nat /\ Capacity >= 2 /\ head \in Nat
  BY QueueArithmetic, CapacityPositive DEF QueueInv
<1>2. head < Released + Capacity
  <2>1. sequence[SlotOf(head)] = head
    BY <1>1 DEF ProducerLoads
  <2> QED
    BY <2>1, ProducerTurn
<1>3. UNCHANGED <<Published, Released, Taken>>
  BY DEF Published, Released, Taken
<1>4. QueueTypeOK'
  BY DEF QueueInv, QueueTypeOK
<1>5. CountInv' /\ TurnInv'
  BY <1>3 DEF QueueInv, CountInv, TurnInv, SlotOf
<1>6. OrderInv'
  BY <1>2, <1>3 DEF QueueInv, OrderInv
<1>7. StorageInv' /\ FifoInv' /\ SeenInv'
  BY <1>3 DEF QueueInv, StorageInv, FifoInv, SeenInv, SlotOf
<1> QED
  BY <1>4, <1>5, <1>6, <1>7 DEF QueueInv

LEMMA PushWriteKeepsInv ==
  ASSUME QueueInv, PushWrite
  PROVE  QueueInv'
<1> USE DEF PushWrite, consumerVars
<1>1. /\ Capacity \in Nat /\ head \in Nat /\ Taken \in Nat /\ Published = head
      /\ head < Taken + Capacity
  BY QueueArithmetic DEF QueueInv, OrderInv, Published
<1>2. UNCHANGED <<Published, Released, Taken>>
  BY DEF Published, Released, Taken
<1>3. SlotOf(head) \in Slots
  BY <1>1, SlotInRange
<1>4. QueueTypeOK'
  BY <1>3 DEF QueueInv, QueueTypeOK
<1>5. CountInv' /\ OrderInv' /\ FifoInv' /\ SeenInv'
  BY <1>2 DEF QueueInv, CountInv, OrderInv, FifoInv, SeenInv
<1>6. TurnInv'
  BY <1>2 DEF QueueInv, TurnInv, SlotOf
<1>7. StorageInv'
  <2>1. ASSUME NEW p \in Taken .. (head - 1)
        PROVE  storage'[SlotOf(p)] = pushed[p + 1]
    <3>1. p \in Nat /\ SlotOf(p) # SlotOf(head)
      BY <1>1, SlotsDiffer
    <3>2. storage[SlotOf(p)] = pushed[p + 1]
      BY <1>1 DEF QueueInv, StorageInv
    <3>3. SlotOf(p) \in Slots /\ storage \in [Slots -> Item \cup {NoItem}]
      BY <3>1, SlotInRange DEF QueueInv, QueueTypeOK
    <3> QED
      BY <1>3, <3>1, <3>2, <3>3
  <2>2. storage'[SlotOf(head)] = pitem
    BY <1>3 DEF QueueInv, QueueTypeOK
  <2> QED
    BY <1>1, <1>2, <2>1, <2>2 DEF QueueInv, StorageInv, SlotOf
<1> QED
  BY <1>4, <1>5, <1>6, <1>7 DEF QueueInv

\* try_push() publishes position head: the only step that lengthens pushed.
LEMMA PushPublishKeepsInv ==
  ASSUME QueueInv, PushPublish
  PROVE  QueueInv'
<1> USE DEF PushPublish, consumerVars
<1>1. /\ Capacity \in Nat /\ head \in Nat /\ Taken \in Nat /\ Released \in Nat
      /\ Published = head /\ head < Released + Capacity /\ Taken <= head /\ Released <= Taken
      /\ pushed \in Seq(Item) /\ Len(pushed) = head /\ pitem \in Item
  BY QueueArithmetic DEF QueueInv, OrderInv, Published, QueueTypeOK, CountInv, StorageInv
<1>2. Published' = head + 1 /\ UNCHANGED <<Released, Taken>>
  BY DEF Published, Released, Taken
<1>3. SlotOf(head) \in Slots
  BY <1>1, SlotInRange
<1>4. /\ pushed' \in Seq(Item) /\ Len(pushed') = head + 1 /\ pushed'[head + 1] = pitem
      /\ \A i \in 1 .. head : pushed'[i] = pushed[i]
  BY <1>1
<1>5. QueueTypeOK'
  BY <1>1, <1>3, <1>4 DEF QueueInv, QueueTypeOK
<1>6. CountInv' /\ SeenInv'
  BY <1>2, <1>4 DEF QueueInv, CountInv, SeenInv
<1>7. OrderInv'
  BY <1>1, <1>2, QueueArithmetic DEF QueueInv, OrderInv
<1>8. TurnInv'
  <2>1. ASSUME NEW p \in Released .. (Released + Capacity - 1)
        PROVE  sequence'[SlotOf(p)] = IF p < head + 1 THEN p + 1 ELSE p
    <3>1. p \in Nat /\ SlotOf(p) \in Slots /\ sequence \in [Slots -> Nat]
      BY <1>1, SlotInRange DEF QueueInv, QueueTypeOK
    <3>2. sequence[SlotOf(p)] = IF p < head THEN p + 1 ELSE p
      BY <1>1 DEF QueueInv, TurnInv
    <3>3. CASE p = head
      BY <1>1, <1>3, <3>1, <3>3
    <3>4. CASE p # head
      <4>1. SlotOf(p) # SlotOf(head)
        BY <1>1, <3>1, <3>4, SlotsDiffer
      <4> QED
        BY <1>1, <1>3, <3>1, <3>2, <3>4, <4>1
    <3> QED
      BY <3>3, <3>4
  <2> QED
    BY <1>2, <2>1 DEF TurnInv, SlotOf
<1>9. StorageInv'
  <2>1. ASSUME NEW p \in Taken .. head
        PROVE  storage[SlotOf(p)] = pushed'[p + 1]
    BY <1>1, <1>4 DEF QueueInv, StorageInv
  <2>2. Taken .. head = Taken' .. (Published' - 1)
    BY <1>1, <1>2
  <2> QED
    BY <1>1, <2>1, <2>2 DEF StorageInv, SlotOf
<1>10. FifoInv'
  <2>1. Len(popped) \in Nat /\ Len(popped) <= head
    BY <1>1 DEF QueueInv, CountInv
  <2> QED
    BY <1>1, <1>4, <2>1 DEF QueueInv, FifoInv
<1> QED
  BY <1>5, <1>6, <1>7, <1>8, <1>9, <1>10 DEF QueueInv

LEMMA PushAdvanceKeepsInv ==
  ASSUME QueueInv, PushAdvance
  PROVE  QueueInv'
<1> USE DEF PushAdvance, consumerVars, slotVars
<1>1. head \in Nat /\ head_seen \in Nat /\ Capacity \in Nat /\ Published \in Nat /\ Released \in Nat
  BY QueueArithmetic DEF QueueInv
<1>2. UNCHANGED <<Published, Released, Taken>>
  BY DEF Published, Released, Taken
<1>3. QueueTypeOK'
  BY DEF QueueInv, QueueTypeOK
<1>4. CountInv' /\ OrderInv' /\ FifoInv'
  BY <1>2 DEF QueueInv, CountInv, OrderInv, FifoInv
<1>5. TurnInv'
  BY <1>2 DEF QueueInv, TurnInv, SlotOf
<1>6. StorageInv' /\ SeenInv'
  BY <1>1, <1>2 DEF QueueInv, StorageInv, SeenInv, SlotOf
<1> QED
  BY <1>3, <1>4, <1>5, <1>6 DEF QueueInv

-----------------------------------------------------------------------------
(* try_pop() and empty() keep the invariant. *)

LEMMA PopLoadKeepsInv ==
  ASSUME QueueInv, PopLoad
  PROVE  QueueInv'
<1> USE DEF PopLoad, producerVars, slotVars
<1>1. tail \in Nat /\ head \in Nat /\ head_seen \in Nat /\ Published \in Nat /\ Published <= head + 1
  BY QueueArithmetic DEF QueueInv
<1>2. tail < Published
  <2>1. sequence[SlotOf(tail)] = tail + 1
    BY <1>1 DEF ConsumerLoads
  <2> QED
    BY <2>1, ConsumerTurn
<1>3. UNCHANGED <<Published, Released, Taken>>
  BY DEF Published, Released, Taken
<1>4. QueueTypeOK'
  BY DEF QueueInv, QueueTypeOK
<1>5. CountInv' /\ FifoInv' /\ OrderInv'
  BY <1>2, <1>3 DEF QueueInv, CountInv, FifoInv, OrderInv
<1>6. TurnInv' /\ StorageInv'
  BY <1>3 DEF QueueInv, TurnInv, StorageInv, SlotOf
<1>7. SeenInv'
  BY <1>1, <1>2 DEF QueueInv, SeenInv
<1> QED
  BY <1>4, <1>5, <1>6, <1>7 DEF QueueInv

\* try_pop() moves position tail out: the only step that lengthens popped.
LEMMA PopReadTakes ==
  ASSUME QueueInv, PopRead
  PROVE  /\ Len(popped) = tail /\ tail < Len(pushed)
         /\ storage[SlotOf(tail)] = pushed[tail + 1] /\ pushed[tail + 1] \in Item
<1>1. /\ tail \in Nat /\ Published \in Nat /\ Taken = tail /\ tail < Published
      /\ pushed \in Seq(Item) /\ Len(pushed) = Published /\ Len(popped) = tail
  BY QueueArithmetic DEF QueueInv, OrderInv, PopRead, CountInv, Taken, QueueTypeOK
<1>2. tail \in Taken .. (Published - 1) /\ tail + 1 \in 1 .. Len(pushed)
  BY <1>1
<1> QED
  BY <1>1, <1>2, ElementOfSeq DEF QueueInv, StorageInv

LEMMA PopReadKeepsInv ==
  ASSUME QueueInv, PopRead
  PROVE  QueueInv'
<1> USE DEF PopRead, producerVars, slotVars
<1>1. /\ tail \in Nat /\ Published \in Nat /\ Released \in Nat /\ Taken = tail
      /\ tail < Published /\ Published = Len(pushed)
      /\ popped \in Seq(Item) /\ Len(popped) = tail
  BY QueueArithmetic DEF QueueInv, OrderInv, CountInv, Taken, QueueTypeOK
<1>2. storage[SlotOf(tail)] = pushed[tail + 1] /\ pushed[tail + 1] \in Item
  BY PopReadTakes
<1>3. Taken' = tail + 1 /\ UNCHANGED <<Published, Released>>
  BY DEF Published, Released, Taken
<1>4. /\ popped' \in Seq(Item) /\ Len(popped') = tail + 1 /\ popped'[tail + 1] = pushed[tail + 1]
      /\ \A i \in 1 .. tail : popped'[i] = popped[i]
  BY <1>1, <1>2
<1>5. QueueTypeOK'
  BY <1>4 DEF QueueInv, QueueTypeOK
<1>6. CountInv' /\ SeenInv'
  BY <1>3, <1>4 DEF QueueInv, CountInv, SeenInv
<1>7. OrderInv'
  BY <1>1, <1>3 DEF QueueInv, OrderInv
<1>8. TurnInv'
  BY <1>3 DEF QueueInv, TurnInv, SlotOf
<1>9. StorageInv'
  <2>1. Taken' .. (Published' - 1) \subseteq Taken .. (Published - 1)
    BY <1>1, <1>3
  <2> QED
    BY <2>1 DEF QueueInv, StorageInv, SlotOf
<1>10. FifoInv'
  BY <1>1, <1>4 DEF QueueInv, FifoInv
<1> QED
  BY <1>5, <1>6, <1>7, <1>8, <1>9, <1>10 DEF QueueInv

\* Releasing position tail gives its slot to position tail + Capacity.
LEMMA PopReleaseKeepsInv ==
  ASSUME QueueInv, PopRelease
  PROVE  QueueInv'
<1> USE DEF PopRelease, producerVars
<1>1. /\ Capacity \in Nat /\ head \in Nat /\ tail \in Nat /\ Published \in Nat
      /\ Released = tail /\ Taken = tail + 1 /\ Published <= tail + Capacity
  BY QueueArithmetic DEF QueueInv, OrderInv, Released, Taken
<1>2. Released' = tail + 1 /\ UNCHANGED <<Published, Taken>>
  BY DEF Published, Released, Taken
<1>3. SlotOf(tail) \in Slots /\ sequence \in [Slots -> Nat]
  BY <1>1, SlotInRange DEF QueueInv, QueueTypeOK
<1>4. QueueTypeOK'
  BY <1>1, <1>3 DEF QueueInv, QueueTypeOK
<1>5. CountInv' /\ FifoInv' /\ SeenInv'
  BY <1>2 DEF QueueInv, CountInv, FifoInv, SeenInv
<1>6. OrderInv'
  BY <1>1, <1>2 DEF QueueInv, OrderInv
<1>7. StorageInv'
  BY <1>2 DEF QueueInv, StorageInv, SlotOf
<1>8. TurnInv'
  <2>1. ASSUME NEW p \in (tail + 1) .. (tail + 1 + Capacity - 1)
        PROVE  sequence'[SlotOf(p)] = IF p < Published THEN p + 1 ELSE p
    <3>1. p \in Nat /\ SlotOf(p) \in Slots
      BY <1>1, SlotInRange
    <3>2. CASE p = tail + Capacity
      <4>1. SlotOf(p) = SlotOf(tail)
        BY <1>1, <3>2, SlotWraps
      <4> QED
        BY <1>1, <1>3, <3>1, <3>2, <4>1
    <3>3. CASE p # tail + Capacity
      <4>1. p \in Released .. (Released + Capacity - 1) /\ SlotOf(p) # SlotOf(tail)
        BY <1>1, <3>1, <3>3, SlotsDiffer
      <4>2. sequence[SlotOf(p)] = IF p < Published THEN p + 1 ELSE p
        BY <4>1 DEF QueueInv, TurnInv
      <4> QED
        BY <1>3, <3>1, <4>1, <4>2
    <3> QED
      BY <3>2, <3>3
  <2> QED
    BY <1>2, <2>1 DEF TurnInv, SlotOf
<1> QED
  BY <1>4, <1>5, <1>6, <1>7, <1>8 DEF QueueInv

LEMMA PopAdvanceKeepsInv ==
  ASSUME QueueInv, PopAdvance
  PROVE  QueueInv'
<1> USE DEF PopAdvance, producerVars, slotVars
<1>1. tail \in Nat /\ head_seen \in Nat
  BY QueueArithmetic DEF QueueInv
<1>2. UNCHANGED <<Published, Released, Taken>>
  BY DEF Published, Released, Taken
<1>3. QueueTypeOK'
  BY DEF QueueInv, QueueTypeOK
<1>4. CountInv' /\ OrderInv' /\ FifoInv'
  BY <1>2 DEF QueueInv, CountInv, OrderInv, FifoInv
<1>5. TurnInv' /\ StorageInv'
  BY <1>2 DEF QueueInv, TurnInv, StorageInv, SlotOf
<1>6. SeenInv'
  BY <1>1 DEF QueueInv, SeenInv
<1> QED
  BY <1>3, <1>4, <1>5, <1>6 DEF QueueInv

\* Also what loading stop_ shows the consumer of head_.
LEMMA SeeingHeadKeepsInv ==
  ASSUME QueueInv, head_seen' \in head_seen .. head,
         UNCHANGED <<tail, cpc, popped, producerVars, slotVars>>
  PROVE  QueueInv'
<1> USE DEF producerVars, slotVars
<1>1. tail \in Nat /\ head_seen \in Nat /\ head \in Nat
  BY QueueArithmetic DEF QueueInv
<1>2. UNCHANGED <<Published, Released, Taken>>
  BY DEF Published, Released, Taken
<1>3. QueueTypeOK'
  BY <1>1 DEF QueueInv, QueueTypeOK
<1>4. CountInv' /\ OrderInv' /\ FifoInv'
  BY <1>2 DEF QueueInv, CountInv, OrderInv, FifoInv
<1>5. TurnInv' /\ StorageInv'
  BY <1>2 DEF QueueInv, TurnInv, StorageInv, SlotOf
<1>6. SeenInv'
  <2>1. /\ head_seen' \in Nat /\ head_seen <= head_seen' /\ head_seen' <= head
        /\ head' = head /\ tail' = tail /\ cpc' = cpc
    BY <1>1
  <2>2. tail <= head_seen + 1 /\ (cpc # "idle" => tail <= head_seen)
    BY DEF QueueInv, SeenInv
  <2>3. ASSUME NEW x \in Nat, head_seen <= x
        PROVE  tail <= x + 1
    BY <1>1, <2>2, <2>3
  <2>4. cpc # "idle" => tail <= head_seen'
    BY <1>1, <2>1, <2>2
  <2> QED
    BY <2>1, <2>3, <2>4, Zenon DEF SeenInv
<1> QED
  BY <1>3, <1>4, <1>5, <1>6 DEF QueueInv

LEMMA QueueUnchangedKeepsInv == ASSUME QueueInv, UNCHANGED queueVars PROVE QueueInv'
<1> USE DEF queueVars, producerVars, consumerVars, slotVars
<1>1. head_seen \in Nat /\ head \in Nat /\ head_seen <= head
  BY QueueArithmetic DEF QueueInv, SeenInv
<1> QED
  BY <1>1, SeeingHeadKeepsInv

LEMMA QueueNextKeepsInv == ASSUME QueueInv, [QueueNext]_queueVars PROVE QueueInv'
<1>1. ASSUME NEW h \in head_seen .. head, LoadHead(h) PROVE QueueInv'
  BY <1>1, SeeingHeadKeepsInv DEF LoadHead
<1> QED
  BY <1>1, PushLoadKeepsInv, PushWriteKeepsInv, PushPublishKeepsInv, PushAdvanceKeepsInv,
     PopLoadKeepsInv, PopReadKeepsInv, PopReleaseKeepsInv, PopAdvanceKeepsInv,
     QueueUnchangedKeepsInv
     DEF QueueNext, PushStep, PopStep

-----------------------------------------------------------------------------
LEMMA QueueInvHolds == QueueSpec => []QueueInv
<1>1. QueueInit => QueueInv
  BY QueueInitSatisfiesInv
<1>2. QueueInv /\ [QueueNext]_queueVars => QueueInv'
  BY QueueNextKeepsInv
<1> QED
  BY <1>1, <1>2, PTL DEF QueueSpec

\* A slot that is being written is not the one being read: the two positions differ, and
\* by less than Capacity.
LEMMA InvExcludesRace == ASSUME QueueInv PROVE NoDataRace
<1> SUFFICES ASSUME ppc = "write", cpc = "read" PROVE SlotOf(head) # SlotOf(tail)
  BY DEF NoDataRace
<1>1. /\ head \in Nat /\ tail \in Nat /\ Capacity \in Nat
      /\ Published = head /\ Released = tail /\ tail < head /\ head < tail + Capacity
  BY QueueArithmetic DEF QueueInv, OrderInv, Published, Released
<1> QED
  BY <1>1, SlotsDiffer

LEMMA InvImpliesExact == ASSUME QueueInv PROVE SequenceIsExact /\ HeadLagsByOne
<1>1. /\ head \in Nat /\ tail \in Nat /\ head_seen \in Nat /\ Capacity \in Nat /\ Released \in Nat
      /\ Published \in Nat /\ Taken \in Nat /\ tail <= Taken /\ Taken <= Published
      /\ Published <= head + 1
  BY QueueArithmetic DEF QueueInv, OrderInv
<1>2. head - Released < Capacity <=> head < Released + Capacity
  BY <1>1
<1>3. SequenceIsExact
  BY <1>2, ProducerTurn, ConsumerTurn DEF SequenceIsExact
<1> QED
  BY <1>1, <1>3 DEF QueueInv, SeenInv, HeadLagsByOne

(***************************************************************************)
(* try_push() and try_pop() never touch the storage of one slot at the     *)
(* same time, for every capacity of two or more slots.                     *)
(***************************************************************************)
THEOREM QueueHasNoDataRace == QueueSpec => []NoDataRace
BY QueueInvHolds, InvExcludesRace, PTL

(***************************************************************************)
(* Apart from stores that are not visible yet, try_push() fails only when  *)
(* all Capacity slots are taken and try_pop() only when nothing is         *)
(* published.                                                              *)
(***************************************************************************)
THEOREM SequenceNumbersAreExact == QueueSpec => []SequenceIsExact
<1>1. QueueInv => SequenceIsExact
  BY InvImpliesExact
<1> QED
  BY <1>1, QueueInvHolds, PTL

(***************************************************************************)
(* The head_ that empty() may load is at most one behind tail_.            *)
(***************************************************************************)
THEOREM HeadIsNearlyCurrent == QueueSpec => []HeadLagsByOne
<1>1. QueueInv => HeadLagsByOne
  BY InvImpliesExact
<1> QED
  BY <1>1, QueueInvHolds, PTL

(***************************************************************************)
(* The ring implements BoundedFifo: what try_pop() returns is what         *)
(* try_push() accepted, once and in order, and no more than Capacity items *)
(* are inside.                                                             *)
(***************************************************************************)
THEOREM RingImplementsFifo == QueueSpec => ImplementsFifo
<1>1. QueueInit => Fifo!Init
  BY DEF QueueInit, Fifo!Init
<1>2. QueueInv /\ [QueueNext]_queueVars => [Fifo!Put \/ Fifo!Take]_<<pushed, popped>>
  <2> SUFFICES ASSUME QueueInv, [QueueNext]_queueVars
               PROVE  [Fifo!Put \/ Fifo!Take]_<<pushed, popped>>
    OBVIOUS
  <2> USE DEF producerVars, consumerVars, slotVars
  <2>1. CASE PushPublish
    <3>1. /\ Capacity \in Nat /\ Len(pushed) = head /\ Len(popped) \in Nat /\ head \in Nat
          /\ head < Len(popped) + Capacity /\ pitem \in Item
      BY <2>1, QueueArithmetic
         DEF PushPublish, QueueInv, CountInv, OrderInv, StorageInv, Published
    <3>2. Len(pushed) - Len(popped) < Capacity
      BY <3>1
    <3> QED
      BY <2>1, <3>1, <3>2 DEF PushPublish, Fifo!Put
  <2>2. CASE PopRead
    BY <2>2, PopReadTakes DEF PopRead, Fifo!Take
  <2>3. CASE UNCHANGED <<pushed, popped>>
    BY <2>3
  <2>4. PushPublish \/ PopRead \/ UNCHANGED <<pushed, popped>>
    BY DEF QueueNext, PushStep, PopStep, PushLoad, PushWrite, PushAdvance, PopLoad, PopRelease,
           PopAdvance, LoadHead, queueVars
  <2> QED
    BY <2>1, <2>2, <2>3, <2>4
<1> QED
  BY <1>1, <1>2, QueueInvHolds, PTL DEF QueueSpec, ImplementsFifo, Fifo!Spec

-----------------------------------------------------------------------------
(* The pipeline. *)

\* The events that the queue has accepted.
Accepted == {pushed[i] : i \in 1 .. Len(pushed)}

\* The events up to this one were accepted or dropped.
Settled == IF fpc = "publish" \/ ppc \in {"write", "publish"} THEN ev - 1 ELSE ev

PlaceInv ==
  /\ ppc # "idle" <=> fpc = "push"
  /\ ppc # "idle" => pitem = ev
  /\ fpc \in {"publish", "push"} => ev > 0 /\ tries > 0
  /\ cpc # "idle" => lpc = "pop"

EventInv ==
  /\ \A i, j \in 1 .. Len(pushed) : i < j => pushed[i] < pushed[j]
  /\ Accepted \cap dropped = {}
  /\ Accepted \cup dropped = 1 .. Settled

LoopInv ==
  /\ Len(handled) = IF lpc = "dispatch" THEN tail - 1 ELSE tail
  /\ \A i \in 1 .. Len(handled) : handled[i] = pushed[i]

\* When the feed thread itself has set stop_, nothing more is pushed: an empty() that
\* sees all of head_ is right, and what was accepted by then is all there will be.
StopInv ==
  /\ fpc = "open" => lpc = "none"
  /\ fpc \in {"returned", "destroyed"} => lpc \in {"none", "joined"}
  /\ lpc = "none" => fpc \in {"open", "returned", "destroyed"} /\ Len(pushed) = 0
  /\ lpc \in {"empty", "flush", "done", "joined"} => stop
  /\ stop /\ ~external => fpc \in {"join", "returned", "destroyed"}
  /\ lpc = "empty" /\ ~external => head_seen = head
  /\ lpc \in {"flush", "done", "joined"} /\ ~external => Len(handled) = Len(pushed)

PipelineInv == TypeOK /\ QueueInv /\ PlaceInv /\ EventInv /\ LoopInv /\ StopInv

-----------------------------------------------------------------------------
LEMMA PipelineTypes ==
  ASSUME PipelineInv
  PROVE  /\ head \in Nat /\ tail \in Nat /\ head_seen \in Nat
         /\ Published \in Nat /\ Taken \in Nat
         /\ ev \in Nat /\ ev <= MaxPushes /\ tries \in Nat /\ tries <= PublishTries
         /\ Item = 1 .. MaxPushes /\ MaxPushes \in Nat /\ PublishTries \in Nat \ {0}
         /\ pushed \in Seq(Item) /\ popped \in Seq(Item) /\ handled \in Seq(Item)
         /\ Len(pushed) \in Nat /\ Len(handled) \in Nat
BY QueueArithmetic, MaxPushesAssumption, PublishTriesAssumption, EventsAssumption
   DEF PipelineInv, QueueInv, TypeOK, QueueTypeOK

\* The event of a try_push() is one of the events.
LEMMA PublishedIsEvent ==
  ASSUME PipelineInv, fpc \in {"publish", "push"}
  PROVE  ev \in Item /\ tries \in 1 .. PublishTries
BY PipelineTypes DEF PipelineInv, PlaceInv

\* A step of one of the threads, by what it does to the queue.
LEMMA FeedStepOnQueue ==
  ASSUME PipelineInv, FeedStep
  PROVE  \/ TryPush \/ PushWrite \/ PushPublish \/ PushAdvance
         \/ UNCHANGED queueVars
BY DEF FeedStep, OpenFails, StartConsumer, EndDatagram, PushOn, PushDone, PushFails, Join, Destroy

LEMMA FeedStepKeepsQueue == ASSUME PipelineInv, FeedStep PROVE QueueInv'
<1>1. CASE TryPush
  BY <1>1, PublishedIsEvent, PushLoadKeepsInv DEF TryPush, PipelineInv
<1>2. CASE PushWrite
  BY <1>2, PushWriteKeepsInv DEF PipelineInv
<1>3. CASE PushPublish
  BY <1>3, PushPublishKeepsInv DEF PipelineInv
<1>4. CASE PushAdvance
  BY <1>4, PushAdvanceKeepsInv DEF PipelineInv
<1>5. CASE UNCHANGED queueVars
  BY <1>5, QueueUnchangedKeepsInv DEF PipelineInv
<1> QED
  BY <1>1, <1>2, <1>3, <1>4, <1>5, FeedStepOnQueue

LEMMA ConsumerStepKeepsQueue == ASSUME PipelineInv, ConsumerStep PROVE QueueInv'
<1>1. CASE CheckStop
  <2>1. head_seen' \in head_seen .. head
    BY <1>1, PipelineTypes DEF CheckStop, PipelineInv, QueueInv, SeenInv
  <2> QED
    BY <1>1, <2>1, SeeingHeadKeepsInv DEF CheckStop, PipelineInv
<1>2. ASSUME NEW h \in head_seen .. head, CheckEmpty(h)
      PROVE  QueueInv'
  BY <1>2, SeeingHeadKeepsInv DEF CheckEmpty, LoadHead, PipelineInv
<1>3. CASE TryPop
  BY <1>3, PopLoadKeepsInv DEF TryPop, PipelineInv
<1>4. CASE PopOn
  BY <1>4, PopReadKeepsInv, PopReleaseKeepsInv DEF PopOn, PipelineInv
<1>5. CASE PopDone
  BY <1>5, PopAdvanceKeepsInv DEF PopDone, PipelineInv
<1>6. CASE PopFails \/ Dispatch \/ FlushAll
  BY <1>6, QueueUnchangedKeepsInv DEF PopFails, Dispatch, FlushAll, PipelineInv
<1> QED
  BY <1>1, <1>2, <1>3, <1>4, <1>5, <1>6 DEF ConsumerStep

LEMMA NextKeepsQueue == ASSUME PipelineInv, [Next]_vars PROVE QueueInv'
<1>1. CASE UNCHANGED queueVars
  BY <1>1, QueueUnchangedKeepsInv DEF PipelineInv
<1> QED
  BY <1>1, FeedStepKeepsQueue, ConsumerStepKeepsQueue
     DEF Next, vars, TakeDatagram, Publish, LeaveLoop, RequestStop, Terminated

-----------------------------------------------------------------------------
(* Types and places. *)

\* What is dispatched is the last event that was popped, and the one after those that
\* were dispatched before.
LEMMA DispatchedIsPopped ==
  ASSUME PipelineInv, Dispatch
  PROVE  /\ tail > 0 /\ Len(popped) = tail /\ Len(handled) = tail - 1
         /\ popped[tail] = pushed[tail]
<1>1. cpc = "idle" /\ Len(handled) = tail - 1 /\ tail \in Nat /\ Len(handled) \in Nat
  BY PipelineTypes DEF Dispatch, PipelineInv, PlaceInv, LoopInv
<1>2. Len(popped) = tail
  BY <1>1 DEF PipelineInv, QueueInv, CountInv, Taken
<1> QED
  BY <1>1, <1>2 DEF PipelineInv, QueueInv, FifoInv

LEMMA NextKeepsTypes == ASSUME PipelineInv, [Next]_vars PROVE TypeOK'
<1>1. QueueTypeOK'
  BY NextKeepsQueue DEF QueueInv
<1>2. fpc' \in {"open", "select", "datagram", "publish", "push", "join", "returned", "destroyed"}
  BY DEF PipelineInv, TypeOK, Next, vars, FeedStep, ConsumerStep, feedVars, OpenFails, StartConsumer,
         TakeDatagram, EndDatagram, Publish, TryPush, PushOn, PushDone, PushFails, LeaveLoop,
         Join, Destroy, RequestStop, CheckStop, CheckEmpty, TryPop, PopOn, PopDone, PopFails,
         Dispatch, FlushAll, Terminated
<1>3. lpc' \in {"none", "while", "empty", "pop", "dispatch", "flush", "done", "joined"}
  BY DEF PipelineInv, TypeOK, Next, vars, FeedStep, ConsumerStep, loopVars, OpenFails, StartConsumer,
         TakeDatagram, EndDatagram, Publish, TryPush, PushOn, PushDone, PushFails, LeaveLoop,
         Join, Destroy, RequestStop, CheckStop, CheckEmpty, TryPop, PopOn, PopDone, PopFails,
         Dispatch, FlushAll, Terminated
<1>4. stop' \in BOOLEAN /\ external' \in BOOLEAN
  BY Zenon
     DEF PipelineInv, TypeOK, Next, vars, FeedStep, ConsumerStep, stopVars, OpenFails, StartConsumer,
         TakeDatagram, EndDatagram, Publish, TryPush, PushOn, PushDone, PushFails, LeaveLoop,
         Join, Destroy, RequestStop, CheckStop, CheckEmpty, TryPop, PopOn, PopDone, PopFails,
         Dispatch, FlushAll, Terminated
<1>5. ev' \in 0 .. MaxPushes /\ tries' \in 0 .. PublishTries /\ dropped' \subseteq Item
  <2>1. CASE Publish
    BY <2>1, PipelineTypes DEF Publish, PipelineInv, TypeOK
  <2>2. CASE PushFails
    <3>1. ev \in Item /\ tries \in 1 .. PublishTries /\ PublishTries \in Nat
      BY <2>2, PublishedIsEvent, PipelineTypes DEF PushFails
    <3>2. dropped \subseteq Item /\ ev \in 0 .. MaxPushes
      BY DEF PipelineInv, TypeOK
    <3>3. ev' = ev /\ tries' = tries - 1 /\ (dropped' = dropped \/ dropped' = dropped \cup {ev})
      BY <2>2 DEF PushFails
    <3>4. dropped' \subseteq Item
      BY <3>1, <3>2, <3>3, Zenon
    <3>5. tries' \in 0 .. PublishTries
      BY <3>1, <3>3
    <3> QED
      BY <3>2, <3>3, <3>4, <3>5
  <2>3. CASE UNCHANGED <<ev, tries, dropped>>
    BY <2>3 DEF PipelineInv, TypeOK
  <2> QED
    BY <2>1, <2>2, <2>3
       DEF Next, vars, FeedStep, ConsumerStep, feedVars, OpenFails, StartConsumer,
           TakeDatagram, EndDatagram, TryPush, PushOn, PushDone, LeaveLoop,
           Join, Destroy, RequestStop, CheckStop, CheckEmpty, TryPop, PopOn, PopDone, PopFails,
           Dispatch, FlushAll, Terminated
<1>6. handled' \in Seq(Item)
  <2>1. CASE Dispatch
    <3>1. popped \in Seq(Item) /\ handled \in Seq(Item) /\ Len(popped) \in 1 .. Len(popped)
      BY <2>1, DispatchedIsPopped, PipelineTypes
    <3>2. popped[Len(popped)] \in Item
      BY <3>1, ElementOfSeq
    <3> QED
      BY <2>1, <3>1, <3>2 DEF Dispatch
  <2>2. CASE UNCHANGED handled
    BY <2>2 DEF PipelineInv, TypeOK
  <2> QED
    BY <2>1, <2>2
       DEF Next, vars, FeedStep, ConsumerStep, loopVars, OpenFails, StartConsumer,
           TakeDatagram, EndDatagram, Publish, TryPush, PushOn, PushDone, PushFails, LeaveLoop,
           Join, Destroy, RequestStop, CheckStop, CheckEmpty, TryPop, PopOn, PopDone, PopFails,
           FlushAll, Terminated
<1> QED
  BY <1>1, <1>2, <1>3, <1>4, <1>5, <1>6 DEF TypeOK

LEMMA NextKeepsPlaces == ASSUME PipelineInv, [Next]_vars PROVE PlaceInv'
<1> USE DEF producerVars, consumerVars, slotVars, feedVars, loopVars, stopVars
<1>1. CASE Publish
  <2>1. ev' > 0 /\ tries' > 0
    BY <1>1, PipelineTypes DEF Publish
  <2> QED
    BY <1>1, <2>1 DEF Publish, PipelineInv, PlaceInv, queueVars
<1>2. CASE TryPush
  BY <1>2 DEF TryPush, PushLoad, PipelineInv, PlaceInv
<1>3. CASE PushOn
  BY <1>3 DEF PushOn, PushWrite, PushPublish, PipelineInv, PlaceInv
<1>4. CASE PushDone
  BY <1>4 DEF PushDone, PushAdvance, PipelineInv, PlaceInv
<1>5. CASE PushFails
  <2>1. fpc' = "publish" => ev' > 0 /\ tries' > 0
    BY <1>5, PipelineTypes, PublishedIsEvent DEF PushFails
  <2>2. UNCHANGED <<ppc, pitem, cpc, ev, lpc>> /\ ppc = "idle" /\ fpc' \in {"publish", "datagram"}
    BY <1>5 DEF PushFails, queueVars, PipelineInv, PlaceInv
  <2> QED
    BY <2>1, <2>2 DEF PipelineInv, PlaceInv
<1>6. CASE OpenFails \/ StartConsumer \/ TakeDatagram \/ EndDatagram \/ LeaveLoop \/ Join \/ Destroy
  <2>1. UNCHANGED <<ppc, pitem, cpc, ev, tries>> /\ fpc \notin {"publish", "push"}
    BY <1>6
       DEF OpenFails, StartConsumer, TakeDatagram, EndDatagram, LeaveLoop, Join, Destroy, queueVars
  <2>2. fpc' \notin {"publish", "push"} /\ (lpc' = lpc \/ lpc \in {"none", "done", "joined"} \/ fpc = "open")
    BY <1>6 DEF OpenFails, StartConsumer, TakeDatagram, EndDatagram, LeaveLoop, Join, Destroy
  <2> QED
    BY <2>1, <2>2 DEF PipelineInv, PlaceInv, StopInv
<1>7. CASE CheckStop \/ (\E h \in head_seen .. head : CheckEmpty(h)) \/ PopFails \/ Dispatch \/ FlushAll
  <2>1. UNCHANGED <<ppc, pitem, cpc, fpc, ev, tries>> /\ cpc = "idle"
    BY <1>7 DEF CheckStop, CheckEmpty, LoadHead, PopFails, Dispatch, FlushAll, queueVars,
                PipelineInv, PlaceInv
  <2> QED
    BY <2>1 DEF PipelineInv, PlaceInv
<1>8. CASE TryPop \/ PopOn \/ PopDone
  BY <1>8 DEF TryPop, PopOn, PopDone, PopLoad, PopRead, PopRelease, PopAdvance, PipelineInv, PlaceInv
<1>9. CASE RequestStop \/ UNCHANGED vars
  BY <1>9 DEF RequestStop, vars, queueVars, PipelineInv, PlaceInv
<1> QED
  BY <1>1, <1>2, <1>3, <1>4, <1>5, <1>6, <1>7, <1>8, <1>9 DEF Next, FeedStep, ConsumerStep, Terminated

-----------------------------------------------------------------------------
(* What becomes of the events. *)

\* The steps that accept or drop an event are the only ones that settle it.
LEMMA EventsUnchanged ==
  ASSUME PipelineInv, UNCHANGED <<pushed, dropped, Settled>>
  PROVE  EventInv'
BY DEF PipelineInv, EventInv, Accepted

LEMMA AcceptKeepsEvents == ASSUME PipelineInv, PushPublish, UNCHANGED feedVars PROVE EventInv'
<1>1. /\ pushed \in Seq(Item) /\ Len(pushed) \in Nat /\ ev \in Item /\ ev \in Nat
      /\ \A i \in 1 .. Len(pushed) : pushed[i] \in Nat
  <2>1. pushed \in Seq(Item) /\ Item = 1 .. MaxPushes /\ MaxPushes \in Nat
    BY PipelineTypes
  <2> QED
    BY <2>1, PublishedIsEvent, ElementOfSeq DEF PushPublish, PipelineInv, PlaceInv
<1>2. pushed' = Append(pushed, ev) /\ dropped' = dropped
  BY DEF PushPublish, PipelineInv, PlaceInv, feedVars
<1>3. Settled = ev - 1 /\ Settled' = ev
  BY DEF PushPublish, Settled, feedVars, PipelineInv, PlaceInv
<1>4. /\ Len(pushed') = Len(pushed) + 1 /\ pushed'[Len(pushed) + 1] = ev
      /\ \A i \in 1 .. Len(pushed) : pushed'[i] = pushed[i]
  BY <1>1, <1>2
<1>5. Accepted' = Accepted \cup {ev}
  <2>1. ASSUME NEW x \in Accepted' PROVE x \in Accepted \cup {ev}
    <3>1. PICK i \in 1 .. (Len(pushed) + 1) : x = pushed'[i]
      BY <1>4, <2>1 DEF Accepted
    <3> QED
      BY <1>1, <1>4, <3>1 DEF Accepted
  <2>2. ASSUME NEW x \in Accepted PROVE x \in Accepted'
    <3>1. PICK i \in 1 .. Len(pushed) : x = pushed[i]
      BY <2>2 DEF Accepted
    <3>2. i \in 1 .. Len(pushed') /\ x = pushed'[i]
      BY <1>1, <1>4, <3>1
    <3> QED
      BY <3>2 DEF Accepted
  <2>3. ev \in Accepted'
    <3>1. Len(pushed) + 1 \in 1 .. Len(pushed')
      BY <1>1, <1>4
    <3> QED
      BY <1>4, <3>1 DEF Accepted
  <2> QED
    BY <2>1, <2>2, <2>3
<1>6. \A x \in Accepted \cup dropped : x \in Int /\ x <= ev - 1
  BY <1>1, <1>3 DEF PipelineInv, EventInv
<1>7. Accepted' \cap dropped' = {}
  BY <1>1, <1>2, <1>5, <1>6 DEF PipelineInv, EventInv
<1>8. Accepted' \cup dropped' = 1 .. ev
  <2>1. 1 .. ev = (1 .. (ev - 1)) \cup {ev}
    BY <1>1, PipelineTypes
  <2>2. Accepted \cup dropped = 1 .. (ev - 1)
    BY <1>3 DEF PipelineInv, EventInv
  <2> QED
    BY <1>2, <1>5, <2>1, <2>2, Zenon
<1>9. \A i, j \in 1 .. Len(pushed') : i < j => pushed'[i] < pushed'[j]
  <2> SUFFICES ASSUME NEW i \in 1 .. Len(pushed'), NEW j \in 1 .. Len(pushed'), i < j
               PROVE  pushed'[i] < pushed'[j]
    OBVIOUS
  <2>1. i \in 1 .. Len(pushed) /\ pushed'[i] = pushed[i] /\ pushed[i] \in Accepted
    BY <1>1, <1>4 DEF Accepted
  <2>2. CASE j \in 1 .. Len(pushed)
    BY <1>4, <2>1, <2>2 DEF PipelineInv, EventInv
  <2>3. CASE j = Len(pushed) + 1
    BY <1>1, <1>4, <1>6, <2>1, <2>3
  <2> QED
    BY <1>1, <1>4, <2>2, <2>3
<1> QED
  BY <1>3, <1>7, <1>8, <1>9 DEF EventInv

LEMMA PushFailsKeepsEvents == ASSUME PipelineInv, PushFails PROVE EventInv'
<1>1. /\ ppc = "idle" /\ fpc = "publish" /\ ev \in Nat /\ ev > 0
      /\ UNCHANGED <<ev, ppc, pushed>> /\ Settled = ev - 1
  BY PipelineTypes DEF PushFails, PipelineInv, PlaceInv, queueVars, producerVars, Settled
<1>2. CASE UNCHANGED <<fpc, dropped>>
  BY <1>1, <1>2, EventsUnchanged DEF Settled
<1>3. CASE fpc' = "datagram" /\ dropped' = dropped \cup {ev}
  <2>1. Settled' = ev /\ Accepted' = Accepted
    BY <1>1, <1>3 DEF Settled, Accepted
  <2>2. Accepted \cup dropped = 1 .. (ev - 1) /\ Accepted \cap dropped = {}
    BY <1>1 DEF PipelineInv, EventInv
  <2>3. 1 .. ev = (1 .. (ev - 1)) \cup {ev} /\ ev \notin 1 .. (ev - 1)
    BY <1>1
  <2>4. Accepted' \cup dropped' = 1 .. ev /\ Accepted' \cap dropped' = {}
    BY <1>3, <2>1, <2>2, <2>3, Zenon
  <2> QED
    BY <1>1, <2>1, <2>4 DEF PipelineInv, EventInv
<1> QED
  BY <1>2, <1>3 DEF PushFails

LEMMA NextKeepsEvents == ASSUME PipelineInv, [Next]_vars PROVE EventInv'
<1> USE DEF producerVars, consumerVars, slotVars, feedVars, loopVars, stopVars
<1>1. CASE Publish
  <2>1. /\ ppc = "idle" /\ fpc = "datagram" /\ UNCHANGED <<ppc, pushed, dropped>>
        /\ fpc' = "publish" /\ ev' = ev + 1 /\ ev \in Nat
    BY <1>1, PipelineTypes DEF Publish, PipelineInv, PlaceInv, queueVars
  <2>2. Settled' = Settled
    BY <2>1 DEF Settled
  <2> QED
    BY <2>1, <2>2, EventsUnchanged
<1>2. CASE TryPush
  <2>1. Settled' = Settled
    BY <1>2 DEF TryPush, PushLoad, Settled
  <2> QED
    BY <1>2, <2>1, EventsUnchanged DEF TryPush, PushLoad
<1>3. CASE PushOn
  <2>1. CASE PushPublish
    BY <1>3, <2>1, AcceptKeepsEvents DEF PushOn
  <2>2. CASE PushWrite
    <3>1. Settled' = Settled
      BY <1>3, <2>2 DEF PushOn, PushWrite, Settled
    <3> QED
      BY <1>3, <2>2, <3>1, EventsUnchanged DEF PushOn, PushWrite
  <2> QED
    BY <1>3, <2>1, <2>2 DEF PushOn
<1>4. CASE PushDone
  <2>1. fpc = "push" /\ Settled' = Settled
    BY <1>4 DEF PushDone, PushAdvance, Settled, PipelineInv, PlaceInv
  <2> QED
    BY <1>4, <2>1, EventsUnchanged DEF PushDone, PushAdvance
<1>5. CASE PushFails
  BY <1>5, PushFailsKeepsEvents
<1>6. CASE OpenFails \/ StartConsumer \/ TakeDatagram \/ EndDatagram \/ LeaveLoop \/ Join \/ Destroy
  <2>1. /\ UNCHANGED <<ppc, pushed, dropped, ev>> /\ fpc \notin {"publish", "push"}
        /\ fpc' \notin {"publish", "push"}
    BY <1>6
       DEF OpenFails, StartConsumer, TakeDatagram, EndDatagram, LeaveLoop, Join, Destroy, queueVars
  <2>2. Settled' = Settled
    BY <2>1 DEF Settled
  <2> QED
    BY <2>1, <2>2, EventsUnchanged
<1>7. CASE ConsumerStep \/ RequestStop \/ UNCHANGED vars
  <2>1. UNCHANGED <<ppc, pushed, dropped, ev, fpc>>
    BY <1>7 DEF ConsumerStep, CheckStop, CheckEmpty, LoadHead, PopFails, Dispatch, FlushAll, queueVars,
                TryPop, PopOn, PopDone, PopLoad, PopRead, PopRelease, PopAdvance, RequestStop, vars
  <2>2. Settled' = Settled
    BY <2>1 DEF Settled
  <2> QED
    BY <2>1, <2>2, EventsUnchanged
<1> QED
  BY <1>1, <1>2, <1>3, <1>4, <1>5, <1>6, <1>7 DEF Next, FeedStep, Terminated

-----------------------------------------------------------------------------
(* What the consumer has dispatched. *)

\* A longer pushed begins with the same events.
LEMMA LoopUnchanged ==
  ASSUME PipelineInv, UNCHANGED <<tail, handled>>, lpc' = "dispatch" <=> lpc = "dispatch",
         \A i \in 1 .. Len(handled) : pushed'[i] = pushed[i]
  PROVE  LoopInv'
BY DEF PipelineInv, LoopInv

LEMMA FeedKeepsLoop ==
  ASSUME PipelineInv, TakeDatagram \/ Publish \/ LeaveLoop \/ FeedStep
  PROVE  LoopInv'
<1> USE DEF producerVars, consumerVars, slotVars, feedVars, loopVars, stopVars
<1>1. UNCHANGED <<tail, handled>> /\ (lpc' = "dispatch" <=> lpc = "dispatch")
  BY DEF TakeDatagram, Publish, LeaveLoop, FeedStep, OpenFails, StartConsumer, EndDatagram, TryPush,
         PushOn, PushDone, PushFails, Join, Destroy, queueVars, PushLoad, PushWrite, PushPublish,
         PushAdvance, PipelineInv, StopInv
<1>2. pushed' = pushed \/ pushed' = Append(pushed, pitem)
  BY DEF TakeDatagram, Publish, LeaveLoop, FeedStep, OpenFails, StartConsumer, EndDatagram, TryPush,
         PushOn, PushDone, PushFails, Join, Destroy, queueVars, PushLoad, PushWrite, PushPublish,
         PushAdvance
<1>3. pushed \in Seq(Item) /\ Len(handled) \in Nat /\ Len(pushed) \in Nat /\ Len(handled) <= Len(pushed)
  <2>1. /\ Len(handled) \in Nat /\ Len(pushed) = Published /\ tail \in Nat /\ Taken \in Nat
        /\ Published \in Nat /\ Taken <= Published /\ tail <= Taken /\ pushed \in Seq(Item)
    BY PipelineTypes, QueueArithmetic DEF PipelineInv, QueueInv, CountInv, OrderInv
  <2> QED
    BY <2>1 DEF PipelineInv, LoopInv
<1>4. \A i \in 1 .. Len(handled) : pushed'[i] = pushed[i]
  BY <1>2, <1>3
<1> QED
  BY <1>1, <1>4, LoopUnchanged

LEMMA ConsumerKeepsLoop == ASSUME PipelineInv, ConsumerStep PROVE LoopInv'
<1> USE DEF producerVars, consumerVars, slotVars, feedVars, loopVars, stopVars
<1>1. CASE PopDone
  <2>1. lpc = "pop" /\ lpc' = "dispatch" /\ tail' = tail + 1 /\ tail \in Nat /\ UNCHANGED <<handled, pushed>>
    BY <1>1, PipelineTypes DEF PopDone, PopAdvance, PipelineInv, PlaceInv
  <2> QED
    BY <2>1 DEF PipelineInv, LoopInv
<1>2. CASE Dispatch
  <2>1. /\ tail \in Nat /\ tail > 0 /\ handled \in Seq(Item) /\ Len(handled) = tail - 1
        /\ Len(popped) = tail /\ popped[tail] = pushed[tail]
    BY <1>2, PipelineTypes, DispatchedIsPopped
  <2>2. handled' = Append(handled, pushed[tail]) /\ lpc' = "while" /\ UNCHANGED <<tail, pushed>>
    BY <1>2, <2>1 DEF Dispatch, queueVars
  <2>3. /\ Len(handled') = tail /\ handled'[tail] = pushed[tail]
        /\ \A i \in 1 .. (tail - 1) : handled'[i] = handled[i]
    BY <2>1, <2>2
  <2>4. \A i \in 1 .. (tail - 1) : handled[i] = pushed[i]
    BY <2>1 DEF PipelineInv, LoopInv
  <2>5. \A i \in 1 .. tail : handled'[i] = pushed[i]
    BY <2>1, <2>3, <2>4
  <2> QED
    BY <2>2, <2>3, <2>5 DEF LoopInv
<1>3. CASE CheckStop \/ (\E h \in head_seen .. head : CheckEmpty(h)) \/ TryPop \/ PopOn \/ PopFails \/ FlushAll
  <2>1. UNCHANGED <<tail, handled, pushed>> /\ lpc # "dispatch" /\ lpc' # "dispatch"
    BY <1>3 DEF CheckStop, CheckEmpty, LoadHead, TryPop, PopOn, PopLoad, PopRead, PopRelease,
                PopFails, FlushAll, queueVars, PipelineInv, PlaceInv
  <2> QED
    BY <2>1, LoopUnchanged
<1> QED
  BY <1>1, <1>2, <1>3 DEF ConsumerStep

LEMMA NextKeepsLoop == ASSUME PipelineInv, [Next]_vars PROVE LoopInv'
<1>1. CASE RequestStop \/ UNCHANGED vars
  BY <1>1, LoopUnchanged DEF RequestStop, vars, queueVars, loopVars, consumerVars, producerVars
<1> QED
  BY <1>1, FeedKeepsLoop, ConsumerKeepsLoop DEF Next, Terminated

-----------------------------------------------------------------------------
(* Stopping. *)

\* Once the feed thread has set stop_, it is outside try_push().
LEMMA FeedKeepsStop ==
  ASSUME PipelineInv, TakeDatagram \/ Publish \/ LeaveLoop \/ FeedStep
  PROVE  StopInv'
<1> USE DEF producerVars, consumerVars, slotVars, feedVars, loopVars, stopVars
<1>1. CASE OpenFails \/ StartConsumer \/ Join \/ Destroy
  BY <1>1 DEF OpenFails, StartConsumer, Join, Destroy, queueVars, PipelineInv, StopInv
<1>2. CASE TakeDatagram \/ EndDatagram \/ Publish \/ LeaveLoop \/ PushFails
  <2>1. UNCHANGED <<head, head_seen, pushed, lpc, handled, external>>
    BY <1>2 DEF TakeDatagram, EndDatagram, Publish, LeaveLoop, PushFails, queueVars
  <2>2. /\ fpc \in {"select", "datagram", "publish"}
        /\ fpc' \in {"select", "datagram", "publish", "join"} /\ (fpc' # "join" => stop' = stop)
        /\ (fpc' = "join" => stop' = TRUE)
    BY <1>2 DEF TakeDatagram, EndDatagram, Publish, LeaveLoop, PushFails
  <2> QED
    BY <2>1, <2>2 DEF PipelineInv, StopInv
<1>3. CASE TryPush \/ PushOn \/ PushDone
  <2>1. /\ UNCHANGED <<lpc, handled, stop, external>> /\ fpc \in {"publish", "push"}
        /\ fpc' \in {"publish", "push", "datagram"}
    BY <1>3 DEF TryPush, PushOn, PushDone, PushWrite, PushPublish, PushAdvance, PipelineInv, PlaceInv
  <2>2. lpc # "none" /\ (stop => external)
    BY <2>1 DEF PipelineInv, StopInv
  <2> QED
    BY <2>1, <2>2 DEF PipelineInv, StopInv
<1> QED
  BY <1>1, <1>2, <1>3 DEF FeedStep

\* An empty queue, seen after the feed thread has set stop_, is empty for good.
LEMMA SeenEmptyIsDrained ==
  ASSUME PipelineInv, NEW h \in head_seen .. head, CheckEmpty(h), h = tail, ~external
  PROVE  Len(handled) = Len(pushed)
<1>1. head_seen = head /\ fpc # "push" /\ ppc = "idle"
  BY DEF CheckEmpty, PipelineInv, StopInv, PlaceInv
<1>2. head = tail /\ Len(handled) = tail
  BY <1>1, PipelineTypes DEF CheckEmpty, PipelineInv, LoopInv
<1>3. Len(pushed) = head
  BY <1>1 DEF PipelineInv, QueueInv, CountInv, Published
<1> QED
  BY <1>2, <1>3

LEMMA ConsumerKeepsStop == ASSUME PipelineInv, ConsumerStep PROVE StopInv'
<1> USE DEF producerVars, consumerVars, slotVars, feedVars, loopVars, stopVars
<1>1. CASE CheckStop
  BY <1>1 DEF CheckStop, PipelineInv, StopInv
<1>2. ASSUME NEW h \in head_seen .. head, CheckEmpty(h)
      PROVE  StopInv'
  <2>1. h = tail /\ ~external => Len(handled) = Len(pushed)
    BY <1>2, SeenEmptyIsDrained
  <2>2. /\ lpc = "empty" /\ stop /\ UNCHANGED <<fpc, stop, external, pushed, handled, head>>
        /\ lpc' = IF h = tail THEN "flush" ELSE "pop"
    BY <1>2 DEF CheckEmpty, LoadHead, PipelineInv, StopInv
  <2> QED
    BY <2>1, <2>2 DEF PipelineInv, StopInv
<1>3. CASE TryPop \/ PopOn \/ PopDone \/ PopFails
  <2>1. /\ lpc = "pop" /\ lpc' \in {"pop", "dispatch", "while"}
        /\ UNCHANGED <<fpc, stop, external>>
    BY <1>3 DEF TryPop, PopOn, PopDone, PopFails, PopRead, PopRelease, PopAdvance, PipelineInv, PlaceInv
  <2> QED
    BY <2>1 DEF PipelineInv, StopInv
<1>4. CASE Dispatch
  <2>1. lpc = "dispatch" /\ lpc' = "while" /\ UNCHANGED <<fpc, stop, external>>
    BY <1>4 DEF Dispatch
  <2> QED
    BY <2>1 DEF PipelineInv, StopInv
<1>5. CASE FlushAll
  BY <1>5 DEF FlushAll, queueVars, PipelineInv, StopInv
<1> QED
  BY <1>1, <1>2, <1>3, <1>4, <1>5 DEF ConsumerStep

LEMMA NextKeepsStop == ASSUME PipelineInv, [Next]_vars PROVE StopInv'
<1>1. CASE RequestStop \/ UNCHANGED vars
  BY <1>1 DEF RequestStop, vars, queueVars, loopVars, feedVars, stopVars, consumerVars, producerVars,
              PipelineInv, StopInv
<1> QED
  BY <1>1, FeedKeepsStop, ConsumerKeepsStop DEF Next, Terminated

-----------------------------------------------------------------------------
LEMMA InitSatisfiesPipelineInv == ASSUME Init PROVE PipelineInv
<1> USE DEF Init
<1>1. QueueInv
  BY QueueInitSatisfiesInv
<1>2. TypeOK
  <2>1. QueueTypeOK
    BY <1>1 DEF QueueInv
  <2>2. ev \in 0 .. MaxPushes /\ tries \in 0 .. PublishTries /\ handled \in Seq(Item)
    BY MaxPushesAssumption, PublishTriesAssumption
  <2>3. stop \in BOOLEAN /\ external \in BOOLEAN /\ dropped \subseteq Item
    BY Zenon
  <2>4. fpc = "open" /\ lpc = "none"
    OBVIOUS
  <2> HIDE DEF Init
  <2> QED
    BY <2>1, <2>2, <2>3, <2>4 DEF TypeOK
<1>3. PlaceInv /\ LoopInv
  BY DEF QueueInit, PlaceInv, LoopInv
<1>5. StopInv
  BY DEF QueueInit, StopInv
<1>4. EventInv
  <2>1. Len(pushed) = 0 /\ Settled = 0 /\ dropped = {} /\ Accepted = {}
    BY DEF QueueInit, Settled, Accepted
  <2>2. 1 .. 0 = {}
    OBVIOUS
  <2> HIDE DEF Init
  <2> QED
    BY <2>1, <2>2 DEF EventInv
<1> QED
  BY <1>1, <1>2, <1>3, <1>4, <1>5 DEF PipelineInv

LEMMA PipelineInvHolds == Spec => []PipelineInv
<1>1. Init => PipelineInv
  BY InitSatisfiesPipelineInv
<1>2. PipelineInv /\ [Next]_vars => PipelineInv'
  BY NextKeepsQueue, NextKeepsTypes, NextKeepsPlaces, NextKeepsEvents, NextKeepsLoop, NextKeepsStop
     DEF PipelineInv
<1> QED
  BY <1>1, <1>2, PTL DEF Spec

(***************************************************************************)
(* The queue, the feed thread and the consumer thread keep their declared  *)
(* types.                                                                  *)
(***************************************************************************)
THEOREM PipelineIsWellTyped == Spec => []TypeOK
<1>1. PipelineInv => TypeOK
  BY DEF PipelineInv
<1> QED
  BY <1>1, PipelineInvHolds, PTL

\* What was dispatched is a prefix of what was accepted, one short of what was popped at
\* most.
LEMMA InvImpliesPrefix ==
  ASSUME PipelineInv
  PROVE  /\ handled = SubSeq(pushed, 1, Len(handled))
         /\ Len(popped) - Len(handled) \in 0 .. 1
         /\ Len(handled) <= Len(pushed)
<1>1. /\ handled \in Seq(Item) /\ pushed \in Seq(Item) /\ Len(handled) \in Nat /\ Len(pushed) \in Nat
      /\ tail \in Nat /\ Taken \in Nat /\ tail <= Taken /\ Taken <= tail + 1
      /\ Len(popped) = Taken /\ Taken <= Len(pushed)
  BY PipelineTypes, QueueArithmetic DEF PipelineInv, QueueInv, CountInv, OrderInv
<1>2. lpc = "dispatch" => Taken = tail
  BY DEF PipelineInv, PlaceInv, Taken
<1>3. Len(popped) - Len(handled) \in 0 .. 1 /\ Len(handled) <= Len(pushed)
  BY <1>1, <1>2 DEF PipelineInv, LoopInv
<1>4. \A i \in 1 .. Len(handled) : pushed[i] \in Item /\ handled[i] = pushed[i]
  BY <1>1, <1>3, ElementOfSeq DEF PipelineInv, LoopInv
<1> DEFINE prefix == SubSeq(pushed, 1, Len(handled))
<1>5. /\ prefix \in Seq(Item) /\ Len(prefix) = Len(handled)
      /\ \A i \in 1 .. Len(handled) : prefix[i] = handled[i]
  BY <1>1, <1>4, SubSeqProperties
<1> HIDE DEF prefix
<1>6. handled = prefix
  BY <1>1, <1>5, SeqEqual
<1> QED
  BY <1>3, <1>6 DEF prefix

(***************************************************************************)
(* Nothing is lost unnoticed between publish() and the consumers, and what *)
(* is dispatched is dispatched in the order of publication: for every      *)
(* capacity, number of retries, schedule, and wherever stop_ is set.       *)
(***************************************************************************)
THEOREM EventsAreHandledInOrder == Spec => []HandledInOrder
<1>1. PipelineInv => HandledInOrder
  <2> SUFFICES ASSUME PipelineInv PROVE HandledInOrder
    OBVIOUS
  <2>1. fpc \notin {"publish", "push"} => Settled = ev
    BY DEF Settled, PipelineInv, PlaceInv
  <2> QED
    BY <2>1, InvImpliesPrefix DEF PipelineInv, EventInv, Accepted, HandledInOrder
<1> QED
  BY <1>1, PipelineInvHolds, PTL

(***************************************************************************)
(* When run() has set stop_ itself, it returns after the consumer has      *)
(* dispatched everything that the queue had accepted.                      *)
(***************************************************************************)
THEOREM ShutdownDrainsTheQueue == Spec => []DrainedAtReturn
<1>1. PipelineInv => DrainedAtReturn
  <2> SUFFICES ASSUME PipelineInv, fpc \in {"returned", "destroyed"}, ~external
               PROVE  handled = pushed
    BY DEF DrainedAtReturn
  <2>1. Len(handled) = Len(pushed)
    <3>1. lpc = "none" => Len(pushed) = 0
      BY DEF PipelineInv, StopInv
    <3>2. lpc = "joined" => Len(handled) = Len(pushed)
      BY DEF PipelineInv, StopInv
    <3>3. lpc \in {"none", "joined"}
      BY DEF PipelineInv, StopInv
    <3> QED
      BY <3>1, <3>2, <3>3, InvImpliesPrefix, PipelineTypes
  <2> QED
    BY <2>1, InvImpliesPrefix, PipelineTypes, SubSeqFull
<1> QED
  BY <1>1, PipelineInvHolds, PTL
=============================================================================
