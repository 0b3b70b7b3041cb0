------------------------------ MODULE SpscQueue ------------------------------
(***************************************************************************)
(* mdp::SpscQueue: a ring of Capacity slots between one producer thread    *)
(* and one consumer thread.  A slot's sequence number tells whose turn it  *)
(* is: pos when the producer may write position pos into it, pos + 1 when  *)
(* the consumer may read that position.                                    *)
(*                                                                         *)
(* Every access to shared memory that the other thread can tell apart is   *)
(* a step of its own.  Atomic loads need not see the newest store:         *)
(*  - a load of slot.sequence may miss the other thread's last store and   *)
(*    return the value the loading thread itself stored there before;      *)
(*  - head_ is stored relaxed, after the slot was released, so the load of *)
(*    head_ in empty() may return any value that is not older than what    *)
(*    the consumer has synchronised with (head_seen).                      *)
(* A call that returns false changes nothing: it is a stuttering step.     *)
(***************************************************************************)
EXTENDS Integers, Sequences

CONSTANTS
  Capacity,         \* number of slots
  Item,             \* what is pushed
  NoItem,           \* a slot's value before it is first written
  MaxPushes         \* bound on the accepted pushes

ASSUME CapacityAssumption == Capacity \in Nat /\ Capacity >= 2
ASSUME MaxPushesAssumption == MaxPushes \in Nat

VARIABLES
  head, tail,       \* head_, tail_
  sequence,         \* slots_[i].sequence
  storage,          \* slots_[i].storage
  ppc,              \* the producer's place in try_push()
  pitem,            \* try_push()'s item
  cpc,              \* the consumer's place in try_pop()
  head_seen,        \* the oldest head_ the consumer may still load
  pushed,           \* history: the items published by try_push()
  popped            \* history: the items moved out by try_pop()

producerVars == <<head, ppc, pitem, pushed>>
consumerVars == <<tail, cpc, head_seen, popped>>
slotVars == <<sequence, storage>>
queueVars == <<producerVars, consumerVars, slotVars>>

Slots == 0 .. (Capacity - 1)

\* pos & kMask
SlotOf(pos) == pos % Capacity

QueueInit ==
  /\ head = 0 /\ tail = 0
  /\ sequence = [i \in Slots |-> i]
  /\ storage = [i \in Slots |-> NoItem]
  /\ ppc = "idle" /\ pitem = NoItem
  /\ cpc = "idle"
  /\ head_seen = 0
  /\ pushed = <<>> /\ popped = <<>>

-----------------------------------------------------------------------------
(* try_push(): the loads, the write, the release, the new head. *)

\* What the producer's load of slot.sequence may return at position head.
ProducerLoads ==
  {sequence[SlotOf(head)]} \cup IF head >= Capacity THEN {head + 1 - Capacity} ELSE {}

\* The slot is taken, or looks taken: try_push() returns false.
PushRejects == \E seq \in ProducerLoads : seq # head

\* Mutant of PushLoad: the sequence number is not compared with head_.
PushLoadUnchecked(item) ==
  /\ ppc = "idle"
  /\ pitem' = item
  /\ ppc' = "write"
  /\ UNCHANGED <<head, pushed, consumerVars, slotVars>>

PushLoad(item) ==
  /\ ppc = "idle"
  /\ head \in ProducerLoads
  /\ pitem' = item
  /\ ppc' = "write"
  /\ UNCHANGED <<head, pushed, consumerVars, slotVars>>

\* Mutant of PushWrite: the item goes into the slot behind the one that is published.
PushWriteNext ==
  /\ ppc = "write"
  /\ storage' = [storage EXCEPT ![SlotOf(head + 1)] = pitem]
  /\ ppc' = "publish"
  /\ UNCHANGED <<head, pitem, pushed, consumerVars, sequence>>

PushWrite ==
  /\ ppc = "write"
  /\ storage' = [storage EXCEPT ![SlotOf(head)] = pitem]
  /\ ppc' = "publish"
  /\ UNCHANGED <<head, pitem, pushed, consumerVars, sequence>>

PushPublish ==
  /\ ppc = "publish"
  /\ sequence' = [sequence EXCEPT ![SlotOf(head)] = head + 1]
  /\ pushed' = Append(pushed, pitem)
  /\ ppc' = "advance"
  /\ UNCHANGED <<head, pitem, consumerVars, storage>>

\* The relaxed store of head_; try_push() returns true.
PushAdvance ==
  /\ ppc = "advance"
  /\ head' = head + 1
  /\ ppc' = "idle"
  /\ UNCHANGED <<pitem, pushed, consumerVars, slotVars>>

-----------------------------------------------------------------------------
(* try_pop(): the loads, the read, the release, the new tail; and empty(). *)

ConsumerLoads == {sequence[SlotOf(tail)], tail}

\* Nothing is there, or nothing is visible yet: try_pop() returns false.
PopRejects == \E seq \in ConsumerLoads : seq # tail + 1

\* Mutant of PopLoad: the load is relaxed and shows nothing of head_.
PopLoadRelaxed ==
  /\ cpc = "idle"
  /\ tail + 1 \in ConsumerLoads
  /\ cpc' = "read"
  /\ UNCHANGED <<tail, head_seen, popped, producerVars, slotVars>>

\* Acquiring the producer's release of position tail shows the consumer the
\* store of head_ that went before it.
PopLoad ==
  /\ cpc = "idle"
  /\ tail + 1 \in ConsumerLoads
  /\ head_seen' = IF head_seen < tail THEN tail ELSE head_seen
  /\ cpc' = "read"
  /\ UNCHANGED <<tail, popped, producerVars, slotVars>>

\* The value a moved-from slot keeps does not matter: it is written before it is
\* read again.
PopRead ==
  /\ cpc = "read"
  /\ popped' = Append(popped, storage[SlotOf(tail)])
  /\ cpc' = "release"
  /\ UNCHANGED <<tail, head_seen, producerVars, slotVars>>

\* Mutant of PopRelease: kMask is added in the place of Capacity.
PopReleaseShort ==
  /\ cpc = "release"
  /\ sequence' = [sequence EXCEPT ![SlotOf(tail)] = tail + Capacity - 1]
  /\ cpc' = "advance"
  /\ UNCHANGED <<tail, head_seen, popped, producerVars, storage>>

PopRelease ==
  /\ cpc = "release"
  /\ sequence' = [sequence EXCEPT ![SlotOf(tail)] = tail + Capacity]
  /\ cpc' = "advance"
  /\ UNCHANGED <<tail, head_seen, popped, producerVars, storage>>

PopAdvance ==
  /\ cpc = "advance"
  /\ tail' = tail + 1
  /\ cpc' = "idle"
  /\ UNCHANGED <<head_seen, popped, producerVars, slotVars>>

\* empty() called by the consumer: it loads h from head_ and compares it with tail_.
LoadHead(h) ==
  /\ cpc = "idle"
  /\ h \in head_seen .. head
  /\ head_seen' = h
  /\ UNCHANGED <<tail, cpc, popped, producerVars, slotVars>>

-----------------------------------------------------------------------------
(* The queue by itself: both threads call whenever they like. *)

PushStep == PushWrite \/ PushPublish \/ PushAdvance

PopStep == PopLoad \/ PopRead \/ PopRelease \/ PopAdvance

QueueNext ==
  \/ Len(pushed) < MaxPushes /\ \E x \in Item : PushLoad(x)
  \/ PushStep
  \/ PopStep
  \/ \E h \in head_seen .. head : LoadHead(h)

QueueSpec == QueueInit /\ [][QueueNext]_queueVars

-----------------------------------------------------------------------------
\* Every field of the ring keeps the type spsc_queue.hpp declares.
QueueTypeOK ==
  /\ head \in Nat /\ tail \in Nat /\ head_seen \in Nat
  /\ sequence \in [Slots -> Nat]
  /\ storage \in [Slots -> Item \cup {NoItem}]
  /\ ppc \in {"idle", "write", "publish", "advance"}
  /\ pitem \in Item \cup {NoItem}
  /\ cpc \in {"idle", "read", "release", "advance"}
  /\ pushed \in Seq(Item) /\ popped \in Seq(Item)

\* The positions released by the producer, and by the consumer.
Published == IF ppc = "advance" THEN head + 1 ELSE head
Released == IF cpc = "advance" THEN tail + 1 ELSE tail

\* try_push() never writes a slot's storage while try_pop() may be reading it.
NoDataRace == ~(ppc = "write" /\ cpc = "read" /\ SlotOf(head) = SlotOf(tail))

\* Once the stores have become visible, the sequence numbers are exact: try_push()
\* uses all Capacity slots and no more, and try_pop() finds a published item.
SequenceIsExact ==
  /\ ppc = "idle" => (sequence[SlotOf(head)] = head <=> head - Released < Capacity)
  /\ cpc = "idle" => (sequence[SlotOf(tail)] = tail + 1 <=> tail < Published)

\* The consumer's view of head_ may lag behind its own tail_, by the one store that
\* follows the release of the slot it has popped: empty() compares for equality, and
\* a lag is taken for "not empty".
HeadLagsByOne == head_seen <= head /\ tail <= head + 1 /\ tail <= head_seen + 1

\* The ring implements BoundedFifo: an item is put when its slot is released and
\* taken when it is moved out.
Fifo == INSTANCE BoundedFifo WITH put <- pushed, taken <- popped

ImplementsFifo == Fifo!Spec
=============================================================================
