--------------------------- MODULE SequenceTracker ---------------------------
(***************************************************************************)
(* mdp::SequenceTracker: puts framed messages back into sequence order     *)
(* with a fixed window of reorder slots, and remembers the range of        *)
(* sequence numbers it is missing so that the feed handler can ask the     *)
(* TCP recovery server for it.                                             *)
(*                                                                         *)
(* A frame is a record of its sequence number and an opaque body.  A slot  *)
(* of the window is the frame it stores, or NoFrame when it is not         *)
(* occupied.  push() rejects a frame whose size is outside                 *)
(* [sizeof(WireHeader), kMaxStoredMessage] before it touches any state:    *)
(* that return is a stuttering step.                                       *)
(***************************************************************************)
EXTENDS Integers, Sequences, FiniteSets

CONSTANTS
  kReorderWindow,   \* number of reorder slots (64 in the code)
  Body,             \* what a frame carries besides its sequence number
  NoFrame,          \* an unoccupied slot
  Numbers,          \* the sequence numbers that occur on the wire
  MaxPushes         \* bound: no new frame is taken from the wire after this many pushes

Frame == [seq : Numbers, body : Body]

ASSUME WindowAssumption == kReorderWindow \in Nat \ {0}
ASSUME NumbersAssumption == Numbers \subseteq Nat
ASSUME NoFrameAssumption == NoFrame \notin Frame
ASSUME MaxPushesAssumption == MaxPushes \in Nat

VARIABLES
  next_expected,    \* stats_.next_expected
  drops,            \* stats_.drops
  recovered,        \* stats_.recovered
  out_of_order,     \* stats_.out_of_order
  window,           \* window_
  ready,            \* ready_
  gap_start,        \* gap_start_, 0 when no gap is pending
  gap_end,          \* gap_end_
  pushes,           \* history: calls of push() so far
  rebuffered        \* history: pushes of a frame whose number is in the window

gapVars == <<gap_start, gap_end>>
statVars == <<drops, recovered, out_of_order>>
historyVars == <<pushes, rebuffered>>
trackerVars == <<next_expected, statVars, window, ready, gapVars, historyVars>>

Slots == 0 .. (kReorderWindow - 1)

SlotOf(seq) == seq % kReorderWindow

Occupied(w, i) == w[i] # NoFrame

Holds(w, seq) == Occupied(w, SlotOf(seq)) /\ w[SlotOf(seq)].seq = seq

TrackerInit ==
  /\ next_expected = 1
  /\ drops = 0 /\ recovered = 0 /\ out_of_order = 0
  /\ window = [i \in Slots |-> NoFrame]
  /\ ready = <<>>
  /\ gap_start = 0 /\ gap_end = 0
  /\ pushes = 0 /\ rebuffered = 0

-----------------------------------------------------------------------------
(***************************************************************************)
(* flush_contiguous().  Called with next_expected = n, its loop stops at   *)
(* the first number that the window does not hold.                         *)
(***************************************************************************)
\* Mutant of FlushEnd: the loop takes one slot too many.
FlushEndLate(w, n) ==
  1 + CHOOSE m \in n .. (n + kReorderWindow) :
        ~Holds(w, m) /\ \A k \in n .. (m - 1) : Holds(w, k)

FlushEnd(w, n) ==
  CHOOSE m \in n .. (n + kReorderWindow) :
    ~Holds(w, m) /\ \A k \in n .. (m - 1) : Holds(w, k)

FlushedFrames(w, n, m) == [i \in 1 .. (m - n) |-> w[SlotOf(n + i - 1)]]

\* Mutant of FlushedWindow: flushed slots stay occupied.
FlushedWindowKept(w, n, m) == w

FlushedWindow(w, n, m) ==
  [i \in Slots |-> IF \E k \in n .. (m - 1) : i = SlotOf(k) THEN NoFrame ELSE w[i]]

\* Mutant of GapClosed: the gap stays pending one number too long.
GapClosedLate(m) == gap_start # 0 /\ m > gap_end + 1

\* The gap is forgotten once the flush has gone past its end.
GapClosed(m) == gap_start # 0 /\ m > gap_end

\* push(), first branch: the frame everyone waits for, and what it unblocks.
PushExpected(f) ==
  LET n == next_expected + 1
      m == FlushEnd(window, n)
  IN  /\ f.seq = next_expected
      /\ ready' = Append(ready, f) \o FlushedFrames(window, n, m)
      /\ window' = FlushedWindow(window, n, m)
      /\ next_expected' = m
      /\ recovered' = recovered + (m - n)
      /\ gap_start' = IF GapClosed(m) THEN 0 ELSE gap_start
      /\ gap_end' = IF GapClosed(m) THEN 0 ELSE gap_end
      /\ UNCHANGED <<drops, out_of_order, rebuffered>>

\* push(), second branch: a number that was delivered already.
PushOld(f) ==
  /\ f.seq < next_expected
  /\ drops' = drops + 1
  /\ UNCHANGED <<next_expected, recovered, out_of_order, window, ready, gapVars, rebuffered>>

\* Mutant of StoreOoo: an evicted frame is not counted.
StoreOooUncounted(f) ==
  /\ window' = [window EXCEPT ![SlotOf(f.seq)] = IF Holds(window, f.seq) THEN @ ELSE f]
  /\ rebuffered' = IF Holds(window, f.seq) THEN rebuffered + 1 ELSE rebuffered
  /\ UNCHANGED drops

\* store_ooo(): keep the frame already stored for this number; evict, and count
\* as dropped, a frame of another number.
StoreOoo(f) ==
  LET i == SlotOf(f.seq)
  IN  /\ window' = [window EXCEPT ![i] = IF Holds(window, f.seq) THEN @ ELSE f]
      /\ drops' = IF Occupied(window, i) /\ ~Holds(window, f.seq) THEN drops + 1 ELSE drops
      /\ rebuffered' = IF Holds(window, f.seq) THEN rebuffered + 1 ELSE rebuffered

\* Mutant of WidenGap: the end of a pending gap never moves.
WidenGapOnce(f) ==
  /\ gap_start' = IF gap_start = 0 THEN next_expected ELSE gap_start
  /\ gap_end' = IF gap_start = 0 THEN f.seq - 1 ELSE gap_end

\* The gap opens at next_expected, or its end moves up.
WidenGap(f) ==
  /\ gap_start' = IF gap_start = 0 THEN next_expected ELSE gap_start
  /\ gap_end' = IF gap_start = 0 \/ f.seq - 1 > gap_end THEN f.seq - 1 ELSE gap_end

\* push(), last branch: a number ahead of the expected one.
PushAhead(f) ==
  /\ f.seq > next_expected
  /\ out_of_order' = out_of_order + 1
  /\ StoreOoo(f)
  /\ WidenGap(f)
  /\ UNCHANGED <<next_expected, recovered, ready>>

Push(f) ==
  /\ PushExpected(f) \/ PushOld(f) \/ PushAhead(f)
  /\ pushes' = pushes + 1

ClearReady ==
  /\ ready' = <<>>
  /\ UNCHANGED <<next_expected, statVars, window, gapVars, historyVars>>

ClearGap ==
  /\ gap_start' = 0
  /\ gap_end' = 0
  /\ UNCHANGED <<next_expected, statVars, window, ready, historyVars>>

-----------------------------------------------------------------------------
(***************************************************************************)
(* The tracker by itself: a caller pushes frames in any order, drains      *)
(* ready() and abandons a gap whenever it likes.                           *)
(***************************************************************************)
PushAny ==
  /\ pushes < MaxPushes
  /\ \E f \in Frame : Push(f)

TrackerNext == PushAny \/ ClearReady \/ ClearGap

TrackerSpec == TrackerInit /\ [][TrackerNext]_trackerVars

-----------------------------------------------------------------------------
\* Every field of the tracker keeps the type sequence_tracker.hpp declares.
TrackerTypeOK ==
  /\ next_expected \in Nat \ {0}
  /\ drops \in Nat /\ recovered \in Nat /\ out_of_order \in Nat
  /\ window \in [Slots -> Frame \cup {NoFrame}]
  /\ ready \in Seq(Frame)
  /\ gap_start \in Nat /\ gap_end \in Nat
  /\ pushes \in Nat /\ rebuffered \in Nat

\* flush_contiguous() leaves nothing behind: an occupied slot stores a frame
\* that belongs in that slot and that is still ahead of the expected number, so
\* a slot never keeps a frame that was, or could be, delivered.
WindowAhead ==
  \A i \in Slots : Occupied(window, i) =>
    SlotOf(window[i].seq) = i /\ window[i].seq > next_expected

\* A pending gap always contains the number the tracker is blocked on: a
\* recovery request for [gap_start, gap_end] asks for next_expected, even after
\* push() moved next_expected since the gap was opened.
GapCoversExpected ==
  gap_start # 0 => gap_start <= next_expected /\ next_expected <= gap_end

\* push() hands frames out in sequence order, without a hole and without a
\* repetition, up to the one before next_expected.
ReadyIsConsecutive ==
  \A i \in 1 .. Len(ready) : ready[i].seq = next_expected - (Len(ready) + 1 - i)

\* No frame vanishes uncounted: each call of push() delivered its frame, counted
\* a drop, still has its frame in the window, or found its number there already.
PushesAccounted ==
  pushes = (next_expected - 1) + drops + rebuffered
             + Cardinality({i \in Slots : Occupied(window, i)})
=============================================================================
