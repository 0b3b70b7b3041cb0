------------------------ MODULE RecoveringFeedProofs ------------------------
(***************************************************************************)
(* The receive path: first its SequenceTracker, whatever its caller does,  *)
(* then process_datagram() and try_recover() on top of it, for every       *)
(* session, every window size and every behaviour of UDP and of the        *)
(* recovery connection; then the simulator, and the receive path with the  *)
(* simulator as its peer.  Only the simulator's part says anything of      *)
(* Count, which is the length of the session.                              *)
(***************************************************************************)
EXTENDS SimulatedFeed, SlotLemmas, SequenceTheorems, FiniteSetTheorems

-----------------------------------------------------------------------------
(***************************************************************************)
(* The tracker, for every window size, every set of bodies and every order *)
(* of calls.                                                               *)
(***************************************************************************)
Window == [Slots -> Frame \cup {NoFrame}]

\* Every number has a slot.
LEMMA SlotInRange == ASSUME NEW s \in Nat PROVE SlotOf(s) \in Slots
BY WindowAssumption, ModRange DEF SlotOf, Slots

\* A stored frame is a frame.
LEMMA OccupiedIsFrame ==
  ASSUME NEW w \in Window, NEW i \in Slots, Occupied(w, i)
  PROVE  w[i] \in Frame
BY DEF Occupied, Window

(***************************************************************************)
(* The loop of flush_contiguous() ends: n and n + kReorderWindow share a   *)
(* slot, which cannot store both, so the window lacks one of the numbers   *)
(* n .. n + kReorderWindow, and FlushEnd is the least of these.            *)
(***************************************************************************)
LEMMA FlushEndExists ==
  ASSUME NEW w \in Window, NEW n \in Nat
  PROVE  /\ FlushEnd(w, n) \in n .. (n + kReorderWindow)
         /\ ~Holds(w, FlushEnd(w, n))
         /\ \A k \in n .. (FlushEnd(w, n) - 1) : Holds(w, k)
<1> DEFINE Missing == {m \in n .. (n + kReorderWindow) : ~Holds(w, m)}
<1>1. kReorderWindow \in Nat /\ kReorderWindow > 0
  BY WindowAssumption
<1>2. Missing # {}
  <2>1. SlotOf(n + kReorderWindow) = SlotOf(n)
    BY WindowAssumption, ModWraps DEF SlotOf
  <2>2. ~(Holds(w, n) /\ Holds(w, n + kReorderWindow))
    BY <1>1, <2>1 DEF Holds
  <2> QED
    BY <1>1, <2>2
<1>3. PICK m \in Missing : \A k \in Missing : m <= k
  <2>1. Missing \in SUBSET Nat
    BY <1>1
  <2> HIDE DEF Missing
  <2> QED
    BY <1>2, <2>1, LeastNumber
<1>4. \A k \in n .. (m - 1) : Holds(w, k)
  BY <1>1, <1>3
<1>5. \E j \in n .. (n + kReorderWindow) : ~Holds(w, j) /\ \A k \in n .. (j - 1) : Holds(w, k)
  BY <1>3, <1>4
<1> QED
  BY <1>5 DEF FlushEnd

\* What a flush takes out of the window is a sequence of frames, the i-th of them
\* with number n + i - 1.
LEMMA FlushedAreFrames ==
  ASSUME NEW w \in Window, NEW n \in Nat, NEW m \in Nat, m >= n,
         \A k \in n .. (m - 1) : Holds(w, k)
  PROVE  /\ FlushedFrames(w, n, m) \in Seq(Frame)
         /\ Len(FlushedFrames(w, n, m)) = m - n
         /\ \A i \in 1 .. (m - n) : FlushedFrames(w, n, m)[i].seq = n + i - 1
<1>1. ASSUME NEW i \in 1 .. (m - n)
      PROVE  w[SlotOf(n + i - 1)] \in Frame /\ w[SlotOf(n + i - 1)].seq = n + i - 1
  <2>1. n + i - 1 \in Nat /\ n + i - 1 \in n .. (m - 1)
    OBVIOUS
  <2>2. Holds(w, n + i - 1)
    BY <2>1
  <2>3. SlotOf(n + i - 1) \in Slots
    BY <2>1, SlotInRange
  <2> QED
    BY <2>2, <2>3, OccupiedIsFrame DEF Holds
<1>2. m - n \in Nat
  OBVIOUS
<1>3. FlushedFrames(w, n, m) \in [1 .. (m - n) -> Frame]
  BY <1>1 DEF FlushedFrames
<1>4. FlushedFrames(w, n, m) \in Seq(Frame) /\ Len(FlushedFrames(w, n, m)) = m - n
  BY <1>2, <1>3
<1> QED
  BY <1>1, <1>4 DEF FlushedFrames

\* A flush only empties slots.
LEMMA FlushedIsWindow ==
  ASSUME NEW w \in Window, NEW n \in Nat, NEW m \in Nat
  PROVE  /\ FlushedWindow(w, n, m) \in Window
         /\ \A i \in Slots : Occupied(FlushedWindow(w, n, m), i) =>
              /\ FlushedWindow(w, n, m)[i] = w[i]
              /\ \A k \in n .. (m - 1) : i # SlotOf(k)
BY DEF Window, FlushedWindow, Occupied

-----------------------------------------------------------------------------
(***************************************************************************)
(* TrackerInv is inductive.  WindowAhead is needed for the flush: a frame  *)
(* left in the window is neither one of the flushed numbers nor the one    *)
(* the flush stopped at, and it was ahead of next_expected before, so it   *)
(* is ahead of where the flush stopped.                                    *)
(***************************************************************************)
TrackerInv == TrackerTypeOK /\ WindowAhead /\ GapCoversExpected /\ ReadyIsConsecutive

\* The numbers of a frame are natural numbers.
LEMMA FrameSeq == ASSUME NEW f \in Frame PROVE f.seq \in Nat
BY NumbersAssumption DEF Frame

LEMMA PushExpectedKeepsInv ==
  ASSUME TrackerInv, NEW f \in Frame, PushExpected(f), pushes' = pushes + 1
  PROVE  TrackerInv'
<1> DEFINE n == next_expected + 1
           m == FlushEnd(window, n)
           flushed == FlushedFrames(window, n, m)
<1>1. next_expected \in Nat \ {0} /\ n = next_expected + 1 /\ n \in Nat /\ window \in Window /\ ready \in Seq(Frame)
  BY DEF TrackerInv, TrackerTypeOK, Window
<1>2. m \in Nat /\ m >= n /\ ~Holds(window, m) /\ \A k \in n .. (m - 1) : Holds(window, k)
  <2>1. n + kReorderWindow \in Nat
    BY <1>1, WindowAssumption
  <2>2. m \in n .. (n + kReorderWindow) /\ ~Holds(window, m)
        /\ \A k \in n .. (m - 1) : Holds(window, k)
    BY <1>1, FlushEndExists
  <2> QED
    BY <1>1, <2>1, <2>2
<1>3. /\ f.seq = next_expected
      /\ ready' = Append(ready, f) \o flushed
      /\ window' = FlushedWindow(window, n, m)
      /\ next_expected' = m
      /\ recovered' = recovered + (m - n)
      /\ gap_start' = IF GapClosed(m) THEN 0 ELSE gap_start
      /\ gap_end' = IF GapClosed(m) THEN 0 ELSE gap_end
      /\ UNCHANGED <<drops, out_of_order, rebuffered>>
  BY DEF PushExpected
<1> HIDE DEF n, m
<1>4. /\ flushed \in Seq(Frame)
      /\ Len(flushed) = m - n
      /\ \A i \in 1 .. (m - n) : flushed[i].seq = n + i - 1
  BY <1>1, <1>2, FlushedAreFrames
<1>5. /\ window' \in Window
      /\ \A i \in Slots : Occupied(window', i) =>
           window'[i] = window[i] /\ \A k \in n .. (m - 1) : i # SlotOf(k)
  <2> DEFINE w == FlushedWindow(window, n, m)
  <2>1. /\ w \in Window
        /\ \A i \in Slots : Occupied(w, i) =>
             w[i] = window[i] /\ \A k \in n .. (m - 1) : i # SlotOf(k)
    BY <1>1, <1>2, FlushedIsWindow
  <2>2. window' = w
    BY <1>3
  <2> HIDE DEF w
  <2> QED
    BY <2>1, <2>2 DEF Occupied
<1> HIDE DEF flushed
<1>6. TrackerTypeOK'
  <2>1. ready' \in Seq(Frame)
    BY <1>1, <1>3, <1>4
  <2> QED
    BY <1>1, <1>2, <1>3, <1>5, <2>1 DEF TrackerInv, TrackerTypeOK, Window
<1>7. WindowAhead'
  <2> SUFFICES ASSUME NEW i \in Slots, Occupied(window', i)
               PROVE  SlotOf(window'[i].seq) = i /\ window'[i].seq > m
    BY <1>3 DEF WindowAhead
  <2> DEFINE s == window[i].seq
  <2>1. window'[i] = window[i] /\ Occupied(window, i) /\ \A k \in n .. (m - 1) : i # SlotOf(k)
    BY <1>5 DEF Occupied
  <2>2. SlotOf(s) = i /\ s > next_expected /\ Holds(window, s)
    BY <2>1 DEF TrackerInv, WindowAhead, Holds
  <2>3. s \in Nat
    BY <1>1, <2>1, OccupiedIsFrame, FrameSeq
  <2>4. s # m
    BY <1>2, <2>2
  <2>5. s \notin n .. (m - 1)
    BY <2>1, <2>2
  <2> QED
    BY <1>1, <1>2, <2>1, <2>2, <2>3, <2>4, <2>5
<1>8. GapCoversExpected'
  BY <1>1, <1>2, <1>3 DEF TrackerInv, TrackerTypeOK, GapCoversExpected, GapClosed
<1>9. ReadyIsConsecutive'
  <2> DEFINE r == Append(ready, f)
  <2>1. r \in Seq(Frame) /\ Len(r) = Len(ready) + 1 /\ Len(ready) \in Nat
    BY <1>1
  <2>2. \A i \in 1 .. Len(r) : r[i].seq = n - (Len(r) + 1 - i)
    <3> SUFFICES ASSUME NEW i \in 1 .. Len(r) PROVE r[i].seq = n - (Len(r) + 1 - i)
      OBVIOUS
    <3>1. CASE i \in 1 .. Len(ready)
      <4>1. r[i] = ready[i]
        BY <1>1, <3>1
      <4> QED
        BY <1>1, <2>1, <3>1, <4>1 DEF TrackerInv, ReadyIsConsecutive
    <3>2. CASE i = Len(ready) + 1
      <4>1. r[i] = f
        BY <1>1, <3>2
      <4> QED
        BY <1>1, <1>3, <2>1, <3>2, <4>1
    <3> QED
      BY <2>1, <3>1, <3>2
  <2> HIDE DEF r
  <2>3. /\ Len(r \o flushed) = Len(r) + (m - n)
        /\ \A i \in 1 .. Len(r \o flushed) :
             (r \o flushed)[i] = IF i <= Len(r) THEN r[i] ELSE flushed[i - Len(r)]
    <3>1. /\ Len(r \o flushed) = Len(r) + Len(flushed)
          /\ \A i \in 1 .. Len(r) + Len(flushed) :
               (r \o flushed)[i] = IF i <= Len(r) THEN r[i] ELSE flushed[i - Len(r)]
      BY <1>4, <2>1, ConcatProperties, Zenon
    <3> QED
      BY <1>4, <3>1
  <2> SUFFICES ASSUME NEW i \in 1 .. Len(r \o flushed)
               PROVE  (r \o flushed)[i].seq = m - (Len(r \o flushed) + 1 - i)
    BY <1>3 DEF ReadyIsConsecutive, r
  <2>4. CASE i <= Len(r)
    BY <1>1, <1>2, <2>1, <2>2, <2>3, <2>4
  <2>5. CASE i > Len(r)
    <3>1. i - Len(r) \in 1 .. (m - n)
      BY <1>1, <1>2, <2>1, <2>3, <2>5
    <3>2. (r \o flushed)[i].seq = n + (i - Len(r)) - 1
      BY <1>4, <2>1, <2>3, <2>5, <3>1
    <3> QED
      BY <1>1, <1>2, <2>1, <2>3, <2>5, <3>2
  <2> QED
    BY <2>1, <2>4, <2>5
<1> QED
  BY <1>6, <1>7, <1>8, <1>9 DEF TrackerInv

LEMMA PushOldKeepsInv ==
  ASSUME TrackerInv, NEW f \in Frame, PushOld(f), pushes' = pushes + 1
  PROVE  TrackerInv'
BY DEF TrackerInv, PushOld, TrackerTypeOK, WindowAhead, GapCoversExpected,
       ReadyIsConsecutive, gapVars, Occupied

LEMMA PushAheadKeepsInv ==
  ASSUME TrackerInv, NEW f \in Frame, PushAhead(f), pushes' = pushes + 1
  PROVE  TrackerInv'
<1>1. f.seq \in Nat /\ f.seq > next_expected /\ next_expected \in Nat \ {0}
  BY FrameSeq DEF PushAhead, TrackerInv, TrackerTypeOK
<1>2. SlotOf(f.seq) \in Slots /\ f # NoFrame
  BY <1>1, SlotInRange, NoFrameAssumption
<1>3. window' = [window EXCEPT ![SlotOf(f.seq)] = IF Holds(window, f.seq) THEN @ ELSE f]
  BY DEF PushAhead, StoreOoo
<1>4. TrackerTypeOK'
  BY <1>1, <1>2, <1>3 DEF TrackerInv, TrackerTypeOK, PushAhead, StoreOoo, WidenGap
<1>5. WindowAhead'
  <2> SUFFICES ASSUME NEW i \in Slots, Occupied(window', i)
               PROVE  SlotOf(window'[i].seq) = i /\ window'[i].seq > next_expected
    BY DEF WindowAhead, PushAhead
  <2>1. window \in Window
    BY DEF TrackerInv, TrackerTypeOK, Window
  <2>2. CASE window'[i] = window[i]
    BY <2>2 DEF TrackerInv, WindowAhead, Occupied
  <2>3. CASE window'[i] # window[i]
    <3>1. i = SlotOf(f.seq) /\ window'[i] = f
      BY <1>2, <1>3, <2>1, <2>3 DEF Window
    <3> QED
      BY <1>1, <3>1
  <2> QED
    BY <2>2, <2>3
<1>6. GapCoversExpected'
  BY <1>1 DEF TrackerInv, TrackerTypeOK, GapCoversExpected, PushAhead, WidenGap
<1>7. ReadyIsConsecutive'
  BY DEF TrackerInv, ReadyIsConsecutive, PushAhead
<1> QED
  BY <1>4, <1>5, <1>6, <1>7 DEF TrackerInv

\* Every branch of push() preserves the invariant; so do clear_ready() and clear_gap().
LEMMA PushKeepsInv ==
  ASSUME TrackerInv, NEW f \in Frame, Push(f)
  PROVE  TrackerInv'
BY PushExpectedKeepsInv, PushOldKeepsInv, PushAheadKeepsInv DEF Push

LEMMA ClearReadyKeepsInv == ASSUME TrackerInv, ClearReady PROVE TrackerInv'
BY DEF TrackerInv, ClearReady, TrackerTypeOK, WindowAhead, GapCoversExpected,
       ReadyIsConsecutive, gapVars, statVars, historyVars, Occupied

LEMMA ClearGapKeepsInv == ASSUME TrackerInv, ClearGap PROVE TrackerInv'
BY DEF TrackerInv, ClearGap, TrackerTypeOK, WindowAhead, GapCoversExpected,
       ReadyIsConsecutive, statVars, historyVars, Occupied

LEMMA InitSatisfiesInv == ASSUME TrackerInit PROVE TrackerInv
BY WindowAssumption DEF TrackerInit, TrackerInv, TrackerTypeOK, WindowAhead,
   GapCoversExpected, ReadyIsConsecutive, Occupied

(***************************************************************************)
(* The tracker always has its declared types, its window holds only frames *)
(* that are still ahead, a pending gap covers the number it is blocked on  *)
(* and ready() is a run of consecutive numbers that ends just before       *)
(* next_expected: push(), clear_ready() and clear_gap() in any order.      *)
(***************************************************************************)
THEOREM TrackerIsSafe ==
  TrackerSpec => [](TrackerTypeOK /\ WindowAhead /\ GapCoversExpected /\ ReadyIsConsecutive)
<1>1. TrackerInit => TrackerInv
  BY InitSatisfiesInv
<1>2. TrackerInv /\ [TrackerNext]_trackerVars => TrackerInv'
  <2> SUFFICES ASSUME TrackerInv, [TrackerNext]_trackerVars PROVE TrackerInv'
    OBVIOUS
  <2>1. CASE PushAny
    BY <2>1, PushKeepsInv DEF PushAny
  <2>2. CASE ClearReady
    BY <2>2, ClearReadyKeepsInv
  <2>3. CASE ClearGap
    BY <2>3, ClearGapKeepsInv
  <2>4. CASE UNCHANGED trackerVars
    BY <2>4 DEF trackerVars, statVars, gapVars, historyVars, TrackerInv, TrackerTypeOK,
                WindowAhead, GapCoversExpected, ReadyIsConsecutive, Occupied
  <2> QED
    BY <2>1, <2>2, <2>3, <2>4 DEF TrackerNext
<1> QED
  BY <1>1, <1>2, PTL DEF TrackerSpec, TrackerInv

-----------------------------------------------------------------------------
(* Counting the frames. *)

\* The slots in use.
Stored(w) == {i \in Slots : Occupied(w, i)}

LEMMA StoredIsFinite == ASSUME NEW w PROVE IsFiniteSet(Stored(w)) /\ Cardinality(Stored(w)) \in Nat
<1>1. IsFiniteSet(Slots)
  BY WindowAssumption, FS_Interval DEF Slots
<1>2. Stored(w) \in SUBSET Slots
  BY DEF Stored
<1>3. IsFiniteSet(Stored(w))
  BY <1>1, <1>2, FS_Subset
<1> QED
  BY <1>3, FS_CardinalityType

\* A flush frees one slot for each number it delivers: no two of them share one.
LEMMA FlushFreesSlots ==
  ASSUME NEW w \in Window, NEW n \in Nat, NEW m \in n .. (n + kReorderWindow),
         \A k \in n .. (m - 1) : Holds(w, k)
  PROVE  Cardinality(Stored(FlushedWindow(w, n, m))) = Cardinality(Stored(w)) - (m - n)
<1> DEFINE run == n .. (m - 1)
           slot == [k \in run |-> SlotOf(k)]
           freed == {SlotOf(k) : k \in run}
<1>1. kReorderWindow \in Nat \ {0} /\ m \in Nat /\ n <= m /\ m <= n + kReorderWindow
  BY WindowAssumption
<1>2. IsFiniteSet(run) /\ Cardinality(run) = m - n
  <2>1. n \in Int /\ m - 1 \in Int
    BY <1>1
  <2>2. IsFiniteSet(run) /\ Cardinality(run) = IF n > m - 1 THEN 0 ELSE (m - 1) - n + 1
    BY <2>1, FS_Interval
  <2> QED
    BY <1>1, <2>2
<1>3. slot \in Surjection(run, freed)
  BY DEF Surjection
<1>4. slot \in Injection(run, freed)
  <2>1. ASSUME NEW a \in run, NEW b \in run, a < b PROVE SlotOf(a) # SlotOf(b)
    <3>1. a \in Nat /\ b \in Nat /\ b < a + kReorderWindow
      BY <1>1
    <3> QED
      BY <1>1, <2>1, <3>1, ModDistinct DEF SlotOf
  <2>2. \A a, b \in run : slot[a] = slot[b] => a = b
    <3> SUFFICES ASSUME NEW a \in run, NEW b \in run, slot[a] = slot[b], a # b PROVE FALSE
      OBVIOUS
    <3>1. a < b \/ b < a
      BY <1>1
    <3> QED
      BY <2>1, <3>1
  <2> QED
    BY <1>3, <2>2 DEF Injection, IsInjective, Surjection
<1>5. Cardinality(freed) = m - n
  BY <1>2, <1>3, <1>4, FS_Surjection
<1>6. freed \subseteq Stored(w)
  <2> SUFFICES ASSUME NEW k \in run PROVE SlotOf(k) \in Stored(w)
    OBVIOUS
  <2>1. k \in Nat
    BY <1>1
  <2> QED
    BY <2>1, SlotInRange DEF Holds, Stored
<1>7. Stored(FlushedWindow(w, n, m)) = Stored(w) \ freed
  BY DEF Stored, FlushedWindow, Occupied
<1> HIDE DEF run, slot, freed
<1>8. Stored(w) \cap freed = freed
  BY <1>6
<1>9. IsFiniteSet(Stored(w))
  BY StoredIsFinite
<1>10. Cardinality(Stored(w) \ freed) = Cardinality(Stored(w)) - Cardinality(Stored(w) \cap freed)
  BY <1>9, FS_Difference
<1> QED
  BY <1>5, <1>7, <1>8, <1>10

\* A push delivers its frame, counts a drop, finds its number stored, or fills a slot.
LEMMA PushKeepsAccounts ==
  ASSUME TrackerInv, PushesAccounted, NEW f \in Frame, Push(f)
  PROVE  PushesAccounted'
<1>1. /\ next_expected \in Nat \ {0} /\ drops \in Nat /\ rebuffered \in Nat /\ pushes \in Nat
      /\ window \in Window /\ f.seq \in Nat
  BY FrameSeq DEF TrackerInv, TrackerTypeOK, Window
<1>2. /\ pushes' = pushes + 1
      /\ pushes = (next_expected - 1) + drops + rebuffered + Cardinality(Stored(window))
      /\ Cardinality(Stored(window)) \in Nat /\ IsFiniteSet(Stored(window))
  BY StoredIsFinite DEF Push, PushesAccounted, Stored
<1>3. SUFFICES pushes' = (next_expected' - 1) + drops' + rebuffered' + Cardinality(Stored(window'))
  BY DEF PushesAccounted, Stored, Occupied
<1>4. CASE PushExpected(f)
  <2> DEFINE n == next_expected + 1
             m == FlushEnd(window, n)
  <2>1. n \in Nat /\ n = next_expected + 1
    BY <1>1
  <2>2. /\ next_expected' = m /\ window' = FlushedWindow(window, n, m)
        /\ UNCHANGED <<drops, rebuffered>>
    BY <1>4 DEF PushExpected
  <2> HIDE DEF n
  <2>3. m \in n .. (n + kReorderWindow) /\ \A k \in n .. (m - 1) : Holds(window, k)
    BY <1>1, <2>1, FlushEndExists
  <2> HIDE DEF m
  <2>4. Cardinality(Stored(window')) = Cardinality(Stored(window)) - (m - n)
    BY <1>1, <2>1, <2>2, <2>3, FlushFreesSlots
  <2>5. m \in Nat
    BY <2>1, <2>3, WindowAssumption
  <2> QED
    BY <1>1, <1>2, <2>1, <2>2, <2>4, <2>5
<1>5. CASE PushOld(f)
  BY <1>1, <1>2, <1>5 DEF PushOld
<1>6. CASE PushAhead(f)
  <2> DEFINE i == SlotOf(f.seq)
  <2>1. i \in Slots /\ f # NoFrame
    BY <1>1, SlotInRange, NoFrameAssumption
  <2>2. /\ UNCHANGED next_expected
        /\ window' = [window EXCEPT ![i] = IF Holds(window, f.seq) THEN @ ELSE f]
        /\ drops' = IF Occupied(window, i) /\ ~Holds(window, f.seq) THEN drops + 1 ELSE drops
        /\ rebuffered' = IF Holds(window, f.seq) THEN rebuffered + 1 ELSE rebuffered
    BY <1>6 DEF PushAhead, StoreOoo
  <2>3. Holds(window, f.seq) => Occupied(window, i)
    BY DEF Holds
  <2> HIDE DEF i
  <2>4. Stored(window') = Stored(window) \cup {i}
    BY <1>1, <2>1, <2>2, <2>3 DEF Stored, Occupied, Window
  <2>5. i \in Stored(window) <=> Occupied(window, i)
    BY <2>1 DEF Stored
  <2>6. Cardinality(Stored(window')) = Cardinality(Stored(window)) + IF Occupied(window, i) THEN 0 ELSE 1
    BY <1>2, <2>4, <2>5, FS_AddElement
  <2> QED
    BY <1>1, <1>2, <2>2, <2>3, <2>6
<1> QED
  BY <1>4, <1>5, <1>6 DEF Push

LEMMA InitAccounts == ASSUME TrackerInit PROVE PushesAccounted
<1>1. {i \in Slots : Occupied(window, i)} = {}
  BY DEF TrackerInit, Occupied
<1> QED
  BY <1>1, FS_EmptySet DEF TrackerInit, PushesAccounted

\* The other operations move no frame and count nothing.
LEMMA AccountsUnchanged ==
  ASSUME PushesAccounted, UNCHANGED <<next_expected, drops, window, pushes, rebuffered>>
  PROVE  PushesAccounted'
BY DEF PushesAccounted, Occupied

(***************************************************************************)
(* Every call of push() is accounted for, in any order of calls: its frame *)
(* was delivered, is counted in drops, waits in the window, or repeats a   *)
(* number that waits there.                                                *)
(***************************************************************************)
THEOREM TrackerAccountsForPushes == TrackerSpec => []PushesAccounted
<1>1. TrackerInit => PushesAccounted
  BY InitAccounts
<1>2. TrackerInv /\ PushesAccounted /\ [TrackerNext]_trackerVars => PushesAccounted'
  BY PushKeepsAccounts, AccountsUnchanged
     DEF TrackerNext, PushAny, ClearReady, ClearGap, trackerVars, statVars, historyVars
<1>3. TrackerSpec => []TrackerInv
  BY TrackerIsSafe DEF TrackerInv
<1> QED
  BY <1>1, <1>2, <1>3, PTL DEF TrackerSpec

-----------------------------------------------------------------------------
(***************************************************************************)
(* Ordered, gap-free and repetition-free delivery by the receive path.     *)
(*                                                                         *)
(* The argument: every frame that is anywhere in the feed handler or on    *)
(* the TCP connection is the session's frame of its number (BufferInv and  *)
(* LinkInv).                                                               *)
(* ready() is a run of consecutive numbers that ends before next_expected  *)
(* (proved of the tracker), so ready() is a piece of the session; handled  *)
(* is the piece before it (HandledInv).                                    *)
(***************************************************************************)
FromSession(f) == f.seq \in 1 .. Len(Session) /\ f = Session[f.seq]

AllFromSession(q) == \A i \in 1 .. Len(q) : FromSession(q[i])

WindowFromSession == \A i \in Slots : Occupied(window, i) => FromSession(window[i])

BufferInv ==
  /\ WindowFromSession
  /\ AllFromSession(ready)
  /\ next_expected <= Len(Session) + 1

LinkInv == AllFromSession(payload) /\ AllFromSession(conn.frames)

HandledInv ==
  /\ AllFromSession(handled)
  /\ \A i \in 1 .. Len(handled) : handled[i].seq = i
  /\ Len(handled) + Len(ready) + 1 = next_expected

FeedInv == TrackerInv /\ FeedTypeOK /\ BufferInv /\ LinkInv /\ HandledInv

LEMMA SessionLen == Len(Session) \in Nat /\ Session \in Seq(Frame)
BY SessionAssumption

\* A frame of the session is a frame with a number of its own.
LEMMA SessionFrame ==
  ASSUME NEW s \in 1 .. Len(Session)
  PROVE  Session[s] \in Frame /\ Session[s].seq = s /\ FromSession(Session[s])
BY SessionAssumption DEF FromSession

LEMMA FromSessionIsFrame == ASSUME NEW f, FromSession(f) PROVE f \in Frame
BY SessionFrame DEF FromSession

-----------------------------------------------------------------------------
\* What a flush delivers was in the window.
LEMMA FlushedFromSession ==
  ASSUME WindowFromSession, window \in Window, NEW n \in Nat, NEW m \in Nat, m >= n,
         \A k \in n .. (m - 1) : Holds(window, k)
  PROVE  AllFromSession(FlushedFrames(window, n, m)) /\ (m > n => m <= Len(Session) + 1)
<1>1. ASSUME NEW k \in n .. (m - 1)
      PROVE  FromSession(window[SlotOf(k)]) /\ window[SlotOf(k)].seq = k
  <2>1. k \in Nat /\ Holds(window, k)
    OBVIOUS
  <2>2. SlotOf(k) \in Slots
    BY <2>1, SlotInRange
  <2> QED
    BY <2>1, <2>2 DEF WindowFromSession, Holds
<1>2. Len(FlushedFrames(window, n, m)) = m - n
  BY FlushedAreFrames
<1>3. ASSUME NEW i \in 1 .. (m - n) PROVE FromSession(FlushedFrames(window, n, m)[i])
  <2>1. FlushedFrames(window, n, m)[i] = window[SlotOf(n + i - 1)]
    BY DEF FlushedFrames
  <2>2. n + i - 1 \in n .. (m - 1)
    OBVIOUS
  <2> QED
    BY <1>1, <2>1, <2>2
<1>4. m > n => m - 1 \in 1 .. Len(Session)
  <2> SUFFICES ASSUME m > n PROVE m - 1 \in 1 .. Len(Session)
    OBVIOUS
  <2>1. m - 1 \in n .. (m - 1)
    OBVIOUS
  <2> QED
    BY <1>1, <2>1 DEF FromSession
<1> QED
  BY <1>2, <1>3, <1>4, SessionLen DEF AllFromSession

\* push() of a frame of the session keeps everything it stores and delivers in the
\* session, and delivers exactly as many frames as next_expected advances by.
LEMMA PushKeepsBuffers ==
  ASSUME TrackerInv, BufferInv, NEW f, FromSession(f), Push(f)
  PROVE  /\ BufferInv'
         /\ Len(ready') - next_expected' = Len(ready) - next_expected
<1>1. f \in Frame /\ f.seq \in 1 .. Len(Session) /\ Len(Session) \in Nat
  BY FromSessionIsFrame, SessionLen DEF FromSession
<1>2. /\ next_expected \in Nat /\ window \in Window /\ ready \in Seq(Frame)
      /\ Len(ready) \in Nat
  BY DEF TrackerInv, TrackerTypeOK, Window
<1>3. CASE PushExpected(f)
  <2> DEFINE n == next_expected + 1
             m == FlushEnd(window, n)
             flushed == FlushedFrames(window, n, m)
             r == Append(ready, f)
  <2>1. n \in Nat /\ n = next_expected + 1
    BY <1>2
  <2>2. m \in Nat /\ m >= n /\ \A k \in n .. (m - 1) : Holds(window, k)
    <3>1. m \in n .. (n + kReorderWindow) /\ \A k \in n .. (m - 1) : Holds(window, k)
      BY <1>2, <2>1, FlushEndExists
    <3> QED
      BY <2>1, <3>1, WindowAssumption
  <2>3. /\ f.seq = next_expected /\ next_expected' = m
        /\ ready' = r \o flushed
        /\ window' = FlushedWindow(window, n, m)
    BY <1>3 DEF PushExpected
  <2> HIDE DEF n, m
  <2>4. flushed \in Seq(Frame) /\ Len(flushed) = m - n
    BY <1>2, <2>1, <2>2, FlushedAreFrames
  <2>5. AllFromSession(flushed) /\ (m > n => m <= Len(Session) + 1)
    BY <1>2, <2>1, <2>2, FlushedFromSession DEF BufferInv
  <2>6. WindowFromSession'
    <3> DEFINE w == FlushedWindow(window, n, m)
    <3>1. \A i \in Slots : Occupied(w, i) => w[i] = window[i]
      BY <1>2, <2>1, <2>2, FlushedIsWindow
    <3>2. window' = w
      BY <2>3
    <3> HIDE DEF w
    <3>3. \A i \in Slots : Occupied(window', i) => FromSession(window'[i])
      BY <3>1, <3>2 DEF BufferInv, WindowFromSession, Occupied
    <3> QED
      BY <3>3 DEF WindowFromSession, FromSession
  <2> HIDE DEF flushed
  <2>7. r \in Seq(Frame) /\ Len(r) = Len(ready) + 1 /\ AllFromSession(r)
    <3>1. r \in Seq(Frame) /\ Len(r) = Len(ready) + 1
      BY <1>1, <1>2
    <3>2. \A i \in 1 .. Len(r) : r[i] = f \/ (i \in 1 .. Len(ready) /\ r[i] = ready[i])
      BY <1>1, <1>2
    <3> QED
      BY <3>1, <3>2 DEF AllFromSession, BufferInv
  <2> HIDE DEF r
  <2>8. /\ Len(r \o flushed) = Len(r) + Len(flushed)
        /\ \A i \in 1 .. Len(r) + Len(flushed) :
             (r \o flushed)[i] = IF i <= Len(r) THEN r[i] ELSE flushed[i - Len(r)]
    BY <2>4, <2>7, ConcatProperties, Zenon
  <2>9. AllFromSession(ready')
    <3> SUFFICES ASSUME NEW i \in 1 .. Len(r) + Len(flushed)
                 PROVE  FromSession((r \o flushed)[i])
      BY <2>3, <2>8 DEF AllFromSession
    <3>1. CASE i <= Len(r)
      <4>1. i \in 1 .. Len(r)
        BY <1>2, <2>7, <3>1
      <4> QED
        BY <2>7, <2>8, <3>1, <4>1 DEF AllFromSession
    <3>2. CASE ~(i <= Len(r))
      <4>1. i - Len(r) \in 1 .. Len(flushed)
        BY <1>2, <2>1, <2>2, <2>4, <2>7, <3>2
      <4> QED
        BY <2>5, <2>8, <3>2, <4>1 DEF AllFromSession
    <3> QED
      BY <3>1, <3>2
  <2>10. next_expected' <= Len(Session) + 1
    BY <1>1, <1>2, <2>1, <2>2, <2>3, <2>5
  <2>11. Len(ready') - next_expected' = Len(ready) - next_expected
    BY <1>2, <2>1, <2>2, <2>3, <2>4, <2>7, <2>8
  <2> QED
    BY <2>6, <2>9, <2>10, <2>11 DEF BufferInv, AllFromSession, FromSession
<1>4. CASE PushOld(f)
  BY <1>4 DEF PushOld, BufferInv, WindowFromSession, AllFromSession, FromSession, Occupied
<1>5. CASE PushAhead(f)
  <2>1. window' = [window EXCEPT ![SlotOf(f.seq)] = IF Holds(window, f.seq) THEN @ ELSE f]
        /\ UNCHANGED <<ready, next_expected>>
    BY <1>5 DEF PushAhead, StoreOoo
  <2>2. \A i \in Slots : window'[i] = window[i] \/ window'[i] = f
    BY <1>2, <2>1 DEF Window
  <2>3. \A i \in Slots : Occupied(window', i) => FromSession(window'[i])
    BY <2>2 DEF BufferInv, WindowFromSession, Occupied
  <2> QED
    BY <2>1, <2>3 DEF BufferInv, WindowFromSession, AllFromSession, FromSession
<1> QED
  BY <1>3, <1>4, <1>5 DEF Push

\* A push by the feed thread keeps every part of the invariant that the tracker's
\* state occurs in.
LEMMA PushKeepsDelivery ==
  ASSUME FeedInv, NEW f, FromSession(f), Push(f), UNCHANGED handled
  PROVE  TrackerInv' /\ BufferInv' /\ HandledInv'
<1>1. f \in Frame
  BY FromSessionIsFrame
<1>2. TrackerInv'
  BY <1>1, PushKeepsInv DEF FeedInv
<1>3. BufferInv' /\ Len(ready') - next_expected' = Len(ready) - next_expected
  BY PushKeepsBuffers DEF FeedInv
<1>4. /\ Len(ready) \in Nat /\ Len(ready') \in Nat /\ Len(handled) \in Nat
      /\ next_expected \in Nat /\ next_expected' \in Nat
  <2>1. ready \in Seq(Frame) /\ next_expected \in Nat /\ handled \in Seq(Frame)
    BY DEF FeedInv, FeedTypeOK, TrackerInv, TrackerTypeOK
  <2>2. ready' \in Seq(Frame) /\ next_expected' \in Nat
    BY <1>2 DEF TrackerInv, TrackerTypeOK
  <2> QED
    BY <2>1, <2>2, LenProperties
<1>5. HandledInv'
  <2>1. /\ Len(handled) + Len(ready) + 1 = next_expected
        /\ AllFromSession(handled) /\ \A i \in 1 .. Len(handled) : handled[i].seq = i
    BY DEF FeedInv, HandledInv
  <2>2. Len(handled') + Len(ready') + 1 = next_expected'
    BY <1>3, <1>4, <2>1
  <2> QED
    BY <2>1, <2>2 DEF HandledInv, AllFromSession, FromSession
<1> QED
  BY <1>2, <1>3, <1>5

\* ready() is the piece of the session that follows handled.
LEMMA ReadyFollowsHandled ==
  ASSUME FeedInv
  PROVE  /\ \A i \in 1 .. Len(ready) : ready[i].seq = Len(handled) + i
         /\ AllFromSession(handled \o ready)
         /\ \A i \in 1 .. Len(handled \o ready) : (handled \o ready)[i].seq = i
         /\ Len(handled \o ready) = next_expected - 1
         /\ handled \o ready \in Seq(Frame)
<1>1. /\ handled \in Seq(Frame) /\ ready \in Seq(Frame)
      /\ Len(handled) \in Nat /\ Len(ready) \in Nat /\ next_expected \in Nat
  BY DEF FeedInv, FeedTypeOK, TrackerInv, TrackerTypeOK
<1>2. \A i \in 1 .. Len(ready) : ready[i].seq = Len(handled) + i
  <2>1. Len(handled) + Len(ready) + 1 = next_expected
    BY DEF FeedInv, HandledInv
  <2>2. \A i \in 1 .. Len(ready) : ready[i].seq = next_expected - (Len(ready) + 1 - i)
    BY DEF FeedInv, TrackerInv, ReadyIsConsecutive
  <2>3. \A i \in 1 .. Len(ready) : next_expected - (Len(ready) + 1 - i) = Len(handled) + i
    BY <1>1, <2>1
  <2> QED
    BY <2>2, <2>3
<1>3. /\ handled \o ready \in Seq(Frame)
      /\ Len(handled \o ready) = Len(handled) + Len(ready)
      /\ \A i \in 1 .. Len(handled) + Len(ready) : (handled \o ready)[i] =
           IF i <= Len(handled) THEN handled[i] ELSE ready[i - Len(handled)]
  BY <1>1, ConcatProperties, Zenon
<1>4. ASSUME NEW i \in 1 .. Len(handled \o ready)
      PROVE  FromSession((handled \o ready)[i]) /\ (handled \o ready)[i].seq = i
  <2>1. CASE i <= Len(handled)
    <3>1. i \in 1 .. Len(handled)
      BY <1>1, <1>3, <2>1
    <3> QED
      BY <1>3, <2>1, <3>1 DEF FeedInv, HandledInv, AllFromSession
  <2>2. CASE ~(i <= Len(handled))
    <3>1. i - Len(handled) \in 1 .. Len(ready)
      BY <1>1, <1>3, <2>2
    <3>2. (handled \o ready)[i] = ready[i - Len(handled)]
      BY <1>3, <2>2
    <3>3. FromSession(ready[i - Len(handled)])
      BY <3>1 DEF FeedInv, BufferInv, AllFromSession
    <3>4. ready[i - Len(handled)].seq = Len(handled) + (i - Len(handled))
      BY <1>2, <3>1
    <3> QED
      BY <1>1, <1>3, <3>2, <3>3, <3>4
  <2> QED
    BY <2>1, <2>2
<1>5. Len(handled \o ready) = next_expected - 1
  BY <1>1, <1>3 DEF FeedInv, HandledInv
<1> QED
  BY <1>2, <1>3, <1>4, <1>5 DEF AllFromSession

\* A run of session frames numbered 1, 2, ... is a prefix of the session.
LEMMA NumberedIsPrefix ==
  ASSUME NEW q \in Seq(Frame), AllFromSession(q), \A i \in 1 .. Len(q) : q[i].seq = i
  PROVE  q = SubSeq(Session, 1, Len(q)) /\ Len(q) <= Len(Session)
<1>1. Len(q) \in Nat /\ Len(Session) \in Nat
  BY SessionLen
<1>2. \A i \in 1 .. Len(q) : i \in 1 .. Len(Session) /\ q[i] = Session[i]
  BY DEF AllFromSession, FromSession
<1>3. Len(q) <= Len(Session)
  <2>1. CASE Len(q) = 0
    BY <1>1, <2>1
  <2>2. CASE Len(q) > 0
    BY <1>1, <1>2, <2>2
  <2> QED
    BY <1>1, <2>1, <2>2
<1>4. \A i \in 1 .. Len(q) : Session[i] \in Frame
  BY <1>2, SessionFrame
<1> DEFINE p == SubSeq(Session, 1, Len(q))
<1>5. p \in Seq(Frame) /\ Len(p) = Len(q) /\ \A i \in 1 .. Len(q) : p[i] = Session[i]
  <2>1. /\ p \in Seq(Frame)
        /\ Len(p) = IF 1 <= Len(q) THEN Len(q) - 1 + 1 ELSE 0
        /\ \A i \in 1 .. (Len(q) - 1 + 1) : p[i] = Session[1 + i - 1]
    BY <1>1, <1>4, SubSeqProperties
  <2> QED
    BY <1>1, <2>1
<1> HIDE DEF p
<1>6. q = p
  BY <1>2, <1>5, SeqEqual
<1> QED
  BY <1>3, <1>6 DEF p

LEMMA InvImpliesDelivered == ASSUME FeedInv PROVE DeliveredInOrder
BY ReadyFollowsHandled, NumberedIsPrefix DEF DeliveredInOrder

-----------------------------------------------------------------------------
(* Each action preserves FeedInv. *)

\* Steps that touch neither the tracker nor handled keep what is said about them.
LEMMA DeliveryUnchanged ==
  ASSUME FeedInv, UNCHANGED trackerVars, UNCHANGED handled
  PROVE  TrackerInv' /\ BufferInv' /\ HandledInv'
BY DEF FeedInv, TrackerInv, BufferInv, HandledInv, trackerVars, statVars, gapVars,
       historyVars, TrackerTypeOK, WindowAhead, GapCoversExpected, ReadyIsConsecutive,
       WindowFromSession, AllFromSession, FromSession, Occupied

LEMMA LinkUnchanged ==
  ASSUME FeedInv, UNCHANGED <<payload, conn>>
  PROVE  LinkInv'
BY DEF FeedInv, LinkInv, AllFromSession, FromSession

LEMMA ReceiveKeepsInv ==
  ASSUME FeedInv, NEW s \in 1 .. Len(Session), Receive(s)
  PROVE  FeedInv'
<1>1. TrackerInv' /\ BufferInv' /\ HandledInv'
  BY SessionFrame, PushKeepsDelivery DEF Receive
<1>2. LinkInv'
  BY LinkUnchanged DEF Receive
<1>3. FeedTypeOK'
  BY SessionLen DEF Receive, FeedInv, FeedTypeOK
<1> QED
  BY <1>1, <1>2, <1>3 DEF FeedInv

LEMMA DrainKeepsInv ==
  ASSUME FeedInv, Drain
  PROVE  FeedInv'
<1>1. /\ AllFromSession(handled \o ready)
      /\ \A i \in 1 .. Len(handled \o ready) : (handled \o ready)[i].seq = i
      /\ Len(handled \o ready) = next_expected - 1
      /\ handled \o ready \in Seq(Frame)
  BY ReadyFollowsHandled
<1>2. handled' = handled \o ready /\ ready' = <<>> /\ UNCHANGED <<next_expected, window>>
  BY DEF Drain, ClearReady
<1>3. TrackerInv'
  BY ClearReadyKeepsInv DEF Drain, FeedInv
<1>4. BufferInv'
  BY <1>2 DEF FeedInv, BufferInv, WindowFromSession, AllFromSession, FromSession, Occupied
<1>5. HandledInv'
  <2>1. next_expected \in Nat
    BY DEF FeedInv, TrackerInv, TrackerTypeOK
  <2> QED
    BY <1>1, <1>2, <2>1 DEF HandledInv, AllFromSession, FromSession
<1>6. LinkInv'
  BY LinkUnchanged DEF Drain
<1>7. FeedTypeOK'
  BY <1>1 DEF Drain, FeedInv, FeedTypeOK
<1> QED
  BY <1>3, <1>4, <1>5, <1>6, <1>7 DEF FeedInv

LEMMA ReplayKeepsInv ==
  ASSUME FeedInv, Replay
  PROVE  FeedInv'
<1>1. /\ payload \in Seq(Frame) /\ payload # <<>>
      /\ AllFromSession(payload)
  BY DEF Replay, FeedInv, FeedTypeOK, LinkInv
<1>2. FromSession(Head(payload))
  <2>1. 1 \in 1 .. Len(payload) /\ Head(payload) = payload[1]
    BY <1>1
  <2> QED
    BY <1>1, <2>1 DEF AllFromSession
<1>3. TrackerInv' /\ BufferInv' /\ HandledInv'
  BY <1>2, PushKeepsDelivery DEF Replay
<1>4. LinkInv'
  <2>1. /\ Len(Tail(payload)) = Len(payload) - 1
        /\ \A i \in 1 .. Len(Tail(payload)) : Tail(payload)[i] = payload[i + 1]
    BY <1>1, HeadTailProperties
  <2>2. AllFromSession(Tail(payload))
    <3> SUFFICES ASSUME NEW i \in 1 .. Len(Tail(payload))
                 PROVE  FromSession(Tail(payload)[i])
      BY DEF AllFromSession
    <3>1. Len(payload) \in Nat
      BY <1>1
    <3>2. i + 1 \in 1 .. Len(payload)
      BY <2>1, <3>1
    <3> QED
      BY <1>1, <2>1, <3>2 DEF AllFromSession
  <2> QED
    BY <2>2 DEF Replay, FeedInv, LinkInv, AllFromSession, FromSession
<1>5. FeedTypeOK'
  BY <1>1 DEF Replay, FeedInv, FeedTypeOK
<1> QED
  BY <1>3, <1>4, <1>5 DEF FeedInv

LEMMA ReceivePayloadKeepsInv ==
  ASSUME FeedInv, ReceivePayload
  PROVE  FeedInv'
<1>1. TrackerInv' /\ BufferInv' /\ HandledInv'
  BY DeliveryUnchanged DEF ReceivePayload
<1>2. conn.frames \in Seq(Frame) /\ AllFromSession(conn.frames) /\ Len(conn.frames) \in Nat
  BY DEF FeedInv, FeedTypeOK, LinkInv
<1>3. PICK k \in 0 .. Len(conn.frames) :
        /\ payload' = SubSeq(conn.frames, 1, k)
        /\ outcome' = IF k = Len(conn.frames) THEN "complete" ELSE "partial"
  BY <1>2 DEF ReceivePayload
<1>4. /\ payload' \in Seq(Frame) /\ Len(payload') = k
      /\ \A i \in 1 .. k : payload'[i] = conn.frames[i]
  <2>1. \A i \in 1 .. k : conn.frames[i] \in Frame
    BY <1>2
  <2>2. /\ payload' \in Seq(Frame)
        /\ Len(payload') = IF 1 <= k THEN k - 1 + 1 ELSE 0
        /\ \A i \in 1 .. (k - 1 + 1) : payload'[i] = conn.frames[1 + i - 1]
    BY <1>3, <2>1, SubSeqProperties
  <2> QED
    BY <1>2, <2>2
<1>5. conn' = NoConn /\ conn'.frames = <<>>
  BY DEF ReceivePayload, NoConn, Conn
<1>6. LinkInv'
  <2>1. \A i \in 1 .. k : FromSession(conn.frames[i])
    BY <1>2 DEF AllFromSession
  <2> QED
    BY <1>4, <1>5, <2>1 DEF LinkInv, AllFromSession, FromSession
<1>7. FeedTypeOK'
  BY <1>3, <1>4, <1>5 DEF ReceivePayload, FeedInv, FeedTypeOK, NoConn, Conn
<1> QED
  BY <1>1, <1>6, <1>7 DEF FeedInv

\* The server only sends frames of the session: numbers outside it are skipped.
LEMMA GapPayloadFromSession ==
  ASSUME NEW start \in Nat, NEW end \in Nat
  PROVE  GapPayload(start, end) \in Seq(Frame) /\ AllFromSession(GapPayload(start, end))
<1> DEFINE a == IF start = 0 THEN 1 ELSE start
           b == IF end > Len(Session) THEN Len(Session) ELSE end
<1>1. a \in Nat /\ a >= 1 /\ b \in Nat /\ b <= Len(Session)
  BY SessionLen
<1>2. GapPayload(start, end) = SubSeq(Session, a, b)
  BY DEF GapPayload
<1> HIDE DEF a, b
<1>3. \A i \in a .. b : i \in 1 .. Len(Session)
  BY <1>1, SessionLen
<1>4. \A i \in a .. b : Session[i] \in Frame
  BY <1>3, SessionFrame
<1>5. /\ SubSeq(Session, a, b) \in Seq(Frame)
      /\ Len(SubSeq(Session, a, b)) = IF a <= b THEN b - a + 1 ELSE 0
      /\ \A i \in 1 .. (b - a + 1) : SubSeq(Session, a, b)[i] = Session[a + i - 1]
  BY <1>1, <1>4, SubSeqProperties
<1>6. ASSUME NEW i \in 1 .. Len(SubSeq(Session, a, b))
      PROVE  FromSession(SubSeq(Session, a, b)[i])
  <2>1. i \in 1 .. (b - a + 1)
    BY <1>1, <1>5
  <2>2. a + i - 1 \in 1 .. Len(Session)
    BY <1>1, <1>3, <2>1
  <2> QED
    BY <1>5, <2>1, <2>2, SessionFrame
<1> QED
  BY <1>2, <1>5, <1>6 DEF AllFromSession

LEMMA ServeKeepsInv ==
  ASSUME FeedInv, Serve
  PROVE  FeedInv'
<1>1. TrackerInv' /\ BufferInv' /\ HandledInv'
  BY DeliveryUnchanged DEF Serve
<1>2. conn.start \in Nat /\ conn.end \in Nat
  BY DEF FeedInv, FeedTypeOK
<1>3. /\ conn'.frames = GapPayload(conn.start, conn.end)
      /\ conn'.frames \in Seq(Frame) /\ AllFromSession(conn'.frames)
  BY <1>2, GapPayloadFromSession DEF Serve, Conn
<1>4. LinkInv'
  BY <1>3 DEF Serve, FeedInv, LinkInv, AllFromSession, FromSession
<1>5. FeedTypeOK'
  BY <1>2, <1>3 DEF Serve, Conn, FeedInv, FeedTypeOK
<1> QED
  BY <1>1, <1>4, <1>5 DEF FeedInv

\* The remaining steps of try_recover(), of run() and of the server.
LEMMA LinkStepKeepsInv ==
  ASSUME FeedInv, LeaveLoop \/ Connect \/ ConnectFails \/ ResponseFails \/ LinkBreaks \/ StopServer
  PROVE  FeedInv'
<1>1. TrackerInv' /\ BufferInv' /\ HandledInv'
  BY DeliveryUnchanged DEF LeaveLoop, Connect, ConnectFails, ResponseFails, LinkBreaks, StopServer
<1>2. gap_start \in Nat /\ gap_end \in Nat
  BY DEF FeedInv, TrackerInv, TrackerTypeOK
<1>3. payload' = payload /\ (conn' = conn \/ conn'.frames = <<>>)
  BY DEF LeaveLoop, Connect, ConnectFails, ResponseFails, LinkBreaks, StopServer, NoConn, Conn
<1>4. LinkInv'
  BY <1>3 DEF FeedInv, LinkInv, AllFromSession, FromSession
<1>5. FeedTypeOK'
  <2>1. CASE LeaveLoop
    BY <2>1 DEF LeaveLoop, FeedInv, FeedTypeOK
  <2>2. CASE Connect
    BY <1>2, <2>2 DEF Connect, Conn, FeedInv, FeedTypeOK
  <2>3. CASE ConnectFails
    BY <2>3 DEF ConnectFails, FeedInv, FeedTypeOK
  <2>4. CASE ResponseFails
    BY <2>4 DEF ResponseFails, NoConn, Conn, FeedInv, FeedTypeOK
  <2>5. CASE StopServer
    BY <2>5 DEF StopServer, Conn, FeedInv, FeedTypeOK
  <2>6. CASE LinkBreaks
    BY <2>6 DEF LinkBreaks, Conn, FeedInv, FeedTypeOK
  <2> QED
    BY <2>1, <2>2, <2>3, <2>4, <2>5, <2>6
<1> QED
  BY <1>1, <1>4, <1>5 DEF FeedInv

LEMMA FinishKeepsInv ==
  ASSUME FeedInv, FinishRecovery
  PROVE  FeedInv'
<1>1. TrackerInv'
  BY ClearGapKeepsInv DEF FinishRecovery, FeedInv
<1>2. UNCHANGED <<next_expected, window, ready, handled, payload, conn>>
  BY DEF FinishRecovery, ClearGap
<1>3. BufferInv' /\ HandledInv' /\ LinkInv'
  BY <1>2 DEF FeedInv, BufferInv, HandledInv, LinkInv, WindowFromSession, AllFromSession,
              FromSession, Occupied
<1>4. FeedTypeOK'
  BY <1>2 DEF FinishRecovery, FeedInv, FeedTypeOK
<1> QED
  BY <1>1, <1>3, <1>4 DEF FeedInv

LEMMA FeedInitSatisfiesInv ==
  ASSUME FeedInit, server \in {"up", "down"}
  PROVE  FeedInv
<1>1. TrackerInv
  BY InitSatisfiesInv DEF FeedInit
<1>2. FeedTypeOK
  BY SessionLen DEF FeedInit, NoConn, Conn, FeedTypeOK
<1>3. BufferInv /\ LinkInv /\ HandledInv
  BY SessionLen DEF FeedInit, TrackerInit, NoConn, Conn, BufferInv, LinkInv, HandledInv,
     WindowFromSession, AllFromSession, Occupied
<1> QED
  BY <1>1, <1>2, <1>3 DEF FeedInv

LEMMA NextKeepsFeedInv == ASSUME FeedInv, [Next]_vars PROVE FeedInv'
<1>1. CASE \E s \in 1 .. Len(Session) : Receive(s)
  BY <1>1, ReceiveKeepsInv
<1>2. CASE Drain
  BY <1>2, DrainKeepsInv
<1>3. CASE ReceivePayload
  BY <1>3, ReceivePayloadKeepsInv
<1>4. CASE Replay
  BY <1>4, ReplayKeepsInv
<1>5. CASE FinishRecovery
  BY <1>5, FinishKeepsInv
<1>6. CASE Serve
  BY <1>6, ServeKeepsInv
<1>7. CASE LeaveLoop \/ Connect \/ ConnectFails \/ ResponseFails \/ LinkBreaks \/ ServerStops
  BY <1>7, LinkStepKeepsInv DEF ServerStops
<1>8. CASE UNCHANGED vars
  <2>1. UNCHANGED trackerVars /\ UNCHANGED feedVars
    BY <1>8 DEF vars
  <2>2. TrackerInv' /\ BufferInv' /\ HandledInv' /\ LinkInv'
    BY <2>1, DeliveryUnchanged, LinkUnchanged DEF feedVars
  <2>3. FeedTypeOK'
    BY <2>1 DEF feedVars, FeedInv, FeedTypeOK
  <2> QED
    BY <2>2, <2>3 DEF FeedInv
<1> QED
  BY <1>1, <1>2, <1>3, <1>4, <1>5, <1>6, <1>7, <1>8 DEF Next, FeedStep, Terminated

(***************************************************************************)
(* What handle_parsed() has seen, followed by what process_datagram() is   *)
(* about to give it, is always the session up to next_expected.            *)
(***************************************************************************)
THEOREM DeliveryIsOrdered == Spec => []DeliveredInOrder
<1>1. Init => FeedInv
  BY FeedInitSatisfiesInv DEF Init
<1>2. FeedInv /\ [Next]_vars => FeedInv'
  BY NextKeepsFeedInv
<1>3. FeedInv => DeliveredInOrder
  BY InvImpliesDelivered
<1> QED
  BY <1>1, <1>2, <1>3, PTL DEF Spec

-----------------------------------------------------------------------------
(***************************************************************************)
(* The receive path implements OrderedDelivery: draining ready() is a      *)
(* Deliver step, or a stuttering step when ready() is empty, and no other  *)
(* step touches handled.                                                   *)
(***************************************************************************)
THEOREM FeedImplementsOrderedDelivery == Spec => ImplementsOrderedDelivery
<1>1. Init => Ordered!Init
  BY DEF Init, FeedInit, Ordered!Init
<1>2. FeedInv /\ [Next]_vars => [Ordered!Deliver]_handled
  <2> SUFFICES ASSUME FeedInv, [Next]_vars, handled' # handled PROVE Ordered!Deliver
    OBVIOUS
  <2>1. Drain
    BY DEF Next, FeedStep, Terminated, vars, feedVars, Receive, LeaveLoop, Connect,
           ConnectFails, ResponseFails, ReceivePayload, Replay, FinishRecovery, Serve,
           LinkBreaks, ServerStops, StopServer
  <2>2. handled' = handled \o ready
    BY <2>1 DEF Drain
  <2>3. /\ handled' = SubSeq(Session, 1, Len(handled'))
        /\ Len(handled') <= Len(Session)
        /\ Len(handled') = next_expected - 1
    BY <2>2, ReadyFollowsHandled, NumberedIsPrefix
  <2>4. /\ handled \in Seq(Frame) /\ ready \in Seq(Frame) /\ next_expected \in Nat
        /\ Len(handled) \in Nat /\ Len(ready) \in Nat
        /\ Len(handled) + Len(ready) + 1 = next_expected
    BY DEF FeedInv, FeedTypeOK, TrackerInv, TrackerTypeOK, HandledInv
  <2>5. Len(ready) # 0
    <3>1. ready # <<>>
      BY <2>2, <2>4, ConcatEmptySeq
    <3> QED
      BY <2>4, <3>1
  <2>6. Len(handled') \in (Len(handled) + 1) .. Len(Session)
    BY <2>3, <2>4, <2>5, SessionLen
  <2> QED
    BY <2>3, <2>6 DEF Ordered!Deliver
<1>3. Init => FeedInv
  BY FeedInitSatisfiesInv DEF Init
<1>4. FeedInv /\ [Next]_vars => FeedInv'
  BY NextKeepsFeedInv
<1> QED
  BY <1>1, <1>2, <1>3, <1>4, PTL DEF Spec, ImplementsOrderedDelivery, Ordered!Spec

-----------------------------------------------------------------------------
(***************************************************************************)
(* What a recovery achieves.  While a gap is pending, the datagram that    *)
(* is being processed is either delivered already or waits in the window,  *)
(* and the gap reaches up to it; the request asks for exactly that gap and *)
(* the answer is that piece of the session.  What is left of the payload   *)
(* always starts at or below next_expected, so replaying it only delivers  *)
(* or drops, and when the whole payload came, it reaches up to the         *)
(* datagram that waits.                                                    *)
(***************************************************************************)
Covered(b) == next_expected > last \/ (Holds(window, last) /\ last <= b)

Remaining(j, e) ==
  /\ e = j + Len(payload) /\ e <= Len(Session) + 1
  /\ \A i \in 1 .. Len(payload) : payload[i] = Session[j + i - 1]
  /\ outcome = "complete" => Covered(e)

RecoveryInv ==
  /\ gap_end <= Len(Session)
  /\ pc \in {"recover", "await"} => gap_start # 0 /\ outcome = "none" /\ Covered(gap_end + 1)
  /\ pc # "await" => conn.state = "none"
  /\ conn.state \in {"requested", "answered"} => conn.start = gap_start /\ conn.end = gap_end
  /\ conn.state = "answered" => conn.frames = SubSeq(Session, gap_start, gap_end)
  /\ pc = "replay" => outcome # "none" /\ \E j \in 1 .. next_expected, e \in Nat : Remaining(j, e)
  /\ pc \in {"select", "drain"} /\ outcome \in {"none", "complete"} => next_expected > last

\* A push of a frame that is not ahead changes nothing about a waiting datagram,
\* except that it may deliver it.
LEMMA PushKeepsCovered ==
  ASSUME TrackerInv, NEW f \in Frame, Push(f), f.seq <= next_expected, NEW b \in Nat,
         last \in Nat, Covered(b), UNCHANGED last
  PROVE  /\ Covered(b)'
         /\ next_expected' >= next_expected
         /\ f.seq = next_expected => next_expected' > next_expected
<1>1. /\ next_expected \in Nat /\ window \in Window /\ f.seq \in Nat
      /\ kReorderWindow \in Nat
  BY FrameSeq, WindowAssumption DEF TrackerInv, TrackerTypeOK, Window
<1>2. CASE PushExpected(f)
  <2> DEFINE n == next_expected + 1
             m == FlushEnd(window, n)
  <2>1. next_expected' = m /\ window' = FlushedWindow(window, n, m)
    BY <1>2 DEF PushExpected
  <2>2. n \in Nat /\ n = next_expected + 1
    BY <1>1
  <2>3. m \in n .. (n + kReorderWindow) /\ \A k \in n .. (m - 1) : Holds(window, k)
    BY <1>1, <2>2, FlushEndExists
  <2> HIDE DEF m, n
  <2>4. m \in Nat /\ m > next_expected
    BY <1>1, <2>2, <2>3
  <2>5. CASE last < m
    BY <1>1, <2>1, <2>4, <2>5 DEF Covered
  <2>6. CASE last >= m
    <3>1. Holds(window, last) /\ last <= b
      BY <1>1, <2>2, <2>4, <2>6 DEF Covered
    <3>2. SlotOf(last) \in Slots
      BY SlotInRange
    <3>3. \A k \in n .. (m - 1) : SlotOf(k) # SlotOf(last)
      <4> SUFFICES ASSUME NEW k \in n .. (m - 1), SlotOf(k) = SlotOf(last) PROVE FALSE
        OBVIOUS
      <4>1. Holds(window, k) /\ k \in Nat /\ k < m
        BY <2>2, <2>3, <2>4
      <4>2. k = last
        BY <3>1, <4>1 DEF Holds
      <4> QED
        BY <2>4, <2>6, <4>1, <4>2
    <3>4. window'[SlotOf(last)] = window[SlotOf(last)]
      BY <2>1, <3>2, <3>3 DEF FlushedWindow
    <3> QED
      BY <1>1, <2>1, <2>4, <3>1, <3>4 DEF Covered, Holds, Occupied
  <2> QED
    BY <2>4, <2>5, <2>6
<1>3. CASE PushOld(f)
  BY <1>1, <1>3 DEF PushOld, Covered, Holds, Occupied
<1>4. ~PushAhead(f)
  BY <1>1 DEF PushAhead
<1> QED
  BY <1>2, <1>3, <1>4 DEF Push

\* After push(Session[s]) the datagram is delivered, or it waits in the window and
\* the pending gap reaches up to it.
LEMMA ReceiveCovers ==
  ASSUME FeedInv, RecoveryInv, NEW s \in 1 .. Len(Session), Receive(s)
  PROVE  /\ gap_end' <= Len(Session)
         /\ gap_start' = 0 => next_expected' > s
         /\ Covered(gap_end + 1)'
<1> DEFINE f == Session[s]
<1>1. f \in Frame /\ f.seq = s /\ s \in Nat /\ Len(Session) \in Nat
  BY SessionFrame, SessionLen
<1>2. /\ next_expected \in Nat \ {0} /\ window \in Window
      /\ gap_start \in Nat /\ gap_end \in Nat /\ kReorderWindow \in Nat
  BY WindowAssumption DEF FeedInv, TrackerInv, TrackerTypeOK, Window
<1>3. Push(f) /\ last' = s /\ gap_end <= Len(Session)
  BY DEF Receive, RecoveryInv
<1> HIDE DEF f
<1>4. CASE PushExpected(f)
  <2> DEFINE n == next_expected + 1
             m == FlushEnd(window, n)
  <2>1. n \in Nat /\ n = next_expected + 1
    BY <1>2
  <2>2. next_expected' = m /\ f.seq = next_expected
        /\ (gap_end' = gap_end \/ gap_end' = 0)
    BY <1>4 DEF PushExpected
  <2> HIDE DEF n
  <2>4. m \in n .. (n + kReorderWindow)
    BY <1>2, <2>1, FlushEndExists
  <2> HIDE DEF m
  <2>3. next_expected' > s
    BY <1>1, <1>2, <2>1, <2>2, <2>4
  <2> QED
    BY <1>1, <1>2, <1>3, <2>2, <2>3 DEF Covered
<1>5. CASE PushOld(f)
  BY <1>1, <1>2, <1>3, <1>5 DEF PushOld, gapVars, Covered
<1>6. CASE PushAhead(f)
  <2>1. f.seq > next_expected /\ UNCHANGED next_expected
        /\ window' = [window EXCEPT ![SlotOf(s)] = IF Holds(window, s) THEN @ ELSE f]
    BY <1>1, <1>6 DEF PushAhead, StoreOoo
  <2>2. SlotOf(s) \in Slots
    BY <1>1, SlotInRange
  <2>3. window'[SlotOf(s)] = IF Holds(window, s) THEN window[SlotOf(s)] ELSE f
    BY <1>2, <2>1, <2>2 DEF Window
  <2>4. Holds(window', s)
    BY <1>1, <2>3, NoFrameAssumption DEF Holds, Occupied
  <2>5. gap_start' # 0 /\ gap_end' >= s - 1 /\ gap_end' <= Len(Session)
    BY <1>1, <1>2, <1>3, <1>6 DEF PushAhead, WidenGap
  <2>6. gap_end' \in Nat
    BY <1>1, <1>2, <1>6 DEF PushAhead, WidenGap
  <2>7. s <= gap_end' + 1
    <3>1. s \in Int
      BY <1>1
    <3>2. gap_end' >= s - 1 /\ gap_end' \in Int
      BY <2>5, <2>6
    <3>3. \A x, y \in Int : y >= x - 1 => x <= y + 1
      OBVIOUS
    <3> QED
      BY <3>1, <3>2, <3>3, Zenon
  <2>8. Covered(gap_end + 1)'
    <3>1. Holds(window, last)'
      BY <1>3, <2>4 DEF Holds, Occupied
    <3> QED
      BY <1>3, <2>7, <3>1 DEF Covered
  <2> QED
    BY <2>5, <2>8
<1> QED
  BY <1>3, <1>4, <1>5, <1>6 DEF Push

LEMMA ReceiveKeepsRecovery ==
  ASSUME FeedInv, RecoveryInv, NEW s \in 1 .. Len(Session), Receive(s)
  PROVE  RecoveryInv'
<1>1. /\ gap_end' <= Len(Session) /\ Covered(gap_end + 1)'
      /\ gap_start' = 0 => next_expected' > s
  BY ReceiveCovers
<1>2. /\ pc' = IF gap_start' # 0 THEN "recover" ELSE "drain"
      /\ last' = s /\ outcome' = "none" /\ conn' = conn /\ conn.state = "none"
  BY DEF Receive, RecoveryInv
<1> QED
  BY <1>1, <1>2 DEF RecoveryInv

LEMMA DrainKeepsRecovery ==
  ASSUME FeedInv, RecoveryInv, Drain
  PROVE  RecoveryInv'
BY DEF Drain, ClearReady, gapVars, RecoveryInv

LEMMA ReceivePayloadKeepsRecovery ==
  ASSUME FeedInv, RecoveryInv, ReceivePayload
  PROVE  RecoveryInv'
<1>1. /\ next_expected \in Nat \ {0} /\ gap_start \in Nat \ {0} /\ gap_end \in Nat
      /\ gap_start <= next_expected /\ next_expected <= gap_end /\ gap_end <= Len(Session)
      /\ Len(Session) \in Nat
  BY SessionLen DEF ReceivePayload, RecoveryInv, FeedInv, TrackerInv, TrackerTypeOK,
                    GapCoversExpected
<1>2. conn.frames = SubSeq(Session, gap_start, gap_end) /\ Covered(gap_end + 1)
  BY DEF ReceivePayload, RecoveryInv
<1>3. /\ Len(conn.frames) = gap_end - gap_start + 1
      /\ conn.frames \in Seq(Frame)
      /\ \A i \in 1 .. (gap_end - gap_start + 1) : conn.frames[i] = Session[gap_start + i - 1]
  <2>1. \A i \in gap_start .. gap_end : i \in 1 .. Len(Session)
    BY <1>1
  <2>2. \A i \in gap_start .. gap_end : Session[i] \in Frame
    BY <2>1, SessionFrame
  <2>3. /\ conn.frames \in Seq(Frame)
        /\ Len(conn.frames) = IF gap_start <= gap_end THEN gap_end - gap_start + 1 ELSE 0
        /\ \A i \in 1 .. (gap_end - gap_start + 1) : conn.frames[i] = Session[gap_start + i - 1]
    BY <1>1, <1>2, <2>2, SubSeqProperties
  <2> QED
    BY <1>1, <2>3
<1>4. PICK k \in 0 .. Len(conn.frames) :
        /\ payload' = SubSeq(conn.frames, 1, k)
        /\ outcome' = IF k = Len(conn.frames) THEN "complete" ELSE "partial"
  <2>1. Len(conn.frames) \in Nat
    BY <1>3
  <2> QED
    BY <2>1 DEF ReceivePayload
<1>5. Len(payload') = k /\ \A i \in 1 .. k : payload'[i] = conn.frames[i]
  <2>1. \A i \in 1 .. k : conn.frames[i] \in Frame
    BY <1>1, <1>3
  <2>2. /\ Len(payload') = IF 1 <= k THEN k - 1 + 1 ELSE 0
        /\ \A i \in 1 .. (k - 1 + 1) : payload'[i] = conn.frames[1 + i - 1]
    BY <1>1, <1>3, <1>4, <2>1, SubSeqProperties
  <2> QED
    BY <1>1, <1>3, <2>2
<1>6. UNCHANGED <<next_expected, window, gap_start, gap_end, last>>
      /\ pc' = "replay" /\ conn' = NoConn
  BY DEF ReceivePayload, trackerVars, gapVars
<1>7. PICK a \in Nat, b \in Nat : a = gap_start /\ b = gap_start + k
  BY <1>1, <1>3
<1>8. Remaining(a, b)'
  <2>1. b = a + Len(payload') /\ b <= Len(Session) + 1
    BY <1>1, <1>3, <1>5, <1>7
  <2>2. \A i \in 1 .. Len(payload') : payload'[i] = Session[a + i - 1]
    <3> SUFFICES ASSUME NEW i \in 1 .. k PROVE payload'[i] = Session[a + i - 1]
      BY <1>5
    <3>1. i \in 1 .. (gap_end - gap_start + 1)
      BY <1>1, <1>3
    <3> QED
      BY <1>3, <1>5, <1>7, <3>1
  <2>3. outcome' = "complete" => b = gap_end + 1
    BY <1>1, <1>3, <1>4, <1>7
  <2>4. outcome' = "complete" => Covered(b)'
    BY <1>2, <1>6, <2>3 DEF Covered, Holds, Occupied
  <2> QED
    BY <2>1, <2>2, <2>4 DEF Remaining
<1>9. a \in 1 .. next_expected'
  BY <1>1, <1>6, <1>7
<1> QED
  BY <1>1, <1>4, <1>6, <1>8, <1>9 DEF RecoveryInv, NoConn, Conn

\* Every replayed frame is the expected one or an old one.
LEMMA ReplayedIsNotAhead ==
  ASSUME FeedInv, RecoveryInv, pc = "replay", payload # <<>>
  PROVE  FromSession(Head(payload)) /\ Head(payload).seq <= next_expected
<1>1. PICK j \in 1 .. next_expected, e \in Nat : Remaining(j, e)
  BY DEF RecoveryInv
<1>2. /\ payload \in Seq(Frame) /\ Len(payload) \in Nat \ {0} /\ Head(payload) = payload[1]
      /\ next_expected \in Nat /\ Len(Session) \in Nat
  BY SessionLen DEF FeedInv, FeedTypeOK, TrackerInv, TrackerTypeOK
<1>3. Head(payload) = Session[j] /\ j \in 1 .. Len(Session)
  BY <1>1, <1>2 DEF Remaining
<1> QED
  BY <1>2, <1>3, SessionFrame

LEMMA ReplayKeepsRecovery ==
  ASSUME FeedInv, RecoveryInv, Replay
  PROVE  RecoveryInv'
<1> DEFINE f == Head(payload)
<1>1. PICK j \in 1 .. next_expected, e \in Nat : Remaining(j, e)
  BY DEF RecoveryInv, Replay
<1>2. /\ payload \in Seq(Frame) /\ payload # <<>> /\ Len(payload) \in Nat \ {0}
      /\ next_expected \in Nat /\ Len(Session) \in Nat /\ last \in Nat
      /\ gap_end \in Nat /\ Head(payload) = payload[1]
  BY SessionLen DEF Replay, FeedInv, FeedTypeOK, TrackerInv, TrackerTypeOK
<1>3. f = Session[j] /\ j \in 1 .. Len(Session) /\ f.seq = j /\ f \in Frame
  <2>1. f = Session[j] /\ j \in 1 .. Len(Session)
    BY <1>1, <1>2 DEF Remaining
  <2> QED
    BY <2>1, SessionFrame
<1>4. /\ Push(f) /\ payload' = Tail(payload)
      /\ UNCHANGED <<pc, conn, last, outcome>> /\ pc = "replay"
  BY DEF Replay
<1>5. /\ Len(Tail(payload)) = Len(payload) - 1
      /\ \A i \in 1 .. Len(Tail(payload)) : Tail(payload)[i] = payload[i + 1]
  BY <1>2, HeadTailProperties
<1> HIDE DEF f
<1>6. f.seq <= next_expected
  BY <1>1, <1>2, <1>3
<1>7. /\ next_expected' \in Nat /\ next_expected' >= next_expected
      /\ f.seq = next_expected => next_expected' > next_expected
      /\ \A b \in Nat : Covered(b) => Covered(b)'
  <2>1. PushExpected(f) \/ PushOld(f)
    BY <1>2, <1>3, <1>4, <1>6 DEF Push, PushAhead
  <2>2. TrackerInv'
    BY <1>3, <1>4, PushKeepsInv DEF FeedInv
  <2>3. next_expected' \in Nat
    BY <2>2 DEF TrackerInv, TrackerTypeOK
  <2>4. \A b \in Nat : Covered(b) => Covered(b)'
    BY <1>2, <1>3, <1>4, <1>6, PushKeepsCovered DEF FeedInv
  <2>5. next_expected' >= next_expected /\ (f.seq = next_expected => next_expected' > next_expected)
    <3>1. CASE PushOld(f)
      BY <1>2, <1>3, <3>1 DEF PushOld
    <3>2. CASE PushExpected(f)
      <4>1. window \in Window /\ next_expected + 1 \in Nat /\ kReorderWindow \in Nat
        BY <1>2, WindowAssumption DEF FeedInv, TrackerInv, TrackerTypeOK, Window
      <4>2. FlushEnd(window, next_expected + 1)
              \in (next_expected + 1) .. (next_expected + 1 + kReorderWindow)
        BY <4>1, FlushEndExists
      <4>3. next_expected' = FlushEnd(window, next_expected + 1)
        BY <3>2 DEF PushExpected
      <4> QED
        BY <1>2, <4>1, <4>2, <4>3
    <3> QED
      BY <2>1, <3>1, <3>2
  <2> QED
    BY <2>3, <2>4, <2>5
<1>8. j + 1 \in 1 .. next_expected'
  BY <1>1, <1>2, <1>3, <1>7
<1>9. Remaining(j + 1, e)'
  <2>1. e = (j + 1) + Len(payload') /\ e <= Len(Session) + 1
    BY <1>1, <1>2, <1>4, <1>5 DEF Remaining
  <2>2. \A i \in 1 .. Len(payload') : payload'[i] = Session[(j + 1) + i - 1]
    <3> SUFFICES ASSUME NEW i \in 1 .. Len(payload')
                 PROVE  payload'[i] = Session[(j + 1) + i - 1]
      OBVIOUS
    <3>1. i + 1 \in 1 .. Len(payload) /\ payload'[i] = payload[i + 1]
      BY <1>2, <1>4, <1>5
    <3>2. payload[i + 1] = Session[j + (i + 1) - 1]
      BY <1>1, <3>1 DEF Remaining
    <3>3. j + (i + 1) - 1 = (j + 1) + i - 1
      BY <1>1, <1>2
    <3> QED
      BY <3>1, <3>2, <3>3
  <2>3. outcome' = "complete" => Covered(e)'
    BY <1>1, <1>4, <1>7 DEF Remaining
  <2> QED
    BY <2>1, <2>2, <2>3 DEF Remaining
<1>10. gap_end' <= Len(Session)
  <2>1. gap_end' = gap_end \/ gap_end' = 0
    BY <1>2, <1>3, <1>4, <1>6 DEF Push, PushExpected, PushOld, PushAhead, gapVars
  <2> QED
    BY <1>2, <2>1 DEF RecoveryInv
<1>11. conn.state = "none" /\ conn'.state = "none" /\ pc' = "replay"
  BY <1>4 DEF RecoveryInv
<1>12. \E i \in 1 .. next_expected', d \in Nat : Remaining(i, d)'
  BY <1>8, <1>9
<1>13. outcome' # "none"
  BY <1>4 DEF RecoveryInv
<1> QED
  BY <1>10, <1>11, <1>12, <1>13 DEF RecoveryInv

\* When nothing is left to replay, a whole payload has delivered the datagram.
LEMMA FinishKeepsRecovery ==
  ASSUME FeedInv, RecoveryInv, FinishRecovery
  PROVE  RecoveryInv'
<1>1. PICK j \in 1 .. next_expected, e \in Nat : Remaining(j, e)
  BY DEF FinishRecovery, RecoveryInv
<1>2. /\ Len(payload) = 0 /\ next_expected \in Nat /\ last \in Nat
      /\ Len(Session) \in Nat /\ window \in Window
  BY SessionLen DEF FinishRecovery, FeedInv, FeedTypeOK, TrackerInv, TrackerTypeOK, Window
<1>3. outcome = "complete" => next_expected > last
  <2> SUFFICES ASSUME outcome = "complete", next_expected <= last PROVE FALSE
    BY <1>2
  <2>1. Holds(window, last) /\ last <= j
    BY <1>1, <1>2 DEF Remaining, Covered
  <2>2. SlotOf(last) \in Slots
    BY <1>2, SlotInRange
  <2>3. last > next_expected
    BY <2>1, <2>2 DEF FeedInv, TrackerInv, WindowAhead, Holds
  <2> QED
    BY <1>1, <1>2, <2>1, <2>3
<1>4. outcome # "none"
  BY <1>1 DEF FinishRecovery, RecoveryInv
<1>5. /\ gap_end' = 0 /\ gap_start' = 0 /\ pc' = "drain" /\ conn'.state = "none"
      /\ UNCHANGED <<next_expected, outcome, last, conn>>
  BY DEF FinishRecovery, ClearGap, RecoveryInv
<1> QED
  BY <1>2, <1>3, <1>4, <1>5 DEF RecoveryInv

LEMMA ServeKeepsRecovery ==
  ASSUME FeedInv, RecoveryInv, Serve
  PROVE  RecoveryInv'
<1>1. pc = "await" /\ conn.start = gap_start /\ conn.end = gap_end
  BY DEF Serve, RecoveryInv
<1>2. gap_start # 0 /\ gap_end <= Len(Session) /\ gap_end \in Nat /\ Len(Session) \in Nat
  BY <1>1, SessionLen DEF RecoveryInv, FeedInv, TrackerInv, TrackerTypeOK
<1>3. GapPayload(gap_start, gap_end) = SubSeq(Session, gap_start, gap_end)
  <2>1. ~(gap_end > Len(Session))
    BY <1>2
  <2> QED
    BY <1>2, <2>1, Zenon DEF GapPayload
<1>4. conn' = Conn("answered", gap_start, gap_end, SubSeq(Session, gap_start, gap_end))
  BY <1>1, <1>3 DEF Serve
<1>5. UNCHANGED <<next_expected, window, gap_start, gap_end, pc, last, outcome>>
  BY DEF Serve, trackerVars, gapVars
<1>6. \A b : Covered(b)' = Covered(b)
  BY <1>5 DEF Covered, Holds, Occupied
<1>7. /\ conn'.state = "answered" /\ conn'.start = gap_start /\ conn'.end = gap_end
      /\ conn'.frames = SubSeq(Session, gap_start, gap_end)
  BY <1>4 DEF Conn
<1> QED
  BY <1>1, <1>5, <1>6, <1>7 DEF RecoveryInv

LEMMA LinkStepKeepsRecovery ==
  ASSUME FeedInv, RecoveryInv,
         LeaveLoop \/ Connect \/ ConnectFails \/ ResponseFails \/ LinkBreaks \/ StopServer
  PROVE  RecoveryInv'
<1>1. UNCHANGED <<next_expected, window, gap_start, gap_end, payload, last>>
  BY DEF LeaveLoop, Connect, ConnectFails, ResponseFails, LinkBreaks, StopServer, trackerVars, gapVars
<1>2. CASE LeaveLoop
  BY <1>1, <1>2 DEF LeaveLoop, RecoveryInv
<1>3. CASE Connect
  BY <1>1, <1>3 DEF Connect, Conn, RecoveryInv, Covered, Holds, Occupied
<1>4. CASE ConnectFails
  BY <1>1, <1>4 DEF ConnectFails, RecoveryInv
<1>5. CASE ResponseFails
  BY <1>1, <1>5 DEF ResponseFails, NoConn, Conn, RecoveryInv
<1>6. CASE LinkBreaks \/ StopServer
  <2>1. UNCHANGED <<pc, outcome>>
        /\ (conn' = conn \/ (conn.state # "none" /\ conn'.state = "reset"))
    BY <1>6 DEF LinkBreaks, StopServer, Conn
  <2>2. \A b : Covered(b)' = Covered(b)
    BY <1>1 DEF Covered, Holds, Occupied
  <2>3. \A j, e : Remaining(j, e)' = Remaining(j, e)
    BY <1>1, <2>1, <2>2 DEF Remaining
  <2> QED
    BY <1>1, <2>1, <2>2, <2>3 DEF RecoveryInv
<1> QED
  BY <1>2, <1>3, <1>4, <1>5, <1>6

\* FeedInv and RecoveryInv together are inductive.
LEMMA NextKeepsRecovery == ASSUME FeedInv, RecoveryInv, [Next]_vars PROVE RecoveryInv'
<1>1. CASE \E s \in 1 .. Len(Session) : Receive(s)
  BY <1>1, ReceiveKeepsRecovery
<1>2. CASE Drain
  BY <1>2, DrainKeepsRecovery
<1>3. CASE ReceivePayload
  BY <1>3, ReceivePayloadKeepsRecovery
<1>4. CASE Replay
  BY <1>4, ReplayKeepsRecovery
<1>5. CASE FinishRecovery
  BY <1>5, FinishKeepsRecovery
<1>6. CASE Serve
  BY <1>6, ServeKeepsRecovery
<1>7. CASE LeaveLoop \/ Connect \/ ConnectFails \/ ResponseFails \/ LinkBreaks \/ ServerStops
  BY <1>7, LinkStepKeepsRecovery DEF ServerStops
<1>8. CASE UNCHANGED vars
  <2>1. UNCHANGED <<next_expected, window, gap_start, gap_end, payload, last, pc, outcome, conn>>
    BY <1>8 DEF vars, trackerVars, gapVars, feedVars
  <2>2. \A b : Covered(b)' = Covered(b)
    BY <2>1 DEF Covered, Holds, Occupied
  <2>3. \A j, e : Remaining(j, e)' = Remaining(j, e)
    BY <2>1, <2>2 DEF Remaining
  <2> QED
    BY <2>1, <2>2, <2>3 DEF RecoveryInv
<1> QED
  BY <1>1, <1>2, <1>3, <1>4, <1>5, <1>6, <1>7, <1>8 DEF Next, FeedStep, Terminated

LEMMA InitSatisfiesRecovery == ASSUME FeedInit PROVE RecoveryInv
BY SessionLen DEF FeedInit, TrackerInit, NoConn, Conn, RecoveryInv

(***************************************************************************)
(* The types of the receive path, and CaughtUp: when process_datagram()    *)
(* returns and no recovery was needed, or the recovery got its whole       *)
(* payload, the datagram and everything before it were delivered.          *)
(***************************************************************************)
THEOREM CompleteRecoveryCatchesUp == Spec => [](TypeOK /\ CaughtUp)
<1>1. Init => FeedInv /\ RecoveryInv
  BY FeedInitSatisfiesInv, InitSatisfiesRecovery DEF Init
<1>2. FeedInv /\ RecoveryInv /\ [Next]_vars => FeedInv' /\ RecoveryInv'
  BY NextKeepsFeedInv, NextKeepsRecovery
<1>3. FeedInv /\ RecoveryInv => TypeOK /\ CaughtUp
  BY DEF FeedInv, TrackerInv, TypeOK, RecoveryInv, CaughtUp
<1> QED
  BY <1>1, <1>2, <1>3, PTL DEF Spec

(***************************************************************************)
(* Replaying a recovery payload never takes the out-of-order branch of     *)
(* push(), so try_recover() never evicts a frame that waits in the window. *)
(***************************************************************************)
THEOREM ReplayOnlyDelivers == Spec => ReplayNeverBuffers
<1>1. Init => FeedInv /\ RecoveryInv
  BY FeedInitSatisfiesInv, InitSatisfiesRecovery DEF Init
<1>2. FeedInv /\ RecoveryInv /\ [Next]_vars => FeedInv' /\ RecoveryInv'
  BY NextKeepsFeedInv, NextKeepsRecovery
<1>3. FeedInv /\ RecoveryInv /\ [Next]_vars => [pc = "replay" => UNCHANGED out_of_order]_vars
  <2> SUFFICES ASSUME FeedInv, RecoveryInv, Next, pc = "replay"
               PROVE  UNCHANGED out_of_order
    OBVIOUS
  <2>1. CASE Replay
    <3>1. FromSession(Head(payload)) /\ Head(payload).seq <= next_expected
      BY <2>1, ReplayedIsNotAhead DEF Replay
    <3>2. Head(payload).seq \in Nat /\ next_expected \in Nat
      BY <3>1, FromSessionIsFrame, FrameSeq DEF FeedInv, TrackerInv, TrackerTypeOK
    <3>3. ~PushAhead(Head(payload))
      BY <3>1, <3>2 DEF PushAhead
    <3> QED
      BY <2>1, <3>3 DEF Replay, Push, PushExpected, PushOld
  <2>2. CASE FinishRecovery
    BY <2>2 DEF FinishRecovery, ClearGap, statVars
  <2>3. CASE Serve \/ LinkBreaks \/ ServerStops
    BY <2>3 DEF Serve, LinkBreaks, ServerStops, StopServer, trackerVars, statVars
  <2> QED
    BY <2>1, <2>2, <2>3 DEF Next, FeedStep, Terminated, Receive, Drain, LeaveLoop, Connect,
       ConnectFails, ResponseFails, ReceivePayload
<1> QED
  BY <1>1, <1>2, <1>3, PTL DEF Spec, ReplayNeverBuffers

-----------------------------------------------------------------------------
(* The tracker's own guarantees, inside the receive path. *)

LEMMA FeedInvHolds == Spec => [](FeedInv /\ RecoveryInv)
<1>1. Init => FeedInv /\ RecoveryInv
  BY FeedInitSatisfiesInv, InitSatisfiesRecovery DEF Init
<1>2. FeedInv /\ RecoveryInv /\ [Next]_vars => FeedInv' /\ RecoveryInv'
  BY NextKeepsFeedInv, NextKeepsRecovery
<1> QED
  BY <1>1, <1>2, PTL DEF Spec

(***************************************************************************)
(* The tracker, the feed thread and the connection keep their declared     *)
(* types.                                                                  *)
(***************************************************************************)
THEOREM FeedIsWellTyped == Spec => []TypeOK
<1>1. FeedInv /\ RecoveryInv => TypeOK
  BY DEF FeedInv, TrackerInv, TypeOK
<1> QED
  BY <1>1, FeedInvHolds, PTL

(***************************************************************************)
(* No slot keeps a frame that was, or could be, delivered, through failed, *)
(* partial and complete recoveries.                                        *)
(***************************************************************************)
THEOREM WindowStaysAhead == Spec => []WindowAhead
<1>1. FeedInv /\ RecoveryInv => WindowAhead
  BY DEF FeedInv, TrackerInv
<1> QED
  BY <1>1, FeedInvHolds, PTL

(***************************************************************************)
(* Every frame that came by UDP or was replayed is accounted for: it was   *)
(* delivered, is counted in drops, waits in the window, or repeats a       *)
(* number that waits there.                                                *)
(***************************************************************************)
THEOREM FeedAccountsForPushes == Spec => []PushesAccounted
<1>1. Init => PushesAccounted
  BY InitAccounts DEF Init, FeedInit
<1>2. FeedInv /\ RecoveryInv /\ PushesAccounted /\ [Next]_vars => PushesAccounted'
  <2> SUFFICES ASSUME FeedInv, RecoveryInv, PushesAccounted, [Next]_vars PROVE PushesAccounted'
    OBVIOUS
  <2>1. ASSUME NEW s \in 1 .. Len(Session), Receive(s) PROVE PushesAccounted'
    BY <2>1, SessionFrame, PushKeepsAccounts DEF Receive, FeedInv
  <2>2. CASE Replay
    <3>1. Head(payload) \in Frame
      BY <2>2, ReplayedIsNotAhead, FromSessionIsFrame DEF Replay
    <3> QED
      BY <2>2, <3>1, PushKeepsAccounts DEF Replay, FeedInv
  <2>3. CASE UNCHANGED <<next_expected, drops, window, pushes, rebuffered>>
    BY <2>3, AccountsUnchanged
  <2> QED
    BY <2>1, <2>2, <2>3
       DEF Next, FeedStep, Drain, ClearReady, Connect, ConnectFails, ResponseFails, ReceivePayload,
           FinishRecovery, ClearGap, LeaveLoop, Serve, LinkBreaks, ServerStops, StopServer, Terminated,
           vars, trackerVars, statVars, historyVars
<1> QED
  BY <1>1, <1>2, FeedInvHolds, PTL DEF Spec

-----------------------------------------------------------------------------
(***************************************************************************)
(* A link that does not fail.  The window never holds more than the        *)
(* datagram that is being processed, and every recovery is complete.       *)
(***************************************************************************)
OnlyLastWaits == \A i \in Slots : Occupied(window, i) => window[i].seq = last

ReliableInv ==
  /\ server = "up" /\ conn.state # "reset" /\ outcome \in {"none", "complete"}
  /\ OnlyLastWaits
  /\ pc \in {"select", "drain", "done"} => gap_start = 0

\* Between two datagrams the window is empty: the last one was delivered.
LEMMA IdleWindowIsEmpty ==
  ASSUME FeedInv, RecoveryInv, ReliableInv, pc \in {"select", "drain"}
  PROVE  \A i \in Slots : ~Occupied(window, i)
<1> SUFFICES ASSUME NEW i \in Slots, Occupied(window, i) PROVE FALSE
  OBVIOUS
<1>1. next_expected > last /\ next_expected \in Nat /\ last \in Nat
  BY DEF RecoveryInv, ReliableInv, FeedInv, FeedTypeOK, TrackerInv, TrackerTypeOK
<1>2. window[i].seq = last /\ window[i].seq > next_expected
  BY DEF ReliableInv, OnlyLastWaits, FeedInv, TrackerInv, WindowAhead
<1> QED
  BY <1>1, <1>2

\* A push of a frame that is not ahead stores nothing.
LEMMA PushStoresNothing ==
  ASSUME TrackerInv, NEW f \in Frame, Push(f), ~PushAhead(f)
  PROVE  \A i \in Slots : Occupied(window', i) => window'[i] = window[i]
<1>1. CASE PushOld(f)
  BY <1>1 DEF PushOld
<1>2. CASE PushExpected(f)
  <2> DEFINE n == next_expected + 1
             m == FlushEnd(window, n)
  <2>1. n \in Nat /\ window \in Window
    BY DEF TrackerInv, TrackerTypeOK, Window
  <2>2. window' = FlushedWindow(window, n, m)
    BY <1>2 DEF PushExpected
  <2> HIDE DEF n
  <2>3. m \in n .. (n + kReorderWindow)
    BY <2>1, FlushEndExists
  <2> HIDE DEF m
  <2>4. m \in Nat
    BY <2>1, <2>3, WindowAssumption
  <2>5. \A i \in Slots : Occupied(FlushedWindow(window, n, m), i) =>
          FlushedWindow(window, n, m)[i] = window[i]
    BY <2>1, <2>4, FlushedIsWindow
  <2> QED
    BY <2>2, <2>5 DEF Occupied
<1> QED
  BY <1>1, <1>2 DEF Push

LEMMA ReceiveKeepsReliable ==
  ASSUME FeedInv, RecoveryInv, ReliableInv, NEW s \in 1 .. Len(Session), Receive(s)
  PROVE  ReliableInv'
<1> DEFINE f == Session[s]
<1>1. f \in Frame /\ f.seq = s /\ s \in Nat /\ f # NoFrame
  BY SessionFrame, SessionLen, NoFrameAssumption
<1>2. TrackerInv /\ Push(f) /\ window \in Window
  BY DEF Receive, FeedInv, TrackerInv, TrackerTypeOK, Window
<1>3. \A i \in Slots : ~Occupied(window, i)
  BY IdleWindowIsEmpty DEF Receive
<1>4. last' = s /\ outcome' = "none" /\ UNCHANGED <<server, conn>>
      /\ pc' = IF gap_start' # 0 THEN "recover" ELSE "drain"
  BY DEF Receive
<1> HIDE DEF f
<1>5. \A i \in Slots : Occupied(window', i) => window'[i].seq = s
  <2>1. CASE PushAhead(f)
    <3>1. window' = [window EXCEPT ![SlotOf(s)] = IF Holds(window, s) THEN @ ELSE f]
      BY <1>1, <2>1 DEF PushAhead, StoreOoo
    <3>2. SlotOf(s) \in Slots /\ ~Holds(window, s)
      BY <1>1, <1>3, SlotInRange DEF Holds
    <3>3. \A i \in Slots : window'[i] = IF i = SlotOf(s) THEN f ELSE window[i]
      BY <1>2, <3>1, <3>2 DEF Window
    <3> QED
      BY <1>1, <1>3, <3>3 DEF Occupied
  <2>2. CASE ~PushAhead(f)
    BY <1>1, <1>2, <1>3, <2>2, PushStoresNothing DEF Occupied
  <2> QED
    BY <2>1, <2>2
<1>6. OnlyLastWaits'
  BY <1>4, <1>5 DEF OnlyLastWaits, Occupied
<1> QED
  BY <1>4, <1>6 DEF ReliableInv

LEMMA ReplayKeepsReliable ==
  ASSUME FeedInv, RecoveryInv, ReliableInv, Replay
  PROVE  ReliableInv'
<1> DEFINE f == Head(payload)
<1>1. FromSession(f) /\ f.seq <= next_expected
  BY ReplayedIsNotAhead DEF Replay
<1>2. f \in Frame /\ f.seq \in Nat /\ next_expected \in Nat /\ TrackerInv
  BY <1>1, FromSessionIsFrame, FrameSeq DEF FeedInv, TrackerInv, TrackerTypeOK
<1>3. Push(f) /\ pc = "replay" /\ UNCHANGED <<pc, server, conn, last, outcome>>
  BY DEF Replay
<1> HIDE DEF f
<1>4. ~PushAhead(f)
  BY <1>1, <1>2 DEF PushAhead
<1>5. \A i \in Slots : Occupied(window', i) => window'[i] = window[i]
  BY <1>2, <1>3, <1>4, PushStoresNothing
<1>6. OnlyLastWaits'
  BY <1>3, <1>5 DEF ReliableInv, OnlyLastWaits, Occupied
<1> QED
  BY <1>3, <1>6 DEF ReliableInv

LEMMA NextKeepsReliable ==
  ASSUME ~LinkFaults, FeedInv, RecoveryInv, ReliableInv, [Next]_vars
  PROVE  ReliableInv'
<1>1. CASE \E s \in 1 .. Len(Session) : Receive(s)
  BY <1>1, ReceiveKeepsReliable
<1>2. CASE Replay
  BY <1>2, ReplayKeepsReliable
<1>3. ASSUME UNCHANGED <<window, last>> PROVE OnlyLastWaits'
  BY <1>3 DEF ReliableInv, OnlyLastWaits, Occupied
<1>4. CASE Drain \/ LeaveLoop \/ UNCHANGED vars
  <2>1. /\ UNCHANGED <<window, last, server, conn, outcome, gap_start>>
        /\ pc \in {"recover", "await", "replay"} => pc' = pc
    BY <1>4 DEF Drain, ClearReady, LeaveLoop, vars, trackerVars, gapVars, feedVars
  <2> QED
    BY <1>3, <2>1 DEF ReliableInv, FeedInv, FeedTypeOK
<1>5. CASE Connect \/ Serve
  <2>1. /\ UNCHANGED <<window, last, server, outcome, gap_start>> /\ conn'.state # "reset"
        /\ (pc' = "await" \/ pc' = pc)
    BY <1>5 DEF Connect, Serve, Conn, trackerVars, gapVars
  <2> QED
    BY <1>3, <2>1 DEF ReliableInv
<1>6. CASE ReceivePayload
  <2>1. outcome' = "complete"
    BY <1>6 DEF ReceivePayload
  <2>2. UNCHANGED <<window, last, server>> /\ pc' = "replay" /\ conn'.state = "none"
    BY <1>6 DEF ReceivePayload, NoConn, Conn, trackerVars
  <2> QED
    BY <1>3, <2>1, <2>2 DEF ReliableInv
<1>7. CASE FinishRecovery
  <2>1. UNCHANGED <<window, last, server, conn, outcome>> /\ gap_start' = 0
    BY <1>7 DEF FinishRecovery, ClearGap
  <2> QED
    BY <1>3, <2>1 DEF ReliableInv
<1>8. ~ConnectFails /\ ~ResponseFails /\ ~LinkBreaks /\ ~ServerStops
  BY DEF ConnectFails, ResponseFails, LinkBreaks, ServerStops, ReliableInv
<1> QED
  BY <1>1, <1>2, <1>4, <1>5, <1>6, <1>7, <1>8 DEF Next, FeedStep, Terminated

(***************************************************************************)
(* With a link that does not fail, process_datagram() returns with an      *)
(* empty window and no gap: whatever UDP loses, repeats or reorders, what  *)
(* is missing is fetched at once.                                          *)
(***************************************************************************)
THEOREM ReliableLinkLeavesNothing == Spec => []NothingLeftBehind
<1>1. CASE LinkFaults
  BY <1>1, PTL DEF NothingLeftBehind
<1>2. CASE ~LinkFaults
  <2>1. Init => ReliableInv
    BY DEF Init, FeedInit, TrackerInit, NoConn, Conn, ReliableInv, OnlyLastWaits, Occupied
  <2>2. FeedInv /\ RecoveryInv /\ ReliableInv /\ [Next]_vars => ReliableInv'
    BY <1>2, NextKeepsReliable
  <2>3. FeedInv /\ RecoveryInv /\ ReliableInv => NothingLeftBehind
    BY IdleWindowIsEmpty DEF ReliableInv, NothingLeftBehind
  <2> QED
    BY <2>1, <2>2, <2>3, FeedInvHolds, PTL DEF Spec
<1> QED
  BY <1>1, <1>2

-----------------------------------------------------------------------------
(***************************************************************************)
(* The simulator's loop.  Everything below the iteration's number was      *)
(* sent, lost or still waits in delayed, each once; delayed is in order;   *)
(* and a datagram that waits was overtaken by its successor only, and by   *)
(* the one of this iteration while the due ones are released.              *)
(***************************************************************************)
SimTypeOK ==
  /\ spc \in {"open", "send", "release", "sleep", "stopped"}
  /\ at \in 1 .. (Count + 1)
  /\ sent \in Seq(Nat) /\ delayed \in Seq(Nat)
  /\ lost \in SUBSET Nat /\ held \in SUBSET Nat
  /\ spc = "release" => at <= Count
  /\ spc = "sleep" => delayed = <<>> /\ at = Count + 1

SentUpTo == IF spc = "release" THEN at ELSE at - 1

EachOnce ==
  /\ \A j, k \in 1 .. Len(sent) : j # k => sent[j] # sent[k]
  /\ \A j \in 1 .. Len(sent) : sent[j] \in 1 .. SentUpTo /\ sent[j] \notin lost
  /\ \A j \in 1 .. Len(sent) : \A i \in 1 .. Len(delayed) : delayed[i] # sent[j]

BelowCurrent ==
  /\ \A n \in held : n >= 1 /\ n < at /\ n \notin lost
  /\ \A n \in lost : n >= 1 /\ n < at
  /\ \A i \in 1 .. Len(delayed) : delayed[i] \in held
  /\ \A i, j \in 1 .. Len(delayed) : i < j => delayed[i] < delayed[j]

NoneForgotten ==
  \A n \in 1 .. SentUpTo :
    \/ n \in lost
    \/ \E j \in 1 .. Len(sent) : sent[j] = n
    \/ \E i \in 1 .. Len(delayed) : delayed[i] = n

DelayedOvertaken ==
  \A i \in 1 .. Len(delayed), k \in 1 .. Len(sent) :
    sent[k] > delayed[i] =>
      /\ sent[k] \notin held
      /\ sent[k] = delayed[i] + 1 \/ (spc = "release" /\ sent[k] = at)

SentOvertaken ==
  \A j \in 1 .. Len(sent) : \E b \in Nat : \A k \in 1 .. (j - 1) :
    sent[k] > sent[j] => sent[k] \notin held /\ sent[k] \in {sent[j] + 1, b}

\* Behind a datagram that waits, all but its successor were held back or lost.
DelayedBurst ==
  \A i \in 1 .. Len(delayed) : \A n \in (delayed[i] + 2) .. (at - 1) : n \in held \cup lost

SentBurst ==
  \A j \in 1 .. Len(sent) : \A k \in 1 .. (j - 1) :
    \A n \in (sent[j] + 2) .. (sent[k] - 1) : n \in held \cup lost

SimInv ==
  /\ SimTypeOK /\ EachOnce /\ BelowCurrent /\ NoneForgotten
  /\ DelayedOvertaken /\ SentOvertaken /\ DelayedBurst /\ SentBurst

LEMMA AppendFacts ==
  ASSUME NEW q \in Seq(Nat), NEW x \in Nat
  PROVE  /\ Append(q, x) \in Seq(Nat)
         /\ Len(Append(q, x)) = Len(q) + 1 /\ Len(q) \in Nat
         /\ \A i \in 1 .. Len(q) : Append(q, x)[i] = q[i]
         /\ Append(q, x)[Len(q) + 1] = x
OBVIOUS

LEMMA TailFacts ==
  ASSUME NEW q \in Seq(Nat), q # <<>>
  PROVE  /\ Len(q) \in Nat \ {0}
         /\ Head(q) = q[1] /\ Head(q) \in Nat
         /\ Tail(q) \in Seq(Nat)
         /\ Len(Tail(q)) = Len(q) - 1
         /\ \A i \in 1 .. (Len(q) - 1) : Tail(q)[i] = q[i + 1]
OBVIOUS

LEMMA SimInitSatisfiesInv == ASSUME SimInit PROVE SimInv
<1>1. Count \in Nat
  BY SimulatorAssumption
<1> QED
  BY <1>1 DEF SimInit, SimInv, SimTypeOK, EachOnce, BelowCurrent, NoneForgotten, SentUpTo,
              DelayedOvertaken, SentOvertaken, DelayedBurst, SentBurst

\* The steps that send nothing and change no history.
LEMMA IdleStepKeepsSimInv ==
  ASSUME SimInv, OpenSocket \/ SocketFails \/ Close \/ Stop \/ UNCHANGED simVars
  PROVE  SimInv'
<1>1. UNCHANGED <<at, delayed, lost, held, sent>>
  BY DEF OpenSocket, SocketFails, Close, Stop, simVars
<1>2. Count \in Nat
  BY SimulatorAssumption
<1>3. SimTypeOK'
  BY <1>1, <1>2 DEF OpenSocket, SocketFails, Close, Stop, simVars, SimInv, SimTypeOK
<1>4. SentUpTo' = SentUpTo /\ (spc = "release" <=> spc' = "release")
  BY <1>1 DEF OpenSocket, SocketFails, Close, Stop, simVars, SentUpTo
<1>5. EachOnce' /\ BelowCurrent' /\ NoneForgotten' /\ SentOvertaken' /\ SentBurst'
  BY <1>1, <1>4 DEF SimInv, EachOnce, BelowCurrent, NoneForgotten, SentOvertaken, SentBurst
<1>6. DelayedOvertaken'
  BY <1>1, <1>4 DEF SimInv, DelayedOvertaken
<1>7. DelayedBurst'
  BY <1>1 DEF SimInv, DelayedBurst
<1> QED
  BY <1>3, <1>5, <1>6, <1>7 DEF SimInv

LEMMA LoseKeepsSimInv == ASSUME SimInv, Lose PROVE SimInv'
<1>1. /\ spc = "send" /\ at <= Count /\ lost' = lost \cup {at} /\ at' = at + 1
      /\ UNCHANGED <<spc, delayed, held, sent>>
  BY DEF Lose
<1>2. Count \in Nat /\ at \in Nat /\ at >= 1 /\ sent \in Seq(Nat) /\ delayed \in Seq(Nat)
  BY SimulatorAssumption DEF SimInv, SimTypeOK
<1>3. SentUpTo = at - 1 /\ SentUpTo' = at
  BY <1>1, <1>2 DEF SentUpTo
<1>4. SimTypeOK'
  BY <1>1, <1>2 DEF SimInv, SimTypeOK
<1>5. EachOnce' /\ BelowCurrent'
  BY <1>1, <1>2, <1>3 DEF SimInv, SimTypeOK, EachOnce, BelowCurrent
<1>6. NoneForgotten'
  BY <1>1, <1>2, <1>3 DEF SimInv, NoneForgotten
<1>7. DelayedOvertaken' /\ SentOvertaken'
  BY <1>1 DEF SimInv, DelayedOvertaken, SentOvertaken
<1>8. DelayedBurst'
  <2> SUFFICES ASSUME NEW i \in 1 .. Len(delayed), NEW n \in (delayed[i] + 2) .. at
               PROVE  n \in held \cup lost \cup {at}
    BY <1>1, <1>2 DEF DelayedBurst
  <2>1. n = at \/ n \in (delayed[i] + 2) .. (at - 1)
    BY <1>2
  <2> QED
    BY <2>1 DEF SimInv, DelayedBurst
<1>9. SentBurst'
  BY <1>1 DEF SimInv, SentBurst
<1> QED
  BY <1>4, <1>5, <1>6, <1>7, <1>8, <1>9 DEF SimInv

LEMMA HoldBackKeepsSimInv == ASSUME SimInv, HoldBack PROVE SimInv'
<1>1. /\ spc = "send" /\ at < Count /\ delayed' = Append(delayed, at)
      /\ held' = held \cup {at} /\ at' = at + 1
      /\ UNCHANGED <<spc, lost, sent>>
  BY DEF HoldBack
<1>2. Count \in Nat /\ at \in Nat /\ at >= 1
  BY SimulatorAssumption DEF SimInv, SimTypeOK
<1>20. sent \in Seq(Nat) /\ delayed \in Seq(Nat)
      /\ held \subseteq Nat
  BY DEF SimInv, SimTypeOK
<1>3. SentUpTo = at - 1 /\ SentUpTo' = at
  BY <1>1, <1>2 DEF SentUpTo
<1>4. /\ delayed' \in Seq(Nat) /\ Len(delayed') = Len(delayed) + 1 /\ Len(delayed) \in Nat
      /\ \A i \in 1 .. Len(delayed) : delayed'[i] = delayed[i] /\ delayed[i] \in Nat
      /\ delayed'[Len(delayed) + 1] = at
  BY <1>1, <1>2, <1>20, AppendFacts
<1>5. \A i \in 1 .. Len(delayed') : i \in 1 .. Len(delayed) \/ i = Len(delayed) + 1
  BY <1>4
<1>6. \A k \in 1 .. Len(sent) : sent[k] \in Nat /\ sent[k] < at
  BY <1>2, <1>3 DEF SimInv, EachOnce
<1>7. SimTypeOK'
  BY <1>1, <1>2, <1>20, <1>4 DEF SimInv, SimTypeOK
<1>8. EachOnce'
  <2>1. \A j \in 1 .. Len(sent) : \A i \in 1 .. Len(delayed') : delayed'[i] # sent[j]
    BY <1>2, <1>4, <1>5, <1>6 DEF SimInv, EachOnce
  <2> QED
    BY <1>1, <1>2, <1>3, <2>1 DEF SimInv, EachOnce
<1>9. BelowCurrent'
  <2>1. \A i \in 1 .. Len(delayed) : delayed[i] \in held /\ delayed[i] < at
    BY DEF SimInv, BelowCurrent
  <2>2. \A i, j \in 1 .. Len(delayed') : i < j => delayed'[i] < delayed'[j]
    <3> SUFFICES ASSUME NEW i \in 1 .. Len(delayed'), NEW j \in 1 .. Len(delayed'), i < j
                 PROVE  delayed'[i] < delayed'[j]
      OBVIOUS
    <3>1. i \in 1 .. Len(delayed)
      BY <1>4
    <3>2. CASE j = Len(delayed) + 1
      BY <1>4, <2>1, <3>1, <3>2
    <3>3. CASE j \in 1 .. Len(delayed)
      BY <1>4, <3>1, <3>3 DEF SimInv, BelowCurrent
    <3> QED
      BY <1>5, <3>2, <3>3
  <2>3. \A i \in 1 .. Len(delayed') : delayed'[i] \in held'
    BY <1>1, <1>4, <1>5, <2>1
  <2>4. at \notin lost /\ \A n \in lost : n \in Nat
    BY <1>2 DEF SimInv, SimTypeOK, BelowCurrent
  <2>5. /\ \A n \in held' : n >= 1 /\ n < at' /\ n \notin lost
        /\ \A n \in lost : n >= 1 /\ n < at'
    BY <1>1, <1>2, <1>20, <2>4 DEF SimInv, BelowCurrent
  <2> QED
    BY <1>1, <2>2, <2>3, <2>5 DEF BelowCurrent
<1>10. NoneForgotten'
  <2> SUFFICES ASSUME NEW n \in 1 .. at, n \notin lost, ~ \E j \in 1 .. Len(sent) : sent[j] = n
               PROVE  \E i \in 1 .. Len(delayed') : delayed'[i] = n
    BY <1>1, <1>3 DEF NoneForgotten
  <2>1. CASE n = at
    BY <1>4, <2>1
  <2>2. CASE n # at
    <3>1. n \in 1 .. SentUpTo
      BY <1>2, <1>3, <2>2
    <3>2. PICK i \in 1 .. Len(delayed) : delayed[i] = n
      BY <3>1 DEF SimInv, NoneForgotten
    <3> QED
      BY <1>4, <3>2
  <2> QED
    BY <2>1, <2>2
<1>11. DelayedOvertaken'
  <2> SUFFICES ASSUME NEW i \in 1 .. Len(delayed'), NEW k \in 1 .. Len(sent), sent[k] > delayed'[i]
               PROVE  sent[k] \notin held' /\ sent[k] = delayed'[i] + 1
    BY <1>1 DEF DelayedOvertaken
  <2>1. i \in 1 .. Len(delayed)
    BY <1>2, <1>4, <1>5, <1>6
  <2> QED
    BY <1>1, <1>2, <1>4, <1>6, <2>1 DEF SimInv, DelayedOvertaken
<1>12. SentOvertaken'
  <2> SUFFICES ASSUME NEW j \in 1 .. Len(sent)
               PROVE  \E b \in Nat : \A k \in 1 .. (j - 1) :
                        sent[k] > sent[j] => sent[k] \notin held' /\ sent[k] \in {sent[j] + 1, b}
    BY <1>1 DEF SentOvertaken
  <2>1. PICK b \in Nat : \A k \in 1 .. (j - 1) :
                        sent[k] > sent[j] => sent[k] \notin held /\ sent[k] \in {sent[j] + 1, b}
    BY DEF SimInv, SentOvertaken
  <2>2. \A k \in 1 .. (j - 1) : sent[k] # at
    BY <1>2, <1>6
  <2> QED
    BY <1>1, <2>1, <2>2
<1>13. DelayedBurst'
  <2> SUFFICES ASSUME NEW i \in 1 .. Len(delayed'), NEW n \in (delayed'[i] + 2) .. at
               PROVE  n \in held \cup {at} \cup lost
    BY <1>1, <1>2 DEF DelayedBurst
  <2>1. CASE i = Len(delayed) + 1
    BY <1>2, <1>4, <2>1
  <2>2. CASE i \in 1 .. Len(delayed)
    <3>1. n = at \/ n \in (delayed[i] + 2) .. (at - 1)
      BY <1>2, <1>4, <2>2
    <3> QED
      BY <2>2, <3>1 DEF SimInv, DelayedBurst
  <2> QED
    BY <1>5, <2>1, <2>2
<1>14. SentBurst'
  BY <1>1 DEF SimInv, SentBurst
<1> QED
  BY <1>7, <1>8, <1>9, <1>10, <1>11, <1>12, <1>13, <1>14 DEF SimInv

LEMMA SendKeepsSimInv == ASSUME SimInv, Send PROVE SimInv'
<1>1. /\ spc = "send" /\ at <= Count /\ sent' = Append(sent, at) /\ spc' = "release"
      /\ UNCHANGED <<at, delayed, lost, held>>
  BY DEF Send
<1>2. Count \in Nat /\ at \in Nat /\ at >= 1
  BY SimulatorAssumption DEF SimInv, SimTypeOK
<1>20. sent \in Seq(Nat) /\ delayed \in Seq(Nat)
      /\ held \subseteq Nat /\ lost \subseteq Nat
  BY DEF SimInv, SimTypeOK
<1>3. SentUpTo = at - 1 /\ SentUpTo' = at
  BY <1>1, <1>2 DEF SentUpTo
<1>4. /\ sent' \in Seq(Nat) /\ Len(sent') = Len(sent) + 1 /\ Len(sent) \in Nat
      /\ \A k \in 1 .. Len(sent) : sent'[k] = sent[k] /\ sent[k] \in Nat /\ sent[k] < at
      /\ sent'[Len(sent) + 1] = at
  BY <1>1, <1>2, <1>20, <1>3, AppendFacts DEF SimInv, EachOnce
<1>5. \A k \in 1 .. Len(sent') : k \in 1 .. Len(sent) \/ k = Len(sent) + 1
  BY <1>4
<1>6. at \notin held /\ at \notin lost
      /\ \A i \in 1 .. Len(delayed) : delayed[i] \in Nat /\ delayed[i] < at
  BY <1>2, <1>20 DEF SimInv, BelowCurrent
<1>7. SimTypeOK'
  BY <1>1, <1>2, <1>20, <1>4 DEF SimInv, SimTypeOK
<1>8. EachOnce'
  <2>1. \A j, k \in 1 .. Len(sent') : j # k => sent'[j] # sent'[k]
    BY <1>2, <1>4, <1>5 DEF SimInv, EachOnce
  <2>2. \A j \in 1 .. Len(sent') : sent'[j] \in 1 .. at /\ sent'[j] \notin lost
    <3> SUFFICES ASSUME NEW j \in 1 .. Len(sent')
                 PROVE  sent'[j] \in 1 .. at /\ sent'[j] \notin lost
      OBVIOUS
    <3>1. CASE j = Len(sent) + 1
      BY <1>2, <1>4, <1>6, <3>1
    <3>2. CASE j \in 1 .. Len(sent)
      <4>1. sent'[j] = sent[j] /\ sent[j] \in 1 .. SentUpTo /\ sent[j] \notin lost
        BY <1>4, <3>2 DEF SimInv, EachOnce
      <4> QED
        BY <1>2, <1>3, <4>1
    <3> QED
      BY <1>5, <3>1, <3>2
  <2>3. \A j \in 1 .. Len(sent') : \A i \in 1 .. Len(delayed) : delayed[i] # sent'[j]
    BY <1>2, <1>4, <1>5, <1>6 DEF SimInv, EachOnce
  <2> QED
    BY <1>1, <1>3, <2>1, <2>2, <2>3 DEF EachOnce
<1>9. BelowCurrent' /\ DelayedBurst'
  BY <1>1 DEF SimInv, BelowCurrent, DelayedBurst
<1>10. NoneForgotten'
  <2> SUFFICES ASSUME NEW n \in 1 .. at, n \notin lost, ~ \E i \in 1 .. Len(delayed) : delayed[i] = n
               PROVE  \E j \in 1 .. Len(sent') : sent'[j] = n
    BY <1>1, <1>3 DEF NoneForgotten
  <2>1. CASE n = at
    BY <1>4, <2>1
  <2>2. CASE n # at
    <3>1. n \in 1 .. SentUpTo
      BY <1>2, <1>3, <2>2
    <3>2. PICK j \in 1 .. Len(sent) : sent[j] = n
      BY <3>1 DEF SimInv, NoneForgotten
    <3> QED
      BY <1>4, <3>2
  <2> QED
    BY <2>1, <2>2
<1>11. DelayedOvertaken'
  <2> SUFFICES ASSUME NEW i \in 1 .. Len(delayed), NEW k \in 1 .. Len(sent'), sent'[k] > delayed[i]
               PROVE  sent'[k] \notin held /\ (sent'[k] = delayed[i] + 1 \/ sent'[k] = at)
    BY <1>1 DEF DelayedOvertaken
  <2>1. CASE k = Len(sent) + 1
    BY <1>4, <1>6, <2>1
  <2>2. CASE k \in 1 .. Len(sent)
    BY <1>1, <1>4, <2>2 DEF SimInv, DelayedOvertaken
  <2> QED
    BY <1>5, <2>1, <2>2
<1>12. SentOvertaken'
  <2> SUFFICES ASSUME NEW j \in 1 .. Len(sent')
               PROVE  \E b \in Nat : \A k \in 1 .. (j - 1) :
                        sent'[k] > sent'[j] => sent'[k] \notin held /\ sent'[k] \in {sent'[j] + 1, b}
    BY <1>1 DEF SentOvertaken
  <2>1. CASE j = Len(sent) + 1
    <3>1. \A k \in 1 .. (j - 1) : ~(sent'[k] > sent'[j])
      BY <1>2, <1>4, <2>1
    <3> QED
      BY <3>1
  <2>2. CASE j \in 1 .. Len(sent)
    <3>1. PICK b \in Nat : \A k \in 1 .. (j - 1) :
                        sent[k] > sent[j] => sent[k] \notin held /\ sent[k] \in {sent[j] + 1, b}
      BY <2>2 DEF SimInv, SentOvertaken
    <3>2. sent'[j] = sent[j] /\ \A k \in 1 .. (j - 1) : sent'[k] = sent[k]
      BY <1>4, <2>2
    <3> QED
      BY <3>1, <3>2
  <2> QED
    BY <1>5, <2>1, <2>2
<1>13. SentBurst'
  <2> SUFFICES ASSUME NEW j \in 1 .. Len(sent'), NEW k \in 1 .. (j - 1),
                      NEW n \in (sent'[j] + 2) .. (sent'[k] - 1)
               PROVE  n \in held \cup lost
    BY <1>1 DEF SentBurst
  <2>1. k \in 1 .. Len(sent) /\ sent'[k] = sent[k] /\ sent[k] < at /\ sent[k] \in Nat
    BY <1>4
  <2>2. j \in 1 .. Len(sent) /\ sent'[j] = sent[j]
    <3>1. CASE j = Len(sent) + 1
      <4>1. sent'[j] = at
        BY <1>4, <3>1
      <4> QED
        BY <1>2, <2>1, <4>1
    <3>2. CASE j \in 1 .. Len(sent)
      BY <1>4, <3>2
    <3> QED
      BY <1>5, <3>1, <3>2
  <2> QED
    BY <2>1, <2>2 DEF SimInv, SentBurst
<1> QED
  BY <1>7, <1>8, <1>9, <1>10, <1>11, <1>12, <1>13 DEF SimInv

\* When nothing more is due, at most the datagram before this one waits.
LEMMA NextDatagramKeepsSimInv == ASSUME SimInv, NextDatagram PROVE SimInv'
<1>1. /\ spc = "release" /\ ~Due /\ at' = at + 1 /\ spc' = "send"
      /\ UNCHANGED <<delayed, lost, held, sent>>
  BY DEF NextDatagram
<1>2. Count \in Nat /\ at \in Nat /\ at >= 1 /\ at <= Count
      /\ sent \in Seq(Nat) /\ delayed \in Seq(Nat) /\ lost \in SUBSET Nat /\ held \in SUBSET Nat
  BY <1>1, SimulatorAssumption DEF SimInv, SimTypeOK
<1>3. SentUpTo = at /\ SentUpTo' = at
  BY <1>1, <1>2 DEF SentUpTo
<1>4. \A i \in 1 .. Len(delayed) : delayed[i] = at - 1
  <2> SUFFICES ASSUME NEW i \in 1 .. Len(delayed) PROVE delayed[i] = at - 1
    OBVIOUS
  <2>1. delayed # <<>> /\ Len(delayed) \in Nat
    BY <1>2
  <2>2. Head(delayed) = delayed[1] /\ delayed[1] \in Nat /\ delayed[i] \in Nat
    BY <1>2, <2>1
  <2>3. ~(delayed[1] + 2 <= at)
    BY <1>1, <2>1, <2>2 DEF Due
  <2>4. delayed[i] < at
    BY DEF SimInv, BelowCurrent
  <2>5. i = 1 \/ delayed[1] < delayed[i]
    BY <2>1 DEF SimInv, BelowCurrent
  <2> QED
    BY <1>2, <2>2, <2>3, <2>4, <2>5
<1>5. SimTypeOK'
  BY <1>1, <1>2 DEF SimInv, SimTypeOK
<1>6. EachOnce' /\ NoneForgotten'
  BY <1>1, <1>3 DEF SimInv, EachOnce, NoneForgotten
<1>7. BelowCurrent'
  BY <1>1, <1>2 DEF SimInv, BelowCurrent
<1>8. DelayedOvertaken'
  <2> SUFFICES ASSUME NEW i \in 1 .. Len(delayed), NEW k \in 1 .. Len(sent), sent[k] > delayed[i]
               PROVE  sent[k] \notin held /\ sent[k] = delayed[i] + 1
    BY <1>1 DEF DelayedOvertaken
  <2>1. sent[k] \notin held /\ (sent[k] = delayed[i] + 1 \/ sent[k] = at)
    BY DEF SimInv, DelayedOvertaken
  <2>2. delayed[i] + 1 = at
    BY <1>2, <1>4
  <2> QED
    BY <2>1, <2>2
<1>9. SentOvertaken' /\ SentBurst'
  BY <1>1 DEF SimInv, SentOvertaken, SentBurst
<1>10. DelayedBurst'
  BY <1>1, <1>2, <1>4 DEF DelayedBurst
<1> QED
  BY <1>5, <1>6, <1>7, <1>8, <1>9, <1>10 DEF SimInv

LEMMA ReleaseKeepsSimInv == ASSUME SimInv, Release \/ FlushDelayed PROVE SimInv'
<1> DEFINE x == Head(delayed)
<1>1. /\ delayed # <<>> /\ sent' = Append(sent, x) /\ delayed' = Tail(delayed)
      /\ spc \in {"send", "release"}
      /\ UNCHANGED <<spc, at, lost, held>>
  BY DEF Release, FlushDelayed, Due
<1>2. Count \in Nat /\ at \in Nat /\ at >= 1
  BY SimulatorAssumption DEF SimInv, SimTypeOK
<1>20. sent \in Seq(Nat) /\ delayed \in Seq(Nat)
      /\ held \subseteq Nat /\ lost \subseteq Nat
  BY DEF SimInv, SimTypeOK
<1>3. SentUpTo' = SentUpTo /\ SentUpTo \in Nat /\ at - 1 <= SentUpTo
  BY <1>1, <1>2 DEF SentUpTo
<1>4. /\ Len(delayed) \in Nat \ {0} /\ x = delayed[1] /\ x \in Nat
      /\ delayed' \in Seq(Nat) /\ Len(delayed') = Len(delayed) - 1
      /\ \A i \in 1 .. (Len(delayed) - 1) : delayed'[i] = delayed[i + 1]
  BY <1>1, <1>20, TailFacts
<1> HIDE DEF x
<1>5. /\ sent' \in Seq(Nat) /\ Len(sent') = Len(sent) + 1 /\ Len(sent) \in Nat
      /\ \A k \in 1 .. Len(sent) : sent'[k] = sent[k] /\ sent[k] \in Nat
      /\ sent'[Len(sent) + 1] = x
  BY <1>1, <1>20, <1>4, AppendFacts
<1>6. \A k \in 1 .. Len(sent') : k \in 1 .. Len(sent) \/ k = Len(sent) + 1
  BY <1>5
<1>7. 1 \in 1 .. Len(delayed)
  BY <1>4
<1>8. x \in held /\ x >= 1 /\ x < at /\ x \notin lost
  BY <1>4, <1>7 DEF SimInv, BelowCurrent
<1>9. \A i \in 1 .. Len(delayed') : /\ i + 1 \in 1 .. Len(delayed) /\ delayed'[i] = delayed[i + 1]
                                    /\ delayed'[i] > x /\ delayed'[i] \in Nat
  <2> SUFFICES ASSUME NEW i \in 1 .. Len(delayed')
               PROVE  /\ i + 1 \in 1 .. Len(delayed) /\ delayed'[i] = delayed[i + 1]
                      /\ delayed'[i] > x /\ delayed'[i] \in Nat
    OBVIOUS
  <2>1. i + 1 \in 1 .. Len(delayed) /\ delayed'[i] = delayed[i + 1] /\ 1 < i + 1
    BY <1>4
  <2>2. delayed[1] < delayed[i + 1] /\ delayed[i + 1] \in Nat
    BY <1>20, <1>7, <2>1 DEF SimInv, BelowCurrent
  <2> QED
    BY <1>4, <2>1, <2>2
<1>10. SimTypeOK'
  BY <1>1, <1>2, <1>20, <1>4, <1>5 DEF SimInv, SimTypeOK
<1>11. EachOnce'
  <2>1. \A k \in 1 .. Len(sent) : sent[k] # x
    BY <1>4, <1>7 DEF SimInv, EachOnce
  <2>2. \A j, k \in 1 .. Len(sent') : j # k => sent'[j] # sent'[k]
    BY <1>5, <1>6, <2>1 DEF SimInv, EachOnce
  <2>3. \A j \in 1 .. Len(sent') : sent'[j] \in 1 .. SentUpTo /\ sent'[j] \notin lost
    <3> SUFFICES ASSUME NEW j \in 1 .. Len(sent')
                 PROVE  sent'[j] \in 1 .. SentUpTo /\ sent'[j] \notin lost
      OBVIOUS
    <3>1. CASE j = Len(sent) + 1
      BY <1>2, <1>3, <1>4, <1>5, <1>8, <3>1
    <3>2. CASE j \in 1 .. Len(sent)
      BY <1>5, <3>2 DEF SimInv, EachOnce
    <3> QED
      BY <1>6, <3>1, <3>2
  <2>4. \A j \in 1 .. Len(sent') : \A i \in 1 .. Len(delayed') : delayed'[i] # sent'[j]
    <3> SUFFICES ASSUME NEW j \in 1 .. Len(sent'), NEW i \in 1 .. Len(delayed')
                 PROVE  delayed'[i] # sent'[j]
      OBVIOUS
    <3>1. CASE j = Len(sent) + 1
      BY <1>4, <1>5, <1>9, <3>1
    <3>2. CASE j \in 1 .. Len(sent)
      BY <1>5, <1>9, <3>2 DEF SimInv, EachOnce
    <3> QED
      BY <1>6, <3>1, <3>2
  <2> QED
    BY <1>1, <1>3, <2>2, <2>3, <2>4 DEF EachOnce
<1>12. BelowCurrent'
  <2>1. \A i \in 1 .. Len(delayed') : delayed'[i] \in held
    BY <1>9 DEF SimInv, BelowCurrent
  <2>2. \A i, j \in 1 .. Len(delayed') : i < j => delayed'[i] < delayed'[j]
    <3> SUFFICES ASSUME NEW i \in 1 .. Len(delayed'), NEW j \in 1 .. Len(delayed'), i < j
                 PROVE  delayed'[i] < delayed'[j]
      OBVIOUS
    <3>1. i + 1 \in 1 .. Len(delayed) /\ j + 1 \in 1 .. Len(delayed) /\ i + 1 < j + 1
      BY <1>9
    <3>2. delayed[i + 1] < delayed[j + 1]
      BY <3>1 DEF SimInv, BelowCurrent
    <3> QED
      BY <1>9, <3>2
  <2> QED
    BY <1>1, <2>1, <2>2 DEF SimInv, BelowCurrent
<1>13. NoneForgotten'
  <2> SUFFICES ASSUME NEW n \in 1 .. SentUpTo, n \notin lost,
                      ~ \E j \in 1 .. Len(sent') : sent'[j] = n
               PROVE  \E i \in 1 .. Len(delayed') : delayed'[i] = n
    BY <1>1, <1>3 DEF NoneForgotten
  <2>1. ~ \E j \in 1 .. Len(sent) : sent[j] = n
    BY <1>5
  <2>2. PICK i \in 1 .. Len(delayed) : delayed[i] = n
    BY <2>1 DEF SimInv, NoneForgotten
  <2>3. n # x
    BY <1>5
  <2>4. i # 1
    BY <1>4, <2>2, <2>3
  <2>5. i - 1 \in 1 .. Len(delayed') /\ i - 1 \in 1 .. (Len(delayed) - 1) /\ (i - 1) + 1 = i
    BY <1>4, <2>2, <2>4
  <2>6. delayed'[i - 1] = n
    BY <1>4, <2>2, <2>5
  <2> QED
    BY <2>5, <2>6
<1>14. DelayedOvertaken'
  <2> SUFFICES ASSUME NEW i \in 1 .. Len(delayed'), NEW k \in 1 .. Len(sent'), sent'[k] > delayed'[i]
               PROVE  /\ sent'[k] \notin held
                      /\ sent'[k] = delayed'[i] + 1 \/ (spc = "release" /\ sent'[k] = at)
    BY <1>1 DEF DelayedOvertaken
  <2>1. k \in 1 .. Len(sent)
    BY <1>4, <1>5, <1>6, <1>9
  <2>2. sent'[k] = sent[k] /\ i + 1 \in 1 .. Len(delayed) /\ delayed'[i] = delayed[i + 1]
    BY <1>5, <1>9, <2>1
  <2>3. sent[k] > delayed[i + 1]
    BY <2>2
  <2>4. /\ sent[k] \notin held
        /\ sent[k] = delayed[i + 1] + 1 \/ (spc = "release" /\ sent[k] = at)
    BY <2>1, <2>2, <2>3 DEF SimInv, DelayedOvertaken
  <2> QED
    BY <2>2, <2>4
<1>15. \A k \in 1 .. Len(sent) : sent[k] > x =>
         sent[k] \notin held /\ (sent[k] = x + 1 \/ (spc = "release" /\ sent[k] = at))
  BY <1>4, <1>7 DEF SimInv, DelayedOvertaken
<1>16. SentOvertaken'
  <2> SUFFICES ASSUME NEW j \in 1 .. Len(sent')
               PROVE  \E b \in Nat : \A k \in 1 .. (j - 1) :
                        sent'[k] > sent'[j] => sent'[k] \notin held /\ sent'[k] \in {sent'[j] + 1, b}
    BY <1>1 DEF SentOvertaken
  <2>1. CASE j = Len(sent) + 1
    <3>1. \A k \in 1 .. (j - 1) : k \in 1 .. Len(sent) /\ sent'[k] = sent[k]
      BY <1>5, <2>1
    <3>2. \A k \in 1 .. (j - 1) :
            sent'[k] > sent'[j] => sent'[k] \notin held /\ sent'[k] \in {sent'[j] + 1, at}
      BY <1>5, <1>15, <2>1, <3>1
    <3> QED
      BY <1>2, <3>2
  <2>2. CASE j \in 1 .. Len(sent)
    <3>1. PICK b \in Nat : \A k \in 1 .. (j - 1) :
                        sent[k] > sent[j] => sent[k] \notin held /\ sent[k] \in {sent[j] + 1, b}
      BY <2>2 DEF SimInv, SentOvertaken
    <3>2. sent'[j] = sent[j] /\ \A k \in 1 .. (j - 1) : sent'[k] = sent[k]
      BY <1>5, <2>2
    <3> QED
      BY <3>1, <3>2
  <2> QED
    BY <1>6, <2>1, <2>2
<1>17. DelayedBurst'
  BY <1>1, <1>9 DEF SimInv, DelayedBurst
<1>18. SentBurst'
  <2> SUFFICES ASSUME NEW j \in 1 .. Len(sent'), NEW k \in 1 .. (j - 1),
                      NEW n \in (sent'[j] + 2) .. (sent'[k] - 1)
               PROVE  n \in held \cup lost
    BY <1>1 DEF SentBurst
  <2>1. k \in 1 .. Len(sent) /\ sent'[k] = sent[k] /\ sent[k] \in Nat
    BY <1>5
  <2>2. CASE j = Len(sent) + 1
    <3>1. sent'[j] = x /\ n \in Nat /\ sent[k] > x + 1
      <4>1. sent'[j] = x
        BY <1>5, <2>2
      <4> QED
        BY <1>4, <2>1, <4>1
    <3>2. sent[k] = at
      <4>1. sent[k] > x /\ sent[k] # x + 1
        BY <1>4, <2>1, <3>1
      <4> QED
        BY <1>15, <2>1, <4>1
    <3>3. n \in (delayed[1] + 2) .. (at - 1)
      BY <1>4, <2>1, <3>1, <3>2
    <3> QED
      BY <1>7, <3>3 DEF SimInv, DelayedBurst
  <2>3. CASE j \in 1 .. Len(sent)
    BY <1>5, <2>1, <2>3 DEF SimInv, SentBurst
  <2> QED
    BY <1>6, <2>2, <2>3
<1> QED
  BY <1>10, <1>11, <1>12, <1>13, <1>14, <1>16, <1>17, <1>18 DEF SimInv

LEMMA SimNextKeepsInv == ASSUME SimInv, [SimNext]_simVars PROVE SimInv'
BY IdleStepKeepsSimInv, LoseKeepsSimInv, HoldBackKeepsSimInv, SendKeepsSimInv,
   NextDatagramKeepsSimInv, ReleaseKeepsSimInv DEF SimNext, SimStep

\* A set within a pair has at most two elements.
LEMMA AtMostTwo ==
  ASSUME NEW a, NEW b, NEW S, S \subseteq {a, b}
  PROVE  Cardinality(S) <= 2
<1>1. IsFiniteSet({a}) /\ Cardinality({a}) = 1
  BY FS_Singleton
<1>2. {a, b} = {a} \cup {b}
  OBVIOUS
<1>3. IsFiniteSet({a, b}) /\ Cardinality({a, b}) <= 2
  <2>1. /\ IsFiniteSet({a} \cup {b})
        /\ \/ Cardinality({a} \cup {b}) = Cardinality({a})
           \/ Cardinality({a} \cup {b}) = Cardinality({a}) + 1
    BY <1>1, FS_AddElement
  <2> QED
    BY <1>1, <1>2, <2>1
<1> QED
  BY <1>3, FS_Subset, FS_CardinalityType

\* The invariant in the words of the property.
LEMMA SimInvImpliesBursts == ASSUME SimInv PROVE SentInBursts
<1>1. /\ sent \in Seq(Nat) /\ delayed \in Seq(Nat)
      /\ DOMAIN sent = 1 .. Len(sent) /\ DOMAIN delayed = 1 .. Len(delayed)
      /\ Len(sent) \in Nat
  BY DEF SimInv, SimTypeOK
<1>2. /\ ToSet(sent) = {sent[j] : j \in 1 .. Len(sent)}
      /\ ToSet(delayed) = {delayed[i] : i \in 1 .. Len(delayed)}
  BY <1>1 DEF ToSet
<1>3. Count \in Nat /\ at \in Nat /\ at >= 1 /\ SentUpTo \in Nat /\ at - 1 <= SentUpTo
  BY SimulatorAssumption DEF SimInv, SimTypeOK, SentUpTo
<1>4. ToSet(sent) \cup ToSet(delayed) \cup lost = 1 .. SentUpTo
  <2>1. ASSUME NEW n \in 1 .. SentUpTo PROVE n \in ToSet(sent) \cup ToSet(delayed) \cup lost
    BY <1>2 DEF SimInv, NoneForgotten
  <2>2. ASSUME NEW n \in ToSet(sent) PROVE n \in 1 .. SentUpTo
    BY <1>2 DEF SimInv, EachOnce
  <2>3. ASSUME NEW n \in held \cup lost PROVE n \in 1 .. SentUpTo
    <3>1. n \in Nat /\ n >= 1 /\ n < at
      BY DEF SimInv, SimTypeOK, BelowCurrent
    <3> QED
      BY <1>3, <3>1
  <2>4. ASSUME NEW n \in ToSet(delayed) PROVE n \in held
    BY <1>2 DEF SimInv, BelowCurrent
  <2> QED
    BY <2>1, <2>2, <2>3, <2>4
<1>5. SentOnce
  <2>1. \A j, k \in DOMAIN sent : j # k => sent[j] # sent[k]
    BY <1>1 DEF SimInv, EachOnce
  <2>2. ToSet(sent) \cap lost = {}
    BY <1>2 DEF SimInv, EachOnce
  <2>3. ToSet(sent) \cup ToSet(delayed) \cup lost = IF spc = "release" THEN 1 .. at ELSE 1 .. (at - 1)
    BY <1>4 DEF SentUpTo
  <2>4. ASSUME spc = "sleep" PROVE ToSet(sent) \cup lost = 1 .. Count
    <3>1. Len(delayed) = 0 /\ SentUpTo = Count
      BY <1>3, <2>4 DEF SimInv, SimTypeOK, SentUpTo
    <3>2. ToSet(delayed) = {}
      BY <1>2, <3>1
    <3> QED
      BY <1>4, <3>1, <3>2
  <2> QED
    BY <2>1, <2>2, <2>3, <2>4 DEF SentOnce
<1>6. OvertakenByTwo
  <2> SUFFICES ASSUME NEW j \in 1 .. Len(sent)
               PROVE  LET overtaking == {k \in 1 .. (j - 1) : sent[k] > sent[j]}
                      IN  /\ Cardinality(overtaking) <= 2
                          /\ \A k \in overtaking : sent[k] \notin held
    BY <1>1 DEF OvertakenByTwo
  <2> DEFINE O == {k \in 1 .. (j - 1) : sent[k] > sent[j]}
  <2>1. PICK b \in Nat : \A k \in 1 .. (j - 1) :
          sent[k] > sent[j] => sent[k] \notin held /\ sent[k] \in {sent[j] + 1, b}
    BY DEF SimInv, SentOvertaken
  <2> DEFINE i1 == CHOOSE k \in 1 .. Len(sent) : sent[k] = sent[j] + 1
             i2 == CHOOSE k \in 1 .. Len(sent) : sent[k] = b
  <2>2. O \subseteq {i1, i2}
    <3> SUFFICES ASSUME NEW k \in O PROVE k = i1 \/ k = i2
      OBVIOUS
    <3>1. k \in 1 .. Len(sent) /\ sent[k] \in {sent[j] + 1, b}
      BY <1>1, <2>1
    <3>2. \A i \in 1 .. Len(sent) : sent[i] = sent[k] => i = k
      BY <3>1 DEF SimInv, EachOnce
    <3>3. CASE sent[k] = sent[j] + 1
      <4>1. i1 \in 1 .. Len(sent) /\ sent[i1] = sent[j] + 1
        BY <3>1, <3>3
      <4> QED
        BY <3>2, <3>3, <4>1
    <3>4. CASE sent[k] = b
      <4>1. i2 \in 1 .. Len(sent) /\ sent[i2] = b
        BY <3>1, <3>4
      <4> QED
        BY <3>2, <3>4, <4>1
    <3> QED
      BY <3>1, <3>3, <3>4
  <2> HIDE DEF i1, i2
  <2>3. Cardinality(O) <= 2
    BY <2>2, AtMostTwo
  <2>4. \A k \in O : sent[k] \notin held
    BY <2>1
  <2> QED
    BY <2>3, <2>4
<1> QED
  BY <1>5, <1>6 DEF SentInBursts

(***************************************************************************)
(* The simulator sends every datagram that it does not lose exactly once,  *)
(* and one that it held back is overtaken by at most two, for every        *)
(* session length and every sequence of losses and delays.                 *)
(***************************************************************************)
THEOREM SimulatorSendsInBursts == SimSpec => []SentInBursts
<1>1. SimInit => SimInv
  BY SimInitSatisfiesInv
<1>2. SimInv /\ [SimNext]_simVars => SimInv'
  BY SimNextKeepsInv
<1>3. SimInv => SentInBursts
  BY SimInvImpliesBursts
<1> QED
  BY <1>1, <1>2, <1>3, PTL DEF SimSpec

-----------------------------------------------------------------------------
(***************************************************************************)
(* The feed handler against the simulator.  Whatever the link does, every  *)
(* frame in the window arrived, and what arrived is behind the expected    *)
(* number or in the window unless it was evicted, which takes a burst as   *)
(* long as the window when nothing is lost.                                *)
(***************************************************************************)
ArrivedInv ==
  /\ taken \in 0 .. Len(sent)
  /\ arrived \subseteq {sent[k] : k \in 1 .. taken}
  /\ IsFiniteSet(arrived) /\ Cardinality(arrived) <= taken
  /\ Cardinality(arrived) = taken => arrived = {sent[k] : k \in 1 .. taken}
  /\ last \in arrived \cup {0}
  /\ \A i \in Slots : Occupied(window, i) => window[i].seq \in arrived

WaitingInv ==
  /\ pc = "select" => ready = <<>>
  /\ \A m \in arrived \ evicted : m < next_expected \/ Holds(window, m)
  /\ Lossless /\ ~LongBurst => evicted = {}

CommonInv == FeedInv /\ RecoveryInv /\ SimInv /\ ArrivedInv /\ WaitingInv

(***************************************************************************)
(* When TCP fails only because the server does not listen, there is no     *)
(* partial recovery.  A failed one leaves the gap pending, and the next    *)
(* datagram asks for all of it: a pending gap always ends before the       *)
(* greatest number that arrived, and a recovery that is served closes it.  *)
(* What is handled then ends with a number that arrived, or before the one *)
(* behind the gap if that was evicted.                                     *)
(***************************************************************************)
ServedInv ==
  /\ outcome # "partial"
  /\ outcome = "failed" => last \in unserved
  /\ pc \in {"select", "drain", "done"} /\ gap_start # 0 => outcome = "failed"
  /\ \A m \in arrived : m < next_expected \/ m \in unserved \/ (m = last /\ pc \notin {"select", "done"})

\* What is left of the payload ends with the end of the gap, or the gap was closed.
ReplayReach ==
  /\ \A i \in 1 .. Len(payload) :
       payload[i].seq < next_expected \/ (gap_start # 0 /\ payload[i].seq <= gap_end)
  /\ gap_start # 0 => payload # <<>> /\ payload[Len(payload)].seq = gap_end

GapInv ==
  /\ gap_start = 0 => \A m \in arrived : m <= next_expected
  /\ gap_start # 0 => gap_end + 1 \in arrived /\ \A m \in arrived : m <= gap_end + 1
  /\ pc = "replay" => outcome = "complete" /\ ReplayReach
  /\ \/ pc = "replay" /\ gap_start # 0
     \/ next_expected - 1 \in arrived \cup {0}
     \/ next_expected \in evicted

\* The branch of push() for the expected number: next_expected ends behind that number or
\* behind a frame of the window, and what is still ahead stays where it was.
LEMMA ExpectedPushFlushes ==
  ASSUME TrackerInv, NEW f \in Frame, PushExpected(f)
  PROVE  /\ next_expected' \in Nat /\ next_expected' > next_expected
         /\ next_expected' = next_expected + 1 \/ Holds(window, next_expected' - 1)
         /\ \A m \in Nat : Holds(window, m) /\ m >= next_expected' => Holds(window', m)
<1> DEFINE n == next_expected + 1
           m == FlushEnd(window, n)
<1>1. next_expected' = m /\ window' = FlushedWindow(window, n, m)
  BY DEF PushExpected
<1>2. next_expected \in Nat /\ n \in Nat /\ n = next_expected + 1 /\ window \in Window
  BY DEF TrackerInv, TrackerTypeOK, Window
<1>3. m \in n .. (n + kReorderWindow) /\ \A k \in n .. (m - 1) : Holds(window, k)
  BY <1>2, FlushEndExists
<1> HIDE DEF m, n
<1>4. m \in Nat /\ m >= n /\ n \in Nat
  BY <1>2, <1>3, WindowAssumption
<1>5. next_expected' = next_expected + 1 \/ Holds(window, next_expected' - 1)
  <2>1. CASE m = n
    BY <1>1, <1>2, <2>1
  <2>2. CASE m # n
    <3>1. m - 1 \in n .. (m - 1)
      BY <1>4, <2>2
    <3> QED
      BY <1>1, <1>3, <3>1
  <2> QED
    BY <2>1, <2>2
<1>6. ASSUME NEW x \in Nat, Holds(window, x), x >= m PROVE Holds(window', x)
  <2>1. SlotOf(x) \in Slots
    BY SlotInRange
  <2>2. ASSUME NEW k \in n .. (m - 1), SlotOf(x) = SlotOf(k) PROVE FALSE
    <3>1. Holds(window, k) /\ k < m /\ k \in Nat
      BY <1>3, <1>4
    <3>2. k = x
      BY <1>6, <2>2, <3>1 DEF Holds
    <3> QED
      BY <1>4, <1>6, <3>1, <3>2
  <2>3. window'[SlotOf(x)] = window[SlotOf(x)]
    BY <1>1, <2>1, <2>2 DEF FlushedWindow
  <2> QED
    BY <1>6, <2>3 DEF Holds, Occupied
<1> QED
  BY <1>1, <1>2, <1>4, <1>5, <1>6

\* The branch of push() for a number ahead: what leaves the window is counted as a drop,
\* and shared its slot with that number.
LEMMA AheadPushStores ==
  ASSUME TrackerInv, NEW f \in Frame, PushAhead(f)
  PROVE  /\ \A i \in Slots : Occupied(window', i) => window'[i] = f \/ window'[i] = window[i]
         /\ Holds(window', f.seq)
         /\ \A m \in Nat : Holds(window, m) =>
              Holds(window', m) \/ (drops' > drops /\ m = window[SlotOf(f.seq)].seq)
         /\ drops' > drops =>
              \E i \in Slots : /\ Occupied(window, i) /\ i = SlotOf(f.seq)
                               /\ window[i].seq # f.seq
<1>1. window \in Window /\ drops \in Nat /\ f.seq \in Nat /\ f # NoFrame
  BY FrameSeq, NoFrameAssumption DEF TrackerInv, TrackerTypeOK, Window
<1> DEFINE i == SlotOf(f.seq)
<1>2. i \in Slots
  BY <1>1, SlotInRange
<1>3. /\ window' = [window EXCEPT ![i] = IF Holds(window, f.seq) THEN @ ELSE f]
      /\ drops' = IF Occupied(window, i) /\ ~Holds(window, f.seq) THEN drops + 1 ELSE drops
  BY DEF PushAhead, StoreOoo
<1>4. \A k \in Slots : window'[k] = IF k = i /\ ~Holds(window, f.seq) THEN f ELSE window[k]
  BY <1>1, <1>2, <1>3 DEF Window
<1>5. Holds(window, f.seq) <=> Occupied(window, i) /\ window[i].seq = f.seq
  BY DEF Holds
<1>6. Holds(window', f.seq)
  BY <1>1, <1>2, <1>4 DEF Holds, Occupied
<1>7. \A k \in Slots : Occupied(window', k) => window'[k] = f \/ window'[k] = window[k]
  BY <1>4
<1>8. ASSUME NEW m \in Nat, Holds(window, m), ~(drops' > drops /\ m = window[i].seq)
      PROVE  Holds(window', m)
  <2>1. SlotOf(m) \in Slots
    BY SlotInRange
  <2>2. SlotOf(m) = i => ~Occupied(window, i) \/ Holds(window, f.seq)
    BY <1>1, <1>3, <1>8 DEF Holds
  <2>3. window'[SlotOf(m)] = window[SlotOf(m)]
    BY <1>4, <1>8, <2>1, <2>2 DEF Holds
  <2> QED
    BY <1>8, <2>3 DEF Holds, Occupied
<1>9. ASSUME drops' > drops PROVE Occupied(window, i) /\ window[i].seq # f.seq
  BY <1>1, <1>3, <1>5, <1>9
<1> QED
  BY <1>2, <1>6, <1>7, <1>8, <1>9

\* Nothing below next_expected, and nothing that waits, is lost by a push, except the frame
\* that it evicts.
LEMMA PushKeepsWaiting ==
  ASSUME TrackerInv, NEW f \in Frame, Push(f),
         NEW S \in SUBSET Nat, \A m \in S : m < next_expected \/ Holds(window, m)
  PROVE  /\ \A m \in S \ Displaced(f.seq) : m < next_expected' \/ Holds(window', m)
         /\ f.seq < next_expected' \/ Holds(window', f.seq)
         /\ Displaced(f.seq) # {} => PushAhead(f)
<1>1. next_expected \in Nat /\ out_of_order \in Nat /\ f.seq \in Nat
  BY FrameSeq DEF TrackerInv, TrackerTypeOK
<1>2. CASE PushExpected(f)
  <2>1. f.seq = next_expected /\ ~(out_of_order' > out_of_order)
    BY <1>1, <1>2 DEF PushExpected
  <2>2. /\ next_expected' \in Nat /\ next_expected' > next_expected
        /\ \A m \in Nat : Holds(window, m) /\ m >= next_expected' => Holds(window', m)
    BY <1>2, ExpectedPushFlushes
  <2>3. Displaced(f.seq) = {}
    BY <2>1 DEF Displaced
  <2> QED
    BY <1>1, <2>1, <2>2, <2>3
<1>3. CASE PushOld(f)
  <2>1. UNCHANGED <<next_expected, window>> /\ f.seq < next_expected /\ ~(out_of_order' > out_of_order)
    BY <1>1, <1>3 DEF PushOld
  <2>2. Displaced(f.seq) = {}
    BY <2>1 DEF Displaced
  <2> QED
    BY <2>1, <2>2 DEF Holds, Occupied
<1>4. CASE PushAhead(f)
  <2>1. next_expected' = next_expected /\ out_of_order' > out_of_order
    BY <1>1, <1>4 DEF PushAhead
  <2>2. /\ Holds(window', f.seq)
        /\ \A m \in Nat : Holds(window, m) =>
             Holds(window', m) \/ (drops' > drops /\ m = window[SlotOf(f.seq)].seq)
    BY <1>4, AheadPushStores
  <2>3. drops' > drops => Displaced(f.seq) = {window[SlotOf(f.seq)].seq}
    BY <2>1 DEF Displaced
  <2> QED
    BY <1>4, <2>1, <2>2, <2>3
<1> QED
  BY <1>2, <1>3, <1>4 DEF Push

\* What the window stores after a push was there before, or was pushed.
LEMMA PushStoresPushed ==
  ASSUME TrackerInv, NEW f \in Frame, Push(f)
  PROVE  \A i \in Slots : Occupied(window', i) => window'[i] = window[i] \/ (window'[i] = f /\ PushAhead(f))
BY AheadPushStores, PushStoresNothing

\* What was sent, lost and held back stays so.
LEMMA SimHistoryGrows ==
  ASSUME SimInv, [SimNext]_simVars
  PROVE  /\ Len(sent) \in Nat /\ Len(sent') \in Nat /\ Len(sent) <= Len(sent')
         /\ \A k \in 1 .. Len(sent) : sent'[k] = sent[k]
         /\ held \subseteq held' /\ lost \subseteq lost'
<1>1. sent \in Seq(Nat) /\ at \in Nat /\ delayed \in Seq(Nat)
  BY SimulatorAssumption DEF SimInv, SimTypeOK
<1>2. CASE UNCHANGED sent
  BY <1>1, <1>2 DEF SimNext, SimStep, OpenSocket, SocketFails, Lose, HoldBack, Send, Release,
     NextDatagram, FlushDelayed, Close, Stop, simVars
<1>3. CASE Send
  BY <1>1, <1>3, AppendFacts DEF Send
<1>4. CASE Release \/ FlushDelayed
  <2>1. delayed # <<>> /\ sent' = Append(sent, Head(delayed)) /\ UNCHANGED <<held, lost>>
    BY <1>4 DEF Release, FlushDelayed, Due
  <2>2. Head(delayed) \in Nat
    BY <1>1, <2>1, TailFacts
  <2> QED
    BY <1>1, <2>1, <2>2, AppendFacts
<1> QED
  BY <1>2, <1>3, <1>4 DEF SimNext, SimStep, OpenSocket, SocketFails, Lose, HoldBack,
     NextDatagram, Close, Stop, simVars

\* A step of the composition is one of the simulator, one of the receive path, or both.
LEMMA AllStepIsStep ==
  ASSUME SimInv, taken \in 0 .. Len(sent), [AllNext]_allVars
  PROVE  /\ [SimNext]_simVars
         /\ [Next]_vars \/ StopServer \/ ServerStarts
<1>1. CASE TakeDatagram
  <2>1. taken + 1 \in 1 .. Len(sent) /\ Receive(sent[taken + 1]) /\ UNCHANGED simVars
    BY <1>1 DEF TakeDatagram, SimInv, SimTypeOK
  <2>2. sent[taken + 1] \in 1 .. Len(Session)
    <3>1. sent[taken + 1] \in 1 .. SentUpTo
      BY <2>1 DEF SimInv, EachOnce
    <3>2. SentUpTo \in Nat /\ SentUpTo <= Count /\ Count \in Nat
      BY SimulatorAssumption DEF SimInv, SimTypeOK, SentUpTo
    <3> QED
      BY <3>1, <3>2, CompositionAssumption
  <2> QED
    BY <2>1, <2>2 DEF Next
<1>2. CASE SocketDrops
  BY <1>2 DEF SocketDrops
<1>3. CASE HandlerStep
  BY <1>3 DEF HandlerStep, Next
<1>4. CASE HandlerLeaves
  BY <1>4 DEF HandlerLeaves, Next
<1>5. CASE ServeRecovery
  BY <1>5 DEF ServeRecovery, Next
<1>6. CASE SimulatorStep
  BY <1>6 DEF SimulatorStep, SimNext
<1>7. CASE SimulatorStops
  BY <1>7 DEF SimulatorStops, SimNext
<1>8. CASE AllTerminated \/ UNCHANGED allVars
  BY <1>8 DEF AllTerminated, allVars
<1>9. CASE ServerStarts
  BY <1>9 DEF ServerStarts
<1> QED
  BY <1>1, <1>2, <1>3, <1>4, <1>5, <1>6, <1>7, <1>8, <1>9 DEF AllNext

\* A server that comes up changes nothing else.
LEMMA StartKeepsFeed ==
  ASSUME FeedInv, RecoveryInv, ServerStarts
  PROVE  FeedInv' /\ RecoveryInv'
<1>1. /\ UNCHANGED <<next_expected, window, ready, gap_start, gap_end, payload, conn, handled, last, pc, outcome>>
      /\ UNCHANGED <<trackerVars, recovery_events>> /\ server' \in {"up", "down"}
  BY DEF ServerStarts, trackerVars, gapVars
<1>2. TrackerInv' /\ BufferInv' /\ HandledInv'
  BY <1>1, DeliveryUnchanged
<1>3. LinkInv'
  BY <1>1 DEF FeedInv, LinkInv, AllFromSession, FromSession
<1>4. FeedTypeOK'
  BY <1>1 DEF FeedInv, FeedTypeOK
<1>5. \A b : Covered(b)' = Covered(b)
  BY <1>1 DEF Covered, Holds, Occupied
<1>6. \A j, e : Remaining(j, e)' = Remaining(j, e)
  BY <1>1, <1>5 DEF Remaining
<1> QED
  BY <1>1, <1>2, <1>3, <1>4, <1>5, <1>6 DEF FeedInv, RecoveryInv

LEMMA AllStepKeepsFeed ==
  ASSUME CommonInv, [AllNext]_allVars
  PROVE  FeedInv' /\ RecoveryInv' /\ SimInv'
<1>1. FeedInv /\ RecoveryInv /\ SimInv /\ taken \in 0 .. Len(sent)
  BY DEF CommonInv, ArrivedInv
<1>2. [SimNext]_simVars /\ ([Next]_vars \/ StopServer \/ ServerStarts)
  BY <1>1, AllStepIsStep
<1> QED
  BY <1>1, <1>2, SimNextKeepsInv, NextKeepsFeedInv, NextKeepsRecovery, LinkStepKeepsInv,
     LinkStepKeepsRecovery, StartKeepsFeed

\* The number that is taken from the socket arrived for the first time.
LEMMA TakenIsNew ==
  ASSUME CommonInv, TakeDatagram
  PROVE  /\ taken + 1 \in 1 .. Len(sent)
         /\ sent[taken + 1] \in 1 .. Len(Session)
         /\ sent[taken + 1] \notin arrived
<1>1. /\ SimInv /\ taken \in 0 .. Len(sent) /\ taken < Len(sent) /\ Len(sent) \in Nat
      /\ arrived \subseteq {sent[k] : k \in 1 .. taken}
  BY DEF CommonInv, ArrivedInv, TakeDatagram, SimInv, SimTypeOK
<1>2. taken + 1 \in 1 .. Len(sent)
  BY <1>1
<1>3. sent[taken + 1] \in 1 .. SentUpTo
  BY <1>1, <1>2 DEF SimInv, EachOnce
<1>4. SentUpTo \in Nat /\ SentUpTo <= Count /\ Count \in Nat
  BY <1>1, SimulatorAssumption DEF SimInv, SimTypeOK, SentUpTo
<1>5. \A k \in 1 .. taken : sent[k] # sent[taken + 1]
  <2> SUFFICES ASSUME NEW k \in 1 .. taken PROVE sent[k] # sent[taken + 1]
    OBVIOUS
  <2>1. k \in 1 .. Len(sent) /\ k # taken + 1
    BY <1>1
  <2> QED
    BY <1>1, <1>2, <2>1 DEF SimInv, EachOnce
<1> QED
  BY <1>1, <1>2, <1>3, <1>4, <1>5, CompositionAssumption

LEMMA TakeKeepsArrived == ASSUME CommonInv, TakeDatagram PROVE ArrivedInv'
<1> DEFINE s == sent[taken + 1]
<1>1. /\ taken + 1 \in 1 .. Len(sent) /\ s \in 1 .. Len(Session) /\ s \notin arrived
  BY TakenIsNew
<1>2. /\ taken' = taken + 1 /\ arrived' = arrived \cup {s} /\ last' = s /\ sent' = sent
      /\ Push(Session[s])
  BY DEF TakeDatagram, Receive, simVars
<1>3. /\ ArrivedInv /\ taken \in Nat /\ TrackerInv
      /\ Len(sent) \in Nat
  BY DEF CommonInv, ArrivedInv, FeedInv, SimInv, SimTypeOK
<1>4. Session[s] \in Frame /\ Session[s].seq = s
  BY <1>1, SessionFrame
<1> HIDE DEF s
<1>5. IsFiniteSet(arrived') /\ Cardinality(arrived') = Cardinality(arrived) + 1
      /\ Cardinality(arrived) \in Nat
  BY <1>1, <1>2, <1>3, FS_AddElement, FS_CardinalityType DEF ArrivedInv
<1>6. {sent[k] : k \in 1 .. (taken + 1)} = {sent[k] : k \in 1 .. taken} \cup {s}
  <2>1. \A k \in 1 .. (taken + 1) : k \in 1 .. taken \/ k = taken + 1
    BY <1>3
  <2>2. \A k \in 1 .. taken : k \in 1 .. (taken + 1)
    BY <1>3
  <2>3. taken + 1 \in 1 .. (taken + 1)
    BY <1>3
  <2> QED
    BY <2>1, <2>2, <2>3 DEF s
<1>7. \A i \in Slots : Occupied(window', i) => window'[i].seq \in arrived'
  BY <1>2, <1>3, <1>4, PushStoresPushed DEF ArrivedInv, Occupied
<1>8. taken' \in 0 .. Len(sent')
  BY <1>1, <1>2
<1>9. arrived' \subseteq {sent[k] : k \in 1 .. (taken + 1)}
  BY <1>2, <1>3, <1>6 DEF ArrivedInv
<1>10. Cardinality(arrived') <= taken'
  BY <1>2, <1>3, <1>5 DEF ArrivedInv
<1>11. ASSUME Cardinality(arrived') = taken' PROVE arrived' = {sent[k] : k \in 1 .. (taken + 1)}
  <2>1. Cardinality(arrived) = taken
    BY <1>2, <1>3, <1>5, <1>11
  <2> QED
    BY <1>2, <1>3, <1>6, <2>1 DEF ArrivedInv
<1> QED
  BY <1>2, <1>5, <1>7, <1>8, <1>9, <1>10, <1>11 DEF ArrivedInv, Occupied

LEMMA DropKeepsArrived == ASSUME CommonInv, SocketDrops PROVE ArrivedInv'
<1>1. taken < Len(sent) /\ taken' = taken + 1 /\ UNCHANGED <<arrived, sent, last, window>>
  BY DEF SocketDrops, simVars, vars, trackerVars, feedVars
<1>2. ArrivedInv /\ taken \in Nat /\ Len(sent) \in Nat
  BY DEF CommonInv, ArrivedInv, SimInv, SimTypeOK
<1>3. Cardinality(arrived) <= taken /\ Cardinality(arrived) \in Nat
  BY <1>2, FS_CardinalityType DEF ArrivedInv
<1>4. arrived \subseteq {sent[k] : k \in 1 .. (taken + 1)}
  <2>1. 1 .. taken \subseteq 1 .. (taken + 1)
    BY <1>2
  <2> QED
    BY <1>2, <2>1 DEF ArrivedInv
<1> QED
  BY <1>1, <1>2, <1>3, <1>4 DEF ArrivedInv, Occupied

\* The other steps: the simulator may send more, and the window keeps what it has or less.
LEMMA OtherStepKeepsArrived ==
  ASSUME CommonInv, [SimNext]_simVars, UNCHANGED <<taken, arrived, last>>,
         \A i \in Slots : Occupied(window', i) => window'[i] = window[i]
  PROVE  ArrivedInv'
<1>1. /\ Len(sent) \in Nat /\ Len(sent') \in Nat /\ Len(sent) <= Len(sent')
      /\ \A k \in 1 .. Len(sent) : sent'[k] = sent[k]
  BY SimHistoryGrows DEF CommonInv
<1>2. ArrivedInv
  BY DEF CommonInv
<1>3. \A k \in 1 .. taken : sent'[k] = sent[k]
  BY <1>1, <1>2 DEF ArrivedInv
<1>4. {sent'[k] : k \in 1 .. taken} = {sent[k] : k \in 1 .. taken}
  BY <1>3
<1> QED
  BY <1>1, <1>2, <1>4 DEF ArrivedInv, Occupied

\* Without losses, a number that has not arrived was overtaken only by its successor and by
\* what follows a burst of held-back datagrams.
LEMMA MissingBehindBurst ==
  ASSUME CommonInv, lost = {}, Cardinality(arrived) = taken,
         NEW e \in Nat \ {0}, e \notin arrived, NEW j \in 1 .. Len(sent), j <= taken + 1,
         e < sent[j], taken + 1 \in 1 .. Len(sent) => sent[taken + 1] # e
  PROVE  \A n \in (e + 2) .. (sent[j] - 1) : n \in held
<1>1. /\ SimInv /\ taken \in Nat /\ Len(sent) \in Nat /\ taken <= Len(sent)
      /\ arrived = {sent[k] : k \in 1 .. taken}
  BY DEF CommonInv, ArrivedInv, SimInv, SimTypeOK
<1>2. sent[j] \in 1 .. SentUpTo /\ SentUpTo \in Nat /\ sent[j] \in Nat
  <2>1. at \in 1 .. (Count + 1)
    BY <1>1 DEF SimInv, SimTypeOK
  <2>2. SentUpTo \in Nat
    BY <2>1, SimulatorAssumption DEF SentUpTo
  <2>3. sent[j] \in 1 .. SentUpTo
    BY <1>1 DEF SimInv, EachOnce
  <2> QED
    BY <2>2, <2>3
<1>3. e \in 1 .. SentUpTo
  BY <1>2
<1>4. CASE \E k \in 1 .. Len(sent) : sent[k] = e
  <2>1. PICK k \in 1 .. Len(sent) : sent[k] = e
    BY <1>4
  <2>2. ~(k \in 1 .. taken) /\ k # taken + 1
    BY <1>1, <2>1
  <2>3. j \in 1 .. (k - 1)
    BY <1>1, <2>2
  <2> QED
    BY <1>1, <2>1, <2>3 DEF SimInv, SentBurst
<1>5. CASE \E i \in 1 .. Len(delayed) : delayed[i] = e
  <2>1. PICK i \in 1 .. Len(delayed) : delayed[i] = e
    BY <1>5
  <2>2. sent[j] = e + 1 \/ sent[j] = at
    BY <1>1, <2>1 DEF SimInv, DelayedOvertaken
  <2>3. CASE sent[j] = e + 1
    BY <2>3
  <2>4. CASE sent[j] = at
    BY <1>1, <2>1, <2>4 DEF SimInv, DelayedBurst
  <2> QED
    BY <2>2, <2>3, <2>4
<1> QED
  BY <1>1, <1>3, <1>4, <1>5 DEF SimInv, NoneForgotten

\* Two numbers of one slot are a window apart: a frame is evicted only when the expected
\* number was overtaken by a whole window.
LEMMA EvictionNeedsBurst ==
  ASSUME CommonInv, TakeDatagram, evicted = {}, lost = {}, Cardinality(arrived) = taken,
         PushAhead(Session[sent[taken + 1]]), drops' > drops
  PROVE  LongBurst
<1> DEFINE s == sent[taken + 1]
           e == next_expected
<1>1. taken + 1 \in 1 .. Len(sent) /\ s \in 1 .. Len(Session) /\ s \notin arrived
  BY TakenIsNew
<1>2. Session[s] \in Frame /\ Session[s].seq = s /\ s \in Nat /\ Len(Session) \in Nat
  BY <1>1, SessionFrame, SessionLen
<1>3. /\ TrackerInv /\ SimInv /\ e \in Nat \ {0} /\ kReorderWindow \in Nat \ {0} /\ s > e
      /\ taken \in Nat
  BY <1>2, WindowAssumption DEF CommonInv, FeedInv, TrackerInv, TrackerTypeOK, PushAhead, ArrivedInv
<1>4. PICK i \in Slots : Occupied(window, i) /\ i = SlotOf(s) /\ window[i].seq # s
  BY <1>2, <1>3, AheadPushStores
<1> DEFINE m == window[i].seq
<1>5. SlotOf(m) = SlotOf(s) /\ m > e /\ m # s /\ m \in arrived
  BY <1>3, <1>4 DEF TrackerInv, WindowAhead, CommonInv, ArrivedInv
<1>6. e \notin arrived
  <2>1. ~Holds(window, e)
    <3> SUFFICES ASSUME Holds(window, e) PROVE FALSE
      OBVIOUS
    <3>1. SlotOf(e) \in Slots
      BY <1>3, SlotInRange
    <3>2. Occupied(window, SlotOf(e)) /\ window[SlotOf(e)].seq = e
      BY DEF Holds
    <3>3. e > e
      BY <1>3, <3>1, <3>2 DEF TrackerInv, WindowAhead
    <3> QED
      BY <1>3, <3>3
  <2>2. ~(e < e)
    BY <1>3
  <2> QED
    BY <2>1, <2>2 DEF CommonInv, WaitingInv
<1>7. PICK j \in 1 .. taken : sent[j] = m
  BY <1>5 DEF CommonInv, ArrivedInv
<1>8. j \in 1 .. Len(sent) /\ j <= taken + 1 /\ sent[j] \in Nat /\ Len(sent) \in Nat
      /\ sent[j] \in 1 .. SentUpTo /\ SentUpTo <= Count /\ SentUpTo \in Nat /\ Count \in Nat
  <2>1. j \in 1 .. Len(sent) /\ Len(sent) \in Nat
    BY <1>1, <1>3, <1>7 DEF SimInv, SimTypeOK
  <2>2. SentUpTo \in Nat /\ SentUpTo <= Count /\ Count \in Nat
    BY <1>3, SimulatorAssumption DEF SimInv, SimTypeOK, SentUpTo
  <2>3. sent[j] \in 1 .. SentUpTo
    BY <1>3, <2>1 DEF SimInv, EachOnce
  <2> QED
    BY <1>3, <1>7, <2>1, <2>2, <2>3
<1> HIDE DEF s, e, m
<1>9. m \in Nat /\ m <= Count /\ s <= Count
  BY <1>1, <1>2, <1>7, <1>8, CompositionAssumption
<1>10. m >= s + kReorderWindow \/ s >= m + kReorderWindow
  <2>1. ~(m < s /\ s < m + kReorderWindow)
    BY <1>2, <1>3, <1>5, <1>9, ModDistinct DEF SlotOf
  <2>2. ~(s < m /\ m < s + kReorderWindow)
    BY <1>2, <1>3, <1>5, <1>9, ModDistinct DEF SlotOf
  <2> QED
    BY <1>2, <1>3, <1>5, <1>9, <2>1, <2>2
<1>11. \E hi \in Nat : /\ hi <= Count /\ hi > e + kReorderWindow
                       /\ \A n \in (e + 2) .. (hi - 1) : n \in held
  <2>1. CASE m >= s + kReorderWindow
    <3>1. \A n \in (e + 2) .. (sent[j] - 1) : n \in held
      BY <1>1, <1>3, <1>5, <1>6, <1>7, <1>8, <1>9, MissingBehindBurst DEF s
    <3> QED
      BY <1>2, <1>3, <1>7, <1>9, <2>1, <3>1
  <2>2. CASE s >= m + kReorderWindow
    <3>1. taken + 1 <= taken + 1 /\ s # e
      BY <1>2, <1>3
    <3>2. \A n \in (e + 2) .. (sent[taken + 1] - 1) : n \in held
      BY <1>1, <1>3, <1>6, <3>1, MissingBehindBurst DEF s
    <3> QED
      BY <1>2, <1>3, <1>5, <1>9, <2>2, <3>2 DEF s
  <2> QED
    BY <1>10, <2>1, <2>2
<1>12. PICK hi \in Nat : /\ hi <= Count /\ hi > e + kReorderWindow
                         /\ \A n \in (e + 2) .. (hi - 1) : n \in held
  BY <1>11
<1>13. e + 2 \in 1 .. Count /\ e + 2 + kReorderWindow - 2 <= Count
  BY <1>3, <1>8, <1>12
<1>14. (e + 2) .. (e + 2 + kReorderWindow - 2) \subseteq held
  <2> SUFFICES ASSUME NEW n \in (e + 2) .. (e + 2 + kReorderWindow - 2) PROVE n \in held
    OBVIOUS
  <2>1. n \in (e + 2) .. (hi - 1)
    BY <1>3, <1>12
  <2> QED
    BY <1>12, <2>1
<1> QED
  BY <1>13, <1>14 DEF LongBurst

LEMMA TakeKeepsWaiting == ASSUME CommonInv, TakeDatagram PROVE WaitingInv'
<1> DEFINE s == sent[taken + 1]
<1>1. s \in 1 .. Len(Session) /\ s \notin arrived
  BY TakenIsNew
<1>2. /\ taken' = taken + 1 /\ arrived' = arrived \cup {s} /\ Push(Session[s])
      /\ pc' \in {"recover", "drain"} /\ UNCHANGED <<lost, held>>
      /\ evicted' = evicted \cup Displaced(s)
  BY DEF TakeDatagram, Receive, simVars
<1>3. TrackerInv /\ WaitingInv /\ ArrivedInv /\ taken \in Nat /\ SimInv
  BY DEF CommonInv, FeedInv, ArrivedInv
<1>4. Session[s] \in Frame /\ Session[s].seq = s
  BY <1>1, SessionFrame
<1>5. arrived \in SUBSET Nat
  <2>1. \A k \in 1 .. taken : sent[k] \in Nat
    BY <1>3 DEF SimInv, SimTypeOK, ArrivedInv
  <2> QED
    BY <1>3, <2>1 DEF ArrivedInv
<1>6. /\ \A m \in (arrived \ evicted) \ Displaced(s) : m < next_expected' \/ Holds(window', m)
      /\ s < next_expected' \/ Holds(window', s)
      /\ Displaced(s) # {} => PushAhead(Session[s])
  <2>1. arrived \ evicted \in SUBSET Nat
    BY <1>5
  <2>2. \A m \in arrived \ evicted : m < next_expected \/ Holds(window, m)
    BY <1>3 DEF WaitingInv
  <2> QED
    BY <1>2, <1>3, <1>4, <2>1, <2>2, PushKeepsWaiting
<1>7. ASSUME Lossless', ~LongBurst' PROVE evicted' = {}
  <2>1. lost = {} /\ Cardinality(arrived) = taken
    <3>1. Cardinality(arrived') = Cardinality(arrived) + 1 /\ Cardinality(arrived) \in Nat
      BY <1>1, <1>2, <1>3, FS_AddElement, FS_CardinalityType DEF ArrivedInv
    <3> QED
      BY <1>2, <1>3, <1>7, <3>1 DEF Lossless
  <2>2. ~LongBurst
    BY <1>2, <1>7 DEF LongBurst
  <2>3. evicted = {}
    BY <1>3, <2>1, <2>2 DEF WaitingInv, Lossless
  <2>4. Displaced(s) = {}
    <3> SUFFICES ASSUME Displaced(s) # {} PROVE FALSE
      OBVIOUS
    <3>1. PushAhead(Session[s]) /\ drops' > drops
      BY <1>6 DEF Displaced
    <3> QED
      BY <2>1, <2>2, <2>3, <3>1, EvictionNeedsBurst
  <2> QED
    BY <1>2, <2>3, <2>4
<1>8. \A m \in arrived' \ evicted' : m < next_expected' \/ Holds(window', m)
  BY <1>2, <1>6
<1>9. pc' = "select" => ready' = <<>>
  BY <1>2
<1> QED
  BY <1>7, <1>8, <1>9 DEF WaitingInv, Holds, Occupied

LEMMA DropKeepsWaiting == ASSUME CommonInv, SocketDrops PROVE WaitingInv'
<1>1. /\ taken' = taken + 1
      /\ UNCHANGED <<arrived, evicted, window, next_expected, pc, ready>>
  BY DEF SocketDrops, vars, trackerVars, feedVars
<1>2. ArrivedInv /\ WaitingInv /\ taken \in Nat
  BY DEF CommonInv, ArrivedInv
<1>3. Cardinality(arrived) <= taken /\ Cardinality(arrived) \in Nat
  BY <1>2, FS_CardinalityType DEF ArrivedInv
<1>4. ~Lossless'
  BY <1>1, <1>2, <1>3 DEF Lossless
<1> QED
  BY <1>1, <1>2, <1>4 DEF WaitingInv, Holds, Occupied

LEMMA OtherStepKeepsWaiting ==
  ASSUME CommonInv, [SimNext]_simVars, UNCHANGED <<taken, arrived, evicted>>,
         pc' = "select" => ready' = <<>>,
         \A m \in arrived : m < next_expected \/ Holds(window, m)
                              => m < next_expected' \/ Holds(window', m)
  PROVE  WaitingInv'
<1>1. held \subseteq held' /\ lost \subseteq lost'
  BY SimHistoryGrows DEF CommonInv
<1>2. WaitingInv
  BY DEF CommonInv
<1>3. \A m \in arrived' \ evicted' : m < next_expected' \/ Holds(window', m)
  BY <1>2 DEF WaitingInv
<1>4. ASSUME Lossless', ~LongBurst' PROVE evicted' = {}
  <2>1. Lossless /\ ~LongBurst
    BY <1>1, <1>4 DEF Lossless, LongBurst
  <2> QED
    BY <1>2, <2>1 DEF WaitingInv
<1> QED
  BY <1>3, <1>4 DEF WaitingInv, Holds, Occupied

\* A replayed frame: nothing is stored, and nothing that waits is lost.
LEMMA ReplayKeepsArrivals ==
  ASSUME CommonInv, Replay, NEW S \in SUBSET Nat
  PROVE  /\ \A i \in Slots : Occupied(window', i) => window'[i] = window[i]
         /\ \A m \in S : m < next_expected \/ Holds(window, m)
                           => m < next_expected' \/ Holds(window', m)
<1> DEFINE f == Head(payload)
<1>1. FromSession(f) /\ f.seq <= next_expected
  BY ReplayedIsNotAhead DEF Replay, CommonInv
<1>2. f \in Frame /\ f.seq \in Nat /\ next_expected \in Nat /\ TrackerInv
  BY <1>1, FromSessionIsFrame, FrameSeq DEF CommonInv, FeedInv, TrackerInv, TrackerTypeOK
<1>3. Push(f)
  BY DEF Replay
<1> HIDE DEF f
<1>4. ~PushAhead(f)
  BY <1>1, <1>2 DEF PushAhead
<1>5. \A i \in Slots : Occupied(window', i) => window'[i] = window[i]
  BY <1>2, <1>3, <1>4, PushStoresNothing
<1> DEFINE T == {m \in S : m < next_expected \/ Holds(window, m)}
<1>6. T \in SUBSET Nat /\ \A m \in T : m < next_expected \/ Holds(window, m)
  OBVIOUS
<1> HIDE DEF T
<1>7. \A m \in T : m < next_expected' \/ Holds(window', m)
  BY <1>2, <1>3, <1>4, <1>6, PushKeepsWaiting
<1> QED
  BY <1>5, <1>7 DEF T

LEMMA ArrivedAreNumbers == ASSUME CommonInv PROVE arrived \in SUBSET Nat
<1>1. SimInv /\ ArrivedInv /\ sent \in Seq(Nat)
  BY DEF CommonInv, SimInv, SimTypeOK
<1>2. \A k \in 1 .. taken : sent[k] \in Nat
  BY <1>1 DEF ArrivedInv
<1> QED
  BY <1>1, <1>2 DEF ArrivedInv

LEMMA AllStepKeepsCommon == ASSUME CommonInv, [AllNext]_allVars PROVE CommonInv'
<1>1. FeedInv' /\ RecoveryInv' /\ SimInv'
  BY AllStepKeepsFeed
<1>2. [SimNext]_simVars
  BY AllStepIsStep DEF CommonInv, ArrivedInv
<1>3. ArrivedInv' /\ WaitingInv'
  <2>1. CASE TakeDatagram
    BY <2>1, TakeKeepsArrived, TakeKeepsWaiting
  <2>2. CASE SocketDrops
    BY <2>2, DropKeepsArrived, DropKeepsWaiting
  <2>3. CASE HandlerStep /\ Replay
    <3>1. UNCHANGED <<taken, arrived, evicted, last, pc>> /\ pc = "replay"
      BY <2>3 DEF HandlerStep, Replay
    <3>2. /\ \A i \in Slots : Occupied(window', i) => window'[i] = window[i]
          /\ \A m \in arrived : m < next_expected \/ Holds(window, m)
                                  => m < next_expected' \/ Holds(window', m)
      BY <2>3, ReplayKeepsArrivals, ArrivedAreNumbers
    <3> QED
      BY <1>2, <3>1, <3>2, OtherStepKeepsArrived, OtherStepKeepsWaiting
  <2>4. ASSUME UNCHANGED <<taken, arrived, evicted, last, next_expected, window>>,
               pc' = "select" => ready' = <<>>
        PROVE  ArrivedInv' /\ WaitingInv'
    <3>1. /\ \A i \in Slots : Occupied(window', i) => window'[i] = window[i]
          /\ \A m \in arrived : m < next_expected \/ Holds(window, m)
                                  => m < next_expected' \/ Holds(window', m)
      BY <2>4 DEF Occupied, Holds
    <3> QED
      BY <1>2, <2>4, <3>1, OtherStepKeepsArrived, OtherStepKeepsWaiting
  <2>5. CASE HandlerStep /\ ~Replay
    <3>1. UNCHANGED <<taken, arrived, evicted, last, next_expected, window>>
      BY <2>5 DEF HandlerStep, FeedStep, Drain, ClearReady, Connect, ConnectFails, ResponseFails,
         ReceivePayload, FinishRecovery, ClearGap, trackerVars
    <3>2. pc' = "select" => ready' = <<>>
      BY <2>5 DEF HandlerStep, FeedStep, Drain, ClearReady, Connect, ConnectFails, ResponseFails,
         ReceivePayload, FinishRecovery
    <3> QED
      BY <2>4, <3>1, <3>2
  <2>6. CASE HandlerLeaves \/ ServeRecovery \/ SimulatorStep \/ SimulatorStops \/ ServerStarts
               \/ AllTerminated \/ UNCHANGED allVars
    <3>1. UNCHANGED <<taken, arrived, evicted, last, next_expected, window, ready>>
          /\ (pc' = pc \/ pc' = "done")
      BY <2>6 DEF HandlerLeaves, LeaveLoop, ServeRecovery, Serve, SimulatorStep, SimulatorStops,
         ServerStarts, StopServer, AllTerminated, allVars, linkVars, vars, trackerVars, feedVars
    <3> QED
      BY <2>4, <3>1 DEF CommonInv, WaitingInv
  <2> QED
    BY <2>1, <2>2, <2>3, <2>5, <2>6 DEF AllNext
<1> QED
  BY <1>1, <1>3 DEF CommonInv

LEMMA AllInitSatisfiesCommon == ASSUME AllInit PROVE CommonInv
<1>1. FeedInv /\ RecoveryInv /\ SimInv
  BY FeedInitSatisfiesInv, InitSatisfiesRecovery, SimInitSatisfiesInv DEF AllInit
<1>2. /\ taken = 0 /\ arrived = {} /\ evicted = {} /\ last = 0 /\ ready = <<>> /\ sent = <<>>
      /\ \A i \in Slots : ~Occupied(window, i)
  BY DEF AllInit, FeedInit, TrackerInit, SimInit, Occupied
<1>3. IsFiniteSet({}) /\ Cardinality({}) = 0
  BY FS_EmptySet
<1>4. ArrivedInv
  BY <1>2, <1>3 DEF ArrivedInv
<1>5. WaitingInv
  BY <1>2 DEF WaitingInv
<1> QED
  BY <1>1, <1>4, <1>5 DEF CommonInv

\* The expected number arrived only if it was evicted.
LEMMA ExpectedIsMissing ==
  ASSUME CommonInv, next_expected \in arrived
  PROVE  next_expected \in evicted
<1>1. next_expected \in Nat /\ WindowAhead
  BY DEF CommonInv, FeedInv, TrackerInv, TrackerTypeOK
<1>2. ~Holds(window, next_expected)
  <2> SUFFICES ASSUME Holds(window, next_expected) PROVE FALSE
    OBVIOUS
  <2>1. SlotOf(next_expected) \in Slots
    BY <1>1, SlotInRange
  <2>2. next_expected > next_expected
    BY <1>1, <2>1 DEF Holds, WindowAhead
  <2> QED
    BY <1>1, <2>2
<1> QED
  BY <1>1, <1>2 DEF CommonInv, WaitingInv

\* The same of the next state.
LEMMA ExpectedIsMissingNext ==
  ASSUME CommonInv', next_expected' \in arrived'
  PROVE  next_expected' \in evicted'
<1>1. next_expected' \in Nat /\ WindowAhead'
  BY DEF CommonInv, FeedInv, TrackerInv, TrackerTypeOK
<1>2. ~Holds(window', next_expected')
  <2> SUFFICES ASSUME Holds(window', next_expected') PROVE FALSE
    OBVIOUS
  <2>1. SlotOf(next_expected') \in Slots
    BY <1>1, SlotInRange
  <2>2. next_expected' > next_expected'
    BY <1>1, <2>1 DEF Holds, Occupied, WindowAhead
  <2> QED
    BY <1>1, <2>2
<1> QED
  BY <1>1, <1>2 DEF CommonInv, WaitingInv, Holds, Occupied

(***************************************************************************)
(* The reorder window covers short bursts, for every session, window and   *)
(* choice of delays, and whether or not recovery works: without losses,    *)
(* nothing is evicted and the whole session is handled, unless all but one *)
(* of a window's datagrams were held back in a row.                        *)
(***************************************************************************)
THEOREM WindowCoversShortBursts == AllSpec => []ShortBurstsHeal
<1>1. AllInit => CommonInv
  BY AllInitSatisfiesCommon
<1>2. CommonInv /\ [AllNext]_allVars => CommonInv'
  BY AllStepKeepsCommon
<1>3. CommonInv => ShortBurstsHeal
  <2> SUFFICES ASSUME CommonInv, Lossless, ~LongBurst
               PROVE  /\ evicted = {}
                      /\ spc = "sleep" /\ taken = Len(sent) /\ pc = "select" => Len(handled) = Count
    BY DEF ShortBurstsHeal
  <2>1. evicted = {}
    BY DEF CommonInv, WaitingInv
  <2>2. ASSUME spc = "sleep", taken = Len(sent), pc = "select" PROVE Len(handled) = Count
    <3>1. /\ Len(handled) \in Nat /\ Len(handled) + 1 = next_expected
          /\ next_expected <= Len(Session) + 1 /\ next_expected \in Nat \ {0} /\ Len(Session) \in Nat
      <4>1. ready = <<>> /\ Len(ready) = 0
        BY <2>2 DEF CommonInv, WaitingInv
      <4>2. /\ Len(handled) \in Nat /\ Len(handled) + Len(ready) + 1 = next_expected
            /\ next_expected <= Len(Session) + 1 /\ next_expected \in Nat \ {0}
        BY DEF CommonInv, FeedInv, TrackerInv, TrackerTypeOK, HandledInv, BufferInv, FeedTypeOK
      <4> QED
        BY <4>1, <4>2, SessionLen
    <3>2. arrived = {sent[k] : k \in 1 .. Len(sent)} /\ lost = {}
      BY <2>2 DEF CommonInv, ArrivedInv, Lossless
    <3>3. 1 .. Count \subseteq arrived
      <4>1. SentInBursts /\ sent \in Seq(Nat)
        BY SimInvImpliesBursts DEF CommonInv, SimInv, SimTypeOK
      <4>2. ToSet(sent) = {sent[k] : k \in 1 .. Len(sent)}
        BY <4>1 DEF ToSet
      <4> QED
        BY <2>2, <3>2, <4>1, <4>2 DEF SentInBursts, SentOnce
    <3>4. next_expected \notin 1 .. Count
      BY <2>1, <3>3, ExpectedIsMissing
    <3> QED
      BY <3>1, <3>4, CompositionAssumption
  <2> QED
    BY <2>1, <2>2
<1> QED
  BY <1>1, <1>2, <1>3, PTL DEF AllSpec

\* The state that the steps below rely on.
LEMMA ReadTypes ==
  ASSUME CommonInv
  PROVE  /\ next_expected \in Nat \ {0} /\ last \in Nat
         /\ gap_start \in Nat /\ gap_end \in Nat
         /\ gap_start # 0 => gap_start <= next_expected /\ next_expected <= gap_end
         /\ arrived \in SUBSET Nat
         /\ outcome \in {"none", "failed", "partial", "complete"}
BY ArrivedAreNumbers, SessionLen
   DEF CommonInv, FeedInv, FeedTypeOK, TrackerInv, TrackerTypeOK, GapCoversExpected

\* The push of the expected number ends behind that number or behind one that arrived, and
\* closes the gap exactly when it gets past its end.
LEMMA ExpectedPushReach ==
  ASSUME CommonInv, NEW f \in Frame, PushExpected(f)
  PROVE  /\ next_expected' \in Nat /\ next_expected' > next_expected /\ f.seq = next_expected
         /\ next_expected' = next_expected + 1 \/ next_expected' - 1 \in arrived
         /\ gap_start = 0 => gap_start' = 0
         /\ gap_start # 0 /\ next_expected' > gap_end => gap_start' = 0
         /\ gap_start # 0 /\ ~(next_expected' > gap_end) => UNCHANGED <<gap_start, gap_end>>
<1>1. TrackerInv /\ next_expected \in Nat \ {0}
  BY ReadTypes DEF CommonInv, FeedInv
<1>2. /\ next_expected' \in Nat /\ next_expected' > next_expected
      /\ next_expected' = next_expected + 1 \/ Holds(window, next_expected' - 1)
  BY <1>1, ExpectedPushFlushes
<1>3. ASSUME Holds(window, next_expected' - 1) PROVE next_expected' - 1 \in arrived
  <2>1. SlotOf(next_expected' - 1) \in Slots
    BY <1>1, <1>2, SlotInRange
  <2> QED
    BY <1>3, <2>1 DEF Holds, CommonInv, ArrivedInv
<1>4. /\ f.seq = next_expected
      /\ gap_start' = IF gap_start # 0 /\ next_expected' > gap_end THEN 0 ELSE gap_start
      /\ gap_end' = IF gap_start # 0 /\ next_expected' > gap_end THEN 0 ELSE gap_end
  BY DEF PushExpected, GapClosed
<1> QED
  BY <1>2, <1>3, <1>4

LEMMA TakeKeepsServed ==
  ASSUME CommonInv, ServedInv, GapInv, TakeDatagram
  PROVE  ServedInv' /\ GapInv'
<1> DEFINE s == sent[taken + 1]
<1>1. s \in 1 .. Len(Session) /\ s \notin arrived
  BY TakenIsNew
<1>2. /\ arrived' = arrived \cup {s} /\ Push(Session[s]) /\ last' = s /\ outcome' = "none"
      /\ pc = "select" /\ pc' = IF gap_start' # 0 THEN "recover" ELSE "drain"
      /\ unserved' = unserved /\ evicted \subseteq evicted'
  BY DEF TakeDatagram, Receive
<1>3. Session[s] \in Frame /\ Session[s].seq = s /\ s \in Nat
  BY <1>1, SessionFrame, SessionLen
<1>4. /\ next_expected \in Nat \ {0} /\ gap_start \in Nat /\ gap_end \in Nat /\ arrived \in SUBSET Nat
      /\ gap_start # 0 => next_expected <= gap_end
  BY ReadTypes
<1>5. /\ gap_start = 0 => \A m \in arrived : m <= next_expected
      /\ gap_start # 0 => gap_end + 1 \in arrived /\ \A m \in arrived : m <= gap_end + 1
      /\ next_expected - 1 \in arrived \cup {0} \/ next_expected \in evicted
  BY <1>2 DEF GapInv
<1> HIDE DEF s
<1>6. ASSUME next_expected' \in Nat, next_expected <= next_expected' PROVE ServedInv'
  BY <1>2, <1>4, <1>6 DEF ServedInv
<1>7. ASSUME gap_start' = 0 => \A m \in arrived' : m <= next_expected',
             gap_start' # 0 => gap_end' + 1 \in arrived' /\ \A m \in arrived' : m <= gap_end' + 1,
             next_expected' - 1 \in arrived' \cup {0} \/ next_expected' \in evicted'
      PROVE  GapInv'
  BY <1>2, <1>7 DEF GapInv
<1>8. CASE PushExpected(Session[s])
  <2>1. /\ next_expected' \in Nat /\ next_expected' > next_expected /\ s = next_expected
        /\ next_expected' = next_expected + 1 \/ next_expected' - 1 \in arrived
        /\ gap_start = 0 => gap_start' = 0
        /\ gap_start # 0 /\ next_expected' > gap_end => gap_start' = 0
        /\ gap_start # 0 /\ ~(next_expected' > gap_end) => UNCHANGED <<gap_start, gap_end>>
    BY <1>3, <1>8, ExpectedPushReach
  <2>2. next_expected <= next_expected' /\ next_expected' - 1 \in arrived'
    <3>1. next_expected <= next_expected'
      BY <1>4, <2>1
    <3>2. next_expected' = next_expected + 1 => next_expected' - 1 = s
      BY <1>4, <2>1
    <3> QED
      BY <1>2, <2>1, <3>1, <3>2
  <2>3. CASE gap_start = 0
    <3>1. gap_start' = 0 /\ \A m \in arrived' : m <= next_expected'
      BY <1>2, <1>4, <1>5, <2>1, <2>3
    <3> QED
      BY <1>6, <1>7, <2>1, <2>2, <3>1
  <2>4. CASE gap_start # 0 /\ next_expected' > gap_end
    <3>1. gap_start' = 0 /\ \A m \in arrived' : m <= next_expected'
      BY <1>2, <1>4, <1>5, <2>1, <2>4
    <3> QED
      BY <1>6, <1>7, <2>1, <2>2, <3>1
  <2>5. CASE gap_start # 0 /\ ~(next_expected' > gap_end)
    <3>1. gap_start' # 0 /\ gap_end' + 1 \in arrived' /\ \A m \in arrived' : m <= gap_end' + 1
      BY <1>2, <1>4, <1>5, <2>1, <2>5
    <3> QED
      BY <1>6, <1>7, <2>1, <2>2, <3>1
  <2> QED
    BY <2>3, <2>4, <2>5
<1>9. CASE PushOld(Session[s])
  <2>1. UNCHANGED <<next_expected, gap_start, gap_end>> /\ s < next_expected
    BY <1>3, <1>9 DEF PushOld, gapVars
  <2>2. gap_start = 0 => \A m \in arrived' : m <= next_expected
    BY <1>2, <1>3, <1>4, <1>5, <2>1
  <2>3. gap_start # 0 => gap_end + 1 \in arrived' /\ \A m \in arrived' : m <= gap_end + 1
    BY <1>2, <1>3, <1>4, <1>5, <2>1
  <2>4. next_expected - 1 \in arrived' \cup {0} \/ next_expected \in evicted'
    BY <1>2, <1>5
  <2> QED
    BY <1>4, <1>6, <1>7, <2>1, <2>2, <2>3, <2>4
<1>10. CASE PushAhead(Session[s])
  <2>1. /\ UNCHANGED next_expected /\ s > next_expected
        /\ gap_start' = IF gap_start = 0 THEN next_expected ELSE gap_start
        /\ gap_end' = IF gap_start = 0 \/ s - 1 > gap_end THEN s - 1 ELSE gap_end
    BY <1>3, <1>10 DEF PushAhead, WidenGap
  <2>2. gap_start' # 0
    BY <1>4, <2>1
  <2>3. CASE gap_start = 0 \/ s - 1 > gap_end
    <3>1. gap_end' + 1 = s
      BY <1>3, <2>1, <2>3
    <3>2. \A m \in arrived : m <= s
      BY <1>3, <1>4, <1>5, <2>1, <2>3
    <3>3. gap_end' + 1 \in arrived' /\ \A m \in arrived' : m <= gap_end' + 1
      BY <1>2, <1>3, <3>1, <3>2
    <3> QED
      BY <1>2, <1>4, <1>5, <1>6, <1>7, <2>1, <2>2, <3>3
  <2>4. CASE ~(gap_start = 0 \/ s - 1 > gap_end)
    <3>1. gap_end' = gap_end /\ s <= gap_end + 1
      BY <1>3, <1>4, <2>1, <2>4
    <3>2. gap_end' + 1 \in arrived' /\ \A m \in arrived' : m <= gap_end' + 1
      BY <1>2, <1>5, <2>4, <3>1
    <3> QED
      BY <1>2, <1>4, <1>5, <1>6, <1>7, <2>1, <2>2, <3>2
  <2> QED
    BY <2>3, <2>4
<1> QED
  BY <1>2, <1>8, <1>9, <1>10 DEF Push

\* The payload of a recovery that is served is the whole gap.
LEMMA PayloadKeepsServed ==
  ASSUME ~LinkFaults, CommonInv, ServedInv, GapInv, HandlerStep, ReceivePayload
  PROVE  ServedInv' /\ GapInv'
<1>1. /\ pc = "await" /\ conn.state = "answered" /\ pc' = "replay"
      /\ payload' = SubSeq(conn.frames, 1, Len(conn.frames)) /\ outcome' = "complete"
      /\ unserved' = unserved
      /\ UNCHANGED <<next_expected, gap_start, gap_end, last, arrived, evicted>>
  BY DEF HandlerStep, ReceivePayload, trackerVars, gapVars
<1>2. conn.frames = SubSeq(Session, gap_start, gap_end) /\ gap_start # 0 /\ gap_end <= Len(Session)
  BY <1>1 DEF CommonInv, RecoveryInv
<1>3. gap_start <= gap_end /\ gap_start \in Nat \ {0} /\ gap_end \in Nat
  BY <1>2, ReadTypes
<1>4. \A i \in gap_start .. gap_end : i \in 1 .. Len(Session) /\ Session[i] \in Frame
                                        /\ Session[i].seq = i
  BY <1>2, <1>3, SessionFrame, SessionLen
<1>5. /\ conn.frames \in Seq(Frame)
      /\ Len(conn.frames) = gap_end - gap_start + 1
      /\ \A i \in 1 .. (gap_end - gap_start + 1) : conn.frames[i] = Session[gap_start + i - 1]
  BY <1>2, <1>3, <1>4, SubSeqProperties
<1>6. payload' = conn.frames
  BY <1>1, <1>5
<1>7. ASSUME NEW i \in 1 .. Len(payload') PROVE payload'[i].seq = gap_start + i - 1
  <2>1. i \in 1 .. (gap_end - gap_start + 1) /\ gap_start + i - 1 \in gap_start .. gap_end
    BY <1>3, <1>5, <1>6
  <2> QED
    BY <1>4, <1>5, <1>6, <2>1
<1>8. \A i \in 1 .. Len(payload') : payload'[i].seq <= gap_end
  BY <1>3, <1>5, <1>6, <1>7
<1>9. payload' # <<>> /\ payload'[Len(payload')].seq = gap_end
  <2>1. Len(payload') \in 1 .. Len(payload') /\ gap_start + Len(payload') - 1 = gap_end
    BY <1>3, <1>5, <1>6
  <2> QED
    BY <1>7, <2>1
<1>10. ReplayReach'
  BY <1>1, <1>2, <1>8, <1>9 DEF ReplayReach
<1> QED
  BY <1>1, <1>2, <1>10 DEF ServedInv, GapInv

LEMMA ReplayKeepsServed ==
  ASSUME CommonInv, CommonInv', ServedInv, GapInv, HandlerStep, Replay
  PROVE  ServedInv' /\ GapInv'
<1> DEFINE f == Head(payload)
<1>1. /\ pc = "replay" /\ payload # <<>> /\ Push(f) /\ payload' = Tail(payload)
      /\ outcome = "complete" /\ ReplayReach
      /\ unserved' = unserved
      /\ UNCHANGED <<pc, last, outcome, arrived, evicted>>
  BY DEF HandlerStep, Replay, GapInv
<1>2. FromSession(f) /\ f.seq <= next_expected
  BY <1>1, ReplayedIsNotAhead DEF CommonInv
<1>3. f \in Frame /\ f.seq \in Nat /\ payload \in Seq(Frame)
  BY <1>2, FromSessionIsFrame, FrameSeq DEF CommonInv, FeedInv, FeedTypeOK
<1>4. /\ next_expected \in Nat \ {0} /\ arrived \in SUBSET Nat /\ gap_end \in Nat
      /\ gap_start # 0 => next_expected <= gap_end
  BY ReadTypes
<1>5. /\ f = payload[1] /\ 1 \in 1 .. Len(payload)
      /\ Len(payload') = Len(payload) - 1 /\ Len(payload) \in Nat
      /\ \A i \in 1 .. Len(payload') : i + 1 \in 1 .. Len(payload) /\ payload'[i] = payload[i + 1]
  BY <1>1, <1>3
<1>6. /\ gap_start = 0 => \A m \in arrived : m <= next_expected
      /\ gap_start # 0 => gap_end + 1 \in arrived /\ \A m \in arrived : m <= gap_end + 1
      /\ gap_start = 0 => next_expected - 1 \in arrived \cup {0} \/ next_expected \in evicted
  BY DEF GapInv
<1>7. \A i \in 1 .. Len(payload') : payload'[i].seq \in Nat
  <2> SUFFICES ASSUME NEW i \in 1 .. Len(payload') PROVE payload'[i].seq \in Nat
    OBVIOUS
  <2>1. payload'[i] \in Frame
    BY <1>3, <1>5
  <2> QED
    BY <2>1, FrameSeq
<1>8. \A i \in 1 .. Len(payload') :
        payload'[i].seq < next_expected \/ (gap_start # 0 /\ payload'[i].seq <= gap_end)
  BY <1>1, <1>5 DEF ReplayReach
<1>9. f.seq < next_expected \/ (gap_start # 0 /\ f.seq <= gap_end)
  BY <1>1, <1>5 DEF ReplayReach
<1> HIDE DEF f
<1>10. CASE PushExpected(f)
  <2>1. /\ next_expected' \in Nat /\ next_expected' > next_expected /\ f.seq = next_expected
        /\ next_expected' = next_expected + 1 \/ next_expected' - 1 \in arrived
        /\ gap_start # 0 /\ next_expected' > gap_end => gap_start' = 0
        /\ gap_start # 0 /\ ~(next_expected' > gap_end) => UNCHANGED <<gap_start, gap_end>>
    BY <1>3, <1>10, ExpectedPushReach
  <2>2. gap_start # 0
    BY <1>4, <1>9, <2>1
  <2>3. \A m \in arrived : m < next_expected => m < next_expected'
    BY <1>4, <2>1
  <2>4. ServedInv'
    BY <1>1, <2>3 DEF ServedInv
  <2>5. CASE next_expected' > gap_end
    <3>1. gap_start' = 0 /\ \A m \in arrived : m <= next_expected'
      BY <1>4, <1>6, <2>1, <2>2, <2>5
    <3>2. \A i \in 1 .. Len(payload') : payload'[i].seq < next_expected'
      BY <1>4, <1>7, <1>8, <2>1, <2>5
    <3>3. next_expected' - 1 \in arrived \/ next_expected' \in evicted
      <4>1. CASE next_expected' = next_expected + 1
        <5>1. next_expected' = gap_end + 1
          BY <1>4, <2>1, <2>2, <2>5, <4>1
        <5>2. next_expected' \in arrived'
          BY <1>1, <1>6, <2>2, <5>1
        <5>3. (next_expected \in evicted)'
          BY <5>2, ExpectedIsMissingNext
        <5> QED
          BY <1>1, <5>3
      <4> QED
        BY <2>1, <4>1
    <3>4. ReplayReach'
      BY <3>1, <3>2 DEF ReplayReach
    <3> QED
      BY <1>1, <2>4, <3>1, <3>3, <3>4 DEF GapInv
  <2>6. CASE ~(next_expected' > gap_end)
    <3>1. UNCHANGED <<gap_start, gap_end>>
      BY <2>1, <2>2, <2>6
    <3>2. Len(payload) # 1
      <4> SUFFICES ASSUME Len(payload) = 1 PROVE FALSE
        OBVIOUS
      <4>1. f.seq = gap_end
        BY <1>1, <1>5, <2>2 DEF ReplayReach, f
      <4> QED
        BY <1>4, <2>1, <2>6, <4>1
    <3>3. payload' # <<>> /\ payload'[Len(payload')].seq = gap_end
      <4>1. Len(payload') \in 1 .. Len(payload') /\ Len(payload') + 1 = Len(payload)
        BY <1>5, <3>2
      <4>2. payload'[Len(payload')] = payload[Len(payload)]
        BY <1>5, <4>1
      <4>3. payload' # <<>>
        BY <4>1
      <4> QED
        BY <1>1, <2>2, <4>2, <4>3 DEF ReplayReach
    <3>4. \A i \in 1 .. Len(payload') : payload'[i].seq <= gap_end
      BY <1>4, <1>7, <1>8, <2>2
    <3>5. ReplayReach'
      BY <2>2, <3>1, <3>3, <3>4 DEF ReplayReach
    <3> QED
      BY <1>1, <1>6, <2>2, <2>4, <3>1, <3>5 DEF GapInv
  <2> QED
    BY <2>5, <2>6
<1>11. CASE PushOld(f)
  <2>1. UNCHANGED <<next_expected, gap_start, gap_end>> /\ f.seq < next_expected
    BY <1>11 DEF PushOld, gapVars
  <2>2. ReplayReach'
    <3>1. CASE gap_start = 0
      BY <1>8, <2>1, <3>1 DEF ReplayReach
    <3>2. CASE gap_start # 0
      <4>1. Len(payload) # 1
        <5> SUFFICES ASSUME Len(payload) = 1 PROVE FALSE
          OBVIOUS
        <5>1. f.seq = gap_end
          BY <1>1, <1>5, <3>2 DEF ReplayReach, f
        <5> QED
          BY <1>4, <2>1, <3>2, <5>1
      <4>2. Len(payload') \in 1 .. Len(payload') /\ Len(payload') + 1 = Len(payload)
        BY <1>5, <4>1
      <4>3. payload'[Len(payload')] = payload[Len(payload)] /\ payload' # <<>>
        BY <1>5, <4>2
      <4>4. payload'[Len(payload')].seq = gap_end
        BY <1>1, <3>2, <4>3 DEF ReplayReach
      <4> QED
        BY <1>8, <2>1, <4>3, <4>4 DEF ReplayReach
    <3> QED
      BY <3>1, <3>2
  <2> QED
    BY <1>1, <1>6, <2>1, <2>2 DEF ServedInv, GapInv
<1>12. ~PushAhead(f)
  BY <1>2, <1>3, <1>4 DEF PushAhead
<1> QED
  BY <1>1, <1>10, <1>11, <1>12 DEF Push

\* The other steps of try_recover(), and the end of process_datagram().
LEMMA HandlerKeepsServed ==
  ASSUME ~LinkFaults, CommonInv, CommonInv', ServedInv, GapInv, HandlerStep
  PROVE  ServedInv' /\ GapInv'
<1>1. next_expected \in Nat \ {0} /\ last \in Nat /\ outcome \in {"none", "failed", "complete"}
  BY ReadTypes DEF ServedInv
<1>2. /\ UNCHANGED <<arrived, evicted>>
      /\ unserved' = IF outcome' = "failed" THEN unserved \cup {last} ELSE unserved
  BY DEF HandlerStep
<1>3. CASE Drain
  <2>1. /\ pc = "drain" /\ pc' = "select"
        /\ UNCHANGED <<next_expected, gap_start, gap_end, last, outcome>>
    BY <1>3 DEF Drain, ClearReady, gapVars
  <2>2. outcome \in {"none", "complete"} => next_expected > last
    BY <2>1 DEF CommonInv, RecoveryInv
  <2>3. unserved' = unserved
    BY <1>2, <2>1 DEF ServedInv
  <2>4. last < next_expected \/ last \in unserved
    BY <1>1, <2>2 DEF ServedInv
  <2> QED
    BY <1>2, <2>1, <2>3, <2>4 DEF ServedInv, GapInv
<1>4. CASE Connect
  <2>1. /\ pc = "recover" /\ pc' = "await"
        /\ UNCHANGED <<next_expected, gap_start, gap_end, last, outcome>>
    BY <1>4 DEF Connect, trackerVars, gapVars
  <2>2. outcome = "none"
    BY <2>1 DEF CommonInv, RecoveryInv
  <2> QED
    BY <1>2, <2>1, <2>2 DEF ServedInv, GapInv
<1>5. CASE ConnectFails \/ ResponseFails
  <2>1. /\ pc \in {"recover", "await"} /\ pc' = "drain" /\ outcome' = "failed"
        /\ UNCHANGED <<next_expected, gap_start, gap_end, last>>
    BY <1>5 DEF ConnectFails, ResponseFails, trackerVars, gapVars
  <2>2. unserved' = unserved \cup {last}
    BY <1>2, <2>1
  <2> QED
    BY <1>2, <2>1, <2>2 DEF ServedInv, GapInv
<1>6. CASE FinishRecovery
  <2>1. /\ pc = "replay" /\ pc' = "drain" /\ gap_start' = 0 /\ payload = <<>>
        /\ UNCHANGED <<next_expected, last, outcome>>
    BY <1>6 DEF FinishRecovery, ClearGap
  <2>2. outcome = "complete" /\ gap_start = 0
    BY <2>1 DEF GapInv, ReplayReach
  <2>3. unserved' = unserved
    BY <1>2, <2>1, <2>2
  <2> QED
    BY <1>2, <2>1, <2>2, <2>3 DEF ServedInv, GapInv
<1> QED
  BY <1>3, <1>4, <1>5, <1>6, PayloadKeepsServed, ReplayKeepsServed DEF HandlerStep, FeedStep

LEMMA AllStepKeepsServed ==
  ASSUME ~LinkFaults, CommonInv, ServedInv, GapInv, [AllNext]_allVars
  PROVE  ServedInv' /\ GapInv'
<1>1. CASE ServeRecovery \/ SimulatorStops \/ ServerStarts \/ SocketDrops \/ SimulatorStep
             \/ AllTerminated \/ UNCHANGED allVars
  <2>1. UNCHANGED <<next_expected, gap_start, gap_end, last, outcome, pc, payload, arrived,
                    unserved, evicted>>
    BY <1>1 DEF ServeRecovery, Serve, SimulatorStops, StopServer, ServerStarts, SocketDrops,
       SimulatorStep, AllTerminated, allVars, vars, trackerVars, gapVars, feedVars, linkVars
  <2> QED
    BY <2>1 DEF ServedInv, GapInv, ReplayReach
<1>2. CASE HandlerLeaves
  <2>1. /\ pc = "select" /\ pc' = "done"
        /\ UNCHANGED <<next_expected, gap_start, gap_end, last, outcome, payload, arrived, unserved,
                       evicted>>
    BY <1>2 DEF HandlerLeaves, LeaveLoop, trackerVars, gapVars, linkVars
  <2> QED
    BY <2>1 DEF ServedInv, GapInv
<1>3. CommonInv'
  BY AllStepKeepsCommon
<1> QED
  BY <1>1, <1>2, <1>3, TakeKeepsServed, HandlerKeepsServed DEF AllNext

(***************************************************************************)
(* What the handler has handled whenever it waits for a datagram, when TCP *)
(* fails only because the simulator's server does not listen yet, did not  *)
(* get its port or was stopped: it ends at a number that arrived or before *)
(* one that was evicted; a number that arrived is missing only when its    *)
(* recovery failed, and then the latest recovery failed too, or it was     *)
(* evicted; and the next number did not arrive unless it was evicted.      *)
(***************************************************************************)
THEOREM HandlerHandlesExactly == ASSUME ~LinkFaults PROVE AllSpec => []HandledExactly
<1>1. AllInit => CommonInv /\ ServedInv /\ GapInv
  <2> SUFFICES ASSUME AllInit PROVE CommonInv /\ ServedInv /\ GapInv
    OBVIOUS
  <2>1. /\ arrived = {} /\ unserved = {} /\ outcome = "none"
        /\ gap_start = 0 /\ pc = "select" /\ next_expected = 1
    BY DEF AllInit, FeedInit, TrackerInit
  <2>2. CommonInv
    BY AllInitSatisfiesCommon
  <2> QED
    BY <2>1, <2>2 DEF ServedInv, GapInv
<1>2. CommonInv /\ ServedInv /\ GapInv /\ [AllNext]_allVars => CommonInv' /\ ServedInv' /\ GapInv'
  BY AllStepKeepsCommon, AllStepKeepsServed
<1>3. CommonInv /\ ServedInv /\ GapInv => HandledExactly
  <2> SUFFICES ASSUME CommonInv, ServedInv, GapInv, pc = "select" PROVE HandledExactly
    BY DEF HandledExactly
  <2>1. Len(handled) = next_expected - 1 /\ Len(handled) + 1 = next_expected
        /\ next_expected \in Nat /\ arrived \in SUBSET Nat
    <3>1. ready = <<>> /\ Len(ready) = 0
      BY DEF CommonInv, WaitingInv
    <3>2. Len(handled) \in Nat /\ Len(handled) + Len(ready) + 1 = next_expected
      BY DEF CommonInv, FeedInv, HandledInv, FeedTypeOK
    <3> QED
      BY <3>1, <3>2, ReadTypes
  <2>2. Len(handled) \in arrived \cup {0} \/ Len(handled) + 1 \in evicted
    BY <2>1 DEF GapInv
  <2>3. ASSUME NEW m \in arrived, ~(m <= Len(handled))
        PROVE  m \in unserved /\ (outcome = "failed" \/ m \in evicted)
    <3>1. m \in Nat /\ ~(m < next_expected)
      BY <2>1, <2>3
    <3>2. m \in unserved
      BY <3>1 DEF ServedInv
    <3>3. CASE gap_start # 0
      BY <3>2, <3>3 DEF ServedInv
    <3>4. CASE gap_start = 0
      <4>1. m = next_expected
        BY <2>1, <3>1, <3>4 DEF GapInv
      <4> QED
        BY <3>2, <4>1, ExpectedIsMissing
    <3> QED
      BY <3>3, <3>4
  <2>4. Len(handled) + 1 \in arrived => Len(handled) + 1 \in evicted
    BY <2>1, ExpectedIsMissing
  <2> QED
    BY <2>2, <2>3, <2>4 DEF HandledExactly
<1> QED
  BY <1>1, <1>2, <1>3, PTL DEF AllSpec

(***************************************************************************)
(* The handler does not disturb the simulator, and the receive path keeps  *)
(* its promise of order against it.                                        *)
(***************************************************************************)
THEOREM CompositionKeepsParts == AllSpec => SimSpec /\ [](SentInBursts /\ DeliveredInOrder /\ CaughtUp)
<1>1. AllInit => CommonInv /\ SimInit
  BY AllInitSatisfiesCommon DEF AllInit
<1>2. CommonInv /\ [AllNext]_allVars => CommonInv' /\ [SimNext]_simVars
  BY AllStepKeepsCommon, AllStepIsStep DEF CommonInv, ArrivedInv
<1>3. CommonInv => SentInBursts /\ DeliveredInOrder /\ CaughtUp
  BY SimInvImpliesBursts, InvImpliesDelivered DEF CommonInv, RecoveryInv, CaughtUp
<1> QED
  BY <1>1, <1>2, <1>3, PTL DEF AllSpec, SimSpec
=============================================================================
