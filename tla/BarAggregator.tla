---------------------------- MODULE BarAggregator ----------------------------
(***************************************************************************)
(* mdp::BarAggregator: for each symbol an open time bar and an open volume *)
(* bar, closed and written as trades come in.  It runs on the consumer     *)
(* thread: on_trade() for each trade of the queue, in their order, and     *)
(* flush_all() once, when consumer_loop() ends.                            *)
(*                                                                         *)
(* Trades need not come with increasing time stamps, may have quantity 0,  *)
(* and may be larger than several volume bars: the loop of on_volume() is  *)
(* one step per bar.                                                       *)
(***************************************************************************)
EXTENDS Integers, Sequences, SequencesExt, FiniteSetsExt

CONSTANTS
  kMaxSymbols,      \* number of symbols (32 in the code)
  TsMod,            \* time stamps are subtracted modulo TsMod (2^64 in the code)
  time_bar_ns,      \* time_bar_ns_
  volume_bar_qty,   \* volume_bar_qty_
  Trades,           \* trades that may come out of the queue
  MaxTrades         \* bound: number of trades

Symbols == 0 .. (kMaxSymbols - 1)

\* With volume_bar_qty 0 the loop of on_volume() would not end.
ASSUME BarAssumption ==
  /\ kMaxSymbols \in Nat /\ TsMod \in Nat \ {0} /\ time_bar_ns \in Nat
  /\ volume_bar_qty \in Nat \ {0} /\ MaxTrades \in Nat
  /\ Trades \subseteq [symbol_id : Nat, price : Nat, qty : Nat, ts_ns : 0 .. (TsMod - 1)]

VARIABLES
  pc,               \* "ready" for a trade, in the loop of on_volume(), or "flushed"
  trade,            \* the trade being, or last, aggregated
  time_acc,         \* time_acc_
  vol_acc,          \* vol_acc_
  written,          \* the bars in the output file; upto is a history field: the number
                    \* of trades of the symbol so far
  seen,             \* history: the trades of each symbol
  traded,           \* history: their volume
  barred            \* history: the volume written for each symbol in bars of each type

vars == <<pc, trade, time_acc, vol_acc, written, seen, traded, barred>>

BarTypes == {"time", "volume"}

\* Acc{}
Inactive ==
  [active |-> FALSE, start_ts |-> 0, end_ts |-> 0, open |-> 0, high |-> 0, low |-> 0, close |-> 0,
   volume |-> 0]

Init ==
  /\ pc = "ready"
  /\ trade = [symbol_id |-> 0, price |-> 0, qty |-> 0, ts_ns |-> 0]
  /\ time_acc = [s \in Symbols |-> Inactive]
  /\ vol_acc = [s \in Symbols |-> Inactive]
  /\ written = <<>>
  /\ seen = [s \in Symbols |-> <<>>]
  /\ traded = [s \in Symbols |-> 0]
  /\ barred = [s \in Symbols |-> [type \in BarTypes |-> 0]]

\* The accumulator of a bar whose first trade is t.
Opened(t) ==
  [active |-> TRUE, start_ts |-> t.ts_ns, end_ts |-> t.ts_ns, open |-> t.price, high |-> t.price,
   low |-> t.price, close |-> t.price, volume |-> t.qty]

Accumulated(a, t) ==
  IF ~a.active THEN Opened(t)
  ELSE [a EXCEPT !.end_ts = t.ts_ns, !.close = t.price, !.volume = @ + t.qty,
                 !.high = IF t.price > @ THEN t.price ELSE @,
                 !.low = IF t.price < @ THEN t.price ELSE @]

\* write_bar()
Bar(s, type, a, upto) ==
  [symbol_id |-> s, bar_type |-> type, start_ts |-> a.start_ts, end_ts |-> a.end_ts, open |-> a.open,
   high |-> a.high, low |-> a.low, close |-> a.close, volume |-> a.volume, upto |-> upto]

-----------------------------------------------------------------------------
\* Mutant of TimeBarCloses: the difference is signed.
TimeBarClosesSigned(a, t) == a.active /\ t.ts_ns - a.start_ts >= time_bar_ns

\* on_time(): the difference is unsigned; the first trade of a bar never closes it.
TimeBarCloses(a, t) == a.active /\ (t.ts_ns - a.start_ts) % TsMod >= time_bar_ns

OnTime(s, t) ==
  LET a == Accumulated(time_acc[s], t)
      closes == TimeBarCloses(time_acc[s], t)
  IN  /\ time_acc' = [time_acc EXCEPT ![s] = IF closes THEN Inactive ELSE a]
      /\ written' = IF closes THEN Append(written, Bar(s, "time", a, Len(seen[s]) + 1)) ELSE written
      /\ barred' = IF closes THEN [barred EXCEPT ![s].time = @ + a.volume] ELSE barred

\* The condition of the loop of on_volume().
VolumeBarFull(a) == a.active /\ a.volume >= volume_bar_qty

\* on_trade(): on_time(), then on_volume() up to its loop.
OnTrade(t) ==
  LET s == t.symbol_id
      a == Accumulated(vol_acc[s], t)
  IN  /\ pc = "ready"
      /\ s \in Symbols
      /\ Len(seen[s]) < MaxTrades
      /\ trade' = t
      /\ seen' = [seen EXCEPT ![s] = Append(@, t)]
      /\ traded' = [traded EXCEPT ![s] = @ + t.qty]
      /\ OnTime(s, t)
      /\ vol_acc' = [vol_acc EXCEPT ![s] = a]
      /\ pc' = IF VolumeBarFull(a) THEN "volume" ELSE "ready"

\* Mutant of Leftover: what is left keeps the first trade of the bar that was written.
LeftoverKeepsOpen(a, t) ==
  IF a.volume = volume_bar_qty THEN Inactive ELSE [a EXCEPT !.volume = @ - volume_bar_qty]

\* Mutant of Leftover: the rest of the trade is dropped.
LeftoverDropped(a, t) == Inactive

\* The open bar after a full one was written: nothing, or the rest of the trade.
Leftover(a, t) ==
  IF a.volume = volume_bar_qty THEN Inactive
  ELSE [Opened(t) EXCEPT !.volume = a.volume - volume_bar_qty, !.end_ts = a.end_ts]

\* Mutant of WriteVolumeBar: the loop skips a bar whose rest fills another one.
WriteVolumeBarSkips ==
  LET s == trade.symbol_id
      full == [vol_acc[s] EXCEPT !.volume = volume_bar_qty]
      rest == Leftover(vol_acc[s], trade)
  IN  /\ pc = "volume"
      /\ \/ VolumeBarFull(rest) /\ UNCHANGED vars
         \/ /\ ~VolumeBarFull(rest)
            /\ written' = Append(written, Bar(s, "volume", full, Len(seen[s])))
            /\ barred' = [barred EXCEPT ![s].volume = @ + volume_bar_qty]
            /\ vol_acc' = [vol_acc EXCEPT ![s] = rest]
            /\ pc' = "ready"
            /\ UNCHANGED <<trade, time_acc, seen, traded>>

\* One iteration of the loop of on_volume().
WriteVolumeBar ==
  LET s == trade.symbol_id
      full == [vol_acc[s] EXCEPT !.volume = volume_bar_qty]
      rest == Leftover(vol_acc[s], trade)
  IN  /\ pc = "volume"
      /\ written' = Append(written, Bar(s, "volume", full, Len(seen[s])))
      /\ barred' = [barred EXCEPT ![s].volume = @ + volume_bar_qty]
      /\ vol_acc' = [vol_acc EXCEPT ![s] = rest]
      /\ pc' = IF VolumeBarFull(rest) THEN "volume" ELSE "ready"
      /\ UNCHANGED <<trade, time_acc, seen, traded>>

\* on_trade() returns at once when the symbol is unknown: handle_parsed() publishes
\* also the trades that the book has rejected.
IgnoreTrade(t) ==
  /\ pc = "ready"
  /\ t.symbol_id \notin Symbols
  /\ UNCHANGED vars

-----------------------------------------------------------------------------
\* A volume bar without volume is not written.
Flushes(a, type) == a.active /\ (type = "volume" => a.volume > 0)

FlushedBars(s) ==
  LET Flushed(a, type) == IF Flushes(a, type) THEN <<Bar(s, type, a, Len(seen[s]))>> ELSE <<>>
  IN  Flushed(time_acc[s], "time") \o Flushed(vol_acc[s], "volume")

FlushAll ==
  /\ pc = "ready"
  /\ pc' = "flushed"
  /\ written' = written \o FlattenSeq([i \in 1 .. kMaxSymbols |-> FlushedBars(i - 1)])
  /\ time_acc' = [s \in Symbols |-> Inactive]
  /\ vol_acc' = [s \in Symbols |-> IF Flushes(vol_acc[s], "volume") THEN Inactive ELSE vol_acc[s]]
  /\ barred' = [s \in Symbols |->
       [time |-> barred[s].time + (IF Flushes(time_acc[s], "time") THEN time_acc[s].volume ELSE 0),
        volume |-> barred[s].volume + (IF Flushes(vol_acc[s], "volume") THEN vol_acc[s].volume ELSE 0)]]
  /\ UNCHANGED <<trade, seen, traded>>

Terminated == pc = "flushed" /\ UNCHANGED vars

Next ==
  \/ \E t \in Trades : OnTrade(t) \/ IgnoreTrade(t)
  \/ WriteVolumeBar
  \/ FlushAll
  \/ Terminated

\* The consumer thread does not stop inside on_trade().
Spec == Init /\ [][Next]_vars /\ WF_vars(WriteVolumeBar)

-----------------------------------------------------------------------------
\* The bars of one symbol and type among bars, in their order.
BarsIn(bars, s, type) ==
  LET of[n \in 0 .. Len(bars)] ==
        IF n = 0 THEN <<>>
        ELSE IF bars[n].symbol_id = s /\ bars[n].bar_type = type THEN Append(of[n - 1], bars[n])
        ELSE of[n - 1]
  IN  of[Len(bars)]

Bars(s, type) == BarsIn(written, s, type)

Sum(ts) == MapThenSumSet(LAMBDA i : ts[i].qty, DOMAIN ts)

\* What a bar with the trades ts, not all of them with their whole volume, must say.
Summary(ts, volume) ==
  [start_ts |-> ts[1].ts_ns, end_ts |-> ts[Len(ts)].ts_ns,
   open |-> ts[1].price, high |-> Max({ts[i].price : i \in DOMAIN ts}),
   low |-> Min({ts[i].price : i \in DOMAIN ts}), close |-> ts[Len(ts)].price, volume |-> volume]

Says(bar, ts, volume) ==
  LET summary == Summary(ts, volume)
  IN  \A field \in DOMAIN summary : bar[field] = summary[field]

Span(ts, i, j) == (ts[j].ts_ns - ts[i].ts_ns) % TsMod

\* The time bars of a symbol cut its trades into consecutive runs and each says what its
\* run says.  A bar is closed by the first trade after its first one whose unsigned
\* distance from it reaches time_bar_ns, be it later or earlier; only flush_all() writes
\* a bar before that.
TimeBarsAreRuns ==
  \A s \in Symbols :
    LET ts == seen[s]
        bars == Bars(s, "time")
        From(k) == IF k = 1 THEN 1 ELSE bars[k - 1].upto + 1
    IN  /\ \A k \in DOMAIN bars :
             LET from == From(k)
                 upto == bars[k].upto
                 run == SubSeq(ts, from, upto)
             IN  /\ from <= upto /\ Says(bars[k], run, Sum(run))
                 /\ \A j \in (from + 1) .. (upto - 1) : Span(ts, from, j) < time_bar_ns
                 /\ \/ from < upto /\ Span(ts, from, upto) >= time_bar_ns
                    \/ pc = "flushed" /\ k = Len(bars)
        /\ LET from == From(Len(bars) + 1)
               run == SubSeq(ts, from, Len(ts))
           IN  IF run = <<>> THEN time_acc[s] = Inactive ELSE Says(time_acc[s], run, Sum(run))

\* The trades of ts that have a part in the k-th volume bar, which stands for the traded
\* volume after the first (k - 1) * volume_bar_qty and up to k * volume_bar_qty.  A trade
\* of quantity 0 has a part in the bar that is open, or opened, when it comes.
PartsOf(ts, k) ==
  LET before == [i \in DOMAIN ts |-> Sum(SubSeq(ts, 1, i - 1))]
      Part(i) == IF ts[i].qty = 0
                   THEN before[i] \div volume_bar_qty = k - 1
                   ELSE before[i] < k * volume_bar_qty
                          /\ before[i] + ts[i].qty > (k - 1) * volume_bar_qty
      parts == {i \in DOMAIN ts : Part(i)}
  IN  SubSeq(ts, Min(parts), Max(parts))

\* The k-th volume bar of a symbol says what the trades with a part in its stretch of
\* the traded volume say, and has that volume: a trade larger than a bar is in several,
\* and no volume is lost or counted twice, flush_all() included.
VolumeBarsAreStretches ==
  pc # "volume" =>
    \A s \in Symbols :
      LET ts == seen[s]
          bars == Bars(s, "volume")
          full == Sum(ts) \div volume_bar_qty
          rest == Sum(ts) % volume_bar_qty
      IN  /\ Len(bars) = full + (IF pc = "flushed" /\ rest > 0 THEN 1 ELSE 0)
          /\ \A k \in DOMAIN bars :
               Says(bars[k], PartsOf(ts, k), IF k <= full THEN volume_bar_qty ELSE rest)
          /\ pc = "ready" /\ vol_acc[s].active => Says(vol_acc[s], PartsOf(ts, full + 1), rest)
          /\ pc = "ready" /\ ~vol_acc[s].active => rest = 0

\* Every traded quantity is in exactly one time bar and in the volume bars once, also
\* between two iterations of the loop of on_volume().
VolumeIsConserved ==
  \A s \in Symbols :
    /\ barred[s].time + time_acc[s].volume = traded[s]
    /\ barred[s].volume + vol_acc[s].volume = traded[s]

\* The loop of on_volume() ends, however large the trade.
VolumeLoopEnds == (pc = "volume") ~> (pc = "ready")
=============================================================================
