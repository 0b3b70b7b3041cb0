------------------------ MODULE BarAggregatorProofs ------------------------
(***************************************************************************)
(* No traded volume is lost or counted twice by BarAggregator, and its     *)
(* bars say what the trades they stand for say, for every bar length and   *)
(* size, every clock width and whatever the trades.                        *)
(*                                                                         *)
(* VolumeIsConserved needs to know that an accumulator that is not active  *)
(* holds no volume (on_trade() overwrites it and flush_all() skips it) and *)
(* that the loop of on_volume() runs only while its bar is full, so that   *)
(* what it takes off is there.                                             *)
(*                                                                         *)
(* The bars themselves need RunsInv: the open time bar says what the       *)
(* trades after the last written one say, none of them far from the first; *)
(* the open volume bar says what the trades with a part in the next        *)
(* stretch of volume say; and in the loop of on_volume() the bar that is   *)
(* written was not full before the trade, so that what is left of it is    *)
(* that trade's alone.                                                     *)
(***************************************************************************)
EXTENDS BarAggregator, SlotLemmas, SequenceTheorems, TLAPS

Acc ==
  [active : BOOLEAN, start_ts : Nat, end_ts : Nat, open : Nat, high : Nat, low : Nat, close : Nat,
   volume : Nat]

Trade == [symbol_id : Nat, price : Nat, qty : Nat, ts_ns : Nat]

BarTypeOK ==
  /\ trade \in Trade
  /\ time_acc \in [Symbols -> Acc] /\ vol_acc \in [Symbols -> Acc]
  /\ traded \in [Symbols -> Nat]
  /\ barred \in [Symbols -> [BarTypes -> Nat]]

IdleInv ==
  \A s \in Symbols :
    /\ ~time_acc[s].active => time_acc[s].volume = 0
    /\ ~vol_acc[s].active => vol_acc[s].volume = 0

LoopInv == pc = "volume" => trade.symbol_id \in Symbols /\ VolumeBarFull(vol_acc[trade.symbol_id])

BarInv == BarTypeOK /\ IdleInv /\ LoopInv /\ VolumeIsConserved

-----------------------------------------------------------------------------
LEMMA TradeIsTyped == ASSUME NEW t \in Trades PROVE t \in Trade
<1>1. t \in [symbol_id : Nat, price : Nat, qty : Nat, ts_ns : 0 .. (TsMod - 1)]
  BY BarAssumption
<1> QED
  BY <1>1 DEF Trade

LEMMA InactiveIsTyped == Inactive \in Acc /\ ~Inactive.active /\ Inactive.volume = 0
BY DEF Inactive, Acc

\* A trade adds its quantity, to an accumulator that is active or not.
LEMMA AccumulatedAdds ==
  ASSUME NEW a \in Acc, ~a.active => a.volume = 0, NEW t \in Trade
  PROVE  /\ Accumulated(a, t) \in Acc /\ Accumulated(a, t).active
         /\ Accumulated(a, t).volume = a.volume + t.qty
<1>1. CASE ~a.active
  BY <1>1 DEF Accumulated, Opened, Acc, Trade
<1>2. CASE a.active
  <2> DEFINE hi == IF t.price > a.high THEN t.price ELSE a.high
             lo == IF t.price < a.low THEN t.price ELSE a.low
             vol == a.volume + t.qty
  <2>1. t.ts_ns \in Nat /\ t.price \in Nat /\ vol \in Nat /\ hi \in Nat /\ lo \in Nat
    BY DEF Acc, Trade
  <2>2. Accumulated(a, t) = [a EXCEPT !.end_ts = t.ts_ns, !.close = t.price, !.volume = vol,
                                      !.high = hi, !.low = lo]
    BY <1>2 DEF Accumulated, Acc
  <2> HIDE DEF hi, lo, vol
  <2>3. Accumulated(a, t) =
          [active |-> a.active, start_ts |-> a.start_ts, end_ts |-> t.ts_ns, open |-> a.open,
           high |-> hi, low |-> lo, close |-> t.price, volume |-> vol]
    BY <2>2 DEF Acc
  <2> QED
    BY <1>2, <2>1, <2>3 DEF Acc, vol
<1> QED
  BY <1>1, <1>2

\* What is left of a full bar is what goes beyond its size.
LEMMA LeftoverSubtracts ==
  ASSUME NEW a \in Acc, VolumeBarFull(a), NEW t \in Trade
  PROVE  /\ Leftover(a, t) \in Acc
         /\ ~Leftover(a, t).active => Leftover(a, t).volume = 0
         /\ Leftover(a, t).volume = a.volume - volume_bar_qty
<1>1. volume_bar_qty \in Nat /\ a.volume \in Nat /\ a.volume >= volume_bar_qty
  BY BarAssumption DEF VolumeBarFull, Acc
<1>2. CASE a.volume = volume_bar_qty
  BY <1>1, <1>2, InactiveIsTyped DEF Leftover
<1>3. CASE a.volume # volume_bar_qty
  <2> DEFINE left == a.volume - volume_bar_qty
  <2>1. left \in Nat /\ a.end_ts \in Nat /\ t.ts_ns \in Nat /\ t.price \in Nat
    BY <1>1 DEF Acc, Trade
  <2> HIDE DEF left
  <2>2. Leftover(a, t) =
          [active |-> TRUE, start_ts |-> t.ts_ns, end_ts |-> a.end_ts, open |-> t.price,
           high |-> t.price, low |-> t.price, close |-> t.price, volume |-> left]
    BY <1>3 DEF Leftover, Opened, left
  <2> QED
    BY <2>1, <2>2 DEF Acc, left
<1> QED
  BY <1>2, <1>3

-----------------------------------------------------------------------------
LEMMA BarInvInit == ASSUME Init PROVE BarInv
BY InactiveIsTyped DEF Init, BarInv, BarTypeOK, IdleInv, LoopInv, VolumeIsConserved, Trade, BarTypes

LEMMA OnTradeKeepsInv ==
  ASSUME BarInv, NEW t \in Trades, OnTrade(t)
  PROVE  BarInv'
<1> DEFINE s == t.symbol_id
           a == Accumulated(time_acc[s], t)
           v == Accumulated(vol_acc[s], t)
           closes == TimeBarCloses(time_acc[s], t)
<1>1. /\ s \in Symbols /\ trade' = t
      /\ traded' = [traded EXCEPT ![s] = @ + t.qty]
      /\ vol_acc' = [vol_acc EXCEPT ![s] = v]
      /\ pc' = IF VolumeBarFull(v) THEN "volume" ELSE "ready"
  BY DEF OnTrade
<1>2. /\ time_acc' = [time_acc EXCEPT ![s] = IF closes THEN Inactive ELSE a]
      /\ barred' = IF closes THEN [barred EXCEPT ![s].time = @ + a.volume] ELSE barred
  BY DEF OnTrade, OnTime
<1>3. t \in Trade /\ t.qty \in Nat
  BY TradeIsTyped DEF Trade
<1>4. /\ a \in Acc /\ a.active /\ a.volume = time_acc[s].volume + t.qty
      /\ v \in Acc /\ v.active /\ v.volume = vol_acc[s].volume + t.qty
  BY <1>1, <1>3, AccumulatedAdds DEF BarInv, BarTypeOK, IdleInv
<1>5. /\ time_acc[s].volume \in Nat /\ vol_acc[s].volume \in Nat /\ traded[s] \in Nat
      /\ a.volume \in Nat /\ v.volume \in Nat
      /\ barred[s].time \in Nat /\ barred[s].volume \in Nat
  BY <1>1, <1>4 DEF BarInv, BarTypeOK, Acc, BarTypes
<1> HIDE DEF a, v, closes, s
<1>6. \A i \in Symbols \ {s} : /\ time_acc'[i] = time_acc[i] /\ vol_acc'[i] = vol_acc[i]
                               /\ traded'[i] = traded[i] /\ barred'[i] = barred[i]
  BY <1>1, <1>2 DEF BarInv, BarTypeOK
<1>7. /\ time_acc'[s] = (IF closes THEN Inactive ELSE a) /\ vol_acc'[s] = v
      /\ traded'[s] = traded[s] + t.qty
      /\ barred'[s].time = barred[s].time + (IF closes THEN a.volume ELSE 0)
      /\ barred'[s].volume = barred[s].volume
  BY <1>1, <1>2, <1>5 DEF BarInv, BarTypeOK, BarTypes
<1>8. BarTypeOK'
  BY <1>1, <1>2, <1>3, <1>4, <1>5, InactiveIsTyped DEF BarInv, BarTypeOK, BarTypes
<1>9. IdleInv'
  BY <1>4, <1>6, <1>7, InactiveIsTyped DEF BarInv, IdleInv
<1>10. LoopInv'
  BY <1>1, <1>7 DEF LoopInv, s, VolumeBarFull
<1>11. VolumeIsConserved'
  <2>1. /\ barred[s].time + time_acc[s].volume = traded[s]
        /\ barred[s].volume + vol_acc[s].volume = traded[s]
    BY <1>1 DEF BarInv, VolumeIsConserved
  <2>2. /\ barred'[s].time + time_acc'[s].volume = traded'[s]
        /\ barred'[s].volume + vol_acc'[s].volume = traded'[s]
    BY <1>3, <1>4, <1>5, <1>7, <2>1, InactiveIsTyped
  <2> QED
    BY <1>6, <2>2 DEF BarInv, VolumeIsConserved
<1> QED
  BY <1>8, <1>9, <1>10, <1>11 DEF BarInv

LEMMA WriteVolumeBarKeepsInv == ASSUME BarInv, WriteVolumeBar PROVE BarInv'
<1> DEFINE s == trade.symbol_id
           rest == Leftover(vol_acc[s], trade)
<1>1. /\ pc = "volume"
      /\ barred' = [barred EXCEPT ![s].volume = @ + volume_bar_qty]
      /\ vol_acc' = [vol_acc EXCEPT ![s] = rest]
      /\ pc' = IF VolumeBarFull(rest) THEN "volume" ELSE "ready"
      /\ UNCHANGED <<trade, time_acc, traded>>
  BY DEF WriteVolumeBar
<1>2. s \in Symbols /\ VolumeBarFull(vol_acc[s]) /\ vol_acc[s] \in Acc /\ trade \in Trade
  BY <1>1 DEF BarInv, LoopInv, BarTypeOK
<1>3. /\ rest \in Acc /\ (~rest.active => rest.volume = 0)
      /\ rest.volume = vol_acc[s].volume - volume_bar_qty
  BY <1>2, LeftoverSubtracts
<1>4. volume_bar_qty \in Nat /\ vol_acc[s].volume \in Nat /\ barred[s].volume \in Nat
  BY <1>2, BarAssumption DEF BarInv, BarTypeOK, Acc, BarTypes
<1>5. s' = s
  BY <1>1
<1> HIDE DEF rest
<1>6. /\ \A i \in Symbols \ {s} : vol_acc'[i] = vol_acc[i] /\ barred'[i] = barred[i]
      /\ vol_acc'[s] = rest /\ barred'[s].volume = barred[s].volume + volume_bar_qty
      /\ barred'[s].time = barred[s].time
  BY <1>1, <1>2, <1>4 DEF BarInv, BarTypeOK, BarTypes
<1>7. BarTypeOK'
  BY <1>1, <1>2, <1>3, <1>4 DEF BarInv, BarTypeOK, BarTypes
<1>8. IdleInv'
  BY <1>1, <1>3, <1>6 DEF BarInv, IdleInv
<1>9. LoopInv'
  BY <1>1, <1>2, <1>6 DEF LoopInv, VolumeBarFull
<1>10. VolumeIsConserved'
  <2>1. barred[s].volume + vol_acc[s].volume = traded[s]
    BY <1>2 DEF BarInv, VolumeIsConserved
  <2>2. barred'[s].volume + vol_acc'[s].volume = traded[s]
    BY <1>3, <1>4, <1>6, <2>1
  <2>3. \A i \in Symbols : barred'[i].time = barred[i].time
    BY <1>6
  <2> HIDE DEF s
  <2> QED
    BY <1>1, <1>6, <2>2, <2>3 DEF BarInv, VolumeIsConserved
<1> QED
  BY <1>7, <1>8, <1>9, <1>10 DEF BarInv

LEMMA FlushAllKeepsInv == ASSUME BarInv, FlushAll PROVE BarInv'
<1>1. /\ pc' = "flushed"
      /\ time_acc' = [s \in Symbols |-> Inactive]
      /\ vol_acc' = [s \in Symbols |-> IF Flushes(vol_acc[s], "volume") THEN Inactive ELSE vol_acc[s]]
      /\ UNCHANGED <<trade, traded>>
  BY DEF FlushAll
<1>2. barred' = [s \in Symbols |->
        [time |-> barred[s].time + (IF Flushes(time_acc[s], "time") THEN time_acc[s].volume ELSE 0),
         volume |-> barred[s].volume + (IF Flushes(vol_acc[s], "volume") THEN vol_acc[s].volume ELSE 0)]]
  BY DEF FlushAll
<1>3. ASSUME NEW s \in Symbols
      PROVE  /\ barred'[s] \in [BarTypes -> Nat] /\ vol_acc'[s] \in Acc
             /\ ~vol_acc'[s].active => vol_acc'[s].volume = 0
             /\ barred'[s].time + time_acc'[s].volume = traded[s]
             /\ barred'[s].volume + vol_acc'[s].volume = traded[s]
  <2>1. /\ time_acc[s] \in Acc /\ vol_acc[s] \in Acc /\ time_acc[s].volume \in Nat
        /\ vol_acc[s].volume \in Nat /\ barred[s].time \in Nat /\ barred[s].volume \in Nat
        /\ time_acc[s].active \in BOOLEAN /\ vol_acc[s].active \in BOOLEAN
    BY DEF BarInv, BarTypeOK, Acc, BarTypes
  <2>2. /\ barred[s].time + time_acc[s].volume = traded[s]
        /\ barred[s].volume + vol_acc[s].volume = traded[s]
    BY DEF BarInv, VolumeIsConserved
  <2>3. /\ ~time_acc[s].active => time_acc[s].volume = 0
        /\ ~vol_acc[s].active => vol_acc[s].volume = 0
    BY DEF BarInv, IdleInv
  <2> DEFINE x == IF Flushes(time_acc[s], "time") THEN time_acc[s].volume ELSE 0
             y == IF Flushes(vol_acc[s], "volume") THEN vol_acc[s].volume ELSE 0
  <2>4. barred'[s] = [time |-> barred[s].time + x, volume |-> barred[s].volume + y]
    BY <1>2
  <2>5. x = time_acc[s].volume
    BY <2>3 DEF Flushes
  <2>6. vol_acc'[s] = IF Flushes(vol_acc[s], "volume") THEN Inactive ELSE vol_acc[s]
    BY <1>1
  <2>7. y + vol_acc'[s].volume = vol_acc[s].volume /\ y \in Nat
    BY <2>1, <2>6, InactiveIsTyped
  <2>8. time_acc'[s].volume = 0
    BY <1>1, InactiveIsTyped
  <2>9. vol_acc'[s] \in Acc /\ (~vol_acc'[s].active => vol_acc'[s].volume = 0)
    BY <2>1, <2>3, <2>6, InactiveIsTyped
  <2> HIDE DEF x, y
  <2>10. barred'[s].time = barred[s].time + x /\ barred'[s].volume = barred[s].volume + y
    BY <2>4
  <2>11. barred'[s] \in [BarTypes -> Nat]
    BY <2>1, <2>4, <2>5, <2>7 DEF BarTypes
  <2>12. vol_acc'[s].volume \in Nat
    BY <2>9 DEF Acc
  <2> QED
    BY <2>1, <2>2, <2>5, <2>7, <2>8, <2>9, <2>10, <2>11, <2>12
<1>4. BarTypeOK'
  BY <1>1, <1>2, <1>3, InactiveIsTyped DEF BarInv, BarTypeOK
<1>5. IdleInv' /\ LoopInv' /\ VolumeIsConserved'
  BY <1>1, <1>3, InactiveIsTyped DEF IdleInv, LoopInv, VolumeIsConserved
<1> QED
  BY <1>4, <1>5 DEF BarInv

-----------------------------------------------------------------------------
\* Every quantity that was traded in a symbol is in one time bar, written or open, and in
\* the volume bars once, between any two iterations of the loop of on_volume() and after
\* flush_all() too.
THEOREM BarsConserveVolume == Spec => []VolumeIsConserved
<1>1. Init => BarInv
  BY BarInvInit
<1>2. BarInv /\ [Next]_vars => BarInv'
  <2> SUFFICES ASSUME BarInv, [Next]_vars PROVE BarInv'
    OBVIOUS
  <2>1. ASSUME NEW t \in Trades, OnTrade(t) PROVE BarInv'
    BY <2>1, OnTradeKeepsInv
  <2>2. CASE WriteVolumeBar
    BY <2>2, WriteVolumeBarKeepsInv
  <2>3. CASE FlushAll
    BY <2>3, FlushAllKeepsInv
  <2>4. CASE UNCHANGED vars
    BY <2>4 DEF vars, BarInv, BarTypeOK, IdleInv, LoopInv, VolumeIsConserved
  <2> QED
    BY <2>1, <2>2, <2>3, <2>4 DEF Next, IgnoreTrade, Terminated
<1>3. BarInv => VolumeIsConserved
  BY DEF BarInv
<1> QED
  BY <1>1, <1>2, <1>3, PTL DEF Spec

-----------------------------------------------------------------------------
(* The bars of one symbol in the output file. *)

BarRec == {Bar(s, type, a, n) : s \in Symbols, type \in BarTypes, a \in Acc, n \in Nat}

\* f picks the bars of s and type out of the first numbers of W, up to m.
Picks(W, s, type, f, m) ==
  \A n \in 0 .. m :
    f[n] = IF n = 0 THEN <<>>
           ELSE IF W[n].symbol_id = s /\ W[n].bar_type = type THEN Append(f[n - 1], W[n])
           ELSE f[n - 1]

LEMMA PicksExist ==
  ASSUME NEW W, NEW s, NEW type, NEW m \in Nat
  PROVE  \E f : Picks(W, s, type, f, m) /\ DOMAIN f = 0 .. m
<1> DEFINE Fail == {n \in Nat : ~ \E f : Picks(W, s, type, f, n)}
<1>1. Fail = {}
  <2> SUFFICES ASSUME Fail # {} PROVE FALSE
    OBVIOUS
  <2>1. PICK n \in Fail : \A k \in Fail : n <= k
    BY LeastNumber
  <2>2. n # 0
    <3> DEFINE f == [i \in {0} |-> <<>>]
    <3>1. Picks(W, s, type, f, 0)
      BY DEF Picks
    <3> HIDE DEF f
    <3> QED
      BY <2>1, <3>1
  <2>3. n - 1 \in Nat /\ ~(n <= n - 1) /\ n \in Nat
    BY <2>1, <2>2
  <2>4. PICK f : Picks(W, s, type, f, n - 1)
    BY <2>1, <2>3
  <2> DEFINE g == [i \in 0 .. n |-> IF i = n THEN IF W[n].symbol_id = s /\ W[n].bar_type = type
                                                    THEN Append(f[n - 1], W[n]) ELSE f[n - 1]
                                    ELSE f[i]]
  <2>5. /\ \A i \in 0 .. (n - 1) : g[i] = f[i]
        /\ g[n] = IF W[n].symbol_id = s /\ W[n].bar_type = type
                    THEN Append(f[n - 1], W[n]) ELSE f[n - 1]
    BY <2>3
  <2> HIDE DEF g
  <2>6. ASSUME NEW i \in 0 .. n
        PROVE  g[i] = IF i = 0 THEN <<>>
                      ELSE IF W[i].symbol_id = s /\ W[i].bar_type = type THEN Append(g[i - 1], W[i])
                      ELSE g[i - 1]
    <3>1. CASE i = n
      <4>1. n - 1 \in 0 .. (n - 1)
        BY <2>3
      <4>2. g[n - 1] = f[n - 1]
        BY <2>5, <4>1
      <4> QED
        BY <2>2, <2>5, <3>1, <4>2
    <3>2. CASE i # n
      <4>1. i \in 0 .. (n - 1) /\ (i # 0 => i - 1 \in 0 .. (n - 1))
        BY <2>3, <3>2
      <4>2. f[i] = IF i = 0 THEN <<>>
                   ELSE IF W[i].symbol_id = s /\ W[i].bar_type = type THEN Append(f[i - 1], W[i])
                   ELSE f[i - 1]
        BY <2>4, <4>1 DEF Picks
      <4>3. g[i] = f[i] /\ (i # 0 => g[i - 1] = f[i - 1])
        BY <2>5, <4>1
      <4> QED
        BY <4>2, <4>3
    <3> QED
      BY <3>1, <3>2
  <2>7. Picks(W, s, type, g, n)
    BY <2>6 DEF Picks
  <2> QED
    BY <2>1, <2>7
<1>2. PICK f : Picks(W, s, type, f, m)
  BY <1>1
<1> DEFINE g == [i \in 0 .. m |-> f[i]]
<1>3. \A i \in 0 .. m : g[i] = f[i] /\ (i # 0 => g[i - 1] = f[i - 1])
  OBVIOUS
<1>4. DOMAIN g = 0 .. m
  OBVIOUS
<1> HIDE DEF g
<1>5. Picks(W, s, type, g, m)
  BY <1>2, <1>3 DEF Picks
<1> QED
  BY <1>4, <1>5

LEMMA BarsInPicks ==
  ASSUME NEW W, NEW s, NEW type, Len(W) \in Nat
  PROVE  \E f : Picks(W, s, type, f, Len(W)) /\ BarsIn(W, s, type) = f[Len(W)]
<1> DEFINE Eq(f) == f = [n \in 0 .. Len(W) |->
                           IF n = 0 THEN <<>>
                           ELSE IF W[n].symbol_id = s /\ W[n].bar_type = type THEN Append(f[n - 1], W[n])
                           ELSE f[n - 1]]
           of == CHOOSE f : Eq(f)
<1>1. BarsIn(W, s, type) = of[Len(W)]
  BY DEF BarsIn
<1>2. PICK f : Picks(W, s, type, f, Len(W)) /\ DOMAIN f = 0 .. Len(W)
  BY PicksExist
<1> DEFINE h == [i \in 0 .. Len(W) |-> f[i]]
<1>3. Eq(h)
  BY <1>2 DEF Picks
<1>4. Eq(of)
  BY <1>3
<1> HIDE DEF of
<1>5. Picks(W, s, type, of, Len(W))
  BY <1>4 DEF Picks
<1> QED
  BY <1>1, <1>5

\* The picked bars depend on the bars only.
LEMMA PicksAgree ==
  ASSUME NEW W, NEW V, NEW s, NEW type, NEW m \in Nat, \A i \in 1 .. m : W[i] = V[i],
         NEW f, Picks(W, s, type, f, m), NEW g, Picks(V, s, type, g, m)
  PROVE  f[m] = g[m]
<1> DEFINE Bad == {n \in Nat : n <= m /\ f[n] # g[n]}
<1>1. Bad \in SUBSET Nat /\ \A n \in 0 .. m : n \in Bad <=> f[n] # g[n]
  OBVIOUS
<1>2. \A n \in Bad : n \in 0 .. m
  OBVIOUS
<1> HIDE DEF Bad
<1> SUFFICES ASSUME Bad # {} PROVE FALSE
  BY <1>1
<1>3. PICK n \in Bad : \A k \in Bad : n <= k
  BY <1>1, LeastNumber
<1>4. n \in 0 .. m /\ f[n] # g[n]
  BY <1>1, <1>2
<1>5. /\ f[n] = IF n = 0 THEN <<>>
                ELSE IF W[n].symbol_id = s /\ W[n].bar_type = type THEN Append(f[n - 1], W[n])
                ELSE f[n - 1]
      /\ g[n] = IF n = 0 THEN <<>>
                ELSE IF V[n].symbol_id = s /\ V[n].bar_type = type THEN Append(g[n - 1], V[n])
                ELSE g[n - 1]
  BY <1>4 DEF Picks
<1>6. n # 0
  BY <1>4, <1>5
<1>7. n - 1 \in 0 .. m /\ ~(n <= n - 1) /\ n \in 1 .. m
  BY <1>4, <1>6
<1>8. f[n - 1] = g[n - 1]
  BY <1>1, <1>3, <1>7
<1>9. W[n] = V[n]
  BY <1>7
<1> QED
  BY <1>4, <1>5, <1>8, <1>9

LEMMA BarsInEmpty == ASSUME NEW s, NEW type PROVE BarsIn(<<>>, s, type) = <<>>
<1>1. Len(<<>>) = 0
  OBVIOUS
<1>2. PICK f : Picks(<<>>, s, type, f, 0) /\ BarsIn(<<>>, s, type) = f[0]
  BY <1>1, BarsInPicks
<1> QED
  BY <1>2 DEF Picks

LEMMA BarsInAppend ==
  ASSUME NEW S, NEW W \in Seq(S), NEW b \in S, NEW s, NEW type
  PROVE  BarsIn(Append(W, b), s, type) =
           IF b.symbol_id = s /\ b.bar_type = type THEN Append(BarsIn(W, s, type), b)
           ELSE BarsIn(W, s, type)
<1> DEFINE V == Append(W, b)
           n == Len(W)
<1>1. /\ n \in Nat /\ Len(V) = n + 1 /\ V[n + 1] = b
      /\ \A i \in 1 .. n : V[i] = W[i]
  BY AppendProperties, LenProperties
<1> HIDE DEF V, n
<1>2. PICK f : Picks(W, s, type, f, n) /\ BarsIn(W, s, type) = f[n]
  BY <1>1, BarsInPicks DEF n
<1>3. PICK g : Picks(V, s, type, g, n + 1) /\ BarsIn(V, s, type) = g[n + 1]
  <2>1. Len(V) \in Nat
    BY <1>1
  <2>2. \E g : Picks(V, s, type, g, Len(V)) /\ BarsIn(V, s, type) = g[Len(V)]
    BY <2>1, BarsInPicks
  <2> QED
    BY <1>1, <2>2
<1>4. g[n + 1] = IF V[n + 1].symbol_id = s /\ V[n + 1].bar_type = type
                   THEN Append(g[(n + 1) - 1], V[n + 1]) ELSE g[(n + 1) - 1]
  BY <1>1, <1>3 DEF Picks
<1>5. (n + 1) - 1 = n
  BY <1>1
<1>6. Picks(V, s, type, g, n)
  BY <1>1, <1>3 DEF Picks
<1>7. f[n] = g[n]
  BY <1>1, <1>2, <1>6, PicksAgree
<1> QED
  BY <1>1, <1>2, <1>3, <1>4, <1>5, <1>7 DEF V

LEMMA BarsInIsSeq ==
  ASSUME NEW S, NEW W \in Seq(S), NEW s, NEW type
  PROVE  BarsIn(W, s, type) \in Seq(S)
<1>1. Len(W) \in Nat /\ \A i \in 1 .. Len(W) : W[i] \in S
  BY LenProperties, ElementOfSeq
<1> DEFINE n == Len(W)
<1>2. PICK f : Picks(W, s, type, f, n) /\ BarsIn(W, s, type) = f[n]
  BY <1>1, BarsInPicks
<1> HIDE DEF n
<1> DEFINE Bad == {k \in Nat : k <= n /\ f[k] \notin Seq(S)}
<1>3. Bad \in SUBSET Nat /\ (\A k \in 0 .. n : k \in Bad <=> f[k] \notin Seq(S)) /\ \A k \in Bad : k \in 0 .. n
  BY <1>1 DEF n
<1> HIDE DEF Bad
<1>4. Bad = {}
  <2> SUFFICES ASSUME Bad # {} PROVE FALSE
    OBVIOUS
  <2>1. PICK k \in Bad : \A j \in Bad : k <= j
    BY <1>3, LeastNumber
  <2>2. k \in 0 .. n /\ f[k] \notin Seq(S)
    BY <1>3
  <2>3. f[k] = IF k = 0 THEN <<>>
               ELSE IF W[k].symbol_id = s /\ W[k].bar_type = type THEN Append(f[k - 1], W[k])
               ELSE f[k - 1]
    BY <1>2, <2>2 DEF Picks
  <2>4. k # 0
    BY <2>2, <2>3, EmptySeq
  <2>5. k - 1 \in 0 .. n /\ ~(k <= k - 1) /\ k \in 1 .. n
    BY <1>1, <2>2, <2>4 DEF n
  <2>6. f[k - 1] \in Seq(S) /\ W[k] \in S
    BY <1>1, <1>3, <2>1, <2>5 DEF n
  <2> QED
    BY <2>2, <2>3, <2>4, <2>6, AppendProperties
<1>5. n \in 0 .. n
  BY <1>1 DEF n
<1> QED
  BY <1>2, <1>3, <1>4, <1>5

-----------------------------------------------------------------------------
(* The bars that flush_all() writes. *)

\* What flush_all() writes for one accumulator.
Part(s, type, a, n) == IF Flushes(a, type) THEN <<Bar(s, type, a, n)>> ELSE <<>>

LEMMA PartIsSeq ==
  ASSUME NEW s \in Symbols, NEW type \in BarTypes, NEW a \in Acc, NEW n \in Nat
  PROVE  Part(s, type, a, n) \in Seq(BarRec)
<1>1. Bar(s, type, a, n) \in BarRec
  BY DEF BarRec
<1> QED
  BY <1>1 DEF Part

LEMMA BarsInPart ==
  ASSUME NEW W \in Seq(BarRec), NEW i \in Symbols, NEW y \in BarTypes, NEW a \in Acc, NEW n \in Nat,
         NEW s, NEW type
  PROVE  BarsIn(W \o Part(i, y, a, n), s, type) =
           IF i = s /\ y = type THEN BarsIn(W, s, type) \o Part(i, y, a, n) ELSE BarsIn(W, s, type)
<1> DEFINE b == Bar(i, y, a, n)
<1>1. b \in BarRec /\ b.symbol_id = i /\ b.bar_type = y
  BY DEF BarRec, Bar
<1>2. BarsIn(W, s, type) \in Seq(BarRec)
  BY BarsInIsSeq
<1> HIDE DEF b
<1>3. CASE Flushes(a, y)
  <2>1. Part(i, y, a, n) = <<b>>
    BY <1>3 DEF Part, b
  <2>2. W \o <<b>> = Append(W, b) /\ BarsIn(W, s, type) \o <<b>> = Append(BarsIn(W, s, type), b)
    BY <1>1, <1>2, AppendIsConcat
  <2>3. BarsIn(Append(W, b), s, type) =
          IF i = s /\ y = type THEN Append(BarsIn(W, s, type), b) ELSE BarsIn(W, s, type)
    BY <1>1, BarsInAppend
  <2> QED
    BY <2>1, <2>2, <2>3
<1>4. CASE ~Flushes(a, y)
  <2>1. Part(i, y, a, n) = <<>>
    BY <1>4 DEF Part
  <2>2. W \o <<>> = W /\ BarsIn(W, s, type) \o <<>> = BarsIn(W, s, type)
    BY <1>2, ConcatEmptySeq
  <2> QED
    BY <2>1, <2>2
<1> QED
  BY <1>3, <1>4

\* What flush_all() writes of one symbol, and of the first symbols.
FlushedOf(s, type) ==
  Part(s, type, IF type = "time" THEN time_acc[s] ELSE vol_acc[s], Len(seen[s]))

LEMMA FlushedBarsAre ==
  ASSUME NEW i \in Symbols, time_acc[i] \in Acc, vol_acc[i] \in Acc, Len(seen[i]) \in Nat
  PROVE  /\ FlushedBars(i) = FlushedOf(i, "time") \o FlushedOf(i, "volume")
         /\ FlushedOf(i, "time") \in Seq(BarRec) /\ FlushedOf(i, "volume") \in Seq(BarRec)
         /\ FlushedBars(i) \in Seq(BarRec)
<1>1. FlushedBars(i) = FlushedOf(i, "time") \o FlushedOf(i, "volume")
  BY DEF FlushedBars, FlushedOf, Part
<1>2. FlushedOf(i, "time") \in Seq(BarRec) /\ FlushedOf(i, "volume") \in Seq(BarRec)
  BY PartIsSeq DEF FlushedOf, BarTypes
<1> QED
  BY <1>1, <1>2, ConcatProperties

LEMMA BarsInFlushed ==
  ASSUME NEW W \in Seq(BarRec), NEW i \in Symbols, time_acc[i] \in Acc, vol_acc[i] \in Acc,
         Len(seen[i]) \in Nat, NEW s, NEW type \in BarTypes
  PROVE  BarsIn(W \o FlushedBars(i), s, type) =
           IF i = s THEN BarsIn(W, s, type) \o FlushedOf(s, type) ELSE BarsIn(W, s, type)
<1> DEFINE T == FlushedOf(i, "time")
           V == FlushedOf(i, "volume")
<1>1. FlushedBars(i) = T \o V /\ T \in Seq(BarRec) /\ V \in Seq(BarRec)
  BY FlushedBarsAre
<1>2. W \o FlushedBars(i) = (W \o T) \o V /\ W \o T \in Seq(BarRec)
  BY <1>1, ConcatAssociative, ConcatProperties
<1> DEFINE a == time_acc[i]   v == vol_acc[i]   m == Len(seen[i])
<1>a. /\ T = Part(i, "time", a, m) /\ V = Part(i, "volume", v, m)
      /\ a \in Acc /\ v \in Acc /\ m \in Nat /\ "time" \in BarTypes /\ "volume" \in BarTypes
  BY DEF FlushedOf, BarTypes
<1> HIDE DEF a, v, m, T, V
<1>3. BarsIn(W \o T, s, type) =
        IF i = s /\ type = "time" THEN BarsIn(W, s, type) \o T ELSE BarsIn(W, s, type)
  <2> DEFINE y == "time"
  <2>1. y \in BarTypes /\ a \in Acc /\ m \in Nat
    BY <1>a
  <2> HIDE DEF y
  <2>2. BarsIn(W \o Part(i, y, a, m), s, type) =
          IF i = s /\ y = type THEN BarsIn(W, s, type) \o Part(i, y, a, m) ELSE BarsIn(W, s, type)
    BY <2>1, BarsInPart
  <2> QED
    BY <1>a, <2>2 DEF y
<1>4. BarsIn((W \o T) \o V, s, type) =
        IF i = s /\ type = "volume" THEN BarsIn(W \o T, s, type) \o V ELSE BarsIn(W \o T, s, type)
  <2> DEFINE X == W \o T
  <2>1. X \in Seq(BarRec)
    BY <1>2
  <2> HIDE DEF X
  <2>2. BarsIn(X \o V, s, type) =
          IF i = s /\ type = "volume" THEN BarsIn(X, s, type) \o V ELSE BarsIn(X, s, type)
    <3> DEFINE y == "volume"
    <3>1. y \in BarTypes /\ v \in Acc /\ m \in Nat
      BY <1>a
    <3> HIDE DEF y
    <3>2. BarsIn(X \o Part(i, y, v, m), s, type) =
            IF i = s /\ y = type THEN BarsIn(X, s, type) \o Part(i, y, v, m) ELSE BarsIn(X, s, type)
      BY <2>1, <3>1, BarsInPart
    <3> QED
      BY <1>a, <3>2 DEF y
  <2> QED
    BY <2>2 DEF X
<1>5. CASE type = "time"
  BY <1>2, <1>3, <1>4, <1>5 DEF T
<1>6. CASE type = "volume"
  BY <1>2, <1>3, <1>4, <1>6 DEF V
<1> QED
  BY <1>5, <1>6 DEF BarTypes

\* The new bars of a symbol are its own.
LEMMA FlushAllWrites ==
  ASSUME written \in Seq(BarRec), FlushAll,
         \A i \in Symbols : time_acc[i] \in Acc /\ vol_acc[i] \in Acc /\ Len(seen[i]) \in Nat,
         NEW s \in Symbols, NEW type \in BarTypes
  PROVE  BarsIn(written', s, type) = BarsIn(written, s, type) \o FlushedOf(s, type)
<1> DEFINE F == [i \in 1 .. kMaxSymbols |-> FlushedBars(i - 1)]
           W == written
<1>1. kMaxSymbols \in Nat \ {0} /\ s \in Nat /\ s < kMaxSymbols
  BY BarAssumption DEF Symbols
<1>2. Len(F) = kMaxSymbols /\ \A i \in 1 .. kMaxSymbols : F[i] = FlushedBars(i - 1) /\ i - 1 \in Symbols
  BY <1>1 DEF Symbols
<1>3. written' = W \o FlattenSeq(F)
  BY DEF FlushAll
<1> HIDE DEF F
<1>4. PICK f : Joins(F, f, kMaxSymbols) /\ FlattenSeq(F) = f[kMaxSymbols]
  <2>1. Len(F) \in Nat \ {0}
    BY <1>1, <1>2
  <2>2. \E f : Joins(F, f, Len(F)) /\ FlattenSeq(F) = f[Len(F)]
    BY <2>1, FlattenJoins
  <2> QED
    BY <1>2, <2>2
<1> DEFINE Want(n) == IF s < n THEN BarsIn(W, s, type) \o FlushedOf(s, type) ELSE BarsIn(W, s, type)
           Good(n) == f[n] \in Seq(BarRec) /\ BarsIn(W \o f[n], s, type) = Want(n)
           Bad == {n \in Nat : n \in 1 .. kMaxSymbols /\ ~Good(n)}
<1>5. Bad = {}
  <2> SUFFICES ASSUME Bad # {} PROVE FALSE
    OBVIOUS
  <2>1. PICK n \in Bad : \A k \in Bad : n <= k
    BY LeastNumber
  <2>2. n \in 1 .. kMaxSymbols /\ ~Good(n) /\ \A k \in 1 .. kMaxSymbols : k < n => Good(k)
    BY <1>1, <2>1
  <2> HIDE DEF Good
  <2>3. n - 1 \in Symbols /\ F[n] = FlushedBars(n - 1) /\ n \in Nat
    BY <1>1, <1>2, <2>2
  <2>9. time_acc[n - 1] \in Acc /\ vol_acc[n - 1] \in Acc /\ Len(seen[n - 1]) \in Nat
    BY <2>3
  <2>4. F[n] \in Seq(BarRec)
    BY <2>3, <2>9, FlushedBarsAre
  <2>10. \A X \in Seq(BarRec) :
           BarsIn(X \o F[n], s, type) =
             IF n - 1 = s THEN BarsIn(X, s, type) \o FlushedOf(s, type) ELSE BarsIn(X, s, type)
    <3> DEFINE j == n - 1
    <3>1. j \in Symbols /\ time_acc[j] \in Acc /\ vol_acc[j] \in Acc /\ Len(seen[j]) \in Nat
      BY <2>3, <2>9
    <3>2. F[n] = FlushedBars(j)
      BY <2>3
    <3> HIDE DEF j
    <3>3. ASSUME NEW X \in Seq(BarRec)
          PROVE  BarsIn(X \o FlushedBars(j), s, type) =
                   IF j = s THEN BarsIn(X, s, type) \o FlushedOf(s, type) ELSE BarsIn(X, s, type)
      BY <3>1, BarsInFlushed
    <3> QED
      BY <3>2, <3>3 DEF j
  <2>5. f[n] = IF n = 1 THEN F[n] ELSE f[n - 1] \o F[n]
    BY <1>4, <2>2 DEF Joins
  <2>6. (n - 1 = s) <=> (s < n /\ ~(s < n - 1))
    BY <1>1, <2>3
  <2>7. CASE n = 1
    <3>1. BarsIn(W \o F[n], s, type) =
            IF n - 1 = s THEN BarsIn(W, s, type) \o FlushedOf(s, type) ELSE BarsIn(W, s, type)
      BY <2>10
    <3>2. s < n => n - 1 = s
      BY <1>1, <2>7
    <3> QED
      BY <2>2, <2>3, <2>4, <2>5, <2>6, <2>7, <3>1, <3>2 DEF Good
  <2>8. CASE n # 1
    <3>1. n - 1 \in 1 .. kMaxSymbols /\ n - 1 < n
      BY <1>1, <2>2, <2>8
    <3>2. f[n - 1] \in Seq(BarRec) /\ BarsIn(W \o f[n - 1], s, type) = Want(n - 1)
      BY <2>2, <3>1 DEF Good
    <3>3. /\ W \o f[n] = (W \o f[n - 1]) \o F[n] /\ f[n] \in Seq(BarRec)
          /\ W \o f[n - 1] \in Seq(BarRec)
      <4>1. f[n] = f[n - 1] \o F[n]
        BY <2>5, <2>8
      <4> DEFINE X == f[n - 1]   Y == F[n]
      <4>4. X \in Seq(BarRec) /\ Y \in Seq(BarRec)
        BY <2>4, <3>2
      <4> HIDE DEF X, Y
      <4>5. (W \o X) \o Y = W \o (X \o Y)
        BY <4>4, ConcatAssociative
      <4>2. (W \o f[n - 1]) \o F[n] = W \o (f[n - 1] \o F[n])
        BY <4>5 DEF X, Y
      <4>3. f[n - 1] \o F[n] \in Seq(BarRec) /\ W \o f[n - 1] \in Seq(BarRec)
        BY <2>4, <3>2, ConcatProperties
      <4> QED
        BY <4>1, <4>2, <4>3
    <3>4. BarsIn((W \o f[n - 1]) \o F[n], s, type) =
            IF n - 1 = s THEN BarsIn(W \o f[n - 1], s, type) \o FlushedOf(s, type)
            ELSE BarsIn(W \o f[n - 1], s, type)
      BY <2>10, <3>3
    <3>5. BarsIn(W \o f[n], s, type) =
            IF n - 1 = s THEN Want(n - 1) \o FlushedOf(s, type) ELSE Want(n - 1)
      BY <3>2, <3>3, <3>4
    <3>6. s < n - 1 => s < n
      BY <1>1, <2>3
    <3>7. BarsIn(W \o f[n], s, type) = Want(n)
      BY <2>6, <3>5, <3>6
    <3> QED
      BY <2>2, <3>3, <3>7 DEF Good
  <2> QED
    BY <2>7, <2>8
<1>6. kMaxSymbols \in 1 .. kMaxSymbols /\ kMaxSymbols \in Nat
  BY <1>1
<1>7. BarsIn(W \o f[kMaxSymbols], s, type) = Want(kMaxSymbols)
  BY <1>5, <1>6
<1> QED
  BY <1>1, <1>3, <1>4, <1>7

-----------------------------------------------------------------------------
(* The volume of consecutive trades. *)

LEMMA TradeOfSeq ==
  ASSUME NEW ts \in Seq(Trade), NEW i \in 1 .. Len(ts)
  PROVE  ts[i] \in Trade /\ ts[i].price \in Nat /\ ts[i].qty \in Nat /\ ts[i].ts_ns \in Nat
<1>1. ts[i] \in Trade
  BY ElementOfSeq
<1> DEFINE t == ts[i]
<1> HIDE DEF t
<1>2. t \in Trade => t.price \in Nat /\ t.qty \in Nat /\ t.ts_ns \in Nat
  BY DEF Trade
<1> QED
  BY <1>1, <1>2 DEF t

VolOf(ts, i, j) == Sum(SubSeq(ts, i, j))

LEMMA SumIsQtySum == ASSUME NEW ts PROVE Sum(ts) = QtySum(ts, DOMAIN ts)
BY DEF Sum, QtySum

LEMMA QtySumNat ==
  ASSUME NEW o, NEW S, IsFiniteSet(S), \A x \in S : o[x].qty \in Nat
  PROVE  QtySum(o, S) \in Nat
<1>1. PICK g : SumOn(SUBSET S, o, g) /\ QtySum(o, S) = g[S]
  BY QtySumIsSum
<1>2. \A B \in SUBSET S : g[B] \in Nat
  BY <1>1, SumsAreNumbers
<1> QED
  BY <1>1, <1>2

LEMMA SumEmpty == Sum(<<>>) = 0
<1>1. DOMAIN <<>> = {}
  OBVIOUS
<1> QED
  BY <1>1, SumIsQtySum, QtySumEmpty

LEMMA SumNat == ASSUME NEW ts \in Seq(Trade) PROVE Sum(ts) \in Nat
<1>1. IsFiniteSet(DOMAIN ts)
  BY LenProperties, FS_Interval
<1>2. \A i \in DOMAIN ts : ts[i].qty \in Nat
  BY LenProperties, TradeOfSeq
<1> QED
  BY <1>1, <1>2, SumIsQtySum, QtySumNat

LEMMA SumAppend ==
  ASSUME NEW ts \in Seq(Trade), NEW t \in Trade
  PROVE  Sum(Append(ts, t)) = Sum(ts) + t.qty
<1> DEFINE U == Append(ts, t)
           n == Len(ts)
<1>1. n \in Nat /\ DOMAIN ts = 1 .. n
  BY LenProperties
<1>2. U \in Seq(Trade) /\ Len(U) = n + 1 /\ U[n + 1] = t /\ \A i \in 1 .. n : U[i] = ts[i]
  BY AppendProperties
<1>3. DOMAIN U = 1 .. (n + 1)
  BY <1>2, LenProperties
<1>4. t.qty \in Nat /\ \A i \in 1 .. (n + 1) : U[i].qty \in Nat
  <2>1. \A i \in 1 .. (n + 1) : U[i] \in Trade
    BY <1>2, ElementOfSeq
  <2> QED
    BY <2>1 DEF Trade
<1> HIDE DEF U, n
<1> DEFINE S == 1 .. (n + 1)
           R == S \ {n + 1}
<1>5. R = 1 .. n /\ n + 1 \in S
  BY <1>1
<1>6. IsFiniteSet(S) /\ IsFiniteSet(R)
  <2>1. 1 \in Int /\ n \in Int /\ n + 1 \in Int
    BY <1>1
  <2>2. IsFiniteSet(1 .. n) /\ IsFiniteSet(1 .. (n + 1))
    BY <2>1, FS_Interval
  <2> QED
    BY <1>5, <2>2
<1>7. \A i \in R : U[i].qty = ts[i].qty
  BY <1>2, <1>5
<1>8. \A x \in S : U[x].qty \in Nat
  BY <1>4
<1> HIDE DEF S
<1>9. QtySum(U, S) = U[n + 1].qty + QtySum(U, S \ {n + 1}) /\ QtySum(U, S \ {n + 1}) \in Nat
  BY <1>5, <1>6, <1>8, QtySumRemove
<1> HIDE DEF R
<1>10. QtySum(U, R) = QtySum(ts, R)
  BY <1>6, <1>7, QtySumSame
<1>11. Sum(U) = t.qty + Sum(ts) /\ Sum(ts) \in Nat
  BY <1>1, <1>2, <1>3, <1>5, <1>9, <1>10, SumIsQtySum DEF R, S
<1> QED
  BY <1>4, <1>11 DEF U

LEMMA SubSeqAppend ==
  ASSUME NEW S, NEW ts \in Seq(S), NEW t \in S, NEW i \in Nat \ {0}, NEW j \in Nat, j <= Len(ts)
  PROVE  SubSeq(Append(ts, t), i, j) = SubSeq(ts, i, j)
<1>1. Len(ts) \in Nat
  BY LenProperties
<1>2. CASE j < i
  BY <1>2, SubSeqEmpty
<1>3. CASE i <= j
  <2>1. i \in 1 .. Len(ts) /\ j \in 1 .. Len(ts)
    BY <1>1, <1>3
  <2>2. Append(ts, t) = ts \o <<t>> /\ <<t>> \in Seq(S)
    BY AppendIsConcat
  <2> QED
    BY <2>1, <2>2, SubSeqOfConcat1
<1> QED
  BY <1>2, <1>3

LEMMA SubSeqTyped ==
  ASSUME NEW S, NEW ts \in Seq(S), NEW i \in Nat \ {0}, NEW j \in Nat, j <= Len(ts)
  PROVE  SubSeq(ts, i, j) \in Seq(S)
<1>1. Len(ts) \in Nat
  BY LenProperties
<1>2. \A k \in i .. j : k \in 1 .. Len(ts)
  BY <1>1
<1>3. \A k \in i .. j : ts[k] \in S
  BY <1>2, ElementOfSeq
<1>4. i \in Int /\ j \in Int
  OBVIOUS
<1> QED
  BY <1>3, <1>4, SubSeqProperties

LEMMA VolOfFacts ==
  ASSUME NEW ts \in Seq(Trade), NEW i \in Nat \ {0}, NEW j \in Nat, j <= Len(ts)
  PROVE  /\ VolOf(ts, i, j) \in Nat
         /\ j < i => VolOf(ts, i, j) = 0
         /\ i <= j => VolOf(ts, i, j) = VolOf(ts, i, j - 1) + ts[j].qty
<1>1. VolOf(ts, i, j) \in Nat
  BY SubSeqTyped, SumNat DEF VolOf
<1>2. ASSUME j < i PROVE VolOf(ts, i, j) = 0
  <2>1. SubSeq(ts, i, j) = <<>>
    BY <1>2, SubSeqEmpty
  <2> QED
    BY <2>1, SumEmpty DEF VolOf
<1>3. ASSUME i <= j PROVE VolOf(ts, i, j) = VolOf(ts, i, j - 1) + ts[j].qty
  <2>1. Len(ts) \in Nat
    BY LenProperties
  <2>2. i \in 1 .. Len(ts) /\ j \in i .. Len(ts) /\ j \in 1 .. Len(ts) /\ j - 1 \in Nat /\ j - 1 <= Len(ts)
    BY <1>3, <2>1
  <2> DEFINE k == j - 1
             X == SubSeq(ts, i, k)
  <2>3. k \in Nat /\ k <= Len(ts)
    BY <2>2
  <2> HIDE DEF k
  <2>4. X \in Seq(Trade)
    BY <2>3, SubSeqTyped
  <2>5. ts[j] \in Trade
    BY <2>2, ElementOfSeq
  <2>6. SubSeq(ts, i, j) = SubSeq(ts, i, j - 1) \o <<ts[j]>>
    BY <2>2, SubSeqRecursiveSecond
  <2>7. SubSeq(ts, i, j) = Append(X, ts[j])
    BY <2>4, <2>5, <2>6, AppendIsConcat DEF k
  <2> HIDE DEF X
  <2>8. Sum(SubSeq(ts, i, j)) = Sum(X) + ts[j].qty
    BY <2>4, <2>5, <2>7, SumAppend
  <2> QED
    BY <2>8 DEF VolOf, X, k
<1> QED
  BY <1>1, <1>2, <1>3

LEMMA VolOfAppend ==
  ASSUME NEW ts \in Seq(Trade), NEW t \in Trade, NEW i \in Nat \ {0}, NEW j \in Nat, j <= Len(ts)
  PROVE  VolOf(Append(ts, t), i, j) = VolOf(ts, i, j)
BY SubSeqAppend DEF VolOf

-----------------------------------------------------------------------------
(* What a bar says of the trades i .. j. *)

SaysRun(b, ts, i, j, v) ==
  /\ b.start_ts = ts[i].ts_ns /\ b.end_ts = ts[j].ts_ns
  /\ b.open = ts[i].price /\ b.close = ts[j].price
  /\ (\E x \in i .. j : ts[x].price = b.high) /\ \A x \in i .. j : ts[x].price <= b.high
  /\ (\E x \in i .. j : ts[x].price = b.low) /\ \A x \in i .. j : b.low <= ts[x].price
  /\ b.volume = v

LEMMA LargestIsMax ==
  ASSUME NEW P \in SUBSET Nat, NEW x \in P, \A y \in P : y <= x
  PROVE  Max(P) = x
<1>1. x \in P /\ \A y \in P : x >= y
  OBVIOUS
<1>2. Max(P) \in P /\ \A y \in P : Max(P) >= y
  BY <1>1 DEF Max
<1>3. Max(P) >= x /\ x >= Max(P) /\ x \in Nat /\ Max(P) \in Nat
  BY <1>1, <1>2
<1> QED
  BY <1>3

LEMMA SmallestIsMin ==
  ASSUME NEW P \in SUBSET Nat, NEW x \in P, \A y \in P : x <= y
  PROVE  Min(P) = x
<1>1. x \in P /\ \A y \in P : x <= y
  OBVIOUS
<1>2. Min(P) \in P /\ \A y \in P : Min(P) <= y
  BY <1>1 DEF Min
<1>3. Min(P) <= x /\ x <= Min(P) /\ x \in Nat /\ Min(P) \in Nat
  BY <1>1, <1>2
<1> QED
  BY <1>3

LEMMA SaysRunIsEnough ==
  ASSUME NEW b, NEW ts \in Seq(Trade), NEW i \in 1 .. Len(ts), NEW j \in i .. Len(ts), NEW v,
         SaysRun(b, ts, i, j, v)
  PROVE  Says(b, SubSeq(ts, i, j), v)
<1> DEFINE r == SubSeq(ts, i, j)
           P == {r[k].price : k \in DOMAIN r}
<1>1. Len(ts) \in Nat /\ \A x \in 1 .. Len(ts) : ts[x] \in Trade /\ ts[x].price \in Nat
  BY LenProperties, TradeOfSeq
<1>2. r \in Seq(Trade) /\ Len(r) = j - i + 1 /\ \A k \in 1 .. (j - i + 1) : r[k] = ts[i + k - 1]
  <2>1. i \in Int /\ j \in Int /\ i <= j /\ \A k \in i .. j : ts[k] \in Trade
    BY <1>1
  <2> QED
    BY <2>1, SubSeqProperties
<1>3. DOMAIN r = 1 .. (j - i + 1)
  BY <1>2, LenProperties
<1>4. r[1] = ts[i] /\ r[Len(r)] = ts[j]
  BY <1>1, <1>2
<1>5. \A x \in i .. j : x - i + 1 \in 1 .. (j - i + 1) /\ r[x - i + 1] = ts[x]
  <2>1. ASSUME NEW x \in i .. j PROVE x - i + 1 \in 1 .. (j - i + 1) /\ i + (x - i + 1) - 1 = x
    BY <1>1
  <2> QED
    BY <1>2, <2>1
<1>6. \A k \in 1 .. (j - i + 1) : i + k - 1 \in i .. j
  BY <1>1
<1>7. P = {ts[x].price : x \in i .. j}
  <2> HIDE DEF r
  <2>1. ASSUME NEW y \in P PROVE y \in {ts[x].price : x \in i .. j}
    <3>1. PICK k \in 1 .. (j - i + 1) : y = r[k].price
      BY <1>3, <2>1
    <3> QED
      BY <1>2, <1>6, <3>1
  <2>2. ASSUME NEW x \in i .. j PROVE ts[x].price \in P
    BY <1>3, <1>5
  <2> HIDE DEF P
  <2> QED
    BY <2>1, <2>2
<1>8. P \in SUBSET Nat
  BY <1>1, <1>7
<1> HIDE DEF P
<1>9. Max(P) = b.high
  <2>1. b.high \in P /\ \A y \in P : y <= b.high
    BY <1>7 DEF SaysRun
  <2> QED
    BY <1>8, <2>1, LargestIsMax
<1>10. Min(P) = b.low
  <2>1. b.low \in P /\ \A y \in P : b.low <= y
    BY <1>7 DEF SaysRun
  <2> QED
    BY <1>8, <2>1, SmallestIsMin
<1>11. /\ b.start_ts = r[1].ts_ns /\ b.end_ts = r[Len(r)].ts_ns
       /\ b.open = r[1].price /\ b.close = r[Len(r)].price /\ b.volume = v
  BY <1>4 DEF SaysRun
<1> HIDE DEF r
<1>12. Says(b, r, v)
  BY <1>9, <1>10, <1>11 DEF Says, Summary, P
<1> QED
  BY <1>12 DEF r

LEMMA SaysRunAppend ==
  ASSUME NEW b, NEW ts \in Seq(Trade), NEW t \in Trade, NEW i \in 1 .. Len(ts), NEW j \in i .. Len(ts),
         NEW v, SaysRun(b, ts, i, j, v)
  PROVE  SaysRun(b, Append(ts, t), i, j, v)
<1>1. Len(ts) \in Nat
  BY LenProperties
<1>2. \A x \in 1 .. Len(ts) : Append(ts, t)[x] = ts[x]
  BY AppendProperties
<1>3. (\A x \in i .. j : x \in 1 .. Len(ts)) /\ j \in 1 .. Len(ts)
  BY <1>1
<1>4. \A x \in i .. j : Append(ts, t)[x] = ts[x]
  BY <1>2, <1>3
<1>5. Append(ts, t)[i] = ts[i] /\ Append(ts, t)[j] = ts[j]
  BY <1>2, <1>3
<1> DEFINE U == Append(ts, t)
<1> HIDE DEF U
<1> QED
  BY <1>4, <1>5 DEF SaysRun

LEMMA OpenedSays ==
  ASSUME NEW a \in Acc, ~a.active, NEW ts \in Seq(Trade), NEW t \in Trade
  PROVE  SaysRun(Accumulated(a, t), Append(ts, t), Len(ts) + 1, Len(ts) + 1, t.qty)
<1> DEFINE n == Len(ts) + 1
           U == Append(ts, t)
<1>1. n \in Nat /\ U[n] = t /\ t.price \in Nat
  BY AppendProperties, LenProperties DEF Trade
<1>2. Accumulated(a, t) = Opened(t)
  BY DEF Accumulated
<1>3. \A x \in n .. n : x = n
  BY <1>1
<1> HIDE DEF n, U
<1>4. SaysRun(Opened(t), U, n, n, t.qty)
  BY <1>1, <1>3 DEF SaysRun, Opened
<1> QED
  BY <1>2, <1>4 DEF n, U

LEMMA AccumulatedSays ==
  ASSUME NEW a \in Acc, a.active, NEW ts \in Seq(Trade), NEW t \in Trade, NEW i \in 1 .. Len(ts),
         NEW v, SaysRun(a, ts, i, Len(ts), v)
  PROVE  SaysRun(Accumulated(a, t), Append(ts, t), i, Len(ts) + 1, v + t.qty)
<1> DEFINE n == Len(ts)
           U == Append(ts, t)
           c == Accumulated(a, t)
<1>1. n \in Nat /\ U[n + 1] = t /\ i \in 1 .. n /\ \A x \in 1 .. n : U[x] = ts[x]
  BY AppendProperties, LenProperties
<1>2. t.price \in Nat /\ a.high \in Nat /\ a.low \in Nat /\ \A x \in 1 .. n : ts[x].price \in Nat
  <2>1. \A x \in 1 .. n : ts[x].price \in Nat
    BY TradeOfSeq
  <2> QED
    BY <2>1 DEF Trade, Acc
<1>3. /\ c.start_ts = a.start_ts /\ c.end_ts = t.ts_ns /\ c.open = a.open /\ c.close = t.price
      /\ c.volume = a.volume + t.qty
      /\ c.high = (IF t.price > a.high THEN t.price ELSE a.high)
      /\ c.low = (IF t.price < a.low THEN t.price ELSE a.low)
  BY DEF Accumulated, Acc
<1> HIDE DEF n, U, c
<1>4. SaysRun(a, ts, i, n, v)
  BY DEF n
<1>5. /\ \A x \in i .. (n + 1) : x = n + 1 \/ (x \in i .. n /\ U[x] = ts[x] /\ ts[x].price \in Nat)
      /\ \A x \in i .. n : x \in i .. (n + 1) /\ U[x] = ts[x]
      /\ n + 1 \in i .. (n + 1)
  BY <1>1, <1>2
<1>6. U[i] = ts[i]
  BY <1>1
<1>7. (\E x \in i .. (n + 1) : U[x].price = c.high) /\ \A x \in i .. (n + 1) : U[x].price <= c.high
  <2>1. (\E x \in i .. n : ts[x].price = a.high) /\ \A x \in i .. n : ts[x].price <= a.high
    BY <1>4 DEF SaysRun
  <2>2. a.high <= c.high /\ t.price <= c.high /\ c.high \in Nat /\ (c.high = a.high \/ c.high = t.price)
    BY <1>2, <1>3
  <2>3. \E x \in i .. (n + 1) : U[x].price = c.high
    BY <1>1, <1>5, <2>1, <2>2
  <2>4. ASSUME NEW x \in i .. (n + 1) PROVE U[x].price <= c.high
    <3>1. CASE x = n + 1
      BY <1>1, <2>2, <3>1
    <3>2. CASE x \in i .. n /\ U[x] = ts[x] /\ ts[x].price \in Nat
      BY <1>2, <2>1, <2>2, <3>2
    <3> QED
      BY <1>5, <3>1, <3>2
  <2> QED
    BY <2>3, <2>4
<1>8. (\E x \in i .. (n + 1) : U[x].price = c.low) /\ \A x \in i .. (n + 1) : c.low <= U[x].price
  <2>1. (\E x \in i .. n : ts[x].price = a.low) /\ \A x \in i .. n : a.low <= ts[x].price
    BY <1>4 DEF SaysRun
  <2>2. c.low <= a.low /\ c.low <= t.price /\ c.low \in Nat /\ (c.low = a.low \/ c.low = t.price)
    BY <1>2, <1>3
  <2>3. \E x \in i .. (n + 1) : U[x].price = c.low
    BY <1>1, <1>5, <2>1, <2>2
  <2>4. ASSUME NEW x \in i .. (n + 1) PROVE c.low <= U[x].price
    <3>1. CASE x = n + 1
      BY <1>1, <2>2, <3>1
    <3>2. CASE x \in i .. n /\ U[x] = ts[x] /\ ts[x].price \in Nat
      BY <1>2, <2>1, <2>2, <3>2
    <3> QED
      BY <1>5, <3>1, <3>2
  <2> QED
    BY <2>3, <2>4
<1>9. a.start_ts = ts[i].ts_ns /\ a.open = ts[i].price /\ a.volume = v
  BY <1>4 DEF SaysRun
<1>10. SaysRun(c, U, i, n + 1, v + t.qty)
  BY <1>1, <1>3, <1>6, <1>7, <1>8, <1>9 DEF SaysRun
<1> QED
  BY <1>10 DEF n, U, c

-----------------------------------------------------------------------------
(* Time bars. *)

RunFrom(bars, k) == IF k = 1 THEN 1 ELSE bars[k - 1].upto + 1

QuietRun(ts, from, upto) == \A j \in (from + 1) .. upto : Span(ts, from, j) < time_bar_ns

ClosedRun(ts, from, upto) == from < upto /\ Span(ts, from, upto) >= time_bar_ns

TimeBar(ts, b, from) ==
  /\ from \in 1 .. Len(ts) /\ b.upto \in from .. Len(ts)
  /\ SaysRun(b, ts, from, b.upto, VolOf(ts, from, b.upto))
  /\ QuietRun(ts, from, b.upto - 1)

\* The trades from number from on are in the open bar.
TimeOpen(ts, acc, from) ==
  /\ from \in 1 .. (Len(ts) + 1)
  /\ IF from = Len(ts) + 1 THEN acc = Inactive
     ELSE /\ acc.active /\ SaysRun(acc, ts, from, Len(ts), VolOf(ts, from, Len(ts)))
          /\ QuietRun(ts, from, Len(ts))

TimeInv(ts, bars, acc) ==
  /\ \A k \in 1 .. Len(bars) :
       TimeBar(ts, bars[k], RunFrom(bars, k)) /\ ClosedRun(ts, RunFrom(bars, k), bars[k].upto)
  /\ TimeOpen(ts, acc, RunFrom(bars, Len(bars) + 1))

-----------------------------------------------------------------------------
(* Volume bars. *)

\* Trade i has a part in the k-th volume bar.
InPart(ts, k, i) ==
  IF ts[i].qty = 0
    THEN VolOf(ts, 1, i - 1) \div volume_bar_qty = k - 1
    ELSE /\ VolOf(ts, 1, i - 1) < k * volume_bar_qty
         /\ VolOf(ts, 1, i - 1) + ts[i].qty > (k - 1) * volume_bar_qty

\* The first and the last trade with a part in the k-th bar are lo and hi.
PartSpan(ts, k, lo, hi) ==
  InPart(ts, k, lo) /\ InPart(ts, k, hi) /\ \A i \in 1 .. Len(ts) : InPart(ts, k, i) => lo <= i /\ i <= hi

VolBar(ts, b, k, v) ==
  \E lo \in 1 .. Len(ts) : \E hi \in lo .. Len(ts) : PartSpan(ts, k, lo, hi) /\ SaysRun(b, ts, lo, hi, v)

VolOpen(ts, acc, k) ==
  IF acc.active
    THEN \E lo \in 1 .. Len(ts) : PartSpan(ts, k, lo, Len(ts)) /\ SaysRun(acc, ts, lo, Len(ts), acc.volume)
    ELSE acc.volume = 0 /\ \A i \in 1 .. Len(ts) : ~InPart(ts, k, i)

VolInv(ts, bars, acc) ==
  /\ VolOf(ts, 1, Len(ts)) = Len(bars) * volume_bar_qty + acc.volume
  /\ \A k \in 1 .. Len(bars) : VolBar(ts, bars[k], k, volume_bar_qty)
  /\ VolOpen(ts, acc, Len(bars) + 1)

-----------------------------------------------------------------------------
LEMMA SpanAppend ==
  ASSUME NEW ts \in Seq(Trade), NEW t \in Trade, NEW i \in 1 .. Len(ts), NEW j \in 1 .. Len(ts)
  PROVE  Span(Append(ts, t), i, j) = Span(ts, i, j)
BY AppendProperties DEF Span

\* A bar says the same when more trades have come.
LEMMA TimeBarAppend ==
  ASSUME NEW ts \in Seq(Trade), NEW t \in Trade, NEW b, NEW from, TimeBar(ts, b, from)
  PROVE  /\ TimeBar(Append(ts, t), b, from)
         /\ ClosedRun(ts, from, b.upto) => ClosedRun(Append(ts, t), from, b.upto)
<1> DEFINE U == Append(ts, t)
           upto == b.upto
<1>1. Len(ts) \in Nat /\ Len(U) = Len(ts) + 1
  BY LenProperties, AppendProperties
<1>2. from \in 1 .. Len(ts) /\ upto \in from .. Len(ts)
  BY DEF TimeBar
<1>3. from \in 1 .. Len(U) /\ upto \in from .. Len(U) /\ upto \in 1 .. Len(ts)
      /\ from \in Nat \ {0} /\ upto \in Nat /\ upto <= Len(ts)
  BY <1>1, <1>2
<1>4. SaysRun(b, ts, from, upto, VolOf(ts, from, upto))
  BY DEF TimeBar
<1> HIDE DEF upto
<1>5. SaysRun(b, U, from, upto, VolOf(ts, from, upto))
  BY <1>2, <1>4, SaysRunAppend
<1>6. VolOf(U, from, upto) = VolOf(ts, from, upto)
  BY <1>3, VolOfAppend
<1>7. \A j \in 1 .. Len(ts) : Span(U, from, j) = Span(ts, from, j)
  BY <1>2, SpanAppend
<1>8. \A j \in (from + 1) .. (upto - 1) : j \in 1 .. Len(ts)
  BY <1>1, <1>2
<1>9. QuietRun(U, from, upto - 1)
  BY <1>7, <1>8 DEF QuietRun, TimeBar, upto
<1>10. ClosedRun(ts, from, upto) => ClosedRun(U, from, upto)
  BY <1>3, <1>7 DEF ClosedRun
<1> HIDE DEF U
<1> QED
  BY <1>3, <1>5, <1>6, <1>9, <1>10 DEF TimeBar, upto, U

LEMMA TimeOpenFacts ==
  ASSUME NEW ts \in Seq(Trade), NEW acc, NEW from, TimeOpen(ts, acc, from)
  PROVE  /\ Len(ts) \in Nat /\ from \in 1 .. (Len(ts) + 1)
         /\ acc.active => /\ from \in 1 .. Len(ts)
                          /\ SaysRun(acc, ts, from, Len(ts), VolOf(ts, from, Len(ts)))
                          /\ QuietRun(ts, from, Len(ts))
         /\ ~acc.active => from = Len(ts) + 1 /\ acc = Inactive
<1>1. Len(ts) \in Nat
  BY LenProperties
<1>2. ~Inactive.active
  BY InactiveIsTyped
<1> QED
  BY <1>1, <1>2 DEF TimeOpen

\* A trade joins the open bar, or opens one.
LEMMA AccumulatedRun ==
  ASSUME NEW ts \in Seq(Trade), NEW t \in Trade, NEW acc \in Acc, NEW from, TimeOpen(ts, acc, from)
  PROVE  LET U == Append(ts, t)
         IN  /\ from \in 1 .. Len(U)
             /\ SaysRun(Accumulated(acc, t), U, from, Len(U), VolOf(U, from, Len(U)))
             /\ QuietRun(U, from, Len(U) - 1)
             /\ acc.active => from < Len(U) /\ Span(U, from, Len(U)) = (t.ts_ns - acc.start_ts) % TsMod
             /\ ~acc.active => from = Len(U)
<1> DEFINE U == Append(ts, t)
           n == Len(ts)
           a == Accumulated(acc, t)
<1>1. n \in Nat /\ U \in Seq(Trade) /\ Len(U) = n + 1 /\ U[n + 1] = t /\ \A i \in 1 .. n : U[i] = ts[i]
  BY LenProperties, AppendProperties
<1>2. from \in 1 .. (n + 1)
  BY TimeOpenFacts
<1>3. from \in Nat \ {0} /\ n + 1 \in Nat /\ n + 1 <= Len(U) /\ from <= n + 1 /\ (n + 1) - 1 = n
  BY <1>1, <1>2
<1>4. VolOf(U, from, n + 1) = VolOf(U, from, (n + 1) - 1) + U[n + 1].qty
  <2> DEFINE m == n + 1
  <2>1. m \in Nat /\ m <= Len(U) /\ from <= m
    BY <1>3
  <2> HIDE DEF m, U
  <2>2. VolOf(U, from, m) = VolOf(U, from, m - 1) + U[m].qty
    BY <1>1, <1>3, <2>1, VolOfFacts
  <2> QED
    BY <2>2 DEF m
<1>5. VolOf(U, from, n) = VolOf(ts, from, n) /\ VolOf(ts, from, n) \in Nat /\ (n < from => VolOf(ts, from, n) = 0)
  BY <1>1, <1>3, VolOfAppend, VolOfFacts
<1>6. t.qty \in Nat
  BY DEF Trade
<1>7. VolOf(U, from, n + 1) = VolOf(ts, from, n) + t.qty
  BY <1>1, <1>3, <1>4, <1>5
<1>8. CASE acc.active
  <2>1. from \in 1 .. n /\ SaysRun(acc, ts, from, n, VolOf(ts, from, n)) /\ QuietRun(ts, from, n)
    BY <1>8, TimeOpenFacts
  <2>2. SaysRun(a, U, from, n + 1, VolOf(ts, from, n) + t.qty)
    BY <1>8, <2>1, AccumulatedSays
  <2>3. \A j \in (from + 1) .. n : j \in 1 .. n
    BY <1>1, <2>1
  <2>4. QuietRun(U, from, n)
    BY <1>1, <2>1, <2>3 DEF QuietRun, Span
  <2>5. from < n + 1 /\ Span(U, from, n + 1) = (t.ts_ns - acc.start_ts) % TsMod
    BY <1>1, <2>1 DEF Span, SaysRun
  <2> HIDE DEF U, a
  <2> QED
    BY <1>1, <1>2, <1>3, <1>7, <1>8, <2>2, <2>4, <2>5 DEF U, a
<1>9. CASE ~acc.active
  <2>1. from = n + 1
    BY <1>9, TimeOpenFacts
  <2>2. SaysRun(a, U, n + 1, n + 1, t.qty)
    BY <1>9, OpenedSays
  <2>3. VolOf(U, from, n + 1) = t.qty
    BY <1>1, <1>5, <1>6, <1>7, <2>1
  <2>4. QuietRun(U, from, n)
    BY <1>1, <2>1 DEF QuietRun
  <2> HIDE DEF U, a
  <2> QED
    BY <1>1, <1>2, <1>3, <1>9, <2>1, <2>2, <2>3, <2>4 DEF U, a
<1> QED
  BY <1>8, <1>9

\* on_time() keeps cutting the trades into runs.
LEMMA OnTimeKeepsRuns ==
  ASSUME NEW ts \in Seq(Trade), NEW t \in Trade, NEW acc \in Acc, NEW bars \in Seq(BarRec),
         TimeInv(ts, bars, acc)
  PROVE  /\ ~TimeBarCloses(acc, t) => TimeInv(Append(ts, t), bars, Accumulated(acc, t))
         /\ \A b \in BarRec :
              /\ TimeBarCloses(acc, t) /\ b.upto = Len(ts) + 1
              /\ \A v, i, j : SaysRun(Accumulated(acc, t), Append(ts, t), i, j, v)
                                => SaysRun(b, Append(ts, t), i, j, v)
              => TimeInv(Append(ts, t), Append(bars, b), Inactive)
<1> DEFINE U == Append(ts, t)
           n == Len(ts)
           a == Accumulated(acc, t)
           m == Len(bars)
           from == RunFrom(bars, m + 1)
<1>1. n \in Nat /\ U \in Seq(Trade) /\ Len(U) = n + 1 /\ m \in Nat
  BY LenProperties, AppendProperties
<1>2. TimeOpen(ts, acc, from)
  BY DEF TimeInv
<1>3. /\ from \in 1 .. (n + 1)
      /\ SaysRun(a, U, from, n + 1, VolOf(U, from, n + 1))
      /\ QuietRun(U, from, (n + 1) - 1)
      /\ acc.active => from < n + 1 /\ Span(U, from, n + 1) = (t.ts_ns - acc.start_ts) % TsMod
      /\ ~acc.active => from = n + 1
  <2> HIDE DEF from
  <2> QED
    BY <1>1, <1>2, AccumulatedRun
<1>4. ASSUME NEW k \in 1 .. m
      PROVE  TimeBar(U, bars[k], RunFrom(bars, k)) /\ ClosedRun(U, RunFrom(bars, k), bars[k].upto)
  BY TimeBarAppend DEF TimeInv
<1>5. a.active
  <2>1. ~acc.active => acc.volume = 0
    BY <1>2, TimeOpenFacts, InactiveIsTyped
  <2> QED
    BY <2>1, AccumulatedAdds
<1> HIDE DEF U, n, a, m, from
<1>6. ASSUME ~TimeBarCloses(acc, t) PROVE TimeInv(U, bars, a)
  <2>1. QuietRun(U, from, n + 1)
    <3> SUFFICES ASSUME NEW j \in (from + 1) .. (n + 1) PROVE Span(U, from, j) < time_bar_ns
      BY DEF QuietRun
    <3>1. CASE j = n + 1
      <4>1. acc.active
        BY <1>1, <1>3, <3>1
      <4>2. ~(Span(U, from, n + 1) >= time_bar_ns)
        BY <1>3, <1>6, <4>1 DEF TimeBarCloses
      <4>3. Span(U, from, n + 1) \in Int /\ time_bar_ns \in Nat
        <5>1. from \in 1 .. Len(U) /\ n + 1 \in 1 .. Len(U)
          BY <1>1, <1>3
        <5>2. U[from].ts_ns \in Nat /\ U[n + 1].ts_ns \in Nat
          BY <1>1, <5>1, TradeOfSeq
        <5> QED
          BY <5>2, BarAssumption DEF Span
      <4> QED
        BY <3>1, <4>2, <4>3
    <3>2. CASE j # n + 1
      <4>1. j \in (from + 1) .. ((n + 1) - 1)
        BY <1>1, <1>3, <3>2
      <4> QED
        BY <1>3, <4>1 DEF QuietRun
    <3> QED
      BY <3>1, <3>2
  <2>2. TimeOpen(U, a, from)
    <3>1. from # Len(U) + 1 /\ from \in 1 .. (Len(U) + 1)
      BY <1>1, <1>3
    <3> QED
      BY <1>1, <1>3, <1>5, <2>1, <3>1 DEF TimeOpen
  <2> QED
    BY <1>4, <2>2 DEF TimeInv, from, m
<1>7. ASSUME NEW b \in BarRec, TimeBarCloses(acc, t), b.upto = n + 1,
             \A v, i, j : SaysRun(a, U, i, j, v) => SaysRun(b, U, i, j, v)
      PROVE  TimeInv(U, Append(bars, b), Inactive)
  <2> DEFINE more == Append(bars, b)
  <2>1. Len(more) = m + 1 /\ more[m + 1] = b /\ \A k \in 1 .. m : more[k] = bars[k]
    BY AppendProperties DEF m
  <2> HIDE DEF more
  <2>2. \A k \in 1 .. (m + 1) : RunFrom(more, k) = RunFrom(bars, k)
    <3>1. \A k \in 1 .. (m + 1) : k # 1 => k - 1 \in 1 .. m
      BY <1>1
    <3> QED
      BY <2>1, <3>1 DEF RunFrom
  <2>3. acc.active /\ (t.ts_ns - acc.start_ts) % TsMod >= time_bar_ns
    BY <1>7 DEF TimeBarCloses
  <2>4. TimeBar(U, b, from) /\ ClosedRun(U, from, n + 1)
    <3>1. from \in 1 .. Len(U) /\ b.upto \in from .. Len(U)
      BY <1>1, <1>3, <1>7
    <3>2. SaysRun(b, U, from, n + 1, VolOf(U, from, n + 1))
      BY <1>3, <1>7
    <3> QED
      BY <1>3, <1>7, <2>3, <3>1, <3>2 DEF TimeBar, ClosedRun
  <2>5. ASSUME NEW k \in 1 .. (m + 1)
        PROVE  TimeBar(U, more[k], RunFrom(more, k)) /\ ClosedRun(U, RunFrom(more, k), more[k].upto)
    <3>1. CASE k = m + 1
      BY <1>7, <2>1, <2>2, <2>4, <3>1 DEF from
    <3>2. CASE k # m + 1
      <4>1. k \in 1 .. m
        BY <1>1, <3>2
      <4> QED
        BY <1>4, <2>1, <2>2, <4>1
    <3> QED
      BY <3>1, <3>2
  <2>6. RunFrom(more, Len(more) + 1) = Len(U) + 1
    <3>1. (m + 1) + 1 # 1 /\ ((m + 1) + 1) - 1 = m + 1
      BY <1>1
    <3> QED
      BY <1>1, <1>7, <2>1, <3>1 DEF RunFrom
  <2>7. TimeOpen(U, Inactive, Len(U) + 1)
    BY <1>1 DEF TimeOpen
  <2> QED
    BY <2>1, <2>5, <2>6, <2>7 DEF TimeInv, more
<1> QED
  BY <1>6, <1>7 DEF U, n, a

-----------------------------------------------------------------------------
(* The time bars of a symbol as the property states them. *)

TimeProp(ts, bars, acc, flushed) ==
  /\ \A k \in DOMAIN bars :
       LET run == SubSeq(ts, RunFrom(bars, k), bars[k].upto)
       IN  /\ RunFrom(bars, k) <= bars[k].upto /\ Says(bars[k], run, Sum(run))
           /\ \A j \in (RunFrom(bars, k) + 1) .. (bars[k].upto - 1) :
                Span(ts, RunFrom(bars, k), j) < time_bar_ns
           /\ \/ RunFrom(bars, k) < bars[k].upto /\ Span(ts, RunFrom(bars, k), bars[k].upto) >= time_bar_ns
              \/ flushed /\ k = Len(bars)
  /\ LET run == SubSeq(ts, RunFrom(bars, Len(bars) + 1), Len(ts))
     IN  IF run = <<>> THEN acc = Inactive ELSE Says(acc, run, Sum(run))

LEMMA TimePropIsProperty ==
  TimeBarsAreRuns <=>
    \A s \in Symbols : TimeProp(seen[s], Bars(s, "time"), time_acc[s], pc = "flushed")
BY DEF TimeBarsAreRuns, TimeProp, RunFrom

LEMMA TimePropIsPropertyNext ==
  TimeBarsAreRuns' <=>
    \A s \in Symbols : TimeProp(seen'[s], BarsIn(written', s, "time"), time_acc'[s], pc' = "flushed")
BY DEF TimeBarsAreRuns, TimeProp, RunFrom, Bars

LEMMA TimeBarSays ==
  ASSUME NEW ts \in Seq(Trade), NEW b, NEW from, TimeBar(ts, b, from)
  PROVE  from <= b.upto /\ Says(b, SubSeq(ts, from, b.upto), Sum(SubSeq(ts, from, b.upto)))
<1> DEFINE upto == b.upto
<1>1. /\ from \in 1 .. Len(ts) /\ upto \in from .. Len(ts) /\ Len(ts) \in Nat
      /\ SaysRun(b, ts, from, upto, VolOf(ts, from, upto))
  BY LenProperties DEF TimeBar
<1> HIDE DEF upto
<1>2. Says(b, SubSeq(ts, from, upto), VolOf(ts, from, upto)) /\ from <= upto
  BY <1>1, SaysRunIsEnough
<1> QED
  BY <1>2 DEF VolOf, upto

LEMMA TimePropHolds ==
  ASSUME NEW ts \in Seq(Trade), NEW bars \in Seq(BarRec), NEW acc, NEW flushed,
         \A k \in 1 .. Len(bars) :
           /\ TimeBar(ts, bars[k], RunFrom(bars, k))
           /\ ClosedRun(ts, RunFrom(bars, k), bars[k].upto) \/ (flushed /\ k = Len(bars)),
         TimeOpen(ts, acc, RunFrom(bars, Len(bars) + 1))
  PROVE  TimeProp(ts, bars, acc, flushed)
<1>1. DOMAIN bars = 1 .. Len(bars) /\ Len(bars) \in Nat /\ Len(ts) \in Nat
  BY LenProperties
<1>2. ASSUME NEW k \in 1 .. Len(bars)
      PROVE  LET run == SubSeq(ts, RunFrom(bars, k), bars[k].upto)
             IN  RunFrom(bars, k) <= bars[k].upto /\ Says(bars[k], run, Sum(run))
  BY TimeBarSays
<1>3. ASSUME NEW k \in 1 .. Len(bars)
      PROVE  /\ \A j \in (RunFrom(bars, k) + 1) .. (bars[k].upto - 1) :
                  Span(ts, RunFrom(bars, k), j) < time_bar_ns
             /\ \/ RunFrom(bars, k) < bars[k].upto
                     /\ Span(ts, RunFrom(bars, k), bars[k].upto) >= time_bar_ns
                \/ flushed /\ k = Len(bars)
  BY DEF TimeBar, QuietRun, ClosedRun
<1>4. LET run == SubSeq(ts, RunFrom(bars, Len(bars) + 1), Len(ts))
      IN  IF run = <<>> THEN acc = Inactive ELSE Says(acc, run, Sum(run))
  <2> DEFINE from == RunFrom(bars, Len(bars) + 1)
             n == Len(ts)
  <2>1. TimeOpen(ts, acc, from)
    OBVIOUS
  <2>5. n \in Nat
    BY <1>1
  <2> HIDE DEF from
  <2>2. from \in 1 .. (n + 1)
    BY <2>1 DEF TimeOpen
  <2>3. CASE from = n + 1
    <3>1. from \in Int /\ n \in Int /\ n < from
      BY <2>3, <2>5
    <3>2. SubSeq(ts, from, n) = <<>>
      BY <3>1, SubSeqEmpty
    <3>3. acc = Inactive
      BY <2>1, <2>3 DEF TimeOpen
    <3> QED
      BY <3>2, <3>3 DEF from
  <2>4. CASE from # n + 1
    <3>1. from \in 1 .. n /\ n \in from .. n /\ from \in Int /\ n \in Int /\ from <= n
      BY <2>2, <2>4, <2>5
    <3>2. SaysRun(acc, ts, from, n, VolOf(ts, from, n))
      BY <2>1, <2>4 DEF TimeOpen
    <3>3. Says(acc, SubSeq(ts, from, n), VolOf(ts, from, n))
      BY <3>1, <3>2, SaysRunIsEnough
    <3>4. SubSeq(ts, from, n) # <<>>
      <4>1. \A i \in from .. n : i \in 1 .. Len(ts)
        BY <3>1
      <4>2. \A i \in from .. n : ts[i] \in Trade
        BY <4>1, ElementOfSeq
      <4>3. Len(SubSeq(ts, from, n)) = n - from + 1
        BY <3>1, <4>2, SubSeqProperties
      <4>4. n - from + 1 # 0
        BY <3>1
      <4> QED
        BY <4>3, <4>4
    <3> QED
      BY <3>3, <3>4 DEF VolOf, from
  <2> QED
    BY <2>3, <2>4
<1> QED
  BY <1>1, <1>2, <1>3, <1>4 DEF TimeProp

LEMMA TimeInvIsEnough ==
  ASSUME NEW ts \in Seq(Trade), NEW bars \in Seq(BarRec), NEW acc, NEW flushed, TimeInv(ts, bars, acc)
  PROVE  TimeProp(ts, bars, acc, flushed)
BY TimePropHolds DEF TimeInv

\* flush_all() closes the last run.
LEMMA FlushKeepsRuns ==
  ASSUME NEW ts \in Seq(Trade), NEW bars \in Seq(BarRec), NEW acc \in Acc, NEW s \in Symbols,
         TimeInv(ts, bars, acc)
  PROVE  TimeProp(ts, bars \o Part(s, "time", acc, Len(ts)), Inactive, TRUE)
<1> DEFINE n == Len(ts)
           m == Len(bars)
           from == RunFrom(bars, m + 1)
           b == Bar(s, "time", acc, n)
<1>1. n \in Nat /\ m \in Nat
  BY LenProperties
<1>2. TimeOpen(ts, acc, from)
  BY DEF TimeInv
<1> HIDE DEF from
<1>3. /\ from \in 1 .. (n + 1)
      /\ acc.active => /\ from \in 1 .. n /\ QuietRun(ts, from, n)
                       /\ SaysRun(acc, ts, from, n, VolOf(ts, from, n))
      /\ ~acc.active => from = n + 1 /\ acc = Inactive
  BY <1>2, TimeOpenFacts
<1>4. b \in BarRec /\ b.upto = n
  BY <1>1 DEF Bar, BarRec, BarTypes
<1>5. \A v, i, j : SaysRun(acc, ts, i, j, v) => SaysRun(b, ts, i, j, v)
  BY DEF SaysRun, Bar
<1>6. Flushes(acc, "time") <=> acc.active
  BY DEF Flushes, Acc
<1> HIDE DEF b
<1>7. CASE ~acc.active
  <2>1. Part(s, "time", acc, n) = <<>>
    BY <1>6, <1>7 DEF Part
  <2>2. bars \o <<>> = bars
    BY ConcatEmptySeq
  <2>3. acc = Inactive
    BY <1>3, <1>7
  <2>4. TimeProp(ts, bars, Inactive, TRUE)
    BY <2>3, TimeInvIsEnough
  <2> QED
    BY <2>1, <2>2, <2>4
<1>8. CASE acc.active
  <2> DEFINE more == Append(bars, b)
  <2>1. Part(s, "time", acc, n) = <<b>>
    BY <1>6, <1>8 DEF Part, b
  <2>2. bars \o <<b>> = more
    BY <1>4, AppendIsConcat
  <2>3. more \in Seq(BarRec) /\ Len(more) = m + 1 /\ more[m + 1] = b /\ \A k \in 1 .. m : more[k] = bars[k]
    BY <1>4, AppendProperties
  <2> HIDE DEF more
  <2>4. \A k \in 1 .. (m + 1) : RunFrom(more, k) = RunFrom(bars, k)
    <3>1. \A k \in 1 .. (m + 1) : k # 1 => k - 1 \in 1 .. m
      BY <1>1
    <3> QED
      BY <2>3, <3>1 DEF RunFrom
  <2>5. TimeBar(ts, b, from)
    <3>1. from \in 1 .. n /\ n \in from .. n /\ SaysRun(b, ts, from, n, VolOf(ts, from, n))
      BY <1>1, <1>3, <1>5, <1>8
    <3>2. \A j \in (from + 1) .. (n - 1) : j \in (from + 1) .. n
      BY <1>1, <1>3
    <3>3. QuietRun(ts, from, n - 1)
      BY <1>3, <1>8, <3>2 DEF QuietRun
    <3> QED
      BY <1>4, <3>1, <3>3 DEF TimeBar
  <2>6. ASSUME NEW k \in 1 .. (m + 1)
        PROVE  /\ TimeBar(ts, more[k], RunFrom(more, k))
               /\ ClosedRun(ts, RunFrom(more, k), more[k].upto) \/ k = m + 1
    <3>1. CASE k = m + 1
      BY <2>3, <2>4, <2>5, <3>1 DEF from
    <3>2. CASE k # m + 1
      <4>1. k \in 1 .. m
        BY <1>1, <3>2
      <4>2. TimeBar(ts, bars[k], RunFrom(bars, k)) /\ ClosedRun(ts, RunFrom(bars, k), bars[k].upto)
        BY <4>1 DEF TimeInv
      <4> QED
        BY <2>3, <2>4, <4>1, <4>2
    <3> QED
      BY <3>1, <3>2
  <2>7. RunFrom(more, Len(more) + 1) = n + 1
    <3>1. (m + 1) + 1 # 1 /\ ((m + 1) + 1) - 1 = m + 1
      BY <1>1
    <3> QED
      BY <1>4, <2>3, <3>1 DEF RunFrom
  <2>8. TimeOpen(ts, Inactive, n + 1)
    BY <1>1 DEF TimeOpen
  <2>9. TimeProp(ts, more, Inactive, TRUE)
    BY <2>3, <2>6, <2>7, <2>8, TimePropHolds
  <2> QED
    BY <2>1, <2>2, <2>9
<1> QED
  BY <1>7, <1>8

-----------------------------------------------------------------------------
(* Multiples of the size of a bar. *)

LEMMA MultiplesGrow ==
  ASSUME NEW q \in Nat, NEW j \in Int, NEW k \in Int, j <= k
  PROVE  j * q <= k * q
<1> DEFINE d == k - j
<1>1. d \in Nat /\ k = j + d
  OBVIOUS
<1> HIDE DEF d
<1>2. d * q >= 0 /\ d * q \in Int /\ j * q \in Int
  BY <1>1
<1>3. k * q = j * q + d * q
  BY <1>1
<1> QED
  BY <1>2, <1>3

LEMMA NextMultiple ==
  ASSUME NEW q \in Nat, NEW k \in Int
  PROVE  (k + 1) * q = k * q + q /\ k * q \in Int /\ (k - 1) * q = k * q - q
OBVIOUS

LEMMA Quotient ==
  ASSUME NEW q \in Nat \ {0}, NEW a \in Nat, NEW k \in Nat
  PROVE  /\ a \div q = k <=> (k * q <= a /\ a < (k + 1) * q)
         /\ a \div q = k => a % q = a - k * q
<1> DEFINE d == a \div q
           r == a % q
<1>1. a = (q * d) + r /\ d \in Int /\ r \in 0 .. (q - 1)
  OBVIOUS
<1> HIDE DEF d, r
<1>2. a = d * q + r
  BY <1>1
<1>3. (d + 1) * q = d * q + q /\ d * q \in Int /\ k * q \in Int /\ (k + 1) * q = k * q + q
  BY <1>1, NextMultiple
<1>4. d * q <= a /\ a < (d + 1) * q
  BY <1>1, <1>2, <1>3
<1>5. ASSUME k * q <= a, a < (k + 1) * q PROVE d = k
  <2>1. CASE d < k
    <3>1. d + 1 <= k
      BY <1>1, <2>1
    <3>2. (d + 1) * q <= k * q
      BY <1>1, <3>1, MultiplesGrow
    <3> QED
      BY <1>3, <1>4, <1>5, <3>2
  <2>2. CASE k < d
    <3>1. k + 1 <= d
      BY <1>1, <2>2
    <3>2. (k + 1) * q <= d * q
      BY <1>1, <3>1, MultiplesGrow
    <3> QED
      BY <1>3, <1>4, <1>5, <3>2
  <2> QED
    BY <1>1, <2>1, <2>2
<1>6. d = k => r = a - k * q
  BY <1>1, <1>2, <1>3
<1> QED
  BY <1>4, <1>5, <1>6 DEF d, r

-----------------------------------------------------------------------------
(* Which trades have a part in a bar. *)

\* The volume of the first i trades.
Before(ts, i) == VolOf(ts, 1, i)

LEMMA BeforeFacts ==
  ASSUME NEW ts \in Seq(Trade), NEW i \in 0 .. Len(ts)
  PROVE  /\ Before(ts, i) \in Nat
         /\ i # 0 => /\ i - 1 \in 0 .. Len(ts) /\ ts[i].qty \in Nat
                     /\ Before(ts, i) = Before(ts, i - 1) + ts[i].qty
<1>1. Len(ts) \in Nat
  BY LenProperties
<1>2. i \in Nat /\ i <= Len(ts) /\ 1 \in Nat \ {0} /\ (i # 0 => 1 <= i /\ i \in 1 .. Len(ts) /\ i - 1 \in 0 .. Len(ts))
  BY <1>1
<1>3. VolOf(ts, 1, i) \in Nat /\ (1 <= i => VolOf(ts, 1, i) = VolOf(ts, 1, i - 1) + ts[i].qty)
  BY <1>2, VolOfFacts
<1>4. i # 0 => ts[i].qty \in Nat
  BY <1>2, TradeOfSeq
<1> QED
  BY <1>2, <1>3, <1>4 DEF Before

LEMMA BeforeGrows ==
  ASSUME NEW ts \in Seq(Trade), NEW i \in 0 .. Len(ts), NEW j \in i .. Len(ts)
  PROVE  Before(ts, i) <= Before(ts, j)
<1> DEFINE Bad == {k \in Nat : k \in i .. Len(ts) /\ ~(Before(ts, i) <= Before(ts, k))}
<1>1. Len(ts) \in Nat /\ Before(ts, i) \in Nat
  BY LenProperties, BeforeFacts
<1>2. /\ Bad \in SUBSET Nat
      /\ \A k \in i .. Len(ts) : k \in Bad <=> ~(Before(ts, i) <= Before(ts, k))
      /\ \A k \in Bad : k \in i .. Len(ts)
  BY <1>1
<1> HIDE DEF Bad
<1> SUFFICES ASSUME Bad # {} PROVE FALSE
  BY <1>2
<1>3. PICK k \in Bad : \A x \in Bad : k <= x
  BY <1>2, LeastNumber
<1>4. k \in i .. Len(ts) /\ ~(Before(ts, i) <= Before(ts, k))
  BY <1>2
<1>5. k # i
  BY <1>1, <1>4
<1>6. k \in 0 .. Len(ts) /\ k # 0 /\ k - 1 \in i .. Len(ts) /\ ~(k <= k - 1) /\ k - 1 \in 0 .. Len(ts)
  BY <1>1, <1>4, <1>5
<1>7. Before(ts, i) <= Before(ts, k - 1)
  BY <1>2, <1>3, <1>6
<1>8. Before(ts, k) = Before(ts, k - 1) + ts[k].qty /\ ts[k].qty \in Nat
  BY <1>6, BeforeFacts
<1>9. Before(ts, k - 1) \in Nat
  BY <1>6, BeforeFacts
<1> QED
  BY <1>1, <1>4, <1>7, <1>8, <1>9

\* The condition of PartsOf without the quotient.
TakesPart(v, q, k) ==
  /\ v < k * volume_bar_qty
  /\ v + q > (k - 1) * volume_bar_qty \/ (q = 0 /\ v >= (k - 1) * volume_bar_qty)

LEMMA InPartIff ==
  ASSUME NEW ts \in Seq(Trade), NEW k \in Nat \ {0}, NEW i \in 1 .. Len(ts)
  PROVE  InPart(ts, k, i) <=> TakesPart(Before(ts, i - 1), ts[i].qty, k)
<1> DEFINE v == Before(ts, i - 1)
           x == ts[i].qty
           q == volume_bar_qty
<1>1. v \in Nat /\ x \in Nat
  <2>1. i \in 0 .. Len(ts) /\ i # 0
    BY LenProperties
  <2>2. i - 1 \in 0 .. Len(ts) /\ ts[i].qty \in Nat
    BY <2>1, BeforeFacts
  <2> QED
    BY <2>2, BeforeFacts
<1>2. q \in Nat \ {0}
  BY BarAssumption
<1>3. InPart(ts, k, i) <=> IF x = 0 THEN v \div q = k - 1 ELSE v < k * q /\ v + x > (k - 1) * q
  BY DEF InPart, Before
<1>4. TakesPart(v, x, k) <=> (v < k * q /\ (v + x > (k - 1) * q \/ (x = 0 /\ v >= (k - 1) * q)))
  BY DEF TakesPart
<1> HIDE DEF v, x, q
<1>5. v \div q = k - 1 <=> ((k - 1) * q <= v /\ v < k * q)
  <2> DEFINE p == k - 1
  <2>1. p \in Nat /\ p + 1 = k
    OBVIOUS
  <2> HIDE DEF p
  <2>2. v \div q = p <=> (p * q <= v /\ v < (p + 1) * q)
    BY <1>1, <1>2, <2>1, Quotient
  <2> QED
    BY <2>1, <2>2 DEF p
<1>6. (k - 1) * q \in Int /\ k * q \in Int
  BY <1>2
<1> QED
  BY <1>1, <1>3, <1>4, <1>5, <1>6 DEF v, x

LEMMA InPartAppend ==
  ASSUME NEW ts \in Seq(Trade), NEW t \in Trade, NEW k, NEW i \in 1 .. Len(ts)
  PROVE  InPart(Append(ts, t), k, i) <=> InPart(ts, k, i)
<1>1. Append(ts, t)[i] = ts[i]
  BY AppendProperties
<1>2. i - 1 \in Nat /\ i - 1 <= Len(ts) /\ 1 \in Nat \ {0}
  BY LenProperties
<1>3. VolOf(Append(ts, t), 1, i - 1) = VolOf(ts, 1, i - 1)
  BY <1>2, VolOfAppend
<1> QED
  BY <1>1, <1>3 DEF InPart

\* The trade that has just come.
LEMMA InPartLast ==
  ASSUME NEW ts \in Seq(Trade), NEW t \in Trade, NEW k \in Nat \ {0}
  PROVE  /\ InPart(Append(ts, t), k, Len(ts) + 1) <=> TakesPart(Before(ts, Len(ts)), t.qty, k)
         /\ Before(Append(ts, t), Len(ts)) = Before(ts, Len(ts))
         /\ Before(Append(ts, t), Len(ts) + 1) = Before(ts, Len(ts)) + t.qty
<1> DEFINE U == Append(ts, t)
           n == Len(ts)
<1>1. n \in Nat /\ U \in Seq(Trade) /\ Len(U) = n + 1 /\ U[n + 1] = t
  BY LenProperties, AppendProperties
<1>2. 1 \in Nat \ {0} /\ n <= n
  BY <1>1
<1>3. VolOf(U, 1, n) = VolOf(ts, 1, n)
  BY <1>1, <1>2, VolOfAppend
<1> HIDE DEF U, n
<1> DEFINE m == n + 1
<1>4. m \in 1 .. Len(U) /\ m \in 0 .. Len(U) /\ m # 0 /\ m - 1 = n
  BY <1>1
<1> HIDE DEF m
<1>5. InPart(U, k, m) <=> TakesPart(Before(U, m - 1), U[m].qty, k)
  BY <1>1, <1>4, InPartIff
<1>6. Before(U, m) = Before(U, m - 1) + U[m].qty
  BY <1>1, <1>4, BeforeFacts
<1> QED
  BY <1>1, <1>3, <1>4, <1>5, <1>6 DEF Before, U, n, m

-----------------------------------------------------------------------------
\* A trade that comes after a volume bar is full has no part in it.
LEMMA VolBarAppend ==
  ASSUME NEW ts \in Seq(Trade), NEW t \in Trade, NEW b, NEW k \in Nat \ {0}, NEW v, VolBar(ts, b, k, v),
         k * volume_bar_qty <= Before(ts, Len(ts))
  PROVE  VolBar(Append(ts, t), b, k, v)
<1> DEFINE U == Append(ts, t)
           n == Len(ts)
<1>1. n \in Nat /\ U \in Seq(Trade) /\ Len(U) = n + 1
  BY LenProperties, AppendProperties
<1>9. PICK lo \in 1 .. n : \E hi \in lo .. n : PartSpan(ts, k, lo, hi) /\ SaysRun(b, ts, lo, hi, v)
  BY DEF VolBar
<1>2. PICK hi \in lo .. n : PartSpan(ts, k, lo, hi) /\ SaysRun(b, ts, lo, hi, v)
  BY <1>9
<1>3. SaysRun(b, U, lo, hi, v)
  BY <1>2, SaysRunAppend
<1>4. ~InPart(U, k, n + 1)
  <2>1. Before(ts, n) \in Nat /\ k * volume_bar_qty \in Int
    <3>1. n \in 0 .. n
      BY <1>1
    <3> QED
      BY <3>1, BeforeFacts, BarAssumption
  <2>2. ~TakesPart(Before(ts, n), t.qty, k)
    BY <2>1 DEF TakesPart
  <2> QED
    BY <2>2, InPartLast
<1>5. \A i \in 1 .. n : InPart(U, k, i) <=> InPart(ts, k, i)
  BY InPartAppend
<1> HIDE DEF U
<1>6. /\ lo \in 1 .. n /\ hi \in 1 .. n /\ lo \in 1 .. Len(U) /\ hi \in lo .. Len(U)
      /\ \A i \in 1 .. Len(U) : i = n + 1 \/ i \in 1 .. n
  BY <1>1, <1>2
<1>7. PartSpan(U, k, lo, hi)
  BY <1>2, <1>4, <1>5, <1>6 DEF PartSpan
<1>8. VolBar(U, b, k, v)
  BY <1>3, <1>6, <1>7 DEF VolBar
<1> QED
  BY <1>8 DEF U

LEMMA VolInvFacts ==
  ASSUME NEW ts \in Seq(Trade), NEW bars \in Seq(BarRec), NEW acc \in Acc, VolInv(ts, bars, acc)
  PROVE  /\ Len(ts) \in Nat /\ Len(bars) \in Nat /\ acc.volume \in Nat /\ volume_bar_qty \in Nat \ {0}
         /\ Before(ts, Len(ts)) \in Nat
         /\ Before(ts, Len(ts)) = Len(bars) * volume_bar_qty + acc.volume
         /\ Len(bars) * volume_bar_qty \in Int
         /\ \A k \in 1 .. Len(bars) : k \in Nat \ {0} /\ k * volume_bar_qty <= Before(ts, Len(ts))
<1> DEFINE n == Len(ts)
           m == Len(bars)
           q == volume_bar_qty
           w == acc.volume
<1>1. n \in Nat /\ m \in Nat /\ w \in Nat /\ q \in Nat \ {0}
  BY LenProperties, BarAssumption DEF Acc
<1>2. n \in 0 .. n
  BY <1>1
<1>3. Before(ts, n) \in Nat
  BY <1>2, BeforeFacts
<1>4. Before(ts, n) = m * q + w
  BY DEF VolInv, Before
<1> HIDE DEF n, m, q, w
<1>5. m * q \in Int
  BY <1>1
<1>6. ASSUME NEW k \in 1 .. m PROVE k \in Nat \ {0} /\ k * q <= Before(ts, n)
  <2>1. k \in Int /\ m \in Int /\ k <= m /\ q \in Nat /\ k \in Nat \ {0}
    BY <1>1
  <2>2. k * q <= m * q /\ k * q \in Int
    BY <2>1, MultiplesGrow
  <2> QED
    BY <1>1, <1>3, <1>4, <1>5, <2>1, <2>2
<1> QED
  BY <1>1, <1>3, <1>4, <1>5, <1>6 DEF n, m, q, w

\* on_volume() up to its loop: the trade joins the open bar, or opens it.
LEMMA OnVolumeKeepsStretches ==
  ASSUME NEW ts \in Seq(Trade), NEW t \in Trade, NEW acc \in Acc, NEW bars \in Seq(BarRec),
         VolInv(ts, bars, acc), acc.volume < volume_bar_qty
  PROVE  /\ VolInv(Append(ts, t), bars, Accumulated(acc, t))
         /\ Before(Append(ts, t), Len(ts)) < (Len(bars) + 1) * volume_bar_qty
<1> DEFINE U == Append(ts, t)
           n == Len(ts)
           m == Len(bars)
           k == m + 1
           q == volume_bar_qty
           v == Before(ts, n)
           a == Accumulated(acc, t)
<1>1. /\ n \in Nat /\ m \in Nat /\ acc.volume \in Nat /\ q \in Nat \ {0} /\ v \in Nat
      /\ v = m * q + acc.volume /\ m * q \in Int
      /\ \A i \in 1 .. m : i \in Nat \ {0} /\ i * q <= v
  BY VolInvFacts
<1>2. U \in Seq(Trade) /\ Len(U) = n + 1 /\ U[n + 1] = t
  BY AppendProperties
<1>3. k \in Nat \ {0} /\ k * q = m * q + q /\ k * q \in Int /\ k - 1 = m
  BY <1>1, NextMultiple
<1>4. t.qty \in Nat
  BY DEF Trade
<1>5. ~acc.active => acc.volume = 0
  BY DEF VolInv, VolOpen
<1>6. a \in Acc /\ a.active /\ a.volume = acc.volume + t.qty
  BY <1>5, AccumulatedAdds
<1>7. Before(U, n) = v /\ Before(U, n + 1) = v + t.qty
  BY <1>3, InPartLast
<1>8. v < k * q
  BY <1>1, <1>3
<1>9. InPart(U, k, n + 1)
  <2> HIDE DEF v, q
  <2>1. v < k * q /\ v >= (k - 1) * q
    BY <1>1, <1>3, <1>8
  <2>2. v + t.qty > (k - 1) * q \/ (t.qty = 0 /\ v >= (k - 1) * q)
    BY <1>1, <1>3, <1>4
  <2>3. TakesPart(v, t.qty, k)
    BY <2>1, <2>2 DEF TakesPart, q
  <2> HIDE DEF k
  <2> QED
    BY <1>3, <2>3, InPartLast DEF v
<1>10. \A i \in 1 .. n : InPart(U, k, i) <=> InPart(ts, k, i)
  <2> HIDE DEF k
  <2> QED
    BY InPartAppend
<1>11. VolOpen(ts, acc, k)
  BY DEF VolInv
<1>12. ASSUME NEW i \in 1 .. m PROVE VolBar(U, bars[i], i, q)
  <2>1. i \in Nat \ {0} /\ i * q <= v
    BY <1>1
  <2>2. VolBar(ts, bars[i], i, q)
    BY DEF VolInv
  <2> QED
    BY <2>1, <2>2, VolBarAppend
<1> HIDE DEF U, n, m, k, q, v, a
<1>13. n + 1 \in 1 .. Len(U) /\ \A i \in 1 .. Len(U) : i <= n + 1 /\ (i = n + 1 \/ i \in 1 .. n)
  BY <1>1, <1>2
<1>14. VolOpen(U, a, k)
  <2>1. CASE acc.active
    <3>1. PICK lo \in 1 .. n : PartSpan(ts, k, lo, n) /\ SaysRun(acc, ts, lo, n, acc.volume)
      BY <1>11, <2>1 DEF VolOpen, n
    <3>2. lo \in 1 .. Len(U) /\ lo <= n + 1
      BY <1>1, <1>2
    <3>3. SaysRun(a, U, lo, n + 1, acc.volume + t.qty)
      BY <2>1, <3>1, AccumulatedSays DEF a, U, n
    <3>4. PartSpan(U, k, lo, n + 1)
      <4>1. InPart(U, k, lo)
        BY <1>10, <3>1 DEF PartSpan
      <4>2. ASSUME NEW i \in 1 .. Len(U), InPart(U, k, i) PROVE lo <= i /\ i <= n + 1
        <5>1. CASE i = n + 1
          BY <1>1, <3>2, <5>1
        <5>2. CASE i \in 1 .. n
          <6>1. InPart(ts, k, i)
            BY <1>10, <4>2, <5>2
          <6>2. lo <= i
            BY <3>1, <5>2, <6>1 DEF PartSpan, n
          <6> QED
            BY <1>13, <6>2
        <5> QED
          BY <1>13, <5>1, <5>2
      <4> QED
        BY <1>9, <4>1, <4>2 DEF PartSpan
    <3> QED
      BY <1>2, <1>6, <3>2, <3>3, <3>4 DEF VolOpen
  <2>2. CASE ~acc.active
    <3>1. \A i \in 1 .. n : ~InPart(U, k, i)
      BY <1>10, <1>11, <2>2 DEF VolOpen, n
    <3>2. n + 1 <= n + 1
      BY <1>1
    <3>3. PartSpan(U, k, n + 1, n + 1)
      BY <1>9, <1>13, <3>1, <3>2 DEF PartSpan
    <3>4. SaysRun(a, U, n + 1, n + 1, t.qty)
      BY <2>2, OpenedSays DEF a, U, n
    <3>5. a.volume = t.qty
      BY <1>4, <1>5, <1>6, <2>2
    <3> QED
      BY <1>2, <1>6, <1>13, <3>3, <3>4, <3>5 DEF VolOpen
  <2> QED
    BY <2>1, <2>2
<1>15. VolOf(U, 1, Len(U)) = m * q + a.volume
  BY <1>1, <1>2, <1>4, <1>6, <1>7 DEF Before
<1>16. VolInv(U, bars, a)
  BY <1>12, <1>14, <1>15 DEF VolInv, m, k, q
<1> QED
  BY <1>7, <1>8, <1>16 DEF U, a, n, k, m, q

\* One iteration of the loop: the open bar is written with its size, and the next one has
\* the rest of the trade, if there is one.
LEMMA LoopKeepsStretches ==
  ASSUME NEW ts \in Seq(Trade), NEW t \in Trade, NEW acc \in Acc, NEW bars \in Seq(BarRec), NEW b \in BarRec,
         VolInv(ts, bars, acc), VolumeBarFull(acc), Len(ts) > 0, ts[Len(ts)] = t,
         Before(ts, Len(ts) - 1) < (Len(bars) + 1) * volume_bar_qty,
         \A i, j : SaysRun(acc, ts, i, j, acc.volume) => SaysRun(b, ts, i, j, volume_bar_qty)
  PROVE  /\ VolInv(ts, Append(bars, b), Leftover(acc, t))
         /\ Before(ts, Len(ts) - 1) < ((Len(bars) + 1) + 1) * volume_bar_qty
<1> DEFINE n == Len(ts)
           m == Len(bars)
           k == m + 1
           q == volume_bar_qty
           v == Before(ts, n)
           u == Before(ts, n - 1)
           rest == Leftover(acc, t)
           more == Append(bars, b)
<1>1. /\ n \in Nat /\ m \in Nat /\ acc.volume \in Nat /\ q \in Nat \ {0} /\ v \in Nat
      /\ v = m * q + acc.volume /\ m * q \in Int
  BY VolInvFacts
<1>2. acc.active /\ acc.volume >= q
  BY DEF VolumeBarFull
<1>3. k \in Nat \ {0} /\ k + 1 \in Nat \ {0} /\ k * q = m * q + q /\ k * q \in Int
      /\ (k + 1) * q = k * q + q /\ (k + 1) - 1 = k
  <2>1. k \in Nat \ {0} /\ k + 1 \in Nat \ {0} /\ (k + 1) - 1 = k /\ q \in Nat /\ m \in Int /\ k \in Int
    BY <1>1
  <2>2. (m + 1) * q = m * q + q
    BY <2>1, NextMultiple
  <2> HIDE DEF q, k
  <2>3. (k + 1) * q = k * q + q /\ k * q \in Int
    BY <2>1, NextMultiple
  <2> QED
    BY <2>1, <2>2, <2>3 DEF k
<1>4. n \in 1 .. n /\ n \in 0 .. n /\ n # 0 /\ n - 1 \in 0 .. n
  BY <1>1
<1>5. v = u + t.qty /\ u \in Nat /\ t.qty \in Nat /\ u < k * q
  <2>1. v = u + t.qty /\ t.qty \in Nat
    BY <1>4, BeforeFacts
  <2>2. u \in Nat
    BY <1>4, BeforeFacts
  <2> QED
    BY <2>1, <2>2
<1>6. rest \in Acc /\ rest.volume = acc.volume - q
  BY LeftoverSubtracts
<1>7. Len(more) = k /\ more[k] = b /\ \A i \in 1 .. m : more[i] = bars[i]
  BY AppendProperties
<1>8. VolOpen(ts, acc, k)
  BY DEF VolInv
<1>9. PICK lo \in 1 .. n : PartSpan(ts, k, lo, n) /\ SaysRun(acc, ts, lo, n, acc.volume)
  BY <1>2, <1>8 DEF VolOpen
<1>10. ASSUME NEW i \in 1 .. n
       PROVE  /\ InPart(ts, k + 1, i) <=> TakesPart(Before(ts, i - 1), ts[i].qty, k + 1)
              /\ Before(ts, i - 1) \in Nat /\ ts[i].qty \in Nat
              /\ Before(ts, i - 1) + ts[i].qty <= v /\ Before(ts, i - 1) <= u
              /\ i # n => Before(ts, i - 1) + ts[i].qty <= u
  <2>1. i \in 0 .. n /\ i # 0 /\ i - 1 \in 0 .. n /\ n \in i .. n /\ n - 1 \in (i - 1) .. n
        /\ (i # n => n - 1 \in i .. n)
    BY <1>1
  <2>2. Before(ts, i) = Before(ts, i - 1) + ts[i].qty /\ ts[i].qty \in Nat
    BY <2>1, BeforeFacts
  <2>3. Before(ts, i - 1) \in Nat
    BY <2>1, BeforeFacts
  <2>4. Before(ts, i) <= v
    BY <2>1, BeforeGrows
  <2>5. Before(ts, i - 1) <= u
    BY <2>1, BeforeGrows
  <2>6. i # n => Before(ts, i) <= u
    BY <2>1, BeforeGrows
  <2> DEFINE p == k + 1
  <2> HIDE DEF p
  <2>7. p \in Nat \ {0}
    BY <1>3 DEF p
  <2>8. InPart(ts, p, i) <=> TakesPart(Before(ts, i - 1), ts[i].qty, p)
    BY <2>7, InPartIff
  <2> QED
    BY <2>2, <2>3, <2>4, <2>5, <2>6, <2>8 DEF p
<1>11. ASSUME NEW i \in 1 .. m PROVE VolBar(ts, more[i], i, q)
  BY <1>7 DEF VolInv
<1>12. SaysRun(b, ts, lo, n, q)
  BY <1>9
<1>13. ts[n] = t /\ t.ts_ns \in Nat /\ t.price \in Nat
  BY DEF Trade
<1> HIDE DEF n, m, k, q, v, u, rest, more
<1>14. VolBar(ts, b, k, q)
  <2>1. n \in lo .. n
    BY <1>1
  <2> QED
    BY <1>9, <1>12, <2>1 DEF VolBar, n
<1>15. \A i \in 1 .. k : VolBar(ts, more[i], i, q)
  <2>1. \A i \in 1 .. k : i = k \/ i \in 1 .. m
    BY <1>1 DEF k
  <2> QED
    BY <1>7, <1>11, <1>14, <2>1
<1> DEFINE M == m * q
           K == k * q
           N == (k + 1) * q
<1>21. /\ M \in Int /\ K \in Int /\ q \in Int /\ q > 0 /\ K = M + q /\ N = K + q
       /\ v \in Int /\ v = M + acc.volume /\ u \in Int /\ u < K /\ acc.volume \in Int
       /\ rest.volume = acc.volume - q
  BY <1>1, <1>3, <1>5, <1>6
<1> HIDE DEF M, K, N
<1>16. v = k * q + rest.volume
  <2>1. v = K + rest.volume
    BY <1>21
  <2> QED
    BY <2>1 DEF K
<1>17. ASSUME NEW i \in 1 .. n, i # n \/ acc.volume = q PROVE ~InPart(ts, k + 1, i)
  <2> DEFINE w == Before(ts, i - 1)
             x == ts[i].qty
  <2>1. w \in Nat /\ x \in Nat /\ w <= u /\ w + x <= v /\ (i # n => w + x <= u)
    BY <1>10
  <2>2. InPart(ts, k + 1, i) <=> TakesPart(w, x, k + 1)
    BY <1>10
  <2> HIDE DEF w, x
  <2>3. w + x <= k * q
    <3>1. CASE i # n
      <4>1. w + x <= K
        BY <1>21, <2>1, <3>1
      <4> QED
        BY <4>1 DEF K
    <3>2. CASE acc.volume = q
      <4>1. w + x <= K
        BY <1>21, <2>1, <3>2
      <4> QED
        BY <4>1 DEF K
    <3> QED
      BY <1>17, <3>1, <3>2
  <2>4. ~(w + x > k * q) /\ ~(w >= k * q)
    BY <1>3, <1>5, <2>1, <2>3
  <2> QED
    BY <1>3, <2>2, <2>4 DEF TakesPart, q
<1>18. VolOpen(ts, rest, k + 1)
  <2>1. CASE acc.volume = q
    <3>1. ~rest.active /\ rest.volume = 0
      BY <2>1, InactiveIsTyped DEF rest, Leftover, q
    <3> QED
      BY <1>17, <2>1, <3>1 DEF VolOpen, n
  <2>2. CASE acc.volume # q
    <3> DEFINE left == acc.volume - q
    <3>1. left \in Nat /\ left > 0
      BY <1>1, <1>2, <2>2
    <3>2. rest = [active |-> TRUE, start_ts |-> t.ts_ns, end_ts |-> acc.end_ts, open |-> t.price,
                  high |-> t.price, low |-> t.price, close |-> t.price, volume |-> left]
      BY <2>2 DEF rest, Leftover, Opened, q
    <3>3. acc.end_ts = t.ts_ns
      BY <1>9, <1>13 DEF SaysRun
    <3> HIDE DEF left
    <3>4. \A x \in n .. n : x = n
      BY <1>1
    <3>5. n \in n .. n /\ n <= n /\ t.price <= t.price
      BY <1>1, <1>13
    <3>6. SaysRun(rest, ts, n, n, rest.volume)
      BY <1>13, <3>2, <3>3, <3>4, <3>5 DEF SaysRun
    <3>7. InPart(ts, k + 1, n)
      <4>1. InPart(ts, k + 1, n) <=> TakesPart(u, t.qty, k + 1)
        BY <1>4, <1>10, <1>13 DEF u
      <4>2. u < N
        BY <1>21
      <4>3. u + t.qty > k * q
        BY <1>1, <1>3, <1>5, <1>6, <1>16, <3>1 DEF left
      <4> QED
        BY <1>3, <4>1, <4>2, <4>3 DEF TakesPart, q, N
    <3>8. PartSpan(ts, k + 1, n, n)
      BY <1>17, <3>5, <3>7 DEF PartSpan, n
    <3>9. rest.active
      BY <3>2
    <3> QED
      BY <1>4, <3>6, <3>8, <3>9 DEF VolOpen, n
  <2> QED
    BY <2>1, <2>2
<1>19. u < N
  BY <1>21
<1>20. VolInv(ts, more, rest)
  BY <1>7, <1>15, <1>16, <1>18 DEF VolInv, q, v, Before, n
<1> QED
  BY <1>19, <1>20 DEF more, rest, u, k, m, q, n, N

-----------------------------------------------------------------------------
(* The volume bars of a symbol as the property states them. *)

VolProp(ts, bars, acc, p) ==
  LET full == Sum(ts) \div volume_bar_qty
      rest == Sum(ts) % volume_bar_qty
  IN  /\ Len(bars) = full + (IF p = "flushed" /\ rest > 0 THEN 1 ELSE 0)
      /\ \A k \in DOMAIN bars :
           Says(bars[k], PartsOf(ts, k), IF k <= full THEN volume_bar_qty ELSE rest)
      /\ p = "ready" /\ acc.active => Says(acc, PartsOf(ts, full + 1), rest)
      /\ p = "ready" /\ ~acc.active => rest = 0

LEMMA VolPropIsProperty ==
  VolumeBarsAreStretches <=>
    (pc # "volume" => \A s \in Symbols : VolProp(seen[s], Bars(s, "volume"), vol_acc[s], pc))
BY DEF VolumeBarsAreStretches, VolProp

LEMMA VolPropIsPropertyNext ==
  VolumeBarsAreStretches' <=>
    (pc' # "volume" => \A s \in Symbols : VolProp(seen'[s], BarsIn(written', s, "volume"), vol_acc'[s], pc'))
BY DEF VolumeBarsAreStretches, VolProp, Bars

\* The trades from the first to the last with a part in a bar are those of PartsOf.
LEMMA PartsOfIs ==
  ASSUME NEW ts \in Seq(Trade), NEW k, NEW lo \in 1 .. Len(ts), NEW hi \in 1 .. Len(ts),
         PartSpan(ts, k, lo, hi)
  PROVE  PartsOf(ts, k) = SubSeq(ts, lo, hi)
<1> DEFINE P == {i \in DOMAIN ts : InPart(ts, k, i)}
<1>1. DOMAIN ts = 1 .. Len(ts) /\ Len(ts) \in Nat
  BY LenProperties
<1>2. P \in SUBSET Nat /\ lo \in P /\ hi \in P /\ \A i \in P : lo <= i /\ i <= hi
  BY <1>1 DEF PartSpan
<1>3. PartsOf(ts, k) = SubSeq(ts, Min(P), Max(P))
  <2> DEFINE before == [i \in DOMAIN ts |-> Sum(SubSeq(ts, 1, i - 1))]
             Has(i) == IF ts[i].qty = 0
                         THEN before[i] \div volume_bar_qty = k - 1
                         ELSE before[i] < k * volume_bar_qty
                                /\ before[i] + ts[i].qty > (k - 1) * volume_bar_qty
             parts == {i \in DOMAIN ts : Has(i)}
  <2>1. ASSUME NEW i \in DOMAIN ts PROVE Has(i) <=> InPart(ts, k, i)
    <3>1. before[i] = VolOf(ts, 1, i - 1)
      BY DEF VolOf
    <3> HIDE DEF before
    <3> QED
      BY <3>1 DEF InPart
  <2> HIDE DEF Has
  <2>2. parts = P
    BY <2>1
  <2>3. PartsOf(ts, k) = SubSeq(ts, Min(parts), Max(parts))
    BY DEF PartsOf, Has
  <2> HIDE DEF parts, P
  <2> QED
    BY <2>2, <2>3
<1> HIDE DEF P
<1>4. Max(P) = hi
  BY <1>2, LargestIsMax
<1>5. Min(P) = lo
  BY <1>2, SmallestIsMin
<1> QED
  BY <1>3, <1>4, <1>5

LEMMA VolBarSays ==
  ASSUME NEW ts \in Seq(Trade), NEW b, NEW k, NEW v, VolBar(ts, b, k, v)
  PROVE  Says(b, PartsOf(ts, k), v)
<1>1. PICK lo \in 1 .. Len(ts) : \E hi \in lo .. Len(ts) : PartSpan(ts, k, lo, hi) /\ SaysRun(b, ts, lo, hi, v)
  BY DEF VolBar
<1>2. PICK hi \in lo .. Len(ts) : PartSpan(ts, k, lo, hi) /\ SaysRun(b, ts, lo, hi, v)
  BY <1>1
<1>3. hi \in 1 .. Len(ts)
  BY LenProperties
<1>4. PartsOf(ts, k) = SubSeq(ts, lo, hi)
  BY <1>2, <1>3, PartsOfIs
<1>5. Says(b, SubSeq(ts, lo, hi), v)
  BY <1>2, SaysRunIsEnough
<1> QED
  BY <1>4, <1>5

\* The open bar as a bar, when it is not written yet.
LEMMA VolOpenIsBar ==
  ASSUME NEW ts \in Seq(Trade), NEW acc, NEW k, acc.active, VolOpen(ts, acc, k)
  PROVE  VolBar(ts, acc, k, acc.volume)
<1>1. PICK lo \in 1 .. Len(ts) : PartSpan(ts, k, lo, Len(ts)) /\ SaysRun(acc, ts, lo, Len(ts), acc.volume)
  BY DEF VolOpen
<1>2. Len(ts) \in lo .. Len(ts)
  BY LenProperties
<1> QED
  BY <1>1, <1>2 DEF VolBar

\* How many bars the traded volume fills, and what is left.
LEMMA FullAndRest ==
  ASSUME NEW ts \in Seq(Trade), NEW bars \in Seq(BarRec), NEW acc \in Acc, VolInv(ts, bars, acc),
         acc.volume < volume_bar_qty
  PROVE  Sum(ts) \div volume_bar_qty = Len(bars) /\ Sum(ts) % volume_bar_qty = acc.volume
<1> DEFINE n == Len(ts)
           m == Len(bars)
           q == volume_bar_qty
           w == acc.volume
           v == Sum(ts)
<1>1. n \in Nat /\ m \in Nat /\ w \in Nat /\ q \in Nat \ {0} /\ m * q \in Int
      /\ Before(ts, n) \in Nat /\ Before(ts, n) = m * q + w
  BY VolInvFacts
<1>2. v = Before(ts, n)
  <2>1. SubSeq(ts, 1, n) = ts
    BY SubSeqFull
  <2> QED
    BY <2>1 DEF Before, VolOf
<1>3. w < q
  OBVIOUS
<1> HIDE DEF n, m, q, w, v
<1>4. (m + 1) * q = m * q + q
  BY <1>1, NextMultiple
<1> DEFINE M == m * q
<1>5. M \in Int /\ (m + 1) * q = M + q /\ v = M + w /\ v \in Nat
  BY <1>1, <1>2, <1>4
<1> HIDE DEF M
<1>6. M <= v /\ v < M + q /\ v - M = w
  BY <1>1, <1>3, <1>5
<1>7. m * q <= v /\ v < (m + 1) * q
  BY <1>5, <1>6 DEF M
<1>8. v \div q = m /\ v % q = v - m * q
  BY <1>1, <1>5, <1>7, Quotient
<1>9. v % q = w
  BY <1>6, <1>8 DEF M
<1> QED
  BY <1>8, <1>9 DEF v, q, m, w

LEMMA VolInvIsEnough ==
  ASSUME NEW ts \in Seq(Trade), NEW bars \in Seq(BarRec), NEW acc \in Acc, VolInv(ts, bars, acc),
         acc.volume < volume_bar_qty
  PROVE  VolProp(ts, bars, acc, "ready")
<1> DEFINE full == Sum(ts) \div volume_bar_qty
           rest == Sum(ts) % volume_bar_qty
<1>1. full = Len(bars) /\ rest = acc.volume
  BY FullAndRest
<1>2. DOMAIN bars = 1 .. Len(bars) /\ Len(bars) \in Nat
  BY LenProperties
<1> HIDE DEF full, rest
<1>3. ASSUME NEW k \in DOMAIN bars
      PROVE  Says(bars[k], PartsOf(ts, k), IF k <= full THEN volume_bar_qty ELSE rest)
  <2>1. k \in 1 .. Len(bars) /\ k <= full
    BY <1>1, <1>2
  <2>2. VolBar(ts, bars[k], k, volume_bar_qty)
    BY <2>1 DEF VolInv
  <2> QED
    BY <2>1, <2>2, VolBarSays
<1>4. VolOpen(ts, acc, Len(bars) + 1)
  BY DEF VolInv
<1>5. acc.active => Says(acc, PartsOf(ts, full + 1), rest)
  BY <1>1, <1>4, VolOpenIsBar, VolBarSays
<1>6. ~acc.active => rest = 0
  BY <1>1, <1>4 DEF VolOpen
<1>7. Len(bars) = full + 0
  BY <1>1, <1>2
<1> QED
  BY <1>3, <1>5, <1>6, <1>7 DEF VolProp, full, rest

\* flush_all() writes the open bar when it has volume.
LEMMA FlushKeepsStretches ==
  ASSUME NEW ts \in Seq(Trade), NEW bars \in Seq(BarRec), NEW acc \in Acc, NEW s \in Symbols, NEW left,
         VolInv(ts, bars, acc), acc.volume < volume_bar_qty
  PROVE  VolProp(ts, bars \o Part(s, "volume", acc, Len(ts)), left, "flushed")
<1> DEFINE full == Sum(ts) \div volume_bar_qty
           rest == Sum(ts) % volume_bar_qty
           n == Len(ts)
           m == Len(bars)
           b == Bar(s, "volume", acc, n)
<1>1. full = m /\ rest = acc.volume
  BY FullAndRest
<1>2. DOMAIN bars = 1 .. m /\ m \in Nat /\ n \in Nat /\ acc.volume \in Nat /\ acc.active \in BOOLEAN
  BY LenProperties DEF Acc
<1>3. VolOpen(ts, acc, m + 1)
  BY DEF VolInv
<1>4. Flushes(acc, "volume") <=> rest > 0
  <2>1. ~acc.active => acc.volume = 0
    BY <1>3 DEF VolOpen
  <2> QED
    BY <1>1, <1>2, <2>1 DEF Flushes
<1>5. b \in BarRec
  BY <1>2 DEF Bar, BarRec, BarTypes
<1>6. \A v, i, j : SaysRun(acc, ts, i, j, v) => SaysRun(b, ts, i, j, v)
  BY DEF SaysRun, Bar
<1>7. ASSUME NEW k \in 1 .. m PROVE Says(bars[k], PartsOf(ts, k), volume_bar_qty)
  <2>1. VolBar(ts, bars[k], k, volume_bar_qty)
    BY DEF VolInv
  <2> QED
    BY <2>1, VolBarSays
<1> HIDE DEF full, rest, b, n, m
<1>8. CASE rest > 0
  <2> DEFINE more == Append(bars, b)
  <2>1. Part(s, "volume", acc, n) = <<b>>
    BY <1>4, <1>8 DEF Part, b
  <2>2. bars \o <<b>> = more
    BY <1>5, AppendIsConcat
  <2>3. /\ DOMAIN more = 1 .. (m + 1) /\ Len(more) = m + 1
        /\ more[m + 1] = b /\ \A k \in 1 .. m : more[k] = bars[k]
    <3>1. more \in Seq(BarRec) /\ Len(more) = m + 1 /\ more[m + 1] = b /\ \A k \in 1 .. m : more[k] = bars[k]
      BY <1>5, AppendProperties DEF m
    <3> HIDE DEF more
    <3> QED
      BY <3>1, LenProperties
  <2> HIDE DEF more
  <2>4. acc.active
    BY <1>4, <1>8 DEF Flushes
  <2>5. VolBar(ts, b, m + 1, rest)
    <3>1. VolBar(ts, acc, m + 1, rest)
      BY <1>1, <1>3, <2>4, VolOpenIsBar
    <3> QED
      BY <1>6, <3>1 DEF VolBar
  <2>6. ASSUME NEW k \in DOMAIN more
        PROVE  Says(more[k], PartsOf(ts, k), IF k <= full THEN volume_bar_qty ELSE rest)
    <3>1. CASE k = m + 1
      <4>1. ~(k <= full)
        BY <1>1, <1>2, <3>1
      <4>2. Says(b, PartsOf(ts, m + 1), rest)
        BY <2>5, VolBarSays
      <4> QED
        BY <2>3, <3>1, <4>1, <4>2
    <3>2. CASE k # m + 1
      <4>1. k \in 1 .. m /\ k <= full
        BY <1>1, <1>2, <2>3, <3>2
      <4> QED
        BY <1>7, <2>3, <4>1
    <3> QED
      BY <3>1, <3>2
  <2>7. VolProp(ts, more, left, "flushed")
    BY <1>1, <1>8, <2>3, <2>6 DEF VolProp, full, rest
  <2> QED
    BY <2>1, <2>2, <2>7 DEF n
<1>9. CASE ~(rest > 0)
  <2>1. Part(s, "volume", acc, n) = <<>>
    BY <1>4, <1>9 DEF Part
  <2>2. bars \o <<>> = bars
    BY ConcatEmptySeq
  <2>3. ASSUME NEW k \in DOMAIN bars
        PROVE  Says(bars[k], PartsOf(ts, k), IF k <= full THEN volume_bar_qty ELSE rest)
    <3>1. k \in 1 .. m /\ k <= full
      BY <1>1, <1>2
    <3> QED
      BY <1>7, <3>1
  <2>4. Len(bars) = full + 0
    BY <1>1, <1>2 DEF m
  <2>5. VolProp(ts, bars, left, "flushed")
    BY <1>9, <2>3, <2>4 DEF VolProp, full, rest
  <2> QED
    BY <2>1, <2>2, <2>5 DEF n
<1> QED
  BY <1>8, <1>9

-----------------------------------------------------------------------------
(* The invariant of both properties. *)

\* In the loop of on_volume() for trade t: the bar that is written next was not full before it.
InLoop(ts, bars, t) ==
  /\ Len(ts) > 0 /\ ts[Len(ts)] = t
  /\ Before(ts, Len(ts) - 1) < (Len(bars) + 1) * volume_bar_qty

SymbolInv(s) ==
  /\ TimeInv(seen[s], Bars(s, "time"), time_acc[s])
  /\ VolInv(seen[s], Bars(s, "volume"), vol_acc[s])
  /\ IF pc = "volume" /\ s = trade.symbol_id THEN InLoop(seen[s], Bars(s, "volume"), trade)
     ELSE vol_acc[s].volume < volume_bar_qty

RunsInv ==
  /\ pc \in {"ready", "volume", "flushed"}
  /\ seen \in [Symbols -> Seq(Trade)]
  /\ pc # "flushed" => written \in Seq(BarRec) /\ \A s \in Symbols : SymbolInv(s)
  /\ pc = "flushed" => TimeBarsAreRuns /\ VolumeBarsAreStretches

LEMMA BarsAreTyped ==
  ASSUME NEW W \in Seq(BarRec), NEW s, NEW type
  PROVE  BarsIn(W, s, type) \in Seq(BarRec)
BY BarsInIsSeq

LEMMA InitRuns == ASSUME Init PROVE RunsInv
<1>1. pc = "ready" /\ written = <<>>
  BY DEF Init
<1>2. written \in Seq(BarRec)
  BY <1>1
<1>3. seen \in [Symbols -> Seq(Trade)]
  BY DEF Init
<1>4. ASSUME NEW s \in Symbols PROVE SymbolInv(s)
  <2>1. seen[s] = <<>> /\ time_acc[s] = Inactive /\ vol_acc[s] = Inactive
    BY DEF Init
  <2>2. Bars(s, "time") = <<>> /\ Bars(s, "volume") = <<>>
    BY <1>1, BarsInEmpty DEF Bars
  <2>3. Len(<<>>) = 0 /\ <<>> \in Seq(Trade)
    OBVIOUS
  <2>4. \A k \in 1 .. 0 : FALSE
    OBVIOUS
  <2>5. TimeInv(<<>>, <<>>, Inactive)
    <3>1. RunFrom(<<>>, Len(<<>>) + 1) = Len(<<>>) + 1 /\ Len(<<>>) + 1 \in 1 .. (Len(<<>>) + 1)
      BY <2>3 DEF RunFrom
    <3> QED
      BY <2>3, <2>4, <3>1 DEF TimeInv, TimeOpen
  <2>6. VolInv(<<>>, <<>>, Inactive)
    <3>1. VolOf(<<>>, 1, Len(<<>>)) = 0
      <4> DEFINE e == <<>>
      <4>1. e \in Seq(Trade) /\ Len(e) = 0
        OBVIOUS
      <4> HIDE DEF e
      <4>2. 1 \in Nat \ {0} /\ Len(e) \in Nat /\ Len(e) <= Len(e) /\ Len(e) < 1
        BY <4>1
      <4>3. VolOf(e, 1, Len(e)) = 0
        BY <4>1, <4>2, VolOfFacts
      <4> QED
        BY <4>3 DEF e
    <3>2. 0 * volume_bar_qty + 0 = 0
      BY BarAssumption
    <3>3. VolOpen(<<>>, Inactive, 0 + 1)
      BY <2>3, <2>4, InactiveIsTyped DEF VolOpen
    <3> QED
      BY <2>3, <2>4, <3>1, <3>2, <3>3, InactiveIsTyped DEF VolInv
  <2>7. Inactive.volume < volume_bar_qty
    BY InactiveIsTyped, BarAssumption
  <2> QED
    BY <1>1, <2>1, <2>2, <2>5, <2>6, <2>7 DEF SymbolInv
<1> QED
  BY <1>1, <1>2, <1>3, <1>4 DEF RunsInv

LEMMA OnTradeKeepsRuns ==
  ASSUME BarInv, RunsInv, NEW t \in Trades, OnTrade(t)
  PROVE  RunsInv'
<1> DEFINE s == t.symbol_id
           ts == seen[s]
           U == Append(ts, t)
           n == Len(ts)
           q == volume_bar_qty
           a == Accumulated(time_acc[s], t)
           v == Accumulated(vol_acc[s], t)
           closes == TimeBarCloses(time_acc[s], t)
           b == Bar(s, "time", a, n + 1)
           W == written
           X == written'
<1>1. /\ pc = "ready" /\ s \in Symbols /\ trade' = t
      /\ seen' = [seen EXCEPT ![s] = U]
      /\ vol_acc' = [vol_acc EXCEPT ![s] = v]
      /\ time_acc' = [time_acc EXCEPT ![s] = IF closes THEN Inactive ELSE a]
      /\ X = IF closes THEN Append(W, b) ELSE W
      /\ pc' = IF VolumeBarFull(v) THEN "volume" ELSE "ready"
  BY DEF OnTrade, OnTime
<1>2. t \in Trade
  BY TradeIsTyped
<1>3. /\ W \in Seq(BarRec) /\ seen \in [Symbols -> Seq(Trade)] /\ ts \in Seq(Trade)
      /\ time_acc[s] \in Acc /\ vol_acc[s] \in Acc
  BY <1>1 DEF RunsInv, BarInv, BarTypeOK
<1>4. n \in Nat /\ U \in Seq(Trade) /\ Len(U) = n + 1 /\ U[n + 1] = t
  BY <1>2, <1>3, LenProperties, AppendProperties
<1>5. a \in Acc /\ v \in Acc /\ v.active /\ v.volume \in Nat
  <2>1. a \in Acc /\ v \in Acc /\ v.active
    BY <1>1, <1>2, <1>3, AccumulatedAdds DEF BarInv, IdleInv
  <2> QED
    BY <2>1 DEF Acc
<1>6. b \in BarRec /\ b.symbol_id = s /\ b.bar_type = "time" /\ b.upto = n + 1
  <2> HIDE DEF s, n, a
  <2>1. n + 1 \in Nat /\ "time" \in BarTypes
    BY <1>4 DEF BarTypes
  <2>2. b \in BarRec
    BY <1>1, <1>5, <2>1 DEF BarRec
  <2> QED
    BY <2>2 DEF Bar
<1>7. \A z, i, j : SaysRun(a, U, i, j, z) => SaysRun(b, U, i, j, z)
  <2> HIDE DEF s, n, a, U
  <2> QED
    BY DEF SaysRun, Bar
<1>8. seen' \in [Symbols -> Seq(Trade)] /\ seen'[s] = U /\ \A i \in Symbols \ {s} : seen'[i] = seen[i]
  BY <1>1, <1>3, <1>4
<1>9. /\ vol_acc'[s] = v /\ time_acc'[s] = (IF closes THEN Inactive ELSE a)
      /\ \A i \in Symbols \ {s} : vol_acc'[i] = vol_acc[i] /\ time_acc'[i] = time_acc[i]
  BY <1>1 DEF BarInv, BarTypeOK
<1>10. \A i \in Symbols :
         /\ TimeInv(seen[i], BarsIn(W, i, "time"), time_acc[i])
         /\ VolInv(seen[i], BarsIn(W, i, "volume"), vol_acc[i])
         /\ vol_acc[i].volume < q
  BY <1>1 DEF RunsInv, SymbolInv, Bars
<1> HIDE DEF s, U, n, q, a, v, closes, b, W, X
<1>11. X \in Seq(BarRec)
  BY <1>1, <1>3, <1>6, AppendProperties
<1>12. ASSUME NEW i, NEW type
       PROVE  BarsIn(X, i, type) = IF closes /\ i = s /\ type = "time" THEN Append(BarsIn(W, i, type), b)
                                   ELSE BarsIn(W, i, type)
  <2>1. BarsIn(Append(W, b), i, type) =
          IF b.symbol_id = i /\ b.bar_type = type THEN Append(BarsIn(W, i, type), b)
          ELSE BarsIn(W, i, type)
    BY <1>3, <1>6, BarsInAppend
  <2> QED
    BY <1>1, <1>6, <2>1
<1> DEFINE T == BarsIn(W, s, "time")
           V == BarsIn(W, s, "volume")
<1>13. T \in Seq(BarRec) /\ V \in Seq(BarRec)
  BY <1>3, BarsAreTyped
<1>14. TimeInv(ts, T, time_acc[s]) /\ VolInv(ts, V, vol_acc[s]) /\ vol_acc[s].volume < q
  BY <1>1, <1>10
<1> HIDE DEF T, V
<1>15. TimeInv(U, BarsIn(X, s, "time"), time_acc'[s])
  <2>1. /\ ~closes => TimeInv(U, T, a)
        /\ closes => TimeInv(U, Append(T, b), Inactive)
    <3>1. ~closes => TimeInv(U, T, a)
      BY <1>2, <1>3, <1>13, <1>14, OnTimeKeepsRuns DEF U, a, closes
    <3>2. ASSUME closes PROVE TimeInv(U, Append(T, b), Inactive)
      <4>1. TimeBarCloses(time_acc[s], t) /\ b.upto = Len(ts) + 1
        BY <1>6, <3>2 DEF closes, n
      <4>2. \A z, i, j : SaysRun(Accumulated(time_acc[s], t), Append(ts, t), i, j, z)
                           => SaysRun(b, Append(ts, t), i, j, z)
        BY <1>7 DEF a, U
      <4> QED
        BY <1>2, <1>3, <1>6, <1>13, <1>14, <4>1, <4>2, OnTimeKeepsRuns DEF U
    <3> QED
      BY <3>1, <3>2
  <2> QED
    BY <1>9, <1>12, <2>1 DEF T
<1>16. VolInv(U, BarsIn(X, s, "volume"), vol_acc'[s])
       /\ Before(U, n) < (Len(BarsIn(X, s, "volume")) + 1) * q
  <2>1. VolInv(U, V, v) /\ Before(U, n) < (Len(V) + 1) * q
    BY <1>2, <1>3, <1>13, <1>14, OnVolumeKeepsStretches DEF U, v, n, q
  <2> QED
    BY <1>9, <1>12, <2>1 DEF V
<1>17. ASSUME NEW i \in Symbols PROVE SymbolInv(i)'
  <2>1. CASE i = s
    <3>1. pc' = "volume" => InLoop(U, BarsIn(X, s, "volume"), t)
      <4>1. Len(U) > 0 /\ U[Len(U)] = t /\ Len(U) - 1 = n
        BY <1>4
      <4> QED
        BY <1>16, <4>1 DEF InLoop, q
    <3>2. pc' # "volume" => v.volume < volume_bar_qty
      BY <1>1, <1>5, BarAssumption DEF VolumeBarFull
    <3> QED
      BY <1>1, <1>8, <1>9, <1>15, <1>16, <2>1, <3>1, <3>2 DEF SymbolInv, Bars, X, s
  <2>2. CASE i # s
    <3>1. i \in Symbols \ {s}
      BY <2>2
    <3>2. /\ BarsIn(X, i, "time") = BarsIn(W, i, "time")
          /\ BarsIn(X, i, "volume") = BarsIn(W, i, "volume")
      BY <1>12, <2>2
    <3>3. seen'[i] = seen[i] /\ vol_acc'[i] = vol_acc[i] /\ time_acc'[i] = time_acc[i]
      BY <1>8, <1>9, <3>1
    <3> QED
      BY <1>1, <1>10, <2>2, <3>2, <3>3 DEF SymbolInv, Bars, X, s, q
  <2> QED
    BY <2>1, <2>2
<1>18. pc' \in {"ready", "volume"}
  BY <1>1
<1> QED
  BY <1>8, <1>11, <1>17, <1>18 DEF RunsInv, X

LEMMA WriteVolumeBarKeepsRuns == ASSUME BarInv, RunsInv, WriteVolumeBar PROVE RunsInv'
<1> DEFINE s == trade.symbol_id
           acc == vol_acc[s]
           ts == seen[s]
           n == Len(ts)
           q == volume_bar_qty
           full == [acc EXCEPT !.volume = q]
           rest == Leftover(acc, trade)
           b == Bar(s, "volume", full, n)
           W == written
           X == written'
<1>1. /\ pc = "volume" /\ X = Append(W, b)
      /\ vol_acc' = [vol_acc EXCEPT ![s] = rest]
      /\ pc' = IF VolumeBarFull(rest) THEN "volume" ELSE "ready"
      /\ trade' = trade /\ time_acc' = time_acc /\ seen' = seen
  BY DEF WriteVolumeBar
<1>2. /\ s \in Symbols /\ VolumeBarFull(acc) /\ acc \in Acc /\ trade \in Trade
  BY <1>1 DEF BarInv, LoopInv, BarTypeOK
<1>3. W \in Seq(BarRec) /\ seen \in [Symbols -> Seq(Trade)] /\ ts \in Seq(Trade)
  BY <1>1, <1>2 DEF RunsInv
<1>4. n \in Nat /\ q \in Nat \ {0}
  BY <1>3, LenProperties, BarAssumption
<1>5. full \in Acc
  BY <1>2, <1>4 DEF Acc
<1>6. rest \in Acc /\ rest.volume \in Nat /\ (~rest.active => rest.volume = 0)
  <2>1. rest \in Acc /\ (~rest.active => rest.volume = 0)
    BY <1>2, LeftoverSubtracts
  <2> QED
    BY <2>1 DEF Acc
<1>7. b \in BarRec /\ b.symbol_id = s /\ b.bar_type = "volume"
  <2> HIDE DEF s, n, full
  <2>1. "volume" \in BarTypes
    BY DEF BarTypes
  <2>2. b \in BarRec
    BY <1>2, <1>4, <1>5, <2>1 DEF BarRec
  <2> QED
    BY <2>2 DEF Bar
<1>8. \A i, j : SaysRun(acc, ts, i, j, acc.volume) => SaysRun(b, ts, i, j, q)
  <2>1. /\ full.start_ts = acc.start_ts /\ full.end_ts = acc.end_ts /\ full.open = acc.open
        /\ full.close = acc.close /\ full.high = acc.high /\ full.low = acc.low /\ full.volume = q
    BY <1>2 DEF Acc
  <2> HIDE DEF s, n, acc, ts, full, q
  <2> QED
    BY <2>1 DEF SaysRun, Bar
<1>9. vol_acc'[s] = rest /\ \A i \in Symbols \ {s} : vol_acc'[i] = vol_acc[i]
  BY <1>1, <1>2 DEF BarInv, BarTypeOK
<1>10. /\ \A i \in Symbols : /\ TimeInv(seen[i], BarsIn(W, i, "time"), time_acc[i])
                             /\ VolInv(seen[i], BarsIn(W, i, "volume"), vol_acc[i])
                             /\ i # s => vol_acc[i].volume < q
       /\ InLoop(ts, BarsIn(W, s, "volume"), trade)
  BY <1>1, <1>2 DEF RunsInv, SymbolInv, Bars
<1> DEFINE V == BarsIn(W, s, "volume")
           more == Append(V, b)
<1>11. V \in Seq(BarRec)
  BY <1>3, BarsAreTyped
<1> HIDE DEF s, acc, ts, n, q, full, rest, b, W, X
<1>12. X \in Seq(BarRec)
  BY <1>1, <1>3, <1>7, AppendProperties
<1>13. ASSUME NEW i, NEW type
       PROVE  BarsIn(X, i, type) = IF i = s /\ type = "volume" THEN Append(BarsIn(W, i, type), b)
                                   ELSE BarsIn(W, i, type)
  <2>1. BarsIn(Append(W, b), i, type) =
          IF b.symbol_id = i /\ b.bar_type = type THEN Append(BarsIn(W, i, type), b)
          ELSE BarsIn(W, i, type)
    BY <1>3, <1>7, BarsInAppend
  <2> QED
    BY <1>1, <1>7, <2>1
<1>14. BarsIn(X, s, "volume") = more
  BY <1>13
<1> HIDE DEF V, more
<1>15. VolInv(ts, V, acc) /\ InLoop(ts, V, trade)
  BY <1>2, <1>10 DEF V, ts, acc
<1>16. Len(ts) > 0 /\ ts[Len(ts)] = trade /\ Before(ts, Len(ts) - 1) < (Len(V) + 1) * volume_bar_qty
  BY <1>15 DEF InLoop
<1>17. VolInv(ts, more, rest) /\ Before(ts, Len(ts) - 1) < ((Len(V) + 1) + 1) * volume_bar_qty
  <2>1. \A i, j : SaysRun(acc, ts, i, j, acc.volume) => SaysRun(b, ts, i, j, volume_bar_qty)
    BY <1>8 DEF q
  <2> QED
    BY <1>2, <1>3, <1>7, <1>11, <1>15, <1>16, <2>1, LoopKeepsStretches DEF more, rest
<1>18. InLoop(ts, more, trade)
  <2>1. Len(more) = Len(V) + 1
    BY <1>7, <1>11, AppendProperties DEF more
  <2> QED
    BY <1>16, <1>17, <2>1 DEF InLoop
<1>19. pc' # "volume" => rest.volume < q
  BY <1>1, <1>4, <1>6 DEF VolumeBarFull, q
<1>20. s' = s
  BY <1>1 DEF s
<1>21. ASSUME NEW i \in Symbols PROVE SymbolInv(i)'
  <2>1. BarsIn(X, i, "time") = BarsIn(W, i, "time")
    BY <1>13
  <2>2. TimeInv(seen[i], BarsIn(X, i, "time"), time_acc[i])
    BY <1>10, <2>1
  <2>3. CASE i = s
    <3>1. VolInv(seen[i], BarsIn(X, i, "volume"), vol_acc'[i])
      BY <1>9, <1>14, <1>17, <2>3 DEF ts
    <3>2. IF pc' = "volume" THEN InLoop(seen[i], BarsIn(X, i, "volume"), trade) ELSE vol_acc'[i].volume < q
      BY <1>9, <1>14, <1>18, <1>19, <2>3 DEF ts
    <3> QED
      BY <1>1, <2>2, <2>3, <3>1, <3>2 DEF SymbolInv, Bars, X, q, s
  <2>4. CASE i # s
    <3>1. i \in Symbols \ {s}
      BY <2>4
    <3>2. BarsIn(X, i, "volume") = BarsIn(W, i, "volume") /\ vol_acc'[i] = vol_acc[i]
      BY <1>9, <1>13, <2>4, <3>1
    <3>3. VolInv(seen[i], BarsIn(X, i, "volume"), vol_acc'[i]) /\ vol_acc'[i].volume < q
      BY <1>10, <2>4, <3>2
    <3> QED
      BY <1>1, <2>2, <2>4, <3>3 DEF SymbolInv, Bars, X, q, s
  <2> QED
    BY <2>3, <2>4
<1>22. pc' \in {"ready", "volume"}
  BY <1>1
<1> QED
  BY <1>1, <1>3, <1>12, <1>21, <1>22 DEF RunsInv, X

LEMMA FlushAllKeepsRuns == ASSUME BarInv, RunsInv, FlushAll PROVE RunsInv'
<1>1. /\ pc = "ready" /\ pc' = "flushed" /\ seen' = seen
      /\ time_acc' = [s \in Symbols |-> Inactive]
  BY DEF FlushAll
<1>2. written \in Seq(BarRec) /\ seen \in [Symbols -> Seq(Trade)]
  BY <1>1 DEF RunsInv
<1>3. \A i \in Symbols : /\ time_acc[i] \in Acc /\ vol_acc[i] \in Acc
                         /\ seen[i] \in Seq(Trade) /\ Len(seen[i]) \in Nat
  BY <1>2, LenProperties DEF BarInv, BarTypeOK
<1>4. ASSUME NEW s \in Symbols
      PROVE  /\ TimeInv(seen[s], BarsIn(written, s, "time"), time_acc[s])
             /\ VolInv(seen[s], BarsIn(written, s, "volume"), vol_acc[s])
             /\ vol_acc[s].volume < volume_bar_qty
             /\ BarsIn(written, s, "time") \in Seq(BarRec) /\ BarsIn(written, s, "volume") \in Seq(BarRec)
  BY <1>1, <1>2, BarsAreTyped DEF RunsInv, SymbolInv, Bars
<1>5. ASSUME NEW s \in Symbols
      PROVE  TimeProp(seen'[s], BarsIn(written', s, "time"), time_acc'[s], TRUE)
  <2>1. BarsIn(written', s, "time") = BarsIn(written, s, "time") \o Part(s, "time", time_acc[s], Len(seen[s]))
    BY <1>2, <1>3, FlushAllWrites DEF FlushedOf, BarTypes
  <2>2. TimeProp(seen[s], BarsIn(written, s, "time") \o Part(s, "time", time_acc[s], Len(seen[s])),
                 Inactive, TRUE)
    <3> DEFINE ts == seen[s]
               T == BarsIn(written, s, "time")
               acc == time_acc[s]
    <3>1. ts \in Seq(Trade) /\ T \in Seq(BarRec) /\ acc \in Acc /\ TimeInv(ts, T, acc)
      BY <1>3, <1>4
    <3> HIDE DEF ts, T, acc
    <3>2. TimeProp(ts, T \o Part(s, "time", acc, Len(ts)), Inactive, TRUE)
      BY <3>1, FlushKeepsRuns
    <3> QED
      BY <3>2 DEF ts, T, acc
  <2> QED
    BY <1>1, <2>1, <2>2
<1>6. ASSUME NEW s \in Symbols
      PROVE  VolProp(seen'[s], BarsIn(written', s, "volume"), vol_acc'[s], "flushed")
  <2>1. BarsIn(written', s, "volume")
          = BarsIn(written, s, "volume") \o Part(s, "volume", vol_acc[s], Len(seen[s]))
    BY <1>2, <1>3, FlushAllWrites DEF FlushedOf, BarTypes
  <2> DEFINE ts == seen[s]
             V == BarsIn(written, s, "volume")
             acc == vol_acc[s]
             left == vol_acc'[s]
  <2>2. ts \in Seq(Trade) /\ V \in Seq(BarRec) /\ acc \in Acc /\ VolInv(ts, V, acc) /\ acc.volume < volume_bar_qty
    BY <1>3, <1>4
  <2> HIDE DEF ts, V, acc, left
  <2>3. VolProp(ts, V \o Part(s, "volume", acc, Len(ts)), left, "flushed")
    BY <2>2, FlushKeepsStretches
  <2> QED
    BY <1>1, <2>1, <2>3 DEF ts, V, acc, left
<1>7. TimeBarsAreRuns'
  <2>1. TimeBarsAreRuns' <=>
          \A s \in Symbols : TimeProp(seen'[s], BarsIn(written', s, "time"), time_acc'[s], pc' = "flushed")
    BY TimePropIsPropertyNext
  <2>2. (pc' = "flushed") = TRUE
    BY <1>1
  <2> QED
    BY <1>5, <2>1, <2>2
<1>8. VolumeBarsAreStretches'
  <2>1. VolumeBarsAreStretches' <=>
          (pc' # "volume" => \A s \in Symbols : VolProp(seen'[s], BarsIn(written', s, "volume"), vol_acc'[s], pc'))
    BY VolPropIsPropertyNext
  <2> QED
    BY <1>1, <1>6, <2>1
<1> QED
  BY <1>1, <1>2, <1>7, <1>8 DEF RunsInv

LEMMA RunsInvIsEnough == ASSUME BarInv, RunsInv PROVE TimeBarsAreRuns /\ VolumeBarsAreStretches
<1>1. CASE pc = "flushed"
  BY <1>1 DEF RunsInv
<1>2. CASE pc # "flushed"
  <2>1. ASSUME NEW s \in Symbols
        PROVE  /\ TimeProp(seen[s], Bars(s, "time"), time_acc[s], pc = "flushed")
               /\ pc # "volume" => VolProp(seen[s], Bars(s, "volume"), vol_acc[s], pc)
    <3> DEFINE ts == seen[s]
               T == Bars(s, "time")
               V == Bars(s, "volume")
               acc == vol_acc[s]
               f == pc = "flushed"
    <3>1. ts \in Seq(Trade) /\ T \in Seq(BarRec) /\ V \in Seq(BarRec) /\ acc \in Acc
      BY <1>2, BarsAreTyped DEF RunsInv, BarInv, BarTypeOK, Bars
    <3>2. /\ TimeInv(ts, T, time_acc[s]) /\ VolInv(ts, V, acc)
          /\ pc # "volume" => acc.volume < volume_bar_qty
      BY <1>2 DEF RunsInv, SymbolInv
    <3>3. pc # "volume" => pc = "ready"
      BY <1>2 DEF RunsInv
    <3> HIDE DEF ts, T, V, acc, f
    <3>4. TimeProp(ts, T, time_acc[s], f)
      BY <3>1, <3>2, TimeInvIsEnough
    <3>5. ASSUME pc # "volume" PROVE VolProp(ts, V, acc, "ready")
      BY <3>1, <3>2, <3>5, VolInvIsEnough
    <3> QED
      BY <3>3, <3>4, <3>5 DEF ts, T, V, acc, f
  <2> QED
    BY <2>1, TimePropIsProperty, VolPropIsProperty
<1> QED
  BY <1>1, <1>2

BothInv == BarInv /\ RunsInv

LEMMA BothInvariant == Spec => []BothInv
<1>1. Init => BothInv
  BY BarInvInit, InitRuns DEF BothInv
<1>2. BothInv /\ [Next]_vars => BothInv'
  <2> SUFFICES ASSUME BarInv, RunsInv, [Next]_vars PROVE BarInv' /\ RunsInv'
    BY DEF BothInv
  <2>1. ASSUME NEW t \in Trades, OnTrade(t) PROVE BarInv' /\ RunsInv'
    BY <2>1, OnTradeKeepsInv, OnTradeKeepsRuns
  <2>2. CASE WriteVolumeBar
    BY <2>2, WriteVolumeBarKeepsInv, WriteVolumeBarKeepsRuns
  <2>3. CASE FlushAll
    BY <2>3, FlushAllKeepsInv, FlushAllKeepsRuns
  <2>4. CASE UNCHANGED vars
    <3>1. BarInv'
      BY <2>4 DEF vars, BarInv, BarTypeOK, IdleInv, LoopInv, VolumeIsConserved
    <3>2. /\ pc' = pc /\ trade' = trade /\ time_acc' = time_acc /\ vol_acc' = vol_acc
          /\ written' = written /\ seen' = seen
      BY <2>4 DEF vars
    <3>3. \A s : SymbolInv(s)' <=> SymbolInv(s)
      BY <3>2 DEF SymbolInv, Bars
    <3>4. TimeBarsAreRuns' <=> TimeBarsAreRuns
      BY <3>2, TimePropIsProperty, TimePropIsPropertyNext DEF Bars
    <3>5. VolumeBarsAreStretches' <=> VolumeBarsAreStretches
      BY <3>2, VolPropIsProperty, VolPropIsPropertyNext DEF Bars
    <3> QED
      BY <3>1, <3>2, <3>3, <3>4, <3>5 DEF RunsInv
  <2> QED
    BY <2>1, <2>2, <2>3, <2>4 DEF Next, IgnoreTrade, Terminated
<1> QED
  BY <1>1, <1>2, PTL DEF Spec

\* The time bars of a symbol cut its trades into consecutive runs, and each bar, written or
\* open, says what its run says; on_time() closes a bar at the first trade whose unsigned
\* distance from the first one reaches time_bar_ns, and only flush_all() writes one before:
\* for every bar length and clock width, whatever the trades and their time stamps.
THEOREM TimeBarsCutTheTrades == Spec => []TimeBarsAreRuns
<1>1. BothInv => TimeBarsAreRuns
  BY RunsInvIsEnough DEF BothInv
<1> QED
  BY <1>1, BothInvariant, PTL

\* The k-th volume bar of a symbol says what the trades with a part in the k-th stretch of
\* volume_bar_qty of its traded volume say, and so does the open one: however large the trades
\* that the loop of on_volume() cuts, of quantity 0 too, and after flush_all().
THEOREM VolumeBarsCutTheVolume == Spec => []VolumeBarsAreStretches
<1>1. BothInv => VolumeBarsAreStretches
  BY RunsInvIsEnough DEF BothInv
<1> QED
  BY <1>1, BothInvariant, PTL
=============================================================================
