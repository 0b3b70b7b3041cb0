------------------------------ MODULE EventFlow ------------------------------
(***************************************************************************)
(* From a parsed message to the output files: handle_parsed() applies it   *)
(* to the book and publishes a tick, a trade, or both; the consumer thread *)
(* gives ticks to the BBO publisher and trades to the tape and the bars.   *)
(*                                                                         *)
(* Between the threads is the bounded FIFO that SpscQueue implements.      *)
(* publish() gives up when the queue stays full, and handle_parsed() goes  *)
(* on as if nothing had happened.  A message that is neither an order nor  *)
(* a trade, and an order message that the book rejects, publish nothing.   *)
(***************************************************************************)
EXTENDS Book, Sequences

CONSTANTS
  Capacity,         \* kEventQueueCapacity
  WireTrades,       \* trades of the feed, as <<symbol_id, <<price, qty>> >>; the book may
                    \* reject them
  MaxMessages       \* bound: messages of the feed

ASSUME FlowAssumption == Capacity \in Nat \ {0} /\ MaxMessages \in Nat

VARIABLES
  pending,          \* the events that handle_parsed() has still to publish
  queue,            \* queue_
  good,             \* whether out_ of the BBO publisher and of the tape could be opened
  bbo,              \* the last line of each symbol in the file of the BBO publisher
  tape,             \* the trades in the file of the trade tape
  seq,              \* the number of the last message that the book has not ignored
  trades,           \* history: the numbers of the trades
  accepted,         \* history: the numbers of the trades that the book has accepted
  ticksOut,         \* history: the messages whose tick reached the BBO publisher
  lostTicks,        \* history: the messages whose tick was given up
  lostTrades,       \* history: the trades that were given up
  unpublished       \* history: symbols whose last tick was given up

flowVars == <<pending, queue, good, bbo, tape>>
lossVars == <<lostTicks, lostTrades, unpublished>>
messageVars == <<seq, trades, accepted>>
allVars == <<vars, flowVars, messageVars, ticksOut, lossVars>>

TickEvent(s, tick, n) == [kind |-> "tick", symbol_id |-> s, tick |-> tick, seq |-> n]
TradeEvent(s, t, n) == [kind |-> "trade", symbol_id |-> s, trade |-> t, seq |-> n]

FlowInit ==
  /\ Init
  /\ pending = <<>> /\ queue = <<>>
  /\ good \in [bbo : BOOLEAN, tape : BOOLEAN]
  /\ bbo = [s \in Symbols |-> Top(books, s)]
  /\ tape = <<>>
  /\ seq = 0 /\ trades = {} /\ accepted = {}
  /\ ticksOut = {} /\ lostTicks = {} /\ lostTrades = {} /\ unpublished = {}

-----------------------------------------------------------------------------
(* handle_parsed() on the feed thread. *)

TickEvents(ticked) ==
  IF ticked = {} THEN <<>>
  ELSE LET s == CHOOSE s \in ticked : TRUE IN <<TickEvent(s, published'[s], seq + 1)>>

HandleOrder ==
  /\ pending = <<>> /\ seq < MaxMessages
  /\ \/ \E id \in OrderIds, r \in Order :
          \/ OnAdd(id, r) /\ pending' = TickEvents(AddTicks(id, r))
          \/ OnModify(id, r) /\ pending' = TickEvents(ModifyTicks(id, r))
     \/ \E id \in OrderIds : OnDelete(id) /\ pending' = TickEvents(DeleteTicks(id))
  /\ seq' = seq + 1
  /\ UNCHANGED <<queue, good, bbo, tape, trades, accepted, ticksOut, lossVars>>

Accepts(s, t) == s \in Symbols /\ t \in Trades

\* Mutant of HandleTrade: the trade is published before its tick.
HandleTradeFirst(s, t) ==
  /\ pending = <<>> /\ seq < MaxMessages
  /\ Accepts(s, t)
  /\ OnTrade(s, t)
  /\ pending' = <<TradeEvent(s, t, seq + 1), TickEvent(s, published'[s], seq + 1)>>
  /\ seq' = seq + 1 /\ trades' = trades \cup {seq + 1}
  /\ accepted' = accepted \cup {seq + 1}
  /\ UNCHANGED <<queue, good, bbo, tape, ticksOut, lossVars>>

HandleTrade(s, t) ==
  /\ pending = <<>> /\ seq < MaxMessages
  /\ Accepts(s, t)
  /\ OnTrade(s, t)
  /\ pending' = <<TickEvent(s, published'[s], seq + 1), TradeEvent(s, t, seq + 1)>>
  /\ seq' = seq + 1 /\ trades' = trades \cup {seq + 1}
  /\ accepted' = accepted \cup {seq + 1}
  /\ UNCHANGED <<queue, good, bbo, tape, ticksOut, lossVars>>

\* on_trade() returns nothing; the trade is published all the same.
HandleRejectedTrade(s, t) ==
  /\ pending = <<>> /\ seq < MaxMessages
  /\ ~Accepts(s, t)
  /\ pending' = <<TradeEvent(s, t, seq + 1)>>
  /\ seq' = seq + 1 /\ trades' = trades \cup {seq + 1}
  /\ UNCHANGED <<vars, queue, good, bbo, tape, accepted, ticksOut, lossVars>>

\* publish() finds room.
Publish ==
  /\ pending # <<>>
  /\ Len(queue) < Capacity
  /\ queue' = Append(queue, Head(pending))
  /\ pending' = Tail(pending)
  /\ unpublished' = IF Head(pending).kind = "tick"
                      THEN unpublished \ {Head(pending).symbol_id} ELSE unpublished
  /\ UNCHANGED <<vars, good, bbo, tape, messageVars, ticksOut, lostTicks, lostTrades>>

\* publish() gives up: the event is gone.
GiveUp ==
  LET ev == Head(pending)
  IN  /\ pending # <<>>
      /\ Len(queue) = Capacity
      /\ pending' = Tail(pending)
      /\ lostTicks' = IF ev.kind = "tick" THEN lostTicks \cup {ev.seq} ELSE lostTicks
      /\ unpublished' = IF ev.kind = "tick" THEN unpublished \cup {ev.symbol_id} ELSE unpublished
      /\ lostTrades' = IF ev.kind = "trade" THEN lostTrades \cup {ev.seq} ELSE lostTrades
      /\ UNCHANGED <<vars, queue, good, bbo, tape, messageVars, ticksOut>>

-----------------------------------------------------------------------------
(* consumer_loop() on the consumer thread. *)

\* Mutant of DispatchTick: the newest event is taken.
DispatchTickNewest ==
  LET ev == queue[Len(queue)]
  IN  /\ queue # <<>>
      /\ ev.kind = "tick"
      /\ bbo' = IF good.bbo THEN [bbo EXCEPT ![ev.symbol_id] = ev.tick.top] ELSE bbo
      /\ queue' = SubSeq(queue, 1, Len(queue) - 1)
      /\ ticksOut' = ticksOut \cup {ev.seq}
      /\ UNCHANGED <<vars, pending, good, tape, messageVars, lossVars>>

DispatchTick ==
  LET ev == Head(queue)
  IN  /\ queue # <<>>
      /\ ev.kind = "tick"
      /\ bbo' = IF good.bbo THEN [bbo EXCEPT ![ev.symbol_id] = ev.tick.top] ELSE bbo
      /\ queue' = Tail(queue)
      /\ ticksOut' = ticksOut \cup {ev.seq}
      /\ UNCHANGED <<vars, pending, good, tape, messageVars, lossVars>>

\* Mutant of DispatchTrade: the tape leaves out what the book would reject.
DispatchAcceptedTrade ==
  LET ev == Head(queue)
  IN  /\ queue # <<>>
      /\ ev.kind = "trade"
      /\ tape' = IF good.tape /\ Accepts(ev.symbol_id, ev.trade) THEN Append(tape, ev) ELSE tape
      /\ queue' = Tail(queue)
      /\ UNCHANGED <<vars, pending, good, bbo, messageVars, ticksOut, lossVars>>

\* The tape and the bars get the trade.
DispatchTrade ==
  LET ev == Head(queue)
  IN  /\ queue # <<>>
      /\ ev.kind = "trade"
      /\ tape' = IF good.tape THEN Append(tape, ev) ELSE tape
      /\ queue' = Tail(queue)
      /\ UNCHANGED <<vars, pending, good, bbo, messageVars, ticksOut, lossVars>>

\* No datagram comes, and the consumer finds the queue empty and yields.
Wait == pending = <<>> /\ queue = <<>> /\ UNCHANGED allVars

FlowNext ==
  \/ HandleOrder
  \/ \E w \in WireTrades : HandleTrade(w[1], w[2]) \/ HandleRejectedTrade(w[1], w[2])
  \/ Publish \/ GiveUp
  \/ DispatchTick \/ DispatchTrade
  \/ Wait

FlowSpec == FlowInit /\ [][FlowNext]_allVars

-----------------------------------------------------------------------------
Quiet == pending = <<>> /\ queue = <<>>

\* Once the queue is drained, the last line of a symbol in the BBO file is its top of
\* book, unless the last tick of that symbol was given up or an order was moved or added
\* again across symbols; a stale line lasts only until the next tick of the symbol gets
\* through.
BboFileIsCurrent ==
  Quiet /\ good.bbo =>
    \A s \in Symbols \ (unpublished \cup moved \cup readded) : bbo[s] = Top(books, s)

\* A trade never gets to the tape and the bars before its tick got to the BBO publisher,
\* unless that tick was given up while the trade was not.
TickBeforeTrade ==
  \A i \in DOMAIN tape : tape[i].seq \in accepted => tape[i].seq \in ticksOut \cup lostTicks

\* The tape has every trade of the feed that was not given up, in the order of the feed,
\* those that the book has rejected too, while the last trade of the book is the last
\* accepted one.
TapeAgreesWithBook ==
  /\ \A i, j \in DOMAIN tape : i < j => tape[i].seq < tape[j].seq
  /\ Quiet /\ good.tape =>
       /\ {tape[i].seq : i \in DOMAIN tape} = trades \ lostTrades
       /\ \A s \in Symbols :
            LET own == {i \in DOMAIN tape : tape[i].symbol_id = s /\ tape[i].seq \in accepted}
            IN  \/ last[s] = IF own = {} THEN <<0, 0>> ELSE tape[Max(own)].trade
                \/ lostTrades \cap accepted # {}
=============================================================================
