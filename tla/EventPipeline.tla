---------------------------- MODULE EventPipeline ----------------------------
(***************************************************************************)
(* The two threads of mdp::FeedHandler around its SpscQueue.               *)
(*                                                                         *)
(* The feed thread is run(): it opens its socket, or returns at once, and  *)
(* starts the consumer.  For each datagram, process_datagram() ends in any *)
(* number of publish() calls, one for each tick or trade, and each of them *)
(* gives up after PublishTries rejected pushes.  run() leaves its loop at  *)
(* its deadline or when stop_ is set, sets stop_ itself and joins the      *)
(* consumer; the destructor does so again.  The consumer thread is         *)
(* consumer_loop(): it pops and dispatches until stop_ is set and the queue *)
(* looks empty, then flushes the bars.  request_stop() is public: a third  *)
(* thread may call it, also before run() has started the consumer.         *)
(*                                                                         *)
(* The events are numbered in the order in which they are published.       *)
(***************************************************************************)
EXTENDS SpscQueue

CONSTANTS
  PublishTries,     \* try_push() calls of publish() (65 in the code)
  ExternalStop      \* whether another thread may call request_stop()

ASSUME PublishTriesAssumption == PublishTries \in Nat \ {0}
ASSUME ExternalStopAssumption == ExternalStop \in BOOLEAN
ASSUME EventsAssumption == Item = 1 .. MaxPushes

VARIABLES
  fpc,              \* where the feed thread is
  ev,               \* the event being, or last, published
  tries,            \* try_push() calls left for it
  dropped,          \* history: the events publish() gave up
  stop,             \* stop_
  external,         \* history: request_stop() was called by a third thread
  lpc,              \* where consumer_loop() is; "none" and "joined": consumer_ is not joinable
  handled           \* history: the events dispatched to the consumers

feedVars == <<fpc, ev, tries, dropped>>
loopVars == <<lpc, handled>>
stopVars == <<stop, external>>
vars == <<queueVars, feedVars, loopVars, stopVars>>

Init ==
  /\ QueueInit
  /\ fpc = "open" /\ ev = 0 /\ tries = 0 /\ dropped = {}
  /\ stop = FALSE /\ external = FALSE
  /\ lpc = "none" /\ handled = <<>>

-----------------------------------------------------------------------------
(* The feed thread. *)

\* socket() or bind() fails: run() returns 1, without a consumer.
OpenFails ==
  /\ fpc = "open"
  /\ fpc' = "returned"
  /\ UNCHANGED <<queueVars, ev, tries, dropped, loopVars, stopVars>>

StartConsumer ==
  /\ fpc = "open"
  /\ fpc' = "select"
  /\ lpc' = "while"
  /\ UNCHANGED <<queueVars, ev, tries, dropped, handled, stopVars>>

\* The loop of run() sees no stop and recvfrom() returns a datagram.
TakeDatagram ==
  /\ fpc = "select"
  /\ ~stop
  /\ fpc' = "datagram"
  /\ UNCHANGED <<queueVars, ev, tries, dropped, loopVars, stopVars>>

EndDatagram ==
  /\ fpc = "datagram"
  /\ fpc' = "select"
  /\ UNCHANGED <<queueVars, ev, tries, dropped, loopVars, stopVars>>

\* handle_parsed() has a tick or a trade and calls publish().
Publish ==
  /\ fpc = "datagram"
  /\ ev < MaxPushes
  /\ ev' = ev + 1
  /\ tries' = PublishTries
  /\ fpc' = "publish"
  /\ UNCHANGED <<queueVars, dropped, loopVars, stopVars>>

\* publish()'s try_push() finds room ...
TryPush ==
  /\ fpc = "publish"
  /\ PushLoad(ev)
  /\ fpc' = "push"
  /\ UNCHANGED <<ev, tries, dropped, loopVars, stopVars>>

PushOn ==
  /\ PushWrite \/ PushPublish
  /\ UNCHANGED <<feedVars, loopVars, stopVars>>

\* Mutant of PushDone: the result true is taken for false.
PushDoneRetries ==
  /\ PushAdvance
  /\ fpc' = "publish"
  /\ UNCHANGED <<ev, tries, dropped, loopVars, stopVars>>

\* ... and returns true,
PushDone ==
  /\ PushAdvance
  /\ fpc' = "datagram"
  /\ UNCHANGED <<ev, tries, dropped, loopVars, stopVars>>

\* Mutant of PushFails: one try too many.
PushFailsLate ==
  /\ fpc = "publish"
  /\ PushRejects
  /\ tries' = tries - 1
  /\ IF tries > 0
       THEN UNCHANGED <<fpc, dropped>>
       ELSE fpc' = "datagram" /\ dropped' = dropped \cup {ev}
  /\ UNCHANGED <<queueVars, ev, loopVars, stopVars>>

\* or returns false: try again, or give the event up.  The callers of publish()
\* ignore its result.
PushFails ==
  /\ fpc = "publish"
  /\ PushRejects
  /\ tries' = tries - 1
  /\ IF tries > 1
       THEN UNCHANGED <<fpc, dropped>>
       ELSE fpc' = "datagram" /\ dropped' = dropped \cup {ev}
  /\ UNCHANGED <<queueVars, ev, loopVars, stopVars>>

\* Mutant of LeaveLoop: run() joins the consumer without request_stop().
LeaveLoopUnstopped ==
  /\ fpc = "select"
  /\ fpc' = "join"
  /\ UNCHANGED <<queueVars, ev, tries, dropped, loopVars, stopVars>>

\* The loop of run() ends, at the deadline or because of stop_; request_stop().
LeaveLoop ==
  /\ fpc = "select"
  /\ stop' = TRUE
  /\ fpc' = "join"
  /\ UNCHANGED <<queueVars, ev, tries, dropped, loopVars, external>>

\* consumer_.join() returns, and so does run().
Join ==
  /\ fpc = "join"
  /\ lpc = "done"
  /\ lpc' = "joined"
  /\ fpc' = "returned"
  /\ UNCHANGED <<queueVars, ev, tries, dropped, handled, stopVars>>

\* ~FeedHandler(): request_stop(), and join() when consumer_ is joinable.
Destroy ==
  /\ fpc = "returned"
  /\ lpc \in {"none", "done", "joined"}
  /\ lpc' = IF lpc = "done" THEN "joined" ELSE lpc
  /\ stop' = TRUE
  /\ fpc' = "destroyed"
  /\ UNCHANGED <<queueVars, ev, tries, dropped, handled, external>>

\* Another thread calls request_stop().
RequestStop ==
  /\ ExternalStop
  /\ ~stop
  /\ stop' = TRUE
  /\ external' = TRUE
  /\ UNCHANGED <<queueVars, feedVars, loopVars>>

-----------------------------------------------------------------------------
(* The consumer thread. *)

\* Mutant of CheckStop: stop_ is loaded relaxed, and shows the consumer nothing.
CheckStopRelaxed ==
  /\ lpc = "while"
  /\ lpc' = IF stop THEN "empty" ELSE "pop"
  /\ UNCHANGED <<queueVars, feedVars, handled, stopVars>>

\* Mutant of CheckStop: the loop ends at stop_, whatever is in the queue.
CheckStopOnly ==
  /\ lpc = "while"
  /\ lpc' = IF stop THEN "flush" ELSE "pop"
  /\ head_seen' = IF stop /\ ~external THEN head ELSE head_seen
  /\ UNCHANGED <<tail, cpc, popped, producerVars, slotVars, feedVars, handled, stopVars>>

\* Loading the stop_ that the feed thread released shows the consumer every store
\* of head_; a stop_ released by another thread shows it nothing.
CheckStop ==
  /\ lpc = "while"
  /\ lpc' = IF stop THEN "empty" ELSE "pop"
  /\ head_seen' = IF stop /\ ~external THEN head ELSE head_seen
  /\ UNCHANGED <<tail, cpc, popped, producerVars, slotVars, feedVars, handled, stopVars>>

CheckEmpty(h) ==
  /\ lpc = "empty"
  /\ LoadHead(h)
  /\ lpc' = IF h = tail THEN "flush" ELSE "pop"
  /\ UNCHANGED <<feedVars, handled, stopVars>>

TryPop ==
  /\ lpc = "pop"
  /\ PopLoad
  /\ UNCHANGED <<feedVars, loopVars, stopVars>>

PopOn ==
  /\ PopRead \/ PopRelease
  /\ UNCHANGED <<feedVars, loopVars, stopVars>>

PopDone ==
  /\ PopAdvance
  /\ lpc' = "dispatch"
  /\ UNCHANGED <<feedVars, handled, stopVars>>

\* try_pop() returns false: yield and go around the loop.
PopFails ==
  /\ lpc = "pop"
  /\ cpc = "idle"
  /\ PopRejects
  /\ lpc' = "while"
  /\ UNCHANGED <<queueVars, feedVars, handled, stopVars>>

\* The popped event goes to the BBO publisher, or to the tape and the bars.
Dispatch ==
  /\ lpc = "dispatch"
  /\ handled' = Append(handled, popped[Len(popped)])
  /\ lpc' = "while"
  /\ UNCHANGED <<queueVars, feedVars, stopVars>>

FlushAll ==
  /\ lpc = "flush"
  /\ lpc' = "done"
  /\ UNCHANGED <<queueVars, feedVars, handled, stopVars>>

-----------------------------------------------------------------------------
\* The steps of the feed thread that nothing outside the process can delay.
FeedStep ==
  \/ OpenFails \/ StartConsumer
  \/ EndDatagram \/ TryPush \/ PushOn \/ PushDone \/ PushFails
  \/ Join \/ Destroy

ConsumerStep ==
  \/ CheckStop \/ \E h \in head_seen .. head : CheckEmpty(h)
  \/ TryPop \/ PopOn \/ PopDone \/ PopFails \/ Dispatch \/ FlushAll

Terminated == fpc = "destroyed" /\ UNCHANGED vars

Next ==
  \/ TakeDatagram \/ Publish \/ LeaveLoop \/ FeedStep
  \/ ConsumerStep
  \/ RequestStop
  \/ Terminated

\* Both threads are scheduled, select() times out and lets run() see stop_, and a store
\* does not stay invisible for ever: a load that is repeated without end does return
\* the newest value.
Fairness ==
  /\ WF_vars(FeedStep \/ (stop /\ LeaveLoop)) /\ WF_vars(ConsumerStep)
  /\ SF_vars(TryPop) /\ SF_vars(CheckEmpty(head))

Spec == Init /\ [][Next]_vars /\ Fairness

-----------------------------------------------------------------------------
\* The queue and the two threads keep their declared types.
TypeOK ==
  /\ QueueTypeOK
  /\ fpc \in {"open", "select", "datagram", "publish", "push", "join", "returned", "destroyed"}
  /\ ev \in 0 .. MaxPushes /\ tries \in 0 .. PublishTries
  /\ dropped \subseteq Item
  /\ stop \in BOOLEAN /\ external \in BOOLEAN
  /\ lpc \in {"none", "while", "empty", "pop", "dispatch", "flush", "done", "joined"}
  /\ handled \in Seq(Item)

\* Nothing is lost unnoticed between publish() and the consumers: an event was
\* dropped by publish(), waits in the queue, or is being dispatched, and the events
\* that were not dropped are dispatched in the order they were published.
HandledInOrder ==
  /\ \A i, j \in 1 .. Len(pushed) : i < j => pushed[i] < pushed[j]
  /\ {pushed[i] : i \in 1 .. Len(pushed)} \cap dropped = {}
  /\ handled = SubSeq(pushed, 1, Len(handled))
  /\ Len(popped) - Len(handled) \in 0 .. 1
  /\ fpc \notin {"publish", "push"} =>
       {pushed[i] : i \in 1 .. Len(pushed)} \cup dropped = 1 .. ev

\* The shutdown of run() loses nothing: when it set stop_ itself, it returns after
\* every event that was accepted by the queue was dispatched.
DrainedAtReturn ==
  fpc \in {"returned", "destroyed"} /\ ~external => handled = pushed

\* stop_ ends both threads, whoever set it and when, also before the consumer was started
\* and with a full queue: the joins of run() and of the destructor return, and a run()
\* that could not open its socket has no consumer to wait for.
RunReturns == (stop \/ fpc \in {"join", "returned"}) ~> (fpc = "destroyed" /\ lpc \in {"none", "joined"})

\* Every event that the queue accepted reaches the consumers, unless a third thread
\* called request_stop().
AcceptedIsHandled ==
  \A n \in 1 .. MaxPushes : (Len(pushed) >= n) ~> (Len(handled) >= n \/ external)
=============================================================================
