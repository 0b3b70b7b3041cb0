# Verification of market-data-pipeline

The pipeline receives an exchange's messages over UDP, puts them back into
sequence order, asks a TCP server for the ones it lost, builds a top of book per
symbol, and hands ticks and trades through a lock-free queue to the consumers.
This directory models it in TLA+. TLC checks the models on small instances; TLAPS
proves the safety properties for every value of the constants.

## Inventory

| Component | State | Operations | What makes it correct |
|---|---|---|---|
| `SequenceTracker` (`sequence_tracker.cpp`) | next expected number, window of reorder slots, ready frames, pending gap, counters | `push`, `clear_ready`, `clear_gap`, `note_recovery` | frames come out in order, once and without holes; the gap contains the number that is waited for; no frame disappears uncounted |
| Receive path of `FeedHandler` (`process_datagram`, `try_recover`) | a tracker, one TCP connection per recovery | one datagram at a time: push, recover, drain | the book sees the session in order whatever UDP and TCP do; a recovery that works catches up; the thread never hangs |
| Recovery server (`run_recovery_server`) | the session, a listening socket | serve a range, stop | answers with exactly the range, ends without stranding a client |
| `SpscQueue` | ring of slots with sequence numbers, `head_`, `tail_` | `try_push`, `try_pop`, `empty` | bounded FIFO, no data race, all slots usable |
| Threads of `FeedHandler` (`run`, `publish`, `consumer_loop`, `request_stop`, destructor) | the queue, `stop_`, the consumer thread | start, publish with a bounded retry, dispatch, shut down | order kept, an orderly stop drains the queue, `run` and the destructor return |
| Dispatch of `FeedHandler` (`handle_parsed`, `consumer_loop`) | the book, the queue, the consumers | a message into a tick, a trade, both or nothing; an event to its consumers | the files agree with the book, also when events are given up |
| `BookBuilder` (`book.cpp`) | per symbol and side: level quantities, bitmap, best price; last trade; order pool | `on_add`, `on_modify`, `on_delete`, `on_trade` | best price is the best populated level; levels are the sums of the orders; a tick for every change of the top |
| Order pool of `BookBuilder` | open-addressed table, `live_count_` | `find_order`, `insert_order`, `erase_order` with backshift | finds exactly the live orders |
| `BarAggregator` (`consumers.cpp`) | open time bar and volume bar per symbol | `on_trade`, `flush_all` | bars partition the traded volume |
| `BboPublisher`, `TradeTapeWriter` | an output file | one line per event | the last line of a symbol is its top of book; the tape has the trades in order |
| Parser and protocol | none | `parse_message`, encoders | takes back what the encoders write, stops where a stream was cut |
| `FeedSimulator` | session, orders it believes live, held-back datagrams | generate, send, lose, delay, stop the server | every message sent at most once, reordering in short bursts, sessions that the book can follow |
| Instrumentation, programs, Python script | samples, options | formatting | no control depends on them |

How they interact: the feed thread (`FeedHandler::run`) owns the socket, the tracker
and the book, calls the recovery server over TCP from inside `process_datagram`,
and is the queue's producer. The consumer thread owns the consumers and is the
queue's only consumer. They share the queue and `stop_`. The simulator runs its own
recovery-server thread. It does not wait for that thread to listen before it sends, and
stops it 200 ms after its last datagram.

What is hard: UDP loses, repeats and reorders; the reorder window is smaller than
the session, so frames evict one another; recovery blocks the feed thread and can
fail at every socket call, also after part of the payload; the queue's two stores
per push are visible separately; the shutdown decides on a relaxed `head_`; a full
queue drops events silently; deletion in an open-addressed table moves other orders;
an order may change its symbol. `PROJECT.json` lists these hazards line by line.

## Modules

| Module | Models | Notes |
|---|---|---|
| `SequenceTracker` | `sequence_tracker.cpp/.hpp` | a slot is the frame it stores or `NoFrame`; the loop of `flush_contiguous()` is the operator `FlushEnd`, the first number the window does not hold |
| `RecoveringFeed` (extends it) | `process_datagram()`, `try_recover()`, `run_recovery_server()` | one action per socket outcome; `handled`, `last`, `outcome` are history variables |
| `OrderedDelivery` | the promise of the receive path | delivers the session in stretches, in order |
| `SpscQueue` | `spsc_queue.hpp` | one action per memory access |
| `BoundedFifo` | the promise of the queue | |
| `EventPipeline` (extends `SpscQueue`) | `publish()`, `consumer_loop()`, `run()` from its socket to its return, `request_stop()`, the destructor | events are numbered in the order they are published |
| `Book` | `book.cpp` without the table | one action per operation, with the returned tick |
| `OrderPool` | the table of `book.cpp` | one action per iteration of the backshift; the hash is any function |
| `Protocol`, `Parser` | `protocol.hpp`, `bytes.hpp`, `parser.cpp` | a packed struct is a sequence of fields with widths; `StoreBe` and `LoadBe` are the byte order; `ParseMessage` has the checks in the order of the code |
| `WireFeed` (extends `RecoveringFeed`, `Parser`) | `process_datagram()`, `try_recover()`, `run_recovery_server()` on bytes | the loops over `got` and `off` are one action per iteration; implements `RecoveringFeed` |
| `FeedSimulator` | `FeedSimulator::run()` | one action per branch of the loop |
| `SimulatedFeed` (extends `RecoveringFeed`, `FeedSimulator`) | handler and simulator together | datagrams arrive in the order they were sent; the server thread listens (`ServerStarts`) at any time after it was spawned, or does not get its port; stopping the simulator stops the server |
| `GeneratedSession` (extends `Book`) | `generate_session()` into the book | one action per kind of message |
| `EventFlow` (extends `Book`) | `handle_parsed()`, `publish()`, the dispatch of `consumer_loop()`, `BboPublisher`, `TradeTapeWriter` | the queue is the FIFO that `SpscQueue` was shown to implement |
| `BarAggregator` | `BarAggregator` of `consumers.cpp` | one action per trade and one per volume bar it fills |
| `MC...` | | constants and symmetry for TLC |
| `SlotLemmas` | | arithmetic of remainders, sums of quantities and joined sequences, which the proofs share |
| `RecoveringFeedProofs` | | theorems about `SequenceTracker`, `RecoveringFeed`, `FeedSimulator` and `SimulatedFeed` |
| `EventFlowProofs` | | theorems about `Book` and `EventFlow` |
| `WireFeedProofs` | | theorems about `Protocol`, `Parser` and `WireFeed` |
| `EventPipelineProofs` | | theorems about `SpscQueue` and `EventPipeline` |
| `OrderPoolProofs`, `GeneratedSessionProofs`, `BarAggregatorProofs` | | theorems about the module each is named for |

Definitions whose comment says "Mutant of" are wrong on purpose. They are used by no
specification; each one replaces the definition it is a mutant of in a sensitivity
test of a property (`PROJECT.json`, `mutants`).

How the modules fit together. `WireFeed` shows that bytes can be left out:
`RecoveringFeed` works on frames, a number and an opaque body, and a datagram that does
not parse is a stuttering step there. `RecoveringFeed` in turn shows that what follows
sees the session in order, which is what `GeneratedSession` and `EventFlow` start from.
`SpscQueue` shows that the queue is a bounded FIFO, which is what `EventFlow` puts
between the threads; `EventPipeline` adds the threads' start and end. `BarAggregator`
takes trades in the order in which `EventFlow` dispatches them, rejected ones included.

Abstractions. Latencies and printed statistics are left out. A level's bitmap word is a
set of bits. Quantities are added modulo `QtyMod`, as `uint32_t` is.
Sequence numbers and ring positions are 64-bit in the code and do not wrap here.
The time stamps of trades are subtracted modulo `TsMod`, as `uint64_t` is. What a random
number decides in the simulator is a choice, and its pacing is left out. An output file
can be opened or not; a disk that fills up later is not modelled. In `WireFeed` a byte
has `ByteBase` values; the widths of the fields, and so all lengths, are those of the
code.

Memory model of the queue. A load of a slot's `sequence` may return the newest store,
or the value the loading thread itself stored before: slots alternate between the
threads, so there is no other value it could see. `head_` is stored relaxed after the
slot's release, so `empty()` in the consumer may load any value from `head_seen` on;
`head_seen` rises when the consumer acquires a slot (it then sees the stores of
`head_` before that release), when it has loaded a newer value, and when it acquires
the `stop_` that the feed thread released.

The environment of `RecoveringFeed`. Any message of the session may arrive at any
time, again and again, or never. With `LinkFaults`, socket calls fail, the connection
breaks, a payload is cut after any number of whole frames (the rest of a cut frame
does not parse and ends the replay), and the server stops at any moment; a connection
it had not accepted is reset when its listening socket is closed.

## Runs

| Run | Bounds | Shows |
|---|---|---|
| `feed_faulty` | session of 5, window 2, 6 pushes, faults | the invariants of the tracker, whose frames evict one another; ordered delivery, recovery and return to `select()` under all faults; refinement of `OrderedDelivery` |
| `feed_reliable` | session of 5, window 2, 8 pushes, no faults | nothing is left behind when TCP works; every datagram that arrives is handled |
| `spsc` | 4 slots, 9 pushes of 2 items | more than two turns of the ring: no race, exact sequence numbers, refinement of `BoundedFifo` |
| `pipeline` | 2 slots, 6 events, 2 tries per publish, external stop | order, drain at shutdown, termination; the queue fills up and drops |
| `book_levels` | 1 symbol, 4 levels in words of 2 bits, 3 orders, quantities 1 and 2 modulo 4 | best price and levels; levels lie in three words, and two orders of quantity 2 overflow a level to zero |
| `book_stale_bbo` | 2 symbols, 2 levels, 2 orders, 1 trade | violated: see Finding |
| `wire_feed` | session of an add, a delete and a heartbeat (44, 36 and 28 bytes), window 2, 3 pushes, faults; `recv()` returns 1, 44 or 64 bytes | the byte level implements `RecoveringFeed`; the replay parses only where a frame starts; the messages come out as they were encoded |
| `bars` | 3 trades per symbol of 2 symbols, prices 1 and 2, quantities 0, 1 and 5, stamps that go back, modulo 8, time bars of 3, volume bars of 2 | bars against their definition; a trade of 5 fills two volume bars and opens a third |
| `event_flow` | 4 messages, queue of 2, 2 symbols, 2 levels, 1 order, 5 trades, two of them rejected | BBO file and tape against the book, with events given up |
| `session` | 7 messages, pool of 2 orders, 2 levels, 3 symbols of which the book has 2 | generator and book stay in step; ticks keep the published top current, with the exceptions below |
| `simulated` | 7 datagrams, window 3, losses and hold-backs, a server that listens late, never, or no longer | each datagram is sent once and overtaken by two at most; what the handler has handled, exactly; the window alone heals short bursts |
| `order_pool` | 4 orders, 4 slots, all 256 hashes | the table is exact, full and across its end; the backshift ends |

A bound on the numbers of pushes is the only thing that ends the behaviours of the feed
and the queue: it is in the guard of the action that takes a new input. In the feed the
replayed frames count too, and only the arrival of a datagram is refused at the bound.
The tracker by itself, under any use, is the subject of `TrackerIsSafe` below.

`wire_feed` has 16 values to a byte, because TLC's integers have 32 bits and a field of
eight bytes would not fit; the numbers in the session fill up to seven bytes of a field. A
chunk of 64 bytes ends inside the second message, one of 44 at the end of the first, and
those of one byte everywhere else. Besides the messages themselves, the datagrams are
each message followed by another one, cut after 19 bytes and before its last byte, and
with a wrong type, length or side. A session of 7 with a window of 3 has room for two
held-back bursts, shorter and longer than the window; `MaxPushes` is out of reach in
`simulated`. In `bars` the difference of time stamps wraps at each step
back, and three trades open a bar, fill or close it, and open the next.

Every run checks deadlock; the threads' end is the explicit action `Terminated`.

Fairness. `RecoveringFeed`: weak fairness of the feed thread's own steps and of
`Serve`: threads are scheduled, `recv()` returns once there is an answer or a reset,
and the server's loop polls every 200 ms. Arrival of datagrams, the link breaking and
the server stopping are never assumed. `EventPipeline`: weak fairness of each thread
(with `select()`'s 100 ms timeout, so that a set `stop_` is seen), and strong fairness
of `TryPop` and of loading the newest `head_` in `CheckEmpty`: stores become visible
in a finite time, so a load repeated for ever is not stale for ever. `OrderPool`: the
loop of `erase_order()` runs on. `BarAggregator`: so does the loop of `on_volume()`.

### Exceptions that the properties state

- `CaughtUp` speaks of recoveries that were complete. After a failed or partial one the
  hole stays until the next datagram ahead of it: `clear_gap()` runs after a partial
  payload too, and the next such datagram opens the gap again.
- `LevelsMatchOrders` ends at the first overflow of a level; `BestIsBest` does not.
- `DrainedAtReturn` and `AcceptedIsHandled` except a stop by a
  third thread: the consumer may then leave while the feed thread still publishes.
  No caller in the repository does that.
- `HandledExactly` says what is *not* promised too: losses after the last datagram that
  arrives are never noticed, and a number that arrived stays missing while no recovery from
  its own on has been served: the server thread may not listen yet, not have got its port,
  or have been stopped, 200 ms after the last datagram. The next datagram ahead of the hole
  whose recovery is served brings it back. A number that was evicted from the window
  in between is the exception: the gap ends before it, and so may the recovery.
- `ShortBurstsHeal` excepts a run of `kReorderWindow - 1` datagrams
  held back in a row: then one of them is evicted. With the window of 64 that is 63 in a
  row.
- `BboFileIsCurrent` excepts symbols whose last tick was given up, besides the exceptions
  of `BboIsCurrentUnlessMoved`; `TapeAgreesWithBook` excepts trades that were given up.
- `volume_bar_qty` is at least 1 (`BarAssumption`). It is 1000 by default and no program
  sets it; with 0 the loop of `on_volume()` would not end.
- `BboIsCurrentUnlessMoved` excepts symbols touched by a modify across symbols, or by a
  second add of a resting order, since their last tick.

### Finding

`on_modify()` compares the top of the order's old symbol with the top of its new one.
Moving an order between symbols changes the old symbol's best price without a tick.
When the new symbol then looks as the old one did, the new one gets no tick either.
`generate_session()` draws the symbol of a modify afresh, so the simulator produces
such messages. The run `book_stale_bbo` shows it in two steps.

## Proofs

`tlapm` checks the following for every value of the constants, from the `ASSUME`s in the
modules that declare them: the reorder window has at least one slot, the ring and the order
pool have two, a volume bar has a size, quantities are below the modulus, numbers on the
wire are natural numbers, a session is numbered from 1 and its orders have valid numbers,
and the model values that mean "nothing" are not values. The byte level has assumptions of
its own, given below. A theorem with a property in
brackets says that what a run checks holds in every behaviour of the specification. TLC
has also checked the inductive invariants of the queue, the threads, the dispatch with the
book, the order pool, the simulator, the generator and the bars on the runs' instances.

**Tracker** (first part of `RecoveringFeedProofs`).

- `TrackerIsSafe`: the tracker's type invariant, `WindowAhead`, `GapCoversExpected` and
  `ReadyIsConsecutive`. Their conjunction `TrackerInv` is inductive. The key lemma is
  `FlushEndExists`: the numbers `n` and `n + kReorderWindow` share a slot, so the window
  lacks one of the numbers in between and the loop ends at the least of these.
  `WindowAhead` needs it: what is left in the window after the flush is not the expected
  number, and is above it because two numbers less than a window apart have different
  slots (`ModDistinct`).
- `TrackerAccountsForPushes` (`PushesAccounted`): the occupied slots are counted as a set;
  a flush of `m` numbers empties `m` slots, because each number has a slot of its own.

**Receive path** (second part of `RecoveringFeedProofs`).

- `DeliveryIsOrdered` (`DeliveredInOrder`) and `FeedImplementsOrderedDelivery`
  (`ImplementsOrderedDelivery`). The inductive invariant `FeedInv` adds to `TrackerInv`
  that every frame in the window, in `ready`, in the payload and on the connection is a
  frame of the session, and that `handled` ends where `ready` begins. A number then
  determines its frame, so consecutive numbers give the session's prefix. Only `Drain`
  changes `handled`, and it extends it to a longer prefix or not at all.
- `CompleteRecoveryCatchesUp` (`CaughtUp`) and `ReplayOnlyDelivers`
  (`ReplayNeverBuffers`). `RecoveryInv` follows a recovery through its phases: the
  request covers the gap, the gap reaches up to the datagram before `last`, what is left
  of the payload starts at or below `next_expected` and has no hole, and, when it was
  complete, it ends at or above `last - 1`, with `last` in the window unless delivered.
- `ReliableLinkLeavesNothing` (`NothingLeftBehind`): without link faults the window holds
  at most the datagram that is being processed (`ReliableInv`), and `CaughtUp` delivers it.
- `FeedIsWellTyped`, `WindowStaysAhead` and `FeedAccountsForPushes`: the tracker's
  properties where the receive path is what calls it.

**Simulator** (third part of `RecoveringFeedProofs`).

- `SimulatorSendsInBursts` (`SentInBursts`). `SimInv` follows a datagram that was held back:
  only its successor and the current datagram can have overtaken it while it waits, and all
  others behind it were held back or lost (`DelayedBurst`), also once it was sent.
- `WindowCoversShortBursts` (`ShortBurstsHeal`), with or without recovery. An eviction needs
  two datagrams a window apart of which the earlier has not arrived; all between them but one
  were then held back. `CommonInv` joins the invariants of both sides: what has arrived was
  sent (`ArrivedInv`), and what has arrived and was not handled waits in the window unless
  it was evicted (`WaitingInv`).
- `HandlerHandlesExactly` (`HandledExactly`), for a link that fails only because nobody
  listens (`~LinkFaults`), as in the run: TCP on the loopback interface. The server may
  start to listen at any time, so that a refused recovery leaves its gap pending and a later one
  is served. `GapInv`: a pending gap ends before the greatest number that has arrived, and
  without one nothing beyond `next_expected` has arrived; a served recovery replays up to the
  gap's end, so `next_expected` then stands behind a number that arrived or at one that was
  evicted. `ServedInv`: there is no partial recovery, a gap is pending at `select()` only
  after a failed one, and every number that arrived and was not handled had its own fail.
- `CompositionKeepsParts`: a behaviour of handler and simulator together is one of the
  simulator alone, and `DeliveredInOrder` and `CaughtUp` hold in it although the server may
  come up late or never.

**Bytes** (`WireFeedProofs`, on the tracker's and the receive path's lemmas).

- `ParsesWhatWasEncoded`: for every byte base and every message whose fields fit their
  types, `parse_message()` gives back the message that was encoded, whatever follows it;
  `CutMessageIsTruncated`: every proper beginning of it is reported as truncated. A number
  of `width` bytes is stored by shifts and loaded by a sum; that one undoes the other, and
  that the fields of a struct lie one after the other, is shown by least counterexample.
- `MessagesGetThrough` (`HandledAreTheMessages`) and `ReplayStaysOnFrames`
  (`ReplayOnFrames`). In `WireInv`, `CoreInv` says of tracker and handled messages what
  `FeedInv` says of frames, `StreamInv` what the connection carries in each of its states:
  the request, the response with the payload behind it, or the payload in two parts, cut by
  `recv()`, of which the received one has been replayed up to the end of a frame; and
  `PhaseInv` ties this to the place of the feed thread. A replay step finds a whole frame,
  which parses, or a proper beginning of one, which does not.
- `BytesImplementFrames` (`ImplementsRecoveringFeed`): the safety part of `RecoveringFeed`,
  with the mapping of `Frames`. Receiving the response and its bytes maps to stuttering, the
  end of reception to a payload that is cut after its whole frames, and each replayed frame
  to the head of what is left. With it the theorems above about the receive path hold of the
  bytes.

They rest on three assumptions about the constants of `WireFeed`. `MessagesAssumption`: the
session is what the encoders write for messages whose fields are values of their types.
`WidthsAssumption`: sequence numbers fit 8 bytes and the payload of every range fits the 32
bits of `payload_bytes`, to which the server casts its size unchecked; a session of 4 GiB
would break it. `DatagramsAssumption`: a datagram that parses begins with a message of the
session, that is, only the simulator sends valid messages to the port. TLC evaluates all
three for `wire_feed`, where the damaged datagrams are shown not to parse by the last one.

**Queue** (first part of `EventPipelineProofs`).

- `QueueHasNoDataRace` (`NoDataRace`), `SequenceNumbersAreExact` (`SequenceIsExact`),
  `HeadIsNearlyCurrent` (`HeadLagsByOne`) and `RingImplementsFifo` (`ImplementsFifo`).
  `QueueInv` says by positions what the slots hold: the `Capacity` positions from the first
  one not released have one slot each, whose sequence number tells whether the position was
  published (`TurnInv`), and what was published and not taken is still in its slot
  (`StorageInv`). A stale load can then only return a number that sends the thread away.

**Threads** (second part of `EventPipelineProofs`, on `QueueInv`).

- `EventsAreHandledInOrder` (`HandledInOrder`), `ShutdownDrainsTheQueue`
  (`DrainedAtReturn`) and `PipelineIsWellTyped`. `StopInv` is the argument for the shutdown:
  when the feed thread set `stop_` itself, it pushes nothing more, and the consumer that
  acquired `stop_` sees all of `head_`; `empty()` is then right for good.

**Book** (first part of `EventFlowProofs`).

- `BestPriceIsBest` (`BestIsBest`), `TicksAreCurrent` (`BboIsCurrentUnlessMoved`) and
  `BookIsWellTyped`. `BestIsBest` is not inductive: `recompute_best()` trusts the bitmap, so
  `SideInv` adds that a set bit stands for a price and that a level with a quantity has its
  bit, also where a sum overflows to 0.
- `LevelsHoldTheOrders` (`LevelsMatchOrders`). `LevelsInv` says of all levels at once that each
  is the sum of the quantities of the orders on it. `on_add()` and `on_modify()` take an order
  off its old level before they put it on the new one, so no order is ever counted on two.
  `SlotLemmas` has what the proof needs of sums over finite sets: they exist, are natural
  numbers, do not depend on the order of summation, and change by the quantity of the order
  that comes or goes. Each is shown by the least counterexample, not by an induction rule.

**Dispatch** (second part of `EventFlowProofs`, on the book's invariant).

- `TradesFollowTheirTicks` (`TickBeforeTrade`), `BboFileShowsTheBook` (`BboFileIsCurrent`)
  and `TapeMatchesTheBook` (`TapeAgreesWithBook`). The properties speak of the files, which
  lag behind the book; `FlowInv` says the same of files, queue and unpublished events
  together, where each message changes both sides at once.

**Order pool** (`OrderPoolProofs`).

- `TableHoldsTheLive` (`TableIsExact`), for every hash. That every order can be reached from
  its home is not inductive: in a full table whose chains go all the way around, the
  backshift, which stops where it started, could break one. No sequence of calls makes such
  a table, and the reason is the invariant: there is always a slot that no probe chain goes
  through (a free one, or the one filled last), and counted from behind it all chains run
  upwards. `ScanInv` says that the orders the backshift has passed do not need the hole.

**Generator** (`GeneratedSessionProofs`).

- `GeneratorAndBookAgree` (`RestingAreLive`): `NumberInv` adds that order numbers are given
  out upwards, so that a new order is neither resting nor refused.
- `SessionDrivesTheBook`: `GeneratorSpec` implements the `Spec` of `Book`. With the theorems
  about the book this gives `BestIsBest`, `LevelsMatchOrders` and `BboIsCurrentUnlessMoved`
  for every generated session.

**Bars** (`BarAggregatorProofs`).

- `BarsConserveVolume` (`VolumeIsConserved`): an accumulator that is not active holds no
  volume, and the loop of `on_volume()` runs only while its bar is full, so that what it
  takes off is there. `flush_all()` skips an accumulator only when it holds nothing.
- `TimeBarsCutTheTrades` (`TimeBarsAreRuns`) and `VolumeBarsCutTheVolume`
  (`VolumeBarsAreStretches`). `RunsInv` says of each symbol what the open bars stand for.
  The open time bar says what the trades after the last written one say, and none of them
  is far from the first (`TimeInv`). The traded volume is that of the full bars and the open
  one, the k-th volume bar says what the trades from the first to the last with a part in its
  stretch say, and the open one ends at the last trade (`VolInv`). In the loop of
  `on_volume()` the stretch that is written was not full before the trade (`InLoop`): no
  earlier trade reaches beyond it, so what is left is that trade's alone. A bar is described
  by its first and last trade and bounds that are attained (`SaysRun`), which a new trade
  extends; that this is the maximum, the minimum and the sum of the property is a lemma.

Only model-checked is liveness (`FeedReturns`, `ReceivedIsHandled`, `RunReturns`,
`AcceptedIsHandled`, `EraseEnds`, `VolumeLoopEnds`), which the prover does not do. Every
invariant and every refinement that a passing run checks is proved.

## Plan

1. Done: all components with control state are modelled and checked.
2. Done: proofs of all safety properties, on frames and on bytes.
3. Left: `OrderPool` as an implementation of the map that `Book` assumes.

## Not modelled

The text of the output files, latency instrumentation (a wrapper around the external
HdrHistogram that no control depends on), command-line parsing, the Python script, and
the socket options: formatting and I/O without control state. `size_approx()` and
`message_header()` have no caller in the pipeline. Wrap-around of 64-bit counters is
beyond any run of the program.
