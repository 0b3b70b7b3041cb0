---------------------------- MODULE SimulatedFeed ----------------------------
(***************************************************************************)
(* The feed handler against the simulator: the datagrams that              *)
(* FeedSimulator sends reach process_datagram() in the order they were     *)
(* sent, and the recovery server is a thread of the simulator.  run() only *)
(* spawns it: the first datagrams may be on their way before it listens.   *)
(* The simulator stops it some time after its last datagram, whether or    *)
(* not the handler has caught up.                                          *)
(***************************************************************************)
EXTENDS RecoveringFeed, FeedSimulator

ASSUME CompositionAssumption == Count = Len(Session)

VARIABLES
  starting,         \* the recovery thread was spawned and has not called listen() yet
  taken,            \* datagrams of sent that left the socket buffer
  arrived,          \* history: numbers given to process_datagram()
  unserved,         \* history: numbers whose recovery failed
  evicted           \* history: numbers whose buffered frame was evicted from the window

linkVars == <<starting, taken, arrived, unserved, evicted>>
allVars == <<vars, simVars, linkVars>>

\* No connection is accepted before the recovery thread listens.
AllInit ==
  /\ FeedInit
  /\ server = "down" /\ starting = TRUE
  /\ SimInit
  /\ taken = 0 /\ arrived = {} /\ unserved = {} /\ evicted = {}

\* The beginning of run_recovery_server(): it listens, or does not get its port.
ServerStarts ==
  /\ starting
  /\ starting' = FALSE
  /\ server' \in {"up", "down"}
  /\ UNCHANGED <<trackerVars, pc, conn, payload, recovery_events, handled, last, outcome>>
  /\ UNCHANGED <<simVars, taken, arrived, unserved, evicted>>

\* The numbers that a push of s evicted from the window.
Displaced(s) ==
  IF drops' > drops /\ out_of_order' > out_of_order THEN {window[SlotOf(s)].seq} ELSE {}

\* The handler takes the next datagram from its socket.
TakeDatagram ==
  /\ taken < Len(sent)
  /\ Receive(sent[taken + 1])
  /\ taken' = taken + 1
  /\ arrived' = arrived \cup {sent[taken + 1]}
  /\ evicted' = evicted \cup Displaced(sent[taken + 1])
  /\ UNCHANGED <<simVars, starting, unserved>>

\* The socket buffer of the handler was full when this datagram came.
SocketDrops ==
  /\ Loss
  /\ taken < Len(sent)
  /\ taken' = taken + 1
  /\ UNCHANGED <<vars, simVars, starting, arrived, unserved, evicted>>

HandlerStep ==
  /\ FeedStep
  /\ unserved' = IF outcome' = "failed" THEN unserved \cup {last} ELSE unserved
  /\ UNCHANGED <<simVars, starting, taken, arrived, evicted>>

ServeRecovery == Serve /\ UNCHANGED <<simVars, linkVars>>

HandlerLeaves == LeaveLoop /\ UNCHANGED <<simVars, linkVars>>

SimulatorStep == SimStep /\ UNCHANGED <<vars, linkVars>>

\* The simulator stops its recovery server and waits for it.  A server that is told to
\* stop while it starts still listens before it sees stop.
SimulatorStops ==
  /\ ~starting
  /\ Stop \/ SocketFails
  /\ StopServer \/ (server = "down" /\ UNCHANGED vars)
  /\ UNCHANGED linkVars

AllTerminated == pc = "done" /\ spc = "stopped" /\ UNCHANGED allVars

AllNext ==
  \/ TakeDatagram \/ SocketDrops \/ HandlerStep \/ HandlerLeaves
  \/ ServerStarts \/ ServeRecovery
  \/ SimulatorStep \/ SimulatorStops
  \/ AllTerminated

AllSpec == AllInit /\ [][AllNext]_allVars

-----------------------------------------------------------------------------
\* What the handler has handled of the session, whenever it waits for a datagram.  It ends
\* at a number that arrived, so that losses at the end of the session go unnoticed, or
\* before one that was evicted.  A number that arrived is missing only when its recovery
\* failed, and then only until a later datagram finds the server listening: this one's
\* recovery brings back what earlier ones could not, except a number that was evicted.
\* The next number did not arrive, unless it was evicted.
HandledExactly ==
  pc = "select" =>
    /\ Len(handled) \in arrived \cup {0} \/ Len(handled) + 1 \in evicted
    /\ \A m \in arrived :
         m <= Len(handled) \/ (m \in unserved /\ (outcome = "failed" \/ m \in evicted))
    /\ Len(handled) + 1 \in arrived => Len(handled) + 1 \in evicted

\* kReorderWindow - 1 datagrams in a row were held back.
LongBurst ==
  \E n \in 1 .. Count : n + kReorderWindow - 2 <= Count /\ n .. (n + kReorderWindow - 2) \subseteq held

Lossless == lost = {} /\ Cardinality(arrived) = taken

\* The reorder window covers short bursts, even when there is no recovery server: without
\* losses, the datagrams that the simulator holds back evict nothing from the window, and
\* the whole session is handled once the handler has taken all that was sent, unless a
\* whole window but one of them was held back in a row.
ShortBurstsHeal ==
  Lossless /\ ~LongBurst =>
    /\ evicted = {}
    /\ spc = "sleep" /\ taken = Len(sent) /\ pc = "select" => Len(handled) = Count
=============================================================================
