--------------------------- MODULE RecoveringFeed ---------------------------
(***************************************************************************)
(* The receive path of mdp::FeedHandler around a SequenceTracker, and the  *)
(* recovery server of the simulator it talks to over TCP.                  *)
(*                                                                         *)
(* The feed thread takes one UDP datagram at a time: process_datagram()    *)
(* pushes it into the tracker, calls try_recover() when a gap is pending,  *)
(* and hands the frames that became ready to handle_parsed().  UDP is an   *)
(* unreliable channel: any message of the session may arrive any number    *)
(* of times, in any order, or never.  A datagram that does not parse is    *)
(* dropped at once, which is a stuttering step.                            *)
(*                                                                         *)
(* try_recover() opens one TCP connection per call.  Socket errors, a      *)
(* refused connection, a server that stops and a connection that breaks    *)
(* half-way are the faults; a broken connection leaves the client with a   *)
(* prefix of the payload, of which the whole frames are replayed.          *)
(***************************************************************************)
EXTENDS SequenceTracker

CONSTANTS
  Session,          \* generate_session(): the frames of the feed, numbered from 1
  LinkFaults        \* whether the TCP side may fail

ASSUME SessionAssumption ==
  /\ Session \in Seq(Frame)
  /\ \A s \in 1 .. Len(Session) : Session[s].seq = s
ASSUME LinkFaultsAssumption == LinkFaults \in BOOLEAN

VARIABLES
  pc,               \* where the feed thread is
  server,           \* "up" while run_recovery_server() accepts connections
  conn,             \* the TCP connection of the current try_recover()
  payload,          \* frames received from the server and not yet replayed
  recovery_events,  \* stats_.recovery_events
  handled,          \* history: the frames given to handle_parsed()
  last,             \* history: number of the datagram being, or last, processed
  outcome           \* history: how try_recover() ended for that datagram

feedVars == <<pc, server, conn, payload, recovery_events, handled, last, outcome>>
vars == <<trackerVars, feedVars>>

Conn(state, start, end, frames) ==
  [state |-> state, start |-> start, end |-> end, frames |-> frames]

NoConn == Conn("none", 0, 0, <<>>)

FeedInit ==
  /\ TrackerInit
  /\ pc = "select"
  /\ conn = NoConn
  /\ payload = <<>>
  /\ recovery_events = 0
  /\ handled = <<>>
  /\ last = 0
  /\ outcome = "none"

Init == FeedInit /\ server = "up"

-----------------------------------------------------------------------------
(* The feed thread: run() and process_datagram(). *)

\* recvfrom() returns a datagram; process_datagram() pushes it.
Receive(s) ==
  /\ pc = "select"
  /\ pushes < MaxPushes
  /\ Push(Session[s])
  /\ pc' = IF gap_start' # 0 THEN "recover" ELSE "drain"
  /\ last' = s
  /\ outcome' = "none"
  /\ UNCHANGED <<server, conn, payload, recovery_events, handled>>

\* Mutant of Drain: clear_ready() is forgotten.
DrainKeepsReady ==
  /\ pc = "drain"
  /\ handled' = handled \o ready
  /\ pc' = "select"
  /\ UNCHANGED <<trackerVars, server, conn, payload, recovery_events, last, outcome>>

\* The rest of process_datagram(): every ready frame goes to handle_parsed().
Drain ==
  /\ pc = "drain"
  /\ handled' = handled \o ready
  /\ ClearReady
  /\ pc' = "select"
  /\ UNCHANGED <<server, conn, payload, recovery_events, last, outcome>>

\* The loop of run() ends at its deadline, or when stop_ is set.
LeaveLoop ==
  /\ pc = "select"
  /\ pc' = "done"
  /\ UNCHANGED <<trackerVars, server, conn, payload, recovery_events, handled, last, outcome>>

-----------------------------------------------------------------------------
(* try_recover(), step by step. *)

\* connect() and send() succeed: the request is on its way to the server.
Connect ==
  /\ pc = "recover"
  /\ server = "up"
  /\ conn' = Conn("requested", gap_start, gap_end, <<>>)
  /\ pc' = "await"
  /\ UNCHANGED <<trackerVars, server, payload, recovery_events, handled, last, outcome>>

\* socket(), connect() or send() fails: return with the gap still pending.
ConnectFails ==
  /\ pc = "recover"
  /\ server = "down" \/ LinkFaults
  /\ outcome' = "failed"
  /\ pc' = "drain"
  /\ UNCHANGED <<trackerVars, server, conn, payload, recovery_events, handled, last>>

\* recv() ends before a whole WireGapResponse has arrived: return with the gap still
\* pending.
ResponseFails ==
  /\ pc = "await"
  /\ conn.state = "reset"
  /\ conn' = NoConn
  /\ outcome' = "failed"
  /\ pc' = "drain"
  /\ UNCHANGED <<trackerVars, server, payload, recovery_events, handled, last>>

\* The response arrives, followed by the payload or, when the connection breaks,
\* by a part of it.
ReceivePayload ==
  /\ pc = "await"
  /\ conn.state = "answered"
  /\ \E k \in IF LinkFaults THEN 0 .. Len(conn.frames) ELSE {Len(conn.frames)} :
       /\ payload' = SubSeq(conn.frames, 1, k)
       /\ outcome' = IF k = Len(conn.frames) THEN "complete" ELSE "partial"
  /\ conn' = NoConn
  /\ pc' = "replay"
  /\ UNCHANGED <<trackerVars, server, recovery_events, handled, last>>

\* One iteration of the loop that pushes the recovered frames.
Replay ==
  /\ pc = "replay"
  /\ payload # <<>>
  /\ Push(Head(payload))
  /\ payload' = Tail(payload)
  /\ UNCHANGED <<pc, server, conn, recovery_events, handled, last, outcome>>

\* The end of try_recover(): note_recovery() and clear_gap().
FinishRecovery ==
  /\ pc = "replay"
  /\ payload = <<>>
  /\ recovery_events' = recovery_events + 1
  /\ ClearGap
  /\ pc' = "drain"
  /\ UNCHANGED <<server, conn, payload, handled, last, outcome>>

-----------------------------------------------------------------------------
(* run_recovery_server(): one connection at a time. *)

\* Mutant of GapPayload: the numbers of the request index the session from zero.
GapPayloadZeroBased(start, end) ==
  SubSeq(Session, start + 1, IF end + 1 > Len(Session) THEN Len(Session) ELSE end + 1)

\* The frames the server has for a request; numbers outside the session are skipped.
GapPayload(start, end) ==
  SubSeq(Session, IF start = 0 THEN 1 ELSE start, IF end > Len(Session) THEN Len(Session) ELSE end)

\* accept(), read the request, send the response and the payload, close.
Serve ==
  /\ server = "up"
  /\ conn.state = "requested"
  /\ conn' = Conn("answered", conn.start, conn.end, GapPayload(conn.start, conn.end))
  /\ UNCHANGED <<trackerVars, pc, server, payload, recovery_events, handled, last, outcome>>

\* The connection breaks before the response has arrived.
LinkBreaks ==
  /\ LinkFaults
  /\ conn.state \in {"requested", "answered"}
  /\ conn' = Conn("reset", 0, 0, <<>>)
  /\ UNCHANGED <<trackerVars, pc, server, payload, recovery_events, handled, last, outcome>>

\* Mutant of StopServer: the listening socket, with a connection in its backlog, stays open.
StopServerOpen ==
  /\ server = "up"
  /\ server' = "down"
  /\ UNCHANGED <<trackerVars, pc, conn, payload, recovery_events, handled, last, outcome>>

\* stop is set: a connection that was not accepted yet is forgotten, or reset by
\* closing the listening socket.
StopServer ==
  /\ server = "up"
  /\ server' = "down"
  /\ conn' = IF conn.state = "requested" THEN Conn("reset", 0, 0, <<>>) ELSE conn
  /\ UNCHANGED <<trackerVars, pc, payload, recovery_events, handled, last, outcome>>

ServerStops == LinkFaults /\ StopServer

-----------------------------------------------------------------------------
FeedStep ==
  \/ Drain \/ Connect \/ ConnectFails \/ ResponseFails \/ ReceivePayload \/ Replay
  \/ FinishRecovery

\* The process is over: the feed thread has left its loop.
Terminated == pc = "done" /\ UNCHANGED vars

Next ==
  \/ \E s \in 1 .. Len(Session) : Receive(s)
  \/ FeedStep
  \/ LeaveLoop
  \/ Serve
  \/ LinkBreaks
  \/ ServerStops
  \/ Terminated

\* The feed thread does not stop inside process_datagram(), and the server
\* thread answers a connection it can accept.  Datagrams need not arrive, and nothing
\* forces the link to break.
Fairness == WF_vars(FeedStep) /\ WF_vars(Serve)

Spec == Init /\ [][Next]_vars /\ Fairness

-----------------------------------------------------------------------------
FeedTypeOK ==
  /\ pc \in {"select", "recover", "await", "replay", "drain", "done"}
  /\ server \in {"up", "down"}
  /\ conn \in [state : {"none", "requested", "answered", "reset"},
               start : Nat, end : Nat, frames : Seq(Frame)]
  /\ payload \in Seq(Frame)
  /\ recovery_events \in Nat
  /\ handled \in Seq(Frame)
  /\ last \in 0 .. Len(Session)
  /\ outcome \in {"none", "failed", "partial", "complete"}

\* The tracker, the feed thread and the connection keep their declared types.
TypeOK == TrackerTypeOK /\ FeedTypeOK

\* What handle_parsed() saw, and what process_datagram() is about to give it, is
\* the session up to next_expected: no message is skipped, repeated or reordered,
\* whatever UDP and the recovery link did.
DeliveredInOrder == handled \o ready = SubSeq(Session, 1, next_expected - 1)

\* A datagram is never left waiting behind a hole by a recovery that worked: when
\* process_datagram() returns and try_recover() was not needed or got its whole
\* payload, that datagram and everything before it was delivered.
CaughtUp ==
  pc \in {"drain", "select"} /\ outcome \in {"none", "complete"} => next_expected > last

\* With a link that does not fail, process_datagram() returns with an empty window
\* and no gap: frames are buffered only while recovery is failing.
NothingLeftBehind ==
  ~LinkFaults /\ pc = "select" =>
    gap_start = 0 /\ \A i \in Slots : ~Occupied(window, i)

\* Replaying a recovery payload never goes through the window: every replayed
\* frame is the expected one or was delivered before, so try_recover() cannot
\* evict a buffered frame.
ReplayNeverBuffers == [][pc = "replay" => UNCHANGED out_of_order]_vars

\* try_recover() never leaves the feed thread stuck: it gets back to select(),
\* whatever becomes of the connection.
FeedReturns == (pc \notin {"select", "done"}) ~> (pc = "select")

\* With a link that does not fail, every message that arrives reaches handle_parsed().
ReceivedIsHandled ==
  \A s \in 1 .. Len(Session) : (last = s) ~> (Len(handled) >= s)

\* The receive path implements OrderedDelivery, handled being what is delivered.
Ordered == INSTANCE OrderedDelivery WITH delivered <- handled

ImplementsOrderedDelivery == Ordered!Spec
=============================================================================
