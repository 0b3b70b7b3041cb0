------------------------------ MODULE WireFeed ------------------------------
(***************************************************************************)
(* The receive path of RecoveringFeed on the bytes it really handles: what *)
(* a datagram holds, what parse_message() takes from it, what the tracker  *)
(* stores and process_datagram() parses again, and the byte stream of the  *)
(* recovery connection, which recv() cuts anywhere and which may end in    *)
(* the middle of a frame.                                                  *)
(*                                                                         *)
(* The body of a tracker's frame is its bytes.  conn.frames is what is on  *)
(* its way through the connection, and payload the part of the server's    *)
(* payload received so far.  That the frames and the order are those of    *)
(* RecoveringFeed is the refinement at the end.                            *)
(***************************************************************************)
EXTENDS RecoveringFeed, Parser

CONSTANTS
  Messages,         \* generate_session(): the messages of the host that Session encodes
  Datagrams,        \* byte sequences that recvfrom() may return
  Chunks            \* numbers of bytes that one recv() may return

ASSUME ChunksAssumption == Chunks \subseteq Nat \ {0}
ASSUME MessagesAssumption ==
  /\ Messages \in Seq(Range(Messages)) /\ Len(Messages) = Len(Session)
  /\ \A s \in DOMAIN Session :
       /\ IsMessage(Messages[s]) /\ SideIsKnown(Messages[s]) /\ Messages[s].seq = s
       /\ Session[s].body = EncodeMessage(Messages[s])

\* What arrives on the port of the feed and parses begins with a message of the session.
ASSUME DatagramsAssumption ==
  \A d \in Datagrams :
    /\ d \in Seq(Nat)
    /\ ParseMessage(d).status = "Ok" => \E s \in DOMAIN Session : IsPrefix(Session[s].body, d)

BytesOf(frames) == FlattenSeq([i \in DOMAIN frames |-> frames[i].body])

\* The numbers of the session and the sizes of its parts fit the fields they are sent in.
ASSUME WidthsAssumption ==
  /\ \A type \in MsgTypes : Fits(type, 1) /\ Fits(wire_length_for(type), 2)
  /\ \A n \in 0 .. Len(Session) : Fits(n, 8)
  /\ \A start, end \in 0 .. Len(Session) : Fits(Len(BytesOf(GapPayload(start, end))), 4)

VARIABLES
  nbytes,           \* payload_bytes of the response
  off               \* bytes of payload that were replayed

wireVars == <<vars, nbytes, off>>

WireInit == Init /\ nbytes = 0 /\ off = 0

kMaxStoredMessage == kMaxMessageSize

\* Mutant of StoresFrame: the largest message does not fit a slot.
StoresFrameBelow(bytes) == Len(bytes) >= HeaderSize /\ Len(bytes) < kMaxStoredMessage

StoresFrame(bytes) == Len(bytes) >= HeaderSize /\ Len(bytes) <= kMaxStoredMessage

\* push() of framed bytes: a size that no slot can store is refused.
PushBytes(bytes) ==
  \/ StoresFrame(bytes) /\ Push([seq |-> decode_header(bytes).seq, body |-> bytes])
  \/ ~StoresFrame(bytes) /\ UNCHANGED trackerVars

-----------------------------------------------------------------------------
(* process_datagram(). *)

\* Only the first message of a datagram is used.
ReceiveDatagram(d) ==
  LET parsed == ParseMessage(d)
  IN  /\ pc = "select"
      /\ pushes < MaxPushes
      /\ parsed.status = "Ok"
      /\ PushBytes(SubSeq(d, 1, parsed.consumed))
      /\ pc' = IF gap_start' # 0 THEN "recover" ELSE "drain"
      /\ last' = parsed.payload.seq
      /\ outcome' = "none"
      /\ UNCHANGED <<server, conn, payload, recovery_events, handled, nbytes, off>>

IgnoreDatagram(d) ==
  /\ pc = "select"
  /\ ParseMessage(d).status # "Ok"
  /\ UNCHANGED wireVars

\* Mutant of Accepted: the second parse skips a message of the largest size.
AcceptedBelow(parsed) ==
  IF parsed.status = "Ok" /\ parsed.consumed < kMaxMessageSize THEN <<parsed.payload>> ELSE <<>>

Accepted(parsed) == IF parsed.status = "Ok" THEN <<parsed.payload>> ELSE <<>>

\* The ready frames are parsed again; one that does not parse is skipped.
DrainFrames ==
  /\ pc = "drain"
  /\ handled' = handled \o FlattenSeq([i \in DOMAIN ready |-> Accepted(ParseMessage(ready[i].body))])
  /\ ClearReady
  /\ pc' = "select"
  /\ UNCHANGED <<server, conn, payload, recovery_events, last, outcome, nbytes, off>>

-----------------------------------------------------------------------------
(* try_recover() and run_recovery_server(). *)

SendRequest ==
  /\ pc = "recover"
  /\ server = "up"
  /\ conn' = Conn("requested", 0, 0, EncodeMessage(
       WithHeader(MsgType.GapRequest, 0, 0, [start_seq |-> gap_start, end_seq |-> gap_end])))
  /\ pc' = "await"
  /\ UNCHANGED <<trackerVars, server, payload, recovery_events, handled, last, outcome, nbytes, off>>

\* Read the range, send the response and after it the frames, close.
ServeRequest ==
  LET req == DecodeStruct(WireBody[MsgType.GapRequest], conn.frames, HeaderSize)
      bytes == BytesOf(GapPayload(req.start_seq, req.end_seq))
      resp == EncodeMessage(WithHeader(MsgType.GapResponse, 0, 0, Followed([payload_bytes |-> Len(bytes)], req)))
  IN  /\ server = "up"
      /\ conn.state = "requested"
      /\ conn' = Conn("answered", req.start_seq, req.end_seq, resp \o bytes)
      /\ UNCHANGED <<trackerVars, pc, server, payload, recovery_events, handled, last, outcome, nbytes, off>>

\* recv() with MSG_WAITALL returns the whole response.
ReceiveResponse ==
  /\ pc = "await"
  /\ conn.state = "answered"
  /\ nbytes' = DecodeStruct(WireBody[MsgType.GapResponse], conn.frames, HeaderSize).payload_bytes
  /\ conn' = Conn("open", conn.start, conn.end,
                  SubSeq(conn.frames, wire_length_for(MsgType.GapResponse) + 1, Len(conn.frames)))
  /\ pc' = "recv"
  /\ UNCHANGED <<trackerVars, server, payload, recovery_events, handled, last, outcome, off>>

\* recv() returns the next n bytes.
ReceiveChunk(n) ==
  /\ pc = "recv"
  /\ n <= nbytes - Len(payload) /\ n <= Len(conn.frames)
  /\ payload' = payload \o SubSeq(conn.frames, 1, n)
  /\ conn' = [conn EXCEPT !.frames = SubSeq(@, n + 1, Len(@))]
  /\ UNCHANGED <<trackerVars, pc, server, recovery_events, handled, last, outcome, nbytes, off>>

\* The loop ends: all bytes are there, or recv() returns 0 or -1.
ReceiveEnds ==
  /\ pc = "recv"
  /\ Len(payload) = nbytes \/ conn.frames = <<>> \/ LinkFaults
  /\ conn' = Conn("closed", conn.start, conn.end, <<>>)
  /\ outcome' = IF Len(payload) = nbytes THEN "complete" ELSE "partial"
  /\ pc' = "replay"
  /\ UNCHANGED <<trackerVars, server, payload, recovery_events, handled, last, nbytes, off>>

Rest == SubSeq(payload, off + 1, Len(payload))

\* Mutant of ReplayFrame: the next frame is looked for at a fixed distance.
ReplayFrameFixed ==
  LET parsed == ParseMessage(Rest)
  IN  /\ pc = "replay"
      /\ off < Len(payload)
      /\ parsed.status = "Ok"
      /\ PushBytes(SubSeq(Rest, 1, parsed.consumed))
      /\ off' = off + kMaxMessageSize
      /\ UNCHANGED <<pc, server, conn, payload, recovery_events, handled, last, outcome, nbytes>>

\* One iteration of the replay loop.
ReplayFrame ==
  LET parsed == ParseMessage(Rest)
  IN  /\ pc = "replay"
      /\ off < Len(payload)
      /\ parsed.status = "Ok"
      /\ PushBytes(SubSeq(Rest, 1, parsed.consumed))
      /\ off' = off + parsed.consumed
      /\ UNCHANGED <<pc, server, conn, payload, recovery_events, handled, last, outcome, nbytes>>

\* The replay loop ends, at the end of the bytes or at bytes that do not parse.
FinishReplay ==
  /\ pc = "replay"
  /\ off < Len(payload) => ParseMessage(Rest).status # "Ok"
  /\ recovery_events' = recovery_events + 1
  /\ ClearGap
  /\ conn' = NoConn /\ payload' = <<>> /\ nbytes' = 0 /\ off' = 0
  /\ pc' = "drain"
  /\ UNCHANGED <<server, handled, last, outcome>>

-----------------------------------------------------------------------------
WireFeedStep ==
  \/ DrainFrames \/ SendRequest \/ ReceiveResponse \/ ReceiveEnds
  \/ \E n \in Chunks : ReceiveChunk(n)
  \/ ReplayFrame \/ FinishReplay
  \/ (ConnectFails \/ ResponseFails) /\ UNCHANGED <<nbytes, off>>

WireNext ==
  \/ \E d \in Datagrams : ReceiveDatagram(d) \/ IgnoreDatagram(d)
  \/ WireFeedStep
  \/ ServeRequest
  \/ (LeaveLoop \/ LinkBreaks \/ ServerStops \/ Terminated) /\ UNCHANGED <<nbytes, off>>

WireSpec == WireInit /\ [][WireNext]_wireVars

-----------------------------------------------------------------------------
\* The frames asked for by the current request.
Requested == GapPayload(conn.start, conn.end)

\* Where the k-th of them ends in the payload, and which of them end in its first bytes.
FrameEnd(frames, k) ==
  LET end[n \in 0 .. k] == IF n = 0 THEN 0 ELSE end[n - 1] + Len(frames[n].body)
  IN  end[k]

WholeFrames(frames, size) == {k \in 1 .. Len(frames) : FrameEnd(frames, k) <= size}

\* The loops of try_recover() keep their indices right, wherever recv() and the end of
\* the connection cut the stream: got and off stay within the announced payload, and
\* parse_message() is only called where a frame starts.
ReplayOnFrames ==
  /\ off <= Len(payload) /\ Len(payload) <= nbytes
  /\ pc \in {"recv", "replay"} => nbytes = FrameEnd(Requested, Len(Requested))
  /\ pc = "replay" =>
       off \in {0} \cup {FrameEnd(Requested, k) : k \in WholeFrames(Requested, Len(payload))}

\* handle_parsed() sees the messages of the session as the simulator had them before it
\* encoded them, in order, and every frame that the tracker counted as delivered gets
\* through the second parse.
HandledAreTheMessages ==
  /\ handled = SubSeq(Messages, 1, Len(handled))
  /\ pc = "select" => Len(handled) = next_expected - 1

\* What RecoveringFeed has in the place of the bytes: the response counts as received
\* once the payload is, a connection that ends inside a frame is one that ends before
\* it, and a message that was handled is the frame of its number.
FramesPc == IF pc = "recv" THEN "await" ELSE pc

FramesConn ==
  CASE conn.state = "requested" ->
         LET req == DecodeStruct(WireBody[MsgType.GapRequest], conn.frames, HeaderSize)
         IN  Conn("requested", req.start_seq, req.end_seq, <<>>)
    [] conn.state \in {"answered", "open"} -> Conn("answered", conn.start, conn.end, Requested)
    [] conn.state = "reset" -> conn
    [] OTHER -> NoConn

FramesPayload ==
  IF pc # "replay" THEN <<>>
  ELSE SubSeq(Requested, Cardinality(WholeFrames(Requested, off)) + 1,
                         Cardinality(WholeFrames(Requested, Len(payload))))

FramesHandled == [i \in DOMAIN handled |-> Session[handled[i].seq]]

Frames ==
  INSTANCE RecoveringFeed WITH
    pc <- FramesPc, conn <- FramesConn, payload <- FramesPayload, handled <- FramesHandled

\* The byte level implements RecoveringFeed: a datagram is the message at its start or
\* nothing, and however recv() cuts the stream, the frames replayed are those of a
\* connection that carries whole frames.
ImplementsRecoveringFeed == Frames!Init /\ [][Frames!Next]_Frames!vars
=============================================================================
