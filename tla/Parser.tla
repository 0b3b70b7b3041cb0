------------------------------- MODULE Parser -------------------------------
(***************************************************************************)
(* parse_message(): the first message of a span of bytes.  The checks run  *)
(* in the order of the code, each of them on bytes that the checks before  *)
(* it showed to be there.                                                  *)
(***************************************************************************)
EXTENDS Protocol

CONSTANT NoPayload  \* std::monostate

Parsed(status, consumed, payload) ==
  [status |-> status, consumed |-> consumed, payload |-> payload]

Buy == 0
Sell == 1

\* decode_side(), for the messages that have a side.
SideIsKnown(msg) == "side" \in DOMAIN msg => msg.side \in {Buy, Sell}

\* The switch on the type: consumed is set also when the side is bad.
ParseBody(hdr, bytes) ==
  LET msg == Followed(hdr, DecodeStruct(WireBody[hdr.type], bytes, HeaderSize))
  IN  IF SideIsKnown(msg) THEN Parsed("Ok", hdr.length, msg)
                          ELSE Parsed("BadSide", hdr.length, NoPayload)

LengthFits(hdr) == hdr.length = wire_length_for(hdr.type)

Arrived(bytes, length) == Len(bytes) >= length

ParseMessage(bytes) ==
  IF ~Arrived(bytes, HeaderSize) THEN Parsed("Truncated", 0, NoPayload)
  ELSE LET hdr == decode_header(bytes)
       IN  IF hdr.length < HeaderSize \/ hdr.length > kMaxMessageSize
             THEN Parsed("BadLength", 0, NoPayload)
           ELSE IF ~Arrived(bytes, hdr.length) THEN Parsed("Truncated", 0, NoPayload)
           ELSE IF wire_length_for(hdr.type) = 0 THEN Parsed("UnknownType", 0, NoPayload)
           ELSE IF ~LengthFits(hdr) THEN Parsed("BadLength", 0, NoPayload)
           ELSE ParseBody(hdr, bytes)
=============================================================================
