------------------------------ MODULE Protocol ------------------------------
(***************************************************************************)
(* The wire format of protocol.hpp and bytes.hpp.  A packed struct is a    *)
(* sequence of fields, each with a width in bytes; a number takes its      *)
(* field most significant byte first.  A message of the host is the record *)
(* of the fields of its header and of its body, without the padding.       *)
(***************************************************************************)
EXTENDS Integers, Sequences, SequencesExt

CONSTANT ByteBase   \* values of a byte (256 in the code)

ASSUME ByteBaseAssumption == ByteBase \in Nat /\ ByteBase > 1

\* v >> 8n: v without its n lowest bytes.
Shifted(v, n) ==
  LET shifted[i \in 0 .. n] == IF i = 0 THEN v ELSE shifted[i - 1] \div ByteBase
  IN  shifted[n]

StoreBe(v, width) == [i \in 1 .. width |-> Shifted(v, width - i) % ByteBase]

\* v is a value of an unsigned integer of width bytes.
Fits(v, width) == v \in Nat /\ Shifted(v, width) = 0

LoadBe(bytes) ==
  LET value[n \in 0 .. Len(bytes)] == IF n = 0 THEN 0 ELSE value[n - 1] * ByteBase + bytes[n]
  IN  value[Len(bytes)]

-----------------------------------------------------------------------------
Field(name, width) == [name |-> name, width |-> width]
Padding(width) == Field("pad", width)

WireHeader ==
  <<Field("type", 1), Padding(1), Field("length", 2), Field("seq", 8), Field("ts_ns", 8)>>

\* What an add, a modify and a trade carry; id is order_id or trade_id.
OrderBody(id) ==
  <<Field(id, 8), Field("symbol_id", 4), Field("side", 1), Padding(3), Field("price", 4),
    Field("qty", 4)>>

GapRange == <<Field("start_seq", 8), Field("end_seq", 8)>>

MsgType == [AddOrder |-> 1, ModifyOrder |-> 2, DeleteOrder |-> 3, Trade |-> 4, Heartbeat |-> 5,
            GapRequest |-> 6, GapResponse |-> 7]

MsgTypes == 1 .. 7

\* The struct of each message type, after its header.
WireBody ==
  << OrderBody("order_id"), OrderBody("order_id"),
     <<Field("order_id", 8), Field("symbol_id", 4), Padding(4)>>,
     OrderBody("trade_id"), <<Field("exchange_ts_ns", 8)>>, GapRange,
     GapRange \o <<Field("payload_bytes", 4), Padding(4)>> >>

SizeOf(struct) ==
  LET size[n \in 0 .. Len(struct)] == IF n = 0 THEN 0 ELSE size[n - 1] + struct[n].width
  IN  size[Len(struct)]

HeaderSize == SizeOf(WireHeader)
kMaxMessageSize == HeaderSize + SizeOf(WireBody[MsgType.AddOrder])

wire_length_for(type) == IF type \in MsgTypes THEN HeaderSize + SizeOf(WireBody[type]) ELSE 0

Names(struct) == {struct[k].name : k \in DOMAIN struct} \ {"pad"}

\* The bytes of a struct; padding is zero.
EncodeStruct(struct, msg) ==
  FlattenSeq([k \in DOMAIN struct |->
    StoreBe(IF struct[k].name = "pad" THEN 0 ELSE msg[struct[k].name], struct[k].width)])

\* The fields of a struct whose first byte is the one after offset.
DecodeStruct(struct, bytes, offset) ==
  [name \in Names(struct) |->
     LET k == CHOOSE k \in DOMAIN struct : struct[k].name = name
         from == offset + SizeOf(SubSeq(struct, 1, k - 1))
     IN  LoadBe(SubSeq(bytes, from + 1, from + struct[k].width))]

\* A struct that begins with the fields of another one.
Followed(hdr, body) ==
  [name \in DOMAIN hdr \cup DOMAIN body |-> IF name \in DOMAIN hdr THEN hdr[name] ELSE body[name]]

\* write_header(): the length follows from the type.
WithHeader(type, seq, ts_ns, body) ==
  Followed([type |-> type, length |-> wire_length_for(type), seq |-> seq, ts_ns |-> ts_ns], body)

MessageStruct(type) == WireHeader \o WireBody[type]

\* A message of the host: every field a value of its type.
IsMessage(msg) ==
  /\ msg.type \in MsgTypes
  /\ msg \in [Names(MessageStruct(msg.type)) -> Nat]
  /\ \A k \in DOMAIN MessageStruct(msg.type) :
       LET field == MessageStruct(msg.type)[k]
       IN  field.name # "pad" => Fits(msg[field.name], field.width)
  /\ msg.length = wire_length_for(msg.type)

\* encode_add() and the other encoders.
EncodeMessage(msg) == EncodeStruct(MessageStruct(msg.type), msg)

decode_header(bytes) == DecodeStruct(WireHeader, bytes, 0)
=============================================================================
