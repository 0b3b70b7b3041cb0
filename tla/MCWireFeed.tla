----------------------------- MODULE MCWireFeed -----------------------------
(* WireFeed for TLC: a session with messages of three sizes, whose values     *)
(* fill several bytes of a field.  Each datagram of the session also comes    *)
(* with another message after it, cut short, and with a byte that no encoder  *)
(* writes.                                                                    *)
EXTENDS WireFeed

MCMessages ==
  << WithHeader(MsgType.AddOrder, 1, 7,
       [order_id |-> ByteBase^6 + 2, symbol_id |-> 3, side |-> Sell, price |-> ByteBase + 5,
        qty |-> ByteBase^3 + 1]),
     WithHeader(MsgType.DeleteOrder, 2, 8, [order_id |-> ByteBase^6 + 2, symbol_id |-> 3]),
     WithHeader(MsgType.Heartbeat, 3, 9, [exchange_ts_ns |-> 5]) >>

MCBody == {EncodeMessage(MCMessages[s]) : s \in DOMAIN MCMessages}

MCSession == [s \in DOMAIN MCMessages |-> [seq |-> s, body |-> EncodeMessage(MCMessages[s])]]

SessionNumbers == 0 .. Len(MCMessages)

TypeByte == 1
LengthByte == 4
SideByte == HeaderSize + 13

Damaged(bytes) ==
  {SubSeq(bytes, 1, HeaderSize - 1), SubSeq(bytes, 1, Len(bytes) - 1),
   [bytes EXCEPT ![TypeByte] = 0], [bytes EXCEPT ![TypeByte] = MsgType.Heartbeat],
   [bytes EXCEPT ![LengthByte] = @ - 1], [bytes EXCEPT ![LengthByte - 1] = 0],
   [bytes EXCEPT ![LengthByte - 1] = ByteBase - 1]}
  \cup (IF bytes[TypeByte] \in {1, 2, 4} THEN {[bytes EXCEPT ![SideByte] = 2]} ELSE {})

MCDatagrams ==
  UNION {{m, m \o MCSession[1].body} \cup Damaged(m) : m \in MCBody}
=============================================================================
