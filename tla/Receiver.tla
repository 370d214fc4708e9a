------------------------------ MODULE Receiver ------------------------------
(***************************************************************************)
(* The reading half of one session: handleLogin with its single receive,   *)
(* handleSession with the framed reader, and the client that sends.        *)
(*                                                                         *)
(* The client's packets become one stream of bytes, and each receive takes *)
(* any number of them.  What the handlers do is module Lobby; here they    *)
(* only return true, return false or throw.                                *)
(***************************************************************************)
EXTENDS Codec

CONSTANTS
  Scripts,        \* sequences of packets a client may send
  LoginBuffer,    \* incoming in handleLogin, 1024 bytes
  SessionBuffer,  \* incoming in handleSession, 2048 bytes
  NewId           \* what getNextId returns

VARIABLES
  script,    \* what this client sends
  sent,      \* how many of its packets it has sent
  net,       \* bytes sent and not yet received
  pc,        \* where the reader is, or why it ended
  buffer,    \* what the framed reader holds
  handled,   \* packets given to handleLogin's checks or to handlePacket
  threw      \* the last packet's handler threw, and nothing came since

vars == <<script, sent, net, pc, buffer, handled, threw>>

(* login, receive: in async_receive; read: in the loop over the packets.   *)
Running == {"login", "receive", "read"}

(* closed: end of file, error or timeout; refused: the name is taken;      *)
(* rejected: the handler returned false.                                   *)
Ended == {"closed", "refused", "rejected", "badLogin", "badPacket"}

-----------------------------------------------------------------------------
(* The client (external).  It lays its packets out as writeTo does, and    *)
(* sends nothing more until its login is answered.  An item of a script    *)
(* has a code and raw fields: texts are bytes of the code page, data       *)
(* includes the zero at its end.                                           *)

RawField(raw, field) ==
  CASE field = "data" -> raw.data
    [] field = "name" -> NameBytes(raw.name)
    [] field = "info" -> InfoBytes(raw.info)
    [] OTHER          -> WriteLe(raw[field])

WireBytes(item) ==
  WriteLe(item.code) \o WriteLe(GetFlagsFromFields(item.raw))
    \o LaidOut([field \in DOMAIN item.raw |-> RawField(item.raw, field)])

Items == UNION {Range(s) : s \in Scripts}
Wire == [item \in Items |-> WireBytes(item)]

(* The fields are of their types and data come with their length.  Nothing *)
(* else is asked of an item: any code, any length and any bytes.           *)
IsItem(item) ==
  /\ item.code \in Word
  /\ DOMAIN item.raw \subseteq DOMAIN PacketFlags
  /\ \A field \in DOMAIN item.raw \ {"data", "name", "info"} : item.raw[field] \in Word
  /\ "data" \in DOMAIN item.raw =>
       /\ item.raw.data \in Seq(Byte)
       /\ "dataLength" \in DOMAIN item.raw /\ item.raw.dataLength = Len(item.raw.data)
  /\ "name" \in DOMAIN item.raw =>
       item.raw.name \in Seq(Byte \ {0}) /\ Len(item.raw.name) <= MaxNameLength
  /\ "info" \in DOMAIN item.raw =>
       item.raw.info \in [crc1 : Word, crc2 : Word, content : [1 .. 5 -> Byte],
                          alwaysOne : Byte, alwaysZero : Byte,
                          padding : [1 .. PaddingSize -> Byte]]

ASSUME ReceiverAssumption ==
  /\ Scripts \subseteq Seq(Items) \ {<<>>}
  /\ \A item \in Items : IsItem(item)
  /\ LoginBuffer \in Nat \ {0} /\ SessionBuffer \in Nat \ {0}
  /\ NewId \in Word

ClientSends ==
  /\ sent < Len(script)
  /\ sent = 0 \/ pc \in {"receive", "read"}
  /\ sent' = sent + 1
  /\ net' = net \o Wire[script[sent + 1]]
  /\ UNCHANGED <<script, pc, buffer, handled, threw>>

-----------------------------------------------------------------------------
(* handleLogin: one receive, and the whole zero-filled buffer is parsed. *)

IsLogin(packet) ==
  /\ packet.code = Login
  /\ {"value1", "value4", "name", "info"} \subseteq DOMAIN packet.fields

(* incoming after a receive of n of these bytes. *)
Incoming(bytes, n) == SubSeq(bytes, 1, n) \o Zeros(LoginBuffer - n)

ReceiveLogin(n) ==
  LET read == ReadFrom(Incoming(net, n))
  IN /\ pc = "login"
     /\ n <= Len(net) /\ n <= LoginBuffer
     /\ net' = SubSeq(net, n + 1, Len(net))
     /\ IF read.status = "complete" /\ IsLogin(read.packet)
        THEN /\ pc' \in {"refused", "receive"}
             /\ handled' = Append(handled, read.packet)
        ELSE /\ pc' = "badLogin"
             /\ UNCHANGED handled
     /\ UNCHANGED <<script, sent, buffer, threw>>

(* End of file, an error, or a timer that closed the socket. *)
ReceiveFails ==
  /\ pc \in {"login", "receive"}
  /\ pc' = "closed"
  /\ UNCHANGED <<script, sent, net, buffer, handled, threw>>

-----------------------------------------------------------------------------
(* handleSession. *)

(* A variant that appends the whole of incoming and not the bytes read. *)
ReceiveWhole(n) ==
  /\ pc = "receive"
  /\ n <= Len(net) /\ n <= SessionBuffer
  /\ net' = SubSeq(net, n + 1, Len(net))
  /\ buffer' = buffer \o SubSeq(net, 1, n) \o Zeros(SessionBuffer - n)
  /\ pc' = "read"
  /\ threw' = FALSE
  /\ UNCHANGED <<script, sent, handled>>

(* A variant that makes a new framed reader for each receive. *)
ReceiveFresh(n) ==
  /\ pc = "receive"
  /\ n <= Len(net) /\ n <= SessionBuffer
  /\ net' = SubSeq(net, n + 1, Len(net))
  /\ buffer' = SubSeq(net, 1, n)
  /\ pc' = "read"
  /\ threw' = FALSE
  /\ UNCHANGED <<script, sent, handled>>

Receive(n) ==
  /\ pc = "receive"
  /\ n <= Len(net) /\ n <= SessionBuffer
  /\ net' = SubSeq(net, n + 1, Len(net))
  /\ buffer' = buffer \o SubSeq(net, 1, n)
  /\ pc' = "read"
  /\ threw' = FALSE
  /\ UNCHANGED <<script, sent, handled>>

(* reader.try_read_packet (external): a packet that is complete leaves the *)
(* buffer, anything else stays in it.                                      *)
TryReadPacket == ReadFrom(buffer)

NeedsMore ==
  /\ pc = "read"
  /\ TryReadPacket.status = "partial"
  /\ pc' = "receive"
  /\ UNCHANGED <<script, sent, net, buffer, handled, threw>>

ParseError ==
  /\ pc = "read"
  /\ TryReadPacket.status = "error"
  /\ pc' = "badPacket"
  /\ UNCHANGED <<script, sent, net, buffer, handled, threw>>

(* A variant that reads one packet for each receive: if instead of while. *)
HandlePacketOnce ==
  LET read == TryReadPacket
  IN /\ pc = "read"
     /\ read.status = "complete"
     /\ buffer' = SubSeq(buffer, read.size + 1, Len(buffer))
     /\ handled' = Append(handled, read.packet)
     /\ \/ pc' \in {"receive", "rejected"} /\ UNCHANGED threw
        \/ pc' = "receive" /\ threw' = TRUE
     /\ UNCHANGED <<script, sent, net>>

(* A variant that removes the packet once its handler has returned. *)
HandlePacketLater ==
  LET read == TryReadPacket
  IN /\ pc = "read"
     /\ read.status = "complete"
     /\ handled' = Append(handled, read.packet)
     /\ \/ /\ pc' \in {"read", "rejected"}
           /\ buffer' = SubSeq(buffer, read.size + 1, Len(buffer))
           /\ UNCHANGED threw
        \/ pc' = "receive" /\ threw' = TRUE /\ UNCHANGED buffer
     /\ UNCHANGED <<script, sent, net>>

(* The handler returns true and the loop goes on, it returns false, or it  *)
(* throws: the catch continues with the next receive, whatever the buffer  *)
(* still holds.                                                            *)
HandlePacket ==
  LET read == TryReadPacket
  IN /\ pc = "read"
     /\ read.status = "complete"
     /\ buffer' = SubSeq(buffer, read.size + 1, Len(buffer))
     /\ handled' = Append(handled, read.packet)
     /\ \/ pc' \in {"read", "rejected"} /\ UNCHANGED threw
        \/ pc' = "receive" /\ threw' = TRUE
     /\ UNCHANGED <<script, sent, net>>

-----------------------------------------------------------------------------
(* The packet the handlers make of a packet for other clients.  OnChatRoom *)
(* sends the message up to its first zero, because message.data() is a C   *)
(* string.  handleLogin and OnCreateRoom send the name with an id and a    *)
(* SessionInfo of the server's own, which keeps the nation alone.          *)
(* (OnCreateGame forwards no text of its packet, only the game's access.)  *)

OwnInfo(info, type) == NewSessionInfo(<<info.content[1], 49, 49, type, 1>>)

IsChat(packet) ==
  packet.code = ChatRoom /\ {"value0", "value3", "data"} \subseteq DOMAIN packet.fields

IsNewRoom(packet) ==
  packet.code = CreateRoom /\ {"data", "name", "info"} \subseteq DOMAIN packet.fields

Forwarded(packet) ==
  LET read == packet.fields
  IN [code   |-> packet.code,
      fields |->
        CASE packet.code = ChatRoom ->
               [value0 |-> read.value0, value3 |-> read.value3, data |-> UpToZero(read.data)]
          [] packet.code = Login ->
               [value1 |-> NewId, value4 |-> 0, name |-> UpToZero(read.name),
                info |-> OwnInfo(read.info, 5)]
          [] packet.code = CreateRoom ->
               [value1 |-> NewId, value4 |-> 0, data |-> <<>>, name |-> read.name,
                info |-> OwnInfo(read.info, 1)]]

-----------------------------------------------------------------------------
Init ==
  /\ script \in Scripts
  /\ sent = 0
  /\ net = <<>> /\ buffer = <<>>
  /\ pc = "login"
  /\ handled = <<>>
  /\ threw = FALSE

Next ==
  \/ ClientSends
  \/ \E n \in 1 .. Len(net) : ReceiveLogin(n) \/ Receive(n)
  \/ ReceiveFails
  \/ NeedsMore \/ ParseError \/ HandlePacket

Spec == Init /\ [][Next]_vars

-----------------------------------------------------------------------------
(* The packet format, as the client means it. *)

Text(raw, field) ==
  IF field = "data" THEN DecodeString(SubSeq(raw.data, 1, Len(raw.data) - 1))
                    ELSE DecodeString(raw.name)

Meaning(item) ==
  [code   |-> item.code,
   fields |-> [field \in DOMAIN item.raw |->
                CASE field \in {"data", "name"} -> Text(item.raw, field)
                  [] field = "info" -> [item.raw.info EXCEPT !.content[3] = GameRelease]
                  [] OTHER -> item.raw[field]]]

(* A known code, a length that is allowed, a zero at the end of the data   *)
(* and the constants of SessionInfo.                                       *)
FitsFormat(item) ==
  /\ PacketCodeExists(item.code)
  /\ "dataLength" \in DOMAIN item.raw => item.raw.dataLength \in 0 .. MaxDataLength
  /\ "data" \in DOMAIN item.raw => item.raw.data = <<>> \/ Last(item.raw.data) = 0
  /\ "info" \in DOMAIN item.raw => item.raw.info = NewSessionInfo(item.raw.info.content)

(* The texts fit as UTF-8 too. *)
WellFormed(item) ==
  /\ FitsFormat(item)
  /\ "data" \in DOMAIN item.raw => Len(Text(item.raw, "data")) <= MaxDataLength
  /\ "name" \in DOMAIN item.raw => Len(Text(item.raw, "name")) <= MaxNameLength

(* What a client means to say: its packets up to the first malformed one. *)
MeaningOf ==
  [s \in Scripts |->
    [i \in {i \in DOMAIN s : \A j \in 1 .. i : WellFormed(s[j])} |-> Meaning(s[i])]]

(* The size of the first packets of a script, and how many bytes of the    *)
(* stream were used up.                                                    *)
Sizes ==
  [s \in Scripts |->
    LET size[n \in 0 .. Len(s)] == IF n = 0 THEN 0 ELSE size[n - 1] + Len(Wire[s[n]])
    IN size]
SizeOf(n) == Sizes[script][n]
Used == SizeOf(sent) - Len(net) - Len(buffer)

LoginWasCut == handled # <<>> /\ Used < SizeOf(1)

(* The end of a SessionInfo that is all zeros, as in every good packet. *)
ZeroTail(item) ==
  "info" \in DOMAIN item.raw =>
    item.raw.info.alwaysZero = 0 /\ item.raw.info.padding = Zeros(PaddingSize)

ZeroFilled(item) ==
  [code |-> item.code,
   raw  |-> [item.raw EXCEPT !.info.alwaysZero = 0, !.info.padding = Zeros(PaddingSize)]]

(* A login whose SessionInfo ends with anything else is malformed, and     *)
(* passes all the same when the receive ended before that: zeros were in   *)
(* its place.  What follows is read as packets of its own, and nothing is  *)
(* known of where it leads.                                                *)
Astray == handled # <<>> /\ ~ ZeroTail(script[1])

-----------------------------------------------------------------------------
TypeOK ==
  /\ script \in Scripts
  /\ sent \in 0 .. Len(script)
  /\ net \in Seq(Byte) /\ buffer \in Seq(Byte)
  /\ pc \in Running \cup Ended
  /\ HeaderSize * Len(handled) <= Used
  /\ threw \in BOOLEAN

(* readFrom reads a packet as the client means it, all of it and no more,  *)
(* and finds a malformed one to be malformed within its own bytes.         *)
ReadsAsMeant ==
  \A i \in 1 .. Len(script) :
    LET item == script[i]
        read == ReadFrom(Wire[item])
    IN IF WellFormed(item)
       THEN read = [status |-> "complete", size |-> Len(Wire[item]), packet |-> Meaning(item)]
       ELSE read.status = "error"

(* A login passes only when all of it has arrived but, at most, the zero   *)
(* and the padding at the end of its SessionInfo, and the server takes it  *)
(* for what the client sent, with zeros there whatever the client sent.    *)
LoginIsWhole ==
  handled # <<>> =>
    /\ Used >= SizeOf(1) - (PaddingSize + 1)
    /\ handled[1] = Meaning(ZeroFilled(script[1]))

Stream == INSTANCE PacketStream WITH
  meant     <- MeaningOf[script],
  delivered <- IF Astray THEN <<>> ELSE handled,
  open      <- pc \in Running /\ ~ Astray

(* However the stream is cut into receives, and whatever the handlers      *)
(* throw, they are given the client's packets in order, each once and as   *)
(* the client meant it, and none after one that is malformed.  A stream    *)
(* that goes astray ends for this purpose with the login that passed.      *)
DeliversStream == Stream!Spec

(* handleSession ends a session for malformed data only at a malformed     *)
(* packet: no cut of the stream makes a good packet look bad.  The one     *)
(* exception is a login that passed although its end had not arrived.      *)
OnlyMalformedRefused ==
  pc = "badPacket" =>
    \/ LoginWasCut \/ Astray
    \/ ~ WellFormed(script[Len(handled) + 1]) /\ Used = SizeOf(Len(handled))

Arrived(i) == SizeOf(i) <= SizeOf(sent) - Len(net)

(* No packet that has arrived waits for another one to arrive: when the    *)
(* reader waits, all of them are handled.  The exceptions are a packet     *)
(* behind one whose handler threw, and a stream that went astray.          *)
ArrivedIsHandled ==
  pc = "receive" /\ ~ threw /\ ~ Astray => \A i \in 1 .. sent : Arrived(i) => Len(handled) >= i

(* What the handlers forward is read by the other clients, all of it and   *)
(* no more: the name and the nation the client sent, or the text up to its *)
(* first zero, except for the characters that encode does not know.        *)
ForwardedAsRead ==
  ~ Astray =>
    \A i \in DOMAIN handled :
      LET said  == script[i].raw
          bytes == WriteTo(Forwarded(handled[i]))
          read  == ReadFrom(bytes)
      IN /\ i = 1 \/ IsNewRoom(handled[i]) =>
              /\ read.status = "complete" /\ read.size = Len(bytes)
              /\ read.packet.fields.name = DecodeString(Shown(said.name))
              /\ read.packet.fields.info.content[1] = said.info.content[1]
         /\ IsChat(handled[i]) =>
              /\ read.status = "complete" /\ read.size = Len(bytes)
              /\ read.packet.fields.data = DecodeString(Shown(UpToZero(said.data)))

-----------------------------------------------------------------------------
(* What the repository says and the code does not do. *)

(* "Wait for the client to send a login packet" (handleLogin): a           *)
(* well-formed login packet is not refused as malformed, however many      *)
(* segments it comes in.                                                   *)
LoginIsAwaited ==
  pc = "badLogin" => ~ (WellFormed(script[1]) /\ IsLogin(Meaning(script[1])))

(* "Name is a fixed size string of 20 chars" (writeTo), "Windows-1251      *)
(* character encoding support" (README): a login that arrived whole is not *)
(* refused for a name that fits its place in the packet.                   *)
NamesFit ==
  pc = "badLogin" /\ net = <<>> =>
    ~ (FitsFormat(script[1]) /\ IsLogin(Meaning(script[1])))

=============================================================================
