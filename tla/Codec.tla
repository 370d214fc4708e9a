------------------------------- MODULE Codec --------------------------------
(***************************************************************************)
(* Packets as bytes: WormsPacket::readFrom and writeTo, and SessionInfo.   *)
(*                                                                         *)
(* A packet is a code and its fields, a function whose domain is the set   *)
(* of fields that are present.                                             *)
(***************************************************************************)
EXTENDS CodePage, Functions, TLC

CONSTANTS
  MaxNameLength,   \* WormsPacket::MAX_NAME_LENGTH, 20
  MaxDataLength,   \* WormsPacket::MAX_DATA_LENGTH, 16#200
  PaddingSize      \* SessionInfo::PADDING_SIZE, 35

ASSUME CodecAssumption ==
  /\ MaxNameLength \in Nat /\ MaxDataLength \in Nat \ {0} /\ PaddingSize \in Nat

(* The codes a client may send. *)
ClientCodes == {200, 400, 500, 600, 700, 800, 900, 1100, 1200, 1300, 1326}
PacketCodeExists(code) == code \in ClientCodes
Login == 600
CreateRoom == 700
ChatRoom == 1300

PacketFlags ==
  [value0 |-> 1, value1 |-> 2, value2 |-> 4, value3 |-> 8, value4 |-> 16,
   value10 |-> 1024, dataLength |-> 32, data |-> 64, error |-> 128,
   name |-> 256, info |-> 512]

(* The order of the fields in a packet. *)
FieldOrder ==
  <<"value0", "value1", "value2", "value3", "value4", "value10", "dataLength",
    "data", "error", "name", "info">>

HasFlag(flags, field) == (flags \div PacketFlags[field]) % 2 = 1

-----------------------------------------------------------------------------
(* The library's packet_reader and packet_writer (external). *)

Zeros(n) == [i \in 1 .. n |-> 0]

(* A 32-bit word is the integer from -2^31 to 2^31 - 1 with its bits. *)
Word == {n \in Int : -2147483647 - 1 <= n /\ n <= 2147483647}

WriteLe(n) ==
  <<n % 256, (n \div 256) % 256, (n \div 65536) % 256, (n \div 16777216) % 256>>

CanRead(bytes, pos, n) == pos + n <= Len(bytes)

ReadLe(bytes, pos) ==
  LET top == bytes[pos + 4]
  IN bytes[pos + 1] + (256 * bytes[pos + 2]) + (65536 * bytes[pos + 3])
       + (16777216 * IF top < 128 THEN top ELSE top - 256)

ReadBytes(bytes, pos, n) == SubSeq(bytes, pos + 1, pos + n)

-----------------------------------------------------------------------------
(* SessionInfo: two check words, five bytes of content, a one, a zero and  *)
(* the padding.  gameRelease, the third of the five, is overwritten when   *)
(* the packet is read.                                                     *)

Crc1 == 387389207    \* 16#17171717
Crc2 == 33620225     \* 16#02010101
GameRelease == 49
InfoSize == 15 + PaddingSize

NewSessionInfo(content) ==
  [crc1 |-> Crc1, crc2 |-> Crc2, content |-> content, alwaysOne |-> 1, alwaysZero |-> 0,
   padding |-> Zeros(PaddingSize)]

InfoBytes(info) ==
  WriteLe(info.crc1) \o WriteLe(info.crc2) \o info.content
    \o <<info.alwaysOne, info.alwaysZero>> \o info.padding

ReadInfo(bytes, pos) ==
  [crc1       |-> ReadLe(bytes, pos),
   crc2       |-> ReadLe(bytes, pos + 4),
   content    |-> ReadBytes(bytes, pos + 8, 5),
   alwaysOne  |-> bytes[pos + 14],
   alwaysZero |-> bytes[pos + 15],
   padding    |-> ReadBytes(bytes, pos + 15, PaddingSize)]

(* A variant that does not test alwaysOne. *)
VerifySessionInfoWithoutOne(info) ==
  /\ info.crc1 = Crc1 /\ info.crc2 = Crc2
  /\ info.alwaysZero = 0
  /\ info.padding = Zeros(PaddingSize)

VerifySessionInfo(info) ==
  /\ info.crc1 = Crc1 /\ info.crc2 = Crc2
  /\ info.alwaysOne = 1 /\ info.alwaysZero = 0
  /\ info.padding = Zeros(PaddingSize)

-----------------------------------------------------------------------------
(* The layout: a header of a code and the flags, then the fields that are  *)
(* present, in their order.  length is that of the data.                   *)

HeaderSize == 8

FieldSize(field, length) ==
  CASE field = "data" -> length
    [] field = "name" -> MaxNameLength
    [] field = "info" -> InfoSize
    [] OTHER          -> 4

TotalSize(fields, length) ==
  (4 * Cardinality(fields \ {"data", "name", "info"}))
    + (IF "data" \in fields THEN length ELSE 0)
    + (IF "name" \in fields THEN MaxNameLength ELSE 0)
    + (IF "info" \in fields THEN InfoSize ELSE 0)

Before(field) ==
  {FieldOrder[i] : i \in {i \in DOMAIN FieldOrder :
                            \E j \in DOMAIN FieldOrder : i < j /\ FieldOrder[j] = field}}

Position(present, field, length) ==
  HeaderSize + TotalSize(present \cap Before(field), length)

-----------------------------------------------------------------------------
(* readFrom. *)

(* A variant that keeps the zeros after a name. *)
UpToZeroWhole(raw) == raw

UpToZero(raw) ==
  LET zero == SelectInSeq(raw, LAMBDA byte : byte = 0)
  IN IF zero = 0 THEN raw ELSE SubSeq(raw, 1, zero - 1)

(* The data end with a zero, which is not part of the text. *)
ReadField(bytes, pos, field, length) ==
  CASE field = "data" -> DecodeString(ReadBytes(bytes, pos, length - 1))
    [] field = "name" -> DecodeString(UpToZero(ReadBytes(bytes, pos, MaxNameLength)))
    [] field = "info" -> [ReadInfo(bytes, pos) EXCEPT !.content[3] = GameRelease]
    [] OTHER          -> ReadLe(bytes, pos)

(* The lengths of texts are tested again once they are UTF-8. *)
IsValid(bytes, pos, field, length) ==
  CASE field = "dataLength" -> ReadLe(bytes, pos) \in 0 .. MaxDataLength
    [] field = "data" -> \/ length = 0
                         \/ /\ bytes[pos + length] = 0
                            /\ Len(ReadField(bytes, pos, field, length)) <= MaxDataLength
    [] field = "name" -> Len(ReadField(bytes, pos, field, length)) <= MaxNameLength
    [] field = "info" -> VerifySessionInfo(ReadInfo(bytes, pos))
    [] OTHER          -> TRUE

Status(bytes, pos, field, length) ==
  IF ~ CanRead(bytes, pos, FieldSize(field, length)) THEN "partial"
  ELSE IF ~ IsValid(bytes, pos, field, length) THEN "error" ELSE "complete"

(* dataLength(): a length that is absent, incomplete or invalid leaves it  *)
(* at 0.                                                                   *)
LengthIn(bytes, present) ==
  LET pos == Position(present, "dataLength", 0)
  IN IF "dataLength" \in present /\ Status(bytes, pos, "dataLength", 0) = "complete"
     THEN ReadLe(bytes, pos) ELSE 0

(* The first field that is incomplete or invalid is the result. *)
ReadFields(bytes, code, present) ==
  LET length == LengthIn(bytes, present)
      pos    == [field \in present |-> Position(present, field, length)]
      status == [field \in present |-> Status(bytes, pos[field], field, length)]
      stops  == {field \in present : status[field] # "complete"}
  IN IF stops = {}
     THEN [status |-> "complete",
           size   |-> HeaderSize + TotalSize(present, length),
           packet |-> [code   |-> code,
                       fields |-> [field \in present |->
                                     ReadField(bytes, pos[field], field, length)]]]
     ELSE [status |-> status[CHOOSE field \in stops : stops \cap Before(field) = {}]]

ReadFrom(bytes) ==
  IF ~ CanRead(bytes, 0, HeaderSize) THEN [status |-> "partial"]
  ELSE IF ~ PacketCodeExists(ReadLe(bytes, 0)) THEN [status |-> "error"]
  ELSE ReadFields(bytes, ReadLe(bytes, 0),
                  {field \in DOMAIN PacketFlags : HasFlag(ReadLe(bytes, 4), field)})

-----------------------------------------------------------------------------
(* writeTo.  The flags announce a length when only dataLength is present,  *)
(* and no length is written then; no handler makes such a packet.          *)

Announced(fields) ==
  DOMAIN fields \cup (IF "data" \in DOMAIN fields THEN {"dataLength"} ELSE {})

GetFlagsFromFields(fields) == SumFunctionOnSet(PacketFlags, Announced(fields))

(* A name shorter than its place in the packet is filled up with zeros. *)
NameBytes(encoded) == SubSeq(encoded \o Zeros(MaxNameLength), 1, MaxNameLength)

(* The length is written with the data. *)
WriteField(fields, field) ==
  CASE field = "dataLength" -> IF "data" \in DOMAIN fields
                               THEN WriteLe(Len(EncodeString(fields.data)) + 1) ELSE <<>>
    [] field = "data"       -> EncodeString(fields.data) \o <<0>>
    [] field = "name"       -> NameBytes(EncodeString(fields.name))
    [] field = "info"       -> InfoBytes(fields.info)
    [] OTHER                -> WriteLe(fields[field])

(* The fields that have bytes, one after the other. *)
LaidOut(parts) ==
  FlattenSeq([i \in DOMAIN FieldOrder |->
                IF FieldOrder[i] \in DOMAIN parts THEN parts[FieldOrder[i]] ELSE <<>>])

WriteTo(packet) ==
  WriteLe(packet.code) \o WriteLe(GetFlagsFromFields(packet.fields))
    \o LaidOut([field \in Announced(packet.fields) |-> WriteField(packet.fields, field)])

=============================================================================
