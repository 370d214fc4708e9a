--------------------------- MODULE ReceiverProofs ---------------------------
(***************************************************************************)
(* Proofs about module Receiver: the reading half of a session implements  *)
(* PacketStream for all scripts, all buffer sizes and all cuts.  For that  *)
(* readFrom is shown to read each packet rightly that stands alone, and    *)
(* one that is cut to be partial.                                          *)
(***************************************************************************)
EXTENDS Receiver, CodecProofs

-----------------------------------------------------------------------------
(* One packet alone. *)

(* What the fields of an item are. *)
LEMMA FieldTypes ==
  ASSUME NEW item, IsItem(item), NEW f \in DOMAIN item.raw
  PROVE  /\ f \in Fields /\ DOMAIN item.raw \in SUBSET Fields
         /\ f = "data" => item.raw.data \in Seq(Byte)
         /\ f = "name" => item.raw.name \in Seq(Byte \ {0}) /\ Len(item.raw.name) <= MaxNameLength
         /\ f = "info" => item.raw.info \in InfoRecords
         /\ f \notin {"data", "name", "info"} => item.raw[f] \in Word
BY Zenon DEF IsItem, InfoRecords, Fields

(* The bytes of a field are as many as its size says. *)
LEMMA PartsHaveSizes ==
  ASSUME NEW item, IsItem(item), NEW f \in DOMAIN item.raw, NEW length \in Nat,
         "data" \in DOMAIN item.raw => length = Len(item.raw.data)
  PROVE  /\ RawField(item.raw, f) \in Seq(Byte)
         /\ Len(RawField(item.raw, f)) = FieldSize(f, length)
<1>1. CASE f = "data"
  BY <1>1, FieldTypes DEF RawField, FieldSize
<1>2. CASE f = "name"
  <2>1. item.raw.name \in Seq(Byte) /\ Len(item.raw.name) <= MaxNameLength
    <3>1. Byte \ {0} \subseteq Byte
      OBVIOUS
    <3> QED
      BY <1>2, <3>1, FieldTypes, SeqMonotonic
  <2>2. NameBytes(item.raw.name) \in Seq(Byte) /\ Len(NameBytes(item.raw.name)) = MaxNameLength
    BY <2>1, NameBytesAre
  <2> QED
    BY <1>2, <2>2 DEF RawField, FieldSize
<1>3. CASE f = "info"
  <2>1. InfoBytes(item.raw.info) \in Seq(Byte) /\ Len(InfoBytes(item.raw.info)) = InfoSize
    BY <1>3, FieldTypes, InfoIsRead
  <2> QED
    BY <1>3, <2>1 DEF RawField, FieldSize
<1>4. CASE f \notin {"data", "name", "info"}
  <2>1. WriteLe(item.raw[f]) \in Seq(Byte) /\ Len(WriteLe(item.raw[f])) = 4
    BY <1>4, FieldTypes, WordBytes
  <2> QED
    BY <1>4, <2>1 DEF RawField, FieldSize
<1> QED
  BY <1>1, <1>2, <1>3, <1>4

(* The bytes of an item: its code and its flags can be read from them, and *)
(* each field is at its position.                                          *)
LEMMA WireIs ==
  ASSUME NEW item, IsItem(item), NEW length \in Nat,
         "data" \in DOMAIN item.raw => length = Len(item.raw.data)
  PROVE  /\ WireBytes(item) \in Seq(Byte)
         /\ Len(WireBytes(item)) = HeaderSize + TotalSize(DOMAIN item.raw, length)
         /\ ReadLe(WireBytes(item), 0) = item.code
         /\ FlaggedIn(WireBytes(item)) = DOMAIN item.raw
         /\ \A f \in DOMAIN item.raw :
              PlacedAt(WireBytes(item), Position(DOMAIN item.raw, f, length),
                       RawField(item.raw, f))
<1> DEFINE present == DOMAIN item.raw
           parts == [f \in present |-> RawField(item.raw, f)]
           flags == GetFlagsFromFields(item.raw)
           bytes == WireBytes(item)
<1>1. present \in SUBSET Fields /\ item.code \in Word
  BY DEF IsItem, Fields
<1>2. parts \in [present -> Seq(Byte)] /\ \A f \in present : Len(parts[f]) = FieldSize(f, length)
  BY PartsHaveSizes
<1>3. Announced(item.raw) = present
  BY DEF Announced, IsItem
<1>4. /\ flags \in Word
      /\ \A b : ReadLe(b, 4) = flags => FlaggedIn(b) = present
  <2>1. flags = SumFunctionOnSet(PacketFlags, present)
    BY <1>3 DEF GetFlagsFromFields
  <2> HIDE DEF flags, present
  <2> QED
    BY <1>1, <2>1, FlagsAreRead
<1>5. bytes = WriteLe(item.code) \o WriteLe(flags) \o LaidOut(parts)
  BY DEF WireBytes
<1> HIDE DEF parts, flags, bytes
<1>6. /\ bytes \in Seq(Byte) /\ Len(bytes) = HeaderSize + TotalSize(present, length)
      /\ ReadLe(bytes, 0) = item.code /\ ReadLe(bytes, 4) = flags
      /\ \A f \in present : PlacedAt(bytes, Position(present, f, length), parts[f])
  <2> HIDE DEF present
  <2>1. IsLayout(bytes, item.code, flags, present, parts, length)
    BY <1>1, <1>2, <1>4, <1>5 DEF IsLayout
  <2> QED
    BY <2>1, LayoutIs
<1>7. \A f \in present : parts[f] = RawField(item.raw, f)
  BY DEF parts
<1> QED
  BY <1>4, <1>6, <1>7 DEF bytes

(* Nothing decodes to nothing. *)
LEMMA NothingDecoded == DecodeString(<<>>) = <<>>
<1> DEFINE chars == [i \in DOMAIN <<>> |-> AppendUtf8(ToUnicode(<<>>[i]))]
<1>1. chars \in Seq({}) /\ Len(chars) = 0
  <2>1. chars = [i \in 1 .. 0 |-> AppendUtf8(ToUnicode(<<>>[i]))]
    OBVIOUS
  <2> QED
    BY <2>1
<1>2. chars = <<>>
  BY <1>1, EmptySeq
<1>3. DecodeString(<<>>) = FlattenSeq(chars)
  BY DEF DecodeString
<1> HIDE DEF chars
<1> QED
  BY <1>1, <1>2, <1>3 DEF FlattenSeq

(* Whether a field is as the format wants it. *)
FieldFits(item, f) ==
  CASE f = "dataLength" -> item.raw.dataLength \in 0 .. MaxDataLength
    [] f = "data" -> \/ item.raw.data = <<>>
                     \/ /\ Last(item.raw.data) = 0
                        /\ Len(Text(item.raw, "data")) <= MaxDataLength
    [] f = "name" -> Len(Text(item.raw, "name")) <= MaxNameLength
    [] f = "info" -> VerifySessionInfo(item.raw.info)
    [] OTHER -> TRUE

(* A packet is well-formed when its code is known and its fields fit. *)
LEMMA WellFormedIs ==
  ASSUME NEW item, IsItem(item)
  PROVE  WellFormed(item)
           <=> PacketCodeExists(item.code) /\ \A f \in DOMAIN item.raw : FieldFits(item, f)
<1>1. "dataLength" \in DOMAIN item.raw
        => (FieldFits(item, "dataLength") <=> item.raw.dataLength \in 0 .. MaxDataLength)
  BY DEF FieldFits
<1>2. "data" \in DOMAIN item.raw
        => (FieldFits(item, "data") <=> /\ item.raw.data = <<>> \/ Last(item.raw.data) = 0
                                        /\ Len(Text(item.raw, "data")) <= MaxDataLength)
  <2>1. item.raw.data = <<>> => Len(Text(item.raw, "data")) <= MaxDataLength
    <3>1. SubSeq(<<>>, 1, Len(<<>>) - 1) = <<>>
      BY SubSeqEmpty
    <3>2. Len(<<>>) <= MaxDataLength
      BY CodecAssumption
    <3> QED
      BY <3>1, <3>2, NothingDecoded DEF Text
  <2> QED
    BY <2>1 DEF FieldFits
<1>3. "name" \in DOMAIN item.raw
        => (FieldFits(item, "name") <=> Len(Text(item.raw, "name")) <= MaxNameLength)
  BY DEF FieldFits
<1>4. "info" \in DOMAIN item.raw
        => (FieldFits(item, "info") <=> item.raw.info = NewSessionInfo(item.raw.info.content))
  <2> SUFFICES ASSUME "info" \in DOMAIN item.raw
               PROVE  FieldFits(item, "info")
                        <=> item.raw.info = NewSessionInfo(item.raw.info.content)
    OBVIOUS
  <2> DEFINE info == item.raw.info
  <2>1. info = [crc1 |-> info.crc1, crc2 |-> info.crc2, content |-> info.content,
                alwaysOne |-> info.alwaysOne, alwaysZero |-> info.alwaysZero,
                padding |-> info.padding]
    <3>1. info \in InfoRecords
      BY FieldTypes
    <3> HIDE DEF info
    <3> QED
      BY <3>1, Zenon DEF InfoRecords
  <2>2. FieldFits(item, "info") <=> VerifySessionInfo(info)
    BY DEF FieldFits
  <2> HIDE DEF info
  <2>3. VerifySessionInfo(info) => info = NewSessionInfo(info.content)
    BY <2>1, Zenon DEF VerifySessionInfo, NewSessionInfo
  <2>4. info = NewSessionInfo(info.content) => VerifySessionInfo(info)
    <3> DEFINE new == NewSessionInfo(info.content)
    <3>1. /\ new.crc1 = Crc1 /\ new.crc2 = Crc2 /\ new.alwaysOne = 1 /\ new.alwaysZero = 0
          /\ new.padding = Zeros(PaddingSize)
      BY Zenon DEF NewSessionInfo
    <3> HIDE DEF new
    <3> QED
      BY <3>1, Zenon DEF VerifySessionInfo, new
  <2> QED
    BY <2>2, <2>3, <2>4 DEF info
<1>5. \A f \in DOMAIN item.raw \ {"dataLength", "data", "name", "info"} : FieldFits(item, f)
  BY DEF FieldFits
<1> QED
  BY <1>1, <1>2, <1>3, <1>4, <1>5, Zenon DEF WellFormed, FitsFormat

(* A field is read as it is meant, and valid when it fits. *)
LEMMA FieldIsRead ==
  ASSUME NEW item, IsItem(item), NEW f \in DOMAIN item.raw, NEW length \in Nat,
         "data" \in DOMAIN item.raw => length = Len(item.raw.data),
         NEW bytes, NEW pos, PlacedAt(bytes, pos, RawField(item.raw, f))
  PROVE  /\ CanRead(bytes, pos, FieldSize(f, length))
         /\ ReadField(bytes, pos, f, length) = Meaning(item).fields[f]
         /\ IsValid(bytes, pos, f, length) <=> FieldFits(item, f)
<1> DEFINE raw == item.raw
<1>1. CanRead(bytes, pos, FieldSize(f, length))
  <2>1. Len(RawField(item.raw, f)) = FieldSize(f, length)
    BY PartsHaveSizes
  <2> QED
    BY <2>1 DEF CanRead, PlacedAt
<1>2. Meaning(item).fields[f] =
        CASE f \in {"data", "name"} -> Text(raw, f)
          [] f = "info" -> [raw.info EXCEPT !.content[3] = GameRelease]
          [] OTHER -> raw[f]
  <2>1. Meaning(item).fields =
          [field \in DOMAIN item.raw |->
             CASE field \in {"data", "name"} -> Text(item.raw, field)
               [] field = "info" -> [item.raw.info EXCEPT !.content[3] = GameRelease]
               [] OTHER -> item.raw[field]]
    BY DEF Meaning
  <2> QED
    BY <2>1
<1>3. CASE f = "data"
  <2> DEFINE data == raw.data
             n == length - 1
  <2>1. data \in Seq(Byte) /\ length = Len(data) /\ PlacedAt(bytes, pos, data)
    BY <1>3, FieldTypes DEF RawField
  <2> HIDE DEF data
  <2>2. ReadBytes(bytes, pos, n) = SubSeq(data, 1, n)
    <3>1. n \in Int /\ n <= Len(data)
      BY <2>1
    <3> HIDE DEF n
    <3> QED
      BY <2>1, <3>1, PartIsRead
  <2>3. Text(raw, "data") = DecodeString(SubSeq(data, 1, n))
    BY <2>1 DEF Text, data
  <2>4. ReadField(bytes, pos, f, length) = Text(raw, "data")
    BY <1>3, <2>2, <2>3 DEF ReadField
  <2>5. Meaning(item).fields[f] = Text(raw, "data")
    BY <1>2, <1>3
  <2>6. length = 0 <=> data = <<>>
    BY <2>1, EmptySeq
  <2>7. length # 0 => bytes[pos + length] = Last(data)
    <3> SUFFICES ASSUME length # 0 PROVE bytes[pos + length] = Last(data)
      OBVIOUS
    <3>1. length \in 1 .. Len(data)
      BY <2>1
    <3>2. bytes[pos + length] = data[length]
      BY <2>1, <3>1 DEF PlacedAt
    <3> QED
      BY <2>1, <3>2 DEF Last
  <2>8. IsValid(bytes, pos, f, length)
          <=> \/ length = 0
              \/ bytes[pos + length] = 0 /\ Len(Text(raw, "data")) <= MaxDataLength
    BY <1>3, <2>4 DEF IsValid
  <2>9. FieldFits(item, f)
          <=> \/ data = <<>>
              \/ Last(data) = 0 /\ Len(Text(raw, "data")) <= MaxDataLength
    BY <1>3 DEF FieldFits, data
  <2> HIDE DEF raw, n
  <2>10. IsValid(bytes, pos, f, length) <=> FieldFits(item, f)
    BY <2>6, <2>7, <2>8, <2>9, Zenon
  <2> QED
    BY <1>1, <2>4, <2>5, <2>10
<1>4. CASE f = "name"
  <2>1. raw.name \in Seq(Byte \ {0}) /\ Len(raw.name) <= MaxNameLength
    BY <1>4, FieldTypes
  <2>2. PlacedAt(bytes, pos, NameBytes(raw.name))
    BY <1>4 DEF RawField
  <2>3. UpToZero(ReadBytes(bytes, pos, MaxNameLength)) = raw.name
    BY <2>1, <2>2, NameIsRead
  <2>4. ReadField(bytes, pos, f, length) = Text(raw, "name")
    BY <1>4, <2>3 DEF ReadField, Text
  <2>5. Meaning(item).fields[f] = Text(raw, "name")
    BY <1>2, <1>4
  <2>6. IsValid(bytes, pos, f, length) <=> FieldFits(item, f)
    BY <1>4, <2>4 DEF IsValid, FieldFits
  <2> QED
    BY <1>1, <2>4, <2>5, <2>6
<1>5. CASE f = "info"
  <2>1. raw.info \in InfoRecords
    BY <1>5, FieldTypes
  <2>2. PlacedAt(bytes, pos, InfoBytes(raw.info))
    BY <1>5 DEF RawField
  <2>3. ReadInfo(bytes, pos) = raw.info
    BY <2>1, <2>2, InfoIsRead
  <2>4. ReadField(bytes, pos, f, length) = [raw.info EXCEPT !.content[3] = GameRelease]
    BY <1>5, <2>3 DEF ReadField
  <2>5. Meaning(item).fields[f] = [raw.info EXCEPT !.content[3] = GameRelease]
    BY <1>2, <1>5
  <2>6. IsValid(bytes, pos, f, length) <=> FieldFits(item, f)
    BY <1>5, <2>3 DEF IsValid, FieldFits
  <2> QED
    BY <1>1, <2>4, <2>5, <2>6
<1>6. CASE f \notin {"data", "name", "info"}
  <2>1. raw[f] \in Word
    BY <1>6, FieldTypes
  <2>2. PlacedAt(bytes, pos, WriteLe(raw[f]))
    BY <1>6 DEF RawField
  <2>3. ReadLe(bytes, pos) = raw[f]
    <3> DEFINE n == raw[f]
    <3>1. n \in Word /\ PlacedAt(bytes, pos, WriteLe(n))
      BY <2>1, <2>2
    <3> HIDE DEF n
    <3> QED
      BY <3>1, PlacedWordIsRead DEF n
  <2>4. ReadField(bytes, pos, f, length) = raw[f]
    BY <1>6, <2>3 DEF ReadField
  <2>5. Meaning(item).fields[f] = raw[f]
    BY <1>2, <1>6
  <2>6. IsValid(bytes, pos, f, length) <=> FieldFits(item, f)
    BY <1>6, <2>3 DEF IsValid, FieldFits
  <2> QED
    BY <1>1, <2>4, <2>5, <2>6
<1> QED
  BY <1>3, <1>4, <1>5, <1>6

(* readFrom reads an item that stands alone as it is meant, or finds it    *)
(* malformed.                                                              *)
LEMMA ItemIsRead ==
  ASSUME NEW item, IsItem(item)
  PROVE  IF WellFormed(item)
         THEN ReadFrom(WireBytes(item)) = [status |-> "complete", size |-> Len(WireBytes(item)),
                                           packet |-> Meaning(item)]
         ELSE ReadFrom(WireBytes(item)).status = "error"
<1> DEFINE bytes   == WireBytes(item)
           present == DOMAIN item.raw
           code    == item.code
           given   == LengthIn(bytes, present)
           length  == IF "data" \in present THEN Len(item.raw.data) ELSE given
           read    == ReadFields(bytes, code, present)
           fits(f) == FieldFits(item, f)
<1>1. present \in SUBSET Fields /\ ("data" \in present => "dataLength" \in present)
  BY DEF IsItem, Fields
<1>2. given \in Nat /\ length \in Nat /\ ("data" \in present => length = Len(item.raw.data))
  <2>1. given \in Nat
    BY LengthIsNumber
  <2>2. "data" \in present => Len(item.raw.data) \in Nat
    BY FieldTypes, LenProperties
  <2> QED
    BY <2>1, <2>2
<1> HIDE DEF given, length
<1>3. /\ bytes \in Seq(Byte) /\ Len(bytes) = HeaderSize + TotalSize(present, length)
      /\ ReadLe(bytes, 0) = code /\ FlaggedIn(bytes) = present
      /\ \A f \in present :
           PlacedAt(bytes, Position(present, f, length), RawField(item.raw, f))
  BY <1>2, WireIs
<1>4. ASSUME NEW f \in present
      PROVE  /\ CanRead(bytes, Position(present, f, length), FieldSize(f, length))
             /\ ReadField(bytes, Position(present, f, length), f, length)
                  = Meaning(item).fields[f]
             /\ IsValid(bytes, Position(present, f, length), f, length) <=> fits(f)
  <2> DEFINE pos == Position(present, f, length)
  <2>1. PlacedAt(bytes, pos, RawField(item.raw, f))
    BY <1>3
  <2> HIDE DEF pos, bytes
  <2> QED
    BY <1>2, <2>1, FieldIsRead DEF pos
<1>5. ReadFrom(bytes) = IF PacketCodeExists(code) THEN read ELSE [status |-> "error"]
  <2>1. CanRead(bytes, 0, HeaderSize)
    <3>1. TotalSize(present, length) \in Nat
      BY <1>1, <1>2, SizesAreNumbers
    <3> HIDE DEF bytes, present
    <3> QED
      BY <1>3, <3>1 DEF CanRead, HeaderSize
  <2> HIDE DEF bytes, present, code
  <2> QED
    BY <1>3, <2>1 DEF ReadFrom, FlaggedIn
<1>6. WellFormed(item) <=> PacketCodeExists(code) /\ \A f \in present : fits(f)
  BY WellFormedIs
<1>7. \A f \in present : f = "dataLength" \/ f \in Before("dataLength") =>
        /\ \A n : Position(present, f, n) = Position(present, f, length)
        /\ \A n : FieldSize(f, n) = FieldSize(f, length)
        /\ \A n, pos : Status(bytes, pos, f, n) = Status(bytes, pos, f, length)
  <2> SUFFICES ASSUME NEW f \in present, f = "dataLength" \/ f \in Before("dataLength")
               PROVE  /\ \A n : Position(present, f, n) = Position(present, f, length)
                      /\ \A n : FieldSize(f, n) = FieldSize(f, length)
                      /\ \A n, pos : Status(bytes, pos, f, n) = Status(bytes, pos, f, length)
    OBVIOUS
  <2>1. f # "data" /\ "data" \notin Before(f)
    BY <1>1, DataAreLater
  <2>2. \A n : Position(present, f, n) = Position(present, f, length)
    BY <2>1, LengthMovesLaterFields
  <2>3. \A n : FieldSize(f, n) = FieldSize(f, length)
    BY <2>1 DEF FieldSize
  <2>4. \A n, pos : ReadField(bytes, pos, f, n) = ReadField(bytes, pos, f, length)
    BY <2>1 DEF ReadField
  <2>5. \A n, pos : IsValid(bytes, pos, f, n) = IsValid(bytes, pos, f, length)
    BY <2>1, <2>4 DEF IsValid
  <2> QED
    BY <2>2, <2>3, <2>5 DEF Status
<1>8. "dataLength" \in present =>
        given = IF fits("dataLength") THEN item.raw.dataLength ELSE 0
  <2> SUFFICES ASSUME "dataLength" \in present
               PROVE  given = IF fits("dataLength") THEN item.raw.dataLength ELSE 0
    OBVIOUS
  <2> DEFINE start == Position(present, "dataLength", length)
  <2>1. Position(present, "dataLength", 0) = start
    BY <1>7
  <2>2. Status(bytes, start, "dataLength", 0) = Status(bytes, start, "dataLength", length)
    BY <1>7
  <2>3. /\ CanRead(bytes, start, FieldSize("dataLength", length))
        /\ ReadField(bytes, start, "dataLength", length) = Meaning(item).fields["dataLength"]
        /\ IsValid(bytes, start, "dataLength", length) <=> fits("dataLength")
    BY <1>4
  <2>4. ReadLe(bytes, start) = item.raw.dataLength
    BY <2>3 DEF ReadField, Meaning
  <2> HIDE DEF start, bytes, fits
  <2>5. Status(bytes, start, "dataLength", length) = "complete" <=> fits("dataLength")
    BY <2>3 DEF Status
  <2> QED
    BY <2>1, <2>2, <2>4, <2>5 DEF LengthIn, given
<1>9. CASE "dataLength" \in present /\ ~ fits("dataLength")
  <2>1. FieldStatus(bytes, present, "dataLength") = "error"
    <3>1. FieldStatus(bytes, present, "dataLength")
            = Status(bytes, Position(present, "dataLength", length), "dataLength", length)
      BY <1>7, <1>9 DEF FieldStatus
    <3> HIDE DEF bytes, fits, present
    <3> QED
      BY <1>4, <1>9, <3>1 DEF Status
  <2>2. ASSUME NEW f \in present, f \in Before("dataLength")
        PROVE  FieldStatus(bytes, present, f) # "partial"
    <3>1. FieldStatus(bytes, present, f)
            = Status(bytes, Position(present, f, length), f, length)
      BY <1>7, <2>2 DEF FieldStatus
    <3> HIDE DEF bytes, fits, present
    <3> QED
      BY <1>4, <3>1 DEF Status
  <2>3. Stops(bytes, present) # {} /\ "dataLength" \in Stops(bytes, present)
    BY <1>9, <2>1 DEF Stops
  <2> DEFINE first == FirstStop(bytes, present)
  <2>4. first \in Stops(bytes, present) /\ Stops(bytes, present) \cap Before(first) = {}
    BY <1>1, <2>3, FirstStopIs
  <2>5. first \in present /\ FieldStatus(bytes, present, first) # "complete"
    BY <2>4 DEF Stops
  <2>6. first = "dataLength" \/ first \in Before("dataLength")
    <3>1. first \in Fields /\ "dataLength" \in Fields
      BY <1>1, <1>9, <2>5
    <3>2. "dataLength" \notin Before(first)
      BY <2>3, <2>4
    <3> HIDE DEF first
    <3> QED
      BY <3>1, <3>2, OrderIsStrict
  <2>7. FieldStatus(bytes, present, first) = "error"
    <3> HIDE DEF first
    <3>1. FieldStatus(bytes, present, first) # "partial"
      BY <2>1, <2>2, <2>5, <2>6
    <3> QED
      BY <2>5, <3>1 DEF FieldStatus, Status
  <2>8. read = [status |-> "error"]
    <3> HIDE DEF bytes, present, code
    <3> QED
      BY <1>1, <2>3, <2>7, ReadFieldsIs
  <2>9. ~ WellFormed(item)
    BY <1>6, <1>9
  <2> QED
    BY <1>5, <2>8, <2>9
<1>10. CASE "dataLength" \in present => fits("dataLength")
  <2>1. given = length
    <3>1. "data" \in present => given = Len(item.raw.data)
      <4>1. "data" \in present => item.raw.dataLength = Len(item.raw.data)
        BY DEF IsItem
      <4> QED
        BY <1>1, <1>8, <1>10, <4>1
    <3> QED
      BY <3>1 DEF length
  <2>2. ASSUME NEW f \in present
        PROVE  /\ FieldStatus(bytes, present, f) = IF fits(f) THEN "complete" ELSE "error"
               /\ ReadField(bytes, Position(present, f, given), f, given)
                    = Meaning(item).fields[f]
    <3>1. FieldStatus(bytes, present, f)
            = Status(bytes, Position(present, f, length), f, length)
      BY <2>1 DEF FieldStatus, given
    <3> HIDE DEF bytes, fits, present
    <3>2. Status(bytes, Position(present, f, length), f, length)
            = IF fits(f) THEN "complete" ELSE "error"
      BY <1>4 DEF Status
    <3> QED
      BY <1>4, <2>1, <3>1, <3>2
  <2>3. CASE \A f \in present : fits(f)
    <3>1. Stops(bytes, present) = {}
      BY <2>2, <2>3 DEF Stops
    <3>2. [f \in present |-> ReadField(bytes, Position(present, f, given), f, given)]
            = Meaning(item).fields
      <4>1. Meaning(item).fields = [f \in present |-> Meaning(item).fields[f]]
        BY DEF Meaning
      <4> QED
        BY <2>2, <4>1
    <3>3. read = [status |-> "complete",
                  size   |-> HeaderSize + TotalSize(present, given),
                  packet |-> [code   |-> code,
                              fields |-> [f \in present |->
                                            ReadField(bytes, Position(present, f, given),
                                                      f, given)]]]
      <4> HIDE DEF bytes, present, code
      <4> QED
        BY <1>1, <3>1, ReadFieldsIs DEF given
    <3>4. [code |-> code, fields |-> Meaning(item).fields] = Meaning(item)
      BY DEF Meaning
    <3>5. read = [status |-> "complete", size |-> Len(bytes), packet |-> Meaning(item)]
      <4> HIDE DEF bytes, present, code, read
      <4> QED
        BY <1>3, <2>1, <3>2, <3>3, <3>4
    <3> HIDE DEF bytes, present, code, read, fits
    <3>6. WellFormed(item) => PacketCodeExists(code)
      BY <1>6
    <3>7. PacketCodeExists(code) => WellFormed(item)
      BY <1>6, <2>3
    <3>8. IF WellFormed(item)
          THEN ReadFrom(bytes) = [status |-> "complete", size |-> Len(bytes),
                                  packet |-> Meaning(item)]
          ELSE ReadFrom(bytes).status = "error"
      <4>1. CASE PacketCodeExists(code)
        BY <1>5, <3>5, <3>7, <4>1
      <4>2. CASE ~ PacketCodeExists(code)
        BY <1>5, <3>6, <4>2
      <4> QED
        BY <4>1, <4>2
    <3> QED
      BY <3>8 DEF bytes
  <2>4. CASE \E f \in present : ~ fits(f)
    <3>1. Stops(bytes, present) # {}
      BY <2>2, <2>4 DEF Stops
    <3> DEFINE first == FirstStop(bytes, present)
    <3>2. first \in Stops(bytes, present)
      BY <1>1, <3>1, FirstStopIs
    <3>3. FieldStatus(bytes, present, first) = "error"
      <4> HIDE DEF first
      <4>1. first \in present /\ FieldStatus(bytes, present, first) # "complete"
        BY <3>2 DEF Stops
      <4> HIDE DEF bytes, fits, present
      <4> QED
        BY <2>2, <4>1
    <3>4. read = [status |-> "error"]
      <4> HIDE DEF bytes, present, code
      <4> QED
        BY <1>1, <3>1, <3>3, ReadFieldsIs
    <3>5. ~ WellFormed(item)
      BY <1>6, <2>4
    <3> QED
      BY <1>5, <3>4, <3>5
  <2> QED
    BY <2>3, <2>4
<1> QED
  BY <1>9, <1>10

(* The items of the scripts and their bytes. *)
LEMMA ItemsAre ==
  ASSUME NEW item \in Items
  PROVE  /\ IsItem(item) /\ Wire[item] = WireBytes(item)
         /\ Wire[item] \in Seq(Byte) /\ Len(Wire[item]) \in Nat
<1>1. IsItem(item) /\ Wire[item] = WireBytes(item)
  BY ReceiverAssumption DEF Wire
<1> DEFINE length == IF "data" \in DOMAIN item.raw THEN Len(item.raw.data) ELSE 0
<1>2. length \in Nat /\ ("data" \in DOMAIN item.raw => length = Len(item.raw.data))
  BY <1>1, FieldTypes, LenProperties
<1> HIDE DEF length
<1>3. WireBytes(item) \in Seq(Byte)
  BY <1>1, <1>2, WireIs
<1> QED
  BY <1>1, <1>3, LenProperties

-----------------------------------------------------------------------------
(* What the handlers send on, read again. *)

(* Constants the server writes. *)
LEMMA ZeroAndOne == 0 \in Word /\ 1 \in Word /\ 0 \in Byte /\ 1 \in Byte /\ 5 \in Byte
<1>1. 0 \in Byte /\ 1 \in Byte /\ 5 \in Byte
  BY DEF Byte
<1>2. 0 \in Word /\ 1 \in Word
  BY SMT DEF Word
<1> QED
  BY <1>1, <1>2

(* Nothing encodes to nothing. *)
LEMMA NothingEncoded == EncodeString(<<>>) = <<>>
<1> DEFINE none == <<>>
<1>1. none \in Seq(Byte) /\ Len(none) = 0
  BY EmptySeq
<1>2. DecodeString(none) = none
  BY NothingDecoded
<1> HIDE DEF none
<1>3. EncodeString(DecodeString(none)) = Shown(none)
  BY <1>1, TextComesBack
<1>4. Shown(none) \in Seq(Byte) /\ Len(Shown(none)) = Len(none)
  BY <1>1, ShownIs
<1>5. Shown(none) = none
  BY <1>1, <1>4, EmptySeq
<1> QED
  BY <1>2, <1>3, <1>5 DEF none

(* The text of data, without the zero at their end. *)
SaidIn(data) == SubSeq(data, 1, Len(data) - 1)

(* It is a text, and no longer than the data. *)
LEMMA SaidIs ==
  ASSUME NEW data \in Seq(Byte)
  PROVE  /\ SaidIn(data) \in Seq(Byte)
         /\ Len(SaidIn(data)) = IF data = <<>> THEN 0 ELSE Len(data) - 1
         /\ \A i \in 1 .. Len(SaidIn(data)) : i \in 1 .. Len(data) /\ SaidIn(data)[i] = data[i]
<1>1. Len(data) \in Nat /\ (Len(data) = 0 <=> data = <<>>)
  BY EmptySeq, LenProperties
<1>2. CASE data = <<>>
  <2>1. SaidIn(data) = <<>>
    BY <1>1, <1>2, SubSeqEmpty DEF SaidIn
  <2> DEFINE said == SaidIn(data)
  <2>2. said \in Seq(Byte) /\ Len(said) = 0
    BY <2>1, EmptySeq
  <2> HIDE DEF said
  <2>3. \A i \in 1 .. Len(said) : FALSE
    BY <2>2
  <2> QED
    BY <1>2, <2>2, <2>3 DEF said
<1>3. CASE data # <<>>
  <2> DEFINE M == Len(data) - 1
             S == Byte
  <2>1. M \in 0 .. Len(data) /\ data \in Seq(S)
    BY <1>1, <1>3
  <2>2. SaidIn(data) = SubSeq(data, 1, M)
    BY DEF SaidIn
  <2> HIDE DEF M, S
  <2>3. /\ SaidIn(data) \in Seq(S) /\ Len(SaidIn(data)) = M
        /\ \A i \in 1 .. M : i \in 1 .. Len(data) /\ SaidIn(data)[i] = data[i]
    BY <2>1, <2>2, FrontIs
  <2> QED
    BY <1>3, <2>3 DEF M, S
<1> QED
  BY <1>2, <1>3

(* Up to their first zero, data and their text are the same. *)
LEMMA SameCut ==
  ASSUME NEW data \in Seq(Byte), data = <<>> \/ Last(data) = 0
  PROVE  /\ UpToZero(SaidIn(data)) = UpToZero(data)
         /\ data # <<>> => Len(UpToZero(data)) + 1 <= Len(data)
         /\ data = <<>> => UpToZero(data) = <<>>
<1> DEFINE said == SaidIn(data)
           S == Byte
<1>0. data \in Seq(S) /\ Len(data) \in Nat
  BY LenProperties
<1>1. /\ said \in Seq(S) /\ Len(said) = IF data = <<>> THEN 0 ELSE Len(data) - 1
      /\ \A i \in 1 .. Len(said) : i \in 1 .. Len(data) /\ said[i] = data[i]
  BY SaidIs
<1> HIDE DEF said
<1>2. CASE data = <<>>
  <2>1. said = <<>>
    BY <1>1, <1>2, EmptySeq
  <2>2. <<>> \in Seq(Byte \ {0})
    BY EmptySeq
  <2>3. UpToZero(<<>>) = <<>>
    BY <2>2, WholeIsKept
  <2> QED
    BY <1>2, <2>1, <2>3 DEF said
<1>3. CASE data # <<>>
  <2>1. Len(data) # 0 /\ data[Len(data)] = 0
    BY <1>0, <1>3, EmptySeq DEF Last
  <2>2. PICK M \in 0 .. Len(data) : CutAt(data, M)
    BY CutExists
  <2>3. M \in 0 .. Len(said) /\ M \in Nat
    <3>1. M # Len(data)
      <4>1. Len(data) \in 1 .. Len(data)
        BY <1>0, <2>1
      <4> QED
        BY <2>1, <2>2, <4>1 DEF CutAt
    <3> QED
      BY <1>0, <1>1, <1>3, <2>1, <3>1
  <2>4. CutAt(said, M)
    <3>1. \A i \in 1 .. M : i \in 1 .. Len(said) /\ said[i] # 0
      <4>1. \A i \in 1 .. M : i \in 1 .. Len(said)
        BY <2>3, <1>0, <1>1, <1>3
      <4> QED
        BY <1>1, <2>2, <4>1 DEF CutAt
    <3>2. M # Len(said) => said[M + 1] = 0
      <4> SUFFICES ASSUME M # Len(said) PROVE said[M + 1] = 0
        OBVIOUS
      <4>1. M + 1 \in 1 .. Len(said) /\ M # Len(data)
        BY <1>0, <1>1, <1>3, <2>1, <2>3
      <4> QED
        BY <1>1, <2>2, <4>1 DEF CutAt
    <3> QED
      BY <2>3, <3>1, <3>2 DEF CutAt
  <2>5. UpToZero(data) = SubSeq(data, 1, M)
    BY <2>2, CutIs
  <2>6. UpToZero(said) = SubSeq(said, 1, M)
    BY <1>1, <2>3, <2>4, CutIs DEF S
  <2> DEFINE a == SubSeq(data, 1, M)
             b == SubSeq(said, 1, M)
  <2>7. a \in Seq(S) /\ Len(a) = M /\ \A i \in 1 .. M : a[i] = data[i]
    <3> HIDE DEF S
    <3> QED
      BY <1>0, FrontIs
  <2>8. b \in Seq(S) /\ Len(b) = M /\ \A i \in 1 .. M : i \in 1 .. Len(said) /\ b[i] = said[i]
    <3> HIDE DEF S
    <3> QED
      BY <1>1, <2>3, FrontIs
  <2> HIDE DEF a, b, S
  <2>9. \A i \in 1 .. Len(a) : a[i] = b[i]
    BY <1>1, <2>7, <2>8
  <2>10. a = b
    BY <2>7, <2>8, <2>9, SeqEqual
  <2>11. M + 1 <= Len(data)
    BY <1>0, <1>1, <1>3, <2>1, <2>3
  <2> QED
    BY <1>3, <2>5, <2>6, <2>7, <2>10, <2>11 DEF a, b, said
<1> QED
  BY <1>2, <1>3

(* A text with a zero behind it. *)
LEMMA WithZero ==
  ASSUME NEW text \in Seq(Byte)
  PROVE  /\ text \o <<0>> \in Seq(Byte) /\ Len(text \o <<0>>) = Len(text) + 1
         /\ Last(text \o <<0>>) = 0 /\ SaidIn(text \o <<0>>) = text
<1> DEFINE S == Byte
           zero == <<0>>
           all == text \o zero
           n == Len(text)
<1>1. text \in Seq(S) /\ n \in Nat
  BY LenProperties
<1>2. zero \in Seq(S) /\ Len(zero) = 1 /\ zero[1] = 0
  BY DEF Byte
<1> HIDE DEF S, zero
<1>3. /\ all \in Seq(S) /\ Len(all) = Len(text) + Len(zero)
      /\ \A i \in 1 .. Len(text) + Len(zero) :
           all[i] = IF i <= Len(text) THEN text[i] ELSE zero[i - Len(text)]
  BY <1>1, <1>2, ConcatProperties
<1> HIDE DEF all, n
<1>4. Len(all) = n + 1 /\ \A i \in 1 .. n + 1 : all[i] = IF i <= n THEN text[i] ELSE zero[i - n]
  BY <1>2, <1>3 DEF n
<1>5. all[n + 1] = 0
  <2>1. n + 1 \in 1 .. n + 1 /\ ~ (n + 1 <= n) /\ (n + 1) - n = 1
    BY <1>1
  <2> QED
    BY <1>2, <1>4, <2>1
<1>6. SaidIn(all) = text
  <2> DEFINE a == SubSeq(all, 1, n)
  <2>1. (n + 1) - 1 = n /\ n \in 0 .. Len(all) /\ \A i \in 1 .. n : i \in 1 .. n + 1 /\ i <= n
    BY <1>1, <1>4
  <2>2. SaidIn(all) = a
    BY <1>4, <2>1 DEF SaidIn
  <2>3. a \in Seq(S) /\ Len(a) = n /\ \A i \in 1 .. n : a[i] = all[i]
    BY <1>3, <2>1, FrontIs
  <2> HIDE DEF a
  <2>4. \A i \in 1 .. Len(a) : a[i] = text[i]
    BY <1>4, <2>1, <2>3
  <2>5. a = text
    BY <1>1, <2>3, <2>4, SeqEqual DEF n
  <2> QED
    BY <2>2, <2>5
<1> QED
  BY <1>3, <1>4, <1>5, <1>6 DEF all, zero, S, n, Last

(* A name as it is sent on: the characters that come back, in its place.   *)
LEMMA NameSentOn ==
  ASSUME NEW item, IsItem(item), WellFormed(item), "name" \in DOMAIN item.raw
  PROVE  LET name == Text(item.raw, "name")
         IN /\ Meaning(item).fields.name = name /\ UpToZero(name) = name
            /\ EncodeString(name) = Shown(item.raw.name)
            /\ Shown(item.raw.name) \in Seq(Byte \ {0})
            /\ Len(Shown(item.raw.name)) <= MaxNameLength
            /\ Len(DecodeString(Shown(item.raw.name))) <= MaxNameLength
<1> DEFINE raw == item.raw.name
<1>1. /\ raw \in Seq(Byte \ {0}) /\ Len(raw) <= MaxNameLength
      /\ Len(DecodeString(raw)) <= MaxNameLength
  BY FieldTypes, Zenon DEF WellFormed, Text
<1>2. Text(item.raw, "name") = DecodeString(raw)
  BY DEF Text
<1>3. Meaning(item).fields.name = Text(item.raw, "name")
  BY DEF Meaning
<1> HIDE DEF raw
<1>4. raw \in Seq(Byte) /\ UpToZero(raw) = raw
  BY <1>1, WholeIsKept
<1>5. UpToZero(DecodeString(raw)) = DecodeString(raw)
  BY <1>4, DecodedIsCut
<1>6. EncodeString(DecodeString(raw)) = Shown(raw)
  BY <1>4, TextComesBack
<1>7. Shown(raw) \in Seq(Byte \ {0}) /\ Len(Shown(raw)) = Len(raw)
  BY <1>1, ShownHasNoZero
<1>8. Len(DecodeString(Shown(raw))) <= MaxNameLength
  <2>1. Len(DecodeString(Shown(raw))) <= Len(DecodeString(raw))
    BY <1>4, ShownNoLonger
  <2>2. Shown(raw) \in Seq(Byte)
    BY <1>7, WholeIsKept
  <2>3. DecodeString(Shown(raw)) \in Seq(Byte) /\ DecodeString(raw) \in Seq(Byte)
    BY <1>4, <2>2, DecodedIs
  <2>4. Len(DecodeString(Shown(raw))) \in Nat /\ Len(DecodeString(raw)) \in Nat
    BY <2>3, LenProperties
  <2> QED
    BY <1>1, <2>1, <2>4, CodecAssumption
<1> QED
  BY <1>1, <1>2, <1>3, <1>5, <1>6, <1>7, <1>8 DEF raw

(* A chat line as it is sent on: up to its first zero.                     *)
LEMMA LineSentOn ==
  ASSUME NEW item, IsItem(item), WellFormed(item), "data" \in DOMAIN item.raw
  PROVE  LET line  == UpToZero(Meaning(item).fields.data)
             shown == Shown(UpToZero(item.raw.data))
         IN /\ EncodeString(line) = shown /\ shown \in Seq(Byte)
            /\ Len(shown) + 1 \in 0 .. MaxDataLength /\ Len(shown) + 1 \in Word
            /\ Len(DecodeString(shown)) <= MaxDataLength
<1> DEFINE data == item.raw.data
           said == SaidIn(data)
           cut  == UpToZero(data)
<1>1. /\ data \in Seq(Byte) /\ (data = <<>> \/ Last(data) = 0)
      /\ "dataLength" \in DOMAIN item.raw /\ item.raw.dataLength = Len(data)
  <2>1. data \in Seq(Byte)
    BY FieldTypes
  <2>2. data = <<>> \/ Last(data) = 0
    BY Zenon DEF WellFormed, FitsFormat
  <2> QED
    BY <2>1, <2>2, Zenon DEF IsItem
<1>2. Len(data) \in 0 .. MaxDataLength /\ Len(DecodeString(said)) <= MaxDataLength
  <2>1. item.raw.dataLength \in 0 .. MaxDataLength
    BY <1>1, Zenon DEF WellFormed, FitsFormat
  <2>2. Len(Text(item.raw, "data")) <= MaxDataLength
    BY Zenon DEF WellFormed
  <2>3. Text(item.raw, "data") = DecodeString(said)
    BY DEF Text, SaidIn
  <2> QED
    BY <1>1, <2>1, <2>2, <2>3
<1>3. Meaning(item).fields.data = DecodeString(said)
  BY DEF Meaning, Text, SaidIn
<1> HIDE DEF data
<1>4. /\ UpToZero(said) = cut /\ (data # <<>> => Len(cut) + 1 <= Len(data))
      /\ (data = <<>> => cut = <<>>)
  BY <1>1, SameCut
<1>5. said \in Seq(Byte)
  BY <1>1, SaidIs
<1>6. cut \in Seq(Byte \ {0}) /\ cut \in Seq(Byte)
  BY <1>1, CutHasNoZero, WholeIsKept
<1> HIDE DEF said, cut
<1>7. /\ UpToZero(DecodeString(said)) = DecodeString(cut)
      /\ Len(DecodeString(cut)) <= Len(DecodeString(said))
  BY <1>4, <1>5, DecodedIsCut
<1>8. EncodeString(DecodeString(cut)) = Shown(cut)
  BY <1>6, TextComesBack
<1>9. Shown(cut) \in Seq(Byte) /\ Len(Shown(cut)) = Len(cut)
  BY <1>6, ShownIs
<1>10. Len(Shown(cut)) + 1 \in 0 .. MaxDataLength
  <2>1. Len(cut) \in Nat /\ Len(data) \in Nat /\ MaxDataLength \in Nat /\ 1 <= MaxDataLength
    BY <1>1, <1>6, LenProperties, CodecAssumption
  <2>2. CASE data = <<>>
    <3>1. Len(cut) = 0
      BY <1>4, <2>2, EmptySeq
    <3> QED
      BY <1>9, <2>1, <3>1
  <2>3. CASE data # <<>>
    BY <1>2, <1>4, <1>9, <2>1, <2>3
  <2> QED
    BY <2>2, <2>3
<1>11. Len(Shown(cut)) + 1 \in Word
  <2>1. Len(data) \in Word
    <3>1. "dataLength" \in DOMAIN item.raw \ {"data", "name", "info"}
      BY <1>1
    <3>2. item.raw.dataLength \in Word
      BY <3>1 DEF IsItem
    <3> QED
      BY <1>1, <3>2
  <2>2. Len(cut) \in Nat /\ Len(data) \in Nat
    BY <1>1, <1>6, LenProperties
  <2>3. CASE data = <<>>
    <3>1. Len(cut) = 0
      BY <1>4, <2>3, EmptySeq
    <3>2. Len(Shown(cut)) + 1 = 1
      BY <1>9, <3>1
    <3> QED
      BY <3>2, ZeroAndOne
  <2>4. CASE data # <<>>
    <3> DEFINE n == Len(cut) + 1
               m == Len(data)
    <3>1. n \in Nat /\ n <= m /\ m \in Word /\ m \in Nat
      BY <1>4, <2>1, <2>2, <2>4
    <3>2. Len(Shown(cut)) + 1 = n
      BY <1>9
    <3> HIDE DEF n, m
    <3>3. n \in Word
      <4>1. n \in Int /\ n >= 0 /\ m <= 2147483647
        BY <3>1 DEF Word
      <4>2. n <= 2147483647
        BY SMT, <3>1, <4>1
      <4>3. -2147483647 - 1 <= n
        BY SMT, <4>1
      <4> QED
        BY SMT, <4>1, <4>2, <4>3 DEF Word
    <3> QED
      BY <3>2, <3>3
  <2> QED
    BY <2>3, <2>4
<1>12. Len(DecodeString(Shown(cut))) <= MaxDataLength
  <2>1. Len(DecodeString(Shown(cut))) <= Len(DecodeString(cut))
    BY <1>6, ShownNoLonger
  <2>2. /\ DecodeString(Shown(cut)) \in Seq(Byte) /\ DecodeString(cut) \in Seq(Byte)
        /\ DecodeString(said) \in Seq(Byte)
    BY <1>5, <1>6, <1>9, DecodedIs
  <2>3. /\ Len(DecodeString(Shown(cut))) \in Nat /\ Len(DecodeString(cut)) \in Nat
        /\ Len(DecodeString(said)) \in Nat /\ MaxDataLength \in Nat
    BY <2>2, LenProperties, CodecAssumption
  <2> QED
    BY <1>2, <1>7, <2>1, <2>3
<1> QED
  BY <1>3, <1>7, <1>8, <1>9, <1>10, <1>11, <1>12 DEF cut, data

(* The server's own SessionInfo is valid and has the nation it was made    *)
(* with, also once it is read.                                             *)
LEMMA OwnInfoIs ==
  ASSUME NEW info \in InfoRecords, NEW type \in Byte
  PROVE  LET own == OwnInfo(info, type)
         IN /\ own \in InfoRecords /\ VerifySessionInfo(own)
            /\ [own EXCEPT !.content[3] = GameRelease].content[1] = info.content[1]
            /\ OwnInfo([info EXCEPT !.content[3] = GameRelease], type) = own
<1> DEFINE content == <<info.content[1], 49, 49, type, 1>>
           own == OwnInfo(info, type)
           read == [info EXCEPT !.content[3] = GameRelease]
<1>1. info.content \in [1 .. 5 -> Byte] /\ info.content[1] \in Byte
  BY DEF InfoRecords
<1>2. content \in [1 .. 5 -> Byte] /\ content[1] = info.content[1]
  <2>1. 49 \in Byte /\ 1 \in Byte
    BY DEF Byte
  <2> QED
    BY <1>1, <2>1
<1>3. own = NewSessionInfo(content)
  BY DEF OwnInfo
<1>4. read.content[1] = info.content[1]
  <2>1. read.content = [info.content EXCEPT ![3] = GameRelease]
    BY DEF InfoRecords
  <2> QED
    BY <1>1, <2>1
<1>5. OwnInfo(read, type) = own
  <2> HIDE DEF read
  <2> QED
    BY <1>4 DEF OwnInfo
<1> HIDE DEF content, own, read
<1>6. /\ own = [crc1 |-> Crc1, crc2 |-> Crc2, content |-> content, alwaysOne |-> 1,
                alwaysZero |-> 0, padding |-> Zeros(PaddingSize)]
  BY <1>3 DEF NewSessionInfo
<1>7. own \in InfoRecords
  <2>1. Crc1 \in Word /\ Crc2 \in Word
    BY SMT DEF Crc1, Crc2, Word
  <2>2. 1 \in Byte /\ 0 \in Byte
    BY DEF Byte
  <2>3. Zeros(PaddingSize) \in [1 .. PaddingSize -> Byte]
    BY <2>2 DEF Zeros
  <2> QED
    BY <1>2, <1>6, <2>1, <2>2, <2>3, Zenon DEF InfoRecords
<1>8. VerifySessionInfo(own)
  BY <1>6, Zenon DEF VerifySessionInfo
<1>9. [own EXCEPT !.content[3] = GameRelease].content[1] = info.content[1]
  <2> DEFINE changed == [content EXCEPT ![3] = GameRelease]
  <2>1. changed[1] = content[1]
    BY <1>2
  <2>2. [own EXCEPT !.content[3] = GameRelease].content = changed
    BY <1>6
  <2> HIDE DEF changed
  <2> QED
    BY <1>2, <2>1, <2>2
<1> QED
  BY <1>5, <1>7, <1>8, <1>9 DEF own, read

(* A packet is laid out as an item. *)
LaysOut(packet, item) ==
  /\ packet.code = item.code /\ Announced(packet.fields) = DOMAIN item.raw
  /\ \A f \in DOMAIN item.raw : WriteField(packet.fields, f) = RawField(item.raw, f)

(* It is read as the item is meant. *)
LEMMA WrittenAs ==
  ASSUME NEW item, IsItem(item), WellFormed(item), NEW packet, LaysOut(packet, item)
  PROVE  ReadFrom(WriteTo(packet))
           = [status |-> "complete", size |-> Len(WriteTo(packet)), packet |-> Meaning(item)]
<1> DEFINE fields == packet.fields
           raw    == item.raw
<1>1. /\ packet.code = item.code /\ Announced(fields) = DOMAIN raw
      /\ \A f \in DOMAIN raw : WriteField(fields, f) = RawField(raw, f)
  BY DEF LaysOut
<1>2. "data" \in DOMAIN raw => "dataLength" \in DOMAIN raw
  BY Zenon DEF IsItem
<1>3. Announced(raw) = DOMAIN raw
  BY <1>2 DEF Announced
<1>4. WriteTo(packet) = WriteLe(packet.code) \o WriteLe(GetFlagsFromFields(fields))
                          \o LaidOut([f \in Announced(fields) |-> WriteField(fields, f)])
  BY DEF WriteTo
<1>5. WireBytes(item) = WriteLe(item.code) \o WriteLe(GetFlagsFromFields(raw))
                          \o LaidOut([f \in DOMAIN raw |-> RawField(raw, f)])
  BY DEF WireBytes
<1> HIDE DEF fields, raw
<1>6. GetFlagsFromFields(fields) = GetFlagsFromFields(raw)
  BY <1>1, <1>3 DEF GetFlagsFromFields
<1>7. [f \in Announced(fields) |-> WriteField(fields, f)] = [f \in DOMAIN raw |-> RawField(raw, f)]
  BY <1>1
<1>8. WriteTo(packet) = WireBytes(item)
  BY <1>1, <1>4, <1>5, <1>6, <1>7
<1> QED
  BY <1>8, ItemIsRead

(* A login or a new room as the other clients are told of it. *)
NamedEcho(item) ==
  [code |-> item.code,
   raw  |-> [value1 |-> NewId, value4 |-> 0, name |-> Shown(item.raw.name),
             info |-> OwnInfo(item.raw.info, 5)]]

RoomEcho(item) ==
  [code |-> item.code,
   raw  |-> [value1 |-> NewId, value4 |-> 0, dataLength |-> 1, data |-> <<0>>,
             name |-> Shown(item.raw.name), info |-> OwnInfo(item.raw.info, 1)]]

ChatEcho(item) ==
  [code |-> item.code,
   raw  |-> [value0 |-> item.raw.value0, value3 |-> item.raw.value3,
             dataLength |-> Len(Shown(UpToZero(item.raw.data))) + 1,
             data |-> Shown(UpToZero(item.raw.data)) \o <<0>>]]

(* The name and the SessionInfo of an item as the other clients are sent   *)
(* them.                                                                   *)
LEMMA IntroducedAs ==
  ASSUME NEW item, IsItem(item), WellFormed(item), {"name", "info"} \subseteq DOMAIN item.raw,
         NEW type \in Byte
  PROVE  /\ Meaning(item).fields.name = UpToZero(Meaning(item).fields.name)
         /\ EncodeString(Meaning(item).fields.name) = Shown(item.raw.name)
         /\ Shown(item.raw.name) \in Seq(Byte \ {0})
         /\ Len(Shown(item.raw.name)) <= MaxNameLength
         /\ Len(DecodeString(Shown(item.raw.name))) <= MaxNameLength
         /\ OwnInfo(Meaning(item).fields.info, type) = OwnInfo(item.raw.info, type)
         /\ OwnInfo(item.raw.info, type) \in InfoRecords
         /\ VerifySessionInfo(OwnInfo(item.raw.info, type))
         /\ [OwnInfo(item.raw.info, type) EXCEPT !.content[3] = GameRelease].content[1]
              = item.raw.info.content[1]
<1>1. "name" \in DOMAIN item.raw /\ "info" \in DOMAIN item.raw
  OBVIOUS
<1>2. item.raw.info \in InfoRecords
  BY <1>1, FieldTypes
<1>3. Meaning(item).fields.info = [item.raw.info EXCEPT !.content[3] = GameRelease]
  BY <1>1 DEF Meaning
<1> DEFINE info == item.raw.info
           own  == OwnInfo(info, type)
           name == Text(item.raw, "name")
<1>4. /\ Meaning(item).fields.name = name /\ UpToZero(name) = name
      /\ EncodeString(name) = Shown(item.raw.name)
      /\ Shown(item.raw.name) \in Seq(Byte \ {0})
      /\ Len(Shown(item.raw.name)) <= MaxNameLength
      /\ Len(DecodeString(Shown(item.raw.name))) <= MaxNameLength
  <2> HIDE DEF name
  <2> QED
    BY <1>1, NameSentOn DEF name
<1> HIDE DEF info
<1>5. /\ own \in InfoRecords /\ VerifySessionInfo(own)
      /\ [own EXCEPT !.content[3] = GameRelease].content[1] = info.content[1]
      /\ OwnInfo([info EXCEPT !.content[3] = GameRelease], type) = own
  BY <1>2, OwnInfoIs DEF info
<1> HIDE DEF own, name
<1> QED
  BY <1>3, <1>4, <1>5 DEF own, info

(* The three packets that carry text. *)
LEMMA ForwardedIs ==
  ASSUME NEW packet
  PROVE  LET read == packet.fields
         IN /\ Forwarded(packet).code = packet.code
            /\ packet.code = ChatRoom =>
                 Forwarded(packet).fields
                   = [value0 |-> read.value0, value3 |-> read.value3, data |-> UpToZero(read.data)]
            /\ packet.code = Login =>
                 Forwarded(packet).fields
                   = [value1 |-> NewId, value4 |-> 0, name |-> UpToZero(read.name),
                      info |-> OwnInfo(read.info, 5)]
            /\ packet.code = CreateRoom =>
                 Forwarded(packet).fields
                   = [value1 |-> NewId, value4 |-> 0, data |-> <<>>, name |-> read.name,
                      info |-> OwnInfo(read.info, 1)]
<1> DEFINE read == packet.fields
           chat == [value0 |-> read.value0, value3 |-> read.value3, data |-> UpToZero(read.data)]
           user == [value1 |-> NewId, value4 |-> 0, name |-> UpToZero(read.name),
                    info |-> OwnInfo(read.info, 5)]
           room == [value1 |-> NewId, value4 |-> 0, data |-> <<>>, name |-> read.name,
                    info |-> OwnInfo(read.info, 1)]
           code == packet.code
<1>1. Forwarded(packet)
        = [code |-> code, fields |-> CASE code = ChatRoom -> chat
                                       [] code = Login -> user
                                       [] code = CreateRoom -> room]
  BY DEF Forwarded
<1>2. ChatRoom # Login /\ ChatRoom # CreateRoom /\ Login # CreateRoom
  BY DEF ChatRoom, Login, CreateRoom
<1> HIDE DEF chat, user, room, code
<1>3. /\ Forwarded(packet).code = code
      /\ code = ChatRoom => Forwarded(packet).fields = chat
      /\ code = Login => Forwarded(packet).fields = user
      /\ code = CreateRoom => Forwarded(packet).fields = room
  BY <1>1, <1>2
<1> QED
  BY <1>3 DEF chat, user, room, code

(* An item with no data, and with a name and a SessionInfo that fit. *)
IsEcho(echo) ==
  /\ echo.code \in Word /\ PacketCodeExists(echo.code)
  /\ DOMAIN echo.raw \subseteq DOMAIN PacketFlags
  /\ {"name", "info"} \subseteq DOMAIN echo.raw
  /\ \A f \in DOMAIN echo.raw \ {"data", "name", "info"} : echo.raw[f] \in Word
  /\ "data" \in DOMAIN echo.raw =>
       /\ echo.raw.data = <<0>>
       /\ "dataLength" \in DOMAIN echo.raw /\ echo.raw.dataLength = 1
  /\ "dataLength" \in DOMAIN echo.raw => "data" \in DOMAIN echo.raw
  /\ echo.raw.name \in Seq(Byte \ {0}) /\ Len(echo.raw.name) <= MaxNameLength
  /\ Len(DecodeString(echo.raw.name)) <= MaxNameLength
  /\ echo.raw.info \in InfoRecords /\ VerifySessionInfo(echo.raw.info)

(* It is a packet, and a good one. *)
LEMMA EchoFits ==
  ASSUME NEW echo, IsEcho(echo)
  PROVE  IsItem(echo) /\ WellFormed(echo)
<1> USE DEF IsEcho
<1>1. <<0>> \in Seq(Byte) /\ Len(<<0>>) = 1 /\ Last(<<0>>) = 0
  BY ZeroAndOne DEF Last
<1>2. IsItem(echo)
  BY <1>1, Zenon DEF IsItem, InfoRecords
<1>3. ASSUME NEW f \in DOMAIN echo.raw PROVE FieldFits(echo, f)
  <2>1. CASE f = "dataLength"
    <3>1. 1 \in 0 .. MaxDataLength
      BY CodecAssumption
    <3> QED
      BY <2>1, <3>1 DEF FieldFits
  <2>2. CASE f = "data"
    <3>1. echo.raw.data = <<0>>
      BY <2>2
    <3>2. Text(echo.raw, "data") = DecodeString(SaidIn(<<0>>))
      BY <3>1 DEF Text, SaidIn
    <3>3. SaidIn(<<0>>) = <<>>
      BY <1>1, SubSeqEmpty DEF SaidIn
    <3>4. Len(Text(echo.raw, "data")) <= MaxDataLength
      BY <3>2, <3>3, NothingDecoded, CodecAssumption
    <3> QED
      BY <1>1, <2>2, <3>1, <3>4 DEF FieldFits
  <2>3. CASE f = "name"
    BY <2>3 DEF FieldFits, Text
  <2>4. CASE f = "info"
    BY <2>4 DEF FieldFits
  <2>5. CASE f \notin {"dataLength", "data", "name", "info"}
    BY <2>5 DEF FieldFits
  <2> QED
    BY <2>1, <2>2, <2>3, <2>4, <2>5
<1> QED
  BY <1>2, <1>3, WellFormedIs

(* The other clients are told of a login: *)
LEMMA LoginIsToldOf ==
  ASSUME NEW item, IsItem(item), WellFormed(item), IsLogin(Meaning(item))
  PROVE  LET bytes == WriteTo(Forwarded(Meaning(item)))
         IN ReadFrom(bytes)
              = [status |-> "complete", size |-> Len(bytes), packet |-> Meaning(NamedEcho(item))]
<1> DEFINE packet == Forwarded(Meaning(item))
           read   == Meaning(item).fields
           name   == Shown(item.raw.name)
           own    == OwnInfo(item.raw.info, 5)
           echo   == NamedEcho(item)
<1>1. item.code = Login /\ {"name", "info"} \subseteq DOMAIN item.raw
  BY DEF IsLogin, Meaning
<1>2. /\ UpToZero(read.name) = read.name /\ EncodeString(read.name) = name
      /\ name \in Seq(Byte \ {0}) /\ Len(name) <= MaxNameLength
      /\ Len(DecodeString(name)) <= MaxNameLength
      /\ OwnInfo(read.info, 5) = own /\ own \in InfoRecords /\ VerifySessionInfo(own)
  BY <1>1, IntroducedAs, ZeroAndOne
<1>3. /\ packet.code = item.code
      /\ packet.fields = [value1 |-> NewId, value4 |-> 0, name |-> read.name, info |-> own]
  <2>1. Meaning(item).code = Login
    BY <1>1 DEF Meaning
  <2>2. packet.fields = [value1 |-> NewId, value4 |-> 0, name |-> UpToZero(read.name),
                         info |-> OwnInfo(read.info, 5)]
    BY <2>1, ForwardedIs
  <2>3. packet.code = item.code
    BY ForwardedIs DEF Meaning
  <2> HIDE DEF own, name, read, packet
  <2> QED
    BY <1>2, <2>2, <2>3
<1>4. /\ echo.code = item.code
      /\ echo.raw = [value1 |-> NewId, value4 |-> 0, name |-> name, info |-> own]
  BY DEF NamedEcho
<1> HIDE DEF packet, read, name, own, echo
<1>5. /\ DOMAIN echo.raw = {"value1", "value4", "name", "info"}
      /\ echo.raw.value1 = NewId /\ echo.raw.value4 = 0
      /\ echo.raw.name = name /\ echo.raw.info = own
  BY <1>4
<1>6. /\ DOMAIN packet.fields = {"value1", "value4", "name", "info"}
      /\ packet.fields.value1 = NewId /\ packet.fields.value4 = 0
      /\ packet.fields.name = read.name /\ packet.fields.info = own
  BY <1>3
<1>7. IsItem(echo) /\ WellFormed(echo)
  <2>1. item.code \in Word /\ PacketCodeExists(item.code)
    BY Zenon DEF IsItem, WellFormed, FitsFormat
  <2>2. DOMAIN echo.raw \subseteq DOMAIN PacketFlags
    BY <1>5 DEF PacketFlags
  <2>3. \A f \in DOMAIN echo.raw \ {"data", "name", "info"} : echo.raw[f] \in Word
    BY <1>5, ReceiverAssumption, ZeroAndOne
  <2>4. "data" \notin DOMAIN echo.raw /\ "dataLength" \notin DOMAIN echo.raw
    BY <1>5
  <2> QED
    BY <1>2, <1>4, <1>5, <2>1, <2>2, <2>3, <2>4, EchoFits DEF IsEcho
<1>8. LaysOut(packet, echo)
  <2>1. Announced(packet.fields) = DOMAIN echo.raw
    BY <1>5, <1>6 DEF Announced
  <2>2. ASSUME NEW f \in DOMAIN echo.raw PROVE WriteField(packet.fields, f) = RawField(echo.raw, f)
    <3>1. CASE f = "value1"
      BY <1>5, <1>6, <3>1 DEF WriteField, RawField
    <3>2. CASE f = "value4"
      BY <1>5, <1>6, <3>2 DEF WriteField, RawField
    <3>3. CASE f = "name"
      BY <1>2, <1>5, <1>6, <3>3 DEF WriteField, RawField
    <3>4. CASE f = "info"
      BY <1>5, <1>6, <3>4 DEF WriteField, RawField
    <3> QED
      BY <1>5, <3>1, <3>2, <3>3, <3>4
  <2> QED
    BY <1>3, <1>4, <2>1, <2>2 DEF LaysOut
<1> QED
  BY <1>7, <1>8, WrittenAs DEF packet, echo

(* They are told of a new room: *)
LEMMA RoomIsToldOf ==
  ASSUME NEW item, IsItem(item), WellFormed(item), IsNewRoom(Meaning(item))
  PROVE  LET bytes == WriteTo(Forwarded(Meaning(item)))
         IN ReadFrom(bytes)
              = [status |-> "complete", size |-> Len(bytes), packet |-> Meaning(RoomEcho(item))]
<1> DEFINE packet == Forwarded(Meaning(item))
           read   == Meaning(item).fields
           name   == Shown(item.raw.name)
           own    == OwnInfo(item.raw.info, 1)
           echo   == RoomEcho(item)
<1>1. item.code = CreateRoom /\ {"name", "info"} \subseteq DOMAIN item.raw
  BY DEF IsNewRoom, Meaning
<1>2. /\ EncodeString(read.name) = name
      /\ name \in Seq(Byte \ {0}) /\ Len(name) <= MaxNameLength
      /\ Len(DecodeString(name)) <= MaxNameLength
      /\ OwnInfo(read.info, 1) = own /\ own \in InfoRecords /\ VerifySessionInfo(own)
  BY <1>1, IntroducedAs, ZeroAndOne
<1>3. /\ packet.code = item.code
      /\ packet.fields = [value1 |-> NewId, value4 |-> 0, data |-> <<>>, name |-> read.name,
                          info |-> own]
  <2>1. Meaning(item).code = CreateRoom
    BY <1>1 DEF Meaning
  <2>2. packet.fields = [value1 |-> NewId, value4 |-> 0, data |-> <<>>, name |-> read.name,
                         info |-> OwnInfo(read.info, 1)]
    BY <2>1, ForwardedIs
  <2>3. packet.code = item.code
    BY ForwardedIs DEF Meaning
  <2> HIDE DEF own, name, read, packet
  <2> QED
    BY <1>2, <2>2, <2>3
<1>4. /\ echo.code = item.code
      /\ echo.raw = [value1 |-> NewId, value4 |-> 0, dataLength |-> 1, data |-> <<0>>,
                     name |-> name, info |-> own]
  BY DEF RoomEcho
<1> HIDE DEF packet, read, name, own, echo
<1>5. /\ DOMAIN echo.raw = {"value1", "value4", "dataLength", "data", "name", "info"}
      /\ echo.raw.value1 = NewId /\ echo.raw.value4 = 0
      /\ echo.raw.dataLength = 1 /\ echo.raw.data = <<0>>
      /\ echo.raw.name = name /\ echo.raw.info = own
  BY <1>4
<1>6. /\ DOMAIN packet.fields = {"value1", "value4", "data", "name", "info"}
      /\ packet.fields.value1 = NewId /\ packet.fields.value4 = 0
      /\ packet.fields.data = <<>>
      /\ packet.fields.name = read.name /\ packet.fields.info = own
  BY <1>3
<1>7. IsItem(echo) /\ WellFormed(echo)
  <2>1. item.code \in Word /\ PacketCodeExists(item.code)
    BY Zenon DEF IsItem, WellFormed, FitsFormat
  <2>2. DOMAIN echo.raw \subseteq DOMAIN PacketFlags
    BY <1>5 DEF PacketFlags
  <2>3. \A f \in DOMAIN echo.raw \ {"data", "name", "info"} : echo.raw[f] \in Word
    BY <1>5, ReceiverAssumption, ZeroAndOne
  <2> QED
    BY <1>2, <1>4, <1>5, <2>1, <2>2, <2>3, EchoFits DEF IsEcho
<1>8. LaysOut(packet, echo)
  <2>1. Announced(packet.fields) = DOMAIN echo.raw
    BY <1>5, <1>6 DEF Announced
  <2>2. EncodeString(<<>>) = <<>>
    BY NothingEncoded
  <2>3. ASSUME NEW f \in DOMAIN echo.raw PROVE WriteField(packet.fields, f) = RawField(echo.raw, f)
    <3>1. CASE f = "value1"
      BY <1>5, <1>6, <3>1 DEF WriteField, RawField
    <3>2. CASE f = "value4"
      BY <1>5, <1>6, <3>2 DEF WriteField, RawField
    <3>3. CASE f = "name"
      BY <1>2, <1>5, <1>6, <3>3 DEF WriteField, RawField
    <3>4. CASE f = "info"
      BY <1>5, <1>6, <3>4 DEF WriteField, RawField
    <3>5. CASE f = "data"
      <4>1. WriteField(packet.fields, f) = EncodeString(packet.fields.data) \o <<0>>
        BY <3>5 DEF WriteField
      <4>2. RawField(echo.raw, f) = echo.raw.data
        BY <3>5 DEF RawField
      <4>3. <<>> \o <<0>> = <<0>>
        OBVIOUS
      <4> QED
        BY <1>5, <1>6, <2>2, <4>1, <4>2, <4>3
    <3>6. CASE f = "dataLength"
      <4>1. Len(EncodeString(packet.fields.data)) + 1 = 1
        BY <1>6, <2>2
      <4>2. WriteField(packet.fields, f) = WriteLe(1)
        BY <1>6, <3>6, <4>1 DEF WriteField
      <4> QED
        BY <1>5, <3>6, <4>2 DEF RawField
    <3> QED
      BY <1>5, <3>1, <3>2, <3>3, <3>4, <3>5, <3>6
  <2> QED
    BY <1>3, <1>4, <2>1, <2>3 DEF LaysOut
<1> QED
  BY <1>7, <1>8, WrittenAs DEF packet, echo

(* And of what is said: *)
LEMMA ChatIsToldOf ==
  ASSUME NEW item, IsItem(item), WellFormed(item), IsChat(Meaning(item))
  PROVE  LET bytes == WriteTo(Forwarded(Meaning(item)))
         IN ReadFrom(bytes)
              = [status |-> "complete", size |-> Len(bytes), packet |-> Meaning(ChatEcho(item))]
<1> DEFINE packet == Forwarded(Meaning(item))
           read   == Meaning(item).fields
           shown  == Shown(UpToZero(item.raw.data))
           line   == UpToZero(read.data)
           echo   == ChatEcho(item)
<1>1. item.code = ChatRoom /\ {"value0", "value3", "data"} \subseteq DOMAIN item.raw
  BY DEF IsChat, Meaning
<1>2. /\ EncodeString(line) = shown /\ shown \in Seq(Byte)
      /\ Len(shown) + 1 \in 0 .. MaxDataLength /\ Len(shown) + 1 \in Word
      /\ Len(DecodeString(shown)) <= MaxDataLength
  BY <1>1, LineSentOn
<1>3. /\ packet.code = item.code
      /\ packet.fields = [value0 |-> read.value0, value3 |-> read.value3, data |-> line]
  <2>1. Meaning(item).code = ChatRoom
    BY <1>1 DEF Meaning
  <2>2. packet.code = item.code
    BY ForwardedIs DEF Meaning
  <2>3. packet.fields = [value0 |-> read.value0, value3 |-> read.value3, data |-> line]
    BY <2>1, ForwardedIs
  <2> QED
    BY <2>2, <2>3
<1>4. read.value0 = item.raw.value0 /\ read.value3 = item.raw.value3
  BY <1>1 DEF Meaning
<1>5. item.raw.value0 \in Word /\ item.raw.value3 \in Word
  BY <1>1, FieldTypes
<1>6. /\ echo.code = item.code
      /\ echo.raw = [value0 |-> item.raw.value0, value3 |-> item.raw.value3,
                     dataLength |-> Len(shown) + 1, data |-> shown \o <<0>>]
  BY DEF ChatEcho
<1>7. /\ shown \o <<0>> \in Seq(Byte) /\ Len(shown \o <<0>>) = Len(shown) + 1
      /\ Last(shown \o <<0>>) = 0 /\ SaidIn(shown \o <<0>>) = shown
  <2> HIDE DEF shown
  <2> QED
    BY <1>2, WithZero
<1> DEFINE data   == shown \o <<0>>
           length == Len(shown) + 1
<1>8. /\ data \in Seq(Byte) /\ Len(data) = length /\ Last(data) = 0 /\ data # <<>>
      /\ DecodeString(SaidIn(data)) = DecodeString(shown) /\ length \in Word
  <2> HIDE DEF shown
  <2>1. length \in Nat /\ length # 0
    BY <1>2, LenProperties
  <2>2. data \in Seq(Byte) /\ Len(data) = length /\ Last(data) = 0 /\ SaidIn(data) = shown
    BY <1>7
  <2>3. data # <<>>
    <3> HIDE DEF data, length
    <3> QED
      BY <2>1, <2>2, EmptySeq
  <2>4. length \in Word
    BY <1>2
  <2> HIDE DEF data, length
  <2> QED
    BY <2>2, <2>3, <2>4
<1> HIDE DEF packet, read, line, echo
<1>9. /\ DOMAIN echo.raw = {"value0", "value3", "dataLength", "data"}
      /\ echo.raw.value0 = item.raw.value0 /\ echo.raw.value3 = item.raw.value3
      /\ echo.raw.dataLength = length /\ echo.raw.data = data
  BY <1>6
<1>10. /\ DOMAIN packet.fields = {"value0", "value3", "data"}
       /\ packet.fields.value0 = item.raw.value0 /\ packet.fields.value3 = item.raw.value3
       /\ packet.fields.data = line
  BY <1>3, <1>4
<1>11. EncodeString(line) \o <<0>> = data /\ Len(EncodeString(line)) + 1 = length
  BY <1>2
<1>12. length \in 0 .. MaxDataLength /\ Len(DecodeString(shown)) <= MaxDataLength
  BY <1>2
<1> HIDE DEF data, length, shown
<1>13. IsItem(echo)
  <2>1. item.code \in Word
    BY DEF IsItem
  <2>2. DOMAIN echo.raw \subseteq DOMAIN PacketFlags
    BY <1>9 DEF PacketFlags
  <2>3. \A f \in DOMAIN echo.raw \ {"data", "name", "info"} : echo.raw[f] \in Word
    BY <1>5, <1>8, <1>9
  <2>4. "name" \notin DOMAIN echo.raw /\ "info" \notin DOMAIN echo.raw
    BY <1>9
  <2>5. echo.code \in Word
    BY <1>6, <2>1
  <2>6. "data" \in DOMAIN echo.raw =>
          /\ echo.raw.data \in Seq(Byte)
          /\ "dataLength" \in DOMAIN echo.raw /\ echo.raw.dataLength = Len(echo.raw.data)
    BY <1>8, <1>9
  <2> QED
    BY <2>2, <2>3, <2>4, <2>5, <2>6, Zenon DEF IsItem
<1>14. WellFormed(echo)
  <2>1. PacketCodeExists(echo.code)
    BY <1>6, Zenon DEF WellFormed, FitsFormat
  <2>2. ASSUME NEW f \in DOMAIN echo.raw PROVE FieldFits(echo, f)
    <3>1. CASE f = "dataLength"
      BY <1>9, <1>12, <3>1 DEF FieldFits
    <3>2. CASE f = "data"
      <4>1. Text(echo.raw, "data") = DecodeString(shown)
        BY <1>8, <1>9 DEF Text, SaidIn
      <4> QED
        BY <1>8, <1>9, <1>12, <3>2, <4>1 DEF FieldFits
    <3>3. CASE f \in {"value0", "value3"}
      BY <3>3 DEF FieldFits
    <3> QED
      BY <1>9, <3>1, <3>2, <3>3
  <2> QED
    BY <1>13, <2>1, <2>2, WellFormedIs
<1>15. LaysOut(packet, echo)
  <2>1. Announced(packet.fields) = DOMAIN echo.raw
    BY <1>9, <1>10 DEF Announced
  <2>2. ASSUME NEW f \in DOMAIN echo.raw PROVE WriteField(packet.fields, f) = RawField(echo.raw, f)
    <3>1. CASE f = "value0"
      BY <1>9, <1>10, <3>1 DEF WriteField, RawField
    <3>2. CASE f = "value3"
      BY <1>9, <1>10, <3>2 DEF WriteField, RawField
    <3>3. CASE f = "data"
      BY <1>9, <1>10, <1>11, <3>3 DEF WriteField, RawField
    <3>4. CASE f = "dataLength"
      BY <1>9, <1>10, <1>11, <3>4 DEF WriteField, RawField
    <3> QED
      BY <1>9, <3>1, <3>2, <3>3, <3>4
  <2> QED
    BY <1>3, <1>6, <2>1, <2>2 DEF LaysOut
<1> QED
  BY <1>13, <1>14, <1>15, WrittenAs DEF packet, echo

(* The other clients read it: the name and the nation, or the text.        *)
LEMMA ToldIsRead ==
  ASSUME NEW item, IsItem(item), WellFormed(item)
  PROVE  LET bytes == WriteTo(Forwarded(Meaning(item)))
             read  == ReadFrom(bytes)
         IN /\ IsLogin(Meaning(item)) \/ IsNewRoom(Meaning(item)) =>
                 /\ read.status = "complete" /\ read.size = Len(bytes)
                 /\ read.packet.fields.name = DecodeString(Shown(item.raw.name))
                 /\ read.packet.fields.info.content[1] = item.raw.info.content[1]
            /\ IsChat(Meaning(item)) =>
                 /\ read.status = "complete" /\ read.size = Len(bytes)
                 /\ read.packet.fields.data = DecodeString(Shown(UpToZero(item.raw.data)))
<1> DEFINE bytes == WriteTo(Forwarded(Meaning(item)))
           read  == ReadFrom(bytes)
<1>1. ASSUME IsLogin(Meaning(item)) \/ IsNewRoom(Meaning(item))
      PROVE  /\ read.status = "complete" /\ read.size = Len(bytes)
             /\ read.packet.fields.name = DecodeString(Shown(item.raw.name))
             /\ read.packet.fields.info.content[1] = item.raw.info.content[1]
  <2>1. {"name", "info"} \subseteq DOMAIN item.raw
    BY <1>1 DEF IsLogin, IsNewRoom, Meaning
  <2>2. ASSUME NEW echo, NEW type \in Byte, {"name", "info"} \subseteq DOMAIN echo.raw,
               echo.raw.name = Shown(item.raw.name), echo.raw.info = OwnInfo(item.raw.info, type)
        PROVE  /\ Meaning(echo).fields.name = DecodeString(Shown(item.raw.name))
               /\ Meaning(echo).fields.info.content[1] = item.raw.info.content[1]
    <3>1. Meaning(echo).fields.name = DecodeString(Shown(item.raw.name))
      BY <2>2 DEF Meaning, Text
    <3>2. Meaning(echo).fields.info = [OwnInfo(item.raw.info, type) EXCEPT !.content[3] = GameRelease]
      BY <2>2 DEF Meaning
    <3>3. [OwnInfo(item.raw.info, type) EXCEPT !.content[3] = GameRelease].content[1]
            = item.raw.info.content[1]
      BY <2>1, IntroducedAs
    <3> QED
      BY <3>1, <3>2, <3>3
  <2>3. CASE IsLogin(Meaning(item))
    <3> DEFINE echo == NamedEcho(item)
    <3>1. {"name", "info"} \subseteq DOMAIN echo.raw /\ echo.raw.name = Shown(item.raw.name)
          /\ echo.raw.info = OwnInfo(item.raw.info, 5)
      BY DEF NamedEcho
    <3>2. read = [status |-> "complete", size |-> Len(bytes), packet |-> Meaning(echo)]
      BY <2>3, LoginIsToldOf
    <3> HIDE DEF echo, bytes, read
    <3>3. /\ Meaning(echo).fields.name = DecodeString(Shown(item.raw.name))
          /\ Meaning(echo).fields.info.content[1] = item.raw.info.content[1]
      BY <2>2, <3>1, ZeroAndOne
    <3> QED
      BY <3>2, <3>3
  <2>4. CASE IsNewRoom(Meaning(item))
    <3> DEFINE echo == RoomEcho(item)
    <3>1. {"name", "info"} \subseteq DOMAIN echo.raw /\ echo.raw.name = Shown(item.raw.name)
          /\ echo.raw.info = OwnInfo(item.raw.info, 1)
      BY DEF RoomEcho
    <3>2. read = [status |-> "complete", size |-> Len(bytes), packet |-> Meaning(echo)]
      BY <2>4, RoomIsToldOf
    <3> HIDE DEF echo, bytes, read
    <3>3. /\ Meaning(echo).fields.name = DecodeString(Shown(item.raw.name))
          /\ Meaning(echo).fields.info.content[1] = item.raw.info.content[1]
      BY <2>2, <3>1, ZeroAndOne
    <3> QED
      BY <3>2, <3>3
  <2> QED
    BY <1>1, <2>3, <2>4
<1>2. ASSUME IsChat(Meaning(item))
      PROVE  /\ read.status = "complete" /\ read.size = Len(bytes)
             /\ read.packet.fields.data = DecodeString(Shown(UpToZero(item.raw.data)))
  <2> DEFINE echo  == ChatEcho(item)
             shown == Shown(UpToZero(item.raw.data))
  <2>1. "data" \in DOMAIN item.raw
    BY <1>2 DEF IsChat, Meaning
  <2>2. "data" \in DOMAIN echo.raw /\ echo.raw.data = shown \o <<0>>
    BY DEF ChatEcho
  <2>3. read = [status |-> "complete", size |-> Len(bytes), packet |-> Meaning(echo)]
    BY <1>2, ChatIsToldOf
  <2>4. shown \in Seq(Byte)
    BY <2>1, LineSentOn
  <2> HIDE DEF echo, shown, bytes, read
  <2>5. SaidIn(shown \o <<0>>) = shown
    BY <2>4, WithZero
  <2>6. Meaning(echo).fields.data = DecodeString(SaidIn(echo.raw.data))
    BY <2>2 DEF Meaning, Text, SaidIn
  <2> QED
    BY <2>2, <2>3, <2>5, <2>6 DEF shown
<1> QED
  BY <1>1, <1>2

-----------------------------------------------------------------------------
(* Sizes. *)

(* What the scripts are made of. *)
LEMMA ScriptItems ==
  ASSUME NEW s \in Scripts
  PROVE  /\ s \in Seq(Items) /\ Len(s) \in Nat \ {0} /\ DOMAIN s = 1 .. Len(s)
         /\ \A i \in 1 .. Len(s) :
              s[i] \in Items /\ Wire[s[i]] \in Seq(Byte) /\ Len(Wire[s[i]]) \in Nat
<1>1. s \in Seq(Items) /\ s # <<>>
  BY ReceiverAssumption
<1>2. Len(s) \in Nat \ {0} /\ DOMAIN s = 1 .. Len(s)
  BY <1>1, EmptySeq, LenProperties
<1>3. ASSUME NEW i \in 1 .. Len(s)
      PROVE  s[i] \in Items /\ Wire[s[i]] \in Seq(Byte) /\ Len(Wire[s[i]]) \in Nat
  <2>1. s[i] \in Items
    BY <1>1, ElementOfSeq
  <2>2. Wire[s[i]] \in Seq(Byte)
    BY <2>1, ItemsAre
  <2> QED
    BY <2>1, <2>2, LenProperties
<1> QED
  BY <1>1, <1>2, <1>3

(* The sizes of the first packets of a script are sums. *)
LEMMA SizesAreSums ==
  ASSUME NEW s \in Scripts
  PROVE  /\ Sizes[s] \in [0 .. Len(s) -> Nat]
         /\ Sizes[s][0] = 0
         /\ \A n \in 1 .. Len(s) : Sizes[s][n] = Sizes[s][n - 1] + Len(Wire[s[n]])
<1> DEFINE N == Len(s)
           len == [n \in 1 .. N |-> Len(Wire[s[n]])]
           Step(g) == [n \in 0 .. N |-> IF n = 0 THEN 0 ELSE g[n - 1] + Len(Wire[s[n]])]
<1>1. N \in Nat /\ len \in [1 .. N -> Nat]
  BY ScriptItems
<1>2. PICK g \in [0 .. N -> Nat] :
        /\ g[0] = 0
        /\ \A n \in 1 .. N : g[n] = g[n - 1] + len[n]
  <2> HIDE DEF N, len
  <2> QED
    BY <1>1, SumsExist
<1>3. g = Step(g)
  <2>1. ASSUME NEW n \in 0 .. N PROVE g[n] = Step(g)[n]
    BY <1>1, <1>2
  <2> QED
    BY <1>2, <2>1
<1>4. Sizes[s] = CHOOSE size : size = Step(size)
  BY DEF Sizes
<1>5. Sizes[s] = Step(Sizes[s])
  BY <1>3, <1>4
<1>6. /\ Sizes[s] = [n \in 0 .. N |-> Sizes[s][n]] /\ Sizes[s][0] = 0
      /\ \A n \in 1 .. N : Sizes[s][n] = Sizes[s][n - 1] + Len(Wire[s[n]])
  <2> DEFINE f == Sizes[s]
  <2>1. f = Step(f)
    BY <1>5
  <2> HIDE DEF f, N
  <2>2. /\ f = [n \in 0 .. N |-> f[n]] /\ f[0] = 0
        /\ \A n \in 1 .. N : f[n] = f[n - 1] + Len(Wire[s[n]])
    <3>1. f = [n \in 0 .. N |-> f[n]]
      BY <2>1
    <3>2. \A n \in 0 .. N : f[n] = IF n = 0 THEN 0 ELSE f[n - 1] + Len(Wire[s[n]])
      BY <2>1
    <3> QED
      BY <1>1, <3>1, <3>2
  <2> QED
    BY <2>2 DEF f
<1>7. \A n \in 0 .. N : Sizes[s][n] = g[n]
  <2> DEFINE Bad == {n \in 0 .. N : Sizes[s][n] # g[n]}
  <2> SUFFICES ASSUME Bad # {} PROVE FALSE
    OBVIOUS
  <2>1. Bad \in SUBSET Nat
    OBVIOUS
  <2>2. PICK n \in Bad : \A k \in Bad : n <= k
    <3> HIDE DEF Bad
    <3> QED
      BY <2>1, LeastNumber
  <2>3. n \in 0 .. N /\ Sizes[s][n] # g[n]
    OBVIOUS
  <2>4. n # 0 /\ n - 1 \in 0 .. N /\ n \in 1 .. N
    BY <1>1, <1>2, <1>6, <2>3
  <2>5. n - 1 \notin Bad
    <3> HIDE DEF Bad
    <3> QED
      BY <2>2, <2>4
  <2>6. Sizes[s][n - 1] = g[n - 1]
    BY <2>4, <2>5
  <2>7. len[n] = Len(Wire[s[n]])
    BY <2>4
  <2> QED
    BY <1>2, <1>6, <2>3, <2>4, <2>6, <2>7
<1>8. Sizes[s] = g
  <2> HIDE DEF N
  <2> QED
    BY <1>2, <1>6, <1>7
<1> QED
  BY <1>2, <1>6, <1>8

(* More packets are not fewer bytes. *)
LEMMA SizesGrow ==
  ASSUME NEW s \in Scripts, NEW m \in 0 .. Len(s), NEW n \in m .. Len(s)
  PROVE  Sizes[s][m] <= Sizes[s][n]
<1> DEFINE f == Sizes[s]
           N == Len(s)
           Bad == {k \in m .. N : ~ (f[m] <= f[k])}
<1>1. /\ N \in Nat /\ m \in Nat /\ m \in 0 .. N /\ n \in m .. N
      /\ \A k \in 1 .. N : Len(Wire[s[k]]) \in Nat
  BY ScriptItems
<1>2. f \in [0 .. N -> Nat] /\ \A k \in 1 .. N : f[k] = f[k - 1] + Len(Wire[s[k]])
  BY SizesAreSums
<1> HIDE DEF f, N
<1>3. Bad = {}
  <2> SUFFICES ASSUME Bad # {} PROVE FALSE
    OBVIOUS
  <2>1. Bad \in SUBSET Nat
    BY <1>1
  <2>2. PICK k \in Bad : \A j \in Bad : k <= j
    <3> HIDE DEF Bad
    <3> QED
      BY <2>1, LeastNumber
  <2>3. k \in m .. N /\ k \in 0 .. N /\ ~ (f[m] <= f[k])
    BY <1>1
  <2>4. k # m
    BY <1>1, <1>2, <2>3
  <2>5. k - 1 \in m .. N /\ k \in 1 .. N /\ k - 1 \in 0 .. N
    BY <1>1, <2>3, <2>4
  <2>6. k - 1 \notin Bad
    <3> HIDE DEF Bad
    <3> QED
      BY <2>2, <2>5
  <2>7. f[m] <= f[k - 1]
    BY <2>5, <2>6
  <2>8. f[k] = f[k - 1] + Len(Wire[s[k]])
    BY <1>2, <2>5
  <2>9. f[m] \in Nat /\ f[k] \in Nat /\ f[k - 1] \in Nat /\ Len(Wire[s[k]]) \in Nat
    BY <1>1, <1>2, <2>3, <2>5
  <2> QED
    BY <2>3, <2>7, <2>8, <2>9
<1>4. f[m] <= f[n]
  <2>1. n \notin Bad
    BY <1>3
  <2> QED
    BY <1>1, <2>1
<1> QED
  BY <1>4 DEF f

(* What is behind the first k bytes. *)
LEMMA BehindFirst ==
  ASSUME NEW bytes \in Seq(Byte), NEW k \in 0 .. Len(bytes)
  PROVE  /\ SubSeq(bytes, k + 1, Len(bytes)) \in Seq(Byte)
         /\ Len(SubSeq(bytes, k + 1, Len(bytes))) = Len(bytes) - k
         /\ \A i \in 1 .. Len(bytes) - k : SubSeq(bytes, k + 1, Len(bytes))[i] = bytes[k + i]
<1> DEFINE first == k + 1
           last  == Len(bytes)
           behind == SubSeq(bytes, first, last)
<1>1. /\ first \in Int /\ last \in Int /\ first >= 1 /\ k \in Nat /\ Len(bytes) \in Nat
      /\ \A i \in 1 .. Len(bytes) : bytes[i] \in Byte
  BY ElementOfSeq, LenProperties
<1>2. \A i \in first .. last : bytes[i] \in Byte
  BY <1>1
<1>3. last - first + 1 = Len(bytes) - k /\ \A i \in Nat : first + i - 1 = k + i
  BY <1>1
<1>4. IF first <= last THEN last - first + 1 = Len(bytes) - k ELSE Len(bytes) - k = 0
  BY <1>1
<1> HIDE DEF first, last
<1>5. /\ behind \in Seq(Byte)
      /\ Len(behind) = IF first <= last THEN last - first + 1 ELSE 0
      /\ \A i \in 1 .. last - first + 1 : behind[i] = bytes[first + i - 1]
  BY <1>1, <1>2, SubSeqProperties
<1> HIDE DEF behind
<1>6. Len(behind) = Len(bytes) - k
  BY <1>3, <1>4, <1>5
<1>7. \A i \in 1 .. Len(bytes) - k : behind[i] = bytes[k + i]
  BY <1>3, <1>5
<1> QED
  BY <1>5, <1>6, <1>7 DEF behind, first, last

(* Three runs of bytes, one behind the other. *)
LEMMA Regroup ==
  ASSUME NEW a \in Seq(Byte), NEW b \in Seq(Byte), NEW c \in Seq(Byte)
  PROVE  (a \o b) \o c = a \o (b \o c)
<1> DEFINE S == Byte
<1>1. a \in Seq(S) /\ b \in Seq(S) /\ c \in Seq(S)
  OBVIOUS
<1> HIDE DEF S
<1> QED
  BY <1>1, ConcatAssociative

(* What is appended leaves the first byte where it is. *)
LEMMA FirstStays ==
  ASSUME NEW front \in Seq(Byte), NEW back \in Seq(Byte), 1 <= Len(front)
  PROVE  /\ Len(front \o back) = Len(front) + Len(back)
         /\ (front \o back)[1] = front[1]
<1>1. 1 \in 1 .. Len(front) + Len(back)
  BY LenProperties
<1>2. /\ Len(front \o back) = Len(front) + Len(back)
      /\ \A i \in 1 .. Len(front) + Len(back) :
           (front \o back)[i] = IF i <= Len(front) THEN front[i] ELSE back[i - Len(front)]
  BY ConcatProperties
<1> QED
  BY <1>1, <1>2

-----------------------------------------------------------------------------
(* The stream ahead of the reader. *)

(* rest is what is left of the first m packets of s behind the first h. *)
Ahead(s, rest, h, m) ==
  /\ Len(rest) = Sizes[s][m] - Sizes[s][h]
  /\ \A i \in h + 1 .. m : \A k \in 1 .. Len(Wire[s[i]]) :
       rest[Sizes[s][i - 1] - Sizes[s][h] + k] = Wire[s[i]][k]

(* A byte of a packet lies inside the stream that holds the packet. *)
LEMMA InsideStream ==
  ASSUME NEW from \in Nat, NEW start \in Nat, NEW end \in Nat, NEW length \in Nat,
         NEW k \in 1 .. length, from <= start, start + length <= end
  PROVE  start - from + k \in 1 .. end - from
OBVIOUS

(* A packet more at the end of the stream. *)
LEMMA AheadSend ==
  ASSUME NEW s \in Scripts, NEW m \in 0 .. Len(s), m < Len(s), NEW h \in 0 .. m,
         NEW rest \in Seq(Byte), Ahead(s, rest, h, m)
  PROVE  Ahead(s, rest \o Wire[s[m + 1]], h, m + 1)
<1> DEFINE f == Sizes[s]
           N == Len(s)
           w == Wire[s[m + 1]]
           all == rest \o w
<1>1. /\ N \in Nat /\ m \in 0 .. N /\ m + 1 \in 1 .. N /\ h \in 0 .. m
      /\ w \in Seq(Byte) /\ Len(w) \in Nat /\ Len(rest) \in Nat
      /\ \A k \in 1 .. N : Len(Wire[s[k]]) \in Nat
  BY ScriptItems, LenProperties
<1>2. f \in [0 .. N -> Nat] /\ \A k \in 1 .. N : f[k] = f[k - 1] + Len(Wire[s[k]])
  BY SizesAreSums
<1>3. /\ Len(all) = Len(rest) + Len(w)
      /\ \A i \in 1 .. Len(rest) + Len(w) :
           all[i] = IF i <= Len(rest) THEN rest[i] ELSE w[i - Len(rest)]
  BY <1>1, ConcatProperties
<1>4. \A i, j \in 0 .. N : i <= j => f[i] <= f[j]
  <2>1. ASSUME NEW i \in 0 .. N, NEW j \in 0 .. N, i <= j PROVE j \in i .. N
    BY <1>1, <2>1
  <2> QED
    BY <2>1, SizesGrow
<1>5. Len(rest) = f[m] - f[h]
  BY DEF Ahead
<1>9. \A i \in h + 1 .. m : \A k \in 1 .. Len(Wire[s[i]]) :
        rest[f[i - 1] - f[h] + k] = Wire[s[i]][k]
  BY DEF Ahead
<1> HIDE DEF f, N, all
<1>6. f[m + 1] = f[m] + Len(w) /\ f[m] \in Nat /\ f[h] \in Nat /\ f[m + 1] \in Nat
  BY <1>1, <1>2
<1> HIDE DEF w
<1>7. Len(all) = f[m + 1] - f[h]
  BY <1>1, <1>3, <1>5, <1>6
<1>8. ASSUME NEW i \in h + 1 .. m + 1, NEW k \in 1 .. Len(Wire[s[i]])
      PROVE  all[f[i - 1] - f[h] + k] = Wire[s[i]][k]
  <2>1. CASE i = m + 1
    <3>1. k \in 1 .. Len(w) /\ Wire[s[i]] = w /\ i - 1 = m
      BY <1>1, <2>1 DEF w
    <3>2. f[i - 1] - f[h] + k = Len(rest) + k
      BY <1>5, <3>1
    <3>3. all[Len(rest) + k] = w[k]
      <4>1. Len(rest) + k \in 1 .. Len(rest) + Len(w) /\ ~ (Len(rest) + k <= Len(rest))
            /\ (Len(rest) + k) - Len(rest) = k
        BY <1>1, <3>1
      <4> QED
        BY <1>3, <4>1
    <3> QED
      BY <3>1, <3>2, <3>3
  <2>2. CASE i # m + 1
    <3>1. i \in h + 1 .. m /\ i \in 1 .. N /\ i - 1 \in 0 .. N /\ i \in 0 .. N
          /\ h <= i - 1 /\ i <= m /\ h \in 0 .. N /\ m \in 0 .. N
      BY <1>1, <2>2
    <3>2. f[i] = f[i - 1] + Len(Wire[s[i]]) /\ f[i] <= f[m] /\ f[h] <= f[i - 1]
      BY <1>2, <1>4, <3>1
    <3> DEFINE at == f[i - 1] - f[h] + k
    <3>3. at \in 1 .. Len(rest)
      <4>1. f[i - 1] \in Nat /\ f[i] \in Nat /\ Len(Wire[s[i]]) \in Nat
        BY <1>1, <1>2, <3>1
      <4>2. f[i - 1] + Len(Wire[s[i]]) <= f[m]
        BY <3>2
      <4>3. at \in 1 .. f[m] - f[h]
        BY <1>6, <3>2, <4>1, <4>2, InsideStream
      <4> QED
        BY <1>5, <4>3
    <3>4. rest[at] = Wire[s[i]][k]
      BY <1>9, <3>1
    <3> HIDE DEF at
    <3>5. all[at] = rest[at]
      BY <1>1, <1>3, <3>3
    <3> QED
      BY <3>4, <3>5 DEF at
  <2> QED
    BY <2>1, <2>2
<1> QED
  BY <1>7, <1>8 DEF Ahead, f, all, w

(* Behind the next packet the stream goes on. *)
LEMMA AheadHandle ==
  ASSUME NEW s \in Scripts, NEW m \in 0 .. Len(s), NEW h \in 0 .. m, h < m,
         NEW rest \in Seq(Byte), Ahead(s, rest, h, m)
  PROVE  Ahead(s, SubSeq(rest, Len(Wire[s[h + 1]]) + 1, Len(rest)), h + 1, m)
<1> DEFINE f == Sizes[s]
           N == Len(s)
           w == Wire[s[h + 1]]
           behind == SubSeq(rest, Len(w) + 1, Len(rest))
<1>1. /\ N \in Nat /\ m \in 0 .. N /\ h \in 0 .. m /\ h + 1 \in 1 .. N /\ h + 1 \in 0 .. N
      /\ w \in Seq(Byte) /\ Len(w) \in Nat /\ Len(rest) \in Nat
      /\ \A k \in 1 .. N : Len(Wire[s[k]]) \in Nat
  BY ScriptItems, LenProperties
<1>2. f \in [0 .. N -> Nat] /\ \A k \in 1 .. N : f[k] = f[k - 1] + Len(Wire[s[k]])
  BY SizesAreSums
<1>3. \A i, j \in 0 .. N : i <= j => f[i] <= f[j]
  <2>1. ASSUME NEW i \in 0 .. N, NEW j \in 0 .. N, i <= j PROVE j \in i .. N
    BY <1>1, <2>1
  <2> QED
    BY <2>1, SizesGrow
<1>4. Len(rest) = f[m] - f[h]
  BY DEF Ahead
<1>9. \A i \in h + 1 .. m : \A k \in 1 .. Len(Wire[s[i]]) :
        rest[f[i - 1] - f[h] + k] = Wire[s[i]][k]
  BY DEF Ahead
<1>5. /\ f[h + 1] = f[h] + Len(w) /\ f[h] \in Nat /\ f[h + 1] \in Nat /\ f[m] \in Nat
      /\ f[h + 1] <= f[m]
  <2> HIDE DEF f, N
  <2> QED
    BY <1>1, <1>2, <1>3
<1>6. /\ Len(behind) = Len(rest) - Len(w)
      /\ \A i \in 1 .. Len(rest) - Len(w) : behind[i] = rest[Len(w) + i]
  <2>1. Len(w) \in 0 .. Len(rest)
    <3> HIDE DEF f, N, w
    <3> QED
      BY <1>1, <1>4, <1>5
  <2> HIDE DEF w
  <2> QED
    BY <2>1, BehindFirst
<1> HIDE DEF f, N, behind, w
<1>7. Len(behind) = f[m] - f[h + 1]
  BY <1>1, <1>4, <1>5, <1>6
<1>8. ASSUME NEW i \in h + 1 + 1 .. m, NEW k \in 1 .. Len(Wire[s[i]])
      PROVE  behind[f[i - 1] - f[h + 1] + k] = Wire[s[i]][k]
  <2>1. i \in h + 1 .. m /\ i \in 1 .. N /\ i - 1 \in 0 .. N /\ i \in 0 .. N
        /\ h + 1 <= i - 1 /\ i <= m
    BY <1>1
  <2>2. /\ f[i] = f[i - 1] + Len(Wire[s[i]]) /\ f[i] <= f[m] /\ f[h + 1] <= f[i - 1]
        /\ f[i - 1] \in Nat /\ f[i] \in Nat /\ Len(Wire[s[i]]) \in Nat
    BY <1>1, <1>2, <1>3, <2>1
  <2> DEFINE at == f[i - 1] - f[h + 1] + k
             before == f[i - 1] - f[h] + k
  <2>3. at \in 1 .. Len(rest) - Len(w) /\ Len(w) + at = before
    <3>1. f[i - 1] + Len(Wire[s[i]]) <= f[m]
      BY <2>2
    <3>2. at \in 1 .. f[m] - f[h + 1]
      BY <1>5, <2>2, <3>1, InsideStream
    <3>3. Len(rest) - Len(w) = f[m] - f[h + 1]
      BY <1>1, <1>4, <1>5
    <3>4. k \in Nat
      BY <2>2
    <3>5. Len(w) + at = before
      <4>1. /\ Len(w) \in Nat /\ f[h] \in Nat /\ f[h + 1] = f[h] + Len(w)
            /\ f[i - 1] \in Nat
        BY <1>1, <1>5, <2>2
      <4> QED
        BY <3>4, <4>1
    <3> QED
      BY <3>2, <3>3, <3>5
  <2>4. rest[before] = Wire[s[i]][k]
    BY <1>9, <2>1
  <2> HIDE DEF at, before
  <2>5. behind[at] = rest[before]
    BY <1>6, <2>3
  <2> QED
    BY <2>4, <2>5 DEF at
<1> QED
  BY <1>7, <1>8 DEF Ahead, f, behind, w

(* The next packet is first, and without one there is nothing. *)
LEMMA AheadFirst ==
  ASSUME NEW s \in Scripts, NEW m \in 0 .. Len(s), NEW h \in 0 .. m,
         NEW rest \in Seq(Byte), Ahead(s, rest, h, m)
  PROVE  IF h < m THEN Extends(rest, Wire[s[h + 1]]) ELSE rest = <<>>
<1>1. /\ Len(s) \in Nat /\ Len(rest) \in Nat
      /\ \A k \in 1 .. Len(s) : Len(Wire[s[k]]) \in Nat
  BY ScriptItems, LenProperties
<1>2. /\ Sizes[s] \in [0 .. Len(s) -> Nat]
      /\ \A k \in 1 .. Len(s) : Sizes[s][k] = Sizes[s][k - 1] + Len(Wire[s[k]])
  BY SizesAreSums
<1>3. CASE h < m
  <2>1. h + 1 \in 1 .. Len(s) /\ h + 1 \in 0 .. Len(s) /\ m \in h + 1 .. Len(s)
        /\ h + 1 \in h + 1 .. m /\ (h + 1) - 1 = h /\ h \in 0 .. Len(s)
    BY <1>1, <1>3
  <2>2. Sizes[s][h + 1] <= Sizes[s][m]
    BY <2>1, SizesGrow
  <2>3. /\ Sizes[s][h] \in Nat /\ Sizes[s][h + 1] \in Nat /\ Sizes[s][m] \in Nat
        /\ Sizes[s][h + 1] = Sizes[s][h] + Len(Wire[s[h + 1]])
        /\ Len(Wire[s[h + 1]]) \in Nat
    BY <1>1, <1>2, <2>1
  <2>4. Len(Wire[s[h + 1]]) <= Len(rest)
    BY <2>2, <2>3 DEF Ahead
  <2>5. ASSUME NEW k \in 1 .. Len(Wire[s[h + 1]])
        PROVE  rest[k] = Wire[s[h + 1]][k]
    <3>1. rest[Sizes[s][(h + 1) - 1] - Sizes[s][h] + k] = Wire[s[h + 1]][k]
      BY <2>1 DEF Ahead
    <3>2. Sizes[s][(h + 1) - 1] - Sizes[s][h] + k = k
      BY <2>1, <2>3
    <3> QED
      BY <3>1, <3>2
  <2> QED
    BY <1>3, <2>4, <2>5 DEF Extends
<1>4. CASE ~ (h < m)
  <2>1. h = m /\ Sizes[s][h] \in Nat
    BY <1>1, <1>2, <1>4
  <2>2. Len(rest) = 0
    BY <2>1 DEF Ahead
  <2> QED
    BY <1>4, <2>2, EmptySeq
<1> QED
  BY <1>3, <1>4

-----------------------------------------------------------------------------
(* Buffers. *)

(* The bytes in the buffer and in the network are the same ones after a    *)
(* receive.                                                                *)
LEMMA ReceiveKeepsBytes ==
  ASSUME NEW held \in Seq(Byte), NEW coming \in Seq(Byte), NEW n \in 1 .. Len(coming)
  PROVE  /\ SubSeq(coming, 1, n) \in Seq(Byte)
         /\ SubSeq(coming, n + 1, Len(coming)) \in Seq(Byte)
         /\ held \o SubSeq(coming, 1, n) \in Seq(Byte)
         /\ (held \o SubSeq(coming, 1, n)) \o SubSeq(coming, n + 1, Len(coming))
              = held \o coming
         /\ Len(held \o SubSeq(coming, 1, n)) + Len(SubSeq(coming, n + 1, Len(coming)))
              = Len(held) + Len(coming)
<1> DEFINE front == SubSeq(coming, 1, n)
           back  == SubSeq(coming, n + 1, Len(coming))
<1>1. Len(coming) \in Nat /\ Len(held) \in Nat /\ n \in Nat /\ n >= 1 /\ n <= Len(coming)
  BY LenProperties
<1>2. \A i \in 1 .. Len(coming) : coming[i] \in Byte
  BY ElementOfSeq
<1>3. front \in Seq(Byte) /\ back \in Seq(Byte)
  <2>1. \A i \in 1 .. n : coming[i] \in Byte
    BY <1>1, <1>2
  <2>2. \A i \in n + 1 .. Len(coming) : coming[i] \in Byte
    BY <1>1, <1>2
  <2>3. 1 \in Int /\ n \in Int /\ n + 1 \in Int /\ Len(coming) \in Int
    BY <1>1
  <2> QED
    BY <2>1, <2>2, <2>3, SubSeqProperties
<1>4. front \o back = coming
  <2>1. /\ 1 \in 1 .. Len(coming) + 1 /\ n \in 1 - 1 .. Len(coming)
        /\ Len(coming) \in n .. Len(coming)
    BY <1>1
  <2>2. front \o back = SubSeq(coming, 1, Len(coming))
    BY <2>1, ConcatAdjacentSubSeq
  <2> QED
    BY <2>2, SubSeqFull
<1> HIDE DEF front, back
<1>5. (held \o front) \o back = held \o coming
  <2>1. (held \o front) \o back = held \o (front \o back)
    BY <1>3, Regroup
  <2> QED
    BY <1>4, <2>1
<1>6. Len(held \o front) + Len(back) = Len(held) + Len(coming) /\ held \o front \in Seq(Byte)
  <2>1. /\ Len(held \o front) = Len(held) + Len(front) /\ held \o front \in Seq(Byte)
        /\ Len(front \o back) = Len(front) + Len(back)
    BY <1>3, ConcatProperties
  <2>2. Len(front) \in Nat /\ Len(back) \in Nat
    BY <1>3, LenProperties
  <2> DEFINE all == held \o front
  <2>3. Len(all) = Len(held) + Len(front) /\ Len(coming) = Len(front) + Len(back)
    BY <1>4, <2>1
  <2> HIDE DEF all
  <2>4. Len(all) + Len(back) = Len(held) + Len(coming)
    BY <1>1, <2>2, <2>3
  <2> QED
    BY <2>1, <2>4 DEF all
<1> QED
  BY <1>3, <1>5, <1>6 DEF front, back

(* Taking bytes from the front of the buffer takes them from the front of  *)
(* all that is there.                                                      *)
LEMMA SkipKeepsBytes ==
  ASSUME NEW held \in Seq(Byte), NEW coming \in Seq(Byte), NEW k \in 0 .. Len(held)
  PROVE  /\ SubSeq(held, k + 1, Len(held)) \in Seq(Byte)
         /\ Len(SubSeq(held, k + 1, Len(held))) = Len(held) - k
         /\ SubSeq(held, k + 1, Len(held)) \o coming
              = SubSeq(held \o coming, k + 1, Len(held \o coming))
<1> DEFINE all  == held \o coming
           kept == SubSeq(held, k + 1, Len(held))
           left == SubSeq(all, k + 1, Len(all))
           both == kept \o coming
<1>1. Len(coming) \in Nat /\ Len(held) \in Nat /\ k \in Nat /\ k <= Len(held)
  BY LenProperties
<1>2. /\ all \in Seq(Byte) /\ Len(all) = Len(held) + Len(coming)
      /\ \A i \in 1 .. Len(held) + Len(coming) :
           all[i] = IF i <= Len(held) THEN held[i] ELSE coming[i - Len(held)]
  BY ConcatProperties
<1> HIDE DEF all
<1>3. /\ kept \in Seq(Byte) /\ Len(kept) = Len(held) - k
      /\ \A i \in 1 .. Len(held) - k : kept[i] = held[k + i]
  BY BehindFirst
<1>4. /\ left \in Seq(Byte) /\ Len(left) = Len(all) - k
      /\ \A i \in 1 .. Len(all) - k : left[i] = all[k + i]
  <2>1. k \in 0 .. Len(all)
    BY <1>1, <1>2
  <2> QED
    BY <1>2, <2>1, BehindFirst
<1> HIDE DEF kept, left
<1>5. /\ both \in Seq(Byte) /\ Len(both) = Len(kept) + Len(coming)
      /\ \A i \in 1 .. Len(kept) + Len(coming) :
           both[i] = IF i <= Len(kept) THEN kept[i] ELSE coming[i - Len(kept)]
  BY <1>3, ConcatProperties
<1> HIDE DEF both
<1>6. Len(both) = Len(left) /\ Len(both) = Len(held) - k + Len(coming)
  BY <1>1, <1>2, <1>3, <1>4, <1>5
<1>7. ASSUME NEW i \in 1 .. Len(both) PROVE both[i] = left[i]
  <2>1. /\ i \in Nat /\ i >= 1 /\ i <= Len(held) - k + Len(coming)
        /\ i \in 1 .. Len(kept) + Len(coming) /\ i \in 1 .. Len(all) - k
        /\ k + i \in 1 .. Len(held) + Len(coming)
    BY <1>1, <1>2, <1>3, <1>5, <1>6
  <2>2. left[i] = IF k + i <= Len(held) THEN held[k + i] ELSE coming[(k + i) - Len(held)]
    BY <1>2, <1>4, <2>1
  <2>3. CASE k + i <= Len(held)
    <3>1. i <= Len(kept) /\ i \in 1 .. Len(held) - k
      BY <1>1, <1>3, <2>1, <2>3
    <3> QED
      BY <1>3, <1>5, <2>1, <2>2, <2>3, <3>1
  <2>4. CASE ~ (k + i <= Len(held))
    <3>1. ~ (i <= Len(kept)) /\ i - Len(kept) = (k + i) - Len(held)
      BY <1>1, <1>3, <2>1, <2>4
    <3> QED
      BY <1>5, <2>1, <2>2, <2>4, <3>1
  <2> QED
    BY <2>3, <2>4
<1>8. both = left
  BY <1>4, <1>5, <1>6, <1>7, SeqEqual
<1> QED
  BY <1>3, <1>8 DEF both, left, kept, all

-----------------------------------------------------------------------------
(* Packets at the front of a buffer. *)

(* A buffer that agrees with a packet as far as both go: when the packet   *)
(* is there, or anything but "partial" is found, it is what is found in    *)
(* the packet alone.                                                       *)
LEMMA FirstPacket ==
  ASSUME NEW packet \in Seq(Byte), NEW held \in Seq(Byte),
         \A i \in 1 .. Len(packet) : i <= Len(held) => held[i] = packet[i],
         ReadFrom(packet).status # "partial",
         Len(packet) <= Len(held) \/ ReadFrom(held).status # "partial"
  PROVE  ReadFrom(held) = ReadFrom(packet)
<1>1. Len(packet) \in Nat /\ Len(held) \in Nat
  BY LenProperties
<1>2. CASE Len(packet) <= Len(held)
  <2>1. Extends(held, packet)
    BY <1>1, <1>2 DEF Extends
  <2> QED
    BY <2>1, ReadFromStays
<1>3. CASE ~ (Len(packet) <= Len(held))
  <2>1. Extends(packet, held)
    BY <1>1, <1>3 DEF Extends
  <2> QED
    BY <1>3, <2>1, ReadFromStays
<1> QED
  BY <1>2, <1>3

(* Fewer bytes than a header are never enough. *)
LEMMA ShortIsPartial ==
  ASSUME NEW bytes \in Seq(Byte)
  PROVE  /\ Len(bytes) < HeaderSize => ReadFrom(bytes).status = "partial"
         /\ ReadFrom(bytes).status # "partial" => HeaderSize <= Len(bytes)
BY LenProperties DEF ReadFrom, CanRead, HeaderSize

(* No code begins with a zero byte. *)
LEMMA ZeroIsNoCode ==
  ASSUME NEW bytes \in Seq(Byte), bytes[1] = 0
  PROVE  /\ HeaderSize <= Len(bytes) => ReadFrom(bytes).status = "error"
         /\ ReadFrom(bytes).status # "complete"
<1>1. Len(bytes) \in Nat
  BY LenProperties
<1>2. CASE Len(bytes) < HeaderSize
  BY <1>1, <1>2, ShortIsPartial DEF HeaderSize
<1>3. CASE ~ (Len(bytes) < HeaderSize)
  <2>1. /\ bytes[0 + 1] = 0 /\ bytes[0 + 2] \in Int /\ bytes[0 + 3] \in Int
        /\ bytes[0 + 4] \in Int
    <3>1. 0 + 2 \in 1 .. Len(bytes) /\ 0 + 3 \in 1 .. Len(bytes) /\ 0 + 4 \in 1 .. Len(bytes)
      BY <1>1, <1>3 DEF HeaderSize
    <3>2. \A i \in 1 .. Len(bytes) : bytes[i] \in Int
      <4>1. \A i \in 1 .. Len(bytes) : bytes[i] \in Byte
        BY ElementOfSeq
      <4>2. Byte \subseteq Int
        BY DEF Byte
      <4> QED
        BY <4>1, <4>2
    <3> QED
      BY <3>1, <3>2
  <2>2. PICK word \in Int : ReadLe(bytes, 0) = 256 * word
    <3> DEFINE second == bytes[0 + 2]
               third  == bytes[0 + 3]
               top    == bytes[0 + 4]
               signed == IF top < 128 THEN top ELSE top - 256
    <3>1. second \in Int /\ third \in Int /\ signed \in Int
      <4>1. second \in Int /\ third \in Int /\ top \in Int
        BY <2>1
      <4> HIDE DEF second, third, top
      <4> QED
        BY <4>1
    <3>2. ReadLe(bytes, 0)
            = bytes[0 + 1] + (256 * second) + (65536 * third) + (16777216 * signed)
      BY DEF ReadLe
    <3> HIDE DEF second, third, top, signed
    <3>3. ReadLe(bytes, 0) = 256 * (second + (256 * third) + (65536 * signed))
      BY <2>1, <3>1, <3>2
    <3>4. second + (256 * third) + (65536 * signed) \in Int
      BY <3>1
    <3> QED
      BY <3>3, <3>4
  <2>3. ~ PacketCodeExists(ReadLe(bytes, 0))
    BY <2>2 DEF PacketCodeExists, ClientCodes
  <2>4. CanRead(bytes, 0, HeaderSize)
    BY <1>1, <1>3 DEF CanRead, HeaderSize
  <2> QED
    BY <2>3, <2>4 DEF ReadFrom
<1> QED
  BY <1>2, <1>3

-----------------------------------------------------------------------------
(* The invariant. *)

(* The bytes that are left begin where a packet begins. *)
Aligned == Ahead(script, buffer \o net, Len(handled), sent)

(* Or they begin inside a login that was taken for a whole one, of which   *)
(* only zeros are left.                                                    *)
CutLogin ==
  /\ Len(handled) = 1
  /\ Len(buffer \o net) \in (SizeOf(sent) - SizeOf(1)) + 1 .. SizeOf(sent)
  /\ \A i \in 1 .. Len(buffer \o net) - (SizeOf(sent) - SizeOf(1)) : (buffer \o net)[i] = 0

(* The login's SessionInfo ends with zeros: that of a well-formed packet,  *)
(* and of one that is malformed elsewhere.  Otherwise the stream goes      *)
(* astray when the login passes (Astray of the Receiver).                  *)
ZeroPadding == ZeroTail(script[1])

(* Every well-formed packet has such a SessionInfo, if any. *)
LEMMA WellFormedEndsWithZeros ==
  ASSUME NEW item, IsItem(item), WellFormed(item)
  PROVE  ZeroTail(item)
<1>1. "info" \in DOMAIN item.raw => VerifySessionInfo(item.raw.info)
  <2> SUFFICES ASSUME "info" \in DOMAIN item.raw PROVE VerifySessionInfo(item.raw.info)
    OBVIOUS
  <2>1. FieldFits(item, "info")
    BY WellFormedIs
  <2> QED
    BY <2>1 DEF FieldFits
<1> QED
  BY <1>1, Zenon DEF VerifySessionInfo, ZeroTail

Meanings == {Meaning(item) : item \in Items}

Types ==
  /\ script \in Scripts
  /\ sent \in 0 .. Len(script)
  /\ net \in Seq(Byte) /\ buffer \in Seq(Byte)
  /\ Len(net) + Len(buffer) <= SizeOf(sent)
  /\ pc \in Running \cup Ended
  /\ handled \in Seq(Meanings) /\ Len(handled) <= sent
  /\ threw \in BOOLEAN

AsMeant ==
  \A i \in 1 .. Len(handled) : WellFormed(script[i]) /\ handled[i] = Meaning(script[i])

StreamInv ==
  /\ Types
  /\ AsMeant
  /\ ZeroPadding
  /\ pc # "badLogin" => Aligned \/ CutLogin
  /\ pc = "badLogin" => handled = <<>>
  /\ pc = "login" => handled = <<>> /\ buffer = <<>> /\ sent <= 1
  /\ pc = "receive" /\ ~ threw => ReadFrom(buffer).status = "partial"
  /\ pc = "badPacket" => ReadFrom(buffer).status = "error"

(* Every packet of the script is read as it is meant. *)
LEMMA MeantIsRead ==
  ASSUME script \in Scripts
  PROVE  ReadsAsMeant
<1> SUFFICES ASSUME NEW i \in 1 .. Len(script)
             PROVE  LET item == script[i]
                        read == ReadFrom(Wire[item])
                    IN IF WellFormed(item)
                       THEN read = [status |-> "complete", size |-> Len(Wire[item]),
                                    packet |-> Meaning(item)]
                       ELSE read.status = "error"
  BY DEF ReadsAsMeant
<1> DEFINE item == script[i]
<1>1. IsItem(item) /\ Wire[item] = WireBytes(item)
  <2>1. item \in Items
    BY ScriptItems
  <2> HIDE DEF item
  <2> QED
    BY <2>1, ItemsAre
<1> HIDE DEF item
<1>2. IF WellFormed(item)
      THEN ReadFrom(WireBytes(item)) = [status |-> "complete", size |-> Len(WireBytes(item)),
                                        packet |-> Meaning(item)]
      ELSE ReadFrom(WireBytes(item)).status = "error"
  BY <1>1, ItemIsRead
<1> QED
  BY <1>1, <1>2 DEF item

(* The packet at i of the script, read alone. *)
LEMMA ReadAlone ==
  ASSUME script \in Scripts, NEW i \in 1 .. Len(script)
  PROVE  /\ script[i] \in Items /\ Wire[script[i]] \in Seq(Byte)
         /\ ReadFrom(Wire[script[i]]).status # "partial"
         /\ HeaderSize <= Len(Wire[script[i]])
         /\ WellFormed(script[i]) =>
              ReadFrom(Wire[script[i]])
                = [status |-> "complete", size |-> Len(Wire[script[i]]),
                   packet |-> Meaning(script[i])]
         /\ ~ WellFormed(script[i]) => ReadFrom(Wire[script[i]]).status = "error"
<1>1. script[i] \in Items /\ Wire[script[i]] \in Seq(Byte)
  BY ScriptItems
<1>2. /\ WellFormed(script[i]) =>
           ReadFrom(Wire[script[i]])
             = [status |-> "complete", size |-> Len(Wire[script[i]]),
                packet |-> Meaning(script[i])]
      /\ ~ WellFormed(script[i]) => ReadFrom(Wire[script[i]]).status = "error"
  BY MeantIsRead DEF ReadsAsMeant
<1>3. ReadFrom(Wire[script[i]]).status # "partial"
  BY <1>2
<1> QED
  BY <1>1, <1>2, <1>3, ShortIsPartial

(* The buffer and the packet that is next agree as far as both go; with no *)
(* packet next the buffer is empty.                                        *)
LEMMA AlignedAgrees ==
  ASSUME Types, Aligned
  PROVE  /\ Len(handled) < sent =>
              \A i \in 1 .. Len(Wire[script[Len(handled) + 1]]) :
                i <= Len(buffer) => buffer[i] = Wire[script[Len(handled) + 1]][i]
         /\ ~ (Len(handled) < sent) => buffer = <<>> /\ net = <<>>
<1> DEFINE rest == buffer \o net
<1>1. /\ rest \in Seq(Byte) /\ Len(rest) = Len(buffer) + Len(net)
      /\ Len(buffer) \in Nat /\ Len(net) \in Nat
      /\ \A i \in 1 .. Len(buffer) : rest[i] = buffer[i]
  BY ConcatProperties DEF Types
<1>2. /\ script \in Scripts /\ sent \in 0 .. Len(script) /\ Len(handled) \in 0 .. sent
      /\ Ahead(script, rest, Len(handled), sent)
  BY DEF Types, Aligned
<1> HIDE DEF rest
<1>3. CASE Len(handled) < sent
  <2>1. Extends(rest, Wire[script[Len(handled) + 1]])
    BY <1>1, <1>2, <1>3, AheadFirst
  <2> QED
    BY <1>1, <1>3, <2>1 DEF Extends
<1>4. CASE ~ (Len(handled) < sent)
  <2>1. rest = <<>>
    BY <1>1, <1>2, <1>4, AheadFirst
  <2>2. Len(buffer) = 0 /\ Len(net) = 0
    BY <1>1, <2>1
  <2> QED
    BY <1>4, <2>2, EmptySeq DEF Types
<1> QED
  BY <1>3, <1>4

(* What is left of a login that was cut begins with a zero.                *)
LEMMA CutLoginIs ==
  ASSUME Types, CutLogin
  PROVE  /\ Len(handled) = 1 /\ sent >= 1
         /\ SizeOf(1) \in Nat /\ SizeOf(sent) \in Nat /\ SizeOf(1) <= SizeOf(sent)
         /\ Len(buffer \o net) \in Nat
         /\ Len(buffer \o net) >= SizeOf(sent) - SizeOf(1) + 1
         /\ Len(buffer \o net) <= SizeOf(sent)
         /\ (buffer \o net)[1] = 0
<1> DEFINE rest == buffer \o net
           missing == Len(rest) - (SizeOf(sent) - SizeOf(1))
<1>1. /\ script \in Scripts /\ Len(script) \in Nat /\ sent \in 0 .. Len(script)
      /\ Len(handled) = 1 /\ Len(handled) <= sent
  BY ScriptItems DEF Types, CutLogin
<1>2. SizeOf(1) \in Nat /\ SizeOf(sent) \in Nat /\ SizeOf(1) <= SizeOf(sent)
  <2>1. 1 \in 0 .. Len(script) /\ sent \in 1 .. Len(script)
    BY <1>1
  <2> QED
    BY <1>1, <2>1, SizesAreSums, SizesGrow DEF SizeOf
<1>3. Len(rest) \in (SizeOf(sent) - SizeOf(1)) + 1 .. SizeOf(sent)
  BY DEF CutLogin
<1>4. \A i \in 1 .. missing : rest[i] = 0
  BY DEF CutLogin
<1> HIDE DEF rest
<1>5. 1 \in 1 .. missing
  BY <1>2, <1>3
<1>6. rest[1] = 0
  BY <1>4, <1>5
<1> QED
  BY <1>1, <1>2, <1>3, <1>6 DEF rest

(* A result other than "partial" is that of the packet that is next.       *)
LEMMA DecidedIsNext ==
  ASSUME Types, Aligned, ReadFrom(buffer).status # "partial"
  PROVE  /\ Len(handled) < sent
         /\ ReadFrom(buffer) = ReadFrom(Wire[script[Len(handled) + 1]])
<1>1. Len(handled) < sent
  <2>1. ReadFrom(<<>>).status = "partial"
    <3>1. <<>> \in Seq(Byte) /\ Len(<<>>) < HeaderSize
      BY EmptySeq DEF HeaderSize
    <3> QED
      BY <3>1, ShortIsPartial
  <2> QED
    BY <2>1, AlignedAgrees
<1>2. Len(handled) + 1 \in 1 .. Len(script) /\ script \in Scripts /\ buffer \in Seq(Byte)
  BY <1>1, ScriptItems DEF Types
<1> DEFINE packet == Wire[script[Len(handled) + 1]]
<1>3. packet \in Seq(Byte) /\ ReadFrom(packet).status # "partial"
  BY <1>2, ReadAlone
<1>4. \A i \in 1 .. Len(packet) : i <= Len(buffer) => buffer[i] = packet[i]
  BY <1>1, AlignedAgrees
<1> HIDE DEF packet
<1>5. ReadFrom(buffer) = ReadFrom(packet)
  BY <1>2, <1>3, <1>4, FirstPacket
<1> QED
  BY <1>1, <1>5 DEF packet

-----------------------------------------------------------------------------
(* The actions. *)

(* The packet that HandlePacket takes is the next one of the script. *)
LEMMA HandlesNext ==
  ASSUME StreamInv, HandlePacket
  PROVE  /\ Aligned /\ Len(handled) < sent
         /\ WellFormed(script[Len(handled) + 1])
         /\ TryReadPacket.size = Len(Wire[script[Len(handled) + 1]])
         /\ TryReadPacket.packet = Meaning(script[Len(handled) + 1])
         /\ TryReadPacket.size \in 0 .. Len(buffer)
<1>1. /\ Types /\ pc = "read" /\ ReadFrom(buffer).status = "complete"
      /\ buffer \in Seq(Byte) /\ net \in Seq(Byte)
  BY DEF StreamInv, Types, HandlePacket, TryReadPacket
<1>2. ReadFrom(buffer).status # "partial" /\ HeaderSize <= Len(buffer)
  BY <1>1, ShortIsPartial
<1>3. Aligned
  <2> SUFFICES ASSUME CutLogin PROVE FALSE
    BY <1>1 DEF StreamInv
  <2>1. 1 \in 1 .. Len(buffer) + Len(net) /\ 1 <= Len(buffer)
    BY <1>1, <1>2, LenProperties DEF HeaderSize
  <2>2. (buffer \o net)[1] = buffer[1]
    BY <1>1, <2>1, ConcatProperties
  <2>3. buffer[1] = 0
    BY <1>1, <2>2, CutLoginIs
  <2> QED
    BY <1>1, <2>3, ZeroIsNoCode
<1>4. Len(handled) < sent /\ ReadFrom(buffer) = ReadFrom(Wire[script[Len(handled) + 1]])
  BY <1>1, <1>2, <1>3, DecidedIsNext
<1>5. Len(handled) + 1 \in 1 .. Len(script) /\ script \in Scripts
  BY <1>1, <1>4, ScriptItems DEF Types
<1>6. WellFormed(script[Len(handled) + 1])
  BY <1>1, <1>4, <1>5, ReadAlone
<1>7. /\ ReadFrom(buffer).size = Len(Wire[script[Len(handled) + 1]])
      /\ ReadFrom(buffer).packet = Meaning(script[Len(handled) + 1])
  <2>1. ReadFrom(buffer)
          = [status |-> "complete", size |-> Len(Wire[script[Len(handled) + 1]]),
             packet |-> Meaning(script[Len(handled) + 1])]
    BY <1>4, <1>5, <1>6, ReadAlone
  <2> QED
    BY <2>1
<1>8. ReadFrom(buffer).size \in 0 .. Len(buffer)
  <2>1. ReadFrom(buffer).size \in HeaderSize .. Len(buffer)
    BY <1>1, CompleteFits
  <2> QED
    BY <2>1 DEF HeaderSize
<1> QED
  BY <1>3, <1>4, <1>6, <1>7, <1>8 DEF TryReadPacket

(* A packet more in handled is one more of the script's. *)
LEMMA HandledGrows ==
  ASSUME Types, AsMeant, script' = script, Len(handled) < sent,
         WellFormed(script[Len(handled) + 1]),
         handled' = Append(handled, Meaning(script[Len(handled) + 1]))
  PROVE  /\ handled' \in Seq(Meanings) /\ Len(handled') = Len(handled) + 1
         /\ AsMeant'
<1> DEFINE next == Meaning(script[Len(handled) + 1])
<1>1. handled \in Seq(Meanings) /\ Len(handled) \in Nat
  BY LenProperties DEF Types
<1>2. next \in Meanings
  <2>1. Len(handled) + 1 \in 1 .. Len(script) /\ script \in Scripts
    BY <1>1, ScriptItems DEF Types
  <2>2. script[Len(handled) + 1] \in Items
    BY <2>1, ScriptItems
  <2> QED
    BY <2>2 DEF Meanings
<1> HIDE DEF next
<1>3. /\ handled' \in Seq(Meanings) /\ Len(handled') = Len(handled) + 1
      /\ \A i \in 1 .. Len(handled) : handled'[i] = handled[i]
      /\ handled'[Len(handled) + 1] = next
  BY <1>1, <1>2, AppendProperties DEF next
<1>4. ASSUME NEW i \in 1 .. Len(handled')
      PROVE  WellFormed(script[i]) /\ handled'[i] = Meaning(script[i])
  <2>1. CASE i = Len(handled) + 1
    BY <1>3, <2>1 DEF next
  <2>2. CASE i # Len(handled) + 1
    <3>1. i \in 1 .. Len(handled)
      BY <1>1, <1>3, <2>2
    <3> QED
      BY <1>3, <3>1 DEF AsMeant
  <2> QED
    BY <2>1, <2>2
<1> QED
  BY <1>3, <1>4 DEF AsMeant

(* What a step changes neither in the script, nor in what is handled, nor  *)
(* in the bytes that are left stays as it is.                              *)
LEMMA SameBytes ==
  ASSUME script' = script, sent' = sent, handled' = handled,
         buffer' \o net' = buffer \o net
  PROVE  /\ Aligned' = Aligned /\ CutLogin' = CutLogin
         /\ AsMeant' = AsMeant /\ ZeroPadding' = ZeroPadding
BY DEF Aligned, CutLogin, AsMeant, SizeOf, ZeroPadding

(* The client sends its next packet. *)
LEMMA ClientSendsStep ==
  ASSUME StreamInv, ClientSends
  PROVE  StreamInv'
<1> DEFINE packet == Wire[script[sent + 1]]
           rest == buffer \o net
<1>1. /\ script \in Scripts /\ sent \in 0 .. Len(script) /\ sent < Len(script)
      /\ net \in Seq(Byte) /\ buffer \in Seq(Byte)
      /\ Len(net) + Len(buffer) <= SizeOf(sent)
      /\ handled \in Seq(Meanings) /\ Len(handled) <= sent
      /\ script' = script /\ sent' = sent + 1 /\ net' = net \o packet
      /\ buffer' = buffer /\ handled' = handled /\ pc' = pc /\ threw' = threw
  BY DEF StreamInv, Types, ClientSends
<1>2. /\ Len(script) \in Nat /\ sent + 1 \in 1 .. Len(script) /\ sent \in Nat
      /\ packet \in Seq(Byte) /\ Len(packet) \in Nat
      /\ Len(net) \in Nat /\ Len(buffer) \in Nat /\ Len(handled) \in Nat
  BY <1>1, ScriptItems, LenProperties
<1>3. /\ SizeOf(sent) \in Nat /\ SizeOf(sent + 1) = SizeOf(sent) + Len(packet)
      /\ (sent + 1) - 1 = sent
  <2>1. (sent + 1) - 1 = sent /\ sent \in 0 .. Len(script)
    BY <1>1, <1>2
  <2> QED
    BY <1>1, <1>2, <2>1, SizesAreSums DEF SizeOf
<1>4. rest \in Seq(Byte) /\ Len(rest) = Len(buffer) + Len(net)
  BY <1>1, ConcatProperties
<1>5. buffer' \o net' = rest \o packet
  <2>1. (buffer \o net) \o packet = buffer \o (net \o packet)
    <3>1. buffer \in Seq(Byte) /\ net \in Seq(Byte) /\ packet \in Seq(Byte)
      BY <1>1, <1>2
    <3> HIDE DEF packet
    <3> QED
      BY <3>1, Regroup
  <2> QED
    BY <1>1, <2>1
<1> HIDE DEF packet, rest
<1>6. net' \in Seq(Byte) /\ Len(net') = Len(net) + Len(packet)
  BY <1>1, <1>2, ConcatProperties
<1>7. Types'
  <2>1. (Len(net) + Len(buffer) <= SizeOf(sent))'
    <3>1. SizeOf(sent)' = SizeOf(sent + 1)
      BY <1>1 DEF SizeOf
    <3>2. Len(net) + Len(packet) + Len(buffer) <= SizeOf(sent) + Len(packet)
      BY <1>1, <1>2, <1>3
    <3> QED
      BY <1>1, <1>2, <1>3, <1>6, <3>1, <3>2
  <2>2. sent' \in 0 .. Len(script') /\ Len(handled') <= sent'
    BY <1>1, <1>2
  <2>3. pc' \in Running \cup Ended
    BY <1>1 DEF Types, StreamInv
  <2>4. threw' \in BOOLEAN
    <3>1. threw' = threw
      BY DEF ClientSends
    <3> QED
      BY <3>1, Zenon DEF Types, StreamInv
  <2>5. script' \in Scripts /\ buffer' \in Seq(Byte) /\ handled' \in Seq(Meanings)
    BY <1>1
  <2> QED
    BY <1>6, <2>1, <2>2, <2>3, <2>4, <2>5, Zenon DEF Types
<1>8. AsMeant' /\ ZeroPadding'
  BY <1>1 DEF StreamInv, AsMeant, ZeroPadding
<1>9. ASSUME Aligned PROVE Aligned'
  <2>1. Len(handled) \in 0 .. sent
    BY <1>1, <1>2
  <2>2. Ahead(script, rest, Len(handled), sent)
    BY <1>9 DEF Aligned, rest
  <2>3. Ahead(script, rest \o packet, Len(handled), sent + 1)
    BY <1>1, <1>4, <2>1, <2>2, AheadSend DEF packet
  <2> QED
    BY <1>1, <1>5, <2>3 DEF Aligned
<1>10. ASSUME CutLogin PROVE CutLogin'
  <2> DEFINE missing == Len(rest) - (SizeOf(sent) - SizeOf(1))
  <2>1. /\ Len(handled) = 1 /\ SizeOf(1) \in Nat /\ SizeOf(1) <= SizeOf(sent)
        /\ Len(rest) \in Nat
        /\ Len(rest) >= SizeOf(sent) - SizeOf(1) + 1 /\ Len(rest) <= SizeOf(sent)
    BY <1>10, CutLoginIs DEF StreamInv, rest
  <2>2. \A i \in 1 .. missing : rest[i] = 0
    BY <1>10 DEF CutLogin, rest
  <2>3. /\ Len(rest \o packet) = Len(rest) + Len(packet)
        /\ \A i \in 1 .. Len(rest) + Len(packet) :
             (rest \o packet)[i] = IF i <= Len(rest) THEN rest[i] ELSE packet[i - Len(rest)]
    <3>1. rest \in Seq(Byte) /\ packet \in Seq(Byte)
      BY <1>2, <1>4
    <3> QED
      BY <3>1, ConcatProperties
  <2>4. /\ missing \in Nat /\ missing <= Len(rest)
        /\ Len(rest \o packet) - (SizeOf(sent + 1) - SizeOf(1)) = missing
    <3>1. Len(rest \o packet) = Len(rest) + Len(packet)
      BY <2>3
    <3> QED
      BY <1>2, <1>3, <2>1, <3>1
  <2>5. Len(rest) + Len(packet)
          \in (SizeOf(sent + 1) - SizeOf(1)) + 1 .. SizeOf(sent + 1)
    BY <1>2, <1>3, <2>1
  <2> HIDE DEF missing
  <2>6. ASSUME NEW i \in 1 .. missing PROVE (rest \o packet)[i] = 0
    <3>1. i \in 1 .. Len(rest) + Len(packet) /\ i <= Len(rest)
      BY <1>2, <2>1, <2>4
    <3> QED
      BY <2>2, <2>3, <3>1
  <2>7. SizeOf(sent)' = SizeOf(sent + 1) /\ SizeOf(1)' = SizeOf(1)
    BY <1>1 DEF SizeOf
  <2> DEFINE all == rest \o packet
  <2>8. buffer' \o net' = all /\ Len(handled') = 1
    BY <1>1, <1>5, <2>1
  <2>9. Len(all) \in (SizeOf(sent + 1) - SizeOf(1)) + 1 .. SizeOf(sent + 1)
    BY <2>3, <2>5
  <2>10. \A i \in 1 .. Len(all) - (SizeOf(sent + 1) - SizeOf(1)) : all[i] = 0
    BY <2>4, <2>6
  <2> HIDE DEF all
  <2> QED
    BY <2>7, <2>8, <2>9, <2>10 DEF CutLogin
<1>11. /\ pc' = "login" => handled' = <<>> /\ buffer' = <<>> /\ sent' <= 1
       /\ pc' = "badLogin" => handled' = <<>>
  BY <1>1, <1>2 DEF StreamInv, ClientSends
<1> QED
  BY <1>1, <1>7, <1>8, <1>9, <1>10, <1>11 DEF StreamInv

(* A receive moves bytes into the buffer. *)
LEMMA ReceiveStep ==
  ASSUME StreamInv, NEW n \in 1 .. Len(net), Receive(n)
  PROVE  StreamInv'
<1>1. /\ net \in Seq(Byte) /\ buffer \in Seq(Byte) /\ pc = "receive" /\ pc' = "read"
      /\ net' = SubSeq(net, n + 1, Len(net)) /\ buffer' = buffer \o SubSeq(net, 1, n)
      /\ script' = script /\ sent' = sent /\ handled' = handled
  BY DEF StreamInv, Types, Receive
<1>2. /\ net' \in Seq(Byte) /\ buffer' \in Seq(Byte)
      /\ buffer' \o net' = buffer \o net
      /\ Len(net') + Len(buffer') = Len(net) + Len(buffer)
  <2>1. /\ net' \in Seq(Byte) /\ buffer' \in Seq(Byte)
        /\ buffer' \o net' = buffer \o net
        /\ Len(buffer') + Len(net') = Len(buffer) + Len(net)
    BY <1>1, ReceiveKeepsBytes
  <2>2. Len(net) \in Nat /\ Len(buffer) \in Nat /\ Len(net') \in Nat /\ Len(buffer') \in Nat
    <3>1. net \in Seq(Byte) /\ buffer \in Seq(Byte)
      BY <1>1
    <3> QED
      BY <2>1, <3>1, LenProperties
  <2>3. Len(net') + Len(buffer') = Len(net) + Len(buffer)
    <3>1. Len(buffer') + Len(net') = Len(buffer) + Len(net)
      BY <2>1
    <3> QED
      BY <2>2, <3>1
  <2> QED
    BY <2>1, <2>3
<1>3. Types'
  <2>1. (Len(net) + Len(buffer) <= SizeOf(sent))'
    BY <1>1, <1>2 DEF StreamInv, Types, SizeOf
  <2>2. pc' \in Running \cup Ended
    BY <1>1 DEF Running
  <2>3. threw' \in BOOLEAN
    <3>1. threw' = FALSE
      BY DEF Receive
    <3> QED
      BY <3>1, Zenon
  <2>4. /\ script' \in Scripts /\ sent' \in 0 .. Len(script')
        /\ handled' \in Seq(Meanings) /\ Len(handled') <= sent'
    BY <1>1 DEF StreamInv, Types
  <2> QED
    BY <1>2, <2>1, <2>2, <2>3, <2>4, Zenon DEF Types
<1>4. AsMeant' /\ ZeroPadding' /\ (Aligned' \/ CutLogin')
  BY <1>1, <1>2, SameBytes DEF StreamInv
<1> QED
  BY <1>1, <1>3, <1>4 DEF StreamInv

(* Steps that move no byte and handle no packet. *)
LEMMA NoBytesMove ==
  ASSUME StreamInv, UNCHANGED <<script, sent, net, buffer, handled, threw>>,
         pc' \in Running \cup Ended
  PROVE  /\ Types' /\ AsMeant' /\ ZeroPadding'
         /\ Aligned' = Aligned /\ CutLogin' = CutLogin
<1>1. /\ script' = script /\ sent' = sent /\ net' = net /\ buffer' = buffer
      /\ handled' = handled /\ threw' = threw
  OBVIOUS
<1>2. Types'
  <2>1. threw' \in BOOLEAN
    BY <1>1, Zenon DEF StreamInv, Types
  <2>2. /\ script' \in Scripts /\ sent' \in 0 .. Len(script')
        /\ net' \in Seq(Byte) /\ buffer' \in Seq(Byte)
        /\ handled' \in Seq(Meanings) /\ Len(handled') <= sent'
    BY <1>1 DEF StreamInv, Types
  <2>3. (Len(net) + Len(buffer) <= SizeOf(sent))'
    BY <1>1 DEF StreamInv, Types, SizeOf
  <2> QED
    BY <2>1, <2>2, <2>3, Zenon DEF Types
<1> QED
  BY <1>1, <1>2, SameBytes DEF StreamInv

(* The reader needs more bytes. *)
LEMMA NeedsMoreStep ==
  ASSUME StreamInv, NeedsMore
  PROVE  StreamInv'
<1>1. /\ UNCHANGED <<script, sent, net, buffer, handled, threw>>
      /\ pc = "read" /\ pc' = "receive" /\ ReadFrom(buffer).status = "partial"
  BY DEF NeedsMore, TryReadPacket
<1>2. pc' \in Running \cup Ended
  BY <1>1 DEF Running
<1>3. Types' /\ AsMeant' /\ ZeroPadding' /\ (Aligned' \/ CutLogin')
  BY <1>1, <1>2, NoBytesMove DEF StreamInv
<1> QED
  BY <1>1, <1>3 DEF StreamInv

(* The reader finds an error. *)
LEMMA ParseErrorStep ==
  ASSUME StreamInv, ParseError
  PROVE  StreamInv'
<1>1. /\ UNCHANGED <<script, sent, net, buffer, handled, threw>>
      /\ pc = "read" /\ pc' = "badPacket" /\ ReadFrom(buffer).status = "error"
  BY DEF ParseError, TryReadPacket
<1>2. pc' \in Running \cup Ended
  BY <1>1 DEF Ended
<1>3. Types' /\ AsMeant' /\ ZeroPadding' /\ (Aligned' \/ CutLogin')
  BY <1>1, <1>2, NoBytesMove DEF StreamInv
<1> QED
  BY <1>1, <1>3 DEF StreamInv

(* The receive fails. *)
LEMMA ReceiveFailsStep ==
  ASSUME StreamInv, ReceiveFails
  PROVE  StreamInv'
<1>1. /\ UNCHANGED <<script, sent, net, buffer, handled, threw>>
      /\ pc \in {"login", "receive"} /\ pc' = "closed"
  BY DEF ReceiveFails
<1>2. pc' \in Running \cup Ended
  BY <1>1 DEF Ended
<1>3. Types' /\ AsMeant' /\ ZeroPadding' /\ (Aligned' \/ CutLogin')
  BY <1>1, <1>2, NoBytesMove DEF StreamInv
<1> QED
  BY <1>1, <1>3 DEF StreamInv

(* Nothing happens. *)
LEMMA StutterStep ==
  ASSUME StreamInv, UNCHANGED vars
  PROVE  StreamInv'
<1>1. UNCHANGED <<script, sent, net, buffer, handled, threw>> /\ pc' = pc
  BY DEF vars
<1>2. pc' \in Running \cup Ended
  BY <1>1 DEF StreamInv, Types
<1>3. Types' /\ AsMeant' /\ ZeroPadding' /\ Aligned' = Aligned /\ CutLogin' = CutLogin
  BY <1>1, <1>2, NoBytesMove
<1>4. pc' # "badLogin" => Aligned' \/ CutLogin'
  BY <1>1, <1>3 DEF StreamInv
<1>5. /\ pc' = "login" => handled' = <<>> /\ buffer' = <<>> /\ sent' <= 1
      /\ pc' = "badLogin" => handled' = <<>>
  BY <1>1 DEF StreamInv
<1>6. /\ pc' = "receive" /\ ~ threw' => ReadFrom(buffer').status = "partial"
      /\ pc' = "badPacket" => ReadFrom(buffer').status = "error"
  BY <1>1, Zenon DEF StreamInv
<1> QED
  BY <1>3, <1>4, <1>5, <1>6, Zenon DEF StreamInv

(* A handler is given the next packet, which leaves the buffer. *)
LEMMA HandlePacketStep ==
  ASSUME StreamInv, HandlePacket
  PROVE  StreamInv'
<1> DEFINE packet == Wire[script[Len(handled) + 1]]
<1>1. /\ Types /\ AsMeant /\ Aligned /\ Len(handled) < sent
      /\ WellFormed(script[Len(handled) + 1])
      /\ TryReadPacket.size = Len(packet)
      /\ TryReadPacket.packet = Meaning(script[Len(handled) + 1])
      /\ Len(packet) \in 0 .. Len(buffer)
  BY HandlesNext DEF StreamInv
<1>2. /\ script' = script /\ sent' = sent /\ net' = net
      /\ buffer' = SubSeq(buffer, Len(packet) + 1, Len(buffer))
      /\ handled' = Append(handled, Meaning(script[Len(handled) + 1]))
      /\ pc' \in {"read", "rejected", "receive"}
      /\ pc' = "receive" => threw' = TRUE
  BY <1>1 DEF HandlePacket
<1>3. /\ script \in Scripts /\ sent \in 0 .. Len(script) /\ Len(handled) \in 0 .. sent
      /\ net \in Seq(Byte) /\ buffer \in Seq(Byte) /\ Len(handled) \in Nat /\ sent \in Nat
      /\ Len(net) + Len(buffer) <= SizeOf(sent)
      /\ Len(net) \in Nat /\ Len(buffer) \in Nat
  BY <1>1, ScriptItems, LenProperties DEF Types
<1>4. /\ handled' \in Seq(Meanings) /\ Len(handled') = Len(handled) + 1
      /\ AsMeant'
  BY <1>1, <1>2, HandledGrows
<1>5. /\ buffer' \in Seq(Byte) /\ Len(buffer') = Len(buffer) - Len(packet)
      /\ buffer' \o net' = SubSeq(buffer \o net, Len(packet) + 1, Len(buffer \o net))
  <2> HIDE DEF packet
  <2> QED
    BY <1>1, <1>2, <1>3, SkipKeepsBytes
<1>6. Aligned'
  <2>1. buffer \o net \in Seq(Byte)
    BY <1>3, ConcatProperties
  <2>2. Ahead(script, SubSeq(buffer \o net, Len(packet) + 1, Len(buffer \o net)),
              Len(handled) + 1, sent)
    <3> DEFINE rest == buffer \o net
    <3>1. rest \in Seq(Byte) /\ Ahead(script, rest, Len(handled), sent)
      BY <1>1, <2>1 DEF Aligned
    <3> HIDE DEF rest
    <3>2. Ahead(script, SubSeq(rest, Len(packet) + 1, Len(rest)), Len(handled) + 1, sent)
      BY <1>1, <1>3, <3>1, AheadHandle
    <3> QED
      BY <3>2 DEF rest
  <2> QED
    BY <1>2, <1>4, <1>5, <2>2 DEF Aligned
<1>7. Types'
  <2>1. (Len(net) + Len(buffer) <= SizeOf(sent))'
    <3>1. SizeOf(sent)' = SizeOf(sent) /\ SizeOf(sent) \in Nat
      BY <1>2, <1>3, SizesAreSums DEF SizeOf
    <3>2. Len(packet) \in Nat /\ Len(net') = Len(net)
      BY <1>1, <1>2
    <3> HIDE DEF packet
    <3> QED
      BY <1>3, <1>5, <3>1, <3>2
  <2>2. pc' \in Running \cup Ended
    BY <1>2 DEF Running, Ended
  <2>3. threw' \in BOOLEAN
    <3>1. threw' = threw \/ threw' = TRUE
      BY DEF HandlePacket
    <3> QED
      BY <1>1, <3>1, Zenon DEF Types
  <2>4. /\ script' \in Scripts /\ sent' \in 0 .. Len(script') /\ net' \in Seq(Byte)
        /\ Len(handled') <= sent'
    BY <1>1, <1>2, <1>3, <1>4
  <2> QED
    BY <1>4, <1>5, <2>1, <2>2, <2>3, <2>4, Zenon DEF Types
<1>8. pc' = "receive" /\ ~ threw' => ReadFrom(buffer').status = "partial"
  BY <1>2, Zenon
<1>9. pc' # "login" /\ pc' # "badPacket" /\ pc' # "badLogin"
  BY <1>2
<1>10. ZeroPadding'
  BY <1>2 DEF StreamInv, ZeroPadding
<1> QED
  BY <1>4, <1>6, <1>7, <1>8, <1>9, <1>10, Zenon DEF StreamInv

(* Zeros are bytes. *)
LEMMA ZerosAre ==
  ASSUME NEW k \in Nat
  PROVE  /\ Zeros(k) \in Seq(Byte) /\ Len(Zeros(k)) = k
         /\ \A i \in 1 .. k : Zeros(k)[i] = 0
<1>1. Zeros(k) \in [1 .. k -> Byte]
  BY DEF Zeros, Byte
<1>2. Zeros(k) \in Seq(Byte)
  BY <1>1, SeqDef
<1>3. DOMAIN Zeros(k) = 1 .. k
  BY DEF Zeros
<1>4. Len(Zeros(k)) = k
  BY <1>2, <1>3, LenProperties
<1> QED
  BY <1>2, <1>4 DEF Zeros

(* What handleLogin parses: the bytes received and zeros behind them. *)
LEMMA IncomingIs ==
  ASSUME NEW bytes \in Seq(Byte), NEW n \in 1 .. Len(bytes), n <= LoginBuffer
  PROVE  /\ Incoming(bytes, n) \in Seq(Byte) /\ Len(Incoming(bytes, n)) = LoginBuffer
         /\ \A i \in 1 .. n : Incoming(bytes, n)[i] = bytes[i]
         /\ \A i \in n + 1 .. LoginBuffer : Incoming(bytes, n)[i] = 0
<1> DEFINE front == SubSeq(bytes, 1, n)
           zeros == Zeros(LoginBuffer - n)
           all   == front \o zeros
<1>1. n \in Nat /\ LoginBuffer \in Nat /\ Len(bytes) \in Nat /\ LoginBuffer - n \in Nat
  BY ReceiverAssumption, LenProperties
<1>2. /\ front \in Seq(Byte) /\ Len(front) = n
      /\ \A i \in 1 .. n : front[i] = bytes[i]
  <2>1. /\ 1 \in Int /\ n \in Int /\ 1 <= n /\ n - 1 + 1 = n
        /\ \A i \in 1 .. n : bytes[i] \in Byte /\ 1 + i - 1 = i
    BY <1>1, ElementOfSeq
  <2>2. /\ front \in Seq(Byte) /\ Len(front) = IF 1 <= n THEN n - 1 + 1 ELSE 0
        /\ \A i \in 1 .. n - 1 + 1 : front[i] = bytes[1 + i - 1]
    BY <2>1, SubSeqProperties
  <2> HIDE DEF front
  <2> QED
    BY <2>1, <2>2
<1>3. /\ zeros \in Seq(Byte) /\ Len(zeros) = LoginBuffer - n
      /\ \A i \in 1 .. LoginBuffer - n : zeros[i] = 0
  BY <1>1, ZerosAre
<1> HIDE DEF front, zeros
<1>4. /\ all \in Seq(Byte) /\ Len(all) = Len(front) + Len(zeros)
      /\ \A i \in 1 .. Len(front) + Len(zeros) :
           all[i] = IF i <= Len(front) THEN front[i] ELSE zeros[i - Len(front)]
  BY <1>2, <1>3, ConcatProperties
<1> HIDE DEF all
<1>5. Len(all) = LoginBuffer
  BY <1>1, <1>2, <1>3, <1>4
<1>6. ASSUME NEW i \in 1 .. n PROVE all[i] = bytes[i]
  <2>1. i \in 1 .. Len(front) + Len(zeros) /\ i <= Len(front)
    BY <1>1, <1>2, <1>3
  <2> QED
    BY <1>2, <1>4, <2>1
<1>7. ASSUME NEW i \in n + 1 .. LoginBuffer PROVE all[i] = 0
  <2>1. /\ i \in 1 .. Len(front) + Len(zeros) /\ ~ (i <= Len(front))
        /\ i - Len(front) \in 1 .. LoginBuffer - n
    BY <1>1, <1>2, <1>3
  <2> QED
    BY <1>3, <1>4, <2>1
<1> QED
  BY <1>4, <1>5, <1>6, <1>7 DEF all, front, zeros, Incoming

-----------------------------------------------------------------------------
(* A login that arrives in part. *)

(* A SessionInfo that is valid has its one where a one belongs. *)
LEMMA ValidInfoHasOne ==
  ASSUME NEW bytes \in Seq(Byte), NEW present \in SUBSET Fields, "info" \in present,
         Stops(bytes, present) = {}
  PROVE  LET at == Position(present, "info", LengthIn(bytes, present))
         IN at \in Nat /\ HeaderSize <= at /\ at + 14 <= Len(bytes) /\ bytes[at + 14] = 1
<1> DEFINE length == LengthIn(bytes, present)
           at == Position(present, "info", length)
<1>1. length \in Nat
  BY LengthIsNumber
<1> HIDE DEF length
<1>2. at \in Nat /\ HeaderSize <= at
  <2> DEFINE some == present \cap Before("info")
  <2>1. some \in SUBSET Fields
    OBVIOUS
  <2>2. at = HeaderSize + TotalSize(some, length)
    BY DEF Position
  <2> HIDE DEF some, at
  <2>3. TotalSize(some, length) \in Nat
    BY <1>1, <2>1, SizesAreNumbers
  <2> QED
    BY <2>2, <2>3 DEF HeaderSize
<1>3. Status(bytes, at, "info", length) = "complete"
  BY DEF Stops, FieldStatus, length
<1> HIDE DEF at
<1>4. CanRead(bytes, at, InfoSize) /\ VerifySessionInfo(ReadInfo(bytes, at))
  BY <1>3 DEF Status, FieldSize, IsValid
<1>5. ReadInfo(bytes, at).alwaysOne = bytes[at + 14]
  BY DEF ReadInfo
<1>6. bytes[at + 14] = 1
  BY <1>4, <1>5 DEF VerifySessionInfo
<1>7. at + 14 <= Len(bytes)
  <2>1. PaddingSize \in Nat /\ Len(bytes) \in Nat /\ at + (15 + PaddingSize) <= Len(bytes)
    BY <1>4, CodecAssumption, LenProperties DEF CanRead, InfoSize
  <2> QED
    BY <1>2, <2>1
<1> QED
  BY <1>2, <1>6, <1>7 DEF at, length

(* The SessionInfo is the last field. *)
LEMMA InfoIsLast ==
  ASSUME NEW present \in SUBSET Fields, "info" \in present, NEW length \in Nat
  PROVE  Position(present, "info", length) + InfoSize = HeaderSize + TotalSize(present, length)
<1>1. \A f \in Fields : f \in Before("info") <=> f # "info"
  BY DEF Fields, PacketFlags, Before, FieldOrder
<1>2. present \cap Before("info") = present \ {"info"}
  BY <1>1
<1>3. FieldSize("info", length) = InfoSize
  BY DEF FieldSize
<1> QED
  BY <1>2, <1>3, LastFieldEnds

(* Behind its one there are only zeros in such an item. *)
LEMMA TailIsZero ==
  ASSUME NEW item, IsItem(item), ZeroTail(item), "info" \in DOMAIN item.raw,
         NEW length \in Nat, "data" \in DOMAIN item.raw => length = Len(item.raw.data)
  PROVE  LET at == Position(DOMAIN item.raw, "info", length)
         IN \A i \in 1 .. Len(WireBytes(item)) : i > at + 14 => WireBytes(item)[i] = 0
<1> DEFINE present == DOMAIN item.raw
           at == Position(present, "info", length)
           bytes == WireBytes(item)
           info == item.raw.info
           padding == SubSeq(bytes, (at + 15) + 1, (at + 15) + PaddingSize)
<1>1. /\ bytes \in Seq(Byte) /\ Len(bytes) = HeaderSize + TotalSize(present, length)
      /\ PlacedAt(bytes, at, RawField(item.raw, "info"))
  BY WireIs
<1>2. present \in SUBSET Fields
  BY DEF IsItem, Fields
<1>3. at \in Nat /\ PaddingSize \in Nat
  BY <1>2, SizesAreNumbers, CodecAssumption
<1>4. Len(bytes) = at + (15 + PaddingSize)
  <2> HIDE DEF present, bytes
  <2>1. at + InfoSize = HeaderSize + TotalSize(present, length)
    BY <1>2, InfoIsLast DEF present
  <2> QED
    BY <1>1, <2>1 DEF InfoSize
<1>5. ReadInfo(bytes, at) = info
  <2>1. info \in InfoRecords
    BY FieldTypes
  <2>2. PlacedAt(bytes, at, InfoBytes(info))
    BY <1>1 DEF RawField
  <2> HIDE DEF bytes, at, info
  <2> QED
    BY <2>1, <2>2, InfoIsRead
<1>6. info.alwaysZero = 0 /\ info.padding = Zeros(PaddingSize)
  BY DEF ZeroTail
<1> HIDE DEF bytes, at, info, present
<1>7. bytes[at + 15] = 0
  <2>1. ReadInfo(bytes, at).alwaysZero = bytes[at + 15]
    BY DEF ReadInfo
  <2> QED
    BY <1>5, <1>6, <2>1
<1>8. padding = Zeros(PaddingSize)
  <2>1. ReadInfo(bytes, at).padding = ReadBytes(bytes, at + 15, PaddingSize)
    BY DEF ReadInfo
  <2> QED
    BY <1>5, <1>6, <2>1 DEF ReadBytes
<1>9. \A k \in 1 .. PaddingSize : padding[k] = bytes[(at + 15) + k]
  <2> DEFINE first == (at + 15) + 1
             last  == (at + 15) + PaddingSize
  <2>1. first \in Int /\ last \in Int /\ \A i \in first .. last : bytes[i] \in Byte
    <3>1. first \in Int /\ last \in Int /\ \A i \in first .. last : i \in 1 .. Len(bytes)
      BY <1>3, <1>4
    <3> HIDE DEF first, last
    <3> QED
      BY <1>1, <3>1, ElementOfSeq
  <2>2. /\ last - first + 1 = PaddingSize
        /\ \A k \in 1 .. PaddingSize : first + k - 1 = (at + 15) + k
    BY <1>3
  <2>3. padding = SubSeq(bytes, first, last)
    OBVIOUS
  <2> HIDE DEF first, last, padding
  <2>4. \A k \in 1 .. last - first + 1 : padding[k] = bytes[first + k - 1]
    BY <2>1, <2>3, SubSeqProperties
  <2> QED
    BY <2>2, <2>4
<1> HIDE DEF padding
<1>10. ASSUME NEW i \in 1 .. Len(bytes), i > at + 14 PROVE bytes[i] = 0
  <2>1. CASE i = at + 15
    BY <1>7, <2>1
  <2>2. CASE i # at + 15
    <3> DEFINE k == i - (at + 15)
    <3>1. k \in 1 .. PaddingSize /\ (at + 15) + k = i
      BY <1>3, <1>4, <1>10, <2>2
    <3> HIDE DEF k
    <3>2. padding[k] = 0
      BY <1>3, <1>8, <3>1, ZerosAre
    <3> QED
      BY <1>9, <3>1, <3>2
  <2> QED
    BY <2>1, <2>2
<1> QED
  BY <1>10 DEF bytes, at, present

(* Words whose four bytes are the same are the same. *)
LEMMA SameWord ==
  ASSUME NEW bytes, NEW others, NEW pos \in Nat, NEW n \in Nat, pos + 4 <= n,
         \A i \in 1 .. n : bytes[i] = others[i]
  PROVE  ReadLe(bytes, pos) = ReadLe(others, pos)
<1>1. /\ bytes[pos + 1] = others[pos + 1] /\ bytes[pos + 2] = others[pos + 2]
      /\ bytes[pos + 3] = others[pos + 3] /\ bytes[pos + 4] = others[pos + 4]
  OBVIOUS
<1> QED
  BY <1>1 DEF ReadLe

(* A login that is taken though a part of it is missing: which fields it   *)
(* has and how long its data are was received, and its SessionInfo up to   *)
(* the one.                                                                *)
Reached(item, n) ==
  LET incoming == Incoming(WireBytes(item), n)
      present  == DOMAIN item.raw
      length   == LengthIn(incoming, present)
      at       == Position(present, "info", length)
  IN /\ "info" \in present /\ present \in SUBSET Fields
     /\ length \in Nat /\ ("data" \in present => length = Len(item.raw.data))
     /\ at \in Nat /\ HeaderSize <= at /\ at + 14 <= n
     /\ Stops(incoming, present) = {}
     /\ ReadFrom(incoming) = ReadFields(incoming, ReadLe(incoming, 0), present)

(* Behind what was received the buffer holds zeros, so the one of the      *)
(* SessionInfo, which is in the last field, must have been received.       *)
LEMMA LoginReached ==
  ASSUME NEW item, IsItem(item),
         NEW n \in 1 .. Len(WireBytes(item)), n <= LoginBuffer,
         ReadFrom(Incoming(WireBytes(item), n)).status = "complete",
         "info" \in DOMAIN ReadFrom(Incoming(WireBytes(item), n)).packet.fields
  PROVE  Reached(item, n)
<1> DEFINE bytes    == WireBytes(item)
           incoming == Incoming(bytes, n)
           present  == DOMAIN item.raw
           flagged  == FlaggedIn(incoming)
           length   == LengthIn(incoming, present)
           at       == Position(present, "info", length)
           atData   == Position(present, "dataLength", length)
           known    == IF "data" \in present THEN Len(item.raw.data) ELSE 0
<1>1. known \in Nat /\ ("data" \in present => known = Len(item.raw.data))
  BY FieldTypes, LenProperties
<1>2. present \in SUBSET Fields /\ ("data" \in present => "dataLength" \in present)
  BY DEF IsItem, Fields
<1> HIDE DEF known
<1>3. /\ bytes \in Seq(Byte) /\ FlaggedIn(bytes) = present
      /\ \A f \in present : PlacedAt(bytes, Position(present, f, known), RawField(item.raw, f))
  BY <1>1, WireIs
<1>4. /\ incoming \in Seq(Byte) /\ Len(incoming) = LoginBuffer
      /\ \A i \in 1 .. n : incoming[i] = bytes[i]
      /\ \A i \in n + 1 .. LoginBuffer : incoming[i] = 0
  <2> HIDE DEF bytes
  <2> QED
    BY <1>3, IncomingIs DEF bytes
<1>5. n \in Nat /\ Len(bytes) \in Nat /\ n <= Len(bytes) /\ LoginBuffer \in Nat
  BY <1>3, ReceiverAssumption, LenProperties
<1> HIDE DEF bytes, incoming, present
<1>6. /\ Stops(incoming, flagged) = {} /\ "info" \in flagged /\ flagged \in SUBSET Fields
      /\ ReadFrom(incoming) = ReadFields(incoming, ReadLe(incoming, 0), flagged)
  <2>1. flagged \in SUBSET Fields
    BY DEF FlaggedIn, Fields
  <2>2. ReadFrom(incoming).status = "complete" /\ "info" \in DOMAIN ReadFrom(incoming).packet.fields
    BY DEF incoming, bytes
  <2>3. ReadFrom(incoming) = ReadFields(incoming, ReadLe(incoming, 0), flagged)
    BY <2>2 DEF ReadFrom, FlaggedIn
  <2> HIDE DEF flagged
  <2>4. Stops(incoming, flagged) = {}
    <3> SUFFICES ASSUME Stops(incoming, flagged) # {} PROVE FALSE
      OBVIOUS
    <3> DEFINE first == FirstStop(incoming, flagged)
    <3>1. ReadFrom(incoming) = [status |-> FieldStatus(incoming, flagged, first)]
      BY <2>1, <2>3, ReadFieldsIs
    <3>2. first \in Stops(incoming, flagged)
      BY <2>1, FirstStopIs
    <3> HIDE DEF first
    <3>3. FieldStatus(incoming, flagged, first) # "complete"
      BY <3>2 DEF Stops
    <3> QED
      BY <2>2, <3>1, <3>3
  <2>5. DOMAIN ReadFrom(incoming).packet.fields = flagged
    BY <2>1, <2>3, <2>4, ReadFieldsIs
  <2> QED
    BY <2>1, <2>2, <2>3, <2>4, <2>5
<1>7. flagged = present
  <2> DEFINE start == Position(flagged, "info", LengthIn(incoming, flagged))
  <2>1. start \in Nat /\ HeaderSize <= start /\ start + 14 <= LoginBuffer /\ incoming[start + 14] = 1
    BY <1>4, <1>6, ValidInfoHasOne
  <2> HIDE DEF start, flagged
  <2>2. start + 14 <= n
    <3> SUFFICES ASSUME ~ (start + 14 <= n) PROVE FALSE
      OBVIOUS
    <3>1. start + 14 \in n + 1 .. LoginBuffer
      BY <1>5, <2>1
    <3>2. incoming[start + 14] = 0
      BY <1>4, <3>1
    <3> QED
      BY <2>1, <3>2
  <2> DEFINE pos == 4
  <2>3. pos \in Nat /\ pos + 4 <= n
    BY <1>5, <2>1, <2>2 DEF HeaderSize
  <2> HIDE DEF pos
  <2>4. ReadLe(incoming, pos) = ReadLe(bytes, pos)
    BY <1>4, <1>5, <2>3, SameWord
  <2>5. FlaggedIn(incoming) = FlaggedIn(bytes)
    BY <2>4 DEF FlaggedIn, pos
  <2> QED
    BY <1>3, <2>5 DEF flagged
<1>8. length \in Nat /\ at \in Nat
  <2>1. length \in Nat
    BY LengthIsNumber
  <2> HIDE DEF length
  <2> QED
    BY <1>2, <2>1, SizesAreNumbers
<1>9. at + 14 <= LoginBuffer /\ incoming[at + 14] = 1 /\ HeaderSize <= at
  BY <1>4, <1>6, <1>7, ValidInfoHasOne
<1> HIDE DEF flagged, length
<1>10. at + 14 <= n
  <2> SUFFICES ASSUME ~ (at + 14 <= n) PROVE FALSE
    OBVIOUS
  <2> HIDE DEF at
  <2>1. at + 14 \in n + 1 .. LoginBuffer
    BY <1>5, <1>8, <1>9
  <2>2. incoming[at + 14] = 0
    BY <1>4, <2>1
  <2> QED
    BY <1>9, <2>2
<1>11. "dataLength" \in present => length = item.raw.dataLength
  <2> SUFFICES ASSUME "dataLength" \in present PROVE length = item.raw.dataLength
    OBVIOUS
  <2>1. "dataLength" # "data" /\ "data" \notin Before("dataLength")
    BY DataAreLater
  <2>2. /\ Position(present, "dataLength", 0) = atData
        /\ Position(present, "dataLength", known) = atData
    BY <2>1, LengthMovesLaterFields
  <2>3. atData \in Nat /\ atData + 4 <= at
    <3>1. atData \in Nat
      BY <1>2, <1>8, SizesAreNumbers
    <3>2. "info" \in Fields /\ "dataLength" \in Before("info")
      BY DEF Fields, PacketFlags, Before, FieldOrder
    <3>3. atData + FieldSize("dataLength", length) <= at
      BY <1>2, <1>8, <3>2, FieldEndsInside
    <3>4. FieldSize("dataLength", length) = 4
      BY DEF FieldSize
    <3> QED
      BY <3>1, <3>3, <3>4
  <2>4. ReadLe(bytes, atData) = item.raw.dataLength
    <3> DEFINE word == item.raw.dataLength
    <3>1. word \in Word
      BY FieldTypes DEF present
    <3>2. PlacedAt(bytes, atData, WriteLe(word))
      BY <1>3, <2>2 DEF RawField
    <3> HIDE DEF word, atData
    <3> QED
      BY <3>1, <3>2, PlacedWordIsRead DEF word
  <2> HIDE DEF atData, at
  <2>5. ReadLe(incoming, atData) = ReadLe(bytes, atData)
    <3>1. atData + 4 <= n
      BY <1>5, <1>8, <1>10, <2>3
    <3> QED
      BY <1>4, <1>5, <2>3, <3>1, SameWord
  <2>6. Status(incoming, atData, "dataLength", 0) = "complete"
    <3>1. FieldStatus(incoming, present, "dataLength") = "complete"
      BY <1>6, <1>7 DEF Stops
    <3>2. Status(incoming, atData, "dataLength", length) = "complete"
      BY <3>1 DEF FieldStatus, length, atData
    <3> QED
      BY <3>2 DEF Status, FieldSize, IsValid
  <2> QED
    BY <2>2, <2>4, <2>5, <2>6 DEF LengthIn, length
<1>12. "data" \in present => length = Len(item.raw.data)
  BY <1>2, <1>11 DEF IsItem, present
<1> HIDE DEF at
<1>13. ReadFrom(incoming) = ReadFields(incoming, ReadLe(incoming, 0), present)
  BY <1>6, <1>7
<1>14. Stops(incoming, present) = {} /\ "info" \in present
  BY <1>6, <1>7
<1> QED
  BY <1>2, <1>8, <1>9, <1>10, <1>12, <1>13, <1>14, Zenon DEF Reached, at, length, incoming, bytes, present

(* All that is missing is zeros, if that is what the SessionInfo ends with. *)
LEMMA MissingAreZeros ==
  ASSUME NEW item, IsItem(item), ZeroTail(item),
         NEW n \in 1 .. Len(WireBytes(item)), n <= LoginBuffer,
         ReadFrom(Incoming(WireBytes(item), n)).status = "complete",
         "info" \in DOMAIN ReadFrom(Incoming(WireBytes(item), n)).packet.fields
  PROVE  \A i \in n + 1 .. Len(WireBytes(item)) : WireBytes(item)[i] = 0
<1> DEFINE bytes    == WireBytes(item)
           present  == DOMAIN item.raw
           length   == LengthIn(Incoming(bytes, n), present)
           at       == Position(present, "info", length)
<1>1. /\ "info" \in present /\ length \in Nat /\ ("data" \in present => length = Len(item.raw.data))
      /\ at \in Nat /\ at + 14 <= n
  BY LoginReached DEF Reached
<1> HIDE DEF length
<1>2. \A i \in 1 .. Len(bytes) : i > at + 14 => bytes[i] = 0
  BY <1>1, TailIsZero
<1>3. bytes \in Seq(Byte)
  BY <1>1, WireIs
<1> HIDE DEF bytes, at
<1>4. n \in Nat /\ Len(bytes) \in Nat
  BY <1>3, LenProperties DEF bytes
<1>5. ASSUME NEW i \in n + 1 .. Len(bytes) PROVE bytes[i] = 0
  <2>1. i \in 1 .. Len(bytes) /\ i > at + 14
    BY <1>1, <1>4
  <2> QED
    BY <1>2, <2>1
<1> QED
  BY <1>5 DEF bytes

(* What was received is the beginning of what was sent. *)
SameFront(incoming, bytes, n) ==
  /\ incoming \in Seq(Byte) /\ bytes \in Seq(Byte)
  /\ n \in Nat /\ n <= Len(incoming) /\ n <= Len(bytes)
  /\ \A i \in 1 .. n : incoming[i] = bytes[i]

EndsInZeros(info) == [info EXCEPT !.alwaysZero = 0, !.padding = Zeros(PaddingSize)]

(* A SessionInfo of which the one was received is read as it is, with      *)
(* zeros at its end.                                                       *)
LEMMA InfoIsFilled ==
  ASSUME NEW bytes, NEW incoming, NEW n, SameFront(incoming, bytes, n),
         NEW at \in Nat, at + 14 <= n, VerifySessionInfo(ReadInfo(incoming, at))
  PROVE  ReadInfo(incoming, at) = EndsInZeros(ReadInfo(bytes, at))
<1> DEFINE read == ReadInfo(incoming, at)
           info == ReadInfo(bytes, at)
           mid  == at + 4
<1>0. /\ incoming \in Seq(Byte) /\ bytes \in Seq(Byte)
      /\ n \in Nat /\ n <= Len(incoming) /\ n <= Len(bytes)
      /\ \A i \in 1 .. n : incoming[i] = bytes[i]
  BY DEF SameFront
<1>1. mid \in Nat /\ mid + 4 <= n /\ at + 4 <= n
  BY <1>0
<1>2. ReadLe(incoming, at) = ReadLe(bytes, at)
  BY <1>0, <1>1, SameWord
<1>3. ReadLe(incoming, mid) = ReadLe(bytes, mid)
  <2> HIDE DEF mid
  <2> QED
    BY <1>0, <1>1, SameWord
<1>4. ReadBytes(incoming, at + 8, 5) = ReadBytes(bytes, at + 8, 5)
  <2> DEFINE first == (at + 8) + 1
             last  == (at + 8) + 5
             S     == Byte
             a     == SubSeq(incoming, first, last)
             b     == SubSeq(bytes, first, last)
  <2>1. /\ first \in Int /\ last \in Int /\ first <= last /\ last - first + 1 = 5
        /\ \A i \in first .. last : i \in 1 .. n /\ i \in 1 .. Len(bytes) /\ i \in 1 .. Len(incoming)
        /\ \A k \in 1 .. 5 : first + k - 1 \in first .. last
    <3>1. Len(bytes) \in Nat /\ Len(incoming) \in Nat
      BY <1>0, LenProperties
    <3> QED
      BY <1>0, <3>1
  <2>2. \A i \in first .. last : incoming[i] \in S /\ bytes[i] \in S /\ incoming[i] = bytes[i]
    <3> HIDE DEF first, last
    <3> QED
      BY <1>0, <2>1, ElementOfSeq
  <2> HIDE DEF first, last, S
  <2>3. /\ a \in Seq(S) /\ Len(a) = IF first <= last THEN last - first + 1 ELSE 0
        /\ \A k \in 1 .. last - first + 1 : a[k] = incoming[first + k - 1]
    BY <2>1, <2>2, SubSeqProperties
  <2>4. /\ b \in Seq(S) /\ Len(b) = IF first <= last THEN last - first + 1 ELSE 0
        /\ \A k \in 1 .. last - first + 1 : b[k] = bytes[first + k - 1]
    BY <2>1, <2>2, SubSeqProperties
  <2> HIDE DEF a, b
  <2>5. Len(a) = Len(b) /\ \A k \in 1 .. Len(a) : a[k] = b[k]
    BY <2>1, <2>2, <2>3, <2>4
  <2>6. a = b
    BY <2>3, <2>4, <2>5, SeqEqual
  <2> QED
    BY <2>6 DEF ReadBytes, a, b, first, last
<1>5. incoming[at + 14] = bytes[at + 14]
  <2>1. at + 14 \in 1 .. n
    BY <1>0
  <2> QED
    BY <1>0, <2>1
<1> DEFINE crc1    == ReadLe(bytes, at)
           crc2    == ReadLe(bytes, mid)
           content == ReadBytes(bytes, at + 8, 5)
           one     == bytes[at + 14]
           zero    == bytes[at + 15]
           padding == ReadBytes(bytes, at + 15, PaddingSize)
           zeros   == Zeros(PaddingSize)
<1>6. info = [crc1 |-> crc1, crc2 |-> crc2, content |-> content, alwaysOne |-> one,
              alwaysZero |-> zero, padding |-> padding]
  BY DEF ReadInfo
<1>7. read = [crc1 |-> crc1, crc2 |-> crc2, content |-> content, alwaysOne |-> one,
              alwaysZero |-> 0, padding |-> zeros]
  <2>1. read.alwaysZero = 0 /\ read.padding = zeros
    BY Zenon DEF VerifySessionInfo
  <2>2. incoming[at + 15] = 0 /\ ReadBytes(incoming, at + 15, PaddingSize) = zeros
    BY <2>1 DEF ReadInfo
  <2>3. read = [crc1 |-> ReadLe(incoming, at), crc2 |-> ReadLe(incoming, mid),
                content |-> ReadBytes(incoming, at + 8, 5), alwaysOne |-> incoming[at + 14],
                alwaysZero |-> incoming[at + 15],
                padding |-> ReadBytes(incoming, at + 15, PaddingSize)]
    BY DEF ReadInfo
  <2> HIDE DEF read, zeros, crc1, crc2, content, one, mid
  <2> QED
    BY <1>2, <1>3, <1>4, <1>5, <2>2, <2>3 DEF crc1, crc2, content, one
<1> HIDE DEF read, info, crc1, crc2, content, one, zero, padding, zeros
<1>8. read = [info EXCEPT !.alwaysZero = 0, !.padding = zeros]
  <2> DEFINE nought == 0
  <2> HIDE DEF nought
  <2>1. [info EXCEPT !.alwaysZero = nought]
          = [crc1 |-> crc1, crc2 |-> crc2, content |-> content, alwaysOne |-> one,
             alwaysZero |-> nought, padding |-> padding]
    BY <1>6
  <2> DEFINE part == [info EXCEPT !.alwaysZero = nought]
  <2>2. part = [crc1 |-> crc1, crc2 |-> crc2, content |-> content, alwaysOne |-> one,
                alwaysZero |-> nought, padding |-> padding]
    BY <2>1
  <2> HIDE DEF part
  <2>4. [part EXCEPT !.padding = zeros]
          = [crc1 |-> crc1, crc2 |-> crc2, content |-> content, alwaysOne |-> one,
             alwaysZero |-> nought, padding |-> zeros]
    BY <2>2
  <2>3. [info EXCEPT !.alwaysZero = nought, !.padding = zeros] = [part EXCEPT !.padding = zeros]
    BY DEF part
  <2> QED
    BY <1>7, <2>3, <2>4 DEF nought
<1> QED
  BY <1>8 DEF read, info, zeros, EndsInZeros

(* What the zero-filled item means: the same but for the SessionInfo.      *)
LEMMA FilledMeans ==
  ASSUME NEW item, "info" \in DOMAIN item.raw, item.raw.info \in InfoRecords
  PROVE  LET filled == Meaning(ZeroFilled(item))
         IN /\ filled = [code |-> item.code, fields |-> filled.fields]
            /\ filled.fields = [f \in DOMAIN item.raw |-> filled.fields[f]]
            /\ \A f \in DOMAIN item.raw \ {"info"} : filled.fields[f] = Meaning(item).fields[f]
            /\ filled.fields.info = [EndsInZeros(item.raw.info) EXCEPT !.content[3] = GameRelease]
<1> DEFINE raw    == item.raw
           info   == EndsInZeros(item.raw.info)
           zeroed == ZeroFilled(item)
           means(r) == [f \in DOMAIN r |-> CASE f \in {"data", "name"} -> Text(r, f)
                                             [] f = "info" -> [r.info EXCEPT !.content[3] = GameRelease]
                                             [] OTHER -> r[f]]
<1>1. zeroed.code = item.code /\ zeroed.raw = [raw EXCEPT !.info = info]
  BY DEF ZeroFilled, EndsInZeros
<1>2. /\ Meaning(zeroed) = [code |-> zeroed.code, fields |-> means(zeroed.raw)]
      /\ Meaning(item) = [code |-> item.code, fields |-> means(item.raw)]
  BY DEF Meaning
<1> HIDE DEF zeroed, info
<1>3. /\ DOMAIN zeroed.raw = DOMAIN raw /\ zeroed.raw.info = info
      /\ \A f \in DOMAIN raw \ {"info"} : zeroed.raw[f] = raw[f]
  BY <1>1
<1>4. ASSUME NEW f \in DOMAIN raw \ {"info"} PROVE means(zeroed.raw)[f] = means(raw)[f]
  <2>1. CASE f = "data"
    <3>1. Text(zeroed.raw, f) = Text(raw, f)
      BY <1>3, <2>1 DEF Text
    <3> QED
      BY <1>3, <2>1, <3>1
  <2>2. CASE f = "name"
    <3>1. Text(zeroed.raw, f) = Text(raw, f)
      BY <1>3, <2>2 DEF Text
    <3> QED
      BY <1>3, <2>2, <3>1
  <2>3. CASE f \notin {"data", "name", "info"}
    BY <1>3, <2>3
  <2> QED
    BY <2>1, <2>2, <2>3
<1>5. means(zeroed.raw).info = [info EXCEPT !.content[3] = GameRelease]
  BY <1>3
<1>6. means(zeroed.raw) = [f \in DOMAIN raw |-> means(zeroed.raw)[f]]
  BY <1>3
<1> HIDE DEF means, raw
<1> QED
  BY <1>1, <1>2, <1>4, <1>5, <1>6 DEF zeroed, info, raw

(* Whatever a login ends with, it is taken only when all but its end has   *)
(* arrived, and for what the client sent with zeros there.                 *)
LEMMA LoginIsRead ==
  ASSUME NEW item, IsItem(item),
         NEW n \in 1 .. Len(WireBytes(item)), n <= LoginBuffer,
         ReadFrom(Incoming(WireBytes(item), n)).status = "complete",
         "info" \in DOMAIN ReadFrom(Incoming(WireBytes(item), n)).packet.fields
  PROVE  /\ n >= HeaderSize /\ n >= Len(WireBytes(item)) - (PaddingSize + 1)
         /\ ReadFrom(Incoming(WireBytes(item), n)).packet = Meaning(ZeroFilled(item))
<1> DEFINE bytes    == WireBytes(item)
           incoming == Incoming(bytes, n)
           present  == DOMAIN item.raw
           length   == LengthIn(incoming, present)
           pos(f)   == Position(present, f, length)
           at       == pos("info")
           info     == item.raw.info
           filled   == Meaning(ZeroFilled(item))
<1>1. /\ "info" \in present /\ present \in SUBSET Fields
      /\ length \in Nat /\ ("data" \in present => length = Len(item.raw.data))
      /\ at \in Nat /\ HeaderSize <= at /\ at + 14 <= n
      /\ Stops(incoming, present) = {}
      /\ ReadFrom(incoming) = ReadFields(incoming, ReadLe(incoming, 0), present)
  BY LoginReached DEF Reached
<1>2. /\ bytes \in Seq(Byte) /\ Len(bytes) = HeaderSize + TotalSize(present, length)
      /\ ReadLe(bytes, 0) = item.code
      /\ \A f \in present : PlacedAt(bytes, pos(f), RawField(item.raw, f))
  <2> HIDE DEF length
  <2> QED
    BY <1>1, WireIs
<1>3. /\ incoming \in Seq(Byte) /\ Len(incoming) = LoginBuffer
      /\ \A i \in 1 .. n : incoming[i] = bytes[i]
  <2> HIDE DEF bytes
  <2> QED
    BY <1>2, IncomingIs DEF bytes
<1>4. info \in InfoRecords
  BY <1>1, FieldTypes
<1>5. /\ n \in Nat /\ n <= Len(bytes) /\ n <= LoginBuffer /\ Len(bytes) \in Nat
      /\ LoginBuffer \in Nat /\ PaddingSize \in Nat
  BY <1>2, ReceiverAssumption, CodecAssumption, LenProperties
<1>6. ReadInfo(bytes, at) = info
  <2>1. PlacedAt(bytes, at, InfoBytes(info))
    BY <1>1, <1>2 DEF RawField
  <2> HIDE DEF bytes, at, info
  <2> QED
    BY <1>4, <2>1, InfoIsRead
<1>7. ReadFrom(incoming).packet
        = [code |-> ReadLe(incoming, 0),
           fields |-> [f \in present |-> ReadField(incoming, pos(f), f, length)]]
  <2> DEFINE code == ReadLe(incoming, 0)
             all  == [f \in present |-> ReadField(incoming, pos(f), f, length)]
  <2>1. ReadFields(incoming, code, present)
          = [status |-> "complete", size |-> HeaderSize + TotalSize(present, length),
             packet |-> [code |-> code, fields |-> all]]
    <3> HIDE DEF incoming, present, code
    <3> QED
      BY <1>1, ReadFieldsIs
  <2>2. ReadFrom(incoming) = ReadFields(incoming, code, present)
    BY <1>1
  <2> HIDE DEF all, code
  <2> QED
    BY <2>1, <2>2 DEF all, code
<1>8. VerifySessionInfo(ReadInfo(incoming, at))
  <2>1. FieldStatus(incoming, present, "info") = "complete"
    BY <1>1 DEF Stops
  <2>2. Status(incoming, at, "info", length) = "complete"
    BY <2>1 DEF FieldStatus
  <2> HIDE DEF incoming, at
  <2> QED
    BY <2>2 DEF Status, IsValid
<1> HIDE DEF bytes, incoming, length, info
<1>9. n >= HeaderSize /\ n >= Len(bytes) - (PaddingSize + 1)
  <2>1. at + InfoSize = HeaderSize + TotalSize(present, length)
    <3> HIDE DEF present
    <3> QED
      BY <1>1, InfoIsLast
  <2>2. Len(bytes) = at + (15 + PaddingSize)
    BY <1>2, <2>1 DEF InfoSize
  <2> HIDE DEF at
  <2>3. HeaderSize \in Nat
    BY DEF HeaderSize
  <2> QED
    BY <1>1, <1>5, <2>2, <2>3
<1>10. ReadLe(incoming, 0) = item.code
  <2> DEFINE pos0 == 0
  <2>1. pos0 \in Nat /\ pos0 + 4 <= n
    <3> HIDE DEF at
    <3> QED
      BY <1>1, <1>5 DEF HeaderSize
  <2> HIDE DEF pos0
  <2>2. ReadLe(incoming, pos0) = ReadLe(bytes, pos0)
    BY <1>3, <1>5, <2>1, SameWord
  <2> QED
    BY <1>2, <2>2 DEF pos0
<1>11. ASSUME NEW f \in present \ {"info"}
       PROVE  ReadField(incoming, pos(f), f, length) = Meaning(item).fields[f]
  <2> DEFINE start == pos(f)
             part  == RawField(item.raw, f)
  <2>1. PlacedAt(bytes, start, part)
    BY <1>2
  <2>2. Len(part) = FieldSize(f, length) /\ part \in Seq(Byte)
    BY <1>1, PartsHaveSizes
  <2>3. start + FieldSize(f, length) <= at /\ start \in Nat
    <3>1. \A g \in Fields : g \in Before("info") <=> g # "info"
      BY DEF Fields, PacketFlags, Before, FieldOrder
    <3>2. "info" \in Fields /\ f \in Before("info") /\ f \in present
      BY <1>1, <3>1
    <3>3. start + FieldSize(f, length) <= at
      <4> HIDE DEF present
      <4> QED
        BY <1>1, <3>2, FieldEndsInside
    <3>4. start \in Nat
      <4> HIDE DEF present
      <4> QED
        BY <1>1, SizesAreNumbers
    <3> QED
      BY <3>3, <3>4
  <2> HIDE DEF start, part, at
  <2>4. PlacedAt(incoming, start, part)
    <3>1. /\ part \in Seq(Byte) /\ Len(part) \in Nat /\ start + Len(part) <= n
          /\ \A k \in 1 .. Len(part) : bytes[start + k] = part[k]
      <4>1. Len(part) \in Nat
        BY <2>2, LenProperties
      <4>2. start + Len(part) <= n
        BY <1>1, <1>5, <2>2, <2>3, <4>1
      <4> QED
        BY <2>1, <2>2, <4>1, <4>2 DEF PlacedAt
    <3>2. \A k \in 1 .. Len(part) : start + k \in 1 .. n
      BY <1>5, <2>3, <3>1
    <3>3. \A k \in 1 .. Len(part) : incoming[start + k] = part[k]
      BY <1>3, <3>1, <3>2
    <3>4. start + Len(part) <= Len(incoming)
      BY <1>3, <1>5, <2>3, <3>1
    <3> QED
      BY <1>3, <2>3, <3>1, <3>3, <3>4 DEF PlacedAt
  <2>5. ReadField(incoming, start, f, length) = Meaning(item).fields[f]
    BY <1>1, <2>4, FieldIsRead DEF part
  <2> QED
    BY <2>5 DEF start
<1>12. ReadField(incoming, at, "info", length)
         = [EndsInZeros(info) EXCEPT !.content[3] = GameRelease]
  <2>1. ReadField(incoming, at, "info", length)
          = [ReadInfo(incoming, at) EXCEPT !.content[3] = GameRelease]
    BY DEF ReadField
  <2> HIDE DEF at
  <2>2. ReadInfo(incoming, at) = EndsInZeros(ReadInfo(bytes, at))
    <3>1. at \in Nat /\ at + 14 <= n /\ SameFront(incoming, bytes, n)
      BY <1>1, <1>2, <1>3, <1>5 DEF SameFront
    <3>2. VerifySessionInfo(ReadInfo(incoming, at))
      BY <1>8 DEF at
    <3> QED
      BY <3>1, <3>2, InfoIsFilled
  <2> QED
    BY <1>6, <2>1, <2>2
<1>13. /\ filled = [code |-> item.code, fields |-> filled.fields]
       /\ filled.fields = [f \in present |-> filled.fields[f]]
       /\ \A f \in present \ {"info"} : filled.fields[f] = Meaning(item).fields[f]
       /\ filled.fields.info = [EndsInZeros(info) EXCEPT !.content[3] = GameRelease]
  BY <1>1, <1>4, FilledMeans DEF info
<1> HIDE DEF filled
<1>14. \A f \in present : ReadField(incoming, pos(f), f, length) = filled.fields[f]
  <2> SUFFICES ASSUME NEW f \in present
               PROVE  ReadField(incoming, pos(f), f, length) = filled.fields[f]
    OBVIOUS
  <2>1. CASE f = "info"
    BY <1>12, <1>13, <2>1
  <2>2. CASE f # "info"
    BY <1>11, <1>13, <2>2
  <2> QED
    BY <2>1, <2>2
<1>15. [f \in present |-> ReadField(incoming, pos(f), f, length)] = filled.fields
  <2> DEFINE got(f) == ReadField(incoming, pos(f), f, length)
  <2>1. \A f \in present : got(f) = filled.fields[f]
    BY <1>14
  <2> HIDE DEF got
  <2>2. [f \in present |-> got(f)] = [f \in present |-> filled.fields[f]]
    BY <2>1
  <2> QED
    BY <1>13, <2>2 DEF got
<1>16. ReadFrom(incoming).packet = filled
  BY <1>7, <1>10, <1>13, <1>15
<1> QED
  BY <1>9, <1>16 DEF bytes, incoming, filled

(* A login that handleLogin takes is the first packet of the script. *)
LEMMA LoginIsFirst ==
  ASSUME StreamInv, NEW n \in 1 .. Len(net), ReceiveLogin(n), pc' # "badLogin"
  PROVE  /\ sent = 1 /\ handled = <<>> /\ buffer = <<>>
         /\ net \in Seq(Byte) /\ Len(net) = SizeOf(1)
         /\ WellFormed(script[1])
         /\ handled' = Append(handled, Meaning(script[1]))
         /\ \A i \in n + 1 .. Len(net) : net[i] = 0
<1> DEFINE packet == Wire[script[1]]
           read == ReadFrom(Incoming(net, n))
<1>1. /\ Types /\ pc = "login" /\ handled = <<>> /\ buffer = <<>> /\ sent <= 1
      /\ net \in Seq(Byte) /\ script \in Scripts /\ sent \in 0 .. Len(script)
      /\ n <= LoginBuffer /\ Len(net) \in Nat /\ Len(handled) = 0 /\ Len(buffer) = 0
  BY EmptySeq, LenProperties DEF StreamInv, Types, ReceiveLogin
<1>2. Aligned
  BY <1>1 DEF StreamInv, CutLogin
<1>3. sent = 1
  <2>1. net # <<>>
    BY <1>1, EmptySeq
  <2>2. Len(handled) < sent
    BY <1>1, <1>2, <2>1, AlignedAgrees
  <2> QED
    BY <1>1, <2>2, ScriptItems
<1>4. Len(net) = SizeOf(1) /\ SizeOf(1) = Len(packet)
  <2>1. buffer \o net = net
    BY <1>1, ConcatEmptySeq
  <2>2. 1 \in 1 .. Len(script) /\ 1 - 1 = 0
    BY <1>1, ScriptItems
  <2>3. /\ Sizes[script][0] = 0 /\ Sizes[script][1] = Sizes[script][0] + Len(packet)
        /\ Len(packet) \in Nat
    BY <1>1, <2>2, ScriptItems, SizesAreSums
  <2>4. Len(net) = Sizes[script][1] - Sizes[script][0]
    BY <1>1, <1>2, <1>3, <2>1 DEF Aligned, Ahead
  <2> QED
    BY <2>3, <2>4 DEF SizeOf
<1>5. \A i \in 1 .. Len(packet) : net[i] = packet[i]
  <2>1. buffer \o net = net
    BY <1>1, ConcatEmptySeq
  <2>2. Extends(net, Wire[script[0 + 1]])
    <3>1. Len(handled) \in 0 .. sent /\ Len(handled) < sent
      BY <1>1, <1>3
    <3>2. Ahead(script, net, 0, sent)
      BY <1>1, <1>2, <2>1 DEF Aligned
    <3> QED
      BY <1>1, <3>1, <3>2, AheadFirst
  <2> QED
    BY <2>2 DEF Extends
<1>6. /\ net' = SubSeq(net, n + 1, Len(net)) /\ script' = script /\ sent' = sent
      /\ buffer' = buffer /\ read.status = "complete"
      /\ handled' = Append(handled, read.packet)
  BY DEF ReceiveLogin
<1>7. \A i \in n + 1 .. Len(net) : net[i] = 0
  <2> DEFINE item == script[1]
  <2>1. /\ IsItem(item) /\ packet = WireBytes(item) /\ packet \in Seq(Byte)
        /\ ZeroTail(item)
    <3>1. 1 \in 1 .. Len(script)
      BY <1>1, ScriptItems
    <3>2. item \in Items
      BY <1>1, <3>1, ScriptItems
    <3>3. ZeroTail(item)
      BY DEF StreamInv, ZeroPadding
    <3> HIDE DEF item
    <3> QED
      BY <3>2, <3>3, ItemsAre DEF item
  <2>2. net = packet
    <3> HIDE DEF packet
    <3> QED
      BY <1>1, <1>4, <1>5, <2>1, SeqEqual
  <2>3. read.status = "complete" /\ "info" \in DOMAIN read.packet.fields
    BY DEF ReceiveLogin, IsLogin
  <2> HIDE DEF item, packet
  <2>4. net = WireBytes(item)
    BY <2>1, <2>2
  <2> QED
    BY <1>1, <2>1, <2>3, <2>4, MissingAreZeros
<1>8. read = ReadFrom(packet)
  <2> DEFINE held == Incoming(net, n)
  <2>1. /\ held \in Seq(Byte) /\ Len(held) = LoginBuffer
        /\ \A i \in 1 .. n : held[i] = net[i]
        /\ \A i \in n + 1 .. LoginBuffer : held[i] = 0
    BY <1>1, IncomingIs
  <2>2. packet \in Seq(Byte) /\ ReadFrom(packet).status # "partial"
    <3>1. 1 \in 1 .. Len(script)
      BY <1>1, ScriptItems
    <3> QED
      BY <1>1, <3>1, ReadAlone
  <2>3. ReadFrom(held).status # "partial"
    BY <1>6
  <2> HIDE DEF held, packet
  <2>4. ASSUME NEW i \in 1 .. Len(packet), i <= Len(held) PROVE held[i] = packet[i]
    <3>1. i \in 1 .. Len(net) /\ n \in Nat /\ i \in Nat /\ i <= LoginBuffer
      BY <1>1, <1>4, <2>1, <2>4
    <3>2. net[i] = packet[i]
      BY <1>5 DEF packet
    <3>3. CASE i <= n
      BY <2>1, <3>1, <3>2, <3>3
    <3>4. CASE ~ (i <= n)
      <4>1. i \in n + 1 .. Len(net) /\ i \in n + 1 .. LoginBuffer
        BY <3>1, <3>4, ReceiverAssumption
      <4> QED
        BY <1>7, <2>1, <3>2, <4>1
    <3> QED
      BY <3>3, <3>4
  <2>5. ReadFrom(held) = ReadFrom(packet)
    BY <2>1, <2>2, <2>3, <2>4, FirstPacket
  <2> QED
    BY <2>5 DEF held
<1>9. WellFormed(script[1]) /\ read.packet = Meaning(script[1])
  <2>1. 1 \in 1 .. Len(script)
    BY <1>1, ScriptItems
  <2>2. ReadFrom(packet).status = "complete"
    BY <1>6, <1>8
  <2>3. WellFormed(script[1])
    BY <1>1, <2>1, <2>2, ReadAlone
  <2>4. ReadFrom(packet) = [status |-> "complete", size |-> Len(packet),
                            packet |-> Meaning(script[1])]
    BY <1>1, <2>1, <2>3, ReadAlone
  <2> QED
    BY <1>8, <2>3, <2>4
<1> QED
  BY <1>1, <1>3, <1>4, <1>6, <1>7, <1>9

(* The login is received, all of it or as much as matters, or the session  *)
(* ends.                                                                   *)
LEMMA ReceiveLoginStep ==
  ASSUME StreamInv, NEW n \in 1 .. Len(net), ReceiveLogin(n)
  PROVE  StreamInv'
<1>1. /\ Types /\ AsMeant /\ pc = "login" /\ handled = <<>> /\ buffer = <<>>
      /\ net \in Seq(Byte) /\ script \in Scripts /\ sent \in 0 .. Len(script)
      /\ n \in 0 .. Len(net) /\ n \in Nat /\ n >= 1 /\ Len(net) \in Nat
      /\ Len(handled) = 0 /\ Len(buffer) = 0 /\ Len(net) + Len(buffer) <= SizeOf(sent)
  BY EmptySeq, LenProperties DEF StreamInv, Types, ReceiveLogin
<1>2. /\ script' = script /\ sent' = sent /\ buffer' = <<>> /\ threw' = threw
      /\ net' = SubSeq(net, n + 1, Len(net))
      /\ pc' \in {"badLogin", "refused", "receive"}
      /\ pc' = "badLogin" => handled' = handled
  BY <1>1 DEF ReceiveLogin
<1>3. /\ net' \in Seq(Byte) /\ Len(net') = Len(net) - n
      /\ \A i \in 1 .. Len(net) - n : net'[i] = net[n + i]
  BY <1>1, <1>2, BehindFirst
<1>4. /\ buffer' \in Seq(Byte) /\ buffer' \o net' = net' /\ Len(buffer') = 0
  BY <1>1, <1>2, <1>3, ConcatEmptySeq, EmptySeq
<1>5. (Len(net) + Len(buffer) <= SizeOf(sent))'
  <2>1. SizeOf(sent)' = SizeOf(sent) /\ SizeOf(sent) \in Nat
    BY <1>1, <1>2, SizesAreSums DEF SizeOf
  <2> QED
    BY <1>1, <1>3, <1>4, <2>1
<1>6. threw' \in BOOLEAN
  BY <1>1, <1>2, Zenon DEF Types
<1>7. pc' \in Running \cup Ended /\ pc' # "login" /\ pc' # "badPacket"
  BY <1>2 DEF Running, Ended
<1>8. script' \in Scripts /\ sent' \in 0 .. Len(script') /\ ZeroPadding'
  BY <1>1, <1>2 DEF StreamInv, ZeroPadding
<1>9. CASE pc' = "badLogin"
  <2>1. handled' \in Seq(Meanings) /\ Len(handled') <= sent' /\ AsMeant'
    BY <1>1, <1>2, <1>9 DEF Types, AsMeant
  <2>2. Types'
    BY <1>3, <1>4, <1>5, <1>6, <1>7, <1>8, <2>1, Zenon DEF Types
  <2> QED
    BY <1>1, <1>2, <1>8, <1>9, <2>1, <2>2 DEF StreamInv
<1>10. CASE pc' # "badLogin"
  <2>1. /\ sent = 1 /\ Len(net) = SizeOf(1) /\ WellFormed(script[1])
        /\ handled' = Append(handled, Meaning(script[1]))
        /\ \A i \in n + 1 .. Len(net) : net[i] = 0
    BY <1>10, LoginIsFirst
  <2>2. handled' \in Seq(Meanings) /\ Len(handled') = 1 /\ AsMeant'
    <3>1. Len(handled) + 1 = 1 /\ Len(handled) < sent
      BY <1>1, <2>1
    <3> QED
      BY <1>1, <1>2, <2>1, <3>1, HandledGrows
  <2>3. Len(handled') <= sent'
    BY <1>2, <2>1, <2>2
  <2>4. Types'
    BY <1>3, <1>4, <1>5, <1>6, <1>7, <1>8, <2>2, <2>3, Zenon DEF Types
  <2>5. SizeOf(1)' = SizeOf(1) /\ SizeOf(sent)' = SizeOf(1) /\ SizeOf(1) \in Nat
    <3>1. sent \in 0 .. Len(script) /\ sent = 1
      BY <1>1, <2>1
    <3> QED
      BY <1>1, <1>2, <3>1, SizesAreSums DEF SizeOf
  <2>6. ASSUME n = Len(net)
        PROVE  Aligned'
    <3>1. Len(net') = 0
      BY <1>1, <1>3, <2>6
    <3>2. \A i \in Len(handled') + 1 .. sent' : FALSE
      BY <1>2, <2>1, <2>2
    <3>3. Len(net') = Sizes[script'][sent'] - Sizes[script'][Len(handled')]
      BY <1>2, <2>1, <2>2, <2>5, <3>1 DEF SizeOf
    <3> QED
      BY <1>4, <3>2, <3>3 DEF Aligned, Ahead
  <2>7. ASSUME n # Len(net)
        PROVE  CutLogin'
    <3>1. n < Len(net)
      BY <1>1, <2>7
    <3>2. ASSUME NEW i \in 1 .. Len(net') - (SizeOf(1) - SizeOf(1)) PROVE net'[i] = 0
      <4>1. i \in 1 .. Len(net) - n /\ n + i \in n + 1 .. Len(net)
        BY <1>1, <1>3, <2>5
      <4> QED
        BY <1>3, <2>1, <4>1
    <3>3. Len(net') \in (SizeOf(1) - SizeOf(1)) + 1 .. SizeOf(1)
      BY <1>1, <1>3, <2>1, <2>5, <3>1
    <3> QED
      BY <1>4, <2>2, <2>5, <3>2, <3>3 DEF CutLogin
  <2>8. Aligned' \/ CutLogin'
    BY <2>6, <2>7
  <2>9. ReadFrom(buffer').status = "partial"
    <3>1. Len(buffer') < HeaderSize
      BY <1>4 DEF HeaderSize
    <3> QED
      BY <1>4, <3>1, ShortIsPartial
  <2> QED
    BY <1>7, <1>8, <1>10, <2>2, <2>4, <2>8, <2>9, Zenon DEF StreamInv
<1> QED
  BY <1>9, <1>10

-----------------------------------------------------------------------------
(* What holds of the login whatever it ends with. *)

Packets == {ReadFrom(bytes).packet : bytes \in Seq(Byte)}

Basics == TypeOK /\ handled \in Seq(Packets)

(* The login is awaited by an empty reader, and taken before any packet is *)
(* received.                                                               *)
Opened ==
  /\ pc = "login" =>
       /\ handled = <<>> /\ buffer = <<>>
       /\ (sent = 0 /\ net = <<>>) \/ (sent = 1 /\ net = Wire[script[1]])
  /\ pc \in {"receive", "read", "badPacket"} => handled # <<>>

Taken == LoginIsWhole /\ (handled # <<>> => IsLogin(handled[1]))

LoginInv == Basics /\ Opened /\ Taken

(* The numbers in it. *)
LEMMA NumbersAre ==
  ASSUME Basics
  PROVE  /\ script \in Scripts /\ Len(script) \in Nat \ {0} /\ sent \in 0 .. Len(script)
         /\ net \in Seq(Byte) /\ buffer \in Seq(Byte)
         /\ Len(net) \in Nat /\ Len(buffer) \in Nat /\ Len(handled) \in Nat
         /\ SizeOf(1) \in Nat /\ SizeOf(sent) \in Nat /\ Used \in Int
         /\ Used = SizeOf(sent) - Len(net) - Len(buffer)
         /\ HeaderSize * Len(handled) <= Used
<1>1. /\ script \in Scripts /\ sent \in 0 .. Len(script) /\ handled \in Seq(Packets)
      /\ net \in Seq(Byte) /\ buffer \in Seq(Byte)
      /\ HeaderSize * Len(handled) <= Used
  BY DEF Basics, TypeOK
<1>2. Len(script) \in Nat \ {0} /\ Sizes[script] \in [0 .. Len(script) -> Nat]
  BY <1>1, ScriptItems, SizesAreSums
<1>3. Len(net) \in Nat /\ Len(buffer) \in Nat /\ Len(handled) \in Nat
  BY <1>1, LenProperties
<1>4. 1 \in 0 .. Len(script)
  BY <1>2
<1>5. SizeOf(1) \in Nat /\ SizeOf(sent) \in Nat
  BY <1>1, <1>2, <1>4 DEF SizeOf
<1>6. Used = SizeOf(sent) - Len(net) - Len(buffer)
  BY DEF Used
<1> QED
  BY <1>1, <1>2, <1>3, <1>5, <1>6

(* What was taken stays what it is. *)
LEMMA TakenStays ==
  ASSUME LoginInv, script' = script, Used' \in Int, Used' >= Used,
         handled' # <<>> => handled # <<>> /\ handled'[1] = handled[1]
  PROVE  Taken'
<1>1. SizeOf(1) \in Nat /\ Used \in Int /\ PaddingSize \in Nat
  BY NumbersAre, CodecAssumption DEF LoginInv
<1>2. SizeOf(1)' = SizeOf(1)
  BY DEF SizeOf
<1> SUFFICES ASSUME handled' # <<>> PROVE Taken'
  BY DEF Taken, LoginIsWhole
<1>3. /\ Used >= SizeOf(1) - (PaddingSize + 1) /\ handled[1] = Meaning(ZeroFilled(script[1]))
      /\ IsLogin(handled[1]) /\ handled'[1] = handled[1]
  BY DEF LoginInv, Taken, LoginIsWhole
<1>4. Used' >= SizeOf(1)' - (PaddingSize + 1)
  BY <1>1, <1>2, <1>3
<1> QED
  BY <1>3, <1>4 DEF Taken, LoginIsWhole

(* Steps that leave the packets that were handled, and the bytes that are  *)
(* used up, as they are.                                                   *)
LEMMA NothingIsUsed ==
  ASSUME LoginInv, script' = script, handled' = handled,
         Used' = Used, sent' \in 0 .. Len(script),
         net' \in Seq(Byte), buffer' \in Seq(Byte), pc' \in Running \cup Ended,
         threw' \in BOOLEAN
  PROVE  Basics' /\ Taken'
<1>1. Used \in Int
  BY NumbersAre DEF LoginInv
<1>2. Taken'
  BY <1>1, TakenStays
<1>3. /\ script \in Scripts /\ HeaderSize * Len(handled) <= Used /\ handled \in Seq(Packets)
  BY DEF LoginInv, Basics, TypeOK
<1>4. script' \in Scripts /\ sent' \in 0 .. Len(script') /\ handled' \in Seq(Packets)
      /\ HeaderSize * Len(handled') <= Used'
  BY <1>3
<1>5. Basics'
  BY <1>4, Zenon DEF Basics, TypeOK
<1> QED
  BY <1>2, <1>5

(* The client sends its next packet. *)
LEMMA ClientSendsKeeps ==
  ASSUME LoginInv, ClientSends
  PROVE  LoginInv'
<1> DEFINE packet == Wire[script[sent + 1]]
<1>1. /\ script \in Scripts /\ Len(script) \in Nat \ {0} /\ sent \in 0 .. Len(script)
      /\ net \in Seq(Byte) /\ buffer \in Seq(Byte)
      /\ Len(net) \in Nat /\ Len(buffer) \in Nat /\ SizeOf(sent) \in Nat
      /\ Used = SizeOf(sent) - Len(net) - Len(buffer)
  BY NumbersAre DEF LoginInv
<1>2. /\ sent < Len(script) /\ (sent = 0 \/ pc \in {"receive", "read"})
      /\ script' = script /\ sent' = sent + 1 /\ net' = net \o packet
      /\ buffer' = buffer /\ handled' = handled /\ pc' = pc /\ threw' = threw
  BY DEF ClientSends
<1>3. /\ sent + 1 \in 1 .. Len(script) /\ (sent + 1) - 1 = sent
      /\ packet \in Seq(Byte) /\ Len(packet) \in Nat
  BY <1>1, <1>2, ScriptItems, LenProperties
<1>4. SizeOf(sent + 1) = SizeOf(sent) + Len(packet)
  BY <1>1, <1>3, SizesAreSums DEF SizeOf
<1>5. SizeOf(sent)' = SizeOf(sent + 1)
  BY <1>2 DEF SizeOf
<1> HIDE DEF packet
<1>6. net' \in Seq(Byte) /\ Len(net') = Len(net) + Len(packet)
  BY <1>1, <1>2, <1>3, ConcatProperties
<1>7. Used' = Used
  BY <1>1, <1>2, <1>3, <1>4, <1>5, <1>6 DEF Used
<1>8. Basics' /\ Taken'
  <2>1. pc' \in Running \cup Ended /\ threw' \in BOOLEAN
    BY <1>2, Zenon DEF LoginInv, Basics, TypeOK
  <2>2. sent' \in 0 .. Len(script) /\ buffer' \in Seq(Byte)
    BY <1>1, <1>2, <1>3
  <2> QED
    BY <1>2, <1>6, <1>7, <2>1, <2>2, NothingIsUsed
<1>9. Opened'
  <2>1. ASSUME pc' = "login"
        PROVE  /\ handled' = <<>> /\ buffer' = <<>>
               /\ sent' = 1 /\ net' = Wire[script'[1]]
    <3>1. pc = "login" /\ sent = 0
      BY <1>2, <2>1
    <3>2. handled = <<>> /\ buffer = <<>> /\ net = <<>>
      BY <3>1 DEF LoginInv, Opened
    <3>3. net' = packet
      BY <1>2, <1>3, <3>2, ConcatEmptySeq
    <3>4. sent + 1 = 1
      BY <3>1
    <3> QED
      BY <1>2, <3>2, <3>3, <3>4 DEF packet
  <2>2. pc' \in {"receive", "read", "badPacket"} => handled' # <<>>
    BY <1>2 DEF LoginInv, Opened
  <2> QED
    BY <2>1, <2>2 DEF Opened
<1> QED
  BY <1>8, <1>9 DEF LoginInv

(* A receive. *)
LEMMA ReceiveKeeps ==
  ASSUME LoginInv, NEW n \in 1 .. Len(net), Receive(n)
  PROVE  LoginInv'
<1>1. /\ script \in Scripts /\ sent \in 0 .. Len(script)
      /\ net \in Seq(Byte) /\ buffer \in Seq(Byte)
      /\ Len(net) \in Nat /\ Len(buffer) \in Nat /\ SizeOf(sent) \in Nat
      /\ Used = SizeOf(sent) - Len(net) - Len(buffer)
  BY NumbersAre DEF LoginInv
<1>2. /\ pc = "receive" /\ pc' = "read" /\ threw' = FALSE
      /\ net' = SubSeq(net, n + 1, Len(net)) /\ buffer' = buffer \o SubSeq(net, 1, n)
      /\ script' = script /\ sent' = sent /\ handled' = handled
  BY DEF Receive
<1>3. /\ net' \in Seq(Byte) /\ buffer' \in Seq(Byte)
      /\ Len(buffer') + Len(net') = Len(buffer) + Len(net)
  BY <1>1, <1>2, ReceiveKeepsBytes
<1>4. Used' = Used
  <2>1. Len(buffer') \in Nat /\ Len(net') \in Nat
    BY <1>3, LenProperties
  <2>2. SizeOf(sent)' = SizeOf(sent)
    BY <1>2 DEF SizeOf
  <2>3. Used' = SizeOf(sent)' - Len(net') - Len(buffer')
    BY DEF Used
  <2> QED
    BY <1>1, <1>3, <2>1, <2>2, <2>3
<1>5. Basics' /\ Taken'
  <2>1. pc' \in Running \cup Ended /\ threw' \in BOOLEAN
    BY <1>2, Zenon DEF Running
  <2> QED
    BY <1>1, <1>2, <1>3, <1>4, <2>1, NothingIsUsed
<1>6. Opened'
  BY <1>2 DEF LoginInv, Opened
<1> QED
  BY <1>5, <1>6 DEF LoginInv

(* Steps that move no byte and handle no packet. *)
LEMMA WaitingKeeps ==
  ASSUME LoginInv, NeedsMore \/ ParseError \/ ReceiveFails \/ UNCHANGED vars
  PROVE  LoginInv'
<1>1. UNCHANGED <<script, sent, net, buffer, handled, threw>>
  BY DEF NeedsMore, ParseError, ReceiveFails, vars
<1>2. pc' \in Running \cup Ended
  BY DEF NeedsMore, ParseError, ReceiveFails, vars, Running, Ended, LoginInv, Basics, TypeOK
<1>3. Opened'
  BY <1>1 DEF NeedsMore, ParseError, ReceiveFails, vars, LoginInv, Opened
<1>4. Used' = Used
  BY <1>1 DEF Used, SizeOf
<1>5. Basics' /\ Taken'
  <2>1. /\ sent \in 0 .. Len(script) /\ net \in Seq(Byte) /\ buffer \in Seq(Byte)
    BY NumbersAre DEF LoginInv
  <2>2. threw' \in BOOLEAN
    <3>1. threw' = threw
      BY <1>1
    <3> QED
      BY <3>1, Zenon DEF LoginInv, Basics, TypeOK
  <2> QED
    BY <1>1, <1>2, <1>4, <2>1, <2>2, NothingIsUsed
<1> QED
  BY <1>3, <1>5 DEF LoginInv

(* A packet is handled. *)
LEMMA HandlePacketKeeps ==
  ASSUME LoginInv, HandlePacket
  PROVE  LoginInv'
<1> DEFINE size   == TryReadPacket.size
           packet == TryReadPacket.packet
<1>1. /\ script \in Scripts /\ sent \in 0 .. Len(script)
      /\ net \in Seq(Byte) /\ buffer \in Seq(Byte)
      /\ Len(net) \in Nat /\ Len(buffer) \in Nat /\ Len(handled) \in Nat /\ SizeOf(sent) \in Nat
      /\ Used \in Int /\ Used = SizeOf(sent) - Len(net) - Len(buffer)
      /\ HeaderSize * Len(handled) <= Used
  BY NumbersAre DEF LoginInv
<1>2. /\ pc = "read" /\ ReadFrom(buffer).status = "complete"
      /\ buffer' = SubSeq(buffer, size + 1, Len(buffer))
      /\ handled' = Append(handled, packet)
      /\ pc' \in {"read", "rejected", "receive"} /\ (threw' = threw \/ threw' = TRUE)
      /\ script' = script /\ sent' = sent /\ net' = net
  BY DEF HandlePacket, TryReadPacket
<1>3. size \in HeaderSize .. Len(buffer)
  BY <1>1, <1>2, CompleteFits DEF TryReadPacket
<1>4. packet \in Packets
  BY <1>1 DEF Packets, TryReadPacket
<1> HIDE DEF size, packet
<1>5. /\ handled' \in Seq(Packets) /\ Len(handled') = Len(handled) + 1
      /\ \A i \in 1 .. Len(handled) : handled'[i] = handled[i]
  <2>1. handled \in Seq(Packets)
    BY DEF LoginInv, Basics
  <2> QED
    BY <1>2, <1>4, <2>1, AppendProperties
<1>6. buffer' \in Seq(Byte) /\ Len(buffer') = Len(buffer) - size
  <2>1. size \in 0 .. Len(buffer)
    BY <1>3 DEF HeaderSize
  <2> QED
    BY <1>1, <1>2, <2>1, BehindFirst
<1>7. Used' = Used + size /\ Used' \in Int /\ Used' >= Used + HeaderSize
  <2>1. SizeOf(sent)' = SizeOf(sent)
    BY <1>2 DEF SizeOf
  <2>2. Used' = SizeOf(sent)' - Len(net') - Len(buffer')
    BY DEF Used
  <2>3. size \in Int /\ size >= HeaderSize
    BY <1>3 DEF HeaderSize
  <2>4. Len(net') = Len(net)
    BY <1>2
  <2>5. Used' = Used + size
    BY <1>1, <1>6, <2>1, <2>2, <2>3, <2>4
  <2> QED
    BY <1>1, <2>3, <2>5 DEF HeaderSize
<1>8. HeaderSize * Len(handled') <= Used'
  BY <1>1, <1>5, <1>7 DEF HeaderSize
<1>9. handled # <<>> /\ handled' # <<>> /\ handled'[1] = handled[1]
  <2>1. handled # <<>> /\ handled \in Seq(Packets)
    BY <1>2 DEF LoginInv, Opened, Basics
  <2>2. Len(handled) # 0
    BY <2>1, EmptySeq
  <2>3. 1 \in 1 .. Len(handled)
    BY <1>1, <2>2
  <2>4. handled' # <<>>
    BY <1>1, <1>5, EmptySeq
  <2> QED
    BY <1>5, <2>1, <2>3, <2>4
<1>10. Taken'
  <2>1. Used' >= Used
    BY <1>1, <1>7 DEF HeaderSize
  <2> QED
    BY <1>2, <1>7, <1>9, <2>1, TakenStays
<1>11. Basics'
  <2>1. pc' \in Running \cup Ended
    BY <1>2 DEF Running, Ended
  <2>2. threw' \in BOOLEAN
    <3>1. threw \in BOOLEAN
      BY Zenon DEF LoginInv, Basics, TypeOK
    <3> QED
      BY <1>2, <3>1, Zenon
  <2>3. script' \in Scripts /\ sent' \in 0 .. Len(script') /\ net' \in Seq(Byte)
    BY <1>1, <1>2
  <2> QED
    BY <1>5, <1>6, <1>8, <2>1, <2>2, <2>3, Zenon DEF Basics, TypeOK
<1>12. Opened'
  BY <1>2, <1>9 DEF Opened
<1> QED
  BY <1>10, <1>11, <1>12 DEF LoginInv

(* The login is taken or refused. *)
LEMMA ReceiveLoginKeeps ==
  ASSUME LoginInv, NEW n \in 1 .. Len(net), ReceiveLogin(n)
  PROVE  LoginInv'
<1> DEFINE item == script[1]
           read == ReadFrom(Incoming(net, n))
<1>1. /\ script \in Scripts /\ Len(script) \in Nat \ {0} /\ sent \in 0 .. Len(script)
      /\ net \in Seq(Byte) /\ Len(net) \in Nat /\ n \in Nat /\ n >= 1 /\ n <= Len(net)
      /\ SizeOf(1) \in Nat /\ PaddingSize \in Nat
  BY NumbersAre, CodecAssumption DEF LoginInv
<1>2. /\ pc = "login" /\ n <= LoginBuffer
      /\ net' = SubSeq(net, n + 1, Len(net))
      /\ script' = script /\ sent' = sent /\ buffer' = buffer /\ threw' = threw
  BY DEF ReceiveLogin
<1>3. handled = <<>> /\ buffer = <<>> /\ sent = 1 /\ net = Wire[item]
  <2>1. net # <<>>
    BY <1>1, EmptySeq
  <2> QED
    BY <1>2, <2>1 DEF LoginInv, Opened
<1>4. IsItem(item) /\ Wire[item] = WireBytes(item)
  <2>1. 1 \in 1 .. Len(script)
    BY <1>1
  <2>2. item \in Items
    BY <1>1, <2>1, ScriptItems
  <2> HIDE DEF item
  <2> QED
    BY <2>2, ItemsAre
<1>5. SizeOf(1) = Len(net)
  <2>1. 1 \in 1 .. Len(script) /\ 1 - 1 = 0
    BY <1>1
  <2>2. Sizes[script][0] = 0 /\ Sizes[script][1] = Sizes[script][0] + Len(Wire[item])
    BY <1>1, <2>1, SizesAreSums
  <2> QED
    BY <1>1, <1>3, <2>2 DEF SizeOf
<1>6. net' \in Seq(Byte) /\ Len(net') = Len(net) - n
  <2>1. n \in 0 .. Len(net)
    BY <1>1
  <2> QED
    BY <1>1, <1>2, <2>1, BehindFirst
<1>7. buffer' \in Seq(Byte) /\ Len(buffer') = 0
  BY <1>2, <1>3, EmptySeq
<1>8. Used' = n
  <2>1. SizeOf(sent)' = SizeOf(1)
    BY <1>2, <1>3 DEF SizeOf
  <2>2. Used' = SizeOf(sent)' - Len(net') - Len(buffer')
    BY DEF Used
  <2> QED
    BY <1>1, <1>5, <1>6, <1>7, <2>1, <2>2
<1>9. threw' \in BOOLEAN
  BY <1>2, Zenon DEF LoginInv, Basics, TypeOK
<1> HIDE DEF item, read
<1>10. CASE ~ (read.status = "complete" /\ IsLogin(read.packet))
  <2>1. pc' = "badLogin" /\ handled' = <<>>
    BY <1>3, <1>10 DEF ReceiveLogin, read
  <2>2. handled' \in Seq(Packets) /\ Len(handled') = 0
    BY <2>1, EmptySeq
  <2>3. HeaderSize * Len(handled') <= Used'
    BY <1>1, <1>8, <2>2 DEF HeaderSize
  <2>4. pc' \in Running \cup Ended
    BY <2>1 DEF Ended
  <2>5. Basics'
    BY <1>1, <1>2, <1>6, <1>7, <1>9, <2>2, <2>3, <2>4, Zenon DEF Basics, TypeOK
  <2>6. Opened' /\ Taken'
    BY <2>1 DEF Opened, Taken, LoginIsWhole
  <2> QED
    BY <2>5, <2>6 DEF LoginInv
<1>11. CASE read.status = "complete" /\ IsLogin(read.packet)
  <2>1. pc' \in {"refused", "receive"} /\ handled' = Append(handled, read.packet)
    BY <1>11 DEF ReceiveLogin, read
  <2>2. read.packet \in Packets
    <3>1. Incoming(net, n) \in Seq(Byte)
      BY <1>1, <1>2, IncomingIs
    <3> QED
      BY <3>1 DEF Packets, read
  <2>3. handled' \in Seq(Packets) /\ Len(handled') = 1 /\ handled'[1] = read.packet
    <3> DEFINE packet == read.packet
    <3>1. packet \in Packets /\ handled' = Append(<<>>, packet)
      BY <1>3, <2>1, <2>2
    <3> HIDE DEF packet
    <3>2. Append(<<>>, packet) = <<packet>>
      OBVIOUS
    <3> QED
      BY <3>1, <3>2 DEF packet
  <2>4. /\ n >= HeaderSize /\ n >= Len(net) - (PaddingSize + 1)
        /\ read.packet = Meaning(ZeroFilled(item))
    <3>1. "info" \in DOMAIN read.packet.fields
      BY <1>11 DEF IsLogin
    <3>2. net = WireBytes(item)
      BY <1>3, <1>4
    <3> QED
      BY <1>2, <1>4, <1>11, <3>1, <3>2, LoginIsRead DEF read
  <2>5. HeaderSize * Len(handled') <= Used'
    BY <1>1, <1>8, <2>3, <2>4 DEF HeaderSize
  <2>6. pc' \in Running \cup Ended
    BY <2>1 DEF Running, Ended
  <2>7. Basics'
    BY <1>1, <1>2, <1>6, <1>7, <1>9, <2>3, <2>5, <2>6, Zenon DEF Basics, TypeOK
  <2>8. handled' # <<>>
    BY <2>3, EmptySeq
  <2>9. Opened'
    BY <2>1, <2>8 DEF Opened
  <2>10. Taken'
    <3>1. SizeOf(1)' = SizeOf(1)
      BY <1>2 DEF SizeOf
    <3>2. Used' >= SizeOf(1)' - (PaddingSize + 1)
      BY <1>1, <1>5, <1>8, <2>4, <3>1
    <3>3. handled'[1] = Meaning(ZeroFilled(script'[1])) /\ IsLogin(handled'[1])
      BY <1>2, <1>11, <2>3, <2>4 DEF item
    <3> QED
      BY <3>2, <3>3 DEF Taken, LoginIsWhole
  <2> QED
    BY <2>7, <2>9, <2>10 DEF LoginInv
<1> QED
  BY <1>10, <1>11

(* Every step. *)
LEMMA NextKeepsLogin ==
  ASSUME LoginInv, [Next]_vars
  PROVE  LoginInv' /\ script' = script
<1>1. script' = script
  BY DEF Next, vars, ClientSends, ReceiveLogin, Receive, ReceiveFails, NeedsMore, ParseError,
     HandlePacket
<1>2. ASSUME NEW n \in 1 .. Len(net), ReceiveLogin(n) PROVE LoginInv'
  BY <1>2, ReceiveLoginKeeps
<1>3. ASSUME NEW n \in 1 .. Len(net), Receive(n) PROVE LoginInv'
  BY <1>3, ReceiveKeeps
<1> QED
  BY <1>1, <1>2, <1>3, ClientSendsKeeps, WaitingKeeps, HandlePacketKeeps DEF Next

-----------------------------------------------------------------------------
(* The theorems. *)

(* What holds of every login; and when its SessionInfo ends with zeros, of *)
(* the whole stream.                                                       *)
ReaderInv == LoginInv /\ (ZeroPadding => StreamInv)

(* At first nothing is used up and nothing is handled. *)
LEMMA InitStream ==
  ASSUME Init, ZeroPadding
  PROVE  StreamInv
<1>1. /\ script \in Scripts /\ sent = 0 /\ net = <<>> /\ buffer = <<>>
      /\ pc = "login" /\ handled = <<>> /\ threw = FALSE
  BY DEF Init
<1>2. Len(script) \in Nat /\ SizeOf(0) = 0
  BY <1>1, ScriptItems, SizesAreSums DEF SizeOf
<1>3. /\ net \in Seq(Byte) /\ buffer \in Seq(Byte) /\ Len(net) = 0 /\ Len(buffer) = 0
      /\ handled \in Seq(Meanings) /\ Len(handled) = 0 /\ buffer \o net = <<>>
  BY <1>1, EmptySeq, ConcatEmptySeq
<1>4. threw \in BOOLEAN
  BY <1>1, Zenon
<1>5. Types
  <2>1. sent \in 0 .. Len(script) /\ Len(handled) <= sent
    BY <1>1, <1>2, <1>3
  <2>2. Len(net) + Len(buffer) <= SizeOf(sent)
    BY <1>1, <1>2, <1>3
  <2>3. pc \in Running \cup Ended
    BY <1>1 DEF Running
  <2> QED
    BY <1>1, <1>3, <1>4, <2>1, <2>2, <2>3, Zenon DEF Types
<1>6. AsMeant
  BY <1>3 DEF AsMeant
<1>7. Aligned
  <2>1. Sizes[script][0] = 0 /\ Len(<<>>) = 0
    BY <1>1, SizesAreSums, EmptySeq
  <2>2. \A i \in 0 + 1 .. 0 : FALSE
    OBVIOUS
  <2> QED
    BY <1>1, <1>3, <2>1, <2>2 DEF Aligned, Ahead
<1> QED
  BY <1>1, <1>5, <1>6, <1>7 DEF StreamInv

(* And no login has passed. *)
LEMMA InitLogin ==
  ASSUME Init
  PROVE  LoginInv
<1>1. /\ script \in Scripts /\ sent = 0 /\ net = <<>> /\ buffer = <<>>
      /\ pc = "login" /\ handled = <<>> /\ threw = FALSE
  BY DEF Init
<1>2. Len(script) \in Nat /\ SizeOf(sent) = 0
  BY <1>1, ScriptItems, SizesAreSums DEF SizeOf
<1>3. /\ net \in Seq(Byte) /\ buffer \in Seq(Byte) /\ Len(net) = 0 /\ Len(buffer) = 0
      /\ handled \in Seq(Packets) /\ Len(handled) = 0
  BY <1>1, EmptySeq
<1>4. HeaderSize * Len(handled) <= Used
  BY <1>2, <1>3 DEF Used, HeaderSize
<1>5. sent \in 0 .. Len(script) /\ pc \in Running \cup Ended
  BY <1>1, <1>2 DEF Running
<1>6. threw \in BOOLEAN
  BY <1>1, Zenon
<1>7. Basics
  BY <1>1, <1>3, <1>4, <1>5, <1>6, Zenon DEF Basics, TypeOK
<1>8. Opened /\ Taken
  BY <1>1 DEF Opened, Taken, LoginIsWhole
<1> QED
  BY <1>7, <1>8 DEF LoginInv

(* Every step keeps the stream as it should be. *)
LEMMA NextKeepsStream ==
  ASSUME StreamInv, [Next]_vars
  PROVE  StreamInv'
<1>1. CASE ClientSends
  BY <1>1, ClientSendsStep
<1>2. ASSUME NEW n \in 1 .. Len(net), ReceiveLogin(n) PROVE StreamInv'
  BY <1>2, ReceiveLoginStep
<1>3. ASSUME NEW n \in 1 .. Len(net), Receive(n) PROVE StreamInv'
  BY <1>3, ReceiveStep
<1>4. CASE ReceiveFails
  BY <1>4, ReceiveFailsStep
<1>5. CASE NeedsMore
  BY <1>5, NeedsMoreStep
<1>6. CASE ParseError
  BY <1>6, ParseErrorStep
<1>7. CASE HandlePacket
  BY <1>7, HandlePacketStep
<1>8. CASE UNCHANGED vars
  BY <1>8, StutterStep
<1> QED
  BY <1>1, <1>2, <1>3, <1>4, <1>5, <1>6, <1>7, <1>8 DEF Next

(* The invariant holds at first and is kept by every step. *)
LEMMA ReaderInvHolds == Spec => []ReaderInv
<1>1. Init => ReaderInv
  BY InitLogin, InitStream DEF ReaderInv
<1>2. ReaderInv /\ [Next]_vars => ReaderInv'
  <2> SUFFICES ASSUME ReaderInv, [Next]_vars PROVE ReaderInv'
    OBVIOUS
  <2>1. LoginInv' /\ script' = script
    BY NextKeepsLogin DEF ReaderInv
  <2>2. ASSUME ZeroPadding' PROVE StreamInv'
    <3>1. ZeroPadding
      BY <2>1, <2>2 DEF ZeroPadding
    <3> QED
      BY <3>1, NextKeepsStream DEF ReaderInv
  <2> QED
    BY <2>1, <2>2 DEF ReaderInv
<1> QED
  BY <1>1, <1>2, PTL DEF Spec

(* A stream that has passed the login and did not go astray is as it       *)
(* should be.                                                              *)
LEMMA NotAstrayIs ==
  ASSUME ReaderInv, ~ Astray, handled # <<>>
  PROVE  StreamInv
BY DEF ReaderInv, Astray, ZeroPadding

(* Types and bounds of the reader's state: every packet that was handled   *)
(* used up a header of bytes that were sent and received (TypeOK of the    *)
(* Receiver).                                                              *)
THEOREM ReceiverTypeCorrect == Spec => []TypeOK
<1>1. ReaderInv => TypeOK
  BY Zenon DEF ReaderInv, LoginInv, Basics
<1> QED
  BY <1>1, ReaderInvHolds, PTL

(* readFrom finds in every packet a client may send what the client means  *)
(* by it, all of it and no more, or finds it malformed: for every code,    *)
(* every set of fields and every content (ReadsAsMeant of the Receiver).   *)
THEOREM PacketsAreRead == Spec => []ReadsAsMeant
<1> DEFINE Known == script \in Scripts
<1>1. Init => Known
  BY DEF Init
<1>2. Known /\ [Next]_vars => Known'
  BY DEF Next, vars, ClientSends, ReceiveLogin, Receive, ReceiveFails, NeedsMore, ParseError,
     HandlePacket
<1>3. Known => ReadsAsMeant
  BY MeantIsRead
<1> HIDE DEF Known
<1> QED
  BY <1>1, <1>2, <1>3, PTL DEF Spec

(* How much of the stream is used up, when what is left begins where a     *)
(* packet begins and when it begins inside a login that was cut.           *)
LEMMA UsedIs ==
  ASSUME Types
  PROVE  /\ Aligned => Used = SizeOf(Len(handled))
         /\ CutLogin => LoginWasCut
<1>1. /\ Len(buffer \o net) = Len(buffer) + Len(net)
      /\ Len(buffer) \in Nat /\ Len(net) \in Nat
  BY ConcatProperties DEF Types
<1>2. script \in Scripts /\ sent \in 0 .. Len(script) /\ Len(handled) \in 0 .. sent
  BY LenProperties DEF Types
<1>3. SizeOf(sent) \in Nat /\ SizeOf(Len(handled)) \in Nat /\ SizeOf(1) \in Nat
  <2>1. Len(script) \in Nat \ {0} /\ Sizes[script] \in [0 .. Len(script) -> Nat]
    BY <1>2, ScriptItems, SizesAreSums
  <2>2. Len(handled) \in 0 .. Len(script) /\ 1 \in 0 .. Len(script)
    BY <1>2, <2>1
  <2> QED
    BY <1>2, <2>1, <2>2 DEF SizeOf
<1>4. ASSUME Aligned PROVE Used = SizeOf(Len(handled))
  <2>1. Len(buffer \o net) = SizeOf(sent) - SizeOf(Len(handled))
    BY <1>4 DEF Aligned, Ahead, SizeOf
  <2> QED
    BY <1>1, <1>3, <2>1 DEF Used
<1>5. ASSUME CutLogin PROVE LoginWasCut
  <2>1. handled # <<>>
    BY <1>5, EmptySeq DEF CutLogin
  <2>2. Len(buffer) + Len(net) > SizeOf(sent) - SizeOf(1)
    BY <1>1, <1>3, <1>5 DEF CutLogin
  <2>3. Used < SizeOf(1)
    BY <1>1, <1>3, <2>2 DEF Used
  <2> QED
    BY <2>1, <2>3 DEF LoginWasCut
<1> QED
  BY <1>4, <1>5

(* A login passes only when all of it has arrived but, at most, the zero   *)
(* and the padding its SessionInfo ends with, and the server takes it for  *)
(* what the client sent, with zeros there: for every login, also for one   *)
(* that ends with something else (LoginIsWhole of the Receiver).           *)
THEOREM LoginArrivesWhole == Spec => []LoginIsWhole
<1>1. ReaderInv => LoginIsWhole
  BY Zenon DEF ReaderInv, LoginInv, Taken
<1> QED
  BY <1>1, ReaderInvHolds, PTL

(* handleSession ends a session for malformed data only at a malformed     *)
(* packet, wherever the network cuts the stream: no part of a good packet, *)
(* and no bytes behind one, are ever taken for a bad one.                  *)
THEOREM OnlyMalformedIsRefused == Spec => []OnlyMalformedRefused
<1>1. ReaderInv => OnlyMalformedRefused
  <2> SUFFICES ASSUME ReaderInv, ~ Astray, pc = "badPacket", ~ LoginWasCut
               PROVE  ~ WellFormed(script[Len(handled) + 1]) /\ Used = SizeOf(Len(handled))
    BY DEF OnlyMalformedRefused
  <2>0. StreamInv
    <3>1. handled # <<>>
      BY DEF ReaderInv, LoginInv, Opened
    <3> QED
      BY <3>1, NotAstrayIs
  <2>1. Types /\ ReadFrom(buffer).status = "error"
    BY <2>0 DEF StreamInv
  <2>2. Aligned
    BY <2>0, <2>1, UsedIs DEF StreamInv
  <2>3. Used = SizeOf(Len(handled))
    BY <2>1, <2>2, UsedIs
  <2>4. Len(handled) < sent /\ ReadFrom(buffer) = ReadFrom(Wire[script[Len(handled) + 1]])
    <3>1. ReadFrom(buffer).status # "partial"
      BY <2>1
    <3> QED
      BY <2>1, <2>2, <3>1, DecidedIsNext
  <2>5. Len(handled) + 1 \in 1 .. Len(script) /\ script \in Scripts
    BY <2>1, <2>4, ScriptItems, LenProperties DEF Types
  <2>6. ASSUME WellFormed(script[Len(handled) + 1]) PROVE FALSE
    <3>1. ReadFrom(Wire[script[Len(handled) + 1]])
            = [status |-> "complete", size |-> Len(Wire[script[Len(handled) + 1]]),
               packet |-> Meaning(script[Len(handled) + 1])]
      BY <2>1, <2>5, <2>6, ReadAlone
    <3>2. ReadFrom(Wire[script[Len(handled) + 1]]).status = "complete"
      BY <3>1
    <3> QED
      BY <2>1, <2>4, <3>2
  <2> QED
    BY <2>3, <2>6
<1> QED
  BY <1>1, ReaderInvHolds, PTL

(* With the packets up to i arrived, the buffer holds the next one.        *)
LEMMA NextIsThere ==
  ASSUME Types, NEW i \in 1 .. sent, Arrived(i), Len(handled) < i,
         Len(buffer) + Len(net) >= SizeOf(sent) - SizeOf(Len(handled))
  PROVE  Len(buffer) >= Len(Wire[script[Len(handled) + 1]])
<1> DEFINE f == Sizes[script]
           h == Len(handled)
           length == Len(Wire[script[h + 1]])
<1>1. /\ script \in Scripts /\ Len(script) \in Nat /\ sent \in 0 .. Len(script)
      /\ h \in Nat /\ Len(buffer) \in Nat /\ Len(net) \in Nat
  BY ScriptItems, LenProperties DEF Types
<1>2. h + 1 \in 0 .. Len(script) /\ i \in h + 1 .. Len(script) /\ h + 1 \in 1 .. Len(script)
  BY <1>1
<1>3. f[h + 1] <= f[i]
  BY <1>1, <1>2, SizesGrow
<1>4. f[h + 1] = f[h] + length /\ length \in Nat
  <2>1. (h + 1) - 1 = h
    BY <1>1
  <2> QED
    BY <1>1, <1>2, <2>1, SizesAreSums, ScriptItems
<1>5. f[h] \in Nat /\ f[i] \in Nat /\ f[sent] \in Nat
  <2>1. h \in 0 .. Len(script) /\ i \in 0 .. Len(script)
    BY <1>1, <1>2
  <2> QED
    BY <1>1, <2>1, SizesAreSums
<1>6. f[i] <= f[sent] - Len(net) /\ Len(buffer) + Len(net) >= f[sent] - f[h]
  BY DEF Arrived, SizeOf
<1> HIDE DEF f, h, length
<1>7. Len(buffer) >= length
  BY <1>1, <1>3, <1>4, <1>5, <1>6
<1> QED
  BY <1>7 DEF length, h

(* No packet that has arrived waits in the buffer for another one to       *)
(* arrive: when handleSession waits in async_receive and no handler threw, *)
(* every packet whose bytes were received is handled.                      *)
THEOREM NothingWaitsUnread == Spec => []ArrivedIsHandled
<1>1. ReaderInv => ArrivedIsHandled
  <2> SUFFICES ASSUME ReaderInv, ~ Astray, pc = "receive", ~ threw,
                      NEW i \in 1 .. sent, Arrived(i), ~ (Len(handled) >= i)
               PROVE  FALSE
    BY DEF ArrivedIsHandled
  <2>0. StreamInv
    <3>1. handled # <<>>
      BY DEF ReaderInv, LoginInv, Opened
    <3> QED
      BY <3>1, NotAstrayIs
  <2>1. /\ Types /\ ReadFrom(buffer).status = "partial"
        /\ Aligned \/ CutLogin
    BY <2>0 DEF StreamInv
  <2>2. /\ script \in Scripts /\ Len(script) \in Nat /\ sent \in 0 .. Len(script)
        /\ Len(handled) \in Nat /\ Len(buffer) \in Nat /\ Len(net) \in Nat
        /\ buffer \in Seq(Byte) /\ net \in Seq(Byte)
        /\ Len(buffer \o net) = Len(buffer) + Len(net)
    BY <2>1, ScriptItems, LenProperties, ConcatProperties DEF Types
  <2>3. Len(handled) < i /\ Len(handled) + 1 \in 1 .. Len(script) /\ Len(handled) < sent
    BY <2>2
  <2>4. /\ SizeOf(sent) \in Nat /\ SizeOf(Len(handled)) \in Nat
    <3>1. Len(handled) \in 0 .. Len(script)
      BY <2>2, <2>3
    <3> QED
      BY <2>2, <3>1, SizesAreSums DEF SizeOf
  <2> DEFINE packet == Wire[script[Len(handled) + 1]]
  <2>5. packet \in Seq(Byte) /\ ReadFrom(packet).status # "partial" /\ HeaderSize <= Len(packet)
    BY <2>1, <2>2, <2>3, ReadAlone
  <2>6. Len(packet) <= Len(buffer)
    <3>1. Len(buffer \o net) >= SizeOf(sent) - SizeOf(Len(handled))
      <4>1. CASE Aligned
        BY <2>2, <2>4, <4>1 DEF Aligned, Ahead, SizeOf
      <4>2. CASE CutLogin
        <5>1. /\ Len(handled) = 1 /\ SizeOf(1) \in Nat
              /\ Len(buffer \o net) \in Nat /\ Len(buffer \o net) >= SizeOf(sent) - SizeOf(1) + 1
          BY <2>1, <4>2, CutLoginIs
        <5> QED
          BY <2>4, <5>1
      <4> QED
        BY <2>1, <4>1, <4>2
    <3>2. Len(buffer) + Len(net) >= SizeOf(sent) - SizeOf(Len(handled))
      BY <2>2, <3>1
    <3>3. Len(buffer) >= Len(packet)
      BY <2>1, <2>3, <3>2, NextIsThere
    <3> QED
      BY <2>2, <2>5, <3>3, LenProperties
  <2> HIDE DEF packet
  <2>7. CASE Aligned
    <3>1. \A k \in 1 .. Len(packet) : k <= Len(buffer) => buffer[k] = packet[k]
      BY <2>1, <2>3, <2>7, AlignedAgrees DEF packet
    <3>2. ReadFrom(buffer) = ReadFrom(packet)
      BY <2>2, <2>5, <2>6, <3>1, FirstPacket
    <3> QED
      BY <2>1, <2>5, <3>2
  <2>8. CASE CutLogin
    <3>1. HeaderSize <= Len(buffer) /\ 1 <= Len(buffer)
      BY <2>2, <2>5, <2>6, LenProperties DEF HeaderSize
    <3>2. (buffer \o net)[1] = buffer[1]
      <4>1. 1 \in 1 .. Len(buffer) + Len(net) /\ 1 <= Len(buffer)
        BY <2>2, <3>1
      <4> QED
        BY <2>2, <4>1, ConcatProperties
    <3>3. buffer[1] = 0
      BY <2>1, <2>8, <3>2, CutLoginIs
    <3> QED
      BY <2>1, <2>2, <3>1, <3>3, ZeroIsNoCode
  <2> QED
    BY <2>1, <2>7, <2>8
<1> QED
  BY <1>1, ReaderInvHolds, PTL

(* A packet with no malformed one up to it is one that the client means.   *)
LEMMA MeantIs ==
  ASSUME NEW s \in Scripts, NEW i \in 1 .. Len(s), \A j \in 1 .. i : WellFormed(s[j])
  PROVE  i \in DOMAIN MeaningOf[s] /\ MeaningOf[s][i] = Meaning(s[i])
<1>1. DOMAIN s = 1 .. Len(s)
  BY ScriptItems
<1>2. MeaningOf[s]
        = [k \in {k \in DOMAIN s : \A j \in 1 .. k : WellFormed(s[j])} |-> Meaning(s[k])]
  BY Zenon DEF MeaningOf
<1>3. i \in {k \in DOMAIN s : \A j \in 1 .. k : WellFormed(s[j])}
  BY <1>1
<1> QED
  BY <1>2, <1>3

(* What the abstract stream sees of the reader. *)
Told == IF Astray THEN <<>> ELSE handled
Open == pc \in Running /\ ~ Astray

(* A step that hands the next packet of the script to its handlers is a    *)
(* delivery, whatever becomes of the session.                              *)
LEMMA HandlingDelivers ==
  ASSUME Types, AsMeant, ZeroPadding, pc \in Running, pc' \in Running \cup Ended,
         script' = script, Len(handled) < sent,
         WellFormed(script[Len(handled) + 1]),
         handled' = Append(handled, Meaning(script[Len(handled) + 1]))
  PROVE  Stream!Deliver
<1>0. ~ Astray /\ ~ Astray'
  BY DEF Astray, ZeroPadding
<1>1. /\ script \in Scripts /\ Len(handled) \in Nat
      /\ Len(handled) + 1 \in 1 .. Len(script)
  BY ScriptItems, LenProperties DEF Types
<1>2. \A j \in 1 .. Len(handled) + 1 : WellFormed(script[j])
  <2> SUFFICES ASSUME NEW j \in 1 .. Len(handled) + 1 PROVE WellFormed(script[j])
    OBVIOUS
  <2>1. CASE j = Len(handled) + 1
    BY <2>1
  <2>2. CASE j # Len(handled) + 1
    <3>1. j \in 1 .. Len(handled)
      BY <1>1, <2>2
    <3> QED
      BY <3>1 DEF AsMeant
  <2> QED
    BY <2>1, <2>2
<1>3. /\ Len(handled) + 1 \in DOMAIN MeaningOf[script]
      /\ MeaningOf[script][Len(handled) + 1] = Meaning(script[Len(handled) + 1])
  BY <1>1, <1>2, MeantIs
<1>4. handled' = Append(handled, MeaningOf[script][Len(handled) + 1])
  BY <1>3
<1>5. Open /\ Open' \in BOOLEAN
  BY <1>0 DEF Open
<1>6. MeaningOf[script'] = MeaningOf[script]
  OBVIOUS
<1>7. Told = handled /\ Told' = handled'
  BY <1>0 DEF Told
<1>8. /\ Len(Told) + 1 \in DOMAIN MeaningOf[script]
      /\ Told' = Append(Told, MeaningOf[script][Len(Told) + 1])
  BY <1>3, <1>4, <1>7
<1> QED
  BY <1>5, <1>6, <1>8, Zenon DEF Stream!Deliver, Told, Open

(* A login that does not end with zeros: the stream stays open until it is *)
(* taken or refused, and nothing of it is delivered.                       *)
LEMMA AstrayCloses ==
  ASSUME LoginInv, LoginInv', [Next]_vars, script' = script, ~ ZeroPadding
  PROVE  Stream!Close \/ UNCHANGED <<MeaningOf[script], Told, Open>>
<1>1. ~ ZeroPadding'
  BY DEF ZeroPadding
<1>2. Told = <<>> /\ Told' = <<>>
  BY <1>1 DEF Told, Astray, ZeroPadding
<1>3. (pc = "login" => handled = <<>>) /\ (pc \in {"receive", "read"} => handled # <<>>)
  BY DEF LoginInv, Opened
<1>4. Open = (pc = "login")
  BY <1>3 DEF Open, Astray, ZeroPadding, Running
<1>5. (pc' = "login" => handled' = <<>>) /\ (pc' \in {"receive", "read"} => handled' # <<>>)
  BY DEF LoginInv, Opened
<1>6. Open' = (pc' = "login")
  BY <1>1, <1>5 DEF Open, Astray, ZeroPadding, Running
<1>7. pc' = "login" => pc = "login"
  BY DEF Next, vars, ClientSends, ReceiveLogin, Receive, ReceiveFails, NeedsMore, ParseError,
     HandlePacket
<1>8. MeaningOf[script'] = MeaningOf[script]
  OBVIOUS
<1>9. CASE pc = "login" /\ pc' # "login"
  <2>1. Open /\ Open' = FALSE
    BY <1>4, <1>6, <1>9
  <2> QED
    BY <1>2, <1>8, <2>1, Zenon DEF Stream!Close, Told, Open
<1>10. CASE pc # "login" \/ pc' = "login"
  <2>1. Open' = Open
    BY <1>4, <1>6, <1>7, <1>10
  <2> QED
    BY <1>2, <1>8, <2>1, Zenon
<1> QED
  BY <1>9, <1>10

(* Any other login: every step delivers the next packet, closes the stream *)
(* or is not seen.                                                         *)
LEMMA StepsAreSeen ==
  ASSUME StreamInv, StreamInv', [Next]_vars
  PROVE  Stream!Next \/ UNCHANGED <<MeaningOf[script], Told, Open>>
<1> DEFINE Stays == script' = script /\ handled' = handled /\ (pc' \in Running) = (pc \in Running)
           Leaves == /\ script' = script /\ handled' = handled
                     /\ pc \in Running /\ pc' \notin Running
<1>1. Types /\ AsMeant /\ ZeroPadding /\ pc' \in Running \cup Ended
  BY DEF StreamInv, Types
<1>2. ASSUME ClientSends \/ NeedsMore \/ UNCHANGED vars PROVE Stays
  BY <1>2 DEF ClientSends, NeedsMore, vars, Running
<1>3. ASSUME ReceiveFails \/ ParseError PROVE Leaves
  BY <1>3 DEF ReceiveFails, ParseError, Running
<1>4. ASSUME NEW n \in 1 .. Len(net), Receive(n) PROVE Stays
  BY <1>4 DEF Receive, Running
<1>5. ASSUME HandlePacket PROVE Stream!Deliver
  <2>1. /\ Len(handled) < sent /\ WellFormed(script[Len(handled) + 1])
        /\ TryReadPacket.packet = Meaning(script[Len(handled) + 1])
    BY <1>5, HandlesNext
  <2>2. pc \in Running /\ script' = script /\ handled' = Append(handled, TryReadPacket.packet)
    BY <1>5 DEF HandlePacket, Running
  <2>3. handled' = Append(handled, Meaning(script[Len(handled) + 1]))
    BY <2>1, <2>2
  <2> QED
    BY <1>1, <2>1, <2>2, <2>3, HandlingDelivers
<1>6. ASSUME NEW n \in 1 .. Len(net), ReceiveLogin(n) PROVE Leaves \/ Stream!Deliver
  <2>1. CASE pc' = "badLogin"
    BY <1>6, <2>1 DEF ReceiveLogin, Running
  <2>2. CASE pc' # "badLogin"
    <3>1. /\ sent = 1 /\ handled = <<>> /\ WellFormed(script[1])
          /\ handled' = Append(handled, Meaning(script[1]))
      BY <1>6, <2>2, LoginIsFirst
    <3>2. Len(handled) = 0 /\ Len(handled) + 1 = 1 /\ Len(handled) < sent
      BY <3>1, EmptySeq
    <3>3. pc \in Running /\ script' = script
      BY <1>6 DEF ReceiveLogin, Running
    <3>4. /\ WellFormed(script[Len(handled) + 1])
          /\ handled' = Append(handled, Meaning(script[Len(handled) + 1]))
      BY <3>1, <3>2
    <3> QED
      BY <1>1, <3>2, <3>3, <3>4, HandlingDelivers
  <2> QED
    BY <2>1, <2>2
<1>7. ASSUME script' = script
      PROVE  /\ Told = handled /\ Told' = handled'
             /\ Open = (pc \in Running) /\ Open' = (pc' \in Running)
             /\ MeaningOf[script'] = MeaningOf[script]
  <2>1. ~ Astray /\ ~ Astray'
    BY <1>1, <1>7 DEF Astray, ZeroPadding
  <2> QED
    BY <1>7, <2>1 DEF Told, Open
<1>8. Stays => UNCHANGED <<MeaningOf[script], Told, Open>>
  BY <1>7
<1>9. Leaves => Stream!Close
  <2> SUFFICES ASSUME Leaves PROVE Stream!Close
    OBVIOUS
  <2>1. /\ Told = handled /\ Told' = handled' /\ handled' = handled
        /\ Open = (pc \in Running) /\ Open' = (pc' \in Running)
        /\ pc \in Running /\ pc' \notin Running
        /\ MeaningOf[script'] = MeaningOf[script]
    BY <1>7
  <2>2. Open' = FALSE
    BY <2>1 DEF Open
  <2>3. Open /\ Told' = Told
    BY <2>1
  <2> QED
    BY <2>1, <2>2, <2>3, Zenon DEF Stream!Close, Told, Open
<1> HIDE DEF Stays, Leaves
<1> QED
  BY <1>2, <1>3, <1>4, <1>5, <1>6, <1>8, <1>9 DEF Next, Stream!Next

(* However the network cuts the stream and whatever the handlers throw,    *)
(* the packets reach them in the client's order, each once and as meant,   *)
(* and none behind a malformed one: the reader of handleLogin and          *)
(* handleSession implements the abstract stream of packets.                *)
THEOREM StreamIsDelivered == Spec => DeliversStream
<1>1. Init => Stream!Init
  BY DEF Init, Stream!Init, Running, Astray
<1>2. ReaderInv /\ ReaderInv' /\ [Next]_vars
      => [Stream!Next]_<<MeaningOf[script], Told, Open>>
  <2> SUFFICES ASSUME ReaderInv, ReaderInv', [Next]_vars
               PROVE  Stream!Next \/ UNCHANGED <<MeaningOf[script], Told, Open>>
    OBVIOUS
  <2>1. LoginInv /\ LoginInv' /\ script' = script
    BY NextKeepsLogin DEF ReaderInv
  <2>2. CASE ZeroPadding
    <3>1. ZeroPadding'
      BY <2>1, <2>2 DEF ZeroPadding
    <3>2. StreamInv /\ StreamInv'
      BY <2>2, <3>1 DEF ReaderInv
    <3> QED
      BY <3>2, StepsAreSeen
  <2>3. CASE ~ ZeroPadding
    BY <2>1, <2>3, AstrayCloses DEF Stream!Next
  <2> QED
    BY <2>2, <2>3
<1> QED
  BY <1>1, <1>2, ReaderInvHolds, PTL
  DEF Spec, DeliversStream, Stream!Spec, Stream!vars, Told, Open

(* What the server sends to the other clients of a login, of a new room or *)
(* of a chat line is read by them, all of it and no more: the name and the *)
(* nation the client sent, or its text up to the first zero, except for    *)
(* the characters encode does not know (ForwardedAsRead of the Receiver).  *)
THEOREM ForwardedIsRead == Spec => []ForwardedAsRead
<1>1. ReaderInv => ForwardedAsRead
  <2> DEFINE Is(i) ==
        LET said  == script[i].raw
            bytes == WriteTo(Forwarded(handled[i]))
            read  == ReadFrom(bytes)
        IN /\ i = 1 \/ IsNewRoom(handled[i]) =>
                /\ read.status = "complete" /\ read.size = Len(bytes)
                /\ read.packet.fields.name = DecodeString(Shown(said.name))
                /\ read.packet.fields.info.content[1] = said.info.content[1]
           /\ IsChat(handled[i]) =>
                /\ read.status = "complete" /\ read.size = Len(bytes)
                /\ read.packet.fields.data = DecodeString(Shown(UpToZero(said.data)))
  <2> SUFFICES ASSUME ReaderInv, ~ Astray, NEW i \in DOMAIN handled
               PROVE  Is(i)
    BY DEF ForwardedAsRead
  <2> DEFINE item == script[i]
  <2>1. handled # <<>>
    OBVIOUS
  <2>2. Types /\ AsMeant
    BY <2>1, NotAstrayIs DEF StreamInv
  <2>3. i \in 1 .. Len(handled) /\ i \in 1 .. Len(script)
    <3>1. /\ handled \in Seq(Meanings) /\ Len(handled) <= sent /\ sent \in 0 .. Len(script)
          /\ script \in Scripts
      BY <2>2 DEF Types
    <3>2. DOMAIN handled = 1 .. Len(handled) /\ Len(handled) \in Nat
      BY <3>1, LenProperties
    <3>3. Len(script) \in Nat
      BY <3>1, ScriptItems
    <3> QED
      BY <3>1, <3>2, <3>3
  <2>4. WellFormed(item) /\ handled[i] = Meaning(item)
    BY <2>2, <2>3 DEF AsMeant
  <2>5. IsItem(item)
    <3>1. item \in Items
      BY <2>2, <2>3, ScriptItems DEF Types
    <3> HIDE DEF item
    <3> QED
      BY <3>1, ItemsAre
  <2>6. i = 1 => IsLogin(Meaning(item))
    BY <2>1, <2>4 DEF ReaderInv, LoginInv, Taken
  <2> HIDE DEF item
  <2> DEFINE bytes == WriteTo(Forwarded(Meaning(item)))
             read  == ReadFrom(bytes)
  <2>7. /\ IsLogin(Meaning(item)) \/ IsNewRoom(Meaning(item)) =>
             /\ read.status = "complete" /\ read.size = Len(bytes)
             /\ read.packet.fields.name = DecodeString(Shown(item.raw.name))
             /\ read.packet.fields.info.content[1] = item.raw.info.content[1]
        /\ IsChat(Meaning(item)) =>
             /\ read.status = "complete" /\ read.size = Len(bytes)
             /\ read.packet.fields.data = DecodeString(Shown(UpToZero(item.raw.data)))
    BY <2>4, <2>5, ToldIsRead
  <2>8. bytes = WriteTo(Forwarded(handled[i])) /\ item = script[i]
    BY <2>4 DEF item
  <2> HIDE DEF bytes, read
  <2>9. read = ReadFrom(WriteTo(Forwarded(handled[i])))
    BY <2>8 DEF read
  <2> QED
    BY <2>4, <2>6, <2>7, <2>8, <2>9
<1> QED
  BY <1>1, ReaderInvHolds, PTL

=============================================================================
