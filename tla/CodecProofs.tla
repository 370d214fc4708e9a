---------------------------- MODULE CodecProofs -----------------------------
(***************************************************************************)
(* Proofs about module Codec: what readFrom makes of the first bytes of a  *)
(* stream does not depend on where the stream was cut behind them.         *)
(***************************************************************************)
EXTENDS Codec, CodePageProofs, FiniteSetTheorems

-----------------------------------------------------------------------------
(* The order of the fields. *)

Fields == DOMAIN PacketFlags

(* FieldOrder lists every field once. *)
LEMMA OrderIsListing ==
  /\ FieldOrder \in [1 .. 11 -> Fields]
  /\ DOMAIN FieldOrder = 1 .. 11
  /\ \A f \in Fields : \E i \in 1 .. 11 : FieldOrder[i] = f
  /\ \A i, j \in 1 .. 11 : FieldOrder[i] = FieldOrder[j] => i = j
<1>1. Fields = {"value0", "value1", "value2", "value3", "value4", "value10", "dataLength",
                "data", "error", "name", "info"}
  BY DEF Fields, PacketFlags
<1>2. FieldOrder \in [1 .. 11 -> Fields] /\ DOMAIN FieldOrder = 1 .. 11
  BY <1>1 DEF FieldOrder
<1>3. \A f \in Fields : \E i \in 1 .. 11 : FieldOrder[i] = f
  <2>1. /\ FieldOrder[1] = "value0" /\ FieldOrder[2] = "value1" /\ FieldOrder[3] = "value2"
        /\ FieldOrder[4] = "value3" /\ FieldOrder[5] = "value4" /\ FieldOrder[6] = "value10"
        /\ FieldOrder[7] = "dataLength" /\ FieldOrder[8] = "data" /\ FieldOrder[9] = "error"
        /\ FieldOrder[10] = "name" /\ FieldOrder[11] = "info"
    BY DEF FieldOrder
  <2> QED
    BY <1>1, <2>1
<1>4. \A i, j \in 1 .. 11 : FieldOrder[i] = FieldOrder[j] => i = j
  BY DEF FieldOrder
<1> QED
  BY <1>2, <1>3, <1>4

(* There are finitely many fields. *)
LEMMA FieldsAreFinite == IsFiniteSet(Fields)
<1>1. FieldOrder \in Surjection(1 .. 11, Fields)
  BY OrderIsListing DEF Surjection
<1>2. ExistsSurjection(1 .. 11, Fields)
  BY <1>1 DEF ExistsSurjection
<1> QED
  BY <1>2, FS_NatSurjection

(* Of two fields one is before the other, and not both. *)
LEMMA OrderIsStrict ==
  ASSUME NEW f \in Fields, NEW g \in Fields
  PROVE  /\ f = g \/ f \in Before(g) \/ g \in Before(f)
         /\ f \in Before(g) => f # g /\ g \notin Before(f)
<1>1. PICK i \in 1 .. 11, j \in 1 .. 11 : FieldOrder[i] = f /\ FieldOrder[j] = g
  BY OrderIsListing
<1>2. \A h \in Fields, k \in 1 .. 11 :
        FieldOrder[k] = h => Before(h) = {FieldOrder[n] : n \in {n \in 1 .. 11 : n < k}}
  BY OrderIsListing DEF Before
<1>3. f \in Before(g) <=> i < j
  BY <1>1, <1>2, OrderIsListing
<1>4. g \in Before(f) <=> j < i
  BY <1>1, <1>2, OrderIsListing
<1> QED
  BY <1>1, <1>3, <1>4

(* What is before an earlier field is before the later one too. *)
LEMMA OrderIsTransitive ==
  ASSUME NEW f \in Fields, NEW g \in Fields, NEW h \in Fields,
         f \in Before(g), g \in Before(h)
  PROVE  f \in Before(h)
<1>1. PICK i \in 1 .. 11, j \in 1 .. 11, k \in 1 .. 11 :
        FieldOrder[i] = f /\ FieldOrder[j] = g /\ FieldOrder[k] = h
  BY OrderIsListing
<1>2. \A x \in Fields, m \in 1 .. 11 :
        FieldOrder[m] = x => Before(x) = {FieldOrder[n] : n \in {n \in 1 .. 11 : n < m}}
  BY OrderIsListing DEF Before
<1>3. i < j /\ j < k
  BY <1>1, <1>2, OrderIsListing
<1>4. i < k
  BY <1>3
<1> QED
  BY <1>1, <1>2, <1>4

(* A set of positions has a least and a greatest element. *)
LEMMA FirstAndLast ==
  ASSUME NEW P \in SUBSET (1 .. 11), P # {}
  PROVE  /\ \E m \in P : \A i \in P : m <= i
         /\ \E m \in P : \A i \in P : i <= m
<1>1. \E m \in P : \A i \in P : m <= i
  BY LeastNumber
<1>2. \E m \in P : \A i \in P : i <= m
  <2> DEFINE T == {n \in Nat : \A i \in P : i <= n}
  <2>1. 11 \in T
    OBVIOUS
  <2>2. T \in SUBSET Nat /\ T # {}
    BY <2>1
  <2> HIDE DEF T
  <2>3. PICK m \in T : \A n \in T : m <= n
    BY <2>2, LeastNumber
  <2>4. m \in Nat /\ \A i \in P : i <= m
    BY <2>3 DEF T
  <2>5. m \in P
    <3> SUFFICES ASSUME m \notin P PROVE FALSE
      OBVIOUS
    <3>1. \A i \in P : i <= m - 1
      BY <2>4
    <3>2. m - 1 \in Nat
      <4>1. PICK p \in P : TRUE
        OBVIOUS
      <4> QED
        BY <2>4, <3>1, <4>1
    <3>3. m - 1 \in T
      BY <3>1, <3>2 DEF T
    <3> QED
      BY <2>3, <2>4, <3>3
  <2> QED
    BY <2>4, <2>5
<1> QED
  BY <1>1, <1>2

(* Some field of a set has no other one of the set before it, and all      *)
(* others of the set are before some field.                                *)
LEMMA FirstAndLastField ==
  ASSUME NEW S \in SUBSET Fields, S # {}
  PROVE  /\ \E f \in S : S \cap Before(f) = {}
         /\ \E f \in S : S \cap Before(f) = S \ {f}
<1> DEFINE P == {i \in 1 .. 11 : FieldOrder[i] \in S}
<1>1. P \in SUBSET (1 .. 11) /\ P # {}
  BY OrderIsListing
<1>2. ASSUME NEW m \in P PROVE Before(FieldOrder[m]) = {FieldOrder[n] : n \in {n \in 1 .. 11 : n < m}}
  BY OrderIsListing DEF Before
<1>3. \A g \in S : \E n \in P : FieldOrder[n] = g
  BY OrderIsListing
<1>4. \E f \in S : S \cap Before(f) = {}
  <2>1. PICK m \in P : \A i \in P : m <= i
    BY <1>1, FirstAndLast
  <2>2. S \cap Before(FieldOrder[m]) = {}
    BY <1>2, <2>1, OrderIsListing
  <2> QED
    BY <2>2
<1>5. \E f \in S : S \cap Before(f) = S \ {f}
  <2>1. PICK m \in P : \A i \in P : i <= m
    BY <1>1, FirstAndLast
  <2>2. S \cap Before(FieldOrder[m]) = S \ {FieldOrder[m]}
    BY <1>2, <1>3, <2>1, OrderIsListing
  <2> QED
    BY <2>2
<1> QED
  BY <1>4, <1>5

-----------------------------------------------------------------------------
(* Sizes and positions. *)

(* Sizes and positions are numbers. *)
LEMMA SizesAreNumbers ==
  ASSUME NEW fields \in SUBSET Fields, NEW length \in Nat
  PROVE  /\ TotalSize(fields, length) \in Nat
         /\ \A f : FieldSize(f, length) \in Nat
         /\ \A f : Position(fields, f, length) \in Nat
<1>1. MaxNameLength \in Nat /\ InfoSize \in Nat
  BY CodecAssumption DEF InfoSize
<1>2. ASSUME NEW some \in SUBSET Fields PROVE TotalSize(some, length) \in Nat
  <2> DEFINE words == some \ {"data", "name", "info"}
  <2>1. Cardinality(words) \in Nat
    <3>1. words \in SUBSET Fields
      OBVIOUS
    <3>2. IsFiniteSet(words)
      BY <3>1, FieldsAreFinite, FS_Subset
    <3> QED
      BY <3>2, FS_CardinalityType
  <2> HIDE DEF words
  <2> QED
    BY <1>1, <2>1 DEF TotalSize, words
<1>3. \A f : FieldSize(f, length) \in Nat
  BY <1>1 DEF FieldSize
<1>4. \A f : fields \cap Before(f) \in SUBSET Fields
  OBVIOUS
<1>5. \A f : Position(fields, f, length) \in Nat
  BY <1>2, <1>4 DEF Position, HeaderSize
<1> QED
  BY <1>2, <1>3, <1>5

(* A field adds its size to that of the others. *)
LEMMA OneMoreField ==
  ASSUME NEW fields \in SUBSET Fields, NEW f \in Fields \ fields, NEW length \in Nat
  PROVE  TotalSize(fields \cup {f}, length)
           = TotalSize(fields, length) + FieldSize(f, length)
<1> DEFINE words(some) == Cardinality(some \ {"data", "name", "info"})
           data(some)  == IF "data" \in some THEN length ELSE 0
           name(some)  == IF "name" \in some THEN MaxNameLength ELSE 0
           info(some)  == IF "info" \in some THEN InfoSize ELSE 0
           all         == fields \cup {f}
<1>1. MaxNameLength \in Nat /\ InfoSize \in Nat
  BY CodecAssumption DEF InfoSize
<1>2. IsFiniteSet(fields \ {"data", "name", "info"}) /\ words(fields) \in Nat
  <2>1. fields \ {"data", "name", "info"} \in SUBSET Fields
    OBVIOUS
  <2>2. IsFiniteSet(fields \ {"data", "name", "info"})
    BY <2>1, FieldsAreFinite, FS_Subset
  <2> QED
    BY <2>2, FS_CardinalityType
<1>3. /\ data(fields) \in Nat /\ name(fields) \in Nat /\ info(fields) \in Nat
      /\ data(all) = data(fields) + (IF f = "data" THEN length ELSE 0)
      /\ name(all) = name(fields) + (IF f = "name" THEN MaxNameLength ELSE 0)
      /\ info(all) = info(fields) + (IF f = "info" THEN InfoSize ELSE 0)
  BY <1>1
<1>4. words(all) = words(fields) + (IF f \in {"data", "name", "info"} THEN 0 ELSE 1)
  <2>1. CASE f \in {"data", "name", "info"}
    <3>1. all \ {"data", "name", "info"} = fields \ {"data", "name", "info"}
      BY <2>1
    <3> HIDE DEF all
    <3> QED
      BY <1>2, <2>1, <3>1
  <2>2. CASE f \notin {"data", "name", "info"}
    <3>1. /\ all \ {"data", "name", "info"} = (fields \ {"data", "name", "info"}) \cup {f}
          /\ f \notin fields \ {"data", "name", "info"}
      BY <2>2
    <3> DEFINE rest == fields \ {"data", "name", "info"}
    <3> HIDE DEF all, rest
    <3>2. Cardinality(rest \cup {f}) = Cardinality(rest) + 1
      BY <1>2, <3>1, FS_AddElement DEF rest
    <3>3. words(all) = Cardinality(rest) + 1
      BY <3>1, <3>2 DEF rest
    <3> QED
      BY <2>2, <3>3 DEF rest
  <2> QED
    BY <2>1, <2>2
<1>5. \A some : TotalSize(some, length)
                 = (4 * words(some)) + data(some) + name(some) + info(some)
  BY DEF TotalSize
<1>6. FieldSize(f, length) = IF f = "data" THEN length
                             ELSE IF f = "name" THEN MaxNameLength
                             ELSE IF f = "info" THEN InfoSize ELSE 4
  BY DEF FieldSize
<1>7. TotalSize(all, length) = TotalSize(fields, length) + FieldSize(f, length)
  <2> HIDE DEF words, data, name, info, all
  <2>1. /\ TotalSize(all, length) = (4 * words(all)) + data(all) + name(all) + info(all)
        /\ TotalSize(fields, length)
             = (4 * words(fields)) + data(fields) + name(fields) + info(fields)
    BY <1>5
  <2> QED
    BY <1>1, <1>2, <1>3, <1>4, <1>6, <2>1
<1> QED
  BY <1>7

(* The last field ends where the packet ends. *)
LEMMA LastFieldEnds ==
  ASSUME NEW present \in SUBSET Fields, NEW f \in present,
         present \cap Before(f) = present \ {f}, NEW length \in Nat
  PROVE  Position(present, f, length) + FieldSize(f, length)
           = HeaderSize + TotalSize(present, length)
<1> DEFINE others == present \ {f}
<1>1. others \in SUBSET Fields /\ f \in Fields \ others /\ present = others \cup {f}
  OBVIOUS
<1> HIDE DEF others
<1>2. TotalSize(present, length) = TotalSize(others, length) + FieldSize(f, length)
  BY <1>1, OneMoreField
<1>3. Position(present, f, length) = HeaderSize + TotalSize(others, length)
  BY DEF Position, others
<1>4. TotalSize(others, length) \in Nat /\ FieldSize(f, length) \in Nat
  BY <1>1, SizesAreNumbers
<1> QED
  BY <1>2, <1>3, <1>4 DEF HeaderSize

(* Only the fields behind the data lie where its length puts them. *)
LEMMA LengthMovesLaterFields ==
  ASSUME NEW present, NEW f, "data" \notin Before(f), NEW m, NEW n
  PROVE  Position(present, f, m) = Position(present, f, n)
BY DEF Position, TotalSize

-----------------------------------------------------------------------------
(* More bytes. *)

Extends(longer, bytes) ==
  /\ Len(bytes) <= Len(longer)
  /\ \A i \in 1 .. Len(bytes) : longer[i] = bytes[i]

(* Bytes that are there are read the same when more follow. *)
LEMMA ReadBytesStay ==
  ASSUME NEW S, NEW bytes \in Seq(S), NEW longer \in Seq(S), Extends(longer, bytes),
         NEW pos \in Nat, NEW n \in Int, pos + n <= Len(bytes)
  PROVE  ReadBytes(longer, pos, n) = ReadBytes(bytes, pos, n)
<1> DEFINE first == pos + 1
           last  == pos + n
           old   == SubSeq(bytes, first, last)
           new   == SubSeq(longer, first, last)
<1>1. /\ first \in Int /\ last \in Int /\ first >= 1 /\ last <= Len(bytes)
      /\ Len(bytes) \in Nat /\ Len(longer) \in Nat
  OBVIOUS
<1>2. \A i \in first .. last : bytes[i] \in S /\ longer[i] \in S /\ longer[i] = bytes[i]
  <2>1. \A i \in 1 .. Len(bytes) : bytes[i] \in S /\ longer[i] \in S /\ longer[i] = bytes[i]
    BY <1>1, ElementOfSeq DEF Extends
  <2> HIDE DEF first, last
  <2> QED
    BY <1>1, <2>1
<1> HIDE DEF first, last
<1>3. /\ old \in Seq(S) /\ new \in Seq(S) /\ Len(old) = Len(new)
      /\ Len(old) = IF first <= last THEN last - first + 1 ELSE 0
      /\ \A i \in 1 .. last - first + 1 : old[i] = bytes[first + i - 1]
      /\ \A i \in 1 .. last - first + 1 : new[i] = longer[first + i - 1]
  BY <1>1, <1>2, SubSeqProperties
<1> HIDE DEF old, new
<1>4. ASSUME NEW i \in 1 .. Len(old) PROVE old[i] = new[i]
  <2>1. i \in 1 .. last - first + 1
    BY <1>1, <1>3
  <2>2. first + i - 1 \in first .. last
    BY <1>1, <2>1
  <2> QED
    BY <1>2, <1>3, <2>1, <2>2
<1>5. old = new
  BY <1>3, <1>4, SeqEqual
<1> QED
  BY <1>5 DEF old, new, first, last, ReadBytes

(* A word that is there is read the same when more bytes follow. *)
LEMMA ReadLeStays ==
  ASSUME NEW S, NEW bytes \in Seq(S), NEW longer \in Seq(S), Extends(longer, bytes),
         NEW pos \in Nat, pos + 4 <= Len(bytes)
  PROVE  ReadLe(longer, pos) = ReadLe(bytes, pos)
<1>1. /\ longer[pos + 1] = bytes[pos + 1] /\ longer[pos + 2] = bytes[pos + 2]
      /\ longer[pos + 3] = bytes[pos + 3] /\ longer[pos + 4] = bytes[pos + 4]
  BY DEF Extends
<1> QED
  BY <1>1 DEF ReadLe

(* A field whose bytes are there is read, and judged, the same when more   *)
(* bytes follow.                                                           *)
LEMMA FieldStays ==
  ASSUME NEW S, NEW bytes \in Seq(S), NEW longer \in Seq(S), Extends(longer, bytes),
         NEW pos \in Nat, NEW length \in Nat, NEW f,
         CanRead(bytes, pos, FieldSize(f, length))
  PROVE  /\ CanRead(longer, pos, FieldSize(f, length))
         /\ ReadField(longer, pos, f, length) = ReadField(bytes, pos, f, length)
         /\ IsValid(longer, pos, f, length) = IsValid(bytes, pos, f, length)
<1>1. PaddingSize \in Nat /\ MaxNameLength \in Nat
  BY CodecAssumption
<1>2. CanRead(longer, pos, FieldSize(f, length))
  <2>1. FieldSize(f, length) \in Nat
    BY <1>1 DEF FieldSize, InfoSize
  <2> QED
    BY <2>1 DEF CanRead, Extends
<1>3. CASE f = "data"
  <2>1. pos + length <= Len(bytes)
    BY <1>3 DEF CanRead, FieldSize
  <2>2. ReadBytes(longer, pos, length - 1) = ReadBytes(bytes, pos, length - 1)
    BY <2>1, ReadBytesStay
  <2>3. ReadField(longer, pos, f, length) = ReadField(bytes, pos, f, length)
    BY <1>3, <2>2 DEF ReadField
  <2>4. length = 0 \/ longer[pos + length] = bytes[pos + length]
    BY <2>1 DEF Extends
  <2>5. IsValid(longer, pos, f, length) = IsValid(bytes, pos, f, length)
    BY <1>3, <2>3, <2>4 DEF IsValid
  <2> QED
    BY <1>2, <2>3, <2>5
<1>4. CASE f = "name"
  <2>1. pos + MaxNameLength <= Len(bytes)
    BY <1>4 DEF CanRead, FieldSize
  <2>2. ReadBytes(longer, pos, MaxNameLength) = ReadBytes(bytes, pos, MaxNameLength)
    BY <1>1, <2>1, ReadBytesStay
  <2>3. ReadField(longer, pos, f, length) = ReadField(bytes, pos, f, length)
    BY <1>4, <2>2 DEF ReadField
  <2>4. IsValid(longer, pos, f, length) = IsValid(bytes, pos, f, length)
    BY <1>4, <2>3 DEF IsValid
  <2> QED
    BY <1>2, <2>3, <2>4
<1>5. CASE f = "info"
  <2>1. pos + 15 + PaddingSize <= Len(bytes)
    BY <1>1, <1>5 DEF CanRead, FieldSize, InfoSize
  <2>2. ReadInfo(longer, pos) = ReadInfo(bytes, pos)
    <3>1. ReadLe(longer, pos) = ReadLe(bytes, pos)
      BY <1>1, <2>1, ReadLeStays
    <3>2. ReadLe(longer, pos + 4) = ReadLe(bytes, pos + 4)
      BY <1>1, <2>1, ReadLeStays
    <3>3. ReadBytes(longer, pos + 8, 5) = ReadBytes(bytes, pos + 8, 5)
      BY <1>1, <2>1, ReadBytesStay
    <3>4. longer[pos + 14] = bytes[pos + 14] /\ longer[pos + 15] = bytes[pos + 15]
      BY <1>1, <2>1 DEF Extends
    <3>5. ReadBytes(longer, pos + 15, PaddingSize) = ReadBytes(bytes, pos + 15, PaddingSize)
      BY <1>1, <2>1, ReadBytesStay
    <3> QED
      BY <3>1, <3>2, <3>3, <3>4, <3>5 DEF ReadInfo
  <2>3. ReadField(longer, pos, f, length) = ReadField(bytes, pos, f, length)
    BY <1>5, <2>2 DEF ReadField
  <2>4. IsValid(longer, pos, f, length) = IsValid(bytes, pos, f, length)
    BY <1>5, <2>2 DEF IsValid
  <2> QED
    BY <1>2, <2>3, <2>4
<1>6. CASE f \notin {"data", "name", "info"}
  <2>1. pos + 4 <= Len(bytes)
    BY <1>6 DEF CanRead, FieldSize
  <2>2. ReadLe(longer, pos) = ReadLe(bytes, pos)
    BY <2>1, ReadLeStays
  <2>3. ReadField(longer, pos, f, length) = ReadField(bytes, pos, f, length)
    BY <1>6, <2>2 DEF ReadField
  <2>4. IsValid(longer, pos, f, length) = IsValid(bytes, pos, f, length)
    BY <1>6, <2>2 DEF IsValid
  <2> QED
    BY <1>2, <2>3, <2>4
<1> QED
  BY <1>3, <1>4, <1>5, <1>6

(* A field that is not incomplete keeps its status when more bytes follow. *)
LEMMA StatusStays ==
  ASSUME NEW S, NEW bytes \in Seq(S), NEW longer \in Seq(S), Extends(longer, bytes),
         NEW pos \in Nat, NEW length \in Nat, NEW f,
         Status(bytes, pos, f, length) # "partial"
  PROVE  /\ Status(longer, pos, f, length) = Status(bytes, pos, f, length)
         /\ ReadField(longer, pos, f, length) = ReadField(bytes, pos, f, length)
<1>1. CanRead(bytes, pos, FieldSize(f, length))
  BY DEF Status
<1>2. /\ CanRead(longer, pos, FieldSize(f, length))
      /\ ReadField(longer, pos, f, length) = ReadField(bytes, pos, f, length)
      /\ IsValid(longer, pos, f, length) = IsValid(bytes, pos, f, length)
  BY <1>1, FieldStays
<1> QED
  BY <1>1, <1>2 DEF Status

-----------------------------------------------------------------------------
(* readFrom. *)

FieldStatus(bytes, present, f) ==
  LET length == LengthIn(bytes, present)
  IN Status(bytes, Position(present, f, length), f, length)

Stops(bytes, present) == {f \in present : FieldStatus(bytes, present, f) # "complete"}

FirstStop(bytes, present) ==
  CHOOSE f \in Stops(bytes, present) : Stops(bytes, present) \cap Before(f) = {}

(* The length read from a packet is a number. *)
LEMMA LengthIsNumber ==
  ASSUME NEW bytes, NEW present
  PROVE  LengthIn(bytes, present) \in Nat
<1> DEFINE pos == Position(present, "dataLength", 0)
<1>1. CASE "dataLength" \in present /\ Status(bytes, pos, "dataLength", 0) = "complete"
  <2>1. ReadLe(bytes, pos) \in 0 .. MaxDataLength
    <3> HIDE DEF pos
    <3>1. IsValid(bytes, pos, "dataLength", 0)
      BY <1>1 DEF Status
    <3> QED
      BY <3>1 DEF IsValid
  <2>2. ReadLe(bytes, pos) \in Nat
    <3> HIDE DEF pos
    <3> QED
      BY <2>1, CodecAssumption
  <2> QED
    BY <1>1, <2>2 DEF LengthIn
<1>2. CASE ~ ("dataLength" \in present /\ Status(bytes, pos, "dataLength", 0) = "complete")
  BY <1>2 DEF LengthIn
<1> QED
  BY <1>1, <1>2

(* Only the data, and the fields behind them, depend on the length. *)
LEMMA LengthMovesLaterStatus ==
  ASSUME NEW bytes, NEW present, NEW f, f # "data", "data" \notin Before(f), NEW m, NEW n
  PROVE  Status(bytes, Position(present, f, m), f, m)
           = Status(bytes, Position(present, f, n), f, n)
<1> DEFINE pos == Position(present, f, n)
<1>1. Position(present, f, m) = pos
  BY LengthMovesLaterFields
<1> HIDE DEF pos
<1>2. FieldSize(f, m) = FieldSize(f, n)
  BY DEF FieldSize
<1>3. ReadField(bytes, pos, f, m) = ReadField(bytes, pos, f, n)
  BY DEF ReadField
<1>4. IsValid(bytes, pos, f, m) = IsValid(bytes, pos, f, n)
  BY <1>3 DEF IsValid
<1>5. Status(bytes, pos, f, m) = Status(bytes, pos, f, n)
  BY <1>2, <1>4 DEF Status
<1> QED
  BY <1>1, <1>5 DEF pos

(* The data lie behind their length, and no field before their length     *)
(* depends on it.                                                          *)
LEMMA DataAreLater ==
  /\ "dataLength" \in Fields
  /\ \A f \in Fields : f = "dataLength" \/ f \in Before("dataLength") =>
       f # "data" /\ "data" \notin Before(f)
<1>1. /\ FieldOrder[7] = "dataLength" /\ FieldOrder[8] = "data"
      /\ "dataLength" \in Fields /\ "data" \in Fields
  BY DEF FieldOrder, Fields, PacketFlags
<1>2. ASSUME NEW f \in Fields, NEW k \in 1 .. 11, FieldOrder[k] = f
      PROVE  Before(f) = {FieldOrder[n] : n \in {n \in 1 .. 11 : n < k}}
  BY <1>2, OrderIsListing DEF Before
<1>3. ASSUME NEW f \in Fields, f = "dataLength" \/ f \in Before("dataLength")
      PROVE  f # "data" /\ "data" \notin Before(f)
  <2>1. PICK k \in 1 .. 11 : FieldOrder[k] = f
    BY OrderIsListing
  <2>2. k <= 7
    BY <1>1, <1>2, <1>3, <2>1, OrderIsListing
  <2> QED
    BY <1>1, <1>2, <2>1, <2>2, OrderIsListing
<1> QED
  BY <1>1, <1>3

(* A packet with a stop has a first one, and only one field is it. *)
LEMMA FirstStopIs ==
  ASSUME NEW bytes, NEW present \in SUBSET Fields, Stops(bytes, present) # {}
  PROVE  /\ FirstStop(bytes, present) \in Stops(bytes, present)
         /\ Stops(bytes, present) \cap Before(FirstStop(bytes, present)) = {}
         /\ \A f \in Stops(bytes, present) :
              Stops(bytes, present) \cap Before(f) = {} => f = FirstStop(bytes, present)
<1> DEFINE stops == Stops(bytes, present)
           first == FirstStop(bytes, present)
<1>1. stops \in SUBSET Fields /\ stops # {}
  BY DEF Stops
<1>2. first = CHOOSE f \in stops : stops \cap Before(f) = {}
  BY DEF FirstStop
<1> HIDE DEF stops, first
<1>3. \E f \in stops : stops \cap Before(f) = {}
  BY <1>1, FirstAndLastField
<1>4. first \in stops /\ stops \cap Before(first) = {}
  BY <1>2, <1>3
<1>5. ASSUME NEW f \in stops, stops \cap Before(f) = {} PROVE f = first
  BY <1>1, <1>4, <1>5, OrderIsStrict
<1> QED
  BY <1>4, <1>5 DEF stops, first

(* The result of readFrom behind the header: the first stop, or the packet. *)
LEMMA ReadFieldsIs ==
  ASSUME NEW bytes, NEW code, NEW present \in SUBSET Fields
  PROVE  ReadFields(bytes, code, present) =
           IF Stops(bytes, present) = {}
           THEN [status |-> "complete",
                 size   |-> HeaderSize + TotalSize(present, LengthIn(bytes, present)),
                 packet |->
                   [code   |-> code,
                    fields |->
                      [f \in present |->
                         ReadField(bytes, Position(present, f, LengthIn(bytes, present)),
                                   f, LengthIn(bytes, present))]]]
           ELSE [status |-> FieldStatus(bytes, present, FirstStop(bytes, present))]
<1> DEFINE length == LengthIn(bytes, present)
           pos    == [f \in present |-> Position(present, f, length)]
           status == [f \in present |-> Status(bytes, pos[f], f, length)]
           stops  == {f \in present : status[f] # "complete"}
           first  == CHOOSE f \in stops : stops \cap Before(f) = {}
<1>1. \A f \in present : pos[f] = Position(present, f, length)
  OBVIOUS
<1>2. \A f \in present : status[f] = FieldStatus(bytes, present, f)
  BY DEF FieldStatus
<1>3. stops = Stops(bytes, present)
  BY <1>2 DEF Stops
<1>4. [f \in present |-> ReadField(bytes, pos[f], f, length)]
        = [f \in present |-> ReadField(bytes, Position(present, f, length), f, length)]
  BY <1>1
<1>5. ReadFields(bytes, code, present) =
        IF stops = {}
        THEN [status |-> "complete",
              size   |-> HeaderSize + TotalSize(present, length),
              packet |-> [code   |-> code,
                          fields |-> [f \in present |-> ReadField(bytes, pos[f], f, length)]]]
        ELSE [status |-> status[first]]
  BY DEF ReadFields
<1>6. CASE Stops(bytes, present) = {}
  BY <1>3, <1>4, <1>5, <1>6
<1>7. CASE Stops(bytes, present) # {}
  <2>1. first = FirstStop(bytes, present)
    BY <1>3 DEF FirstStop
  <2>2. FirstStop(bytes, present) \in present
    BY <1>7, FirstStopIs DEF Stops
  <2>3. status[first] = FieldStatus(bytes, present, FirstStop(bytes, present))
    <3> HIDE DEF first, status
    <3> QED
      BY <1>2, <2>1, <2>2
  <2>4. stops # {}
    BY <1>3, <1>7
  <2> HIDE DEF stops, first, status, pos
  <2> QED
    BY <1>5, <1>7, <2>3, <2>4
<1> QED
  BY <1>6, <1>7

(* The length is read the same when more bytes follow, unless it is        *)
(* incomplete itself.                                                      *)
LEMMA LengthStays ==
  ASSUME NEW S, NEW bytes \in Seq(S), NEW longer \in Seq(S), Extends(longer, bytes),
         NEW present \in SUBSET Fields,
         \/ "dataLength" \notin present
         \/ FieldStatus(bytes, present, "dataLength") # "partial"
  PROVE  LengthIn(longer, present) = LengthIn(bytes, present)
<1> DEFINE start == Position(present, "dataLength", 0)
<1>1. CASE "dataLength" \notin present
  BY <1>1 DEF LengthIn
<1>2. CASE FieldStatus(bytes, present, "dataLength") # "partial"
  <2>1. start \in Nat /\ 0 \in Nat
    BY SizesAreNumbers
  <2>2. Status(bytes, start, "dataLength", 0) # "partial"
    <3>1. "dataLength" # "data" /\ "data" \notin Before("dataLength")
      BY DataAreLater
    <3> QED
      BY <1>2, <3>1, LengthMovesLaterStatus DEF FieldStatus
  <2> HIDE DEF start
  <2>3. /\ Status(longer, start, "dataLength", 0) = Status(bytes, start, "dataLength", 0)
        /\ ReadField(longer, start, "dataLength", 0) = ReadField(bytes, start, "dataLength", 0)
    BY <2>1, <2>2, StatusStays
  <2>4. ReadLe(longer, start) = ReadLe(bytes, start)
    BY <2>3 DEF ReadField
  <2> QED
    BY <2>3, <2>4 DEF LengthIn, start
<1> QED
  BY <1>1, <1>2

(* Up to the first field that stops the reading, each field keeps its      *)
(* status when more bytes follow, if that first one is not incomplete.     *)
LEMMA EarlierStatusStays ==
  ASSUME NEW S, NEW bytes \in Seq(S), NEW longer \in Seq(S), Extends(longer, bytes),
         NEW present \in SUBSET Fields, NEW f \in present,
         Stops(bytes, present) \cap Before(f) = {},
         FieldStatus(bytes, present, f) # "partial"
  PROVE  FieldStatus(longer, present, f) = FieldStatus(bytes, present, f)
<1> DEFINE length == LengthIn(bytes, present)
           new    == LengthIn(longer, present)
<1>1. length \in Nat /\ new \in Nat /\ 0 \in Nat
  BY LengthIsNumber
<1>2. Status(longer, Position(present, f, length), f, length) = FieldStatus(bytes, present, f)
  <2>1. Position(present, f, length) \in Nat
    BY <1>1, SizesAreNumbers
  <2> HIDE DEF length
  <2> QED
    BY <1>1, <2>1, StatusStays DEF FieldStatus, length
<1>3. CASE new = length
  BY <1>2, <1>3 DEF FieldStatus
<1>4. CASE new # length
  <2>1. "dataLength" \in present /\ FieldStatus(bytes, present, "dataLength") = "partial"
    BY <1>4, LengthStays
  <2>3. f # "dataLength" /\ "dataLength" \notin Before(f)
    BY <2>1 DEF Stops
  <2>4. f \in Fields /\ f \in Before("dataLength")
    BY <2>3, DataAreLater, OrderIsStrict
  <2>5. f # "data" /\ "data" \notin Before(f)
    BY <2>4, DataAreLater
  <2>6. Status(longer, Position(present, f, new), f, new)
          = Status(longer, Position(present, f, length), f, length)
    BY <2>5, LengthMovesLaterStatus
  <2> QED
    BY <1>2, <2>6 DEF FieldStatus
<1> QED
  BY <1>3, <1>4

(* The fields of a packet are read the same when more bytes follow, unless *)
(* the result is that more are needed.                                     *)
LEMMA FieldsStay ==
  ASSUME NEW S, NEW bytes \in Seq(S), NEW longer \in Seq(S), Extends(longer, bytes),
         NEW present \in SUBSET Fields, NEW code,
         ReadFields(bytes, code, present).status # "partial"
  PROVE  ReadFields(longer, code, present) = ReadFields(bytes, code, present)
<1> DEFINE first == FirstStop(bytes, present)
<1>1. CASE Stops(bytes, present) = {}
  <2>1. ASSUME NEW f \in present
        PROVE  FieldStatus(bytes, present, f) = "complete"
    BY <1>1 DEF Stops
  <2>2. ASSUME NEW f \in present
        PROVE  FieldStatus(longer, present, f) = "complete"
    BY <1>1, <2>1, EarlierStatusStays
  <2>3. Stops(longer, present) = {}
    BY <2>2 DEF Stops
  <2>4. LengthIn(longer, present) = LengthIn(bytes, present)
    BY <2>1, LengthStays
  <2>5. ASSUME NEW f \in present
        PROVE  ReadField(longer, Position(present, f, LengthIn(longer, present)),
                         f, LengthIn(longer, present))
                 = ReadField(bytes, Position(present, f, LengthIn(bytes, present)),
                             f, LengthIn(bytes, present))
    <3> DEFINE length == LengthIn(bytes, present)
               pos    == Position(present, f, length)
    <3>1. length \in Nat /\ pos \in Nat
      BY LengthIsNumber, SizesAreNumbers
    <3>2. Status(bytes, pos, f, length) # "partial"
      BY <2>1 DEF FieldStatus
    <3> HIDE DEF pos, length
    <3>3. ReadField(longer, pos, f, length) = ReadField(bytes, pos, f, length)
      BY <3>1, <3>2, StatusStays
    <3> QED
      BY <2>4, <3>3 DEF pos, length
  <2> QED
    BY <1>1, <2>3, <2>4, <2>5, ReadFieldsIs
<1>2. CASE Stops(bytes, present) # {}
  <2>1. /\ first \in Stops(bytes, present) /\ first \in present
        /\ Stops(bytes, present) \cap Before(first) = {}
    BY <1>2, FirstStopIs DEF Stops
  <2>2. FieldStatus(bytes, present, first) # "partial"
    BY <1>2, ReadFieldsIs
  <2>3. FieldStatus(longer, present, first) = FieldStatus(bytes, present, first)
    BY <2>1, <2>2, EarlierStatusStays
  <2>4. first \in Stops(longer, present)
    BY <2>1, <2>3 DEF Stops
  <2>5. ASSUME NEW f \in present, f \in Before(first)
        PROVE  f \notin Stops(longer, present)
    <3>1. FieldStatus(bytes, present, f) = "complete"
      BY <2>1, <2>5 DEF Stops
    <3>2. Stops(bytes, present) \cap Before(f) = {}
      <4>1. f \in Fields /\ first \in Fields /\ Stops(bytes, present) \subseteq Fields
        BY <2>1 DEF Stops
      <4> HIDE DEF first
      <4> QED
        BY <2>1, <2>5, <4>1, OrderIsTransitive
    <3>3. FieldStatus(longer, present, f) = "complete"
      BY <3>1, <3>2, EarlierStatusStays
    <3> QED
      BY <3>3 DEF Stops
  <2>6. first = FirstStop(longer, present)
    BY <2>4, <2>5, FirstStopIs DEF Stops
  <2> QED
    BY <1>2, <2>3, <2>4, <2>6, ReadFieldsIs
<1> QED
  BY <1>1, <1>2

(* readFrom's header: the flags name some of the fields. *)
FlaggedIn(bytes) == {f \in DOMAIN PacketFlags : HasFlag(ReadLe(bytes, 4), f)}

(* What readFrom finds in the first bytes of a buffer, if that is not that *)
(* more are needed, it finds in the whole buffer.                          *)
LEMMA ReadFromStays ==
  ASSUME NEW S, NEW bytes \in Seq(S), NEW longer \in Seq(S), Extends(longer, bytes),
         ReadFrom(bytes).status # "partial"
  PROVE  ReadFrom(longer) = ReadFrom(bytes)
<1>1. FlaggedIn(bytes) \in SUBSET Fields
  BY DEF FlaggedIn, Fields
<1>2. CanRead(bytes, 0, HeaderSize) /\ CanRead(longer, 0, HeaderSize)
  <2>1. CanRead(bytes, 0, HeaderSize)
    BY DEF ReadFrom
  <2> QED
    BY <2>1 DEF CanRead, Extends, HeaderSize
<1>3. ReadLe(longer, 0) = ReadLe(bytes, 0) /\ ReadLe(longer, 4) = ReadLe(bytes, 4)
  <2>1. 0 + 4 <= Len(bytes) /\ 4 + 4 <= Len(bytes) /\ 0 \in Nat /\ 4 \in Nat
    BY <1>2 DEF CanRead, HeaderSize
  <2> QED
    BY <2>1, ReadLeStays
<1>4. FlaggedIn(longer) = FlaggedIn(bytes)
  BY <1>3 DEF FlaggedIn
<1>5. CASE ~ PacketCodeExists(ReadLe(bytes, 0))
  BY <1>2, <1>3, <1>5 DEF ReadFrom
<1>6. CASE PacketCodeExists(ReadLe(bytes, 0))
  <2>1. ReadFrom(bytes) = ReadFields(bytes, ReadLe(bytes, 0), FlaggedIn(bytes))
    BY <1>2, <1>6 DEF ReadFrom, FlaggedIn
  <2>2. ReadFrom(longer) = ReadFields(longer, ReadLe(bytes, 0), FlaggedIn(bytes))
    BY <1>2, <1>3, <1>4, <1>6 DEF ReadFrom, FlaggedIn
  <2>3. ReadFields(longer, ReadLe(bytes, 0), FlaggedIn(bytes))
          = ReadFields(bytes, ReadLe(bytes, 0), FlaggedIn(bytes))
    BY <1>1, <2>1, FieldsStay
  <2> QED
    BY <2>1, <2>2, <2>3
<1> QED
  BY <1>5, <1>6

(* readFrom does not look past the packet: what it finds in the first      *)
(* bytes of a stream, a packet or an error, is what it finds there however *)
(* many more bytes the buffer holds.  Only "partial" depends on where the  *)
(* stream was cut.                                                         *)
THEOREM MoreBytesChangeNothing ==
  ASSUME NEW S, NEW bytes \in Seq(S), NEW more \in Seq(S),
         ReadFrom(bytes).status # "partial"
  PROVE  ReadFrom(bytes \o more) = ReadFrom(bytes)
<1> DEFINE longer == bytes \o more
<1>1. longer \in Seq(S) /\ Extends(longer, bytes)
  BY ConcatProperties DEF Extends
<1> HIDE DEF longer
<1>2. ReadFrom(longer) = ReadFrom(bytes)
  BY <1>1, ReadFromStays
<1> QED
  BY <1>2 DEF longer

(* A packet that is complete has all its bytes in the buffer, and takes    *)
(* the header's at least: the reader removes no byte that it does not      *)
(* hold, and never stands still.                                           *)
THEOREM CompleteFits ==
  ASSUME NEW S, NEW bytes \in Seq(S), ReadFrom(bytes).status = "complete"
  PROVE  ReadFrom(bytes).size \in HeaderSize .. Len(bytes)
<1> DEFINE present == FlaggedIn(bytes)
           length  == LengthIn(bytes, present)
           code    == ReadLe(bytes, 0)
<1>1. present \in SUBSET Fields
  BY DEF FlaggedIn, Fields
<1>2. length \in Nat
  BY LengthIsNumber
<1>3. CanRead(bytes, 0, HeaderSize) /\ ReadFrom(bytes) = ReadFields(bytes, code, present)
  BY DEF ReadFrom, FlaggedIn
<1>4. Stops(bytes, present) = {} /\ ReadFrom(bytes).size = HeaderSize + TotalSize(present, length)
  <2> HIDE DEF present, code
  <2>1. Stops(bytes, present) = {}
    <3> SUFFICES ASSUME Stops(bytes, present) # {} PROVE FALSE
      OBVIOUS
    <3>1. FirstStop(bytes, present) \in Stops(bytes, present)
      BY <1>1, FirstStopIs
    <3>2. ReadFields(bytes, code, present)
            = [status |-> FieldStatus(bytes, present, FirstStop(bytes, present))]
      BY <1>1, ReadFieldsIs
    <3> QED
      BY <1>3, <3>1, <3>2 DEF Stops
  <2> QED
    BY <1>1, <1>3, <2>1, ReadFieldsIs
<1>5. TotalSize(present, length) \in Nat
  BY <1>1, <1>2, SizesAreNumbers
<1> HIDE DEF present, length, code
<1>6. CASE present = {}
  <2>1. TotalSize(present, length) = 0
    <3>1. present \ {"data", "name", "info"} = {}
      BY <1>6
    <3>2. Cardinality(present \ {"data", "name", "info"}) = 0
      BY <3>1, FS_EmptySet
    <3> QED
      BY <1>6, <3>2 DEF TotalSize
  <2> QED
    BY <1>3, <1>4, <2>1 DEF CanRead, HeaderSize
<1>7. CASE present # {}
  <2>1. PICK f \in present : present \cap Before(f) = present \ {f}
    BY <1>1, <1>7, FirstAndLastField
  <2> DEFINE pos == Position(present, f, length)
  <2>2. pos + FieldSize(f, length) = HeaderSize + TotalSize(present, length)
    BY <1>1, <1>2, <2>1, LastFieldEnds
  <2> HIDE DEF pos
  <2>3. FieldStatus(bytes, present, f) = "complete"
    BY <1>4 DEF Stops
  <2>4. CanRead(bytes, pos, FieldSize(f, length))
    BY <2>3 DEF FieldStatus, Status, pos, length
  <2> QED
    BY <1>4, <1>5, <2>2, <2>4 DEF CanRead, HeaderSize
<1> QED
  BY <1>6, <1>7

-----------------------------------------------------------------------------
(* Words and flags. *)

(* Words are integers with bounds. *)
LEMMA WordBounds ==
  ASSUME NEW n \in Word
  PROVE  n \in Int /\ -2147483648 <= n /\ n <= 2147483647
BY SMT DEF Word

(* Words are written as four bytes. *)
LEMMA WordBytes ==
  ASSUME NEW n \in Word
  PROVE  /\ WriteLe(n) \in Seq(Byte) /\ Len(WriteLe(n)) = 4
<1>1. n \in Int
  BY WordBounds
<1>2. \A m \in Int : m % 256 \in Byte
  BY SMT DEF Byte
<1> DEFINE a == n % 256
           b == (n \div 256) % 256
           c == (n \div 65536) % 256
           d == (n \div 16777216) % 256
<1>3. a \in Byte /\ b \in Byte /\ c \in Byte /\ d \in Byte
  BY SMT, <1>1, <1>2
<1>4. WriteLe(n) = <<a, b, c, d>>
  BY SMT DEF WriteLe
<1> HIDE DEF a, b, c, d
<1> QED
  BY SMT, <1>3, <1>4

(* readLe undoes writeLe. *)
LEMMA WordIsRead ==
  ASSUME NEW n \in Word, NEW bytes, NEW pos \in Nat,
         \A k \in 1 .. 4 : bytes[pos + k] = WriteLe(n)[k]
  PROVE  ReadLe(bytes, pos) = n
<1> DEFINE a == n % 256
           b == (n \div 256) % 256
           c == (n \div 65536) % 256
           d == (n \div 16777216) % 256
           q == n \div 16777216
<1>1. n \in Int /\ -2147483648 <= n /\ n <= 2147483647
  BY SMT, WordBounds
<1>2. WriteLe(n) = <<a, b, c, d>>
  BY SMT DEF WriteLe
<1>3. n = a + (256 * b) + (65536 * c) + (16777216 * q)
  <2> DEFINE x == n \div 256
             y == x \div 256
  <2>1. n = a + 256 * x /\ x \in Int /\ a \in Int
    BY SMT, <1>1
  <2>2. x = (x % 256) + 256 * y /\ y \in Int
    BY SMT, <2>1
  <2>3. y = (y % 256) + 256 * (y \div 256)
    BY SMT, <2>2
  <2>4. n \div 65536 = y /\ n \div 16777216 = y \div 256
    BY SMT, <1>1
  <2> QED
    BY SMT, <2>1, <2>2, <2>3, <2>4
<1>4. q = IF d < 128 THEN d ELSE d - 256
  <2>1. q \in Int /\ q >= -128 /\ q <= 127
    BY SMT, <1>1
  <2>2. q >= 0 => q % 256 = q
    BY SMT, <2>1
  <2>3. q < 0 => q % 256 = q + 256
    BY SMT, <2>1
  <2> QED
    BY SMT, <2>1, <2>2, <2>3
<1>5. a \in Int /\ b \in Int /\ c \in Int /\ d \in Int /\ q \in Int
  BY SMT, <1>1
<1> HIDE DEF a, b, c, d, q
<1>6. bytes[pos + 1] = a /\ bytes[pos + 2] = b /\ bytes[pos + 3] = c /\ bytes[pos + 4] = d
  BY SMT, <1>2
<1>7. ReadLe(bytes, pos) = a + (256 * b) + (65536 * c) + (16777216 * q)
  BY SMT, <1>4, <1>6 DEF ReadLe
<1> QED
  BY SMT, <1>3, <1>7

-----------------------------------------------------------------------------
(* The flags. *)

(* Of some sets of fields one has no smaller one among them. *)
LEMMA SmallestSet ==
  ASSUME NEW Sets \in SUBSET (SUBSET Fields), Sets # {}
  PROVE  \E s \in Sets : \A x \in s : s \ {x} \notin Sets
<1> DEFINE T == {Cardinality(s) : s \in Sets}
<1>1. \A s \in Sets : IsFiniteSet(s) /\ Cardinality(s) \in Nat
  BY FieldsAreFinite, FS_Subset, FS_CardinalityType
<1>2. T \in SUBSET Nat /\ T # {}
  BY <1>1
<1>3. PICK m \in T : \A n \in T : m <= n
  <2> HIDE DEF T
  <2> QED
    BY <1>2, LeastNumber
<1>4. PICK s \in Sets : Cardinality(s) = m
  OBVIOUS
<1>5. ASSUME NEW x \in s, s \ {x} \in Sets PROVE FALSE
  <2>1. Cardinality(s \ {x}) = Cardinality(s) - 1
    BY <1>1, FS_RemoveElement
  <2>2. m <= Cardinality(s \ {x})
    BY <1>3, <1>5
  <2> QED
    BY <1>1, <1>4, <2>1, <2>2
<1> QED
  BY <1>5

(* The bit of each field. *)
Bit(fields, f, value) == IF f \in fields THEN value ELSE 0
FlagsOf(fields) ==
  Bit(fields, "value0", 1) + Bit(fields, "value1", 2) + Bit(fields, "value2", 4)
    + Bit(fields, "value3", 8) + Bit(fields, "value4", 16) + Bit(fields, "value10", 1024)
    + Bit(fields, "dataLength", 32) + Bit(fields, "data", 64) + Bit(fields, "error", 128)
    + Bit(fields, "name", 256) + Bit(fields, "info", 512)

(* One field more is its bit more. *)
LEMMA OneMoreBit ==
  ASSUME NEW fields \in SUBSET Fields, NEW f \in fields
  PROVE  FlagsOf(fields) = PacketFlags[f] + FlagsOf(fields \ {f})
BY DEF Fields, PacketFlags, FlagsOf, Bit

(* The sum of the flags is the number with their bits. *)
LEMMA SumIsFlags ==
  ASSUME NEW fields \in SUBSET Fields
  PROVE  SumFunctionOnSet(PacketFlags, fields) = FlagsOf(fields)
<1> DEFINE Step(g) == [s \in SUBSET fields |->
                         IF s = {} THEN 0
                         ELSE PacketFlags[CHOOSE x \in s : TRUE]
                                + g[s \ {CHOOSE x \in s : TRUE}]]
           f == CHOOSE g : g = Step(g)
           h == [s \in SUBSET fields |-> FlagsOf(s)]
<1>1. SumFunctionOnSet(PacketFlags, fields) = f[fields]
  BY DEF SumFunctionOnSet, FoldFunctionOnSet, MapThenFoldSet
<1>2. h = Step(h)
  <2> SUFFICES ASSUME NEW s \in SUBSET fields
               PROVE  h[s] = IF s = {} THEN 0
                             ELSE PacketFlags[CHOOSE x \in s : TRUE]
                                    + h[s \ {CHOOSE x \in s : TRUE}]
    OBVIOUS
  <2> DEFINE x == CHOOSE x \in s : TRUE
  <2>1. CASE s = {}
    BY <2>1 DEF FlagsOf, Bit
  <2>2. CASE s # {}
    <3>1. x \in s
      BY <2>2
    <3> HIDE DEF x
    <3>2. h[s] = PacketFlags[x] + h[s \ {x}]
      BY <3>1, OneMoreBit
    <3> QED
      BY <2>2, <3>2 DEF x
  <2> QED
    BY <2>1, <2>2
<1>3. f = Step(f)
  <2> HIDE DEF Step
  <2> QED
    BY <1>2
<1> HIDE DEF f
<1> DEFINE Bad == {s \in SUBSET fields : f[s] # h[s]}
<1>4. ASSUME Bad # {} PROVE FALSE
  <2>1. PICK s \in Bad : \A x \in s : s \ {x} \notin Bad
    <3>1. Bad \in SUBSET (SUBSET Fields)
      OBVIOUS
    <3> HIDE DEF Bad
    <3> QED
      BY <1>4, <3>1, SmallestSet
  <2> DEFINE x == CHOOSE x \in s : TRUE
  <2>2. s # {}
    BY <1>2, <1>3
  <2>3. x \in s
    BY <2>2
  <2>4. f[s] = PacketFlags[x] + f[s \ {x}] /\ h[s] = PacketFlags[x] + h[s \ {x}]
    BY <1>2, <1>3, <2>2
  <2> HIDE DEF x
  <2>5. f[s \ {x}] = h[s \ {x}]
    BY <2>1, <2>3
  <2> QED
    BY <2>1, <2>4, <2>5
<1> QED
  BY <1>1, <1>4

(* The flags of some fields are those fields. *)
LEMMA FlagsAreFields ==
  ASSUME NEW fields \in SUBSET Fields
  PROVE  /\ FlagsOf(fields) \in 0 .. 2047
         /\ \A f \in Fields : HasFlag(FlagsOf(fields), f) <=> f \in fields
<1> DEFINE a == Bit(fields, "value0", 1)
           b == Bit(fields, "value1", 1)
           c == Bit(fields, "value2", 1)
           d == Bit(fields, "value3", 1)
           e == Bit(fields, "value4", 1)
           f == Bit(fields, "dataLength", 1)
           g == Bit(fields, "data", 1)
           h == Bit(fields, "error", 1)
           i == Bit(fields, "name", 1)
           j == Bit(fields, "info", 1)
           k == Bit(fields, "value10", 1)
           n == FlagsOf(fields)
<1>1. /\ a \in {0, 1} /\ b \in {0, 1} /\ c \in {0, 1} /\ d \in {0, 1} /\ e \in {0, 1}
      /\ f \in {0, 1} /\ g \in {0, 1} /\ h \in {0, 1} /\ i \in {0, 1} /\ j \in {0, 1}
      /\ k \in {0, 1}
  BY DEF Bit
<1>2. n = a + 2 * b + 4 * c + 8 * d + 16 * e + 32 * f + 64 * g + 128 * h + 256 * i
            + 512 * j + 1024 * k
  BY DEF FlagsOf, Bit
<1>3. /\ a = 1 <=> "value0" \in fields
      /\ b = 1 <=> "value1" \in fields
      /\ c = 1 <=> "value2" \in fields
      /\ d = 1 <=> "value3" \in fields
      /\ e = 1 <=> "value4" \in fields
      /\ f = 1 <=> "dataLength" \in fields
      /\ g = 1 <=> "data" \in fields
      /\ h = 1 <=> "error" \in fields
      /\ i = 1 <=> "name" \in fields
      /\ j = 1 <=> "info" \in fields
      /\ k = 1 <=> "value10" \in fields
  BY DEF Bit
<1> HIDE DEF a, b, c, d, e, f, g, h, i, j, k, n
<1>4. n \in Nat /\ n <= 2047
  BY <1>1, <1>2
<1>5. /\ (n \div 1) % 2 = a /\ (n \div 2) % 2 = b /\ (n \div 4) % 2 = c
      /\ (n \div 8) % 2 = d /\ (n \div 16) % 2 = e /\ (n \div 32) % 2 = f
      /\ (n \div 64) % 2 = g /\ (n \div 128) % 2 = h /\ (n \div 256) % 2 = i
      /\ (n \div 512) % 2 = j /\ (n \div 1024) % 2 = k
  BY <1>1, <1>2, <1>4, SMTT(60)
<1>6. \A x \in Fields : HasFlag(n, x) <=> x \in fields
  BY <1>3, <1>5 DEF HasFlag, Fields, PacketFlags
<1> QED
  BY <1>4, <1>6 DEF n

-----------------------------------------------------------------------------
(* What is laid out is at its position. *)

(* The first fields of the order. *)
FirstFields(n) == {FieldOrder[i] : i \in 1 .. n}

(* Before a field are the ones that the order lists first. *)
LEMMA BeforeIsFirst ==
  ASSUME NEW n \in 1 .. 11
  PROVE  Before(FieldOrder[n]) = FirstFields(n - 1)
<1>1. \A i \in 1 .. 11 : i < n <=> i \in 1 .. n - 1
  OBVIOUS
<1>2. \A i \in 1 .. n - 1 : i \in 1 .. 11
  OBVIOUS
<1>3. Before(FieldOrder[n]) = {FieldOrder[i] : i \in {i \in 1 .. 11 : i < n}}
  BY OrderIsListing DEF Before
<1>4. {i \in 1 .. 11 : i < n} = 1 .. n - 1
  BY <1>1, <1>2
<1> QED
  BY <1>3, <1>4 DEF FirstFields

(* The sizes of the first fields of a packet are sums. *)
LEMMA SizesOfFirst ==
  ASSUME NEW present \in SUBSET Fields, NEW length \in Nat
  PROVE  /\ TotalSize(present \cap FirstFields(0), length) = 0
         /\ TotalSize(present \cap FirstFields(11), length) = TotalSize(present, length)
         /\ \A n \in 0 .. 11 : TotalSize(present \cap FirstFields(n), length) \in Nat
         /\ \A n \in 1 .. 11 :
              TotalSize(present \cap FirstFields(n), length)
                = TotalSize(present \cap FirstFields(n - 1), length)
                    + IF FieldOrder[n] \in present THEN FieldSize(FieldOrder[n], length) ELSE 0
<1>1. TotalSize(present \cap FirstFields(0), length) = 0
  <2>1. present \cap FirstFields(0) = {}
    BY DEF FirstFields
  <2>2. {} \ {"data", "name", "info"} = {}
    OBVIOUS
  <2>3. TotalSize({}, length) = 0
    BY <2>2, FS_EmptySet DEF TotalSize
  <2> QED
    BY <2>1, <2>3
<1>2. present \cap FirstFields(11) = present
  <2>1. \A f \in present : f \in FirstFields(11)
    BY OrderIsListing DEF FirstFields
  <2> QED
    BY <2>1
<1>3. ASSUME NEW n \in 0 .. 11 PROVE TotalSize(present \cap FirstFields(n), length) \in Nat
  <2> DEFINE some == present \cap FirstFields(n)
  <2>1. some \in SUBSET Fields
    OBVIOUS
  <2> HIDE DEF some
  <2>2. TotalSize(some, length) \in Nat
    BY <2>1, SizesAreNumbers
  <2> QED
    BY <2>2 DEF some
<1>4. ASSUME NEW n \in 1 .. 11
      PROVE  TotalSize(present \cap FirstFields(n), length)
               = TotalSize(present \cap FirstFields(n - 1), length)
                   + IF FieldOrder[n] \in present THEN FieldSize(FieldOrder[n], length) ELSE 0
  <2> DEFINE f == FieldOrder[n]
             old == present \cap FirstFields(n - 1)
             new == present \cap FirstFields(n)
  <2>1. FirstFields(n) = FirstFields(n - 1) \cup {f}
    <3>1. \A i \in 1 .. n : i = n \/ i \in 1 .. n - 1
      OBVIOUS
    <3>2. \A i \in 1 .. n - 1 : i \in 1 .. n
      OBVIOUS
    <3>3. n \in 1 .. n
      OBVIOUS
    <3> QED
      BY <3>1, <3>2, <3>3 DEF FirstFields
  <2>2. f \in Fields /\ f \notin FirstFields(n - 1)
    <3>1. \A i \in 1 .. n - 1 : i \in 1 .. 11 /\ i # n
      OBVIOUS
    <3> QED
      BY <3>1, OrderIsListing DEF FirstFields
  <2>3. old \in SUBSET Fields /\ f \in Fields \ old
    BY <2>2
  <2>4. TotalSize(old, length) \in Nat
    <3>1. n - 1 \in 0 .. 11
      OBVIOUS
    <3> QED
      BY <1>3, <3>1
  <2>5. CASE f \in present
    <3>1. new = old \cup {f}
      BY <2>1, <2>5
    <3> HIDE DEF old, new, f
    <3>2. TotalSize(old \cup {f}, length) = TotalSize(old, length) + FieldSize(f, length)
      BY <2>3, OneMoreField
    <3>3. TotalSize(new, length)
            = TotalSize(old, length) + (IF f \in present THEN FieldSize(f, length) ELSE 0)
      BY <2>5, <3>1, <3>2
    <3> QED
      BY <3>3 DEF old, new, f
  <2>6. CASE f \notin present
    <3>1. new = old
      BY <2>1, <2>6
    <3> HIDE DEF old, new, f
    <3>2. TotalSize(new, length)
            = TotalSize(old, length) + (IF f \in present THEN FieldSize(f, length) ELSE 0)
      BY <2>4, <2>6, <3>1
    <3> QED
      BY <3>2 DEF old, new, f
  <2> QED
    BY <2>5, <2>6
<1> QED
  BY <1>1, <1>2, <1>3, <1>4

(* More fields are not fewer bytes. *)
LEMMA TotalGrows ==
  ASSUME NEW more \in SUBSET Fields, NEW fields \in SUBSET more, NEW length \in Nat
  PROVE  TotalSize(fields, length) <= TotalSize(more, length)
<1> DEFINE words(some) == Cardinality(some \ {"data", "name", "info"})
           data(some)  == IF "data" \in some THEN length ELSE 0
           name(some)  == IF "name" \in some THEN MaxNameLength ELSE 0
           info(some)  == IF "info" \in some THEN InfoSize ELSE 0
<1>1. MaxNameLength \in Nat /\ InfoSize \in Nat
  BY CodecAssumption DEF InfoSize
<1>2. words(fields) \in Nat /\ words(more) \in Nat /\ words(fields) <= words(more)
  <2> DEFINE a == fields \ {"data", "name", "info"}
             b == more \ {"data", "name", "info"}
  <2>1. b \in SUBSET Fields /\ a \in SUBSET b
    OBVIOUS
  <2> HIDE DEF a, b
  <2>2. IsFiniteSet(b)
    BY <2>1, FieldsAreFinite, FS_Subset
  <2>3. IsFiniteSet(a) /\ Cardinality(a) <= Cardinality(b)
    BY <2>1, <2>2, FS_Subset
  <2>4. Cardinality(a) \in Nat /\ Cardinality(b) \in Nat
    BY <2>2, <2>3, FS_CardinalityType
  <2> QED
    BY <2>3, <2>4 DEF a, b
<1>3. /\ data(fields) <= data(more) /\ name(fields) <= name(more) /\ info(fields) <= info(more)
      /\ data(fields) \in Nat /\ name(fields) \in Nat /\ info(fields) \in Nat
      /\ data(more) \in Nat /\ name(more) \in Nat /\ info(more) \in Nat
  BY <1>1
<1>4. \A some : TotalSize(some, length)
                 = (4 * words(some)) + data(some) + name(some) + info(some)
  BY DEF TotalSize
<1> HIDE DEF words, data, name, info
<1>5. /\ TotalSize(fields, length)
           = (4 * words(fields)) + data(fields) + name(fields) + info(fields)
      /\ TotalSize(more, length) = (4 * words(more)) + data(more) + name(more) + info(more)
  BY <1>4
<1> QED
  BY <1>2, <1>3, <1>5

(* A field ends within its packet, and before each later field. *)
LEMMA FieldEndsInside ==
  ASSUME NEW present \in SUBSET Fields, NEW f \in present, NEW length \in Nat
  PROVE  /\ Position(present, f, length) + FieldSize(f, length)
              <= HeaderSize + TotalSize(present, length)
         /\ \A g \in Fields : f \in Before(g) =>
              Position(present, f, length) + FieldSize(f, length)
                <= Position(present, g, length)
<1> DEFINE before == present \cap Before(f)
           upTo   == before \cup {f}
<1>1. f \in Fields \ before
  BY OrderIsStrict
<1>2. before \in SUBSET Fields /\ upTo \in SUBSET present /\ upTo \in SUBSET Fields
  OBVIOUS
<1>3. TotalSize(before, length) \in Nat /\ FieldSize(f, length) \in Nat
      /\ TotalSize(present, length) \in Nat
  <2> HIDE DEF before
  <2> QED
    BY <1>2, SizesAreNumbers
<1>4. TotalSize(upTo, length) = TotalSize(before, length) + FieldSize(f, length)
  <2> HIDE DEF before
  <2> QED
    BY <1>1, <1>2, OneMoreField
<1>5. TotalSize(upTo, length) <= TotalSize(present, length)
  <2> HIDE DEF upTo
  <2> QED
    BY <1>2, TotalGrows
<1>6. Position(present, f, length) = HeaderSize + TotalSize(before, length)
  BY DEF Position
<1>7. ASSUME NEW g \in Fields, f \in Before(g)
      PROVE  Position(present, f, length) + FieldSize(f, length) <= Position(present, g, length)
  <2> DEFINE later == present \cap Before(g)
  <2>1. upTo \in SUBSET later
    BY <1>7, OrderIsTransitive
  <2>2. later \in SUBSET Fields
    OBVIOUS
  <2>3. Position(present, g, length) = HeaderSize + TotalSize(later, length)
    BY DEF Position
  <2> HIDE DEF later, upTo, before
  <2>4. TotalSize(upTo, length) <= TotalSize(later, length) /\ TotalSize(later, length) \in Nat
    BY <2>1, <2>2, TotalGrows, SizesAreNumbers
  <2> QED
    BY <1>3, <1>4, <1>6, <2>3, <2>4 DEF HeaderSize
<1>8. Position(present, f, length) + FieldSize(f, length)
        <= HeaderSize + TotalSize(present, length)
  <2> HIDE DEF upTo, before
  <2> QED
    BY <1>3, <1>4, <1>5, <1>6 DEF HeaderSize
<1> QED
  BY <1>7, <1>8

(* Some bytes have a part of them at a position. *)
PlacedAt(bytes, pos, part) ==
  /\ bytes \in Seq(Byte) /\ part \in Seq(Byte) /\ pos \in Nat
  /\ pos + Len(part) <= Len(bytes)
  /\ \A k \in 1 .. Len(part) : bytes[pos + k] = part[k]

(* The fields of a packet lie one behind the other, each at its position. *)
LEMMA LaidOutIs ==
  ASSUME NEW present \in SUBSET Fields, NEW parts \in [present -> Seq(Byte)],
         NEW length \in Nat, \A f \in present : Len(parts[f]) = FieldSize(f, length)
  PROVE  /\ LaidOut(parts) \in Seq(Byte)
         /\ Len(LaidOut(parts)) = TotalSize(present, length)
         /\ \A f \in present : \A k \in 1 .. FieldSize(f, length) :
              /\ TotalSize(present \cap Before(f), length) + k \in 1 .. TotalSize(present, length)
              /\ LaidOut(parts)[TotalSize(present \cap Before(f), length) + k] = parts[f][k]
<1> DEFINE N == 11
           runs == [i \in 1 .. N |->
                      IF FieldOrder[i] \in present THEN parts[FieldOrder[i]] ELSE <<>>]
           g == [n \in 0 .. N |-> TotalSize(present \cap FirstFields(n), length)]
           S == Byte
<1>1. LaidOut(parts) = FlattenSeq(runs)
  BY OrderIsListing DEF LaidOut
<1>2. N \in Nat
  OBVIOUS
<1>3. runs \in [1 .. N -> Seq(S)]
  BY EmptySeq
<1>4. g \in [0 .. N -> Nat] /\ g[0] = 0 /\ g[N] = TotalSize(present, length)
  <2>1. \A n \in 0 .. N : TotalSize(present \cap FirstFields(n), length) \in Nat
    BY SizesOfFirst
  <2>2. 0 \in 0 .. N /\ N \in 0 .. N
    OBVIOUS
  <2>3. g[0] = TotalSize(present \cap FirstFields(0), length)
    BY <2>2
  <2>4. g[N] = TotalSize(present \cap FirstFields(11), length)
    BY <2>2
  <2>5. g \in [0 .. N -> Nat]
    BY <2>1
  <2> HIDE DEF g
  <2> QED
    BY <2>3, <2>4, <2>5, SizesOfFirst
<1>5. ASSUME NEW n \in 1 .. N PROVE g[n] = g[n - 1] + Len(runs[n])
  <2>1. n \in 0 .. N /\ n - 1 \in 0 .. N
    OBVIOUS
  <2>2. Len(runs[n]) = IF FieldOrder[n] \in present THEN FieldSize(FieldOrder[n], length) ELSE 0
    BY EmptySeq
  <2> QED
    BY <2>1, <2>2, SizesOfFirst
<1>6. /\ FlattenSeq(runs) \in Seq(S) /\ Len(FlattenSeq(runs)) = g[N]
      /\ \A n \in 1 .. N : \A k \in 1 .. Len(runs[n]) :
           /\ g[n - 1] + k \in 1 .. g[N]
           /\ FlattenSeq(runs)[g[n - 1] + k] = runs[n][k]
  <2>1. Sums(g, N, runs)
    <3> HIDE DEF N, runs, g
    <3> QED
      BY <1>4, <1>5 DEF Sums
  <2> HIDE DEF N, runs, g, S
  <2>2. /\ FlattenSeq(runs) \in Seq(S) /\ Len(FlattenSeq(runs)) = g[N]
        /\ InPlace(FlattenSeq(runs), g, N, runs)
    BY <1>2, <1>3, <2>1, FlattenIs
  <2> QED
    BY <2>2 DEF InPlace
<1>7. ASSUME NEW f \in present, NEW k \in 1 .. FieldSize(f, length)
      PROVE  /\ TotalSize(present \cap Before(f), length) + k \in 1 .. TotalSize(present, length)
             /\ LaidOut(parts)[TotalSize(present \cap Before(f), length) + k] = parts[f][k]
  <2>1. PICK n \in 1 .. N : FieldOrder[n] = f
    BY OrderIsListing
  <2>2. runs[n] = parts[f] /\ k \in 1 .. Len(runs[n])
    BY <2>1
  <2>3. n - 1 \in 0 .. N
    OBVIOUS
  <2>4. g[n - 1] = TotalSize(present \cap Before(f), length)
    BY <2>1, <2>3, BeforeIsFirst
  <2> HIDE DEF N, runs, g
  <2> QED
    BY <1>1, <1>4, <1>6, <2>2, <2>4
<1> QED
  BY <1>1, <1>4, <1>6, <1>7

(* The bytes are a packet with this header and these parts. *)
IsLayout(bytes, code, flags, present, parts, length) ==
  /\ code \in Word /\ flags \in Word /\ length \in Nat
  /\ present \in SUBSET Fields /\ parts \in [present -> Seq(Byte)]
  /\ \A f \in present : Len(parts[f]) = FieldSize(f, length)
  /\ bytes = WriteLe(code) \o WriteLe(flags) \o LaidOut(parts)

(* In a packet that is laid out the header can be read, and each field is  *)
(* at its position.                                                        *)
LEMMA LayoutIs ==
  ASSUME NEW code, NEW flags, NEW present, NEW parts, NEW length, NEW bytes,
         IsLayout(bytes, code, flags, present, parts, length)
  PROVE  /\ bytes \in Seq(Byte)
         /\ Len(bytes) = HeaderSize + TotalSize(present, length)
         /\ ReadLe(bytes, 0) = code /\ ReadLe(bytes, 4) = flags
         /\ \A f \in present : PlacedAt(bytes, Position(present, f, length), parts[f])
<1>0. /\ code \in Word /\ flags \in Word /\ length \in Nat
      /\ present \in SUBSET Fields /\ parts \in [present -> Seq(Byte)]
      /\ \A f \in present : Len(parts[f]) = FieldSize(f, length)
      /\ bytes = WriteLe(code) \o WriteLe(flags) \o LaidOut(parts)
  BY Zenon DEF IsLayout
<1> DEFINE a == WriteLe(code)
           b == WriteLe(flags)
           c == LaidOut(parts)
           head == a \o b
           S == Byte
<1>1. a \in Seq(S) /\ Len(a) = 4 /\ b \in Seq(S) /\ Len(b) = 4
  BY <1>0, WordBytes
<1>2. c \in Seq(S) /\ Len(c) = TotalSize(present, length) /\ TotalSize(present, length) \in Nat
  BY <1>0, LaidOutIs, SizesAreNumbers
<1> HIDE DEF a, b, c, S
<1>3. /\ head \in Seq(S) /\ Len(head) = 8
      /\ \A i \in 1 .. 8 : head[i] = IF i <= 4 THEN a[i] ELSE b[i - 4]
  <2>1. /\ head \in Seq(S) /\ Len(head) = Len(a) + Len(b)
        /\ \A i \in 1 .. Len(a) + Len(b) :
             head[i] = IF i <= Len(a) THEN a[i] ELSE b[i - Len(a)]
    BY <1>1, ConcatProperties
  <2> HIDE DEF head
  <2> QED
    BY <1>1, <2>1
<1>4. bytes = head \o c
  BY <1>0 DEF a, b, c
<1> HIDE DEF head
<1>5. /\ bytes \in Seq(S) /\ Len(bytes) = 8 + TotalSize(present, length)
      /\ \A i \in 1 .. 8 + TotalSize(present, length) :
           bytes[i] = IF i <= 8 THEN head[i] ELSE c[i - 8]
  <2> DEFINE all == head \o c
  <2>1. /\ all \in Seq(S) /\ Len(all) = Len(head) + Len(c)
        /\ \A i \in 1 .. Len(head) + Len(c) :
             all[i] = IF i <= Len(head) THEN head[i] ELSE c[i - Len(head)]
    BY <1>2, <1>3, ConcatProperties
  <2>2. bytes = all
    BY <1>4
  <2> HIDE DEF all
  <2> QED
    BY <1>2, <1>3, <2>1, <2>2
<1>6. ASSUME NEW k \in 1 .. 4 PROVE bytes[0 + k] = a[k] /\ bytes[4 + k] = b[k]
  <2>1. /\ 0 + k \in 1 .. 8 /\ 4 + k \in 1 .. 8 /\ 0 + k = k /\ (4 + k) - 4 = k
        /\ k <= 4 /\ ~ (4 + k <= 4) /\ k <= 8 /\ 4 + k <= 8
        /\ 4 + k \in 1 .. 8 + TotalSize(present, length) /\ k \in 1 .. 8 + TotalSize(present, length)
    BY <1>2
  <2> QED
    BY <1>3, <1>5, <2>1
<1>7. ReadLe(bytes, 0) = code /\ ReadLe(bytes, 4) = flags
  <2>1. \A k \in 1 .. 4 : bytes[0 + k] = WriteLe(code)[k]
    BY <1>6 DEF a
  <2>2. \A k \in 1 .. 4 : bytes[4 + k] = WriteLe(flags)[k]
    BY <1>6 DEF b
  <2>3. 0 \in Nat /\ 4 \in Nat
    OBVIOUS
  <2> QED
    BY <1>0, <2>1, <2>2, <2>3, WordIsRead, Zenon
<1>8. ASSUME NEW f \in present, NEW k \in 1 .. FieldSize(f, length)
      PROVE  /\ Position(present, f, length) + k \in 1 .. Len(bytes)
             /\ bytes[Position(present, f, length) + k] = parts[f][k]
  <2> DEFINE at == TotalSize(present \cap Before(f), length) + k
             i  == Position(present, f, length) + k
  <2>1. at \in 1 .. TotalSize(present, length) /\ c[at] = parts[f][k]
    BY <1>0, LaidOutIs DEF c
  <2>2. i = 8 + at
    <3> DEFINE some == present \cap Before(f)
    <3>1. some \in SUBSET Fields
      BY <1>0
    <3>2. TotalSize(some, length) \in Nat
      <4> HIDE DEF some
      <4> QED
        BY <1>0, <3>1, SizesAreNumbers
    <3>3. k \in Nat
      <4>1. FieldSize(f, length) \in Nat
        BY <1>0, SizesAreNumbers
      <4> QED
        BY <4>1
    <3>4. Position(present, f, length) = 8 + TotalSize(some, length)
      BY DEF Position, HeaderSize
    <3> HIDE DEF some
    <3>5. TotalSize(some, length) + k = at
      BY DEF some
    <3> HIDE DEF at
    <3> QED
      BY <3>2, <3>3, <3>4, <3>5
  <2> HIDE DEF at, i
  <2>3. i \in 1 .. 8 + TotalSize(present, length) /\ ~ (i <= 8) /\ i - 8 = at
    BY <1>2, <2>1, <2>2
  <2>4. bytes[i] = c[at] /\ i \in 1 .. Len(bytes)
    BY <1>5, <2>3
  <2> QED
    BY <2>1, <2>4 DEF i
<1>9. ASSUME NEW f \in present
      PROVE  PlacedAt(bytes, Position(present, f, length), parts[f])
  <2> DEFINE pos == Position(present, f, length)
             part == parts[f]
             size == FieldSize(f, length)
  <2>1. pos \in Nat /\ part \in Seq(Byte) /\ Len(part) = size
    BY <1>0, SizesAreNumbers
  <2>2. \A k \in 1 .. size : bytes[pos + k] = part[k]
    BY <1>8
  <2>3. pos + size <= HeaderSize + TotalSize(present, length)
    BY <1>0, FieldEndsInside
  <2>4. bytes \in Seq(Byte) /\ Len(bytes) = HeaderSize + TotalSize(present, length)
    BY <1>5 DEF HeaderSize, S
  <2> HIDE DEF pos, part, size
  <2>5. PlacedAt(bytes, pos, part)
    BY <2>1, <2>2, <2>3, <2>4 DEF PlacedAt
  <2> QED
    BY <2>5 DEF pos, part
<1> QED
  BY <1>5, <1>7, <1>9 DEF HeaderSize, S

-----------------------------------------------------------------------------
(* What is at its position is read. *)

(* A part is read from where it is. *)
LEMMA PartIsRead ==
  ASSUME NEW bytes, NEW pos, NEW part, PlacedAt(bytes, pos, part),
         NEW n \in Int, n <= Len(part)
  PROVE  ReadBytes(bytes, pos, n) = SubSeq(part, 1, n)
<1> DEFINE S == Byte
           first == pos + 1
           last  == pos + n
           one   == 1
           old   == SubSeq(part, one, n)
           new   == SubSeq(bytes, first, last)
<1>1. /\ bytes \in Seq(S) /\ part \in Seq(S) /\ pos \in Nat /\ pos + Len(part) <= Len(bytes)
      /\ Len(part) \in Nat /\ Len(bytes) \in Nat
      /\ \A k \in 1 .. Len(part) : bytes[pos + k] = part[k]
  BY LenProperties DEF PlacedAt
<1>2. /\ \A i \in 1 .. Len(part) : part[i] \in S
      /\ \A i \in 1 .. Len(bytes) : bytes[i] \in S
  <2> HIDE DEF S
  <2> QED
    BY <1>1, ElementOfSeq
<1> HIDE DEF S
<1>3. /\ first \in Int /\ last \in Int /\ one \in Int
      /\ \A i \in first .. last : bytes[i] \in S
      /\ \A i \in one .. n : part[i] \in S
  BY <1>1, <1>2
<1>4. /\ last - first + 1 = n /\ n - one + 1 = n /\ (first <= last <=> 1 <= n) /\ (one <= n <=> 1 <= n)
      /\ \A i \in Int : first + i - 1 = pos + i /\ one + i - 1 = i
  BY <1>1
<1> HIDE DEF first, last, one
<1>5. /\ old \in Seq(S) /\ Len(old) = (IF one <= n THEN n - one + 1 ELSE 0)
      /\ \A i \in 1 .. n - one + 1 : old[i] = part[one + i - 1]
  BY <1>3, SubSeqProperties
<1>6. /\ new \in Seq(S) /\ Len(new) = (IF first <= last THEN last - first + 1 ELSE 0)
      /\ \A i \in 1 .. last - first + 1 : new[i] = bytes[first + i - 1]
  BY <1>3, SubSeqProperties
<1> HIDE DEF old, new
<1>7. Len(old) = Len(new)
  BY <1>4, <1>5, <1>6
<1>8. ASSUME NEW i \in 1 .. Len(old) PROVE old[i] = new[i]
  <2>1. i \in 1 .. n /\ i \in 1 .. Len(part) /\ i \in Int
    BY <1>1, <1>4, <1>5
  <2> QED
    BY <1>1, <1>4, <1>5, <1>6, <2>1
<1>9. old = new
  BY <1>5, <1>6, <1>7, <1>8, SeqEqual
<1> QED
  BY <1>9 DEF old, new, first, last, one, ReadBytes

(* Where two runs of bytes are, the first is there and the second behind   *)
(* it.                                                                     *)
LEMMA PartsArePlaced ==
  ASSUME NEW bytes, NEW pos, NEW a \in Seq(Byte), NEW b \in Seq(Byte),
         PlacedAt(bytes, pos, a \o b)
  PROVE  PlacedAt(bytes, pos, a) /\ PlacedAt(bytes, pos + Len(a), b)
<1> DEFINE S == Byte
           all == a \o b
<1>1. a \in Seq(S) /\ b \in Seq(S) /\ Len(a) \in Nat /\ Len(b) \in Nat
  BY LenProperties
<1>2. /\ Len(all) = Len(a) + Len(b)
      /\ \A i \in 1 .. Len(a) + Len(b) : all[i] = IF i <= Len(a) THEN a[i] ELSE b[i - Len(a)]
  <2> HIDE DEF S
  <2> QED
    BY <1>1, ConcatProperties
<1>3. /\ bytes \in Seq(Byte) /\ pos \in Nat /\ pos + Len(all) <= Len(bytes)
      /\ \A k \in 1 .. Len(all) : bytes[pos + k] = all[k]
      /\ Len(bytes) \in Nat
  BY LenProperties DEF PlacedAt
<1> HIDE DEF all
<1>4. PlacedAt(bytes, pos, a)
  <2>1. ASSUME NEW k \in 1 .. Len(a) PROVE bytes[pos + k] = a[k]
    <3>1. k \in 1 .. Len(a) + Len(b) /\ k <= Len(a)
      BY <1>1
    <3> QED
      BY <1>2, <1>3, <3>1
  <2>2. pos + Len(a) <= Len(bytes)
    BY <1>1, <1>2, <1>3
  <2> QED
    BY <1>3, <2>1, <2>2 DEF PlacedAt
<1>5. PlacedAt(bytes, pos + Len(a), b)
  <2>1. ASSUME NEW k \in 1 .. Len(b) PROVE bytes[(pos + Len(a)) + k] = b[k]
    <3> DEFINE at == Len(a) + k
    <3>1. at \in 1 .. Len(a) + Len(b) /\ ~ (at <= Len(a)) /\ at - Len(a) = k
      BY <1>1, BehindFront
    <3>2. (pos + Len(a)) + k = pos + at
      BY <1>1, <1>3
    <3> HIDE DEF at
    <3>3. all[at] = b[k] /\ bytes[pos + at] = all[at]
      BY <1>2, <1>3, <3>1
    <3> QED
      BY <3>2, <3>3
  <2>2. (pos + Len(a)) + Len(b) <= Len(bytes) /\ pos + Len(a) \in Nat
    BY <1>1, <1>2, <1>3
  <2> QED
    BY <1>3, <2>1, <2>2 DEF PlacedAt
<1> QED
  BY <1>4, <1>5

(* A word is read from where it is. *)
LEMMA PlacedWordIsRead ==
  ASSUME NEW bytes, NEW pos, NEW n \in Word, PlacedAt(bytes, pos, WriteLe(n))
  PROVE  ReadLe(bytes, pos) = n
<1>1. pos \in Nat /\ \A k \in 1 .. 4 : bytes[pos + k] = WriteLe(n)[k]
  BY WordBytes, Zenon DEF PlacedAt
<1> QED
  BY <1>1, WordIsRead, Zenon

-----------------------------------------------------------------------------
(* Names. *)

(* A name takes its place in a packet, with zeros behind it. *)
LEMMA NameBytesAre ==
  ASSUME NEW name \in Seq(Byte), Len(name) <= MaxNameLength
  PROVE  /\ NameBytes(name) \in Seq(Byte) /\ Len(NameBytes(name)) = MaxNameLength
         /\ \A i \in 1 .. MaxNameLength :
              NameBytes(name)[i] = IF i <= Len(name) THEN name[i] ELSE 0
<1> DEFINE S == Byte
           zeros == Zeros(MaxNameLength)
           all == name \o zeros
           one == 1
           N == MaxNameLength
           raw == SubSeq(all, one, N)
<1>1. name \in Seq(S) /\ Len(name) \in Nat /\ N \in Nat
  BY LenProperties, CodecAssumption
<1>2. zeros \in Seq(S) /\ Len(zeros) = N /\ \A i \in 1 .. N : zeros[i] = 0
  <2>1. zeros = [i \in 1 .. N |-> 0] /\ \A i \in 1 .. N : 0 \in S
    BY DEF Zeros, Byte
  <2>2. zeros \in Seq(S)
    BY <1>1, <2>1, IsASeq
  <2> QED
    BY <1>1, <2>1, <2>2, LenProperties
<1> HIDE DEF S, zeros
<1>3. /\ all \in Seq(S) /\ Len(all) = Len(name) + N
      /\ \A i \in 1 .. Len(name) + N :
           all[i] = IF i <= Len(name) THEN name[i] ELSE zeros[i - Len(name)]
  <2>1. /\ all \in Seq(S) /\ Len(all) = Len(name) + Len(zeros)
        /\ \A i \in 1 .. Len(name) + Len(zeros) :
             all[i] = IF i <= Len(name) THEN name[i] ELSE zeros[i - Len(name)]
    BY <1>1, <1>2, ConcatProperties
  <2> HIDE DEF all
  <2> QED
    BY <1>2, <2>1
<1>4. \A i \in 1 .. N : all[i] \in S
  <2>1. \A i \in 1 .. Len(all) : all[i] \in S
    BY <1>3, ElementOfSeq
  <2> HIDE DEF all
  <2> QED
    BY <1>1, <1>3, <2>1
<1>5. one \in Int /\ N \in Int /\ N - one + 1 = N /\ \A i \in Int : one + i - 1 = i
  BY <1>1
<1>6. \A i \in one .. N : all[i] \in S
  BY <1>4
<1> HIDE DEF all, one, N
<1>7. /\ raw \in Seq(S) /\ Len(raw) = (IF one <= N THEN N - one + 1 ELSE 0)
      /\ \A i \in 1 .. N - one + 1 : raw[i] = all[one + i - 1]
  BY <1>5, <1>6, SubSeqProperties
<1> HIDE DEF raw
<1>8. Len(raw) = N
  BY <1>1, <1>5, <1>7 DEF one
<1>9. ASSUME NEW i \in 1 .. N PROVE raw[i] = IF i <= Len(name) THEN name[i] ELSE 0
  <2>1. raw[i] = all[i]
    BY <1>5, <1>7
  <2>2. i \in 1 .. Len(name) + N /\ (i <= Len(name) \/ i - Len(name) \in 1 .. N)
    BY <1>1
  <2> QED
    BY <1>2, <1>3, <2>1, <2>2
<1>10. raw = NameBytes(name)
  BY DEF raw, all, one, N, zeros, NameBytes
<1> QED
  BY <1>7, <1>8, <1>9, <1>10 DEF N, S

(* The zeros behind a name are not part of it. *)
LEMMA NameIsCutAtZero ==
  ASSUME NEW name \in Seq(Byte \ {0}), Len(name) <= MaxNameLength
  PROVE  UpToZero(NameBytes(name)) = name
<1> DEFINE raw == NameBytes(name)
           I == {i \in 1 .. Len(raw) : raw[i] = 0}
           N == Len(name)
<1>1. name \in Seq(Byte) /\ N \in Nat /\ MaxNameLength \in Nat
  <2>1. Byte \ {0} \subseteq Byte
    OBVIOUS
  <2> QED
    BY <2>1, SeqMonotonic, LenProperties, CodecAssumption
<1>2. \A i \in 1 .. N : name[i] \in Byte \ {0}
  BY ElementOfSeq
<1>3. /\ raw \in Seq(Byte) /\ Len(raw) = MaxNameLength
      /\ \A i \in 1 .. MaxNameLength : raw[i] = IF i <= N THEN name[i] ELSE 0
  BY <1>1, NameBytesAre
<1>4. SelectInSeq(raw, LAMBDA byte : byte = 0) = IF I # {} THEN Min(I) ELSE 0
  BY DEF SelectInSeq
<1> HIDE DEF raw
<1>5. I = {i \in 1 .. MaxNameLength : i > N}
  BY <1>1, <1>2, <1>3
<1>6. CASE N = MaxNameLength
  <2>1. I = {}
    BY <1>1, <1>5, <1>6
  <2>2. UpToZero(raw) = raw
    BY <1>4, <2>1 DEF UpToZero
  <2>3. raw = name
    BY <1>1, <1>3, <1>6, SeqEqual
  <2> QED
    BY <2>2, <2>3 DEF raw
<1>7. CASE N # MaxNameLength
  <2>1. N + 1 \in I /\ \A i \in I : N + 1 <= i
    BY <1>1, <1>5, <1>7
  <2>2. Min(I) = N + 1
    <3>1. \A x \in I : (\A y \in I : x <= y) => x = N + 1
      <4>1. \A x \in I : x \in Nat
        OBVIOUS
      <4> HIDE DEF I
      <4> QED
        BY <1>1, <2>1, <4>1
    <3> HIDE DEF I
    <3> QED
      BY <2>1, <3>1 DEF Min
  <2>3. UpToZero(raw) = SubSeq(raw, 1, N)
    <3>1. I # {} /\ N + 1 # 0 /\ (N + 1) - 1 = N
      BY <1>1, <2>1
    <3> QED
      BY <1>4, <2>2, <3>1 DEF UpToZero
  <2>4. SubSeq(raw, 1, N) = SubSeq(name, 1, N)
    <3>1. PlacedAt(raw, 0, name)
      BY <1>1, <1>3 DEF PlacedAt
    <3>2. ReadBytes(raw, 0, N) = SubSeq(name, 1, N)
      BY <1>1, <3>1, PartIsRead
    <3>3. ReadBytes(raw, 0, N) = SubSeq(raw, 1, N)
      BY <1>1 DEF ReadBytes
    <3> QED
      BY <3>2, <3>3
  <2>5. SubSeq(name, 1, N) = name
    BY <1>1, SubSeqFull
  <2> QED
    BY <2>3, <2>4, <2>5 DEF raw
<1> QED
  BY <1>6, <1>7

InfoRecords ==
  [crc1 : Word, crc2 : Word, content : [1 .. 5 -> Byte], alwaysOne : Byte, alwaysZero : Byte,
   padding : [1 .. PaddingSize -> Byte]]

(* The bytes of a SessionInfo, and the record that is read from them. *)
LEMMA InfoIsRead ==
  ASSUME NEW info \in InfoRecords
  PROVE  /\ InfoBytes(info) \in Seq(Byte) /\ Len(InfoBytes(info)) = InfoSize
         /\ \A bytes, pos : PlacedAt(bytes, pos, InfoBytes(info)) => ReadInfo(bytes, pos) = info
<1> DEFINE S == Byte
           a == WriteLe(info.crc1)
           b == WriteLe(info.crc2)
           c == info.content
           d == <<info.alwaysOne, info.alwaysZero>>
           e == info.padding
           ab == a \o b
           abc == ab \o c
           abcd == abc \o d
           all == abcd \o e
<1>1. /\ info.crc1 \in Word /\ info.crc2 \in Word /\ c \in [1 .. 5 -> S]
      /\ info.alwaysOne \in S /\ info.alwaysZero \in S /\ e \in [1 .. PaddingSize -> S]
      /\ info = [crc1 |-> info.crc1, crc2 |-> info.crc2, content |-> c,
                 alwaysOne |-> info.alwaysOne, alwaysZero |-> info.alwaysZero, padding |-> e]
  BY Zenon DEF InfoRecords
<1>2. PaddingSize \in Nat
  BY CodecAssumption
<1>3. /\ a \in Seq(S) /\ Len(a) = 4 /\ b \in Seq(S) /\ Len(b) = 4
      /\ c \in Seq(S) /\ Len(c) = 5 /\ e \in Seq(S) /\ Len(e) = PaddingSize
  <2>1. a \in Seq(S) /\ Len(a) = 4 /\ b \in Seq(S) /\ Len(b) = 4
    BY <1>1, WordBytes
  <2> HIDE DEF S, c, e
  <2>2. c \in Seq(S) /\ Len(c) = 5
    <3> DEFINE five == 5
    <3>1. five \in Nat /\ c \in [1 .. five -> S]
      BY <1>1
    <3> HIDE DEF five
    <3>2. c \in Seq(S) /\ Len(c) = five
      BY <3>1, IsASeq, LenProperties
    <3> QED
      BY <3>2 DEF five
  <2>3. e \in Seq(S) /\ Len(e) = PaddingSize
    BY <1>1, <1>2, IsASeq, LenProperties
  <2> QED
    BY <2>1, <2>2, <2>3
<1>4. d \in Seq(S) /\ Len(d) = 2 /\ d[1] = info.alwaysOne /\ d[2] = info.alwaysZero
  BY <1>1
<1> HIDE DEF a, b, c, d, e
<1>5. ab \in Seq(S) /\ Len(ab) = 8
  <2>1. ab \in Seq(S) /\ Len(ab) = Len(a) + Len(b)
    BY <1>3, ConcatProperties
  <2> HIDE DEF ab
  <2> QED
    BY <1>3, <2>1
<1> HIDE DEF ab
<1>6. abc \in Seq(S) /\ Len(abc) = 13
  <2>1. abc \in Seq(S) /\ Len(abc) = Len(ab) + Len(c)
    BY <1>3, <1>5, ConcatProperties
  <2> HIDE DEF abc
  <2> QED
    BY <1>3, <1>5, <2>1
<1> HIDE DEF abc
<1>7. abcd \in Seq(S) /\ Len(abcd) = 15
  <2>1. abcd \in Seq(S) /\ Len(abcd) = Len(abc) + Len(d)
    BY <1>4, <1>6, ConcatProperties
  <2> HIDE DEF abcd
  <2> QED
    BY <1>4, <1>6, <2>1
<1> HIDE DEF abcd
<1>8. all \in Seq(S) /\ Len(all) = 15 + PaddingSize
  <2>1. all \in Seq(S) /\ Len(all) = Len(abcd) + Len(e)
    BY <1>3, <1>7, ConcatProperties
  <2> HIDE DEF all
  <2> QED
    BY <1>3, <1>7, <2>1
<1>9. InfoBytes(info) = all
  BY DEF InfoBytes, all, abcd, abc, ab, a, b, c, d, e
<1>10. ASSUME NEW bytes, NEW pos, PlacedAt(bytes, pos, all) PROVE ReadInfo(bytes, pos) = info
  <2>1. PlacedAt(bytes, pos, abcd) /\ PlacedAt(bytes, pos + 15, e)
    BY <1>3, <1>7, <1>10, PartsArePlaced
  <2>2. PlacedAt(bytes, pos, abc) /\ PlacedAt(bytes, pos + 13, d)
    BY <1>4, <1>6, <2>1, PartsArePlaced DEF abcd
  <2>3. PlacedAt(bytes, pos, ab) /\ PlacedAt(bytes, pos + 8, c)
    BY <1>3, <1>5, <2>2, PartsArePlaced DEF abc
  <2>4. PlacedAt(bytes, pos, a) /\ PlacedAt(bytes, pos + 4, b)
    BY <1>3, <2>3, PartsArePlaced DEF ab
  <2>5. ReadLe(bytes, pos) = info.crc1 /\ ReadLe(bytes, pos + 4) = info.crc2
    BY <1>1, <2>4, PlacedWordIsRead DEF a, b
  <2>6. ReadBytes(bytes, pos + 8, 5) = c
    <3>1. 5 \in Int /\ 5 <= Len(c)
      BY <1>3
    <3>2. ReadBytes(bytes, pos + 8, 5) = SubSeq(c, 1, 5)
      BY <2>3, <3>1, PartIsRead
    <3>3. SubSeq(c, 1, 5) = c
      BY <1>3, SubSeqFull
    <3> QED
      BY <3>2, <3>3
  <2>7. ReadBytes(bytes, pos + 15, PaddingSize) = e
    <3>1. PaddingSize \in Int /\ PaddingSize <= Len(e)
      BY <1>2, <1>3
    <3>2. ReadBytes(bytes, pos + 15, PaddingSize) = SubSeq(e, 1, PaddingSize)
      BY <2>1, <3>1, PartIsRead
    <3>3. SubSeq(e, 1, PaddingSize) = e
      BY <1>3, SubSeqFull
    <3> QED
      BY <3>2, <3>3
  <2>8. bytes[pos + 14] = info.alwaysOne /\ bytes[pos + 15] = info.alwaysZero
    <3>1. pos \in Nat
      BY <2>4 DEF PlacedAt
    <3>2. bytes[(pos + 13) + 1] = d[1] /\ bytes[(pos + 13) + 2] = d[2]
      BY <1>4, <2>2 DEF PlacedAt
    <3>3. (pos + 13) + 1 = pos + 14 /\ (pos + 13) + 2 = pos + 15
      BY <3>1
    <3> QED
      BY <1>4, <3>2, <3>3
  <2>9. ReadInfo(bytes, pos)
          = [crc1 |-> info.crc1, crc2 |-> info.crc2, content |-> c,
             alwaysOne |-> info.alwaysOne, alwaysZero |-> info.alwaysZero, padding |-> e]
    BY <2>5, <2>6, <2>7, <2>8, Zenon DEF ReadInfo
  <2> QED
    BY <1>1, <2>9
<1> QED
  BY <1>2, <1>8, <1>9, <1>10 DEF InfoSize, S

(* A name is read as it was placed. *)
LEMMA NameIsRead ==
  ASSUME NEW name \in Seq(Byte \ {0}), Len(name) <= MaxNameLength,
         NEW bytes, NEW pos, PlacedAt(bytes, pos, NameBytes(name))
  PROVE  UpToZero(ReadBytes(bytes, pos, MaxNameLength)) = name
<1> DEFINE raw == NameBytes(name)
<1>1. name \in Seq(Byte) /\ MaxNameLength \in Int
  <2>1. Byte \ {0} \subseteq Byte
    OBVIOUS
  <2> QED
    BY <2>1, SeqMonotonic, CodecAssumption
<1>2. raw \in Seq(Byte) /\ Len(raw) = MaxNameLength
  BY <1>1, NameBytesAre
<1>3. UpToZero(raw) = name
  BY NameIsCutAtZero
<1> HIDE DEF raw
<1>4. PlacedAt(bytes, pos, raw) /\ MaxNameLength <= Len(raw)
  BY <1>1, <1>2 DEF raw
<1>5. ReadBytes(bytes, pos, MaxNameLength) = SubSeq(raw, 1, MaxNameLength)
  BY <1>1, <1>4, PartIsRead
<1>6. SubSeq(raw, 1, MaxNameLength) = raw
  BY <1>2, SubSeqFull
<1> QED
  BY <1>3, <1>5, <1>6

(* The flags of a packet name its fields. *)
LEMMA FlagsAreRead ==
  ASSUME NEW present \in SUBSET Fields
  PROVE  /\ SumFunctionOnSet(PacketFlags, present) \in Word
         /\ \A bytes : ReadLe(bytes, 4) = SumFunctionOnSet(PacketFlags, present)
                         => FlaggedIn(bytes) = present
<1> DEFINE flags == SumFunctionOnSet(PacketFlags, present)
<1>1. flags \in 0 .. 2047 /\ \A f \in Fields : HasFlag(flags, f) <=> f \in present
  BY SumIsFlags, FlagsAreFields
<1> HIDE DEF flags
<1>2. flags \in Word
  <2>1. flags \in Int /\ 0 <= flags /\ flags <= 2047
    BY <1>1
  <2> QED
    BY SMT, <2>1 DEF Word
<1>3. ASSUME NEW bytes, ReadLe(bytes, 4) = flags PROVE FlaggedIn(bytes) = present
  BY <1>1, <1>3 DEF FlaggedIn, Fields
<1> QED
  BY <1>2, <1>3 DEF flags


-----------------------------------------------------------------------------
(* Texts cut at a zero. *)

(* M elements come before the first zero.                                  *)
CutAt(raw, M) ==
  /\ M \in 0 .. Len(raw)
  /\ \A i \in 1 .. M : raw[i] # 0
  /\ M = Len(raw) \/ raw[M + 1] = 0

(* Every text has such an M. *)
LEMMA CutExists ==
  ASSUME NEW raw \in Seq(Byte)
  PROVE  \E M \in 0 .. Len(raw) : CutAt(raw, M)
<1> DEFINE Z == {i \in 1 .. Len(raw) : raw[i] = 0}
<1>1. Len(raw) \in Nat
  BY LenProperties
<1>2. CASE Z = {}
  <2>1. Len(raw) \in 0 .. Len(raw) /\ \A i \in 1 .. Len(raw) : raw[i] # 0
    BY <1>1, <1>2
  <2> QED
    BY <2>1 DEF CutAt
<1>3. CASE Z # {}
  <2>1. Z \in SUBSET Nat
    OBVIOUS
  <2>2. PICK m \in Z : \A n \in Z : m <= n
    <3> HIDE DEF Z
    <3> QED
      BY <1>3, <2>1, LeastNumber
  <2>3. m \in 1 .. Len(raw) /\ raw[m] = 0
    OBVIOUS
  <2>4. /\ m - 1 \in 0 .. Len(raw) /\ (m - 1) + 1 = m
        /\ \A i \in 1 .. m - 1 : i \in 1 .. Len(raw) /\ ~ (m <= i)
    BY <1>1, <2>3
  <2>5. \A i \in 1 .. m - 1 : raw[i] # 0
    BY <2>2, <2>4
  <2> QED
    BY <2>3, <2>4, <2>5 DEF CutAt
<1> QED
  BY <1>2, <1>3

(* UpToZero keeps these elements. *)
LEMMA CutIs ==
  ASSUME NEW raw \in Seq(Byte), NEW M \in 0 .. Len(raw), CutAt(raw, M)
  PROVE  UpToZero(raw) = SubSeq(raw, 1, M)
<1> DEFINE I == {i \in 1 .. Len(raw) : raw[i] = 0}
<1>1. Len(raw) \in Nat /\ M \in Nat /\ M <= Len(raw)
  BY LenProperties
<1>2. SelectInSeq(raw, LAMBDA byte : byte = 0) = IF I # {} THEN Min(I) ELSE 0
  BY DEF SelectInSeq
<1>3. \A i \in 1 .. M : raw[i] # 0
  BY DEF CutAt
<1>4. CASE M = Len(raw)
  <2>1. I = {}
    BY <1>3, <1>4
  <2>2. UpToZero(raw) = raw
    BY <1>2, <2>1 DEF UpToZero
  <2> QED
    BY <1>4, <2>2, SubSeqFull
<1>5. CASE M # Len(raw)
  <2>1. raw[M + 1] = 0
    BY <1>5 DEF CutAt
  <2>2. M + 1 \in I
    BY <1>1, <1>5, <2>1
  <2>3. ASSUME NEW i \in I PROVE M + 1 <= i /\ i \in Nat
    <3>1. i \in 1 .. Len(raw) /\ raw[i] = 0
      OBVIOUS
    <3>2. ~ (i \in 1 .. M)
      BY <1>3, <3>1
    <3> QED
      BY <1>1, <3>1, <3>2
  <2> HIDE DEF I
  <2>4. Min(I) = M + 1
    <3>1. \A x \in I : (\A y \in I : x <= y) => x = M + 1
      BY <1>1, <2>2, <2>3
    <3> QED
      BY <2>2, <2>3, <3>1 DEF Min
  <2>5. I # {} /\ M + 1 # 0 /\ (M + 1) - 1 = M
    BY <1>1, <2>2
  <2> QED
    BY <1>2, <2>4, <2>5 DEF UpToZero
<1> QED
  BY <1>4, <1>5

(* What is kept has no zero. *)
LEMMA CutHasNoZero ==
  ASSUME NEW raw \in Seq(Byte)
  PROVE  UpToZero(raw) \in Seq(Byte \ {0}) /\ Len(UpToZero(raw)) <= Len(raw)
<1>1. PICK M \in 0 .. Len(raw) : CutAt(raw, M)
  BY CutExists
<1> DEFINE S == Byte
           T == Byte \ {0}
           cut == SubSeq(raw, 1, M)
<1>2. raw \in Seq(S)
  OBVIOUS
<1> HIDE DEF S
<1>3. /\ cut \in Seq(S) /\ Len(cut) = M
      /\ \A i \in 1 .. M : i \in 1 .. Len(raw) /\ cut[i] = raw[i]
  BY <1>2, FrontIs
<1>4. \A i \in 1 .. M : cut[i] \in T
  <2>1. \A i \in 1 .. M : cut[i] # 0
    BY <1>1, <1>3 DEF CutAt
  <2>2. \A i \in 1 .. M : cut[i] \in S
    BY <1>3, ElementOfSeq
  <2> QED
    BY <2>1, <2>2 DEF S
<1> HIDE DEF cut, T
<1>5. cut \in Seq(T)
  <2>1. cut \in [1 .. M -> T]
    <3>1. cut = [i \in 1 .. M |-> cut[i]]
      BY <1>3, LenProperties
    <3> QED
      BY <1>4, <3>1
  <2>2. M \in Nat
    OBVIOUS
  <2> QED
    BY <2>1, <2>2, IsASeq
<1>6. M <= Len(raw)
  BY LenProperties
<1> QED
  BY <1>1, <1>3, <1>5, <1>6, CutIs DEF cut, T

(* A text without zeros is kept as it is. *)
LEMMA WholeIsKept ==
  ASSUME NEW raw \in Seq(Byte \ {0})
  PROVE  raw \in Seq(Byte) /\ UpToZero(raw) = raw
<1>1. raw \in Seq(Byte)
  <2>1. Byte \ {0} \subseteq Byte
    OBVIOUS
  <2> QED
    BY <2>1, SeqMonotonic
<1>2. Len(raw) \in 0 .. Len(raw)
  BY LenProperties
<1>3. \A i \in 1 .. Len(raw) : raw[i] # 0
  BY ElementOfSeq
<1>4. CutAt(raw, Len(raw))
  BY <1>2, <1>3 DEF CutAt
<1>5. UpToZero(raw) = SubSeq(raw, 1, Len(raw))
  BY <1>1, <1>2, <1>4, CutIs
<1> QED
  BY <1>1, <1>5, SubSeqFull


(* Where the text has no zero, what it is decoded to has none. *)
LEMMA NoZeroDecoded ==
  ASSUME NEW text \in Seq(Byte), \A i \in 1 .. Len(text) : text[i] # 0
  PROVE  \A p \in 1 .. Len(DecodeString(text)) : DecodeString(text)[p] # 0
<1> DEFINE N == Len(text)
           parts == Chars(text)
           all == DecodeString(text)
<1>1. /\ N \in Nat /\ parts \in [1 .. N -> Seq(Byte)]
      /\ \A i \in 1 .. N : parts[i] = AppendUtf8(ToUnicode(text[i]))
      /\ \E g : Sums(g, N, parts)
  BY DecodedIs
<1>2. PICK g : Sums(g, N, parts)
  BY <1>1
<1>3. Len(all) = g[N] /\ InPlace(all, g, N, parts)
  BY <1>2, DecodedIs
<1> HIDE DEF parts, all
<1>4. Covers(g, N, parts)
  <2> DEFINE S == Byte
  <2>1. parts \in [1 .. N -> Seq(S)]
    BY <1>1
  <2> HIDE DEF S, N
  <2> QED
    BY <1>1, <1>2, <2>1, Covered
<1>5. ASSUME NEW p \in 1 .. Len(all) PROVE all[p] # 0
  <2>1. PICK n \in 1 .. N : \E k \in 1 .. Len(parts[n]) : p = g[n - 1] + k
    BY <1>3, <1>4 DEF Covers
  <2>2. PICK k \in 1 .. Len(parts[n]) : p = g[n - 1] + k
    BY <2>1
  <2>3. all[p] = parts[n][k]
    BY <1>3, <2>2 DEF InPlace
  <2>4. text[n] \in Byte /\ text[n] # 0
    BY ElementOfSeq
  <2>5. ToUnicode(text[n]) \in Nat /\ ToUnicode(text[n]) <= 65535 /\ ToUnicode(text[n]) # 0
    BY <2>4, ByteComesBack
  <2> DEFINE cp == ToUnicode(text[n])
  <2>6. parts[n] = AppendUtf8(cp)
    BY <1>1
  <2> HIDE DEF cp
  <2>7. \A j \in 1 .. Len(AppendUtf8(cp)) : AppendUtf8(cp)[j] # 0
    BY <2>5, ZeroChar DEF cp
  <2> QED
    BY <2>3, <2>6, <2>7
<1> QED
  BY <1>5 DEF all

(* It is the same to cut a text and to cut what it is decoded to: the      *)
(* server's C string ends where the client's text has a zero.              *)
LEMMA DecodedIsCut ==
  ASSUME NEW text \in Seq(Byte)
  PROVE  /\ UpToZero(DecodeString(text)) = DecodeString(UpToZero(text))
         /\ Len(DecodeString(UpToZero(text))) <= Len(DecodeString(text))
<1> DEFINE N == Len(text)
           parts == Chars(text)
           all == DecodeString(text)
<1>1. /\ N \in Nat /\ all \in Seq(Byte)
      /\ \A i \in 1 .. N : /\ parts[i] = AppendUtf8(ToUnicode(text[i]))
                           /\ Len(parts[i]) \in 1 .. 3
      /\ \E g : Sums(g, N, parts)
  BY DecodedIs
<1>2. PICK g : Sums(g, N, parts)
  BY <1>1
<1>3. Len(all) = g[N] /\ InPlace(all, g, N, parts)
  BY <1>2, DecodedIs
<1>4. PICK M \in 0 .. N : CutAt(text, M)
  BY CutExists
<1> DEFINE cut == SubSeq(text, 1, M)
           front == DecodeString(cut)
           G == g[M]
<1>5. UpToZero(text) = cut
  BY <1>4, CutIs
<1>6. cut \in Seq(Byte) /\ Len(cut) = M /\ \A i \in 1 .. M : cut[i] = text[i]
  BY FrontIs
<1>7. front \in Seq(Byte) /\ IsFront(front, all, G)
  BY <1>2, FrontIsDecoded
<1>8. \A p \in 1 .. Len(front) : front[p] # 0
  <2>1. \A i \in 1 .. Len(cut) : cut[i] # 0
    BY <1>4, <1>6 DEF CutAt
  <2> HIDE DEF cut
  <2> QED
    BY <1>6, <2>1, NoZeroDecoded
<1> HIDE DEF cut, front, all, parts
<1>9. G \in Nat /\ G <= Len(all) /\ Len(all) \in Nat /\ Len(front) = G
  <2>1. Len(front) \in Nat /\ Len(all) \in Nat
    BY <1>1, <1>7, LenProperties
  <2> QED
    BY <1>7, <2>1 DEF IsFront
<1>10. CutAt(all, G)
  <2>1. \A p \in 1 .. G : all[p] # 0
    BY <1>7, <1>8 DEF IsFront
  <2>2. G = Len(all) \/ all[G + 1] = 0
    <3>1. CASE M = N
      BY <1>3, <3>1
    <3>2. CASE M # N
      <4>1. text[M + 1] = 0 /\ M + 1 \in 1 .. N /\ (M + 1) - 1 = M
        BY <1>1, <1>4, <3>2 DEF CutAt
      <4>2. parts[M + 1] = <<0>>
        <5>1. 0 \in Byte
          BY DEF Byte
        <5>2. ToUnicode(0) = 0 /\ ToUnicode(0) \in Nat
          BY <5>1, ByteComesBack
        <5>3. AppendUtf8(0) = <<0>>
          BY ZeroChar
        <5> QED
          BY <1>1, <4>1, <5>2, <5>3
      <4>3. 1 \in 1 .. Len(parts[M + 1])
        <5> DEFINE L == Len(parts[M + 1])
        <5>1. L \in 1 .. 3
          BY <1>1, <4>1
        <5> HIDE DEF L
        <5>2. 1 \in 1 .. L
          BY <5>1
        <5> QED
          BY <5>2 DEF L
      <4>4. all[g[(M + 1) - 1] + 1] = parts[M + 1][1]
        BY <1>3, <4>1, <4>3 DEF InPlace
      <4>5. <<0>>[1] = 0
        OBVIOUS
      <4> QED
        BY <4>1, <4>2, <4>4, <4>5
    <3> QED
      BY <3>1, <3>2
  <2>3. G \in 0 .. Len(all)
    BY <1>9
  <2> QED
    BY <2>1, <2>2, <2>3 DEF CutAt
<1> HIDE DEF G
<1>11. G \in 0 .. Len(all)
  BY <1>9
<1>12. UpToZero(all) = SubSeq(all, 1, G)
  BY <1>1, <1>10, <1>11, CutIs
<1>13. SubSeq(all, 1, G) = front
  <2> DEFINE part == SubSeq(all, 1, G)
             S == Byte
  <2>1. all \in Seq(S) /\ front \in Seq(S)
    BY <1>1, <1>7
  <2> HIDE DEF S
  <2>2. part \in Seq(S) /\ Len(part) = G /\ \A i \in 1 .. G : part[i] = all[i]
    BY <1>11, <2>1, FrontIs
  <2> HIDE DEF part
  <2>3. \A i \in 1 .. Len(part) : part[i] = front[i]
    BY <1>7, <2>2 DEF IsFront
  <2>4. part = front
    BY <1>9, <2>1, <2>2, <2>3, SeqEqual
  <2> QED
    BY <2>4 DEF part
<1> QED
  BY <1>5, <1>9, <1>12, <1>13 DEF front, all

(* A text without zeros comes back without zeros. *)
LEMMA ShownHasNoZero ==
  ASSUME NEW text \in Seq(Byte \ {0})
  PROVE  Shown(text) \in Seq(Byte \ {0}) /\ Len(Shown(text)) = Len(text)
<1> DEFINE T == Byte \ {0}
           back == Shown(text)
<1>1. text \in Seq(Byte) /\ Len(text) \in Nat
  BY WholeIsKept, LenProperties
<1>2. /\ back \in Seq(Byte) /\ Len(back) = Len(text)
      /\ \A i \in 1 .. Len(text) : back[i] = ComesBackAs(text[i])
  BY <1>1, ShownIs
<1>3. ASSUME NEW i \in 1 .. Len(text) PROVE back[i] \in T
  <2>1. text[i] \in Byte /\ text[i] # 0
    BY ElementOfSeq
  <2>2. back[i] \in Byte
    BY <1>2, ElementOfSeq
  <2>3. ComesBackAs(text[i]) # 0
    <3>1. 129 # 0 /\ QuestionMark # 0
      BY DEF QuestionMark
    <3> QED
      BY <2>1, <3>1, Zenon DEF ComesBackAs
  <2> QED
    BY <1>2, <2>2, <2>3
<1> HIDE DEF back, T
<1>4. back \in [1 .. Len(text) -> T]
  <2>1. back = [i \in 1 .. Len(text) |-> back[i]]
    BY <1>2, LenProperties
  <2> QED
    BY <1>3, <2>1
<1>5. back \in Seq(T)
  BY <1>1, <1>4, IsASeq
<1> QED
  BY <1>2, <1>5 DEF back, T

=============================================================================
