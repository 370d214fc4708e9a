---------------------------- MODULE WriterProofs ----------------------------
(* Proofs about module Writer, for every batch size and number of packets. *)
EXTENDS Writer, SequenceTheorems, TLAPS

-----------------------------------------------------------------------------
(* Sequences of numbers. *)

(* Every number of s is below every number of t. *)
Precedes(s, t) == \A i \in DOMAIN s, j \in DOMAIN t : s[i] < t[j]

(* A concatenation increases when its parts do and follow one another. *)
LEMMA IncreasingConcat ==
  ASSUME NEW s \in Seq(Int), NEW t \in Seq(Int)
  PROVE  Increasing(s \o t) <=> Increasing(s) /\ Increasing(t) /\ Precedes(s, t)
<1> DEFINE u == s \o t
<1>1. /\ Len(s) \in Nat /\ DOMAIN s = 1 .. Len(s)
      /\ Len(t) \in Nat /\ DOMAIN t = 1 .. Len(t)
  BY LenProperties
<1>2. /\ DOMAIN u = 1 .. Len(s) + Len(t)
      /\ \A i \in 1 .. Len(s) : u[i] = s[i]
      /\ \A j \in 1 .. Len(t) : u[Len(s) + j] = t[j]
  <2>1. /\ u \in Seq(Int) /\ Len(u) = Len(s) + Len(t)
        /\ \A i \in 1 .. Len(s) + Len(t) :
             u[i] = IF i <= Len(s) THEN s[i] ELSE t[i - Len(s)]
    BY ConcatProperties
  <2>2. DOMAIN u = 1 .. Len(u)
    BY <2>1, LenProperties
  <2> QED
    BY <1>1, <2>1, <2>2
<1> HIDE DEF u
<1>3. ASSUME Increasing(u)
      PROVE  Increasing(s) /\ Increasing(t) /\ Precedes(s, t)
  <2>1. Increasing(s)
    BY <1>1, <1>2, <1>3 DEF Increasing
  <2>2. Increasing(t)
    <3> SUFFICES ASSUME NEW i \in 1 .. Len(t), NEW j \in 1 .. Len(t), i < j
                 PROVE  t[i] < t[j]
      BY <1>1 DEF Increasing
    <3>1. /\ Len(s) + i \in DOMAIN u /\ Len(s) + j \in DOMAIN u
          /\ Len(s) + i < Len(s) + j
      BY <1>1, <1>2
    <3> QED
      BY <1>2, <1>3, <3>1 DEF Increasing
  <2>3. Precedes(s, t)
    <3> SUFFICES ASSUME NEW i \in 1 .. Len(s), NEW j \in 1 .. Len(t)
                 PROVE  s[i] < t[j]
      BY <1>1 DEF Precedes
    <3>1. i \in DOMAIN u /\ Len(s) + j \in DOMAIN u /\ i < Len(s) + j
      BY <1>1, <1>2
    <3> QED
      BY <1>2, <1>3, <3>1 DEF Increasing
  <2> QED
    BY <2>1, <2>2, <2>3
<1>4. ASSUME Increasing(s), Increasing(t), Precedes(s, t)
      PROVE  Increasing(u)
  <2> SUFFICES ASSUME NEW i \in DOMAIN u, NEW j \in DOMAIN u, i < j
               PROVE  u[i] < u[j]
    BY DEF Increasing
  <2>1. CASE j <= Len(s)
    BY <1>1, <1>2, <1>4, <2>1 DEF Increasing
  <2>2. CASE i <= Len(s) /\ j > Len(s)
    <3>1. j - Len(s) \in 1 .. Len(t) /\ u[j] = t[j - Len(s)]
      BY <1>1, <1>2, <2>2, Len(s) + (j - Len(s)) = j
    <3> QED
      BY <1>1, <1>2, <1>4, <2>2, <3>1 DEF Precedes
  <2>3. CASE i > Len(s)
    <3>1. /\ i - Len(s) \in 1 .. Len(t) /\ u[i] = t[i - Len(s)]
          /\ j - Len(s) \in 1 .. Len(t) /\ u[j] = t[j - Len(s)]
      BY <1>1, <1>2, <2>3, Len(s) + (j - Len(s)) = j, Len(s) + (i - Len(s)) = i
    <3>2. i - Len(s) < j - Len(s)
      BY <1>1, <1>2
    <3> QED
      BY <1>1, <1>4, <3>1, <3>2 DEF Increasing
  <2> QED
    BY <1>1, <1>2, <2>1, <2>2, <2>3
<1> QED
  BY <1>3, <1>4 DEF u

(* A piece of a sequence, as its numbers. *)
LEMMA Piece ==
  ASSUME NEW S, NEW s \in Seq(S), NEW m \in Nat \ {0}, NEW n \in 0 .. Len(s)
  PROVE  LET p == SubSeq(s, m, n) IN
         /\ p \in Seq(S)
         /\ Len(p) = IF m <= n THEN n - m + 1 ELSE 0
         /\ DOMAIN p = 1 .. Len(p)
         /\ \A i \in DOMAIN p : m + i - 1 \in DOMAIN s /\ p[i] = s[m + i - 1]
<1> DEFINE p == SubSeq(s, m, n)
<1>1. Len(s) \in Nat /\ DOMAIN s = 1 .. Len(s) /\ s \in [1 .. Len(s) -> S]
  BY LenProperties
<1>2. \A i \in m .. n : s[i] \in S
  BY <1>1
<1>3. /\ p \in Seq(S)
      /\ Len(p) = IF m <= n THEN n - m + 1 ELSE 0
      /\ \A i \in 1 .. n - m + 1 : p[i] = s[m + i - 1]
  BY <1>1, <1>2, SubSeqProperties
<1>4. DOMAIN p = 1 .. Len(p)
  BY <1>3, LenProperties
<1> HIDE DEF p
<1>5. ASSUME NEW i \in DOMAIN p
      PROVE  m + i - 1 \in DOMAIN s /\ p[i] = s[m + i - 1]
  BY <1>1, <1>3, <1>4
<1> QED
  BY <1>3, <1>4, <1>5 DEF p

(* A piece increases with the sequence, and stays where the sequence was. *)
LEMMA PieceOrdered ==
  ASSUME NEW s \in Seq(Int), NEW m \in Nat \ {0}, NEW n \in 0 .. Len(s)
  PROVE  /\ Increasing(s) => Increasing(SubSeq(s, m, n))
         /\ \A t \in Seq(Int) : /\ Precedes(t, s) => Precedes(t, SubSeq(s, m, n))
                                /\ Precedes(s, t) => Precedes(SubSeq(s, m, n), t)
<1> DEFINE p == SubSeq(s, m, n)
<1>1. /\ DOMAIN p = 1 .. Len(p) /\ Len(p) \in Nat
      /\ \A i \in DOMAIN p : m + i - 1 \in DOMAIN s /\ p[i] = s[m + i - 1]
  BY Piece, LenProperties
<1> HIDE DEF p
<1>2. Increasing(s) => Increasing(p)
  BY <1>1 DEF Increasing
<1>3. \A t \in Seq(Int) : /\ Precedes(t, s) => Precedes(t, p)
                          /\ Precedes(s, t) => Precedes(p, t)
  BY <1>1 DEF Precedes
<1> QED
  BY <1>2, <1>3 DEF p

(* What is before a cut comes before what is after it. *)
LEMMA PiecesInOrder ==
  ASSUME NEW s \in Seq(Int), Increasing(s),
         NEW k \in 0 .. Len(s), NEW m \in Nat \ {0}, m > k
  PROVE  Precedes(SubSeq(s, 1, k), SubSeq(s, m, Len(s)))
<1> DEFINE p == SubSeq(s, 1, k)
           q == SubSeq(s, m, Len(s))
<1>1. Len(s) \in Nat /\ DOMAIN s = 1 .. Len(s)
  BY LenProperties
<1>2. /\ DOMAIN p = 1 .. Len(p) /\ Len(p) = k
      /\ \A i \in DOMAIN p : i \in DOMAIN s /\ p[i] = s[i]
  <2>1. /\ Len(p) = IF 1 <= k THEN k - 1 + 1 ELSE 0
        /\ DOMAIN p = 1 .. Len(p)
        /\ \A i \in DOMAIN p : 1 + i - 1 \in DOMAIN s /\ p[i] = s[1 + i - 1]
    BY Piece
  <2> HIDE DEF p
  <2> QED
    BY <1>1, <2>1
<1>3. /\ DOMAIN q = 1 .. Len(q)
      /\ \A j \in DOMAIN q : m + j - 1 \in DOMAIN s /\ q[j] = s[m + j - 1]
  <2>1. Len(s) \in 0 .. Len(s)
    BY <1>1
  <2> QED
    BY <2>1, Piece
<1> HIDE DEF p, q
<1>4. ASSUME NEW i \in DOMAIN p, NEW j \in DOMAIN q PROVE p[i] < q[j]
  <2>1. i \in Int /\ i <= k /\ j \in Int /\ j >= 1
    BY <1>2, <1>3
  <2>2. i < m + j - 1
    BY <2>1
  <2> QED
    BY <1>2, <1>3, <2>2 DEF Increasing
<1> QED
  BY <1>4 DEF Precedes, p, q

(* What precedes a sequence does so with its concatenation. *)
LEMMA ConcatPrecedes ==
  ASSUME NEW s \in Seq(Int), NEW t \in Seq(Int), NEW u \in Seq(Int),
         Precedes(s, u), Precedes(t, u)
  PROVE  Precedes(s \o t, u)
<1> SUFFICES ASSUME NEW i \in DOMAIN (s \o t), NEW j \in DOMAIN u
             PROVE  (s \o t)[i] < u[j]
  BY DEF Precedes
<1>1. /\ Len(s) \in Nat /\ DOMAIN s = 1 .. Len(s)
      /\ Len(t) \in Nat /\ DOMAIN t = 1 .. Len(t)
  BY LenProperties
<1>2. /\ i \in 1 .. Len(s) + Len(t)
      /\ (s \o t)[i] = IF i <= Len(s) THEN s[i] ELSE t[i - Len(s)]
  BY ConcatProperties, LenProperties
<1>3. CASE i <= Len(s)
  BY <1>1, <1>2, <1>3 DEF Precedes
<1>4. CASE i > Len(s)
  <2>1. i - Len(s) \in DOMAIN t
    BY <1>1, <1>2, <1>4
  <2> QED
    BY <1>1, <1>2, <1>4, <2>1 DEF Precedes
<1> QED
  BY <1>1, <1>2, <1>3, <1>4

-----------------------------------------------------------------------------
(* The inductive invariant. *)

(* The numbers of packets sent so far. *)
Sent(seq) == seq \in Seq(1 .. count)

(* InOrder, part by part: InOrder alone does not say that the packets to   *)
(* come are above those there are, nor that the batch is empty where Loop  *)
(* overwrites it.                                                          *)
Ordered ==
  /\ Increasing(wire) /\ Increasing(batch) /\ Increasing(queue)
  /\ Precedes(wire, batch) /\ Precedes(wire, queue) /\ Precedes(batch, queue)

IInv ==
  /\ TypeOK
  /\ Sent(wire) /\ Sent(batch) /\ Sent(queue)
  /\ Ordered
  /\ pc # "write" => batch = <<>>
  /\ SendWakesWriter

(* Packets sent are numbers. *)
LEMMA SentAreNumbers ==
  ASSUME TypeOK, NEW seq, Sent(seq)
  PROVE  seq \in Seq(Int) /\ seq \in Seq(1 .. MaxPackets)
<1>1. 1 .. count \subseteq Int /\ 1 .. count \subseteq 1 .. MaxPackets
  BY WriterAssumption DEF TypeOK
<1> QED
  BY <1>1, SeqMonotonic DEF Sent

(* A piece of what was sent was sent. *)
LEMMA PieceSent ==
  ASSUME NEW seq, Sent(seq), NEW m \in Nat \ {0}, NEW n \in 0 .. Len(seq)
  PROVE  /\ Sent(SubSeq(seq, m, n))
         /\ Len(SubSeq(seq, m, n)) = IF m <= n THEN n - m + 1 ELSE 0
<1> DEFINE Numbers == 1 .. count
<1>1. seq \in Seq(Numbers)
  BY DEF Sent
<1> HIDE DEF Numbers
<1>2. /\ SubSeq(seq, m, n) \in Seq(Numbers)
      /\ Len(SubSeq(seq, m, n)) = IF m <= n THEN n - m + 1 ELSE 0
  BY <1>1, Piece
<1> QED
  BY <1>2 DEF Numbers, Sent

(* The three parts are sequences of numbers. *)
LEMMA PartsAreNumbers ==
  IInv => wire \in Seq(Int) /\ batch \in Seq(Int) /\ queue \in Seq(Int)
  BY SentAreNumbers DEF IInv

(* How much of the queue Loop takes. *)
LEMMA Taken ==
  ASSUME TypeOK
  PROVE  /\ Collected \in 0 .. Len(queue) /\ Collected <= BatchMax
         /\ Dequeued \in Nat /\ Dequeued >= Collected
         /\ Len(queue) \in Nat
         /\ Len(queue) <= BatchMax => Collected = Len(queue) /\ Dequeued = Len(queue)
<1>1. Len(queue) \in Nat
  BY LenProperties DEF TypeOK
<1> QED
  BY <1>1, WriterAssumption DEF Collected, Dequeued

(* From the top of the loop to the next co_await, with what has been       *)
(* written added to the wire.                                              *)
LEMMA LoopInv ==
  ASSUME IInv, Loop, Sent(wire'), Increasing(wire'), Precedes(wire', queue),
         UNCHANGED <<count, failed>>
  PROVE  IInv'
<1>1. /\ wire' \in Seq(Int) /\ wire' \in Seq(1 .. MaxPackets)
      /\ queue \in Seq(Int) /\ queue \in Seq(1 .. count)
      /\ Increasing(queue)
  BY SentAreNumbers DEF IInv, Sent, Ordered
<1>2. CASE queue # <<>>
  <2>1. /\ batch' = SubSeq(queue, 1, Collected)
        /\ queue' = SubSeq(queue, Dequeued + 1, Len(queue))
        /\ pc' = "write" /\ wait' = "none"
    BY <1>2 DEF Loop
  <2>2. /\ Collected \in 0 .. Len(queue) /\ Collected <= BatchMax
        /\ Dequeued + 1 \in Nat \ {0} /\ Dequeued + 1 > Collected
        /\ Len(queue) \in 0 .. Len(queue)
    BY Taken DEF IInv
  <2>3. Sent(batch)' /\ Sent(queue)' /\ Len(batch') = Collected
    <3>1. Sent(queue)
      BY DEF IInv
    <3>2. Sent(batch') /\ Len(batch') = IF 1 <= Collected THEN Collected - 1 + 1 ELSE 0
      BY <2>1, <2>2, <3>1, PieceSent
    <3>3. Sent(queue')
      BY <2>1, <2>2, <3>1, PieceSent
    <3> QED
      BY <2>2, <3>2, <3>3 DEF Sent
  <2>4. TypeOK'
    <3>1. /\ batch' \in Seq(1 .. MaxPackets) /\ queue' \in Seq(1 .. MaxPackets)
      BY <2>3, SentAreNumbers DEF IInv, Sent
    <3> QED
      BY <1>1, <2>1, <2>2, <2>3, <3>1 DEF IInv, TypeOK, Locations, Waits
  <2>5. /\ Increasing(batch') /\ Precedes(wire', batch')
    BY <1>1, <2>1, <2>2, PieceOrdered
  <2>6. /\ Increasing(queue') /\ Precedes(wire', queue')
    BY <1>1, <2>1, <2>2, PieceOrdered
  <2>7. Precedes(batch', queue')
    BY <1>1, <2>1, <2>2, PiecesInOrder
  <2> QED
    BY <2>1, <2>3, <2>4, <2>5, <2>6, <2>7 DEF IInv, Sent, Ordered, SendWakesWriter
<1>3. CASE queue = <<>>
  <2>1. batch' = <<>> /\ queue' = <<>> /\ pc' = "sleep" /\ wait' = "pending"
    BY <1>3 DEF Loop
  <2>2. <<>> \in Seq(1 .. MaxPackets) /\ <<>> \in Seq(1 .. count) /\ Len(<<>>) = 0
    BY EmptySeq
  <2>3. TypeOK'
    BY <1>1, <2>1, <2>2, WriterAssumption DEF IInv, TypeOK, Locations, Waits
  <2>4. DOMAIN <<>> = {}
    BY <2>2, LenProperties
  <2> QED
    BY <2>1, <2>2, <2>3, <2>4
    DEF IInv, Sent, Ordered, Increasing, Precedes, SendWakesWriter
<1> QED
  BY <1>2, <1>3

(* sendPacket continues the order and ends the writer's wait. *)
LEMMA SendPacketInv ==
  ASSUME IInv, SendPacket PROVE IInv'
<1>1. /\ count \in Nat /\ count + 1 \in 1 .. MaxPackets
      /\ 1 .. count \subseteq 1 .. count + 1 /\ count + 1 \in 1 .. count + 1
  BY WriterAssumption DEF IInv, TypeOK, SendPacket
<1>2. /\ queue' = Append(queue, count + 1) /\ count' = count + 1
      /\ UNCHANGED <<batch, wire, pc, failed>>
      /\ wait' = IF wait = "pending" THEN "aborted" ELSE wait
  BY DEF SendPacket
<1>3. Sent(wire)' /\ Sent(batch)' /\ queue \in Seq(1 .. count + 1)
  BY <1>1, <1>2, SeqMonotonic DEF IInv, Sent
<1>4. /\ Len(queue) \in Nat /\ DOMAIN queue = 1 .. Len(queue)
      /\ \A i \in DOMAIN queue : queue[i] \in 1 .. count
  BY LenProperties, ElementOfSeq DEF IInv, Sent
<1>5. /\ queue' \in Seq(1 .. count + 1) /\ Len(queue') = Len(queue) + 1
      /\ \A i \in 1 .. Len(queue) : queue'[i] = queue[i]
      /\ queue'[Len(queue) + 1] = count + 1
  BY <1>1, <1>2, <1>3, AppendProperties
<1>6. DOMAIN queue' = 1 .. Len(queue) + 1
  BY <1>5, LenProperties
<1>7. TypeOK'
  <2>1. queue' \in Seq(1 .. MaxPackets)
    <3>1. 1 .. count + 1 \subseteq 1 .. MaxPackets
      BY <1>1, WriterAssumption
    <3> QED
      BY <1>5, <3>1, SeqMonotonic
  <2> QED
    BY <1>1, <1>2, <2>1 DEF IInv, TypeOK, Waits
<1>8. Increasing(queue')
  BY <1>1, <1>4, <1>5, <1>6 DEF IInv, Ordered, Increasing
<1>9. ASSUME NEW seq, Sent(seq), Precedes(seq, queue)
      PROVE  Precedes(seq, queue')
  <2>1. \A i \in DOMAIN seq : seq[i] \in 1 .. count
    BY <1>9, LenProperties, ElementOfSeq DEF Sent
  <2> QED
    BY <1>1, <1>4, <1>5, <1>6, <1>9, <2>1 DEF Precedes
<1>10. Ordered'
  BY <1>2, <1>8, <1>9 DEF IInv, Ordered
<1>11. SendWakesWriter'
  BY <1>2 DEF IInv, SendWakesWriter
<1> QED
  BY <1>2, <1>3, <1>5, <1>7, <1>10, <1>11 DEF IInv, Sent

(* A whole batch joins the wire. *)
LEMMA WriteDoneInv ==
  ASSUME IInv, WriteDone PROVE IInv'
<1>1. wire \in Seq(Int) /\ batch \in Seq(Int) /\ queue \in Seq(Int)
  BY PartsAreNumbers
<1>2. wire' = wire \o batch /\ Loop /\ UNCHANGED <<count, failed>>
  BY DEF WriteDone
<1>3. Sent(wire')
  BY <1>2, ConcatProperties DEF IInv, Sent
<1>4. Increasing(wire')
  BY <1>1, <1>2, IncreasingConcat DEF IInv, Ordered
<1>5. Precedes(wire', queue)
  BY <1>1, <1>2, ConcatPrecedes DEF IInv, Ordered
<1> QED
  BY <1>2, <1>3, <1>4, <1>5, LoopInv

(* Part of a batch joins the wire, and the rest is gone with the           *)
(* connection.                                                             *)
LEMMA WriteFailedInv ==
  ASSUME IInv, WriteFailed PROVE IInv'
<1>1. wire \in Seq(Int) /\ batch \in Seq(Int) /\ queue \in Seq(Int)
  BY PartsAreNumbers
<1>2. PICK n \in 0 .. Len(batch) : wire' = wire \o SubSeq(batch, 1, n)
  BY DEF WriteFailed
<1> DEFINE part == SubSeq(batch, 1, n)
<1>3. /\ batch' = <<>> /\ pc' = "done" /\ failed' = TRUE
      /\ UNCHANGED <<queue, count, wait>>
  BY DEF WriteFailed
<1>4. Sent(part) /\ part \in Seq(Int)
  <2>1. Sent(part)
    BY PieceSent DEF IInv
  <2> QED
    BY <2>1, SentAreNumbers DEF IInv
<1>5. Increasing(part) /\ Precedes(wire, part) /\ Precedes(part, queue)
  BY <1>1, PieceOrdered DEF IInv, Ordered
<1> HIDE DEF part
<1>6. wire' = wire \o part
  BY <1>2 DEF part
<1>7. Sent(wire')
  BY <1>4, <1>6, ConcatProperties DEF IInv, Sent
<1>8. Increasing(wire') /\ Precedes(wire', queue)
  BY <1>1, <1>4, <1>5, <1>6, IncreasingConcat, ConcatPrecedes DEF IInv, Ordered
<1>9. <<>> \in Seq(1 .. MaxPackets) /\ <<>> \in Seq(1 .. count) /\ Len(<<>>) = 0
  BY EmptySeq
<1>10. DOMAIN <<>> = {}
  BY <1>9, LenProperties
<1>11. wire' \in Seq(1 .. MaxPackets)
  BY <1>7, SentAreNumbers DEF IInv
<1>12. TypeOK'
  BY <1>3, <1>9, <1>11, WriterAssumption DEF IInv, TypeOK, Locations
<1> QED
  BY <1>3, <1>7, <1>8, <1>9, <1>10, <1>12
  DEF IInv, Sent, Ordered, Increasing, Precedes, SendWakesWriter

(* Nothing is sent at the start. *)
LEMMA IInvInit == Init => IInv
<1> SUFFICES ASSUME Init PROVE IInv
  OBVIOUS
<1>1. <<>> \in Seq(1 .. MaxPackets) /\ <<>> \in Seq(1 .. count) /\ Len(<<>>) = 0
  BY EmptySeq
<1>2. DOMAIN <<>> = {}
  BY <1>1, LenProperties
<1>3. TypeOK
  <2>1. 0 <= BatchMax /\ 0 \in 0 .. MaxPackets
    BY WriterAssumption
  <2>2. /\ queue = <<>> /\ batch = <<>> /\ wire = <<>> /\ count = 0
        /\ pc = "start" /\ wait = "none" /\ failed = FALSE
    BY DEF Init
  <2> QED
    BY <1>1, <2>1, <2>2 DEF TypeOK, Locations, Waits
<1> QED
  BY <1>1, <1>2, <1>3
  DEF Init, IInv, Sent, Ordered, Increasing, Precedes, SendWakesWriter

(* Every step keeps the invariant. *)
LEMMA IInvNext == IInv /\ [Next]_vars => IInv'
<1> SUFFICES ASSUME IInv, [Next]_vars PROVE IInv'
  OBVIOUS
<1>1. CASE Start \/ Wake
  <2>1. Loop /\ UNCHANGED <<wire, count, failed>>
    BY <1>1 DEF Start, Wake
  <2>2. Sent(wire') /\ Increasing(wire') /\ Precedes(wire', queue)
    BY <2>1 DEF IInv, Sent, Ordered
  <2> QED
    BY <2>1, <2>2, LoopInv
<1>2. CASE Expire
  BY <1>2 DEF Expire, IInv, TypeOK, Waits, Sent, Ordered, SendWakesWriter
<1>3. CASE UNCHANGED vars
  BY <1>3 DEF vars, IInv, TypeOK, Sent, Ordered, SendWakesWriter
<1> QED
  BY <1>1, <1>2, <1>3, SendPacketInv, WriteDoneInv, WriteFailedInv DEF Next

(* The parts in order are the whole in order. *)
LEMMA OrderedIsInOrder == IInv => InOrder
<1> SUFFICES ASSUME IInv PROVE InOrder
  OBVIOUS
<1>1. wire \in Seq(Int) /\ batch \in Seq(Int) /\ queue \in Seq(Int)
  BY PartsAreNumbers
<1>2. wire \o batch \in Seq(Int)
  BY <1>1, ConcatProperties
<1>3. Increasing(wire \o batch)
  BY <1>1, IncreasingConcat DEF IInv, Ordered
<1>4. Precedes(wire \o batch, queue)
  BY <1>1, ConcatPrecedes DEF IInv, Ordered
<1> QED
  BY <1>1, <1>2, <1>3, <1>4, IncreasingConcat DEF IInv, Ordered, InOrder

(* Type correctness; no batch is larger than BatchMax. *)
THEOREM WriterTypeCorrect == Spec => []TypeOK
<1>1. IInv => TypeOK
  BY DEF IInv
<1> QED
  BY <1>1, IInvInit, IInvNext, PTL DEF Spec

(* The peer receives the packets of sendPacket in the order of the calls   *)
(* and none twice, for every interleaving and every batch size.            *)
THEOREM PacketsStayInOrder == Spec => []InOrder
  BY OrderedIsInOrder, IInvInit, IInvNext, PTL DEF Spec

(* sendPacket ends the sleep of the writer: no queued packet waits for     *)
(* FLUSH_DELAY.                                                            *)
THEOREM NoPacketSleeps == Spec => []SendWakesWriter
<1>1. IInv => SendWakesWriter
  BY DEF IInv
<1> QED
  BY <1>1, IInvInit, IInvNext, PTL DEF Spec

-----------------------------------------------------------------------------
(* What is lost. *)

(* The numbers on the wire, in the batch and in the queue. *)
LEMMA RangeOfParts ==
  ASSUME NEW s \in Seq(Int), NEW t \in Seq(Int), NEW u \in Seq(Int)
  PROVE  Range(s \o t \o u) = Range(s) \cup Range(t) \cup Range(u)
<1>1. s \o t \in Seq(Int)
  BY ConcatProperties
<1>2. Range(s \o t) = Range(s) \cup Range(t)
  BY RangeConcatenation
<1>3. Range(s \o t \o u) = Range(s \o t) \cup Range(u)
  BY <1>1, RangeConcatenation
<1> QED
  BY <1>2, <1>3

(* A loop that takes a queue of at most BatchMax packets keeps them all.   *)
LEMMA LoopKeeps ==
  ASSUME IInv, Loop, Len(queue) <= BatchMax
  PROVE  Range(batch') \cup Range(queue') = Range(queue)
<1>1. queue \in Seq(Int)
  BY SentAreNumbers DEF IInv
<1>2. Range(<<>>) = {}
  BY EmptySeq, LenProperties DEF Range
<1>3. CASE queue # <<>>
  <2>1. /\ batch' = SubSeq(queue, 1, Len(queue))
        /\ queue' = SubSeq(queue, Len(queue) + 1, Len(queue))
    BY <1>3, Taken DEF Loop, IInv
  <2>2. batch' = queue
    BY <1>1, <2>1, SubSeqFull
  <2>3. queue' = <<>>
    <3>1. Len(queue) \in Nat
      BY <1>1, LenProperties
    <3> QED
      BY <2>1, <3>1, SubSeqEmpty
  <2> QED
    BY <1>2, <2>2, <2>3
<1>4. CASE queue = <<>>
  BY <1>2, <1>4 DEF Loop
<1> QED
  BY <1>3, <1>4

(* What one step does to the packets there are, when nothing fails and the *)
(* queue fits a batch.                                                     *)
LEMMA StepKeeps ==
  ASSUME IInv, [Next]_vars, Len(queue) <= BatchMax, ~ failed'
  PROVE  Lost' = Lost
<1> DEFINE Present == Range(wire) \cup Range(batch) \cup Range(queue)
<1>1. wire \in Seq(Int) /\ batch \in Seq(Int) /\ queue \in Seq(Int)
  BY PartsAreNumbers
<1>2. /\ Lost = (1 .. count) \ Present
      /\ Lost' = (1 .. count') \ Present'
  <2>1. IInv'
    BY IInvNext
  <2>2. (wire \in Seq(Int) /\ batch \in Seq(Int) /\ queue \in Seq(Int))'
    BY <2>1, PartsAreNumbers, PTL
  <2>3. Lost = (1 .. count) \ Present
    BY <1>1, RangeOfParts DEF Lost
  <2>4. Lost' = (1 .. count') \ Present'
    BY <2>2, RangeOfParts DEF Lost
  <2> QED
    BY <2>3, <2>4
<1>3. CASE Start \/ Wake
  <2>1. batch = <<>> /\ Loop /\ UNCHANGED <<wire, count>>
    BY <1>3 DEF Start, Wake, IInv
  <2>2. Range(<<>>) = {}
    BY EmptySeq, LenProperties DEF Range
  <2>3. Present' = Present
    BY <2>1, <2>2, LoopKeeps
  <2> QED
    BY <1>2, <2>1, <2>3
<1>4. CASE WriteDone
  <2>1. wire' = wire \o batch /\ Loop /\ count' = count
    BY <1>4 DEF WriteDone
  <2>2. Range(wire') = Range(wire) \cup Range(batch)
    BY <1>1, <2>1, RangeConcatenation
  <2>3. Present' = Present
    BY <2>1, <2>2, LoopKeeps
  <2> QED
    BY <1>2, <2>1, <2>3
<1>5. CASE SendPacket
  <2>1. /\ count' = count + 1 /\ queue' = Append(queue, count + 1)
        /\ UNCHANGED <<wire, batch>> /\ count \in Nat
    BY <1>5 DEF SendPacket, IInv, TypeOK
  <2>2. Range(queue') = Range(queue) \cup {count + 1}
    <3>1. count + 1 \in Int
      BY <2>1
    <3>2. queue' = queue \o <<count + 1>> /\ <<count + 1>> \in Seq(Int)
      BY <1>1, <2>1, <3>1, AppendIsConcat
    <3>3. Range(<<count + 1>>) = {count + 1}
      BY DEF Range
    <3>4. Range(queue \o <<count + 1>>) = Range(queue) \cup Range(<<count + 1>>)
      BY <1>1, <3>2, RangeConcatenation
    <3> QED
      BY <3>2, <3>3, <3>4
  <2>3. Present' = Present \cup {count + 1}
    BY <2>1, <2>2
  <2>4. 1 .. count' = (1 .. count) \cup {count + 1} /\ count + 1 \notin 1 .. count
    BY <2>1
  <2> HIDE DEF Present
  <2> QED
    BY <1>2, <2>3, <2>4
<1>6. CASE Expire \/ UNCHANGED vars
  BY <1>2, <1>6 DEF Expire, vars
<1>7. CASE WriteFailed
  BY <1>7 DEF WriteFailed
<1> QED
  BY <1>3, <1>4, <1>5, <1>6, <1>7 DEF Next

(* A packet is lost only with the connection, or when more than BatchMax   *)
(* are queued: with fewer the dequeue that nobody keeps does not happen.   *)
THEOREM LossIsExplained == Spec => LossNeedsFullBatch
<1>1. IInv /\ [Next]_vars => [Lost' # Lost => Len(queue) > BatchMax \/ failed']_vars
  <2> SUFFICES ASSUME IInv, [Next]_vars, Lost' # Lost, Len(queue) <= BatchMax, ~ failed'
               PROVE  FALSE
    <3>1. IInv => Len(queue) \in Nat /\ BatchMax \in Nat
      BY WriterAssumption, LenProperties DEF IInv, TypeOK
    <3> QED
      BY <3>1 DEF IInv
  <2> QED
    BY StepKeeps
<1> QED
  BY <1>1, IInvInit, IInvNext, PTL DEF Spec, LossNeedsFullBatch

=============================================================================
