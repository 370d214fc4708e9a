------------------------- MODULE ConnectionsProofs --------------------------
(* Proofs about module Connections, for every set of places and every      *)
(* limit on the connections.                                               *)
EXTENDS Connections, FiniteSetTheorems, TLAPS

(* The sessions that exist, which connectionCount counts. *)
Sessions == {c \in Conns : sess[c] # "none"}

(* The three invariants are inductive together: the range of the count     *)
(* rests on what it counts.                                                *)
IInv == TypeOK /\ CountIsSessions /\ ReaderIsWoken

(* There are finitely many sessions, so that they can be counted. *)
LEMMA SessionsFinite == IsFiniteSet(Sessions) /\ Cardinality(Sessions) \in Nat
<1>1. IsFiniteSet(Sessions)
  BY ConnectionsAssumption, FS_Subset DEF Sessions
<1> QED
  BY <1>1, FS_CardinalityType

(* Steps that create and destroy no session keep the count. *)
LEMMA CountKept ==
  ASSUME IInv, count' = count,
         \A c \in Conns : (sess'[c] # "none") <=> (sess[c] # "none")
  PROVE  count' \in 0 .. MaxConnections /\ CountIsSessions'
<1>1. {c \in Conns : sess'[c] # "none"} = {c \in Conns : sess[c] # "none"}
  OBVIOUS
<1> QED
  BY <1>1 DEF IInv, TypeOK, CountIsSessions

(* The destructor takes one session off the count, which was not zero. *)
LEMMA DestroyCounts ==
  ASSUME IInv, NEW c \in Conns, sess[c] # "none", Destroy(c)
  PROVE  count' \in 0 .. MaxConnections /\ CountIsSessions'
<1>1. c \in Sessions
  BY DEF Sessions
<1>2. Sessions' = Sessions \ {c}
  BY DEF Destroy, Sessions, IInv, TypeOK, Stages
<1>3. Cardinality(Sessions \ {c}) = Cardinality(Sessions) - 1
  BY <1>1, SessionsFinite, FS_RemoveElement
<1>4. Cardinality(Sessions \ {c}) \in Nat
  BY SessionsFinite, FS_RemoveElement, FS_CardinalityType
<1>5. count = Cardinality(Sessions)
  BY DEF IInv, CountIsSessions, Sessions
<1>6. count' = Cardinality(Sessions')
  BY <1>2, <1>3, <1>5 DEF Destroy
<1>7. count' \in 0 .. MaxConnections
  BY <1>2, <1>4, <1>6, ConnectionsAssumption DEF Destroy, IInv, TypeOK
<1> QED
  BY <1>6, <1>7 DEF CountIsSessions, Sessions

(* A new session is counted, and the limit is not passed. *)
LEMMA AcceptCounts ==
  ASSUME IInv, NEW c \in Conns, Accept(c)
  PROVE  count' \in 0 .. MaxConnections /\ CountIsSessions'
<1>1. c \notin Sessions
  BY DEF Accept, Sessions
<1>2. Sessions' = Sessions \cup {c}
  BY DEF Accept, Sessions, IInv, TypeOK, Stages
<1>3. Cardinality(Sessions \cup {c}) = Cardinality(Sessions) + 1
  BY <1>1, SessionsFinite, FS_AddElement
<1>4. count = Cardinality(Sessions)
  BY DEF IInv, CountIsSessions, Sessions
<1>5. count' = Cardinality(Sessions')
  BY <1>2, <1>3, <1>4 DEF Accept
<1>6. count' \in 0 .. MaxConnections
  BY ConnectionsAssumption DEF Accept, HasRoom, IInv, TypeOK
<1> QED
  BY <1>5, <1>6 DEF CountIsSessions, Sessions

(* Whether run's return destroys the session or leaves it to the writer,   *)
(* the invariant holds: nothing waits in the session any more.             *)
LEMMA ReaderEndsInv ==
  ASSUME IInv, NEW c \in Conns, sess[c] # "none", ReaderEnds(c),
         UNCHANGED <<running, peerUp, due, writing>>, pending' \subseteq Conns
  PROVE  IInv'
<1>1. count' \in 0 .. MaxConnections /\ CountIsSessions'
  <2>1. CASE c \in writing
    BY <2>1, CountKept DEF ReaderEnds, IInv, TypeOK, Stages
  <2>2. CASE c \notin writing
    BY <2>2, DestroyCounts DEF ReaderEnds
  <2> QED
    BY <2>1, <2>2
<1>2. TypeOK'
  BY <1>1 DEF ReaderEnds, Destroy, Arm, IInv, TypeOK, Stages, Timers
<1>3. ReaderIsWoken'
  <2>1. sess'[c] \in {"ended", "none"}
    BY DEF ReaderEnds, Destroy, IInv, TypeOK
  <2>2. ASSUME NEW d \in Conns, d # c
        PROVE  /\ sess'[d] = sess[d] /\ rx'[d] = rx[d] /\ armed'[d] = armed[d]
               /\ (d \in open') <=> (d \in open)
    BY <2>2 DEF ReaderEnds, Destroy, Arm, IInv, TypeOK
  <2> QED
    BY <2>1, <2>2 DEF IInv, ReaderIsWoken
<1> QED
  BY <1>1, <1>2, <1>3 DEF IInv

(* A reader that goes on receiving has an open socket and an armed timer. *)
LEMMA ReceiveNextInv ==
  ASSUME IInv, NEW c \in Conns, sess[c] # "none", ReceiveNext(c),
         UNCHANGED <<running, peerUp, due, writing>>, pending' \subseteq Conns
  PROVE  IInv'
<1>1. CASE c \notin open
  BY <1>1, ReaderEndsInv DEF ReceiveNext
<1>2. CASE c \in open
  <2>1. count' \in 0 .. MaxConnections /\ CountIsSessions'
    BY <1>2, CountKept DEF ReceiveNext, IInv, TypeOK, Stages
  <2>2. TypeOK'
    BY <1>2, <2>1 DEF ReceiveNext, Arm, IInv, TypeOK, Stages, Timers
  <2>3. ReaderIsWoken'
    BY <1>2 DEF ReceiveNext, Arm, IInv, TypeOK, ReaderIsWoken
  <2> QED
    BY <2>1, <2>2, <2>3 DEF IInv
<1> QED
  BY <1>1, <1>2

-----------------------------------------------------------------------------
(* At the start nothing is counted and nobody waits. *)
LEMMA IInvInit == Init => IInv
<1> SUFFICES ASSUME Init PROVE IInv
  OBVIOUS
<1>1. TypeOK
  BY ConnectionsAssumption DEF Init, TypeOK, Stages, Timers
<1>2. {c \in Conns : sess[c] # "none"} = {}
  BY DEF Init
<1>3. CountIsSessions
  BY <1>2, FS_EmptySet DEF Init, CountIsSessions
<1>4. ReaderIsWoken
  BY DEF Init, ReaderIsWoken
<1> QED
  BY <1>1, <1>3, <1>4 DEF IInv

(* Accepting a client. *)
LEMMA AcceptInv ==
  ASSUME IInv, NEW c \in Conns, Accept(c) PROVE IInv'
<1>1. count' \in 0 .. MaxConnections /\ CountIsSessions'
  BY AcceptCounts
<1>2. TypeOK'
  BY <1>1 DEF Accept, Arm, IInv, TypeOK, Stages, Timers
<1>3. ReaderIsWoken'
  BY DEF Accept, Arm, IInv, TypeOK, ReaderIsWoken
<1> QED
  BY <1>1, <1>2, <1>3 DEF IInv

(* The client and the network change no session. *)
LEMMA ClientInv ==
  ASSUME IInv, NEW c \in Conns,
         ClientSends(c) \/ ClientCloses(c) \/ ReceiveFails(c)
  PROVE  IInv'
<1>1. count' = count /\ sess' = sess /\ open' = open /\ armed' = armed /\ due' = due
  BY DEF ClientSends, ClientCloses, ReceiveFails
<1>2. count' \in 0 .. MaxConnections /\ CountIsSessions'
  BY <1>1, CountKept
<1>3. TypeOK'
  BY <1>2 DEF ClientSends, ClientCloses, ReceiveFails, IInv, TypeOK
<1>4. \A d \in Conns : rx'[d] = "pending" => rx[d] = "pending"
  BY DEF ClientSends, ClientCloses, ReceiveFails, IInv, TypeOK
<1>5. ReaderIsWoken'
  BY <1>1, <1>4 DEF IInv, ReaderIsWoken
<1> QED
  BY <1>2, <1>3, <1>5 DEF IInv

(* A timer that runs out is a queued handler: the reader is still woken. *)
LEMMA TimerExpiresInv ==
  ASSUME IInv, NEW c \in Conns, TimerExpires(c) PROVE IInv'
<1>1. count' \in 0 .. MaxConnections /\ CountIsSessions'
  BY CountKept DEF TimerExpires
<1>2. TypeOK'
  BY <1>1 DEF TimerExpires, IInv, TypeOK, Timers
<1>3. ReaderIsWoken'
  BY DEF TimerExpires, IInv, TypeOK, ReaderIsWoken
<1> QED
  BY <1>1, <1>2, <1>3 DEF IInv

(* The handler that closes a socket aborts the receive on it.  One that    *)
(* fires late finds no receive pending: the reader only waits on an open   *)
(* socket.                                                                 *)
LEMMA TimerFiresInv ==
  ASSUME IInv, NEW c \in Conns, TimerFires(c) PROVE IInv'
<1>1. PICK timer \in due[c] : due' = [due EXCEPT ![c] = @ \ {timer}]
  BY DEF TimerFires
<1>2. /\ open' = open \ {c}
      /\ rx' = IF rx[c] = "pending" /\ c \in open
               THEN [rx EXCEPT ![c] = "error"] ELSE rx
      /\ UNCHANGED <<running, count, sess, peerUp, armed, pending, writing>>
  BY DEF TimerFires
<1>3. count' \in 0 .. MaxConnections /\ CountIsSessions'
  BY <1>2, CountKept
<1>4. TypeOK'
  BY <1>1, <1>2, <1>3 DEF IInv, TypeOK
<1>5. ReaderIsWoken'
  BY <1>1, <1>2 DEF IInv, TypeOK, ReaderIsWoken
<1> QED
  BY <1>3, <1>4, <1>5 DEF IInv

(* The steps of the reader. *)
LEMMA ReadsInv ==
  ASSUME IInv, NEW c \in Conns, Reads(c) PROVE IInv'
<1>1. CASE LoginFails(c) \/ RefusalWritten(c) \/ ServingEnds(c)
  BY <1>1, ReaderEndsInv
  DEF LoginFails, RefusalWritten, ServingEnds, IInv, TypeOK
<1>2. CASE LoginSucceeds(c) \/ Serve(c)
  BY <1>2, ReceiveNextInv DEF LoginSucceeds, Serve, IInv, TypeOK
<1>3. CASE LoginIsRefused(c)
  <2>1. count' \in 0 .. MaxConnections /\ CountIsSessions'
    BY <1>3, CountKept DEF LoginIsRefused, IInv, TypeOK
  <2>2. TypeOK'
    BY <1>3, <2>1 DEF LoginIsRefused, Arm, IInv, TypeOK, Stages
  <2>3. ReaderIsWoken'
    BY <1>3 DEF LoginIsRefused, Arm, IInv, TypeOK, ReaderIsWoken
  <2> QED
    BY <2>1, <2>2, <2>3 DEF IInv
<1> QED
  BY <1>1, <1>2, <1>3 DEF Reads

(* The steps of the writer, which destroys the session when the reader is  *)
(* gone, and the packets others queue for it.                              *)
LEMMA WritesInv ==
  ASSUME IInv, NEW c \in Conns, Notify(c) \/ Writes(c) PROVE IInv'
<1>1. CASE WriteFails(c) /\ sess[c] = "ended"
  <2>1. count' \in 0 .. MaxConnections /\ CountIsSessions'
    BY <1>1, DestroyCounts DEF WriteFails
  <2>2. TypeOK'
    BY <1>1, <2>1 DEF WriteFails, Destroy, IInv, TypeOK, Stages
  <2>3. ReaderIsWoken'
    BY <1>1 DEF WriteFails, Destroy, IInv, TypeOK, ReaderIsWoken
  <2> QED
    BY <2>1, <2>2, <2>3 DEF IInv
<1>2. CASE Notify(c) \/ WriteSucceeds(c) \/ (WriteFails(c) /\ sess[c] # "ended")
  <2>1. UNCHANGED <<running, count, sess, open, peerUp, rx, armed, due>>
    BY <1>2 DEF Notify, WriteSucceeds, WriteFails
  <2>2. count' \in 0 .. MaxConnections /\ CountIsSessions'
    BY <2>1, CountKept
  <2>3. TypeOK'
    BY <1>2, <2>1 DEF Notify, WriteSucceeds, WriteFails, IInv, TypeOK
  <2>4. ReaderIsWoken'
    BY <2>1 DEF IInv, ReaderIsWoken
  <2> QED
    BY <2>2, <2>3, <2>4 DEF IInv
<1> QED
  BY <1>1, <1>2 DEF Writes

(* Every step keeps the three invariants. *)
LEMMA IInvNext == IInv /\ [Next]_vars => IInv'
<1> SUFFICES ASSUME IInv, [Next]_vars PROVE IInv'
  OBVIOUS
<1>1. CASE AcceptError \/ UNCHANGED vars
  <2>1. UNCHANGED <<count, sess, open, peerUp, rx, armed, due, pending, writing>>
    BY <1>1 DEF AcceptError, vars
  <2>2. running' \in BOOLEAN
    BY <1>1 DEF AcceptError, vars, IInv, TypeOK
  <2> QED
    BY <2>1, <2>2 DEF IInv, TypeOK, CountIsSessions, ReaderIsWoken
<1>2. ASSUME NEW c \in Conns,
             \/ Accept(c)
             \/ ClientSends(c) \/ ClientCloses(c) \/ ReceiveFails(c)
             \/ TimerExpires(c) \/ TimerFires(c)
             \/ Reads(c)
             \/ Notify(c) \/ Writes(c)
      PROVE  IInv'
  BY <1>2, AcceptInv, ClientInv, TimerExpiresInv, TimerFiresInv, ReadsInv, WritesInv
<1> QED
  BY <1>1, <1>2 DEF Next

(* Type correctness; the count stays between zero and the limit. *)
THEOREM ConnectionsTypeCorrect == Spec => []TypeOK
<1>1. IInv => TypeOK
  BY DEF IInv
<1> QED
  BY <1>1, IInvInit, IInvNext, PTL DEF Spec

(* connectionCount is the number of session objects, in whatever order     *)
(* readers and writers end: no slot is released twice and none leaks once  *)
(* its session is gone.                                                    *)
THEOREM CountIsExact == Spec => []CountIsSessions
<1>1. IInv => CountIsSessions
  BY DEF IInv
<1> QED
  BY <1>1, IInvInit, IInvNext, PTL DEF Spec

(* No reader waits on a closed socket or without a timer to wake it,       *)
(* handlers of earlier timers that fire late included.                     *)
THEOREM EveryReaderIsWoken == Spec => []ReaderIsWoken
<1>1. IInv => ReaderIsWoken
  BY DEF IInv
<1> QED
  BY <1>1, IInvInit, IInvNext, PTL DEF Spec

=============================================================================
