---------------------------- MODULE LobbyProofs -----------------------------
(***************************************************************************)
(* Proofs about module Lobby, for any number of sessions, names and ids:   *)
(* its type invariant and the invariants that tie the tables, the pool of  *)
(* ids and the sessions together.                                          *)
(***************************************************************************)
EXTENDS Lobby, SequenceTheorems, TLAPS

(* The inductive invariant.  RoomRefsLive needs IdsUnique (the id of a     *)
(* closed room is nobody else's), IdsUnique needs SessionsMatch (a session *)
(* removes an id that is in the table) and the counter above K_START.      *)
IInv ==
  /\ TypeOK
  /\ nextId >= K_START
  /\ IdsUnique
  /\ SessionsMatch
  /\ RoomRefsLive
  /\ NamesUnique

(* What the five table variables and uid say: the part of IInv that a step *)
(* that leaves them alone cannot break.                                    *)
DbInv ==
  /\ DbTypeOK
  /\ uid \in [Sessions -> Ids]
  /\ nextId >= K_START
  /\ IdsUnique
  /\ SessionsMatch
  /\ RoomRefsLive
  /\ NamesUnique

(* All of IInv but the clients' room lists, which Observe derives from     *)
(* the packets of the step.                                                *)
StepInv ==
  /\ DbInv
  /\ gone \subseteq Sessions
  /\ sent \in [Sessions -> Seq(PacketType)]
  /\ thrown \in Exceptions

-----------------------------------------------------------------------------
(* The pool of ids. *)

(* Taking the head of an injective queue removes exactly that element. *)
LEMMA TailOfInjective ==
  ASSUME NEW S, NEW seq \in Seq(S), seq # <<>>, IsInjective(seq)
  PROVE  /\ Tail(seq) \in Seq(S)
         /\ Head(seq) \in S
         /\ Head(seq) \in Range(seq)
         /\ IsInjective(Tail(seq))
         /\ Range(Tail(seq)) = Range(seq) \ {Head(seq)}
<1>1. /\ Head(seq) \in S
      /\ Tail(seq) \in Seq(S)
      /\ Len(Tail(seq)) = Len(seq) - 1
      /\ \A i \in 1 .. Len(Tail(seq)) : Tail(seq)[i] = seq[i + 1]
  BY HeadTailProperties
<1>2. /\ Len(seq) \in Nat \ {0}
      /\ DOMAIN seq = 1 .. Len(seq)
      /\ DOMAIN Tail(seq) = 1 .. Len(seq) - 1
      /\ Head(seq) = seq[1]
  BY <1>1, LenProperties, EmptySeq
<1>3. Head(seq) \in Range(seq)
  BY <1>2 DEF Range
<1>4. IsInjective(Tail(seq))
  <2> SUFFICES ASSUME NEW i \in 1 .. Len(seq) - 1, NEW j \in 1 .. Len(seq) - 1,
                      Tail(seq)[i] = Tail(seq)[j]
               PROVE  i = j
    BY <1>2 DEF IsInjective
  <2>1. seq[i + 1] = seq[j + 1] /\ i + 1 \in DOMAIN seq /\ j + 1 \in DOMAIN seq
    BY <1>1, <1>2
  <2> QED
    BY <2>1 DEF IsInjective
<1>5. ASSUME NEW x \in Range(Tail(seq)) PROVE x \in Range(seq) \ {Head(seq)}
  <2>1. PICK i \in 1 .. Len(seq) - 1 : x = Tail(seq)[i]
    BY <1>2 DEF Range
  <2>2. x = seq[i + 1] /\ i + 1 \in DOMAIN seq /\ i + 1 # 1 /\ 1 \in DOMAIN seq
    BY <1>1, <1>2, <2>1
  <2> QED
    BY <1>2, <2>2 DEF IsInjective, Range
<1>6. ASSUME NEW x \in Range(seq), x # Head(seq) PROVE x \in Range(Tail(seq))
  <2>1. PICK i \in 1 .. Len(seq) : x = seq[i]
    BY <1>2 DEF Range
  <2>2. i - 1 \in 1 .. Len(seq) - 1 /\ Tail(seq)[i - 1] = seq[i - 1 + 1]
    BY <1>1, <1>2, <1>6, <2>1
  <2>3. Tail(seq)[i - 1] = x
    BY <1>2, <2>1, <2>2
  <2> QED
    BY <1>2, <2>2, <2>3 DEF Range
<1> QED
  BY <1>1, <1>3, <1>4, <1>5, <1>6

(* Appending an injective sequence of new elements keeps a queue injective *)
(* and adds exactly those elements.                                        *)
LEMMA ConcatOfInjective ==
  ASSUME NEW S, NEW p \in Seq(S), NEW q \in Seq(S),
         IsInjective(p), IsInjective(q), Range(p) \cap Range(q) = {}
  PROVE  /\ p \o q \in Seq(S)
         /\ IsInjective(p \o q)
         /\ Range(p \o q) = Range(p) \cup Range(q)
<1>1. /\ p \o q \in Seq(S)
      /\ Len(p \o q) = Len(p) + Len(q)
      /\ \A i \in 1 .. Len(p) + Len(q) :
           (p \o q)[i] = IF i <= Len(p) THEN p[i] ELSE q[i - Len(p)]
  BY ConcatProperties
<1>2. /\ Len(p) \in Nat /\ Len(q) \in Nat
      /\ DOMAIN p = 1 .. Len(p) /\ DOMAIN q = 1 .. Len(q)
      /\ DOMAIN (p \o q) = 1 .. Len(p) + Len(q)
  BY <1>1, LenProperties
<1>3. IsInjective(p \o q)
  <2> SUFFICES ASSUME NEW i \in 1 .. Len(p) + Len(q), NEW j \in 1 .. Len(p) + Len(q),
                      (p \o q)[i] = (p \o q)[j]
               PROVE  i = j
    BY <1>2 DEF IsInjective
  <2>1. CASE i <= Len(p) /\ j <= Len(p)
    BY <1>1, <1>2, <2>1 DEF IsInjective
  <2>2. CASE i > Len(p) /\ j > Len(p)
    <3>1. /\ i - Len(p) \in DOMAIN q /\ j - Len(p) \in DOMAIN q
          /\ q[i - Len(p)] = q[j - Len(p)]
      BY <1>1, <1>2, <2>2
    <3> QED
      BY <1>2, <3>1 DEF IsInjective
  <2>3. CASE i <= Len(p) /\ j > Len(p)
    <3>1. i \in DOMAIN p /\ j - Len(p) \in DOMAIN q /\ p[i] = q[j - Len(p)]
      BY <1>1, <1>2, <2>3
    <3> QED
      BY <3>1 DEF Range
  <2>4. CASE i > Len(p) /\ j <= Len(p)
    <3>1. j \in DOMAIN p /\ i - Len(p) \in DOMAIN q /\ p[j] = q[i - Len(p)]
      BY <1>1, <1>2, <2>4
    <3> QED
      BY <3>1 DEF Range
  <2> QED
    BY <1>2, <2>1, <2>2, <2>3, <2>4
<1>4. ASSUME NEW x \in Range(p \o q) PROVE x \in Range(p) \cup Range(q)
  <2>1. PICK i \in 1 .. Len(p) + Len(q) : x = (p \o q)[i]
    BY <1>2 DEF Range
  <2>2. IF i <= Len(p) THEN i \in DOMAIN p /\ x = p[i]
                       ELSE i - Len(p) \in DOMAIN q /\ x = q[i - Len(p)]
    BY <1>1, <1>2, <2>1
  <2> QED
    BY <2>2 DEF Range
<1>5. ASSUME NEW x \in Range(p) PROVE x \in Range(p \o q)
  <2>1. PICK i \in 1 .. Len(p) : x = p[i]
    BY <1>2 DEF Range
  <2>2. i \in DOMAIN (p \o q) /\ (p \o q)[i] = x
    BY <1>1, <1>2, <2>1
  <2> QED
    BY <2>2 DEF Range
<1>6. ASSUME NEW x \in Range(q) PROVE x \in Range(p \o q)
  <2>1. PICK i \in 1 .. Len(q) : x = q[i]
    BY <1>2 DEF Range
  <2>2. i + Len(p) \in DOMAIN (p \o q) /\ (p \o q)[i + Len(p)] = q[i + Len(p) - Len(p)]
    BY <1>1, <1>2
  <2>3. (p \o q)[i + Len(p)] = x
    BY <1>2, <2>1, <2>2
  <2> QED
    BY <2>2, <2>3 DEF Range
<1> QED
  BY <1>1, <1>3, <1>4, <1>5, <1>6

(* getNextId returns an id that is in no table and no longer waiting, and  *)
(* keeps the queue free of duplicates.                                     *)
LEMMA DrawnIdIsNew ==
  ASSUME DbInv, IdsLeft, TakeNextId
  PROVE  /\ GetNextId \in Ids \ {0}
         /\ GetNextId \notin LiveIds
         /\ nextId' \in Ids /\ nextId' >= K_START
         /\ recycledIds' \in Seq(Ids)
         /\ IsInjective(recycledIds')
         /\ FreeIds' = FreeIds \ {GetNextId}
         /\ GetNextId \in K_START .. nextId' - 1
         /\ K_START .. nextId - 1 \subseteq K_START .. nextId' - 1
<1> USE IdAssumption DEF Ids
<1>1. /\ nextId \in Ids /\ nextId >= K_START
      /\ recycledIds \in Seq(Ids)
      /\ IsInjective(recycledIds)
      /\ FreeIds \cap LiveIds = {}
      /\ FreeIds \cup LiveIds \subseteq K_START .. nextId - 1
  BY DEF DbInv, DbTypeOK, IdsUnique
<1>2. CASE recycledIds # <<>>
  <2>1. /\ GetNextId = Head(recycledIds)
        /\ recycledIds' = Tail(recycledIds)
        /\ nextId' = nextId
    BY <1>2 DEF GetNextId, TakeNextId
  <2>2. /\ Tail(recycledIds) \in Seq(Ids)
        /\ Head(recycledIds) \in FreeIds
        /\ IsInjective(Tail(recycledIds))
        /\ Range(Tail(recycledIds)) = FreeIds \ {Head(recycledIds)}
    BY <1>1, <1>2, TailOfInjective DEF FreeIds
  <2>3. FreeIds' = FreeIds \ {GetNextId}
    BY <2>1, <2>2 DEF FreeIds
  <2> QED
    BY <1>1, <2>1, <2>2, <2>3
<1>3. CASE recycledIds = <<>>
  <2>1. /\ GetNextId = nextId
        /\ nextId' = nextId + 1
        /\ recycledIds' = recycledIds
    BY <1>1, <1>3 DEF GetNextId, TakeNextId, IdsLeft
  <2>2. nextId' \in Ids
    BY <1>1, <1>3, <2>1 DEF IdsLeft
  <2>3. FreeIds' = FreeIds \ {GetNextId}
    BY <1>1, <2>1 DEF FreeIds
  <2> QED
    BY <1>1, <2>1, <2>2, <2>3
<1> QED
  BY <1>2, <1>3

(* Ids that leave a table join the queue once each. *)
LEMMA RecycledIdsWait ==
  ASSUME DbInv, NEW ids \in Seq(Ids), Recycle(ids),
         IsInjective(ids), Range(ids) \cap FreeIds = {}
  PROVE  /\ nextId' = nextId
         /\ recycledIds' \in Seq(Ids)
         /\ IsInjective(recycledIds')
         /\ FreeIds' = FreeIds \cup Range(ids)
<1>1. recycledIds' = recycledIds \o ids /\ nextId' = nextId
  BY DEF Recycle
<1>2. /\ recycledIds \o ids \in Seq(Ids)
      /\ IsInjective(recycledIds \o ids)
      /\ Range(recycledIds \o ids) = Range(recycledIds) \cup Range(ids)
  BY ConcatOfInjective DEF DbInv, DbTypeOK, IdsUnique, FreeIds
<1> QED
  BY <1>1, <1>2 DEF FreeIds

-----------------------------------------------------------------------------
(* The packets of a step. *)

(* 0, the id of nothing, is an id, and ids are numbers. *)
LEMMA ZeroIsId == 0 \in Ids /\ Ids \subseteq Nat
BY IdAssumption DEF Ids

(* A packet about one id is a packet. *)
LEMMA PacketTyped ==
  ASSUME NEW code \in PacketCodes, NEW id \in Ids, NEW arg \in Nat
  PROVE  /\ Packet(code, id, arg) \in PacketType
         /\ <<Packet(code, id, arg)>> \in Seq(PacketType)
<1>1. Packet(code, id, arg) \in PacketType
  BY DEF Packet, PacketType
<1> QED
  BY <1>1

(* A listing is a packet. *)
LEMMA ItemsTyped ==
  ASSUME NEW code \in PacketCodes, NEW ids \in SUBSET Ids
  PROVE  Items(code, ids) \in PacketType
BY DEF Items, PacketType

(* Sending nothing is well typed. *)
LEMMA NoPacketsTyped == NoPackets \in [Sessions -> Seq(PacketType)]
BY DEF NoPackets

(* Broadcasting a typed sequence of packets is well typed. *)
LEMMA ToUsersTyped ==
  ASSUME NEW table, NEW except, NEW pkts \in Seq(PacketType)
  PROVE  ToUsers(table, except, pkts) \in [Sessions -> Seq(PacketType)]
BY DEF ToUsers

(* So is adding a reply to the requesting session. *)
LEMMA WithReplyTyped ==
  ASSUME NEW s, NEW reply \in Seq(PacketType),
         NEW others \in [Sessions -> Seq(PacketType)]
  PROVE  WithReply(s, reply, others) \in [Sessions -> Seq(PacketType)]
BY DEF WithReply

(* What LeaveRoom broadcasts is a sequence of packets. *)
LEMMA LeavePacketsTyped ==
  ASSUME NEW roomId \in Ids, NEW leftId \in Ids, NEW closed \in BOOLEAN
  PROVE  LeavePackets(roomId, leftId, closed) \in Seq(PacketType)
<1>1. /\ Packet("Leave", leftId, roomId) \in PacketType
      /\ Packet("Close", roomId, 0) \in PacketType
  BY PacketTyped, ZeroIsId DEF PacketCodes
<1> QED
  BY <1>1 DEF LeavePackets

-----------------------------------------------------------------------------
(* The steps. *)

(* A step that leaves the tables and the sessions alone keeps DbInv. *)
LEMMA DbUnchanged ==
  ASSUME DbInv, UNCHANGED <<dbVars, uid>>
  PROVE  DbInv'
BY DEF DbInv, dbVars, DbTypeOK, IdsUnique, SessionsMatch, RoomRefsLive,
       NamesUnique, FreeIds, LiveIds

(* A handler that only answers its client keeps the invariant. *)
LEMMA AnswersKeeps ==
  ASSUME StepInv, NEW s \in Sessions, NEW pkts \in Seq(PacketType), Answers(s, pkts)
  PROVE  StepInv'
<1>1. DbInv'
  BY DbUnchanged DEF StepInv, Answers
<1>2. sent' \in [Sessions -> Seq(PacketType)]
  BY NoPacketsTyped, WithReplyTyped DEF Answers, ReplyOnly
<1> QED
  BY <1>1, <1>2 DEF StepInv, Answers, Exceptions

(* The user of a logged-in session is in the table. *)
LEMMA LoggedIn ==
  ASSUME DbInv, NEW s \in Sessions, uid[s] # 0
  PROVE  /\ uid[s] \in DOMAIN users
         /\ uid[s] \in Ids
         /\ UserOf(s) \in User
         /\ UserOf(s).room \in Ids
         /\ UserOf(s).name \in Names
<1>1. uid[s] \in DOMAIN users /\ uid[s] \in Ids
  BY DEF DbInv, SessionsMatch
<1>2. UserOf(s) \in User
  BY <1>1 DEF DbInv, DbTypeOK, UserOf
<1> QED
  BY <1>1, <1>2 DEF User

(* handleLogin draws a new id, and the name it adds is not taken. *)
LEMMA LoginKeeps ==
  ASSUME StepInv, NEW s \in Sessions, NEW name \in Names, Login(s, name)
  PROVE  StepInv'
<1> DEFINE id == GetNextId
<1>1. /\ uid[s] = 0 /\ ~ NameTaken(name)
      /\ IdsLeft /\ TakeNextId
      /\ users' = Add(users, id, [name |-> name, room |-> 0])
      /\ uid' = [uid EXCEPT ![s] = id]
      /\ rooms' = rooms /\ games' = games /\ gone' = gone
      /\ thrown' = "none"
  BY DEF Login
<1>2. DbInv
  BY DEF StepInv
<1>3. /\ id \in Ids \ {0}
      /\ id \notin LiveIds
      /\ nextId' \in Ids /\ nextId' >= K_START
      /\ recycledIds' \in Seq(Ids)
      /\ IsInjective(recycledIds')
      /\ FreeIds' = FreeIds \ {id}
      /\ id \in K_START .. nextId' - 1
      /\ K_START .. nextId - 1 \subseteq K_START .. nextId' - 1
  BY <1>1, <1>2, DrawnIdIsNew
<1> HIDE DEF id
<1>4. /\ DOMAIN users' = DOMAIN users \cup {id}
      /\ users'[id] = [name |-> name, room |-> 0]
      /\ \A u \in DOMAIN users : u # id /\ users'[u] = users[u]
  BY <1>1, <1>3 DEF Add, LiveIds
<1>5. DbTypeOK' /\ uid' \in [Sessions -> Ids]
  <2>1. users' \in [DOMAIN users' -> User]
    BY <1>1, <1>2, <1>3, <1>4, ZeroIsId DEF Add, DbInv, DbTypeOK, User
  <2>2. DOMAIN users' \subseteq Ids
    BY <1>2, <1>3, <1>4 DEF DbInv, DbTypeOK
  <2> QED
    BY <1>1, <1>2, <1>3, <2>1, <2>2 DEF DbInv, DbTypeOK
<1>6. LiveIds' = LiveIds \cup {id}
  BY <1>1, <1>4 DEF LiveIds
<1>7. IdsUnique'
  BY <1>1, <1>2, <1>3, <1>4, <1>6 DEF DbInv, IdsUnique, LiveIds
<1>8. SessionsMatch'
  <2>1. \A t \in Sessions : uid'[t] = IF t = s THEN id ELSE uid[t]
    BY <1>1, <1>2 DEF DbInv
  <2>2. \A t \in Sessions : uid[t] # id
    BY <1>2, <1>3 DEF DbInv, SessionsMatch, LiveIds
  <2>3. \A q, t \in Sessions : uid'[q] # 0 /\ uid'[q] = uid'[t] => q = t
    BY <1>2, <2>1, <2>2 DEF DbInv, SessionsMatch
  <2>4. {uid'[t] : t \in Sessions} \ {0} = ({uid[t] : t \in Sessions} \ {0}) \cup {id}
    BY <1>1, <1>3, <2>1
  <2> QED
    BY <1>2, <1>4, <2>3, <2>4 DEF DbInv, SessionsMatch
<1>9. RoomRefsLive'
  BY <1>1, <1>2, <1>4 DEF DbInv, RoomRefsLive
<1>10. NamesUnique'
  BY <1>1, <1>2, <1>4 DEF DbInv, NamesUnique, NameTaken, EqualsCaseInsensitive
<1>11. sent' \in [Sessions -> Seq(PacketType)]
  <2>1. /\ <<Packet("LoginReply", id, 0)>> \in Seq(PacketType)
        /\ <<Packet("Login", id, 0)>> \in Seq(PacketType)
    BY <1>3, PacketTyped DEF PacketCodes
  <2>2. ToUsers(users, 0, <<Packet("Login", id, 0)>>) \in [Sessions -> Seq(PacketType)]
    BY <2>1, ToUsersTyped
  <2>3. sent' = WithReply(s, <<Packet("LoginReply", id, 0)>>,
                         ToUsers(users, 0, <<Packet("Login", id, 0)>>))
    BY DEF Login, id
  <2> QED
    BY <2>1, <2>2, <2>3, WithReplyTyped
<1> QED
  BY <1>1, <1>3, <1>5, <1>7, <1>8, <1>9, <1>10, <1>11
  DEF StepInv, DbInv, Exceptions

(* Erasing an id leaves the other entries as they were. *)
LEMMA EraseIsRestriction ==
  ASSUME NEW S, NEW table, NEW id, table \in [DOMAIN table -> S]
  PROVE  /\ DOMAIN Erase(table, id) = DOMAIN table \ {id}
         /\ \A x \in DOMAIN Erase(table, id) : Erase(table, id)[x] = table[x]
         /\ Erase(table, id) \in [DOMAIN Erase(table, id) -> S]
BY DEF Erase, Restrict

(* A queue that holds x, or nothing. *)
LEMMA AtMostOne ==
  ASSUME NEW S, NEW x, NEW cond \in BOOLEAN, cond => x \in S
  PROVE  LET seq == IF cond THEN <<x>> ELSE <<>>
         IN  /\ seq \in Seq(S)
             /\ IsInjective(seq)
             /\ Range(seq) = IF cond THEN {x} ELSE {}
<1>1. CASE cond
  <2>1. DOMAIN <<x>> = {1} /\ <<x>>[1] = x
    OBVIOUS
  <2> QED
    BY <1>1, <2>1 DEF IsInjective, Range
<1>2. CASE ~ cond
  BY <1>2 DEF IsInjective, Range
<1> QED
  BY <1>1, <1>2

(* DisconnectUser removes a user, a game and a room that nobody else is in. *)
LEMMA DisconnectUserKeeps ==
  ASSUME StepInv, NEW s \in Sessions, uid[s] # 0, DisconnectUser(s)
  PROVE  /\ DbInv'
         /\ gone' \subseteq Sessions
         /\ sent' \in [Sessions -> Seq(PacketType)]
<1> DEFINE named == GamesNamed(UserOf(s).name)
           id    == uid[s]
<1>1. PICK game \in IF named = {} THEN {0} ELSE named :
        LET hosted    == game # 0
            roomId    == IF hosted THEN games[game].room ELSE UserOf(s).room
            leftId    == IF hosted THEN game ELSE id
            usersLeft == Erase(users, id)
            gamesLeft == Erase(games, game)
            closed    == RoomClosed(usersLeft, gamesLeft, roomId, leftId)
            gamePkts  == IF hosted
                         THEN <<Packet("Leave", id, game), Packet("Close", game, 0)>>
                         ELSE <<>>
        IN  /\ users' = usersLeft
            /\ games' = gamesLeft
            /\ rooms' = IF closed THEN Erase(rooms, roomId) ELSE rooms
            /\ Recycle(<<id>> \o (IF hosted THEN <<game>> ELSE <<>>)
                              \o (IF closed THEN <<roomId>> ELSE <<>>))
            /\ uid' = [uid EXCEPT ![s] = 0]
            /\ gone' = gone \ {s}
            /\ sent' = [t \in Sessions |->
                          IF uid[t] \notin DOMAIN usersLeft THEN <<>>
                          ELSE gamePkts
                               \o (IF uid[t] = leftId THEN <<>>
                                   ELSE LeavePackets(roomId, leftId, closed))
                               \o <<Packet("DisconnectUser", id, 0)>>]
  BY DEF DisconnectUser
<1> DEFINE hosted    == game # 0
           roomId    == IF hosted THEN games[game].room ELSE UserOf(s).room
           leftId    == IF hosted THEN game ELSE id
           closed    == RoomClosed(Erase(users, id), Erase(games, game), roomId, leftId)
           freed     == <<id>> \o (IF hosted THEN <<game>> ELSE <<>>)
                               \o (IF closed THEN <<roomId>> ELSE <<>>)
<1>2. DbInv /\ gone \subseteq Sessions
  BY DEF StepInv
<1>3. /\ id \in DOMAIN users /\ id \in Ids /\ id # 0
      /\ UserOf(s) = users[id] /\ UserOf(s).room \in Ids
  BY <1>2, LoggedIn DEF UserOf
<1>4. 0 \notin LiveIds
  BY <1>2, IdAssumption DEF DbInv, DbTypeOK, IdsUnique, Ids
<1>5. /\ hosted => game \in DOMAIN games /\ game \in Ids /\ games[game].room \in Ids
      /\ ~ hosted => game \notin DOMAIN games
  BY <1>2, <1>4 DEF GamesNamed, DbInv, DbTypeOK, LiveIds, Game
<1>6. roomId \in Ids /\ leftId \in Ids /\ closed \in BOOLEAN
  BY <1>3, <1>5 DEF RoomClosed
<1>7. closed => roomId \in DOMAIN rooms
  BY DEF RoomClosed
<1>8. /\ users' = Erase(users, id)
      /\ games' = Erase(games, game)
      /\ rooms' = IF closed THEN Erase(rooms, roomId) ELSE rooms
      /\ Recycle(freed)
      /\ uid' = [uid EXCEPT ![s] = 0]
      /\ gone' = gone \ {s}
  BY <1>1
<1>9. /\ freed \in Seq(Ids) /\ IsInjective(freed)
      /\ Range(freed) = {id} \cup (IF hosted THEN {game} ELSE {})
                             \cup (IF closed THEN {roomId} ELSE {})
  <2>1. /\ hosted => game # id
        /\ closed => roomId # id
        /\ hosted /\ closed => game # roomId
    BY <1>2, <1>3, <1>5, <1>7 DEF DbInv, IdsUnique
  <2> DEFINE ofUser == IF TRUE THEN <<id>> ELSE <<>>
             ofGame == IF hosted THEN <<game>> ELSE <<>>
             ofRoom == IF closed THEN <<roomId>> ELSE <<>>
  <2>2. /\ ofUser \in Seq(Ids) /\ IsInjective(ofUser)
        /\ Range(ofUser) = {id}
    BY <1>3, AtMostOne
  <2>3. /\ ofGame \in Seq(Ids) /\ IsInjective(ofGame)
        /\ Range(ofGame) = IF hosted THEN {game} ELSE {}
    BY <1>5, AtMostOne
  <2>4. /\ ofRoom \in Seq(Ids) /\ IsInjective(ofRoom)
        /\ Range(ofRoom) = IF closed THEN {roomId} ELSE {}
    BY <1>6, AtMostOne
  <2>5. freed = (ofUser \o ofGame) \o ofRoom
    OBVIOUS
  <2> HIDE DEF ofUser, ofGame, ofRoom, freed, id, closed, roomId, hosted
  <2>6. /\ ofUser \o ofGame \in Seq(Ids)
        /\ IsInjective(ofUser \o ofGame)
        /\ Range(ofUser \o ofGame) = {id} \cup (IF hosted THEN {game} ELSE {})
    BY <2>1, <2>2, <2>3, ConcatOfInjective
  <2>7. Range(ofUser \o ofGame) \cap Range(ofRoom) = {}
    BY <2>1, <2>4, <2>6
  <2> DEFINE front == ofUser \o ofGame
  <2>8. /\ front \in Seq(Ids) /\ IsInjective(front)
        /\ Range(front) \cap Range(ofRoom) = {}
        /\ Range(front) = {id} \cup (IF hosted THEN {game} ELSE {})
    BY <2>6, <2>7
  <2> HIDE DEF front
  <2>9. /\ front \o ofRoom \in Seq(Ids)
        /\ IsInjective(front \o ofRoom)
        /\ Range(front \o ofRoom) = Range(front) \cup Range(ofRoom)
    BY <2>4, <2>8, ConcatOfInjective
  <2>10. freed = front \o ofRoom
    BY <2>5 DEF front
  <2> QED
    BY <2>4, <2>8, <2>9, <2>10
<1>10. Range(freed) \subseteq LiveIds
  BY <1>3, <1>5, <1>7, <1>9 DEF LiveIds
<1> HIDE DEF freed
<1>11. /\ nextId' = nextId
       /\ recycledIds' \in Seq(Ids)
       /\ IsInjective(recycledIds')
       /\ FreeIds' = FreeIds \cup Range(freed)
  BY <1>2, <1>8, <1>9, <1>10, RecycledIdsWait DEF DbInv, IdsUnique
<1>12. /\ DOMAIN users' = DOMAIN users \ {id}
       /\ \A u \in DOMAIN users' : users'[u] = users[u]
       /\ users' \in [DOMAIN users' -> User]
  <2>1. users \in [DOMAIN users -> User]
    BY <1>2 DEF DbInv, DbTypeOK
  <2>2. /\ DOMAIN Erase(users, id) = DOMAIN users \ {id}
        /\ \A x \in DOMAIN Erase(users, id) : Erase(users, id)[x] = users[x]
        /\ Erase(users, id) \in [DOMAIN Erase(users, id) -> User]
    BY <2>1, EraseIsRestriction
  <2> QED
    BY <1>8, <2>2
<1>13. /\ DOMAIN games' = DOMAIN games \ {game}
       /\ \A g \in DOMAIN games' : games'[g] = games[g]
       /\ games' \in [DOMAIN games' -> Game]
  <2>1. games \in [DOMAIN games -> Game]
    BY <1>2 DEF DbInv, DbTypeOK
  <2>2. /\ DOMAIN Erase(games, game) = DOMAIN games \ {game}
        /\ \A x \in DOMAIN Erase(games, game) : Erase(games, game)[x] = games[x]
        /\ Erase(games, game) \in [DOMAIN Erase(games, game) -> Game]
    BY <2>1, EraseIsRestriction
  <2> QED
    BY <1>8, <2>2
<1>14. /\ DOMAIN rooms' = DOMAIN rooms \ (IF closed THEN {roomId} ELSE {})
       /\ \A r \in DOMAIN rooms' : rooms'[r] = rooms[r]
       /\ rooms' \in [DOMAIN rooms' -> Room]
  <2>1. rooms \in [DOMAIN rooms -> Room]
    BY <1>2 DEF DbInv, DbTypeOK
  <2> HIDE DEF closed, roomId
  <2>2. CASE closed
    <3>1. /\ DOMAIN Erase(rooms, roomId) = DOMAIN rooms \ {roomId}
          /\ \A x \in DOMAIN Erase(rooms, roomId) : Erase(rooms, roomId)[x] = rooms[x]
          /\ Erase(rooms, roomId) \in [DOMAIN Erase(rooms, roomId) -> Room]
      BY <2>1, EraseIsRestriction
    <3> QED
      BY <1>8, <2>2, <3>1
  <2>3. CASE ~ closed
    BY <1>8, <2>1, <2>3
  <2> QED
    BY <2>2, <2>3
<1>15. closed => /\ \A u \in DOMAIN users' : users'[u].room # roomId
                 /\ \A g \in DOMAIN games' : games'[g].room # roomId
  <2>1. /\ leftId \notin DOMAIN users'
        /\ leftId \notin DOMAIN games'
    BY <1>2, <1>3, <1>5, <1>12, <1>13 DEF DbInv, IdsUnique
  <2> HIDE DEF roomId, leftId
  <2> QED
    BY <1>8, <2>1 DEF RoomClosed, InRoom
<1> HIDE DEF id, hosted, roomId, leftId, closed
<1>16. DbTypeOK' /\ uid' \in [Sessions -> Ids]
  BY <1>2, <1>8, <1>11, <1>12, <1>13, <1>14, ZeroIsId DEF DbInv, DbTypeOK
<1>17. LiveIds' \subseteq LiveIds \ Range(freed)
  <2>1. /\ LiveIds' \subseteq LiveIds
        /\ id \notin LiveIds'
        /\ hosted => game \notin LiveIds'
        /\ closed => roomId \notin LiveIds'
    BY <1>2, <1>3, <1>5, <1>7, <1>12, <1>13, <1>14 DEF LiveIds, DbInv, IdsUnique
  <2> QED
    BY <1>9, <2>1
<1>18. IdsUnique'
  BY <1>2, <1>10, <1>11, <1>12, <1>13, <1>14, <1>17 DEF DbInv, IdsUnique
<1>19. SessionsMatch'
  <2>1. \A t \in Sessions : uid'[t] = IF t = s THEN 0 ELSE uid[t]
    BY <1>2, <1>8 DEF DbInv
  <2>2. \A q, t \in Sessions : uid[q] # 0 /\ uid[q] = uid[t] => q = t
    BY <1>2 DEF DbInv, SessionsMatch
  <2>3. \A q, t \in Sessions : uid'[q] # 0 /\ uid'[q] = uid'[t] => q = t
    BY <2>1, <2>2
  <2>4. {uid'[t] : t \in Sessions} \ {0} = ({uid[t] : t \in Sessions} \ {0}) \ {id}
    BY <1>3, <2>1, <2>2 DEF id
  <2> QED
    BY <1>2, <1>12, <2>3, <2>4 DEF DbInv, SessionsMatch
<1>20. RoomRefsLive'
  BY <1>2, <1>12, <1>13, <1>14, <1>15 DEF DbInv, RoomRefsLive
<1>21. NamesUnique'
  BY <1>2, <1>12, <1>14 DEF DbInv, NamesUnique, EqualsCaseInsensitive
<1>22. sent' \in [Sessions -> Seq(PacketType)]
  <2> DEFINE gamePkts == IF hosted
                         THEN <<Packet("Leave", id, game), Packet("Close", game, 0)>>
                         ELSE <<>>
  <2>1. gamePkts \in Seq(PacketType)
    <3>1. CASE hosted
      <4>1. game \in Ids /\ id \in Ids /\ game \in Nat
        BY <1>3, <1>5, <3>1, ZeroIsId
      <4>2. Packet("Leave", id, game) \in PacketType /\ Packet("Close", game, 0) \in PacketType
        BY <4>1, PacketTyped DEF PacketCodes
      <4> QED
        BY <3>1, <4>2
    <3> QED
      BY <3>1
  <2>2. <<Packet("DisconnectUser", id, 0)>> \in Seq(PacketType)
    BY <1>3, PacketTyped DEF PacketCodes
  <2>3. LeavePackets(roomId, leftId, closed) \in Seq(PacketType)
    BY <1>6, LeavePacketsTyped
  <2>4. sent' = [t \in Sessions |->
                   IF uid[t] \notin DOMAIN Erase(users, id) THEN <<>>
                   ELSE gamePkts
                        \o (IF uid[t] = leftId THEN <<>>
                            ELSE LeavePackets(roomId, leftId, closed))
                        \o <<Packet("DisconnectUser", id, 0)>>]
    BY <1>1 DEF hosted, roomId, leftId, closed, id
  <2> HIDE DEF gamePkts
  <2> QED
    BY <2>1, <2>2, <2>3, <2>4
<1> QED
  BY <1>2, <1>8, <1>11, <1>16, <1>18, <1>19, <1>20, <1>21, <1>22 DEF DbInv

(* A handler that returns false disconnects its user. *)
LEMMA RejectedKeeps ==
  ASSUME StepInv, NEW s \in Sessions, uid[s] # 0, Rejected(s)
  PROVE  StepInv'
BY DisconnectUserKeeps DEF Rejected, StepInv, Exceptions

(* The end of handleSession disconnects its user. *)
LEMMA SessionEndsKeeps ==
  ASSUME StepInv, NEW s \in Sessions, SessionEnds(s)
  PROVE  StepInv'
BY DisconnectUserKeeps DEF SessionEnds, StepInv, Exceptions

(* A refused login changes no table. *)
LEMMA LoginRefusedKeeps ==
  ASSUME StepInv, NEW s \in Sessions, NEW name, LoginRefused(s, name)
  PROVE  StepInv'
<1>1. DbInv'
  BY DbUnchanged DEF StepInv, LoginRefused
<1>2. <<Packet("LoginReply", 0, 1)>> \in Seq(PacketType)
  BY PacketTyped, ZeroIsId DEF PacketCodes
<1>3. sent' \in [Sessions -> Seq(PacketType)]
  BY <1>2, NoPacketsTyped, WithReplyTyped DEF LoginRefused, ReplyOnly
<1> QED
  BY <1>1, <1>3 DEF StepInv, LoginRefused, Exceptions

(* A reset connection changes no table. *)
LEMMA PeerResetKeeps ==
  ASSUME StepInv, NEW s \in Sessions, PeerReset(s)
  PROVE  StepInv'
<1>1. DbInv'
  BY DbUnchanged DEF StepInv, PeerReset
<1> QED
  BY <1>1, NoPacketsTyped DEF StepInv, PeerReset, Exceptions

(* An id drawn and lost: the tables stay, the queue or the counter moves. *)
LEMMA LostIdKeeps ==
  ASSUME DbInv, IdsLeft, TakeNextId, UNCHANGED <<users, rooms, games, uid>>
  PROVE  DbInv'
<1>1. /\ nextId' \in Ids /\ nextId' >= K_START
      /\ recycledIds' \in Seq(Ids)
      /\ IsInjective(recycledIds')
      /\ FreeIds' = FreeIds \ {GetNextId}
      /\ K_START .. nextId - 1 \subseteq K_START .. nextId' - 1
  BY DrawnIdIsNew
<1>2. DbTypeOK'
  BY <1>1 DEF DbInv, DbTypeOK
<1>3. LiveIds' = LiveIds
  BY DEF LiveIds
<1>4. IdsUnique'
  BY <1>1, <1>3 DEF DbInv, IdsUnique
<1> QED
  BY <1>1, <1>2, <1>4 DEF DbInv, SessionsMatch, RoomRefsLive, NamesUnique

(* OnChatRoom sends packets only. *)
LEMMA OnChatRoomKeeps ==
  ASSUME StepInv, NEW s \in Sessions, NEW value0, NEW value3 \in Opt, NEW kind,
         OnChatRoom(s, value0, value3, kind)
  PROVE  StepInv'
<1> DEFINE valid  == ValueOr(value0, 0) = uid[s] /\ value3 # None /\ kind # "absent"
           roomId == UserOf(s).room
           chat   == <<Packet("ChatRoom", uid[s], value3)>>
           reply(error) == <<Packet("ChatRoomReply", 0, error)>>
<1>1. uid[s] # 0 /\ uid[s] \in Ids
  BY LoggedIn DEF OnChatRoom, StepInv
<1>2. CASE Rejected(s)
  BY <1>1, <1>2, RejectedKeeps
<1>3. reply(0) \in Seq(PacketType) /\ reply(1) \in Seq(PacketType) /\ <<>> \in Seq(PacketType)
  BY PacketTyped, ZeroIsId DEF PacketCodes
<1>4. CASE Answers(s, reply(1)) \/ Answers(s, <<>>)
  BY <1>3, <1>4, AnswersKeeps
<1>5. ASSUME valid PROVE chat \in Seq(PacketType)
  <2>1. value3 \in Nat
    BY <1>5, ZeroIsId DEF Opt
  <2> QED
    BY <1>1, <2>1, PacketTyped DEF PacketCodes
<1>6. CASE /\ valid
           /\ sent' = WithReply(s, reply(0),
                [t \in Sessions |->
                   IF /\ uid[t] \in DOMAIN users \ {uid[s]}
                      /\ InRoom(users, uid[t], roomId)
                   THEN chat ELSE <<>>])
           /\ thrown' = "none"
           /\ UNCHANGED <<dbVars, uid, gone>>
  <2>1. [t \in Sessions |->
           IF /\ uid[t] \in DOMAIN users \ {uid[s]}
              /\ InRoom(users, uid[t], roomId)
           THEN chat ELSE <<>>] \in [Sessions -> Seq(PacketType)]
    BY <1>3, <1>5, <1>6
  <2>2. sent' \in [Sessions -> Seq(PacketType)]
    BY <1>3, <1>6, <2>1, WithReplyTyped
  <2> QED
    BY <1>6, <2>2, DbUnchanged DEF StepInv, Exceptions
<1>7. CASE /\ valid
           /\ sent' = [t \in Sessions |->
                         (IF uid[t] = value3 THEN chat ELSE <<>>)
                         \o (IF t = s THEN reply(0) ELSE <<>>)]
           /\ thrown' = "none"
           /\ UNCHANGED <<dbVars, uid, gone>>
  <2> HIDE DEF chat, reply
  <2>1. sent' \in [Sessions -> Seq(PacketType)]
    BY <1>3, <1>5, <1>7
  <2> QED
    BY <1>7, <2>1, DbUnchanged DEF StepInv, Exceptions
<1> QED
  BY <1>2, <1>4, <1>6, <1>7 DEF OnChatRoom

(* A listing changes no table. *)
LEMMA ListKeeps ==
  ASSUME StepInv, NEW s \in Sessions, NEW code \in PacketCodes, NEW ids \in SUBSET Ids,
         Answers(s, <<Items(code, ids), ListEnd>>)
  PROVE  StepInv'
<1>1. Items(code, ids) \in PacketType /\ ListEnd \in PacketType
  BY ItemsTyped DEF ListEnd, PacketCodes
<1>2. <<Items(code, ids), ListEnd>> \in Seq(PacketType)
  BY <1>1
<1> QED
  BY <1>2, AnswersKeeps

(* OnListRooms, OnListUsers and OnListGames change no table. *)
LEMMA OnListKeeps ==
  ASSUME StepInv, NEW s \in Sessions, NEW fixedOk, NEW value2,
         \/ OnListRooms(s, fixedOk)
         \/ OnListUsers(s, fixedOk, value2)
         \/ OnListGames(s, fixedOk, value2)
  PROVE  StepInv'
<1>1. uid[s] # 0
  BY DEF OnListRooms, OnListUsers, OnListGames
<1>2. CASE Rejected(s)
  BY <1>1, <1>2, RejectedKeeps
<1>3. DOMAIN rooms \subseteq Ids /\ DOMAIN users \subseteq Ids /\ DOMAIN games \subseteq Ids
  BY DEF StepInv, DbInv, DbTypeOK
<1>4. {"RoomItem", "UserItem", "GameItem"} \subseteq PacketCodes
  BY DEF PacketCodes
<1>5. ASSUME OnListRooms(s, fixedOk), ~ Rejected(s) PROVE StepInv'
  BY <1>3, <1>4, <1>5, ListKeeps DEF OnListRooms
<1>6. ASSUME OnListUsers(s, fixedOk, value2), ~ Rejected(s) PROVE StepInv'
  <2> DEFINE here == {x \in DOMAIN users : InRoom(users, x, UserOf(s).room)}
  <2>1. here \in SUBSET Ids
    BY <1>3
  <2>2. Answers(s, <<Items("UserItem", here), ListEnd>>)
    BY <1>6 DEF OnListUsers
  <2> QED
    BY <1>4, <2>1, <2>2, ListKeeps
<1>7. ASSUME OnListGames(s, fixedOk, value2), ~ Rejected(s) PROVE StepInv'
  <2> DEFINE here == {x \in DOMAIN games : InRoom(games, x, UserOf(s).room)}
  <2>1. here \in SUBSET Ids
    BY <1>3
  <2>2. Answers(s, <<Items("GameItem", here), ListEnd>>)
    BY <1>7 DEF OnListGames
  <2> QED
    BY <1>4, <2>1, <2>2, ListKeeps
<1> QED
  BY <1>2, <1>5, <1>6, <1>7

(* OnClose answers only. *)
LEMMA OnCloseKeeps ==
  ASSUME StepInv, NEW s \in Sessions, NEW value10, OnClose(s, value10)
  PROVE  StepInv'
<1>1. <<Packet("CloseReply", 0, 0)>> \in Seq(PacketType)
  BY PacketTyped, ZeroIsId DEF PacketCodes
<1> QED
  BY <1>1, AnswersKeeps, RejectedKeeps DEF OnClose

(* OnConnectGame answers only. *)
LEMMA OnConnectGameKeeps ==
  ASSUME StepInv, NEW s \in Sessions, NEW value0 \in Opt, OnConnectGame(s, value0)
  PROVE  StepInv'
<1>1. <<Packet("ConnectGameReply", 0, 1)>> \in Seq(PacketType)
  BY PacketTyped, ZeroIsId DEF PacketCodes
<1>2. value0 # None => <<Packet("ConnectGameReply", value0, 0)>> \in Seq(PacketType)
  BY PacketTyped, ZeroIsId DEF PacketCodes, Opt
<1> QED
  BY <1>1, <1>2, AnswersKeeps, RejectedKeeps DEF OnConnectGame

(* OnCreateRoom adds a room with a new id and a name that is not taken. *)
LEMMA OnCreateRoomKeeps ==
  ASSUME StepInv, NEW s \in Sessions, NEW fixedOk, NEW name \in Names,
         OnCreateRoom(s, fixedOk, name)
  PROVE  StepInv'
<1> DEFINE id == GetNextId
<1>1. uid[s] # 0 /\ DbInv
  BY DEF OnCreateRoom, StepInv
<1>2. CASE Rejected(s)
  BY <1>1, <1>2, RejectedKeeps
<1>3. CASE Answers(s, <<Packet("CreateRoomReply", 0, 1)>>)
  <2>1. <<Packet("CreateRoomReply", 0, 1)>> \in Seq(PacketType)
    BY PacketTyped, ZeroIsId DEF PacketCodes
  <2> QED
    BY <1>3, <2>1, AnswersKeeps
<1>4. CASE IdsLeft /\ TakeNextId /\ Threw("NotConnected")
  <2>1. DbInv'
    BY <1>1, <1>4, LostIdKeeps DEF Threw
  <2> QED
    BY <1>4, <2>1, NoPacketsTyped DEF StepInv, Threw, Exceptions
<1>5. CASE /\ ~ RoomNameTaken(name)
           /\ IdsLeft
           /\ TakeNextId
           /\ rooms' = Add(rooms, id, [name |-> name])
           /\ sent' = WithReply(s, <<Packet("CreateRoomReply", id, 0)>>,
                        ToUsers(users, uid[s], <<Packet("CreateRoom", id, 0)>>))
           /\ thrown' = "none"
           /\ UNCHANGED <<users, games, uid, gone>>
  <2>1. /\ id \in Ids \ {0}
        /\ id \notin LiveIds
        /\ nextId' \in Ids /\ nextId' >= K_START
        /\ recycledIds' \in Seq(Ids)
        /\ IsInjective(recycledIds')
        /\ FreeIds' = FreeIds \ {id}
        /\ id \in K_START .. nextId' - 1
        /\ K_START .. nextId - 1 \subseteq K_START .. nextId' - 1
    BY <1>1, <1>5, DrawnIdIsNew
  <2> HIDE DEF id
  <2>2. /\ DOMAIN rooms' = DOMAIN rooms \cup {id}
        /\ rooms'[id] = [name |-> name]
        /\ \A r \in DOMAIN rooms : r # id /\ rooms'[r] = rooms[r]
    BY <1>5, <2>1 DEF Add, LiveIds
  <2>3. DbTypeOK'
    <3>1. rooms' \in [DOMAIN rooms' -> Room]
      BY <1>1, <1>5, <2>2 DEF Add, DbInv, DbTypeOK, Room
    <3>2. DOMAIN rooms' \subseteq Ids
      BY <1>1, <2>1, <2>2 DEF DbInv, DbTypeOK
    <3> QED
      BY <1>1, <1>5, <2>1, <3>1, <3>2 DEF DbInv, DbTypeOK
  <2>4. LiveIds' = LiveIds \cup {id}
    BY <1>5, <2>2 DEF LiveIds
  <2>5. IdsUnique'
    BY <1>1, <1>5, <2>1, <2>2, <2>4 DEF DbInv, IdsUnique, LiveIds
  <2>6. SessionsMatch' /\ RoomRefsLive'
    BY <1>1, <1>5, <2>2 DEF DbInv, SessionsMatch, RoomRefsLive
  <2>7. NamesUnique'
    BY <1>1, <1>5, <2>2 DEF DbInv, NamesUnique, RoomNameTaken, EqualsCaseInsensitive
  <2>8. sent' \in [Sessions -> Seq(PacketType)]
    <3>1. /\ <<Packet("CreateRoomReply", id, 0)>> \in Seq(PacketType)
          /\ <<Packet("CreateRoom", id, 0)>> \in Seq(PacketType)
      BY <2>1, PacketTyped DEF PacketCodes
    <3>2. ToUsers(users, uid[s], <<Packet("CreateRoom", id, 0)>>)
            \in [Sessions -> Seq(PacketType)]
      BY <3>1, ToUsersTyped
    <3> QED
      BY <1>5, <3>1, <3>2, WithReplyTyped
  <2> QED
    BY <1>1, <1>5, <2>1, <2>3, <2>5, <2>6, <2>7, <2>8 DEF StepInv, DbInv, Exceptions
<1> QED
  BY <1>2, <1>3, <1>4, <1>5 DEF OnCreateRoom

(* OnJoin moves a user to a room that is open. *)
LEMMA OnJoinKeeps ==
  ASSUME StepInv, NEW s \in Sessions, NEW value2 \in Opt, NEW value10,
         OnJoin(s, value2, value10)
  PROVE  StepInv'
<1> DEFINE joined(roomId) == WithReply(s, <<Packet("JoinReply", 0, 0)>>,
                               ToUsers(users, uid[s], <<Packet("Join", uid[s], roomId)>>))
<1>1. uid[s] # 0 /\ DbInv
  BY DEF OnJoin, StepInv
<1>2. uid[s] \in DOMAIN users /\ uid[s] \in Ids /\ UserOf(s).room \in Ids
  BY <1>1, LoggedIn
<1>3. CASE Rejected(s)
  BY <1>1, <1>3, RejectedKeeps
<1>4. ASSUME NEW roomId \in Ids
      PROVE  joined(roomId) \in [Sessions -> Seq(PacketType)]
  <2>1. roomId \in Nat
    BY ZeroIsId
  <2>2. /\ <<Packet("JoinReply", 0, 0)>> \in Seq(PacketType)
        /\ <<Packet("Join", uid[s], roomId)>> \in Seq(PacketType)
    BY <1>2, <2>1, PacketTyped, ZeroIsId DEF PacketCodes
  <2>3. ToUsers(users, uid[s], <<Packet("Join", uid[s], roomId)>>)
          \in [Sessions -> Seq(PacketType)]
    BY <2>2, ToUsersTyped
  <2> QED
    BY <2>2, <2>3, WithReplyTyped
<1>5. CASE /\ value2 \in DOMAIN rooms
           /\ users' = [users EXCEPT ![uid[s]].room = value2]
           /\ sent' = joined(value2)
           /\ thrown' = "none"
           /\ UNCHANGED <<nextId, recycledIds, rooms, games, uid, gone>>
  <2> HIDE DEF joined
  <2>1. /\ DOMAIN users' = DOMAIN users
        /\ \A u \in DOMAIN users :
             users'[u] = IF u = uid[s] THEN [users[u] EXCEPT !.room = value2] ELSE users[u]
    BY <1>2, <1>5
  <2>2. value2 \in Ids /\ \A u \in DOMAIN users : users[u] \in User
    BY <1>1, <1>5 DEF DbInv, DbTypeOK
  <2>3. \A u \in DOMAIN users' :
          /\ users'[u] \in User
          /\ users'[u].name = users[u].name
          /\ users'[u].room \in {users[u].room, value2}
    BY <2>1, <2>2 DEF User
  <2>4. users' \in [DOMAIN users' -> User]
    BY <1>1, <1>5, <2>1, <2>3 DEF DbInv, DbTypeOK
  <2>5. DbTypeOK'
    BY <1>1, <1>5, <2>1, <2>4 DEF DbInv, DbTypeOK
  <2>6. IdsUnique' /\ SessionsMatch'
    BY <1>1, <1>5, <2>1 DEF DbInv, IdsUnique, SessionsMatch, FreeIds, LiveIds
  <2>7. RoomRefsLive'
    BY <1>1, <1>5, <2>1, <2>3 DEF DbInv, RoomRefsLive
  <2>8. NamesUnique'
    BY <1>1, <1>5, <2>1, <2>3 DEF DbInv, NamesUnique, EqualsCaseInsensitive
  <2>9. sent' \in [Sessions -> Seq(PacketType)]
    BY <1>4, <1>5, <2>2
  <2> QED
    BY <1>1, <1>5, <2>5, <2>6, <2>7, <2>8, <2>9 DEF StepInv, DbInv, Exceptions
<1>6. CASE /\ sent' = joined(UserOf(s).room)
           /\ thrown' = "none"
           /\ UNCHANGED <<dbVars, uid, gone>>
  <2>1. DbInv' /\ sent' \in [Sessions -> Seq(PacketType)]
    BY <1>1, <1>2, <1>4, <1>6, DbUnchanged
  <2> QED
    BY <1>6, <2>1 DEF StepInv, Exceptions
<1>7. CASE Answers(s, <<Packet("JoinReply", 0, 1)>>)
  <2>1. <<Packet("JoinReply", 0, 1)>> \in Seq(PacketType)
    BY PacketTyped, ZeroIsId DEF PacketCodes
  <2> QED
    BY <1>7, <2>1, AnswersKeeps
<1> QED
  BY <1>3, <1>5, <1>6, <1>7 DEF OnJoin

(* OnLeave closes the room only when nobody else is in it. *)
LEMMA OnLeaveKeeps ==
  ASSUME StepInv, NEW s \in Sessions, NEW value2, NEW value10,
         OnLeave(s, value2, value10)
  PROVE  StepInv'
<1> DEFINE roomId == UserOf(s).room
           closed == RoomClosed(users, games, roomId, uid[s])
           freed  == IF closed THEN <<roomId>> ELSE <<>>
<1>1. uid[s] # 0 /\ DbInv
  BY DEF OnLeave, StepInv
<1>2. uid[s] \in DOMAIN users /\ uid[s] \in Ids /\ roomId \in Ids
  BY <1>1, LoggedIn
<1>3. CASE Rejected(s)
  BY <1>1, <1>3, RejectedKeeps
<1>4. CASE Answers(s, <<Packet("LeaveReply", 0, 1)>>)
  <2>1. <<Packet("LeaveReply", 0, 1)>> \in Seq(PacketType)
    BY PacketTyped, ZeroIsId DEF PacketCodes
  <2> QED
    BY <1>4, <2>1, AnswersKeeps
<1>5. CASE /\ rooms' = IF closed THEN Erase(rooms, roomId) ELSE rooms
           /\ Recycle(freed)
           /\ users' = [users EXCEPT ![uid[s]].room = 0]
           /\ sent' = WithReply(s, <<Packet("LeaveReply", 0, 0)>>,
                        ToUsers(users, uid[s], LeavePackets(roomId, uid[s], closed)))
           /\ thrown' = "none"
           /\ UNCHANGED <<games, uid, gone>>
  <2>1. /\ closed \in BOOLEAN
        /\ closed => /\ roomId \in DOMAIN rooms
                     /\ \A u \in DOMAIN users : u # uid[s] => users[u].room # roomId
                     /\ \A g \in DOMAIN games : g # uid[s] => games[g].room # roomId
    BY DEF RoomClosed, InRoom
  <2>2. \A g \in DOMAIN games : g # uid[s]
    BY <1>1, <1>2 DEF DbInv, IdsUnique
  <2> HIDE DEF closed, roomId
  <2>3. /\ freed \in Seq(Ids) /\ IsInjective(freed)
        /\ Range(freed) = IF closed THEN {roomId} ELSE {}
    BY <1>2, <2>1, AtMostOne
  <2> HIDE DEF freed
  <2>4. Range(freed) \cap FreeIds = {}
    BY <1>1, <2>1, <2>3 DEF DbInv, IdsUnique, LiveIds
  <2>5. /\ nextId' = nextId
        /\ recycledIds' \in Seq(Ids)
        /\ IsInjective(recycledIds')
        /\ FreeIds' = FreeIds \cup Range(freed)
    BY <1>1, <1>5, <2>3, <2>4, RecycledIdsWait
  <2>6. /\ DOMAIN rooms' = DOMAIN rooms \ Range(freed)
        /\ \A r \in DOMAIN rooms' : rooms'[r] = rooms[r]
        /\ rooms' \in [DOMAIN rooms' -> Room]
    <3>1. rooms \in [DOMAIN rooms -> Room]
      BY <1>1 DEF DbInv, DbTypeOK
    <3>2. CASE closed
      <4>1. /\ DOMAIN Erase(rooms, roomId) = DOMAIN rooms \ {roomId}
            /\ \A x \in DOMAIN Erase(rooms, roomId) : Erase(rooms, roomId)[x] = rooms[x]
            /\ Erase(rooms, roomId) \in [DOMAIN Erase(rooms, roomId) -> Room]
        BY <3>1, EraseIsRestriction
      <4> QED
        BY <1>5, <2>3, <3>2, <4>1
    <3>3. CASE ~ closed
      BY <1>5, <2>3, <3>1, <3>3
    <3> QED
      BY <2>1, <3>2, <3>3
  <2>7. /\ DOMAIN users' = DOMAIN users
        /\ \A u \in DOMAIN users :
             users'[u] = IF u = uid[s] THEN [users[u] EXCEPT !.room = 0] ELSE users[u]
    BY <1>2, <1>5
  <2>8. \A u \in DOMAIN users : users[u] \in User
    BY <1>1 DEF DbInv, DbTypeOK
  <2>9. \A u \in DOMAIN users' :
          /\ users'[u] \in User
          /\ users'[u].name = users[u].name
          /\ users'[u].room = IF u = uid[s] THEN 0 ELSE users[u].room
    BY <2>7, <2>8, ZeroIsId DEF User
  <2>10. users' \in [DOMAIN users' -> User]
    BY <1>1, <1>5, <2>7, <2>9 DEF DbInv, DbTypeOK
  <2>11. DbTypeOK'
    BY <1>1, <1>5, <2>5, <2>6, <2>7, <2>10 DEF DbInv, DbTypeOK
  <2>12. Range(freed) \subseteq DOMAIN rooms
    BY <2>1, <2>3
  <2>13. LiveIds' = LiveIds \ Range(freed)
    BY <1>1, <1>5, <2>6, <2>7, <2>12 DEF DbInv, IdsUnique, LiveIds
  <2>14. IdsUnique'
    <3>1. FreeIds' \cup LiveIds' \subseteq FreeIds \cup LiveIds
      BY <2>5, <2>12, <2>13 DEF LiveIds
    <3> QED
      BY <1>1, <1>5, <2>5, <2>6, <2>7, <2>13, <3>1 DEF DbInv, IdsUnique
  <2>15. SessionsMatch'
    BY <1>1, <1>5, <2>7 DEF DbInv, SessionsMatch
  <2>16. RoomRefsLive'
    BY <1>1, <1>5, <2>1, <2>2, <2>3, <2>6, <2>7, <2>9 DEF DbInv, RoomRefsLive
  <2>17. NamesUnique'
    BY <1>1, <2>6, <2>7, <2>9 DEF DbInv, NamesUnique, EqualsCaseInsensitive
  <2>18. sent' \in [Sessions -> Seq(PacketType)]
    <3>1. /\ <<Packet("LeaveReply", 0, 0)>> \in Seq(PacketType)
          /\ LeavePackets(roomId, uid[s], closed) \in Seq(PacketType)
      BY <1>2, <2>1, PacketTyped, LeavePacketsTyped, ZeroIsId DEF PacketCodes
    <3>2. ToUsers(users, uid[s], LeavePackets(roomId, uid[s], closed))
            \in [Sessions -> Seq(PacketType)]
      BY <3>1, ToUsersTyped
    <3> QED
      BY <1>5, <3>1, <3>2, WithReplyTyped
  <2> QED
    BY <1>1, <1>5, <2>5, <2>11, <2>14, <2>15, <2>16, <2>17, <2>18
    DEF StepInv, DbInv, Exceptions
<1> QED
  BY <1>3, <1>4, <1>5 DEF OnLeave

(* OnCreateGame adds a game with a new id in its host's room. *)
LEMMA OnCreateGameKeeps ==
  ASSUME StepInv, NEW s \in Sessions, NEW fixedOk, NEW value2, NEW address,
         OnCreateGame(s, fixedOk, value2, address)
  PROVE  StepInv'
<1> DEFINE id      == GetNextId
           roomId  == UserOf(s).room
           refusal == <<Packet("CreateGameReply", 0, 2), Packet("ChatRoom", uid[s], roomId)>>
<1>1. uid[s] # 0 /\ DbInv
  BY DEF OnCreateGame, StepInv
<1>2. /\ uid[s] \in DOMAIN users /\ uid[s] \in Ids
      /\ roomId \in Ids /\ roomId \in Nat /\ UserOf(s).name \in Names
  BY <1>1, LoggedIn, ZeroIsId
<1>3. CASE Rejected(s)
  BY <1>1, <1>3, RejectedKeeps
<1>4. ASSUME NEW exception \in Exceptions, Threw(exception), UNCHANGED <<nextId, recycledIds>>
      PROVE  StepInv'
  <2>1. DbInv'
    BY <1>1, <1>4, DbUnchanged DEF Threw, dbVars
  <2> QED
    BY <1>4, <2>1, NoPacketsTyped DEF StepInv, Threw
<1>5. CASE /\ IdsLeft
           /\ TakeNextId
           /\ sent' = NoPackets
           /\ thrown' = "NotConnected"
           /\ gone' = gone \cup {s}
           /\ UNCHANGED <<users, rooms, games, uid>>
  <2>1. DbInv'
    BY <1>1, <1>5, LostIdKeeps
  <2> QED
    BY <1>5, <2>1, NoPacketsTyped DEF StepInv, Exceptions
<1>6. refusal \in Seq(PacketType)
  <2>1. Packet("CreateGameReply", 0, 2) \in PacketType
    BY PacketTyped, ZeroIsId DEF PacketCodes
  <2>2. Packet("ChatRoom", uid[s], roomId) \in PacketType
    BY <1>2, PacketTyped DEF PacketCodes
  <2> QED
    BY <2>1, <2>2
<1>7. CASE Answers(s, refusal)
  BY <1>6, <1>7, AnswersKeeps
<1>8. CASE /\ IdsLeft
           /\ TakeNextId
           /\ games' = Add(games, id, [name |-> UserOf(s).name, room |-> roomId])
           /\ sent' = WithReply(s, <<Packet("CreateGameReply", id, 0)>> \o refusal,
                        ToUsers(users, uid[s], <<Packet("CreateGame", id, roomId)>>))
           /\ thrown' = "none"
           /\ UNCHANGED <<users, rooms, uid, gone>>
  <2>1. /\ id \in Ids \ {0}
        /\ id \notin LiveIds
        /\ nextId' \in Ids /\ nextId' >= K_START
        /\ recycledIds' \in Seq(Ids)
        /\ IsInjective(recycledIds')
        /\ FreeIds' = FreeIds \ {id}
        /\ id \in K_START .. nextId' - 1
        /\ K_START .. nextId - 1 \subseteq K_START .. nextId' - 1
    BY <1>1, <1>8, DrawnIdIsNew
  <2>2. roomId \in DOMAIN rooms \cup {0}
    BY <1>1, <1>2 DEF DbInv, RoomRefsLive, UserOf
  <2> HIDE DEF id, refusal, roomId
  <2>3. /\ DOMAIN games' = DOMAIN games \cup {id}
        /\ games'[id] = [name |-> UserOf(s).name, room |-> roomId]
        /\ \A g \in DOMAIN games : g # id /\ games'[g] = games[g]
    BY <1>8, <2>1 DEF Add, LiveIds
  <2>4. DbTypeOK'
    <3>1. games' \in [DOMAIN games' -> Game]
      BY <1>1, <1>2, <1>8, <2>3 DEF Add, DbInv, DbTypeOK, Game
    <3>2. DOMAIN games' \subseteq Ids
      BY <1>1, <2>1, <2>3 DEF DbInv, DbTypeOK
    <3> QED
      BY <1>1, <1>8, <2>1, <3>1, <3>2 DEF DbInv, DbTypeOK
  <2>5. LiveIds' = LiveIds \cup {id}
    BY <1>8, <2>3 DEF LiveIds
  <2>6. IdsUnique'
    BY <1>1, <1>8, <2>1, <2>3, <2>5 DEF DbInv, IdsUnique, LiveIds
  <2>7. SessionsMatch' /\ NamesUnique'
    BY <1>1, <1>8 DEF DbInv, SessionsMatch, NamesUnique
  <2>8. RoomRefsLive'
    BY <1>1, <1>8, <2>2, <2>3 DEF DbInv, RoomRefsLive
  <2>9. sent' \in [Sessions -> Seq(PacketType)]
    <3>1. /\ <<Packet("CreateGameReply", id, 0)>> \in Seq(PacketType)
          /\ <<Packet("CreateGame", id, roomId)>> \in Seq(PacketType)
      BY <1>2, <2>1, PacketTyped DEF PacketCodes
    <3>2. ToUsers(users, uid[s], <<Packet("CreateGame", id, roomId)>>)
            \in [Sessions -> Seq(PacketType)]
      BY <3>1, ToUsersTyped
    <3>3. <<Packet("CreateGameReply", id, 0)>> \o refusal \in Seq(PacketType)
      BY <1>6, <3>1
    <3> QED
      BY <1>8, <3>2, <3>3, WithReplyTyped
  <2> QED
    BY <1>1, <1>8, <2>1, <2>4, <2>6, <2>7, <2>8, <2>9 DEF StepInv, DbInv, Exceptions
<1>9. {"BadAddress", "NotConnected"} \subseteq Exceptions
  BY DEF Exceptions
<1> QED
  BY <1>3, <1>4, <1>5, <1>7, <1>8, <1>9 DEF OnCreateGame

(* Every packet handler keeps the invariant. *)
LEMMA HandleKeeps ==
  ASSUME StepInv, NEW s \in Sessions, Handle(s)
  PROVE  StepInv'
<1>1. \A ids \in ClaimsWith(s) : ids[2] \in Opt
  BY DEF ClaimsWith, Opt
<1>2. CASE \E ids \in ClaimsWith(s), kind \in {"GRP", "PRV", "other", "absent"} :
             OnChatRoom(s, ids[1], ids[2], kind)
  BY <1>1, <1>2, OnChatRoomKeeps
<1>3. CASE \E ids \in ClaimsWith(s) : OnJoin(s, ids[2], ids[1])
  BY <1>1, <1>3, OnJoinKeeps
<1>4. CASE \E ids \in ClaimsWith(s) : OnLeave(s, ids[2], ids[1])
  BY <1>4, OnLeaveKeeps
<1> QED
  BY <1>2, <1>3, <1>4, OnListKeeps, OnCreateRoomKeeps, OnCloseKeeps,
     OnCreateGameKeeps, OnConnectGameKeeps DEF Handle

(* Every step of a session keeps the invariant. *)
LEMMA StepKeeps ==
  ASSUME StepInv, Step
  PROVE  StepInv'
BY LoginRefusedKeeps, LoginKeeps, SessionEndsKeeps, PeerResetKeeps, HandleKeeps DEF Step

(* The room lists stay sets of ids because the packets name ids. *)
LEMMA ObserveTyped ==
  ASSUME known \in [Sessions -> SUBSET Ids],
         sent' \in [Sessions -> Seq(PacketType)],
         Observe
  PROVE  listed' \subseteq Sessions /\ known' \in [Sessions -> SUBSET Ids]
<1>1. listed' \subseteq Sessions
  BY DEF Observe
<1>2. ASSUME NEW t \in Sessions, NEW codes PROVE IdsIn(sent'[t], codes) \subseteq Ids
  <2>1. \A p \in Range(sent'[t]) : p \in PacketType
    BY LenProperties DEF Range
  <2> QED
    BY <2>1 DEF IdsIn, PacketsOf, PacketType
<1>3. known' \in [Sessions -> SUBSET Ids]
  <2> DEFINE added(t)   == IdsIn(sent'[t], {"RoomItem", "CreateRoom", "CreateRoomReply"})
             removed(t) == {0} \cup IdsIn(sent'[t], {"Close"})
             kept(t)    == IF PacketsOf(sent'[t], {"RoomItem"}) # {} THEN {} ELSE known[t]
  <2>1. known' = [t \in Sessions |-> IF t \notin listed' THEN {}
                                     ELSE (kept(t) \cup added(t)) \ removed(t)]
    BY DEF Observe
  <2>2. \A t \in Sessions : added(t) \subseteq Ids /\ kept(t) \subseteq Ids
    BY <1>2
  <2> HIDE DEF added, removed, kept
  <2> QED
    BY <2>1, <2>2
<1> QED
  BY <1>1, <1>3

-----------------------------------------------------------------------------
(* The theorems. *)

(* The empty lobby satisfies the inductive invariant. *)
LEMMA InitIInv == Init => IInv
<1> SUFFICES ASSUME Init PROVE IInv
  OBVIOUS
<1>1. /\ DOMAIN users = {} /\ DOMAIN rooms = {} /\ DOMAIN games = {}
      /\ recycledIds = <<>> /\ nextId = K_START
      /\ uid = [s \in Sessions |-> 0]
  BY DEF Init, DbInit, EmptyTable
<1>2. DbTypeOK
  BY <1>1, IdAssumption DEF Init, DbInit, EmptyTable, DbTypeOK, Ids
<1>3. FreeIds = {} /\ LiveIds = {} /\ IsInjective(recycledIds)
  BY <1>1 DEF FreeIds, LiveIds, Range, IsInjective
<1>4. IdsUnique
  BY <1>1, <1>3 DEF IdsUnique
<1>5. SessionsMatch
  BY <1>1 DEF SessionsMatch
<1>6. RoomRefsLive /\ NamesUnique
  BY <1>1 DEF RoomRefsLive, NamesUnique
<1>7. TypeOK
  BY <1>1, <1>2, NoPacketsTyped, ZeroIsId DEF Init, TypeOK, Exceptions
<1> QED
  BY <1>1, <1>4, <1>5, <1>6, <1>7, IdAssumption DEF IInv

(* Every step preserves the inductive invariant. *)
LEMMA NextIInv == IInv /\ [Next]_vars => IInv'
<1> SUFFICES ASSUME IInv, [Next]_vars PROVE IInv'
  OBVIOUS
<1>1. StepInv
  BY DEF IInv, TypeOK, StepInv, DbInv
<1>2. CASE Next
  <2>1. StepInv'
    BY <1>1, <1>2, StepKeeps DEF Next
  <2>2. listed' \subseteq Sessions /\ known' \in [Sessions -> SUBSET Ids]
    BY <1>2, <2>1, ObserveTyped DEF Next, IInv, TypeOK, StepInv
  <2> QED
    BY <2>1, <2>2 DEF IInv, TypeOK, StepInv, DbInv
<1>3. CASE UNCHANGED vars
  <2>1. DbInv'
    BY <1>1, <1>3, DbUnchanged DEF StepInv, vars, dbVars
  <2> QED
    BY <1>3, <2>1 DEF IInv, TypeOK, DbInv, vars
<1> QED
  BY <1>2, <1>3

(* The inductive invariant holds in every state of every lobby. *)
THEOREM Invariance == Spec => []IInv
BY InitIInv, NextIInv, PTL DEF Spec

(* Every handler leaves every table, queue and packet of its type. *)
THEOREM TypeCorrect == Spec => []TypeOK
<1>1. IInv => TypeOK
  BY DEF IInv
<1> QED
  BY <1>1, Invariance, PTL

(* getNextId never hands out an id that is in a table, whatever sequence   *)
(* of logins, rooms, games and disconnections came before.                 *)
THEOREM IdsAreUnique == Spec => []IdsUnique
<1>1. IInv => IdsUnique
  BY DEF IInv
<1> QED
  BY <1>1, Invariance, PTL

(* The users table and the logged-in sessions correspond one to one. *)
THEOREM SessionsMatchUsers == Spec => []SessionsMatch
<1>1. IInv => SessionsMatch
  BY DEF IInv
<1> QED
  BY <1>1, Invariance, PTL

(* LeaveRoom never closes a room that a user or a game is still in. *)
THEOREM RoomReferencesAreLive == Spec => []RoomRefsLive
<1>1. IInv => RoomRefsLive
  BY DEF IInv
<1> QED
  BY <1>1, Invariance, PTL

(* No two users and no two rooms share a name up to case. *)
THEOREM NamesAreUnique == Spec => []NamesUnique
<1>1. IInv => NamesUnique
  BY DEF IInv
<1> QED
  BY <1>1, Invariance, PTL

=============================================================================
