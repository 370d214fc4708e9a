-------------------------- MODULE LobbyStepProofs ---------------------------
(***************************************************************************)
(* Proofs about the steps of module Lobby: what they do to the pool of     *)
(* ids, and that what they send keeps the clients' room lists right.  The  *)
(* invariants of module LobbyProofs hold in every state and are used here. *)
(***************************************************************************)
EXTENDS LobbyProofs

-----------------------------------------------------------------------------
(* 0 names nothing: ids start at K_START. *)
LEMMA ZeroNamesNothing == DbInv => 0 \notin LiveIds
BY IdAssumption DEF DbInv, DbTypeOK, IdsUnique, Ids

(* What DisconnectUser does, seen from the ids it removes. *)
Disconnects(s, game, roomId, hosted, closed) ==
  LET leftId == IF hosted THEN game ELSE uid[s] IN
  /\ hosted <=> game \in DOMAIN games
  /\ closed => roomId \in DOMAIN rooms
  /\ DOMAIN users' = DOMAIN users \ {uid[s]}
  /\ DOMAIN games' = DOMAIN games \ {game}
  /\ DOMAIN rooms' = DOMAIN rooms \ (IF closed THEN {roomId} ELSE {})
  /\ Recycle(<<uid[s]>> \o (IF hosted THEN <<game>> ELSE <<>>)
                        \o (IF closed THEN <<roomId>> ELSE <<>>))
  /\ uid' = [uid EXCEPT ![s] = 0]
  /\ sent' = [t \in Sessions |->
       IF uid[t] \notin DOMAIN users \ {uid[s]} THEN <<>>
       ELSE (IF hosted
             THEN <<Packet("Leave", uid[s], game), Packet("Close", game, 0)>>
             ELSE <<>>)
            \o (IF uid[t] = leftId THEN <<>>
                ELSE LeavePackets(roomId, leftId, closed))
            \o <<Packet("DisconnectUser", uid[s], 0)>>]

(* There is a game to close or there is none, and a room or none. *)
LEMMA Disconnection ==
  ASSUME DbInv, NEW s \in Sessions, uid[s] # 0, DisconnectUser(s)
  PROVE  \E game \in Ids, roomId \in Ids, hosted \in BOOLEAN, closed \in BOOLEAN :
           Disconnects(s, game, roomId, hosted, closed)
<1> DEFINE named == GamesNamed(UserOf(s).name)
           id    == uid[s]
<1>1. PICK game \in IF named = {} THEN {0} ELSE named :
        LET hosted    == game # 0
            roomId    == IF hosted THEN games[game].room ELSE UserOf(s).room
            leftId    == IF hosted THEN game ELSE id
            usersLeft == Erase(users, id)
            gamesLeft == Erase(games, game)
            closed    == RoomClosed(usersLeft, gamesLeft, roomId, leftId)
            gamePkts  == IF hosted
                         THEN <<Packet("Leave", id, game), Packet("Close", game, 0)>>
                         ELSE <<>>
        IN  /\ users' = usersLeft
            /\ games' = gamesLeft
            /\ rooms' = IF closed THEN Erase(rooms, roomId) ELSE rooms
            /\ Recycle(<<id>> \o (IF hosted THEN <<game>> ELSE <<>>)
                              \o (IF closed THEN <<roomId>> ELSE <<>>))
            /\ uid' = [uid EXCEPT ![s] = 0]
            /\ gone' = gone \ {s}
            /\ sent' = [t \in Sessions |->
                          IF uid[t] \notin DOMAIN usersLeft THEN <<>>
                          ELSE gamePkts
                               \o (IF uid[t] = leftId THEN <<>>
                                   ELSE LeavePackets(roomId, leftId, closed))
                               \o <<Packet("DisconnectUser", id, 0)>>]
  BY DEF DisconnectUser
<1> DEFINE hosted    == game # 0
           roomId    == IF hosted THEN games[game].room ELSE UserOf(s).room
           leftId    == IF hosted THEN game ELSE id
           closed    == RoomClosed(Erase(users, id), Erase(games, game), roomId, leftId)
           gamePkts  == IF hosted
                        THEN <<Packet("Leave", id, game), Packet("Close", game, 0)>>
                        ELSE <<>>
<1>2. /\ users' = Erase(users, id)
      /\ games' = Erase(games, game)
      /\ rooms' = IF closed THEN Erase(rooms, roomId) ELSE rooms
      /\ Recycle(<<id>> \o (IF hosted THEN <<game>> ELSE <<>>)
                        \o (IF closed THEN <<roomId>> ELSE <<>>))
      /\ uid' = [uid EXCEPT ![s] = 0]
      /\ sent' = [t \in Sessions |->
                    IF uid[t] \notin DOMAIN Erase(users, id) THEN <<>>
                    ELSE gamePkts
                         \o (IF uid[t] = leftId THEN <<>>
                             ELSE LeavePackets(roomId, leftId, closed))
                         \o <<Packet("DisconnectUser", id, 0)>>]
  BY <1>1
<1>3. 0 \notin LiveIds
  BY ZeroNamesNothing
<1>4. /\ hosted <=> game \in DOMAIN games
      /\ game \in Ids
      /\ hosted => games[game].room \in Ids
  BY <1>3, ZeroIsId DEF GamesNamed, DbInv, DbTypeOK, LiveIds, Game
<1>5. /\ closed \in BOOLEAN /\ hosted \in BOOLEAN
      /\ closed => roomId \in DOMAIN rooms
  BY DEF RoomClosed
<1>6. roomId \in Ids
  <2>1. UserOf(s).room \in Ids
    BY LoggedIn
  <2> QED
    BY <1>4, <2>1
<1>7. /\ DOMAIN Erase(users, id) = DOMAIN users \ {id}
      /\ DOMAIN Erase(games, game) = DOMAIN games \ {game}
      /\ DOMAIN Erase(rooms, roomId) = DOMAIN rooms \ {roomId}
  BY DEF Erase, Restrict
<1> HIDE DEF closed, hosted, roomId, gamePkts
<1>8. DOMAIN rooms' = DOMAIN rooms \ (IF closed THEN {roomId} ELSE {})
  BY <1>2, <1>5, <1>7
<1> QED
  <2> USE <1>4, <1>5, <1>6
  <2> WITNESS game \in Ids, roomId \in Ids, hosted \in BOOLEAN, closed \in BOOLEAN
  <2> QED
    BY <1>2, <1>4, <1>5, <1>7, <1>8 DEF gamePkts, Disconnects

-----------------------------------------------------------------------------
(* The pool of ids. *)

(* No id is lost but to the exception of getAddress. *)
Conserved == thrown' # "NotConnected" => LostIds' = LostIds

(* An id that is drawn and put in a table is not lost. *)
LEMMA DrawConserves ==
  ASSUME DbInv, IdsLeft, TakeNextId, LiveIds' = LiveIds \cup {GetNextId}
  PROVE  LostIds' = LostIds
<1>1. /\ nextId \in Nat /\ nextId >= K_START /\ K_START \in Nat
      /\ FreeIds \cup LiveIds \subseteq K_START .. nextId - 1
  BY IdAssumption DEF DbInv, DbTypeOK, IdsUnique, Ids
<1>2. FreeIds' = FreeIds \ {GetNextId}
  BY DrawnIdIsNew
<1>3. CASE recycledIds # <<>>
  <2>1. nextId' = nextId /\ GetNextId \in FreeIds
    BY <1>3, TailOfInjective
    DEF TakeNextId, GetNextId, FreeIds, DbInv, DbTypeOK, IdsUnique
  <2> QED
    BY <1>2, <2>1 DEF LostIds
<1>4. CASE recycledIds = <<>>
  <2>1. GetNextId = nextId /\ nextId' = nextId + 1
    BY <1>1, <1>4, IdAssumption DEF TakeNextId, GetNextId, IdsLeft
  <2>2. K_START .. nextId' - 1 = (K_START .. nextId - 1) \cup {nextId}
    BY <1>1, <2>1
  <2>3. nextId \notin K_START .. nextId - 1
    BY <1>1
  <2> QED
    BY <1>1, <1>2, <2>1, <2>2, <2>3 DEF LostIds
<1> QED
  BY <1>3, <1>4

(* Ids that leave the tables are in the queue afterwards. *)
LEMMA ReturnConserves ==
  ASSUME DbInv, NEW ids \in Seq(Ids), Recycle(ids),
         Range(ids) \subseteq LiveIds, LiveIds' = LiveIds \ Range(ids)
  PROVE  LostIds' = LostIds
<1>1. recycledIds \in Seq(Ids)
  BY DEF DbInv, DbTypeOK
<1>2. FreeIds' = FreeIds \cup Range(ids) /\ nextId' = nextId
  BY <1>1, RangeConcatenation DEF Recycle, FreeIds
<1> QED
  BY <1>2 DEF LostIds

(* A step that leaves the tables alone loses nothing. *)
LEMMA IdleConserves ==
  ASSUME UNCHANGED <<nextId, recycledIds>>, DOMAIN users' = DOMAIN users,
         DOMAIN rooms' = DOMAIN rooms, DOMAIN games' = DOMAIN games
  PROVE  LostIds' = LostIds
BY DEF LostIds, FreeIds, LiveIds

(* The ids of the user, its game and its room are recycled. *)
LEMMA DisconnectConserves ==
  ASSUME DbInv, NEW s \in Sessions, uid[s] # 0, DisconnectUser(s)
  PROVE  LostIds' = LostIds
<1>1. PICK game \in Ids, roomId \in Ids, hosted \in BOOLEAN, closed \in BOOLEAN :
        Disconnects(s, game, roomId, hosted, closed)
  BY Disconnection
<1> DEFINE ofUser == <<uid[s]>>
           ofGame == IF hosted THEN <<game>> ELSE <<>>
           ofRoom == IF closed THEN <<roomId>> ELSE <<>>
           front  == ofUser \o ofGame
           freed  == front \o ofRoom
<1>2. uid[s] \in DOMAIN users /\ uid[s] \in Ids
  BY LoggedIn
<1>3. ofUser \in Seq(Ids) /\ Range(ofUser) = {uid[s]}
  BY <1>2 DEF Range
<1>4. ofGame \in Seq(Ids) /\ Range(ofGame) = IF hosted THEN {game} ELSE {}
  BY AtMostOne
<1>5. ofRoom \in Seq(Ids) /\ Range(ofRoom) = IF closed THEN {roomId} ELSE {}
  BY AtMostOne
<1>6. Recycle(freed)
  BY <1>1 DEF Disconnects
<1> HIDE DEF ofUser, ofGame, ofRoom
<1>7. front \in Seq(Ids) /\ Range(front) = Range(ofUser) \cup Range(ofGame)
  BY <1>3, <1>4, ConcatProperties, RangeConcatenation
<1> HIDE DEF front
<1>8. freed \in Seq(Ids) /\ Range(freed) = Range(front) \cup Range(ofRoom)
  BY <1>5, <1>7, ConcatProperties, RangeConcatenation
<1> HIDE DEF freed
<1>9. Range(freed) = {uid[s]} \cup (IF hosted THEN {game} ELSE {})
                              \cup (IF closed THEN {roomId} ELSE {})
  BY <1>3, <1>4, <1>5, <1>7, <1>8
<1>10. Range(freed) \subseteq LiveIds /\ LiveIds' = LiveIds \ Range(freed)
  BY <1>1, <1>2, <1>9 DEF Disconnects, LiveIds, DbInv, IdsUnique
<1> QED
  BY <1>6, <1>8, <1>10, ReturnConserves

(* handleLogin puts the id it draws in the users table. *)
LEMMA LoginConserves ==
  ASSUME DbInv, NEW s \in Sessions, NEW name, Login(s, name)
  PROVE  Conserved
<1>1. IdsLeft /\ TakeNextId /\ UNCHANGED <<rooms, games>>
  BY DEF Login
<1>2. DOMAIN users' = DOMAIN users \cup {GetNextId}
  BY DEF Login, Add
<1>3. LiveIds' = LiveIds \cup {GetNextId}
  BY <1>1, <1>2 DEF LiveIds
<1> QED
  BY <1>1, <1>3, DrawConserves DEF Conserved

(* A room takes the id drawn for it, unless the exception comes between. *)
LEMMA OnCreateRoomConserves ==
  ASSUME DbInv, NEW s \in Sessions, NEW fixedOk, NEW name,
         OnCreateRoom(s, fixedOk, name)
  PROVE  Conserved
<1>1. CASE Rejected(s)
  BY <1>1, DisconnectConserves DEF Rejected, OnCreateRoom, Conserved
<1>2. CASE Answers(s, <<Packet("CreateRoomReply", 0, 1)>>)
  BY <1>2, IdleConserves DEF Answers, dbVars, Conserved
<1>3. CASE Threw("NotConnected")
  BY <1>3 DEF Threw, Conserved
<1>4. CASE /\ IdsLeft
           /\ TakeNextId
           /\ rooms' = Add(rooms, GetNextId, [name |-> name])
           /\ UNCHANGED <<users, games>>
  <2>1. DOMAIN rooms' = DOMAIN rooms \cup {GetNextId}
    BY <1>4 DEF Add
  <2>2. LiveIds' = LiveIds \cup {GetNextId}
    BY <1>4, <2>1 DEF LiveIds
  <2> QED
    BY <1>4, <2>2, DrawConserves DEF Conserved
<1> QED
  BY <1>1, <1>2, <1>3, <1>4 DEF OnCreateRoom

(* Joining moves a user and no id. *)
LEMMA OnJoinConserves ==
  ASSUME DbInv, NEW s \in Sessions, NEW value2, NEW value10, OnJoin(s, value2, value10)
  PROVE  Conserved
<1>1. CASE Rejected(s)
  BY <1>1, DisconnectConserves DEF Rejected, OnJoin, Conserved
<1>2. CASE Answers(s, <<Packet("JoinReply", 0, 1)>>) \/ UNCHANGED dbVars
  BY <1>2, IdleConserves DEF Answers, dbVars, Conserved
<1>3. CASE /\ users' = [users EXCEPT ![uid[s]].room = value2]
           /\ UNCHANGED <<nextId, recycledIds, rooms, games>>
  <2>1. DOMAIN users' = DOMAIN users
    BY <1>3
  <2> QED
    BY <1>3, <2>1, IdleConserves DEF Conserved
<1> QED
  BY <1>1, <1>2, <1>3 DEF OnJoin

(* The id of a room that is closed is recycled. *)
LEMMA OnLeaveConserves ==
  ASSUME DbInv, NEW s \in Sessions, NEW value2, NEW value10, OnLeave(s, value2, value10)
  PROVE  Conserved
<1> DEFINE roomId == UserOf(s).room
           closed == RoomClosed(users, games, roomId, uid[s])
           freed  == IF closed THEN <<roomId>> ELSE <<>>
<1>1. CASE Rejected(s)
  BY <1>1, DisconnectConserves DEF Rejected, OnLeave, Conserved
<1>2. CASE Answers(s, <<Packet("LeaveReply", 0, 1)>>)
  BY <1>2, IdleConserves DEF Answers, dbVars, Conserved
<1>3. CASE /\ rooms' = IF closed THEN Erase(rooms, roomId) ELSE rooms
           /\ Recycle(freed)
           /\ users' = [users EXCEPT ![uid[s]].room = 0]
           /\ UNCHANGED games
  <2>1. closed \in BOOLEAN /\ (closed => roomId \in DOMAIN rooms)
    BY DEF RoomClosed
  <2>2. roomId \in Ids
    BY LoggedIn DEF OnLeave
  <2>3. DOMAIN Erase(rooms, roomId) = DOMAIN rooms \ {roomId}
    BY DEF Erase, Restrict
  <2> HIDE DEF closed, roomId
  <2>4. freed \in Seq(Ids) /\ Range(freed) = IF closed THEN {roomId} ELSE {}
    BY <2>1, <2>2, AtMostOne
  <2> HIDE DEF freed
  <2>5. DOMAIN users' = DOMAIN users /\ DOMAIN rooms' = DOMAIN rooms \ Range(freed)
    BY <1>3, <2>1, <2>3, <2>4
  <2>6. Range(freed) \subseteq LiveIds /\ LiveIds' = LiveIds \ Range(freed)
    BY <1>3, <2>1, <2>4, <2>5 DEF LiveIds, DbInv, IdsUnique
  <2> QED
    BY <1>3, <2>4, <2>6, ReturnConserves DEF Conserved
<1> QED
  BY <1>1, <1>2, <1>3 DEF OnLeave

(* A game takes the id drawn for it, unless the exception comes between. *)
LEMMA OnCreateGameConserves ==
  ASSUME DbInv, NEW s \in Sessions, NEW fixedOk, NEW value2, NEW address,
         OnCreateGame(s, fixedOk, value2, address)
  PROVE  Conserved
<1>1. CASE Rejected(s)
  BY <1>1, DisconnectConserves DEF Rejected, OnCreateGame, Conserved
<1>2. CASE \E pkts : Answers(s, pkts)
  BY <1>2, IdleConserves DEF Answers, dbVars, Conserved
<1>3. CASE thrown' = "NotConnected"
  BY <1>3 DEF Conserved
<1>4. CASE Threw("BadAddress") /\ UNCHANGED <<nextId, recycledIds>>
  BY <1>4, IdleConserves DEF Threw, Conserved
<1>5. CASE /\ IdsLeft
           /\ TakeNextId
           /\ games' = Add(games, GetNextId,
                           [name |-> UserOf(s).name, room |-> UserOf(s).room])
           /\ UNCHANGED <<users, rooms>>
  <2>1. DOMAIN games' = DOMAIN games \cup {GetNextId}
    BY <1>5 DEF Add
  <2>2. LiveIds' = LiveIds \cup {GetNextId}
    BY <1>5, <2>1 DEF LiveIds
  <2> QED
    BY <1>5, <2>2, DrawConserves DEF Conserved
<1> QED
  BY <1>1, <1>2, <1>3, <1>4, <1>5 DEF OnCreateGame, Threw

(* The handlers that change no table. *)
LEMMA OthersConserve ==
  ASSUME DbInv, NEW s \in Sessions, NEW x, NEW y, NEW kind,
         \/ OnChatRoom(s, x, y, kind) \/ OnListRooms(s, x)
         \/ OnListUsers(s, x, y) \/ OnListGames(s, x, y)
         \/ OnClose(s, x) \/ OnConnectGame(s, x)
  PROVE  Conserved
<1>1. CASE Rejected(s) /\ uid[s] # 0
  BY <1>1, DisconnectConserves DEF Rejected, Conserved
<1>2. CASE UNCHANGED dbVars
  BY <1>2, IdleConserves DEF dbVars, Conserved
<1> QED
  BY <1>1, <1>2
  DEF OnChatRoom, OnListRooms, OnListUsers, OnListGames, OnClose, OnConnectGame, Answers

(* No step but the two that throw loses an id. *)
LEMMA StepConserves ==
  ASSUME DbInv, Step
  PROVE  Conserved
<1>1. ASSUME NEW s \in Sessions, NEW name, LoginRefused(s, name) \/ PeerReset(s)
      PROVE  Conserved
  BY <1>1, IdleConserves DEF LoginRefused, PeerReset, dbVars, Conserved
<1>2. ASSUME NEW s \in Sessions, SessionEnds(s)
      PROVE  Conserved
  BY <1>2, DisconnectConserves DEF SessionEnds, Conserved
<1>3. ASSUME NEW s \in Sessions, Handle(s)
      PROVE  Conserved
  BY <1>3, OthersConserve, OnCreateRoomConserves, OnJoinConserves, OnLeaveConserves,
     OnCreateGameConserves DEF Handle
<1> QED
  BY <1>1, <1>2, <1>3, LoginConserves DEF Step

(* An id that getNextId drew is in a table or in the queue for ever after: *)
(* only getAddress, throwing between the draw and the table, loses one.    *)
THEOREM IdsAreConserved == Spec => IdsConserved
<1>1. IInv /\ [Next]_vars => [thrown' # "NotConnected" => LostIds' = LostIds]_vars
  <2> SUFFICES ASSUME IInv, Next PROVE Conserved
    BY DEF Conserved
  <2>1. DbInv
    BY DEF IInv, TypeOK, DbInv
  <2> QED
    BY <2>1, StepConserves DEF Next
<1> QED
  BY <1>1, Invariance, PTL DEF Spec, IdsConserved

-----------------------------------------------------------------------------
(* What the packets of a step tell a client about the rooms. *)

Opened(pkts) == IdsIn(pkts, {"RoomItem", "CreateRoom", "CreateRoomReply"})
Closed(pkts) == {0} \cup IdsIn(pkts, {"Close"})
IsListing(pkts) == PacketsOf(pkts, {"RoomItem"}) # {}

(* A client that knew the open rooms knows them again after these packets. *)
Tells(pkts) ==
  DOMAIN rooms' =
    ((IF IsListing(pkts) THEN {} ELSE DOMAIN rooms) \cup Opened(pkts)) \ Closed(pkts)

(* The packets say nothing about rooms. *)
Quiet(pkts) ==
  PacketsOf(pkts, {"RoomItem", "CreateRoom", "CreateRoomReply", "Close"}) = {}

(* The step tells every session that stays, and lists nothing for one that *)
(* logs in; a client that left a room is to list the rooms again.          *)
EveryoneTold ==
  \A t \in Sessions :
    uid'[t] # 0 /\ ~ LeftARoom(sent'[t])
      => IF uid[t] # 0 THEN Tells(sent'[t]) ELSE ~ IsListing(sent'[t])

(* The packets of short sequences. *)
LEMMA PacketsOfShort ==
  ASSUME NEW codes
  PROVE  /\ PacketsOf(<<>>, codes) = {}
         /\ \A p : PacketsOf(<<p>>, codes) = IF p.code \in codes THEN {p} ELSE {}
<1>1. Range(<<>>) = {}
  BY EmptySeq, LenProperties DEF Range
<1>2. \A p : Range(<<p>>) = {p}
  BY DEF Range
<1> QED
  BY <1>1, <1>2 DEF PacketsOf

(* The packets of a pair are those of the one and of the other. *)
LEMMA PacketsOfPair ==
  ASSUME NEW codes, NEW p, NEW q
  PROVE  /\ PacketsOf(<<p, q>>, codes) = PacketsOf(<<p>>, codes) \cup PacketsOf(<<q>>, codes)
         /\ IdsIn(<<p, q>>, codes) = IdsIn(<<p>>, codes) \cup IdsIn(<<q>>, codes)
<1>1. Range(<<p>>) = {p} /\ Range(<<q>>) = {q} /\ Range(<<p, q>>) = {p, q}
  <2>1. \A x : Range(<<x>>) = {x}
    BY DEF Range
  <2>2. Range(<<p, q>>) = {p, q}
    BY DEF Range
  <2> QED
    BY <2>1, <2>2
<1>2. PacketsOf(<<p, q>>, codes) = PacketsOf(<<p>>, codes) \cup PacketsOf(<<q>>, codes)
  BY <1>1 DEF PacketsOf
<1> QED
  BY <1>2 DEF IdsIn

(* Packets sent one after the other are the packets of both. *)
LEMMA PacketsOfConcat ==
  ASSUME NEW S, NEW a \in Seq(S), NEW b \in Seq(S), NEW codes
  PROVE  /\ PacketsOf(a \o b, codes) = PacketsOf(a, codes) \cup PacketsOf(b, codes)
         /\ IdsIn(a \o b, codes) = IdsIn(a, codes) \cup IdsIn(b, codes)
<1>1. PacketsOf(a \o b, codes) = PacketsOf(a, codes) \cup PacketsOf(b, codes)
  BY RangeConcatenation DEF PacketsOf
<1> QED
  BY <1>1 DEF IdsIn

(* The ids of short sequences. *)
LEMMA IdsInShort ==
  ASSUME NEW codes
  PROVE  /\ IdsIn(<<>>, codes) = {}
         /\ \A p : IdsIn(<<p>>, codes) = IF p.code \in codes THEN p.ids ELSE {}
BY PacketsOfShort DEF IdsIn

(* Sending nothing, or one packet that is about no room, is quiet. *)
LEMMA QuietShort ==
  /\ Quiet(<<>>)
  /\ \A p : p.code \notin {"RoomItem", "CreateRoom", "CreateRoomReply", "Close"}
               => Quiet(<<p>>)
BY PacketsOfShort DEF Quiet

(* One quiet sequence after another is quiet. *)
LEMMA QuietConcat ==
  ASSUME NEW S, NEW a \in Seq(S), NEW b \in Seq(S), Quiet(a), Quiet(b)
  PROVE  Quiet(a \o b)
BY PacketsOfConcat DEF Quiet

(* Two quiet packets. *)
LEMMA QuietPair ==
  ASSUME NEW p, NEW q, Quiet(<<p>>), Quiet(<<q>>)
  PROVE  Quiet(<<p, q>>)
<1> DEFINE codes == {"RoomItem", "CreateRoom", "CreateRoomReply", "Close"}
<1> HIDE DEF codes
<1>1. PacketsOf(<<p, q>>, codes) = PacketsOf(<<p>>, codes) \cup PacketsOf(<<q>>, codes)
  BY PacketsOfPair
<1> QED
  BY <1>1 DEF Quiet, codes

(* Quiet packets are right when no room opens or closes. *)
LEMMA QuietTells ==
  ASSUME DbInv, DOMAIN rooms' = DOMAIN rooms, NEW pkts, Quiet(pkts)
  PROVE  Tells(pkts) /\ ~ IsListing(pkts)
<1>1. PacketsOf(pkts, {"RoomItem"}) = {}
  BY DEF Quiet, PacketsOf
<1>2. Opened(pkts) = {}
  BY DEF Quiet, PacketsOf, Opened, IdsIn
<1>3. Closed(pkts) = {0}
  BY DEF Quiet, PacketsOf, Closed, IdsIn
<1>4. 0 \notin DOMAIN rooms
  BY ZeroNamesNothing DEF LiveIds
<1> QED
  BY <1>1, <1>2, <1>3, <1>4 DEF Tells, IsListing

(* A step that opens and closes no room and sends nothing about one. *)
LEMMA QuietStep ==
  ASSUME DbInv, DOMAIN rooms' = DOMAIN rooms, \A t \in Sessions : Quiet(sent'[t])
  PROVE  EveryoneTold
BY QuietTells DEF EveryoneTold

(* A quiet answer. *)
LEMMA QuietAnswer ==
  ASSUME DbInv, NEW s \in Sessions, NEW pkts, Quiet(pkts), Answers(s, pkts)
  PROVE  EveryoneTold
<1>1. \A t \in Sessions : sent'[t] = IF t = s THEN pkts ELSE <<>>
  BY DEF Answers, ReplyOnly, WithReply, NoPackets
<1> QED
  BY <1>1, QuietShort, QuietStep DEF Answers, dbVars

(* A quiet reply to one session and quiet packets to others. *)
LEMMA QuietBroadcast ==
  ASSUME DbInv, DOMAIN rooms' = DOMAIN rooms, NEW s \in Sessions,
         NEW reply, Quiet(reply), NEW pkts, Quiet(pkts), NEW table, NEW except,
         sent' = WithReply(s, reply, ToUsers(table, except, pkts))
  PROVE  EveryoneTold
<1>1. \A t \in Sessions : sent'[t] \in {reply, pkts, <<>>}
  BY DEF WithReply, ToUsers
<1> QED
  BY <1>1, QuietShort, QuietStep

(* Sending nothing. *)
LEMMA SilentStep ==
  ASSUME DbInv, DOMAIN rooms' = DOMAIN rooms, sent' = NoPackets
  PROVE  EveryoneTold
BY QuietShort, QuietStep DEF NoPackets

-----------------------------------------------------------------------------
(* Closing rooms. *)

(* The packets open no room. *)
NothingOpens(pkts) == ~ IsListing(pkts) /\ Opened(pkts) = {}

(* Sequences that open nothing, one after the other. *)
LEMMA OpensConcat ==
  ASSUME NEW S, NEW a \in Seq(S), NEW b \in Seq(S), NothingOpens(a), NothingOpens(b)
  PROVE  /\ NothingOpens(a \o b)
         /\ IdsIn(a \o b, {"Close"}) = IdsIn(a, {"Close"}) \cup IdsIn(b, {"Close"})
BY PacketsOfConcat DEF NothingOpens, IsListing, Opened

(* One packet that opens nothing. *)
LEMMA OpensShort ==
  /\ NothingOpens(<<>>) /\ IdsIn(<<>>, {"Close"}) = {}
  /\ \A p : p.code \notin {"RoomItem", "CreateRoom", "CreateRoomReply"}
            => /\ NothingOpens(<<p>>)
               /\ IdsIn(<<p>>, {"Close"}) = IF p.code = "Close" THEN p.ids ELSE {}
BY PacketsOfShort, IdsInShort DEF NothingOpens, IsListing, Opened

(* Two packets that open nothing. *)
LEMMA OpensPair ==
  ASSUME NEW p, NEW q, NothingOpens(<<p>>), NothingOpens(<<q>>)
  PROVE  /\ NothingOpens(<<p, q>>)
         /\ IdsIn(<<p, q>>, {"Close"}) = IdsIn(<<p>>, {"Close"}) \cup IdsIn(<<q>>, {"Close"})
<1>1. IdsIn(<<p, q>>, {"Close"}) = IdsIn(<<p>>, {"Close"}) \cup IdsIn(<<q>>, {"Close"})
  BY PacketsOfPair
<1>2. PacketsOf(<<p, q>>, {"RoomItem"})
        = PacketsOf(<<p>>, {"RoomItem"}) \cup PacketsOf(<<q>>, {"RoomItem"})
  BY PacketsOfPair
<1> DEFINE opening == {"RoomItem", "CreateRoom", "CreateRoomReply"}
<1> HIDE DEF opening
<1>3. IdsIn(<<p, q>>, opening) = IdsIn(<<p>>, opening) \cup IdsIn(<<q>>, opening)
  BY PacketsOfPair
<1> QED
  BY <1>1, <1>2, <1>3 DEF NothingOpens, IsListing, Opened, opening

(* What LeaveRoom sends closes the room if it was the last to leave. *)
LEMMA LeavePacketsTell ==
  ASSUME NEW roomId \in Ids, NEW leftId \in Ids, NEW closed \in BOOLEAN
  PROVE  /\ LeavePackets(roomId, leftId, closed) \in Seq(PacketType)
         /\ NothingOpens(LeavePackets(roomId, leftId, closed))
         /\ IdsIn(LeavePackets(roomId, leftId, closed), {"Close"})
              = IF closed THEN {roomId} ELSE {}
<1> DEFINE leave == Packet("Leave", leftId, roomId)
           close == Packet("Close", roomId, 0)
           a == IF roomId \in DOMAIN rooms THEN <<leave>> ELSE <<>>
           b == IF closed THEN <<close>> ELSE <<>>
<1>1. /\ leave \in PacketType /\ leave.code = "Leave"
      /\ close \in PacketType /\ close.code = "Close" /\ close.ids = {roomId}
  BY PacketTyped, ZeroIsId DEF PacketCodes, Packet
<1>2. LeavePackets(roomId, leftId, closed) = a \o b
  BY DEF LeavePackets
<1> HIDE DEF leave, close
<1>3. a \in Seq(PacketType) /\ NothingOpens(a) /\ IdsIn(a, {"Close"}) = {}
  BY <1>1, OpensShort
<1>4. /\ b \in Seq(PacketType) /\ NothingOpens(b)
      /\ IdsIn(b, {"Close"}) = IF closed THEN {roomId} ELSE {}
  <2>1. CASE closed
    BY <1>1, <2>1, OpensShort
  <2>2. CASE ~ closed
    BY <2>2, OpensShort
  <2> QED
    BY <2>1, <2>2
<1> HIDE DEF a, b
<1>5. a \o b \in Seq(PacketType)
  BY <1>3, <1>4, ConcatProperties
<1>6. /\ NothingOpens(a \o b)
      /\ IdsIn(a \o b, {"Close"}) = IdsIn(a, {"Close"}) \cup IdsIn(b, {"Close"})
  BY <1>3, <1>4, OpensConcat
<1> QED
  BY <1>2, <1>3, <1>4, <1>5, <1>6

(* A room leaves the table and Close is said of it, and of nothing else    *)
(* that is a room.                                                         *)
LEMMA CloseTells ==
  ASSUME DbInv, NEW pkts, NothingOpens(pkts),
         NEW others, others \cap DOMAIN rooms = {}, NEW closing,
         IdsIn(pkts, {"Close"}) = others \cup closing,
         DOMAIN rooms' = DOMAIN rooms \ closing
  PROVE  Tells(pkts)
BY ZeroNamesNothing DEF Tells, Closed, LiveIds, NothingOpens

-----------------------------------------------------------------------------
(* The handlers. *)

(* A disconnection tells everyone who stays of the room it closes; the     *)
(* Close of the game names no room.                                        *)
LEMMA DisconnectTells ==
  ASSUME DbInv, NEW s \in Sessions, uid[s] # 0, DisconnectUser(s)
  PROVE  EveryoneTold
<1>1. PICK game \in Ids, roomId \in Ids, hosted \in BOOLEAN, closed \in BOOLEAN :
        Disconnects(s, game, roomId, hosted, closed)
  BY Disconnection
<1> DEFINE leftId   == IF hosted THEN game ELSE uid[s]
           leave    == Packet("Leave", uid[s], game)
           close    == Packet("Close", game, 0)
           last     == Packet("DisconnectUser", uid[s], 0)
           gamePkts == IF hosted THEN <<leave, close>> ELSE <<>>
           roomPkts == LeavePackets(roomId, leftId, closed)
<1>2. uid[s] \in DOMAIN users /\ uid[s] \in Ids /\ game \in Nat
  BY LoggedIn, ZeroIsId
<1>3. /\ leave \in PacketType /\ leave.code = "Leave"
      /\ close \in PacketType /\ close.code = "Close" /\ close.ids = {game}
      /\ last \in PacketType /\ last.code = "DisconnectUser"
  BY <1>2, PacketTyped, ZeroIsId DEF PacketCodes, Packet
<1>4. leftId \in Ids
  BY <1>2
<1>5. /\ roomPkts \in Seq(PacketType) /\ NothingOpens(roomPkts)
      /\ IdsIn(roomPkts, {"Close"}) = IF closed THEN {roomId} ELSE {}
  BY <1>4, LeavePacketsTell
<1>6. ASSUME NEW t \in Sessions, uid'[t] # 0
      PROVE  uid[t] # 0 /\ sent'[t] = gamePkts \o roomPkts \o <<last>>
  <2>1. t # s /\ uid'[t] = uid[t]
    BY <1>1, <1>6 DEF DbInv, Disconnects
  <2>2. uid[t] \in DOMAIN users \ {uid[s]}
    BY <1>6, <2>1 DEF DbInv, SessionsMatch
  <2>3. uid[t] # leftId
    BY <1>1, <2>2 DEF DbInv, IdsUnique, Disconnects
  <2> QED
    BY <1>1, <1>6, <2>1, <2>2, <2>3 DEF Disconnects
<1> HIDE DEF leave, close, last, leftId, roomPkts
<1> DEFINE tail == <<last>>
<1>7. /\ tail \in Seq(PacketType) /\ NothingOpens(tail)
      /\ IdsIn(tail, {"Close"}) = {}
  BY <1>3, OpensShort
<1>8. /\ gamePkts \in Seq(PacketType) /\ NothingOpens(gamePkts)
      /\ IdsIn(gamePkts, {"Close"}) = IF hosted THEN {game} ELSE {}
  <2>1. CASE hosted
    <3>1. gamePkts = <<leave, close>>
      BY <2>1
    <3>2. <<leave, close>> \in Seq(PacketType)
      BY <1>3
    <3>3. NothingOpens(<<leave>>) /\ IdsIn(<<leave>>, {"Close"}) = {}
      BY <1>3, OpensShort
    <3>4. NothingOpens(<<close>>) /\ IdsIn(<<close>>, {"Close"}) = {game}
      BY <1>3, OpensShort
    <3> QED
      BY <2>1, <3>1, <3>2, <3>3, <3>4, OpensPair
  <2>2. CASE ~ hosted
    BY <2>2, OpensShort
  <2> QED
    BY <2>1, <2>2
<1> HIDE DEF gamePkts
<1> DEFINE front == gamePkts \o roomPkts
<1>9. front \in Seq(PacketType)
  BY <1>5, <1>8, ConcatProperties
<1>10. /\ NothingOpens(front)
       /\ IdsIn(front, {"Close"}) = (IF hosted THEN {game} ELSE {})
                                      \cup (IF closed THEN {roomId} ELSE {})
  BY <1>5, <1>8, OpensConcat
<1> HIDE DEF front, tail
<1>11. /\ NothingOpens(front \o tail)
       /\ IdsIn(front \o tail, {"Close"}) = (IF hosted THEN {game} ELSE {})
                                                 \cup (IF closed THEN {roomId} ELSE {})
  <2>1. /\ NothingOpens(front \o tail)
        /\ IdsIn(front \o tail, {"Close"})
             = IdsIn(front, {"Close"}) \cup IdsIn(tail, {"Close"})
    BY <1>7, <1>9, <1>10, OpensConcat
  <2> QED
    BY <1>7, <1>10, <2>1
<1>12. (IF hosted THEN {game} ELSE {}) \cap DOMAIN rooms = {}
  BY <1>1 DEF DbInv, IdsUnique, Disconnects
<1>13. Tells(front \o tail)
  BY <1>1, <1>11, <1>12, CloseTells DEF Disconnects
<1> QED
  BY <1>6, <1>13 DEF EveryoneTold, front, tail

(* A handler that returns false disconnects its user. *)
LEMMA RejectedTells ==
  ASSUME DbInv, NEW s \in Sessions, uid[s] # 0, Rejected(s)
  PROVE  EveryoneTold
BY DisconnectTells DEF Rejected

(* A login says nothing about rooms. *)
LEMMA LoginTells ==
  ASSUME DbInv, NEW s \in Sessions, NEW name,
         LoginRefused(s, name) \/ Login(s, name)
  PROVE  EveryoneTold
<1>1. CASE LoginRefused(s, name)
  <2>1. \A t \in Sessions : sent'[t] \in {<<Packet("LoginReply", 0, 1)>>, <<>>}
    BY <1>1 DEF LoginRefused, ReplyOnly, WithReply, NoPackets
  <2>2. Quiet(<<Packet("LoginReply", 0, 1)>>) /\ Quiet(<<>>)
    BY QuietShort DEF Packet
  <2> QED
    BY <1>1, <2>1, <2>2, QuietStep DEF LoginRefused, dbVars
<1>2. CASE Login(s, name)
  <2>1. /\ Quiet(<<Packet("LoginReply", GetNextId, 0)>>)
        /\ Quiet(<<Packet("Login", GetNextId, 0)>>)
    BY QuietShort DEF Packet
  <2> QED
    BY <1>2, <2>1, QuietBroadcast DEF Login
<1> QED
  BY <1>1, <1>2

(* Chat says nothing about rooms. *)
LEMMA OnChatRoomTells ==
  ASSUME DbInv, NEW s \in Sessions, NEW value0, NEW value3, NEW kind,
         OnChatRoom(s, value0, value3, kind)
  PROVE  EveryoneTold
<1> DEFINE roomId == UserOf(s).room
           chat   == Packet("ChatRoom", uid[s], value3)
           reply(error) == Packet("ChatRoomReply", 0, error)
<1>1. uid[s] # 0
  BY DEF OnChatRoom
<1>2. CASE Rejected(s)
  BY <1>1, <1>2, RejectedTells
<1>3. /\ Quiet(<<chat>>) /\ Quiet(<<reply(0)>>) /\ Quiet(<<reply(1)>>) /\ Quiet(<<>>)
  BY QuietShort DEF Packet
<1>4. CASE Answers(s, <<reply(1)>>) \/ Answers(s, <<>>)
  BY <1>3, <1>4, QuietAnswer
<1>5. CASE /\ sent' = WithReply(s, <<reply(0)>>,
                [t \in Sessions |->
                   IF /\ uid[t] \in DOMAIN users \ {uid[s]}
                      /\ InRoom(users, uid[t], roomId)
                   THEN <<chat>> ELSE <<>>])
           /\ UNCHANGED dbVars
  <2>1. \A t \in Sessions : sent'[t] \in {<<reply(0)>>, <<chat>>, <<>>}
    BY <1>5 DEF WithReply
  <2> QED
    BY <1>3, <1>5, <2>1, QuietStep DEF dbVars
<1>6. CASE /\ sent' = [t \in Sessions |->
                         (IF uid[t] = value3 THEN <<chat>> ELSE <<>>)
                         \o (IF t = s THEN <<reply(0)>> ELSE <<>>)]
           /\ UNCHANGED dbVars
  <2> HIDE DEF chat, reply
  <2> DEFINE S == {chat, reply(0)}
  <2>1. <<chat>> \in Seq(S) /\ <<reply(0)>> \in Seq(S) /\ <<>> \in Seq(S)
    OBVIOUS
  <2>2. \A x \in {<<chat>>, <<>>}, y \in {<<reply(0)>>, <<>>} : Quiet(x \o y)
    BY <1>3, <2>1, QuietConcat
  <2>3. \A t \in Sessions : Quiet(sent'[t])
    BY <1>6, <2>2
  <2> QED
    BY <1>6, <2>3, QuietStep DEF dbVars
<1> QED
  BY <1>2, <1>4, <1>5, <1>6 DEF OnChatRoom

(* A handler that tells its own client the truth and the others nothing. *)
LEMMA AnswerTells ==
  ASSUME DbInv, NEW s \in Sessions, uid[s] # 0, NEW pkts, Tells(pkts), Answers(s, pkts)
  PROVE  EveryoneTold
<1>1. uid' = uid /\ DOMAIN rooms' = DOMAIN rooms
  BY DEF Answers, dbVars
<1>2. \A t \in Sessions : sent'[t] = IF t = s THEN pkts ELSE <<>>
  BY DEF Answers, ReplyOnly, WithReply, NoPackets
<1>3. Tells(<<>>)
  BY <1>1, QuietShort, QuietTells
<1> QED
  BY <1>1, <1>2, <1>3 DEF EveryoneTold

(* A handler that tells its own client, unless that is to list the rooms   *)
(* again, and everyone else.                                               *)
LEMMA BroadcastTells ==
  ASSUME DbInv, NEW s \in Sessions, uid[s] # 0, uid' = uid,
         NEW reply, LeftARoom(reply) \/ Tells(reply), NEW pkts, Tells(pkts),
         sent' = WithReply(s, reply, ToUsers(users, uid[s], pkts))
  PROVE  EveryoneTold
<1>1. ASSUME NEW t \in Sessions, uid[t] # 0, t # s
      PROVE  sent'[t] = pkts
  <2>1. uid[t] \in DOMAIN users \ {uid[s]}
    BY <1>1 DEF DbInv, SessionsMatch
  <2> QED
    BY <1>1, <2>1 DEF WithReply, ToUsers
<1>2. sent'[s] = reply
  BY DEF WithReply, ToUsers
<1> QED
  BY <1>1, <1>2 DEF EveryoneTold

(* A listing names every open room, of users and games it says nothing     *)
(* that could be taken for a room.                                         *)
LEMMA OnListTells ==
  ASSUME DbInv, NEW s \in Sessions, NEW fixedOk, NEW value2,
         OnListRooms(s, fixedOk) \/ OnListUsers(s, fixedOk, value2)
           \/ OnListGames(s, fixedOk, value2)
  PROVE  EveryoneTold
<1> DEFINE listing(code, ids) == <<Items(code, ids), ListEnd>>
<1>1. uid[s] # 0
  BY DEF OnListRooms, OnListUsers, OnListGames
<1>2. CASE Rejected(s)
  BY <1>1, <1>2, RejectedTells
<1>3. ASSUME NEW code \in {"UserItem", "GameItem"}, NEW ids PROVE Quiet(listing(code, ids))
  <2>1. Quiet(<<Items(code, ids)>>) /\ Quiet(<<ListEnd>>)
    BY <1>3, QuietShort DEF Items, ListEnd
  <2> QED
    BY <2>1, QuietPair
<1>4. CASE Answers(s, listing("RoomItem", DOMAIN rooms))
  <2> DEFINE item    == Items("RoomItem", DOMAIN rooms)
             end     == ListEnd
             pkts    == <<item, end>>
             lists == {"RoomItem"}
             opening == {"RoomItem", "CreateRoom", "CreateRoomReply"}
             closing == {"Close"}
  <2>1. item.code = "RoomItem" /\ item.ids = DOMAIN rooms /\ end.code = "ListEnd"
    BY DEF Items, ListEnd
  <2> HIDE DEF item, end
  <2>2. /\ PacketsOf(<<item>>, lists) = {item} /\ PacketsOf(<<end>>, lists) = {}
        /\ IdsIn(<<item>>, opening) = DOMAIN rooms /\ IdsIn(<<end>>, opening) = {}
        /\ IdsIn(<<item>>, closing) = {} /\ IdsIn(<<end>>, closing) = {}
    BY <2>1, PacketsOfShort, IdsInShort
  <2> HIDE DEF lists, opening, closing
  <2>3. /\ PacketsOf(pkts, lists) = {item}
        /\ IdsIn(pkts, opening) = DOMAIN rooms
        /\ IdsIn(pkts, closing) = {}
    BY <2>2, PacketsOfPair
  <2>4. PacketsOf(pkts, {"RoomItem"}) # {} /\ Opened(pkts) = DOMAIN rooms /\ Closed(pkts) = {0}
    BY <2>3 DEF lists, opening, closing, Opened, Closed
  <2>5. 0 \notin DOMAIN rooms /\ DOMAIN rooms' = DOMAIN rooms
    BY <1>4, ZeroNamesNothing DEF LiveIds, Answers, dbVars
  <2> HIDE DEF pkts
  <2>6. Tells(pkts)
    BY <2>4, <2>5 DEF Tells, IsListing
  <2> QED
    BY <1>1, <1>4, <2>6, AnswerTells DEF pkts, item, end
<1>5. CASE \E code \in {"UserItem", "GameItem"}, ids \in SUBSET Ids : Answers(s, listing(code, ids))
  BY <1>3, <1>5, QuietAnswer
<1>6. /\ {u \in DOMAIN users : InRoom(users, u, UserOf(s).room)} \in SUBSET Ids
      /\ {g \in DOMAIN games : InRoom(games, g, UserOf(s).room)} \in SUBSET Ids
  BY DEF DbInv, DbTypeOK
<1> QED
  BY <1>2, <1>4, <1>5, <1>6 DEF OnListRooms, OnListUsers, OnListGames

(* One packet that opens one room. *)
LEMMA OneRoomOpens ==
  ASSUME NEW code \in {"CreateRoom", "CreateRoomReply"}, NEW id, NEW arg
  PROVE  LET pkts == <<Packet(code, id, arg)>> IN
         ~ IsListing(pkts) /\ Opened(pkts) = {id} /\ Closed(pkts) = {0}
<1> DEFINE p == Packet(code, id, arg)
<1>1. p.code = code /\ p.ids = {id}
  BY DEF Packet
<1> HIDE DEF p
<1>2. PacketsOf(<<p>>, {"RoomItem"}) = {}
  BY <1>1, PacketsOfShort
<1>3. IdsIn(<<p>>, {"RoomItem", "CreateRoom", "CreateRoomReply"}) = {id}
  BY <1>1, IdsInShort
<1>4. IdsIn(<<p>>, {"Close"}) = {}
  BY <1>1, IdsInShort
<1> QED
  BY <1>2, <1>3, <1>4 DEF p, IsListing, Opened, Closed

(* A new room is announced to everyone; a refusal names room 0. *)
LEMMA OnCreateRoomTells ==
  ASSUME DbInv, NEW s \in Sessions, NEW fixedOk, NEW name,
         OnCreateRoom(s, fixedOk, name)
  PROVE  EveryoneTold
<1>1. uid[s] # 0
  BY DEF OnCreateRoom
<1>2. CASE Rejected(s)
  BY <1>1, <1>2, RejectedTells
<1>3. CASE Answers(s, <<Packet("CreateRoomReply", 0, 1)>>)
  <2>1. DOMAIN rooms' = DOMAIN rooms /\ 0 \notin DOMAIN rooms
    BY <1>3, ZeroNamesNothing DEF LiveIds, Answers, dbVars
  <2>2. Tells(<<Packet("CreateRoomReply", 0, 1)>>)
    BY <2>1, OneRoomOpens DEF Tells
  <2> QED
    BY <1>1, <1>3, <2>2, AnswerTells
<1>4. CASE Threw("NotConnected")
  BY <1>4, SilentStep DEF Threw
<1>5. CASE /\ IdsLeft
           /\ TakeNextId
           /\ rooms' = Add(rooms, GetNextId, [name |-> name])
           /\ sent' = WithReply(s, <<Packet("CreateRoomReply", GetNextId, 0)>>,
                        ToUsers(users, uid[s], <<Packet("CreateRoom", GetNextId, 0)>>))
           /\ uid' = uid
  <2>1. DOMAIN rooms' = DOMAIN rooms \cup {GetNextId}
    BY <1>5 DEF Add
  <2>2. GetNextId # 0 /\ 0 \notin DOMAIN rooms
    BY <1>5, DrawnIdIsNew, ZeroNamesNothing, IdAssumption DEF LiveIds
  <2>3. /\ Tells(<<Packet("CreateRoomReply", GetNextId, 0)>>)
        /\ Tells(<<Packet("CreateRoom", GetNextId, 0)>>)
    BY <2>1, <2>2, OneRoomOpens DEF Tells
  <2> QED
    BY <1>1, <1>5, <2>3, BroadcastTells
<1> QED
  BY <1>2, <1>3, <1>4, <1>5 DEF OnCreateRoom

(* Joining opens and closes nothing. *)
LEMMA OnJoinTells ==
  ASSUME DbInv, NEW s \in Sessions, NEW value2, NEW value10, OnJoin(s, value2, value10)
  PROVE  EveryoneTold
<1> DEFINE reply(error) == <<Packet("JoinReply", 0, error)>>
           join(roomId) == <<Packet("Join", uid[s], roomId)>>
<1>1. uid[s] # 0
  BY DEF OnJoin
<1>2. \A x : Quiet(reply(x)) /\ Quiet(join(x))
  BY QuietShort DEF Packet
<1>3. CASE Rejected(s)
  BY <1>1, <1>3, RejectedTells
<1>4. CASE Answers(s, reply(1))
  BY <1>2, <1>4, QuietAnswer
<1>5. CASE /\ rooms' = rooms
           /\ \E roomId : sent' = WithReply(s, reply(0), ToUsers(users, uid[s], join(roomId)))
  BY <1>2, <1>5, QuietBroadcast
<1> QED
  BY <1>3, <1>4, <1>5 DEF OnJoin, dbVars

(* The others are told when the room a user leaves is closed; the user is  *)
(* not, and lists the rooms again.                                         *)
LEMMA OnLeaveTells ==
  ASSUME DbInv, NEW s \in Sessions, NEW value2, NEW value10, OnLeave(s, value2, value10)
  PROVE  EveryoneTold
<1> DEFINE roomId  == UserOf(s).room
           closed  == RoomClosed(users, games, roomId, uid[s])
           closing == IF closed THEN {roomId} ELSE {}
           reply(error) == <<Packet("LeaveReply", 0, error)>>
           pkts    == LeavePackets(roomId, uid[s], closed)
<1>1. uid[s] # 0
  BY DEF OnLeave
<1>2. CASE Rejected(s)
  BY <1>1, <1>2, RejectedTells
<1>3. CASE Answers(s, reply(1))
  <2>1. Quiet(reply(1))
    BY QuietShort DEF Packet
  <2> QED
    BY <1>3, <2>1, QuietAnswer
<1>4. CASE /\ rooms' = IF closed THEN Erase(rooms, roomId) ELSE rooms
           /\ sent' = WithReply(s, reply(0), ToUsers(users, uid[s], pkts))
           /\ uid' = uid
  <2>1. closed \in BOOLEAN /\ roomId \in Ids /\ uid[s] \in Ids
    BY <1>1, LoggedIn DEF RoomClosed
  <2>2. DOMAIN rooms' = DOMAIN rooms \ closing
    BY <1>4 DEF Erase, Restrict
  <2>3. LeftARoom(reply(0))
    <3> DEFINE p == Packet("LeaveReply", 0, 0)
    <3>1. p.code = "LeaveReply" /\ p.arg = 0
      BY DEF Packet
    <3> HIDE DEF p
    <3>2. PacketsOf(<<p>>, {"LeaveReply"}) = {p}
      BY <3>1, PacketsOfShort
    <3> QED
      BY <3>1, <3>2 DEF LeftARoom, p
  <2> HIDE DEF closed, roomId
  <2>4. NothingOpens(pkts) /\ IdsIn(pkts, {"Close"}) = {} \cup closing
    BY <2>1, LeavePacketsTell
  <2> HIDE DEF pkts, closing
  <2>5. Tells(pkts)
    BY <2>2, <2>4, CloseTells
  <2> HIDE DEF reply
  <2> QED
    BY <1>1, <1>4, <2>3, <2>5, BroadcastTells
<1> QED
  BY <1>2, <1>3, <1>4 DEF OnLeave

(* CloseGame only replies. *)
LEMMA OnCloseTells ==
  ASSUME DbInv, NEW s \in Sessions, NEW value10, OnClose(s, value10)
  PROVE  EveryoneTold
<1>1. Quiet(<<Packet("CloseReply", 0, 0)>>)
  BY QuietShort DEF Packet
<1> QED
  BY <1>1, QuietAnswer, RejectedTells DEF OnClose

(* A game that opens is no room, whatever the replies about it say. *)
LEMMA OnCreateGameTells ==
  ASSUME DbInv, NEW s \in Sessions, NEW fixedOk, NEW value2, NEW address,
         OnCreateGame(s, fixedOk, value2, address)
  PROVE  EveryoneTold
<1> DEFINE accept  == Packet("CreateGameReply", GetNextId, 0)
           refuse  == Packet("CreateGameReply", 0, 2)
           chat    == Packet("ChatRoom", uid[s], UserOf(s).room)
           refusal == <<refuse, chat>>
           created == <<Packet("CreateGame", GetNextId, UserOf(s).room)>>
<1>1. uid[s] # 0
  BY DEF OnCreateGame
<1>2. Quiet(<<accept>>) /\ Quiet(<<refuse>>) /\ Quiet(<<chat>>) /\ Quiet(created)
  BY QuietShort DEF Packet
<1>3. CASE Rejected(s)
  BY <1>1, <1>3, RejectedTells
<1>4. CASE sent' = NoPackets /\ rooms' = rooms
  BY <1>4, SilentStep
<1> HIDE DEF accept, refuse, chat, created
<1>5. Quiet(refusal)
  BY <1>2, QuietPair
<1>6. Quiet(<<accept>> \o refusal)
  <2> DEFINE S == {accept, refuse, chat}
             a == <<accept>>
             b == refusal
  <2>1. a \in Seq(S) /\ b \in Seq(S)
    OBVIOUS
  <2>2. Quiet(a) /\ Quiet(b)
    BY <1>2, <1>5
  <2> HIDE DEF a, b, S
  <2>3. Quiet(a \o b)
    BY <2>1, <2>2, QuietConcat
  <2> QED
    BY <2>3 DEF a, b
<1> HIDE DEF refusal
<1>7. CASE Answers(s, refusal)
  BY <1>5, <1>7, QuietAnswer
<1>8. CASE /\ sent' = WithReply(s, <<accept>> \o refusal, ToUsers(users, uid[s], created))
           /\ rooms' = rooms
  <2> DEFINE reply == <<accept>> \o refusal
  <2> HIDE DEF reply
  <2> QED
    BY <1>2, <1>6, <1>8, QuietBroadcast DEF reply
<1> QED
  BY <1>3, <1>4, <1>7, <1>8
  DEF OnCreateGame, Threw, accept, refusal, refuse, chat, created

(* ConnectGame only replies. *)
LEMMA OnConnectGameTells ==
  ASSUME DbInv, NEW s \in Sessions, NEW value0, OnConnectGame(s, value0)
  PROVE  EveryoneTold
<1>1. \A id, error : Quiet(<<Packet("ConnectGameReply", id, error)>>)
  BY QuietShort DEF Packet
<1> QED
  BY <1>1, QuietAnswer, RejectedTells DEF OnConnectGame

(* Whatever a session does, the clients learn what it does to the rooms. *)
LEMMA StepTells ==
  ASSUME DbInv, Step
  PROVE  EveryoneTold
<1>1. ASSUME NEW s \in Sessions, PeerReset(s)
      PROVE  EveryoneTold
  BY <1>1, SilentStep DEF PeerReset, dbVars
<1>2. ASSUME NEW s \in Sessions, SessionEnds(s)
      PROVE  EveryoneTold
  BY <1>2, DisconnectTells DEF SessionEnds
<1>3. ASSUME NEW s \in Sessions, Handle(s)
      PROVE  EveryoneTold
  BY <1>3, OnChatRoomTells, OnListTells, OnCreateRoomTells, OnJoinTells, OnLeaveTells,
     OnCloseTells, OnCreateGameTells, OnConnectGameTells DEF Handle
<1> QED
  BY <1>1, <1>2, <1>3, LoginTells DEF Step

-----------------------------------------------------------------------------
(* The clients' lists. *)

(* RoomListsAgree alone is not inductive: a session that is not logged in  *)
(* is sent nothing, so a list it held would go stale.                      *)
ListInv ==
  /\ RoomListsAgree
  /\ \A t \in listed : uid[t] # 0

(* Every step keeps the lists of the clients that have one right. *)
LEMMA NextListInv == IInv /\ ListInv /\ [Next]_vars => ListInv'
<1> SUFFICES ASSUME IInv, ListInv, [Next]_vars PROVE ListInv'
  OBVIOUS
<1>1. CASE UNCHANGED vars
  BY <1>1 DEF vars, ListInv, RoomListsAgree
<1>2. CASE Next
  <2>1. DbInv /\ listed \subseteq Sessions
    BY DEF IInv, TypeOK, DbInv
  <2>2. EveryoneTold
    BY <1>2, <2>1, StepTells DEF Next
  <2>3. ASSUME NEW t \in listed'
        PROVE  uid'[t] # 0 /\ known'[t] = DOMAIN rooms'
    <3> DEFINE pkts == sent'[t]
    <3>1. /\ t \in Sessions /\ uid'[t] # 0 /\ ~ LeftARoom(pkts)
          /\ t \in listed \/ IsListing(pkts)
      BY <1>2, <2>3 DEF Next, Observe, IsListing
    <3>2. known'[t] = ((IF IsListing(pkts) THEN {} ELSE known[t]) \cup Opened(pkts))
                        \ Closed(pkts)
      BY <1>2, <2>3, <3>1 DEF Next, Observe, IsListing, Opened, Closed
    <3>3. IF uid[t] # 0 THEN Tells(pkts) ELSE ~ IsListing(pkts)
      BY <2>2, <3>1 DEF EveryoneTold
    <3>4. Tells(pkts)
      BY <3>1, <3>3 DEF ListInv
    <3>5. IsListing(pkts) \/ known[t] = DOMAIN rooms
      BY <3>1 DEF ListInv, RoomListsAgree
    <3> QED
      BY <3>1, <3>2, <3>4, <3>5 DEF Tells
  <2> QED
    BY <2>3 DEF ListInv, RoomListsAgree
<1> QED
  BY <1>1, <1>2

(* A client that has listed the rooms and applies what it is sent knows    *)
(* exactly the open rooms, whatever the other sessions do and whichever    *)
(* ids of closed rooms, games and users are handed out again.              *)
THEOREM RoomListsAreRight == Spec => []RoomListsAgree
<1>1. Init => ListInv
  BY DEF Init, ListInv, RoomListsAgree
<1>2. ListInv => RoomListsAgree
  BY DEF ListInv
<1> QED
  BY <1>1, <1>2, NextListInv, Invariance, PTL DEF Spec

=============================================================================
