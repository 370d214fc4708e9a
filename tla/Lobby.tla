------------------------------- MODULE Lobby --------------------------------
(***************************************************************************)
(* The lobby: what UserSession::handleLogin, the ten packet handlers of    *)
(* PacketHandler and DisconnectUser do to the tables of module Database,   *)
(* and which packets they queue for whom.                                  *)
(*                                                                         *)
(* One handler is one step.  Server::run enters the io_context on the main *)
(* thread only (module Server), and a handler suspends nowhere between its *)
(* first read and its last sendPacket: co_await of another awaitable runs  *)
(* it in place, and only socket and timer operations give up the thread.   *)
(*                                                                         *)
(* A request field that the packet may lack is None when it lacks it.      *)
(***************************************************************************)
EXTENDS Database

CONSTANTS
  Fold,   \* name -> the name with std::tolower applied to each character
  None    \* an absent std::optional field

ASSUME NoneAssumption == None \notin Nat

VARIABLES
  uid,     \* session -> id of its user_, 0 when nobody is logged in
  gone,    \* sessions whose peer is disconnected: remote_endpoint() throws
  sent,    \* session -> packets the last step passed to its sendPacket
  thrown,  \* the exception that left the last step's handler
  listed,  \* sessions whose client holds an up-to-date room list
  known    \* session -> room ids that client believes open

lobbyVars == <<uid, gone, sent, thrown, listed, known>>
vars == <<nextId, recycledIds, users, rooms, games,
          uid, gone, sent, thrown, listed, known>>

-----------------------------------------------------------------------------
(* Packets.  ids holds the ids the packet is about, arg the second id or   *)
(* the error value.  A listing's ListItem packets (one per id, in the      *)
(* table's unspecified order) are one entry named for their SessionType.   *)

Packet(code, id, arg) == [code |-> code, ids |-> {id}, arg |-> arg]
Items(code, ids)      == [code |-> code, ids |-> ids, arg |-> 0]
ListEnd               == Items("ListEnd", {})

PacketCodes ==
  {"Login", "LoginReply", "CreateRoom", "CreateRoomReply", "Join",
   "JoinReply", "Leave", "LeaveReply", "DisconnectUser", "Close",
   "CloseReply", "CreateGame", "CreateGameReply", "ChatRoom",
   "ChatRoomReply", "ConnectGameReply", "RoomItem", "UserItem", "GameItem",
   "ListEnd"}

PacketType == [code : PacketCodes, ids : SUBSET Ids, arg : Nat]

(* BadAddress: make_address; NotConnected: remote_endpoint. *)
Exceptions == {"none", "BadAddress", "NotConnected"}

(* A field that holds any id, and fields that must hold the sender's own   *)
(* id or its room: right or absent (a wrong one is refused as an absent or *)
(* another field is; value_or(0) makes an absent room right outside rooms).*)
Opt == {None} \cup Ids
Claims(s) == {None, uid[s]}
ClaimsRoom(s) == {None, users[uid[s]].room}

(* The sender's own id with any second id, or neither field. *)
ClaimsWith(s) == {<<None, None>>} \cup {uid[s]} \X Opt

ValueOr(field, default) == IF field = None THEN default ELSE field

-----------------------------------------------------------------------------
(* Who is sent what. *)

NoPackets == [t \in Sessions |-> <<>>]

(* pkts to every user of the table but one: for (user : getUsers()) ... *)
ToUsers(table, except, pkts) ==
  [t \in Sessions |-> IF uid[t] \in DOMAIN table \ {except} THEN pkts ELSE <<>>]

(* The same, and a reply to the requesting session s. *)
WithReply(s, reply, others) == [others EXCEPT ![s] = reply]

ReplyOnly(s, reply) == WithReply(s, reply, NoPackets)

(* Bound: the model stops handing out fresh ids before the counter wraps   *)
(* (2^32 of them: recycled ids are used first).                            *)
IdsLeft == recycledIds # <<>> \/ nextId + 1 < IdLimit

EqualsCaseInsensitive(a, b) == Fold[a] = Fold[b]

UserOf(s) == users[uid[s]]

InRoom(table, id, roomId) == table[id].room = roomId

(* A variant that looks at the users of the room only. *)
RoomClosedIgnoringGames(usersNow, gamesNow, roomId, leftId) ==
  /\ roomId \in DOMAIN rooms
  /\ ~ \E u \in DOMAIN usersNow : u # leftId /\ InRoom(usersNow, u, roomId)

(* The room an id left has nobody else in it: LeaveRoom's roomClosed. *)
RoomClosed(usersNow, gamesNow, roomId, leftId) ==
  /\ roomId \in DOMAIN rooms
  /\ ~ \E u \in DOMAIN usersNow : u # leftId /\ InRoom(usersNow, u, roomId)
  /\ ~ \E g \in DOMAIN gamesNow : g # leftId /\ InRoom(gamesNow, g, roomId)

(* A variant that closes the room without saying so. *)
LeavePacketsNoClose(roomId, leftId, closed) ==
  IF roomId \in DOMAIN rooms THEN <<Packet("Leave", leftId, roomId)>> ELSE <<>>

(* What LeaveRoom sends to every user but the one with the id leftId. *)
LeavePackets(roomId, leftId, closed) ==
  (IF roomId \in DOMAIN rooms THEN <<Packet("Leave", leftId, roomId)>> ELSE <<>>)
  \o (IF closed THEN <<Packet("Close", roomId, 0)>> ELSE <<>>)

-----------------------------------------------------------------------------
(* handleLogin, once a well-formed login packet has arrived. *)

NameTakenSameCase(name) == \E u \in DOMAIN users : users[u].name = name

NameTaken(name) ==
  \E u \in DOMAIN users : EqualsCaseInsensitive(users[u].name, name)

LoginRefused(s, name) ==
  /\ uid[s] = 0
  /\ NameTaken(name)
  /\ sent' = ReplyOnly(s, <<Packet("LoginReply", 0, 1)>>)
  /\ thrown' = "none"
  /\ UNCHANGED <<dbVars, uid, gone>>

Login(s, name) ==
  /\ uid[s] = 0
  /\ ~ NameTaken(name)
  /\ IdsLeft
  /\ TakeNextId
  /\ users' = Add(users, GetNextId, [name |-> name, room |-> 0])
  /\ uid' = [uid EXCEPT ![s] = GetNextId]
  /\ sent' = WithReply(s, <<Packet("LoginReply", GetNextId, 0)>>,
                       ToUsers(users, 0, <<Packet("Login", GetNextId, 0)>>))
  /\ thrown' = "none"
  /\ UNCHANGED <<rooms, games, gone>>

-----------------------------------------------------------------------------
(* DisconnectUser: the user goes, then one game of that name, then the     *)
(* game's room (or, without a game, the user's) if nobody is left in it.   *)

DisconnectUser(s) ==
  \E game \in IF GamesNamed(UserOf(s).name) = {}
              THEN {0} ELSE GamesNamed(UserOf(s).name) :
    LET id        == uid[s]
        hosted    == game # 0
        roomId    == IF hosted THEN games[game].room ELSE UserOf(s).room
        leftId    == IF hosted THEN game ELSE id
        usersLeft == Erase(users, id)
        gamesLeft == Erase(games, game)
        closed    == RoomClosed(usersLeft, gamesLeft, roomId, leftId)
        gamePkts  == IF hosted
                     THEN <<Packet("Leave", id, game), Packet("Close", game, 0)>>
                     ELSE <<>>
    IN  /\ users' = usersLeft
        /\ games' = gamesLeft
        /\ rooms' = IF closed THEN Erase(rooms, roomId) ELSE rooms
        /\ Recycle(<<id>> \o (IF hosted THEN <<game>> ELSE <<>>)
                          \o (IF closed THEN <<roomId>> ELSE <<>>))
        /\ uid' = [uid EXCEPT ![s] = 0]
        /\ gone' = gone \ {s}
        /\ sent' = [t \in Sessions |->
                      IF uid[t] \notin DOMAIN usersLeft THEN <<>>
                      ELSE gamePkts
                           \o (IF uid[t] = leftId THEN <<>>
                               ELSE LeavePackets(roomId, leftId, closed))
                           \o <<Packet("DisconnectUser", id, 0)>>]

(* handleSession returns: end of file, a receive error, the idle timer, a  *)
(* packet that does not parse or whose code has no handler.                *)
SessionEnds(s) ==
  /\ uid[s] # 0
  /\ DisconnectUser(s)
  /\ thrown' = "none"

(* A handler returned false: handleSession returns and run() disconnects. *)
Rejected(s) ==
  /\ DisconnectUser(s)
  /\ thrown' = "none"

(* An exception left the handler; handleSession logs it and reads on. *)
Threw(exception) ==
  /\ sent' = NoPackets
  /\ thrown' = exception
  /\ UNCHANGED <<users, rooms, games, uid, gone>>

(* A handler that changes no table and answers its own client. *)
Answers(s, pkts) ==
  /\ sent' = ReplyOnly(s, pkts)
  /\ thrown' = "none"
  /\ UNCHANGED <<dbVars, uid, gone>>

(* The client's connection is reset; the server has not read it yet. *)
PeerReset(s) ==
  /\ uid[s] # 0
  /\ s \notin gone
  /\ gone' = gone \cup {s}
  /\ sent' = NoPackets
  /\ thrown' = "none"
  /\ UNCHANGED <<dbVars, uid>>

-----------------------------------------------------------------------------
(* The packet handlers.  fixedOk stands for the checks on fields with one  *)
(* acceptable value (value1, value4) and on the presence of name, data and *)
(* info.                                                                   *)

(* kind: the message starts with the sender's GRP or PRV prefix, with      *)
(* neither, or the packet has no data.                                     *)
OnChatRoom(s, value0, value3, kind) ==
  /\ uid[s] # 0
  /\ LET valid  == ValueOr(value0, 0) = uid[s] /\ value3 # None /\ kind # "absent"
         roomId == UserOf(s).room
         found  == value3 \in DOMAIN users /\ InRoom(users, value3, roomId)
         reply(error) == <<Packet("ChatRoomReply", 0, error)>>
         chat   == <<Packet("ChatRoom", uid[s], value3)>>
     IN \/ ~ valid /\ Rejected(s)
        \/ /\ valid /\ kind = "GRP" /\ roomId = value3
           /\ sent' = WithReply(s, reply(0),
                [t \in Sessions |->
                   IF /\ uid[t] \in DOMAIN users \ {uid[s]}
                      /\ InRoom(users, uid[t], roomId)
                   THEN chat ELSE <<>>])
           /\ thrown' = "none"
           /\ UNCHANGED <<dbVars, uid, gone>>
        \/ /\ valid /\ kind = "PRV" /\ found
           /\ sent' = [t \in Sessions |->
                         (IF uid[t] = value3 THEN chat ELSE <<>>)
                         \o (IF t = s THEN reply(0) ELSE <<>>)]
           /\ thrown' = "none"
           /\ UNCHANGED <<dbVars, uid, gone>>
        \/ /\ valid /\ kind = "GRP" /\ roomId # value3
           /\ Answers(s, reply(1))
        \/ /\ valid /\ kind = "PRV" /\ ~ found
           /\ Answers(s, reply(1))
        \/ valid /\ kind = "other" /\ Answers(s, <<>>)

OnListRooms(s, fixedOk) ==
  /\ uid[s] # 0
  /\ \/ ~ fixedOk /\ Rejected(s)
     \/ /\ fixedOk
        /\ Answers(s, <<Items("RoomItem", DOMAIN rooms), ListEnd>>)

OnListUsers(s, fixedOk, value2) ==
  /\ uid[s] # 0
  /\ LET valid == fixedOk /\ ValueOr(value2, 0) = UserOf(s).room
         here  == {u \in DOMAIN users : InRoom(users, u, UserOf(s).room)}
     IN \/ ~ valid /\ Rejected(s)
        \/ valid /\ Answers(s, <<Items("UserItem", here), ListEnd>>)

OnListGames(s, fixedOk, value2) ==
  /\ uid[s] # 0
  /\ LET valid == fixedOk /\ ValueOr(value2, 0) = UserOf(s).room
         here  == {g \in DOMAIN games : InRoom(games, g, UserOf(s).room)}
     IN \/ ~ valid /\ Rejected(s)
        \/ valid /\ Answers(s, <<Items("GameItem", here), ListEnd>>)

RoomNameTaken(name) ==
  \E r \in DOMAIN rooms : EqualsCaseInsensitive(name, rooms[r].name)

(* The room's address is read after its id was drawn: when the peer is     *)
(* gone the exception loses the id for good.                               *)
OnCreateRoom(s, fixedOk, name) ==
  /\ uid[s] # 0
  /\ \/ ~ fixedOk /\ Rejected(s)
     \/ /\ fixedOk /\ RoomNameTaken(name)
        /\ Answers(s, <<Packet("CreateRoomReply", 0, 1)>>)
     \/ /\ fixedOk /\ ~ RoomNameTaken(name) /\ s \in gone
        /\ IdsLeft
        /\ TakeNextId
        /\ Threw("NotConnected")
     \/ /\ fixedOk /\ ~ RoomNameTaken(name) /\ s \notin gone
        /\ IdsLeft
        /\ TakeNextId
        /\ rooms' = Add(rooms, GetNextId, [name |-> name])
        /\ sent' = WithReply(s, <<Packet("CreateRoomReply", GetNextId, 0)>>,
                     ToUsers(users, uid[s], <<Packet("CreateRoom", GetNextId, 0)>>))
        /\ thrown' = "none"
        /\ UNCHANGED <<users, games, uid, gone>>

(* Joining a room does not leave the room the user was in before. *)
OnJoin(s, value2, value10) ==
  /\ uid[s] # 0
  /\ LET valid  == value2 # None /\ ValueOr(value10, 0) = uid[s]
         isRoom == value2 \in DOMAIN rooms
         isGame == value2 \in DOMAIN games /\ InRoom(games, value2, UserOf(s).room)
         joined(roomId) == WithReply(s, <<Packet("JoinReply", 0, 0)>>,
                             ToUsers(users, uid[s], <<Packet("Join", uid[s], roomId)>>))
     IN \/ ~ valid /\ Rejected(s)
        \/ /\ valid /\ isRoom
           /\ users' = [users EXCEPT ![uid[s]].room = value2]
           /\ sent' = joined(value2)
           /\ thrown' = "none"
           /\ UNCHANGED <<nextId, recycledIds, rooms, games, uid, gone>>
        \/ /\ valid /\ ~ isRoom /\ isGame
           /\ sent' = joined(UserOf(s).room)
           /\ thrown' = "none"
           /\ UNCHANGED <<dbVars, uid, gone>>
        \/ /\ valid /\ ~ isRoom /\ ~ isGame
           /\ Answers(s, <<Packet("JoinReply", 0, 1)>>)

OnLeave(s, value2, value10) ==
  /\ uid[s] # 0
  /\ LET valid  == ValueOr(value10, 0) = uid[s] /\ value2 # None
         roomId == UserOf(s).room
         closed == RoomClosed(users, games, roomId, uid[s])
     IN \/ ~ valid /\ Rejected(s)
        \/ /\ valid /\ value2 = roomId
           /\ rooms' = IF closed THEN Erase(rooms, roomId) ELSE rooms
           /\ Recycle(IF closed THEN <<roomId>> ELSE <<>>)
           /\ users' = [users EXCEPT ![uid[s]].room = 0]
           /\ sent' = WithReply(s, <<Packet("LeaveReply", 0, 0)>>,
                        ToUsers(users, uid[s], LeavePackets(roomId, uid[s], closed)))
           /\ thrown' = "none"
           /\ UNCHANGED <<games, uid, gone>>
        \/ /\ valid /\ value2 # roomId
           /\ Answers(s, <<Packet("LeaveReply", 0, 1)>>)

OnClose(s, value10) ==
  /\ uid[s] # 0
  /\ \/ value10 = None /\ Rejected(s)
     \/ value10 # None /\ Answers(s, <<Packet("CloseReply", 0, 0)>>)

(* address: what the data field holds: the client's own IPv4 address,      *)
(* another one, an IPv6 address, or no address.  make_address throws       *)
(* system_error, which the handler's catch (const error_code&) lets pass.  *)
(* After a successful creation control falls through to the refusal.       *)
OnCreateGame(s, fixedOk, value2, address) ==
  /\ uid[s] # 0
  /\ LET valid   == fixedOk /\ ValueOr(value2, 0) = UserOf(s).room
         id      == GetNextId
         refusal == <<Packet("CreateGameReply", 0, 2),
                      Packet("ChatRoom", uid[s], UserOf(s).room)>>
     IN \/ ~ valid /\ Rejected(s)
        \/ /\ valid /\ address = "none"
           /\ Threw("BadAddress")
           /\ UNCHANGED <<nextId, recycledIds>>
        \/ /\ valid /\ address \in {"own", "other"} /\ s \in gone
           /\ Threw("NotConnected")
           /\ UNCHANGED <<nextId, recycledIds>>
        \/ /\ valid /\ address = "own" /\ s \notin gone
           /\ IdsLeft
           /\ TakeNextId
           /\ games' = Add(games, id, [name |-> UserOf(s).name, room |-> UserOf(s).room])
           /\ sent' = WithReply(s, <<Packet("CreateGameReply", id, 0)>> \o refusal,
                        ToUsers(users, uid[s], <<Packet("CreateGame", id, UserOf(s).room)>>))
           /\ thrown' = "none"
           /\ UNCHANGED <<users, rooms, uid, gone>>
        \/ /\ valid /\ address = "own" /\ s \notin gone   \* reset after line 402
           /\ IdsLeft
           /\ TakeNextId
           /\ sent' = NoPackets
           /\ thrown' = "NotConnected"
           /\ gone' = gone \cup {s}
           /\ UNCHANGED <<users, rooms, games, uid>>
        \/ /\ valid
           /\ address = "v6" \/ (address = "other" /\ s \notin gone)
           /\ Answers(s, refusal)

OnConnectGame(s, value0) ==
  /\ uid[s] # 0
  /\ LET found == value0 \in DOMAIN games /\ InRoom(games, value0, UserOf(s).room)
     IN \/ value0 = None /\ Rejected(s)
        \/ /\ value0 # None /\ found
           /\ Answers(s, <<Packet("ConnectGameReply", value0, 0)>>)
        \/ /\ value0 # None /\ ~ found
           /\ Answers(s, <<Packet("ConnectGameReply", 0, 1)>>)

-----------------------------------------------------------------------------
(* The client's room list, as the packets make it: a listing replaces it,  *)
(* CreateRoom and a successful CreateRoomReply add to it, Close removes    *)
(* from it.  A client that left a room gets no Close for it and lists the  *)
(* rooms again (external: the game's front end).                           *)

PacketsOf(pkts, codes) == {p \in Range(pkts) : p.code \in codes}

IdsIn(pkts, codes) == UNION {p.ids : p \in PacketsOf(pkts, codes)}

LeftARoom(pkts) == \E p \in PacketsOf(pkts, {"LeaveReply"}) : p.arg = 0

Observe ==
  /\ listed' = {t \in Sessions :
                  /\ uid'[t] # 0
                  /\ ~ LeftARoom(sent'[t])
                  /\ t \in listed \/ PacketsOf(sent'[t], {"RoomItem"}) # {}}
  /\ known' = [t \in Sessions |->
                 IF t \notin listed' THEN {}
                 ELSE ((IF PacketsOf(sent'[t], {"RoomItem"}) # {} THEN {} ELSE known[t])
                       \cup IdsIn(sent'[t], {"RoomItem", "CreateRoom", "CreateRoomReply"}))
                      \ ({0} \cup IdsIn(sent'[t], {"Close"}))]

Handle(s) ==
  /\ uid[s] # 0
  /\ \/ \E ids \in ClaimsWith(s), kind \in {"GRP", "PRV", "other", "absent"} :
          OnChatRoom(s, ids[1], ids[2], kind)
     \/ \E fixedOk \in BOOLEAN : OnListRooms(s, fixedOk)
     \/ \E fixedOk \in BOOLEAN, value2 \in ClaimsRoom(s) : OnListUsers(s, fixedOk, value2)
     \/ \E fixedOk \in BOOLEAN, value2 \in ClaimsRoom(s) : OnListGames(s, fixedOk, value2)
     \/ \E fixedOk \in BOOLEAN, name \in Names : OnCreateRoom(s, fixedOk, name)
     \/ \E ids \in ClaimsWith(s) : OnJoin(s, ids[2], ids[1])
     \/ \E ids \in ClaimsWith(s) : OnLeave(s, ids[2], ids[1])
     \/ \E value10 \in Claims(s) : OnClose(s, value10)
     \/ \E fixedOk \in BOOLEAN, value2 \in ClaimsRoom(s),
           address \in {"own", "other", "v6", "none"} :
          OnCreateGame(s, fixedOk, value2, address)
     \/ \E value0 \in Opt : OnConnectGame(s, value0)

Init ==
  /\ DbInit
  /\ uid = [s \in Sessions |-> 0]
  /\ gone = {}
  /\ sent = NoPackets
  /\ thrown = "none"
  /\ listed = {}
  /\ known = [s \in Sessions |-> {}]

Step ==
  \E s \in Sessions :
    \/ \E name \in Names : LoginRefused(s, name) \/ Login(s, name)
    \/ SessionEnds(s)
    \/ PeerReset(s)
    \/ Handle(s)

Next == Step /\ Observe

Spec == Init /\ [][Next]_vars

-----------------------------------------------------------------------------
(* The properties. *)

TypeOK ==
  /\ DbTypeOK
  /\ uid \in [Sessions -> Ids]
  /\ gone \subseteq Sessions
  /\ sent \in [Sessions -> Seq(PacketType)]
  /\ thrown \in Exceptions
  /\ listed \subseteq Sessions
  /\ known \in [Sessions -> SUBSET Ids]

(* The queue of recycled ids as a set. *)
FreeIds == Range(recycledIds)

(* An id names one thing: it is in at most one of the three tables, is     *)
(* never both in a table and waiting to be handed out again, waits at most *)
(* once, and was drawn from the counter (getNextId, removeUser, removeRoom,*)
(* removeGame).                                                            *)
IdsUnique ==
  /\ DOMAIN users \cap DOMAIN rooms = {}
  /\ DOMAIN users \cap DOMAIN games = {}
  /\ DOMAIN rooms \cap DOMAIN games = {}
  /\ FreeIds \cap LiveIds = {}
  /\ IsInjective(recycledIds)
  /\ FreeIds \cup LiveIds \subseteq K_START .. nextId - 1

(* Each logged-in session has a user of its own in the table and the table *)
(* holds no other user: DisconnectUser runs once for each login.           *)
SessionsMatch ==
  /\ \A s, t \in Sessions : uid[s] # 0 /\ uid[s] = uid[t] => s = t
  /\ DOMAIN users = {uid[s] : s \in Sessions} \ {0}

(* LeaveRoom never closes a room somebody is still in: the room of a user  *)
(* or of a game is open, although ids of closed rooms are given to others. *)
RoomRefsLive ==
  /\ \A u \in DOMAIN users : users[u].room \in DOMAIN rooms \cup {0}
  /\ \A g \in DOMAIN games : games[g].room \in DOMAIN rooms \cup {0}

(* No two users and no two rooms have names that differ in case only. *)
NamesUnique ==
  /\ \A u, v \in DOMAIN users :
       EqualsCaseInsensitive(users[u].name, users[v].name) => u = v
  /\ \A q, r \in DOMAIN rooms :
       EqualsCaseInsensitive(rooms[q].name, rooms[r].name) => q = r

(* A client that has listed the rooms and applies every packet it is sent  *)
(* knows exactly the open rooms: no handler opens or closes a room without *)
(* telling everyone, and no packet about a game or a reused id confuses it.*)
RoomListsAgree == \A t \in listed : known[t] = DOMAIN rooms

LostIds == (K_START .. nextId - 1) \ (FreeIds \cup LiveIds)

(* An id drawn once is in a table or in the queue: only the two exceptions *)
(* thrown by getAddress after getNextId lose one.                          *)
IdsConserved == [][thrown' # "NotConnected" => LostIds' = LostIds]_vars

-----------------------------------------------------------------------------
(* What comments of the source say and the code does not do. *)

(* "Close abandoned game" (DisconnectUser): a game's host is logged in. *)
GamesHaveHosts ==
  \A g \in DOMAIN games : \E u \in DOMAIN users : users[u].name = games[g].name

Occupied(roomId) ==
  \/ \E u \in DOMAIN users : users[u].room = roomId
  \/ \E g \in DOMAIN games : games[g].room = roomId

(* "Close abandoned room" (DisconnectUser): when a user disconnects, the   *)
(* room it was in stays open only while someone else or a game is in it.   *)
AbandonedRoomClosed ==
  [][\A s \in Sessions, r \in DOMAIN rooms :
       /\ uid[s] # 0 /\ UserOf(s).room = r
       /\ uid'[s] = 0 /\ r \in DOMAIN rooms'
       => Occupied(r)']_vars

=============================================================================
