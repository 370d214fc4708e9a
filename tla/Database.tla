------------------------------ MODULE Database ------------------------------
(***************************************************************************)
(* The in-memory tables of the lobby (class Database): users_, rooms_ and  *)
(* games_, keyed by a 32-bit id drawn from one pool shared by the three    *)
(* tables.  An id that leaves a table goes to the queue recycledIds_ and is *)
(* handed out again before the counter nextId_ is advanced.                *)
(*                                                                         *)
(* Every method takes one mutex and makes no call that waits, so it is one *)
(* step; the handlers of module Lobby compose several of them in a step.   *)
(***************************************************************************)
EXTENDS Integers, Sequences, Functions

CONSTANTS
  Sessions,   \* connections (UserSession objects) that may log in
  Names,      \* names of users, rooms and games
  K_START,    \* first id handed out, 0x1000 in the code
  IdLimit     \* 2^32: ids are unsigned and wrap at this value

ASSUME IdAssumption ==
  /\ K_START \in Nat \ {0}
  /\ IdLimit \in Nat
  /\ K_START < IdLimit

VARIABLES
  nextId,       \* std::atomic_uint32_t nextId_
  recycledIds,  \* ConcurrentQueue<uint32_t> recycledIds_, oldest first
  users,        \* id -> User
  rooms,        \* id -> Room
  games         \* id -> Game

dbVars == <<nextId, recycledIds, users, rooms, games>>

Ids == 0 .. IdLimit - 1

(* roomId_ of a user or of a game is 0 when it is in no room.  A user's    *)
(* roomId_ is a value-initialised atomic, so it starts at 0.               *)
User == [name : Names, room : Ids]
Room == [name : Names]
Game == [name : Names, room : Ids]

-----------------------------------------------------------------------------
(* getNextId: the oldest recycled id if there is one, else the counter.  A *)
(* counter below K_START (only after the 32-bit wrap) restarts at K_START. *)
GetNextId ==
  IF recycledIds # <<>> THEN Head(recycledIds)
  ELSE IF nextId < K_START THEN K_START ELSE nextId

(* What getNextId leaves behind. *)
TakeNextId ==
  IF recycledIds # <<>>
  THEN /\ recycledIds' = Tail(recycledIds)
       /\ UNCHANGED nextId
  ELSE /\ nextId' = (GetNextId + 1) % IdLimit
       /\ UNCHANGED recycledIds

(* users_[id] = ..., rooms_[id] = ..., games_[id] = ... *)
Add(table, id, object) ==
  [x \in DOMAIN table \cup {id} |-> IF x = id THEN object ELSE table[x]]

(* Variants: the entry is emptied, or left in the table. *)
EraseObject(table, id) == [table EXCEPT ![id] = [name |-> ""]]
EraseNothing(table, id) == table

(* The erase half of removeUser, removeRoom and removeGame; erasing an id  *)
(* that is not there does nothing.                                         *)
Erase(table, id) == Restrict(table, DOMAIN table \ {id})

(* Variants: the removal is followed by recycleId, or does not enqueue. *)
RecycleTwice(ids) ==
  /\ recycledIds' = recycledIds \o ids \o ids
  /\ UNCHANGED nextId
RecycleNothing(ids) == UNCHANGED <<recycledIds, nextId>>

(* The other half: the removed ids join the queue, in the order removed. *)
Recycle(ids) ==
  /\ recycledIds' = recycledIds \o ids
  /\ UNCHANGED nextId

(* getGameByName: the ids find_if may return.  The table is an unordered   *)
(* map, so which of several games of that name comes first is unspecified. *)
GamesNamed(name) == {g \in DOMAIN games : games[g].name = name}

EmptyTable == [id \in {} |-> id]

DbInit ==
  /\ nextId = K_START
  /\ recycledIds = <<>>
  /\ users = EmptyTable
  /\ rooms = EmptyTable
  /\ games = EmptyTable

(* Every id that is in a table. *)
LiveIds == DOMAIN users \cup DOMAIN rooms \cup DOMAIN games

DbTypeOK ==
  /\ nextId \in Ids
  /\ recycledIds \in Seq(Ids)
  /\ DOMAIN users \subseteq Ids /\ users \in [DOMAIN users -> User]
  /\ DOMAIN rooms \subseteq Ids /\ rooms \in [DOMAIN rooms -> Room]
  /\ DOMAIN games \subseteq Ids /\ games \in [DOMAIN games -> Game]

=============================================================================
