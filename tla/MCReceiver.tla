----------------------------- MODULE MCReceiver -----------------------------
(* Constants for checking module Receiver with TLC. *)
EXTENDS Receiver

Info == NewSessionInfo(<<1, 49, 48, 5, 1>>)
BadInfo == [Info EXCEPT !.alwaysOne = 0]

LoginAs(name) ==
  [code |-> Login, raw |-> [value1 |-> 0, value4 |-> 0, name |-> name, info |-> Info]]
ListRooms == [code |-> 200, raw |-> [value4 |-> 0]]
Chat(data) ==
  [code |-> ChatRoom,
   raw  |-> [value0 |-> 1, value3 |-> 2, dataLength |-> Len(data), data |-> data]]
NewRoom(name, info) ==
  [code |-> CreateRoom,
   raw  |-> [value1 |-> 0, value4 |-> 0, dataLength |-> 2, data |-> <<65, 0>>,
             name |-> name, info |-> info]]
LoginReply == [code |-> 601, raw |-> [value1 |-> 1, error |-> 0]]
LongLength == [code |-> 1300, raw |-> [dataLength |-> MaxDataLength + 1]]

(* Of two bytes each in UTF-8. *)
Cyrillic(n) == [i \in 1 .. n |-> 223 + (i % 32)]

Ann == LoginAs(<<65>>)
Yana == LoginAs(<<223, 255>>)
OddPadding == [Ann EXCEPT !.raw.info.padding[PaddingSize] = 1]
LongName == LoginAs(Cyrillic((MaxNameLength \div 2) + 1))

(* Good streams, one with a character encode does not know and a zero      *)
(* inside a text, and one for each way to be malformed. *)
MCScripts ==
  {<<Yana, ListRooms, Chat(<<255, 150, 185, 0, 65, 0>>), ListRooms>>,
   <<Ann, NewRoom([i \in 1 .. MaxNameLength |-> 64 + i], Info), ListRooms>>,
   <<Ann, NewRoom(<<65>>, BadInfo), ListRooms>>,
   <<Ann, ListRooms, LoginReply, ListRooms>>,
   <<Ann, Chat(<<65, 66>>), ListRooms>>,
   <<Ann, Chat(Cyrillic((MaxDataLength \div 2) + 1) \o <<0>>), ListRooms>>,
   <<Ann, LongLength, ListRooms>>,
   <<LongName, ListRooms>>,
   <<OddPadding, ListRooms>>,
   <<ListRooms, Ann>>,
   <<[Ann EXCEPT !.raw = Restrict(@, {"name", "info"})], ListRooms>>}

(* Logins with names of every length that fits. *)
MCLogins == {<<Ann>>, <<Yana>>, <<LongName>>}
=============================================================================
