# Worms 2 lobby server: TLA+ models and proofs

The server (C++23, Asio coroutines) lets clients of the game Worms 2 log in,
chat, open rooms and announce games. It keeps everything in memory and has no
persistence. This directory models its behaviour, checks the models with TLC
and proves the central invariants with TLAPS.

## The system

| Part | State | Operations | Module |
| --- | --- | --- | --- |
| Database (`src/database.cpp`) | `users_`, `rooms_`, `games_`, `nextId_`, `recycledIds_` | `getNextId`, add, remove, `getGameByName` | `Database` |
| Login, packet handlers, disconnection (`src/packet_handler.cpp`, `src/user_session.cpp`) | a user's room, a session's user | `handleLogin`, ten `On...` handlers, `LeaveRoom`, `DisconnectUser` | `Lobby` |
| Session writer (`src/user_session.cpp`) | `packets_`, `packetBatch`, `timer_` | `sendPacket`, `writer` | `Writer` |
| Session life cycle, listener (`src/user_session.cpp`, `src/server.cpp`) | `connectionCount`, `running_`, socket, login and idle timers, who holds the session | accept, `run`, receive, timers, destruction | `Connections` |
| Program, server (`main.cpp`, `src/server.cpp`) | the options, threads inside `ioContext_.run()` | `main`, `ParseCommandLineArguments`, `run`, `stop` | `Server` |
| Reading half of a session (`src/user_session.cpp`) | bytes in flight, the framed reader's buffer | `handleLogin`, `handleSession` up to the handlers | `Receiver`, `PacketStream` |
| Packet codec (`src/worms_packet.cpp`, `src/session_info.cpp`) | none | `readFrom`, `writeTo`, `getFlagsFromFields`, `verifySessionInfo` | `Codec` |
| Code pages (`include/windows_1251.hpp`, `windows_1252.hpp`) | none | `encode`, `decode` | `CodePage` |

**How the parts meet.** The listener constructs a `UserSession` per client; its
reader coroutine logs the user in (adding it to the tables), parses packets and
calls the handlers; handlers change the tables and call `sendPacket` on the
sessions of other users, which queues bytes for those sessions' writer
coroutines. All coroutines share one `io_context`, and a session lives as long
as its reader or its writer does.

**What is hard.** Ids of users, rooms and games come from one pool and are
reused, while users and games keep ids of rooms. A handler makes several locked
calls and is atomic only if no other thread runs handlers. Exceptions leave a
handler half way. Timers race the data they guard. Two coroutines share the
life of a session and of its slot in the connection limit. The writer sleeps and
must be woken. The network cuts the stream of packets anywhere, and one
receive may hold half a packet or several. Text changes its length with its
encoding. Numbers change their width. `PROJECT.json` lists these hazards at their lines, with the
properties that would show them going wrong.

## The modules

**`Database`** has the tables as functions from ids, the counter with its
32-bit wrap (`IdLimit` stands for 2^32, `K_START` for 0x1000) and the queue of
recycled ids. Every method is one locked step. `getGameByName` searches an
unordered map, so which of several games it finds is a nondeterministic choice.

**`Lobby`** has one action per handler, from its first check to its last
`sendPacket`: a handler suspends nowhere in between, and module `Server` shows
that no other handler runs meanwhile. A refused packet (`co_return false`) ends
the session, so `Rejected` performs `DisconnectUser` in the same step. An
exception (`Threw`) leaves the tables as they are at the throwing line: the id
drawn before `remote_endpoint()` throws is lost. The address can turn
unreadable between the two calls of `getAddress` in `OnCreateGame`; that
is one of its disjuncts. Requests are abstracted to the fields the handlers
compare: an absent optional is `None`; `fixedOk` stands for the checks on fields
with one acceptable value; the text of a chat message is reduced to its prefix,
the data of a game request to the kind of address it holds. Packets carry their
code, the ids they name and the second id or error. `EqualsCaseInsensitive`
compares `Fold` of the names, where `Fold` is any function.

The variables `listed` and `known` are the room list of a client that applies
every packet it is sent (external: the game's front end). A client that left a
room is told nothing about that room's closing and lists the rooms again.

**`Writer`** steps from one `co_await` to the next. The batch limit is
`BatchMax` (16 in the code). `Collected` and `Dequeued` differ because
`try_dequeue` precedes the test of the batch's size.

**`Connections`** has, for each session, where its reader is suspended, its
socket, the receive (pending, or queued with its result), the armed timer and
the timers whose handlers are queued, and whether its writer still runs.
`cancel()` ends an armed wait and does not reach a queued handler, which is how
Asio documents it. The handler of a timer that outlives its session captures
`this`; the code has no defined behaviour there, and the model lets it pass
without effect. A listener that ended (an accept error, an exception of
`set_option`) and one that never started (the port was taken) have `running`
false.

**`Server`** begins with `main`: `ParsePair` slides the window of two arguments
over the command line and converts numbers as the code does (`stoi` to `int`, to
`uint16_t` modulo 2^16, to `size_t`, where a negative number becomes a huge
one). Then it has the posted calls of `ioContext_.run()`, how deep each thread is
nested in `run()`, and which threads execute a handler. `run` posts the calls to
`ioContext_` itself, so only a thread that is inside `run()` can take them. `cores`
is what `hardware_concurrency()` returns on the machine at hand, any number of
`CoreCounts`, and that may be 0, the standard's answer for "not known". `main`
takes it as the number of threads without a test, so `run` may be called with 0,
and `threadCount - 1` wraps: in `RunWraps` the loop posts until memory is used up.

**`CodePage`** has the two code pages with their tables, UTF-8 of up to three
bytes a character, and `encode` and `decode`. Windows-1251 is decoded with a full
table and encoded with ranges that know ASCII, the Russian letters and the
numero sign (`Supported`); anything else becomes a question mark. `ComesBackAs` is
the byte each byte comes back as, and `Shown` a whole text that was decoded and
encoded.

**`Codec`** has packets as sequences of bytes. A packet is a code and a function
from the fields that are present. `ReadFrom` computes where each present field
lies (`Position`) and the status of each; the first one that is not complete,
in the order of the fields, is the result, which is what the code's sequence of
tests and early returns yields. `LengthIn` is the length that the data's place
depends on, read only when the flags announce it. 32-bit words are signed integers
with the same bits, because TLC's integers have 32 bits. `LaidOut` puts the fields
that are present one behind the other, for `WriteTo` as for the client. The
library's `packet_reader` and `packet_writer` are external.

**`Receiver`** is the reading half of one session over that codec. A client sends
the packets of a script as bytes; a receive takes any number of the bytes that
have arrived, up to the buffer's size. `ReceiveLogin` parses the whole
zero-filled buffer (`Incoming`) after one receive, as `handleLogin` does. The framed reader
(external: the library is not in the repository) keeps what is incomplete. A
handler returns true, returns false or throws; `catch` goes back to the receive.
The client sends nothing between its login and the reply (the game waits for it);
bytes that came with the login packet would be discarded. `IsItem` is what a packet
of a script must be: its fields have their types, and data come with their length.
`Wire` are the bytes of each packet, `Meaning` is the packet as the client means
it, and `Sizes` are the sums of the packets' lengths: they say which bytes of the
stream a state is about.

`Forwarded` is the packet the handlers make of a packet for the other clients.
`OnChatRoom` passes `message.data()`, a C string, so a text ends at its first zero.
`handleLogin` and `OnCreateRoom` send the name, a fresh id (`NewId`) and a
SessionInfo built by the server (`OwnInfo`), in which only the nation is the
client's; the data of a new room are empty. `OnCreateGame` forwards the user's
name and no text of its packet.

A login whose SessionInfo ends with something other than zeros is malformed. It
passes all the same when the receive ends before those bytes, because the buffer
of `handleLogin` has zeros in their place. `Astray` names that case: the rest of
the login is then read as packets of its own, wherever that leads. The model goes
on as the code does; `LoginIsWhole`, `ReadsAsMeant` and `TypeOK` hold there as
anywhere, and the properties about the packets behind the login except it by name.

**`PacketStream`** is what `Receiver` implements: the handlers get the client's
packets in order, each once, and then the session ends. The refinement maps
`meant` to the script's packets up to the first malformed one, as the client
means them, and `delivered` to what was handled. A stream that goes astray ends,
seen from there, with the login that passed.

## The runs

| Run | Instance | Shows |
| --- | --- | --- |
| `lobby` | 2 sessions, names `ann`, `ANN`, `bob`, ids 1 to 4 | `TypeOK`, `IdsUnique`, `SessionsMatch`, `RoomRefsLive`, `NamesUnique`, `RoomListsAgree`, `IdsConserved` |
| `lobby_hosts` | 2 sessions, 2 names | refutes `GamesHaveHosts` |
| `lobby_abandoned` | 2 sessions, 2 names | refutes `AbandonedRoomClosed` |
| `writer` | batches of 2, 7 packets | `TypeOK`, `InOrder`, `SendWakesWriter`, `LossNeedsFullBatch`, `QueuedIsWritten` |
| `writer_loss` | batches of 2, 6 packets | refutes `NothingLost` |
| `connections` | 2 places, limit 2 | `TypeOK`, `CountIsSessions`, `ReaderIsWoken`, `LoginEnds`, `IdleUserRemoved` |
| `connections_slots` | 2 places, limit 1 | refutes `SlotsAreReleased` |
| `server` | 0 or 4 cores, command lines of up to 4 arguments | `TypeOK`, `OptionsInRange`, `OneHandlerAtATime`, `StopEnds` |
| `server_threads` | 4 cores, `-t` 1, 2 and 4 | refutes `AllThreadsServe` |
| `receiver` | 11 scripts of 2 to 4 packets, every cut | `TypeOK`, `ReadsAsMeant`, `LoginIsWhole`, `OnlyMalformedRefused`, `ArrivedIsHandled`, `ForwardedAsRead`, `DeliversStream` (the refinement) |
| `login_segments` | 3 logins | refutes `LoginIsAwaited` |
| `names` | 3 logins | refutes `NamesFit` |

**Bounds.** Four ids hold two users, a room and a game at once, or one user with
two games and a room, and every further creation reuses an id; `IdsLeft` stops
fresh ids before the wrap. Three names give two users and a third name that
collides with one of them up to case. `MCView` drops the variables no action
reads (the packets of the last step and its exception), and
`MCSymmetry` exchanges sessions and the two names that fold to one. Seven packets
against batches of two give full batches, a lost packet and a short batch in one
behaviour. Two sessions share nothing but the count, and each goes through every
order of its receives, timers and writes. Command lines of four arguments hold
two options with their values, an option as the value of another, and an option
at the end; the numbers lie on both sides of each test. `IntLimit` and
`SizeLimit` stand for 2^31 and 2^64, which are beyond TLC's integers. Three queued
handlers and three posted calls of `run()` interleave in every order. The sizes
of `Receiver` are the code's (names of 20 bytes, padding of 35, buffers of 1024
and 2048), except `MaxDataLength`, which is 32 instead of 512 to keep the cuts
countable. The scripts are two good streams and one for each way to be malformed.
Of the good ones, one has a chat line with a character `encode` does not know and a
zero inside, the other a room with a name of full length. The malformed packets
have a wrong check byte, a login's padding that is not zero (with every cut, so also
with the one that lets it pass), an unknown code, data without a zero at the end, data and
names that are too long as UTF-8, a length that is too big; or the first packet
is no login or lacks fields. `NewId` is one id: what is read of a packet does not
depend on it. With `CoreCounts` 0 and 4 a machine has several cores or does not say.

**Deadlock** is checked in the lobby runs. It is off in `Writer`, where the
writer may have returned with nothing left to send, in `Connections`, where the
listener may have ended after an accept error, in `Server`, which exits,
and in `Receiver`, where a session ends.

**Fairness.** `Lobby` and `Receiver` state none. In `Writer` and `Connections`
queued handlers run and timers run out, because the `io_context` runs on; nothing
is assumed of clients or, in `Writer`, of the network. `Connections` also assumes
that a write to an open socket ends, which only strengthens what
`connections_slots` refutes. `IdleUserRemoved` says that a client that does not
send for ever is removed again and again. In `Server` a handler ends, `run()`
returns after `stop`, and a posted call gets its turn (strong fairness, since
the queue is served in order); a signal need not come.

## What the refuted properties show

- `GamesHaveHosts`: `DisconnectUser` closes one game of the user's name
  ("Close abandoned game"), and `OnCreateGame` lets a user create several. The
  others stay in the lobby, and they keep their room open.
- `AbandonedRoomClosed`: with a game, `DisconnectUser` leaves the game's room.
  A host that joined another room since leaves that one open and empty ("Close
  abandoned room"). `AbandonedRoomClosed` fails in six states.
- `NothingLost`: the 17th packet of a queue is dequeued and dropped.
- `SlotsAreReleased`: `isShuttingDown_` is set by the destructor only, which waits
  for the writer, which waits for `isShuttingDown_`. A session whose user left
  with nothing to write stays counted.
- `AllThreadsServe`: whatever `--threads` says, the main thread alone serves.

- `LoginIsAwaited`: `handleLogin` receives once. A login packet that TCP delivers
  in two segments is parsed with zeros in place of the second one and refused
  (or accepted, if only zeros were missing: then the rest of it is read as the
  next packet, which ends the session; `OnlyMalformedRefused` names this case). What
  may be missing is at most the zero and the padding at the end (`LoginIsWhole`).
- `NamesFit`: a name has room for 20 characters, and its length is tested again as
  UTF-8, where Cyrillic characters take two bytes. Russian names of more than ten
  letters cannot log in.

More observations that need no run, because each is a step of a model as it is:

- In `OnCreateGame`, after a successful creation control falls through to a
  second reply that refuses the game. And `make_address` throws `system_error`,
  which `catch (const error_code&)` does not catch, so a bad address leaves the
  request unanswered instead of ending the session.
- `timer.cancel()` in `handleLogin` does not reach a handler that is queued
  already: a login timer that ran out just before the packet was handled closes
  the socket of the user who logged in (`TimerFires` after `LoginSucceeds`).
- A login whose padding is not zero is refused as malformed when it arrives whole
  and taken when its last bytes come in a second segment, which is then read as
  packets (`Astray`).
- Where `hardware_concurrency()` is 0, the thread count is 0 whatever `--threads`
  says: the server posts calls without end and never serves (`RunWraps`); the constructor of `Server`
  guards the same number with `std::max(1U, ...)`.
- A chat line with a zero inside reaches the others up to that zero (`Forwarded`).
- The test for an exhausted id pool in `getNextId` follows the assignment that
  makes it false, so a counter that wrapped hands out ids in use.
- `--help` as the last argument is not seen, and a negative `--connections` turns
  the limit off (`ParseHelp`, `ConnectionsOf`).

## What is proved

`LobbyProofs` proves, for every set of sessions and of names, every `Fold`,
`K_START` and `IdLimit` with 0 < `K_START` < `IdLimit`, and `None` not a number:

| Theorem | Property |
| --- | --- |
| `TypeCorrect` | `TypeOK` |
| `IdsAreUnique` | `IdsUnique` |
| `SessionsMatchUsers` | `SessionsMatch` |
| `RoomReferencesAreLive` | `RoomRefsLive` |
| `NamesAreUnique` | `NamesUnique` |

The inductive invariant `IInv` is their conjunction and `nextId >= K_START`.
None of them is inductive alone. `RoomRefsLive` needs `IdsUnique`: `LeaveRoom`
exempts the departing *id* from its search for others in the room, which is sound
only if that id names one thing. `IdsUnique` needs `SessionsMatch`: a
disconnection puts an id in the queue, which is right only if the id was in the
table. The lower bound on the counter says that `getNextId` never takes its
restart branch before the wrap. The theorems are about lobbies that stop short
of the wrap (the guard `IdsLeft`).
The argument: lemmas about the queue (`TailOfInjective`, `ConcatOfInjective`)
give `DrawnIdIsNew` and `RecycledIdsWait`; one lemma per action shows that it
keeps `StepInv`, the part of `IInv` about tables and packets; `ObserveTyped` adds
the clients' room lists; `NextIInv` combines them.

`ServerProofs` proves `HandlersDoNotOverlap` (`OneHandlerAtATime`) for every
number of threads, from `OnlyMain`: no thread but the main one is ever inside
`ioContext_.run()`. This is the fact the atomicity of the other modules rests on.

It also proves `OptionsAreSafe` (`OptionsInRange`) for every set of command
lines, numbers of cores (0 included) and widths of the integers: what is left of the command
line stays a sequence of arguments (`ArgsInv`), and `ValuesInRange` shows that
each of the three tests leaves a value in range for every number `stoi` returns.
`run` subtracts one from the thread count; the theorem says that this wraps where
`hardware_concurrency()` is 0 and nowhere else, whatever `--threads` says.

`CodePageProofs` proves that UTF-8 gives every code point of up to three bytes
back with its length (`Utf8RoundTrip`), and `TextComesBack`: for a text of any bytes
and any length and both code pages, `EncodeString` makes of `DecodeString`'s text
the text `Shown`, the same but for the characters that `encode` does not know. `DecodeString` joins one character after
the other and `EncodeString` runs from the end of the text to its start; the lemmas
`FlattenIs` (where each part is in what is joined) and `EncodeIsWritten` (what
`EncodeString` is at each position) open the two definitions, `CharComesBack` is
the case of one character, and `CountUp` goes through the text. `CountUp` takes
the place of induction: a set of numbers has a least element (`LeastNumber`), so
one that holds 0 and steps up holds them all.

`LobbyStepProofs` proves `IdsAreConserved` (`IdsConserved`) and
`RoomListsAreRight` (`RoomListsAgree`) for every lobby. The first has one lemma
per handler: what leaves a table is in the queue afterwards, and what
`getNextId` draws is in a table, unless `getAddress` throws in between. It uses
`IInv`, because a recycled id must have been in a table. The second needs the
inductive invariant `ListInv`: the lists agree, *and* whoever holds a list is
logged in. Without the second half a session could log in with the list of its
previous user. `EveryoneTold` is what each handler must do: a step tells every
client whose list is kept of each room that opens or closes, and of no other id.
An id that is reused for a room in a later step is safe because the room before it
was told closed (`CloseTells`); an id 0 in a packet names nothing because ids
start at `K_START` (`ZeroNamesNothing`).

`ServerProofs` also proves `ServerTypeCorrect` (`TypeOK`). That the calls of
`run()` nest at most as deep as there are cores needs `OnlyMain`, the thread count
that `OptionsInRange` bounds, and `Nesting`: posted calls and calls under way are
together no more than the thread count.

`ConnectionsProofs` proves `ConnectionsTypeCorrect`, `CountIsExact`
(`CountIsSessions`) and `EveryReaderIsWoken` (`ReaderIsWoken`) for any finite
set of places and any limit. Their conjunction is inductive. `CountIsExact` needs
the types, since a session is destroyed by whichever of reader and writer ends last and
each step must find it counted. `EveryReaderIsWoken` needs that a reader waits
only on an open socket: a timer handler that fires late then finds no receive to
abort, and one that fires in time aborts it.

`WriterProofs` proves `WriterTypeCorrect`, `PacketsStayInOrder` (`InOrder`),
`NoPacketSleeps` (`SendWakesWriter`) and the action property `LossIsExplained`
(`LossNeedsFullBatch`) for every batch limit and number of packets. The order on
the socket is inductive only together with that of the batch and the queue
behind it (`Ordered`), with the fact that every packet in any of the three was
sent, and with an empty batch outside a write. `NoPacketSleeps` is the safety
half of `QueuedIsWritten`: while packets are queued, the writer's wait has ended.

`CodecProofs` proves two facts about `readFrom` for every sequence of bytes and
every limit: `MoreBytesChangeNothing` (a packet found complete or malformed stays
so, with the same content and size, however many bytes follow) and `CompleteFits`
(a complete packet lies within the bytes given and is no shorter than its
header, so the reader never stands still). They are why a cut of the stream
cannot change what is read: only "partial" depends on it. It also proves how a
packet is laid out and read again: `readLe` undoes `writeLe` (`WordIsRead`), the
flags give the set of fields back (`FlagsAreRead`), each field is where `Position`
looks for it (`LayoutIs`), and what is there is read whatever stands around it
(`PlacedWordIsRead`, `NameIsRead`, `InfoIsRead`).

`ReceiverProofs` lifts all this to the stream, for every set of scripts, both
buffer sizes and every cut:

| Theorem | Property |
| --- | --- |
| `PacketsAreRead` | `ReadsAsMeant` |
| `ForwardedIsRead` | `ForwardedAsRead` |
| `ReceiverTypeCorrect` | `TypeOK` |
| `LoginArrivesWhole` | `LoginIsWhole` |
| `OnlyMalformedIsRefused` | `OnlyMalformedRefused` |
| `NothingWaitsUnread` | `ArrivedIsHandled` |
| `StreamIsDelivered` | `DeliversStream`, the refinement of `PacketStream` |

`PacketsAreRead` is about one packet that stands alone (`ItemIsRead`): field by
field, what is read is what is meant, and it is valid when it fits the format
(`FieldIsRead`); a length that is wrong moves nothing that is read before the
packet is refused. `IsItem` is all it asks of a packet: any code, any set of fields
with contents of their types, and data together with their length.
`ForwardedIsRead` shows that what `writeTo` makes of `Forwarded` is again the bytes
of such a packet, a well-formed one with the text `Shown` in place of the client's
(`LoginIsToldOf`, `RoomIsToldOf`, `ChatIsToldOf`, from `TextComesBack`), and
`ToldIsRead` reads it.

The inductive invariant `StreamInv` says where the bytes that are left begin:
either where the packet after the handled ones begins (`Aligned`), or inside the
zeros of a login that was taken for a whole one (`CutLogin`), from where no packet
is ever read because no code begins with a zero byte (`ZeroIsNoCode`). It also says
that what is handled is what was meant, that a reader that waits has a buffer
that is "partial" (unless a handler threw) and one that gave up has a buffer that
is malformed. One lemma per action carries it; `AheadSend` and `AheadHandle` move
its two ends. The step of `ReceiveLogin` rests on `MissingAreZeros`: a login needs
a SessionInfo, which is the last field of every packet, and a valid one has its
`alwaysOne` where it must be, so what did not come in time lies behind that byte,
in what ends with zeros.

None of these theorems has a hypothesis about the client. Two invariants share the
work, `ReaderInv`: `StreamInv` holds of every stream whose login, if it has a
SessionInfo, ends with zeros (`ZeroPadding`; so does every well-formed one,
`WellFormedEndsWithZeros`), and `LoginInv` holds of every stream at all. The
latter says that the reader waits for the login with an empty buffer, that no
packet is received before a login passed, and that the login that passed is
whole but for its last zeros: `LoginIsRead` compares the buffer with the bytes of
the same login with zeros at its end (`InfoIsFilled`, `FilledMeans`), of which
`handleLogin` has seen as much as it needs to see (`LoginReached`). Where the
login does not end with zeros, only `LoginInv` is left once it passed, and the
stream is `Astray`; `AstrayCloses` shows that the abstract stream ends there.

**Only model-checked.** All liveness (`QueuedIsWritten`, `LoginEnds`,
`IdleUserRemoved`, `StopEnds`), which is beyond the proof system. The properties that runs refute are
not true and have no theorem.

## Not modelled

- The list of nations (an enumeration), `InitializeLogging` and every log line.
- `encodeStrict` of the code pages and `Database::recycleId`, which nothing calls.
- Memory exhaustion (`RunWraps` stops where it begins) and `database not
  initialized`, which cannot happen after the static initialisation.
- The wrap of the id counter, see above.
- A handler of a timer that runs after its session is destroyed has no defined
  behaviour in C++; the model shows the order and gives it no effect.

## Plan

Every safety invariant and action property of the passing runs is proved, and the
refinement. What is left are models of what is listed above, if the code comes to
use it, and a second look at each run that refutes a property when the code it is
about changes: the run must then pass, and its property gets a theorem.
