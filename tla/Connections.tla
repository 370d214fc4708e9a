---------------------------- MODULE Connections -----------------------------
(***************************************************************************)
(* The life of the connections: Server::listener, the construction and     *)
(* destruction of UserSession objects, and in each of them the reader      *)
(* (run, handleLogin, handleSession) with its login and idle timers, and   *)
(* the writer as far as it keeps the session alive (module Writer has the  *)
(* rest).                                                                  *)
(*                                                                         *)
(* A step runs from one co_await to the next.  A completed receive and a   *)
(* timer that ran out are queued handlers: cancel() does not reach them.   *)
(***************************************************************************)
EXTENDS Integers, FiniteSets

CONSTANTS
  Conns,            \* places for UserSession objects
  MaxConnections    \* -c, --connections

ASSUME ConnectionsAssumption ==
  /\ IsFiniteSet(Conns)
  /\ MaxConnections \in Nat \ {0}

VARIABLES
  running,   \* running_: the listener accepts
  count,     \* Server::connectionCount
  sess,      \* where the reader is suspended
  open,      \* conns whose socket_ is open
  peerUp,    \* conns whose client has not closed its end
  rx,        \* the async_receive: pending, or the result it is queued with
  armed,     \* the timer the reader has armed
  due,       \* conn -> timers that ran out and whose handlers are queued
  pending,   \* conns with packets in packets_
  writing    \* conns whose writer has not returned

vars == <<running, count, sess, open, peerUp, rx, armed, due, pending, writing>>

(* none: no object; login: handleLogin waits for the login packet;         *)
(* refusing: it writes the refusal; serving: handleSession waits for data  *)
(* (the user is in the table); ended: run returned, the writer remains.    *)
Stages == {"none", "login", "refusing", "serving", "ended"}
Timers == {"login", "idle"}

Connected == {c \in Conns : sess[c] \in {"login", "refusing", "serving"}}

-----------------------------------------------------------------------------
(* The listener. *)

HasRoom == count < MaxConnections

(* timer.expires_after and timer.async_wait. *)
ArmNothing(c, timer) == armed' = [armed EXCEPT ![c] = "none"]
Arm(c, timer) == armed' = [armed EXCEPT ![c] = timer]

(* A client is accepted: the session is constructed and run starts.  A     *)
(* place is used again once no handler of its last session is queued.      *)
Accept(c) ==
  /\ running /\ HasRoom
  /\ sess[c] = "none" /\ due[c] = {}
  /\ count' = count + 1
  /\ sess' = [sess EXCEPT ![c] = "login"]
  /\ open' = open \cup {c}
  /\ peerUp' = peerUp \cup {c}
  /\ rx' = [rx EXCEPT ![c] = "pending"]
  /\ Arm(c, "login")
  /\ writing' = writing \cup {c}
  /\ pending' = pending \ {c}
  /\ UNCHANGED <<running, due>>

(* "Too many connections, refusing client" changes nothing and accepts the *)
(* next one.  An accept error other than operation_aborted ends the loop   *)
(* for good; so does set_option on a client that is gone already: it       *)
(* throws, and the detached coroutine of the listener ends unnoticed.      *)
AcceptError ==
  /\ running
  /\ running' = FALSE
  /\ UNCHANGED <<count, sess, open, peerUp, rx, armed, due, pending, writing>>

-----------------------------------------------------------------------------
(* The client and the network. *)

ClientSends(c) ==
  /\ c \in peerUp /\ c \in open
  /\ sess[c] \in {"login", "serving"} /\ rx[c] = "pending"
  /\ rx' = [rx EXCEPT ![c] = "data"]
  /\ UNCHANGED <<running, count, sess, open, peerUp, armed, due, pending, writing>>

ClientCloses(c) ==
  /\ c \in peerUp
  /\ peerUp' = peerUp \ {c}
  /\ UNCHANGED <<running, count, sess, open, rx, armed, due, pending, writing>>

(* End of file or a reset reaches a waiting receive. *)
ReceiveFails(c) ==
  /\ sess[c] \in {"login", "serving"} /\ rx[c] = "pending"
  /\ c \notin peerUp
  /\ rx' = [rx EXCEPT ![c] = "error"]
  /\ UNCHANGED <<running, count, sess, open, peerUp, armed, due, pending, writing>>

-----------------------------------------------------------------------------
(* The timers.  timer.cancel() ends a wait that is armed; the handler of   *)
(* one that ran out stays queued and closes the socket.                    *)

TimerExpires(c) ==
  /\ armed[c] # "none"
  /\ due' = [due EXCEPT ![c] = @ \cup {armed[c]}]
  /\ armed' = [armed EXCEPT ![c] = "none"]
  /\ UNCHANGED <<running, count, sess, open, peerUp, rx, pending, writing>>

(* Closing the socket aborts the receive that waits on it.  On a session   *)
(* that is destroyed already (the handler holds no reference) the close    *)
(* goes to freed memory, which this model leaves without effect.           *)
TimerFires(c) ==
  \E timer \in due[c] :
    /\ due' = [due EXCEPT ![c] = @ \ {timer}]
    /\ open' = open \ {c}
    /\ rx' = IF rx[c] = "pending" /\ c \in open
             THEN [rx EXCEPT ![c] = "error"] ELSE rx
    /\ UNCHANGED <<running, count, sess, peerUp, armed, pending, writing>>

-----------------------------------------------------------------------------
(* The reader. *)

(* ~UserSession, when the last reference goes. *)
DestroyUncounted(c) ==
  /\ sess' = [sess EXCEPT ![c] = "none"]
  /\ open' = open \ {c}
  /\ UNCHANGED count

(* The count is taken down where run returns and here again. *)
DestroyCountedTwice(c) ==
  /\ sess' = [sess EXCEPT ![c] = "none"]
  /\ open' = open \ {c}
  /\ count' = count - 2

Destroy(c) ==
  /\ sess' = [sess EXCEPT ![c] = "none"]
  /\ open' = open \ {c}
  /\ count' = count - 1

(* run returns; the writer, if it still runs, keeps the session. *)
ReaderEnds(c) ==
  /\ Arm(c, "none")
  /\ rx' = [rx EXCEPT ![c] = "none"]
  /\ IF c \in writing
     THEN /\ sess' = [sess EXCEPT ![c] = "ended"]
          /\ UNCHANGED <<open, count>>
     ELSE Destroy(c)

(* handleSession's loop: arm the idle timer and receive, while the socket  *)
(* is open.                                                                *)
ReceiveNext(c) ==
  IF c \in open
  THEN /\ sess' = [sess EXCEPT ![c] = "serving"]
       /\ Arm(c, "idle")
       /\ rx' = [rx EXCEPT ![c] = "pending"]
       /\ UNCHANGED <<open, count>>
  ELSE ReaderEnds(c)

(* Variants that receive again after an error, whatever it is. *)
RetryReceive(c, timer) ==
  /\ Arm(c, timer)
  /\ rx' = [rx EXCEPT ![c] = IF c \in open THEN "pending" ELSE "error"]
  /\ UNCHANGED <<running, count, sess, open, peerUp, due, pending, writing>>
LoginFailsRetried(c) ==
  sess[c] = "login" /\ rx[c] \in {"data", "error"} /\ RetryReceive(c, "login")
ServingEndsRetried(c) ==
  sess[c] = "serving" /\ rx[c] \in {"data", "error"} /\ RetryReceive(c, "idle")

(* The receive of handleLogin failed, or what it read is no login packet. *)
LoginFails(c) ==
  /\ sess[c] = "login" /\ rx[c] \in {"data", "error"}
  /\ ReaderEnds(c)
  /\ UNCHANGED <<running, peerUp, due, pending, writing>>

(* The name is taken: the refusal is written to the socket directly. *)
LoginIsRefused(c) ==
  /\ sess[c] = "login" /\ rx[c] = "data"
  /\ sess' = [sess EXCEPT ![c] = "refusing"]
  /\ Arm(c, "none")
  /\ rx' = [rx EXCEPT ![c] = "none"]
  /\ UNCHANGED <<running, count, open, peerUp, due, pending, writing>>

RefusalWritten(c) ==
  /\ sess[c] = "refusing"
  /\ ReaderEnds(c)
  /\ UNCHANGED <<running, peerUp, due, pending, writing>>

LoginSucceeds(c) ==
  /\ sess[c] = "login" /\ rx[c] = "data"
  /\ pending' = pending \cup {c}
  /\ ReceiveNext(c)
  /\ UNCHANGED <<running, peerUp, due, writing>>

(* Packets were handled, or an exception was logged, and the loop goes on. *)
Serve(c) ==
  /\ sess[c] = "serving" /\ rx[c] = "data"
  /\ pending' \in {pending, pending \cup {c}}
  /\ ReceiveNext(c)
  /\ UNCHANGED <<running, peerUp, due, writing>>

(* End of file, an error, a packet that is refused or does not parse:      *)
(* handleSession returns and DisconnectUser takes the user off the table.  *)
ServingEnds(c) ==
  /\ sess[c] = "serving" /\ rx[c] \in {"data", "error"}
  /\ ReaderEnds(c)
  /\ UNCHANGED <<running, peerUp, due, pending, writing>>

-----------------------------------------------------------------------------
(* The writer. *)

(* Another user's handler sends this one a packet. *)
Notify(c) ==
  /\ sess[c] = "serving"
  /\ pending' = pending \cup {c}
  /\ UNCHANGED <<running, count, sess, open, peerUp, rx, armed, due, writing>>

WriteSucceeds(c) ==
  /\ c \in writing /\ c \in pending /\ c \in open
  /\ pending' = pending \ {c}
  /\ UNCHANGED <<running, count, sess, open, peerUp, rx, armed, due, writing>>

(* The writer returns, and takes the session with it if run has returned. *)
WriteFails(c) ==
  /\ c \in writing /\ c \in pending
  /\ c \notin open \/ c \notin peerUp
  /\ writing' = writing \ {c}
  /\ IF sess[c] = "ended" THEN Destroy(c) ELSE UNCHANGED <<sess, open, count>>
  /\ UNCHANGED <<running, peerUp, rx, armed, due, pending>>

-----------------------------------------------------------------------------
(* The acceptor is bound, or its constructor threw and the listener never  *)
(* starts to accept.                                                       *)
Init ==
  /\ running \in BOOLEAN
  /\ count = 0
  /\ sess = [c \in Conns |-> "none"]
  /\ open = {} /\ peerUp = {}
  /\ rx = [c \in Conns |-> "none"]
  /\ armed = [c \in Conns |-> "none"]
  /\ due = [c \in Conns |-> {}]
  /\ pending = {} /\ writing = {}

(* Steps the io_context takes for a connection without the client's help. *)
Reads(c) ==
  \/ LoginFails(c) \/ LoginIsRefused(c) \/ RefusalWritten(c) \/ LoginSucceeds(c)
  \/ Serve(c) \/ ServingEnds(c)

Writes(c) == WriteSucceeds(c) \/ WriteFails(c)

Next ==
  \/ AcceptError
  \/ \E c \in Conns :
       \/ Accept(c)
       \/ ClientSends(c) \/ ClientCloses(c) \/ ReceiveFails(c)
       \/ TimerExpires(c) \/ TimerFires(c)
       \/ Reads(c)
       \/ Notify(c) \/ Writes(c)

(* Queued handlers run, timers run out and end of file arrives; nothing is *)
(* assumed of the clients.  Fairness of the writes only strengthens what   *)
(* the run on released slots refutes.                                      *)
Fairness ==
  \A c \in Conns :
    /\ WF_vars(ReceiveFails(c))
    /\ WF_vars(TimerExpires(c)) /\ WF_vars(TimerFires(c))
    /\ WF_vars(Reads(c))
    /\ WF_vars(Writes(c))

Spec == Init /\ [][Next]_vars /\ Fairness

-----------------------------------------------------------------------------
TypeOK ==
  /\ running \in BOOLEAN
  /\ count \in 0 .. MaxConnections
  /\ sess \in [Conns -> Stages]
  /\ open \subseteq Conns /\ peerUp \subseteq Conns
  /\ rx \in [Conns -> {"none", "pending", "data", "error"}]
  /\ armed \in [Conns -> {"none"} \cup Timers]
  /\ due \in [Conns -> SUBSET Timers]
  /\ pending \subseteq Conns /\ writing \subseteq Conns

(* connectionCount counts the sessions that exist, through every order in  *)
(* which readers and writers end.                                          *)
CountIsSessions == count = Cardinality({c \in Conns : sess[c] # "none"})

(* A reader never waits where nothing can wake it: while it waits the      *)
(* socket is open and a timer is armed or its handler queued, also when a  *)
(* handler of an earlier timer closes the socket late.                     *)
ReaderIsWoken ==
  \A c \in Conns :
    sess[c] \in {"login", "serving"} /\ rx[c] = "pending"
      => c \in open /\ (armed[c] # "none" \/ due[c] # {})

(* Every login attempt ends, whatever the client does (the 3 s timer). *)
LoginEnds == \A c \in Conns : sess[c] = "login" ~> sess[c] # "login"

(* A user whose client sends no more is taken off the table (end of file   *)
(* or the 10 min timer), even if the connection died without a packet.     *)
IdleUserRemoved ==
  \A c \in Conns :
    []<><<ClientSends(c)>>_vars \/ []<>(sess[c] # "serving")

-----------------------------------------------------------------------------
(* What the repository says and the code does not do. *)

(* "Maximum number of connections" (README, --connections): with no client *)
(* connected the server has room for one.                                  *)
SlotsAreReleased == Connected = {} ~> (HasRoom \/ Connected # {})

=============================================================================
