------------------------------- MODULE Writer -------------------------------
(***************************************************************************)
(* One session's outgoing packets: UserSession::sendPacket, the coroutine  *)
(* UserSession::writer and the timer timer_ the writer sleeps on.          *)
(*                                                                         *)
(* A step runs from one co_await to the next.  Packets are numbered in the *)
(* order of the calls of sendPacket; all calls come from one thread        *)
(* (module Server), so packets_ reuses one producer and is a FIFO queue.   *)
(***************************************************************************)
EXTENDS Integers, Sequences, Functions

CONSTANTS
  BatchMax,     \* most packets in one write, 16 in the code
  MaxPackets    \* bound: calls of sendPacket in a behaviour

ASSUME WriterAssumption ==
  /\ BatchMax \in Nat \ {0}
  /\ MaxPackets \in Nat

VARIABLES
  queue,   \* packets_
  batch,   \* packetBatch, being written
  wire,    \* what the peer receives
  count,   \* calls of sendPacket so far
  pc,      \* where the writer is suspended
  wait,    \* timer_: the pending wait, or the result its handler is queued with
  failed   \* a write failed

vars == <<queue, batch, wire, count, pc, wait, failed>>

(* start: spawned, not yet run; write: in async_write; sleep: in           *)
(* timer_.async_wait; done: returned.                                      *)
Locations == {"start", "write", "sleep", "done"}

Waits == {"none", "pending", "aborted", "expired"}

-----------------------------------------------------------------------------
(* How many packets join the batch. *)
CollectedOneMore == IF Len(queue) > BatchMax THEN BatchMax + 1 ELSE Len(queue)
CollectedOneLess == IF Len(queue) > BatchMax - 1 THEN BatchMax - 1 ELSE Len(queue)
Collected == IF Len(queue) > BatchMax THEN BatchMax ELSE Len(queue)

(* How many leave the queue: try_dequeue runs before the size of the batch *)
(* is tested, so when the batch is full and the queue is not empty one     *)
(* more packet is dequeued, and nobody keeps it.                           *)
Dequeued == IF Len(queue) > Collected THEN Collected + 1 ELSE Collected

(* A variant without packetBatch.clear(). *)
LoopNoClear ==
  IF queue # <<>>
  THEN /\ batch' = SubSeq(batch \o queue, 1, Len(batch) + Collected)
       /\ queue' = SubSeq(queue, Dequeued + 1, Len(queue))
       /\ pc' = "write"
       /\ wait' = "none"
  ELSE /\ pc' = "sleep"
       /\ wait' = "pending"
       /\ UNCHANGED <<queue, batch>>

(* From the top of the loop to the next co_await: write what was           *)
(* collected, or sleep when there was nothing.                             *)
Loop ==
  IF queue # <<>>
  THEN /\ batch' = SubSeq(queue, 1, Collected)
       /\ queue' = SubSeq(queue, Dequeued + 1, Len(queue))
       /\ pc' = "write"
       /\ wait' = "none"
  ELSE /\ batch' = <<>>
       /\ pc' = "sleep"
       /\ wait' = "pending"
       /\ UNCHANGED queue

Start ==
  /\ pc = "start"
  /\ Loop
  /\ UNCHANGED <<wire, count, failed>>

(* A variant without cancel_one. *)
SendPacketSilent ==
  /\ count < MaxPackets
  /\ count' = count + 1
  /\ queue' = Append(queue, count + 1)
  /\ UNCHANGED <<batch, wire, pc, wait, failed>>

(* sendPacket: enqueue, then cancel_one, which does nothing to a wait that *)
(* is over.                                                                *)
SendPacket ==
  /\ count < MaxPackets
  /\ count' = count + 1
  /\ queue' = Append(queue, count + 1)
  /\ wait' = IF wait = "pending" THEN "aborted" ELSE wait
  /\ UNCHANGED <<batch, wire, pc, failed>>

(* async_write wrote the whole batch. *)
WriteDone ==
  /\ pc = "write"
  /\ wire' = wire \o batch
  /\ Loop
  /\ UNCHANGED <<count, failed>>

(* async_write failed (peer reset, socket closed) after some of the batch. *)
WriteFailed ==
  /\ pc = "write"
  /\ \E n \in 0 .. Len(batch) : wire' = wire \o SubSeq(batch, 1, n)
  /\ batch' = <<>>
  /\ pc' = "done"
  /\ failed' = TRUE
  /\ UNCHANGED <<queue, count, wait>>

(* FLUSH_DELAY passes. *)
Expire ==
  /\ wait = "pending"
  /\ wait' = "expired"
  /\ UNCHANGED <<queue, batch, wire, count, pc, failed>>

(* A variant that tests if (ec) before it tests for operation_aborted. *)
WakeReturnsOnAbort ==
  /\ pc = "sleep"
  /\ \/ /\ wait = "expired" /\ Loop
     \/ /\ wait = "aborted" /\ pc' = "done" /\ wait' = "none"
        /\ UNCHANGED <<queue, batch>>
  /\ UNCHANGED <<wire, count, failed>>

(* The handler of the wait runs.  operation_aborted and no error both go   *)
(* back to the top of the loop; isShuttingDown_ is set by the destructor   *)
(* only, which cannot run while the writer holds the session.              *)
Wake ==
  /\ pc = "sleep"
  /\ wait \in {"aborted", "expired"}
  /\ Loop
  /\ UNCHANGED <<wire, count, failed>>

Init ==
  /\ queue = <<>> /\ batch = <<>> /\ wire = <<>>
  /\ count = 0
  /\ pc = "start"
  /\ wait = "none"
  /\ failed = FALSE

Next ==
  \/ Start
  \/ SendPacket
  \/ WriteDone
  \/ WriteFailed
  \/ Expire
  \/ Wake

(* The io_context runs a queued handler and a timer that is due; nothing   *)
(* is assumed of the network, so a write may stay pending for ever.        *)
Fairness == WF_vars(Start) /\ WF_vars(Expire) /\ WF_vars(Wake)

Spec == Init /\ [][Next]_vars /\ Fairness

-----------------------------------------------------------------------------
TypeOK ==
  /\ queue \in Seq(1 .. MaxPackets)
  /\ batch \in Seq(1 .. MaxPackets) /\ Len(batch) <= BatchMax
  /\ wire \in Seq(1 .. MaxPackets)
  /\ count \in 0 .. MaxPackets
  /\ pc \in Locations
  /\ wait \in Waits
  /\ failed \in BOOLEAN

Increasing(seq) == \A i, j \in DOMAIN seq : i < j => seq[i] < seq[j]

(* The peer receives packets in the order of the calls of sendPacket and   *)
(* none twice, and the batch and the queue continue that order.            *)
InOrder == Increasing(wire \o batch \o queue)

(* A packet queued while the writer sleeps is never left to FLUSH_DELAY:   *)
(* its wait is over and the handler that resumes it is queued.             *)
SendWakesWriter ==
  pc = "sleep" => wait # "none" /\ (queue # <<>> => wait # "pending")

Lost == (1 .. count) \ Range(wire \o batch \o queue)

(* A packet is lost only with the connection, or from a queue of more than *)
(* BatchMax packets.                                                       *)
LossNeedsFullBatch ==
  [][Lost' # Lost => Len(queue) > BatchMax \/ failed']_vars

(* No wakeup is lost: a queued packet makes the writer write, however      *)
(* sendPacket, the timer and the end of a write interleave.                *)
QueuedIsWritten == queue # <<>> ~> (pc = "write" \/ failed)

(* "Flush everything currently queued" (writer): while the connection      *)
(* lasts, every packet is on the wire, in the batch or in the queue.       *)
NothingLost == ~ failed => Lost = {}

=============================================================================
