---------------------------- MODULE PacketStream ----------------------------
(***************************************************************************)
(* What the reading half of a session promises: the packets of the client  *)
(* reach the handlers in order, each once and as it was meant, until the   *)
(* session ends.  Bytes, buffers and the way the network cuts the stream   *)
(* are not seen here.                                                      *)
(***************************************************************************)
EXTENDS Sequences, Naturals

VARIABLES
  meant,      \* the packets the client sends
  delivered,  \* the packets the handlers were given
  open        \* the session goes on

vars == <<meant, delivered, open>>

Init ==
  /\ delivered = <<>>
  /\ open = TRUE

(* The next packet, which may be the last one the session handles. *)
Deliver ==
  /\ open
  /\ Len(delivered) + 1 \in DOMAIN meant
  /\ delivered' = Append(delivered, meant[Len(delivered) + 1])
  /\ open' \in BOOLEAN
  /\ UNCHANGED meant

Close ==
  /\ open
  /\ open' = FALSE
  /\ UNCHANGED <<meant, delivered>>

Next == Deliver \/ Close

Spec == Init /\ [][Next]_vars

=============================================================================
