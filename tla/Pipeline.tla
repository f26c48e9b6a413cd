------------------------------- MODULE Pipeline -------------------------------
(***************************************************************************)
(* kernel: the way of an event from the outbox of one service to the work  *)
(* of another.  OutboxRelay and Inbox run side by side; what the broker    *)
(* accepts from the relay is a delivery that waits in the consumer's       *)
(* queue, so that the duplicates are those the relay really makes.  That   *)
(* the durable queue is bound to the relay's exchange, loses nothing it    *)
(* has confirmed and parks what it gives up is assumed of RabbitMQ, and    *)
(* that it closes no relay's channel (OutboxRelay says what then happens). *)
(***************************************************************************)
EXTENDS Integers, Sequences, FiniteSets

CONSTANTS
  Events, Workers, OccurredAt, AggregateOf, BatchSize, LeaseFor, Backoffs, MaxStall,
  MaxRelayFaults,
  Handlers, Pods, PodOf, NoMessage, NoPod, DeliveryLimit, MaxInboxFaults

VARIABLES
  status, wait, lease, workerPc, batch, age, stream, relayFaults, overran,
  copies, parked, record, handlerPc, msg, attempt, seen, work, inboxFaults, everExpired

relayVars == <<status, wait, lease, workerPc, batch, age, stream, relayFaults, overran>>
handlerVars == <<parked, record, handlerPc, msg, attempt, seen, work, inboxFaults, everExpired>>
vars == <<relayVars, copies, handlerVars>>

Outbox == INSTANCE OutboxRelay
  WITH Rows <- Events, pc <- workerPc, faults <- relayFaults, MaxFaults <- MaxRelayFaults,
       Closable <- {}, closed <- {}

Consumer == INSTANCE Inbox
  WITH Messages <- Events, pc <- handlerPc, faults <- inboxFaults, MaxFaults <- MaxInboxFaults,
       MaxCopies <- 1

(* What the two parts assume of their constants. *)
ASSUME PipelineAssumption == Outbox!RelayAssumption /\ Consumer!InboxAssumption

Init ==
  /\ Outbox!Init
  /\ Consumer!InitInbox
  /\ copies = Consumer!Fresh([m \in Events |-> 0])

(* What the broker accepts waits in the queue. *)
Queued ==
  /\ copies' = IF stream' = stream THEN copies
               ELSE [copies EXCEPT ![stream'[Len(stream')]][1] = @ + 1]
  /\ UNCHANGED handlerVars

Relay(w) == Outbox!Work(w) /\ Queued

Consume(h) == Consumer!Handle(h) /\ UNCHANGED relayVars

Next ==
  \/ Outbox!Next /\ Queued
  \/ Consumer!Next /\ UNCHANGED relayVars

(* What both modules assume of their own parts. *)
Fairness ==
  /\ \A w \in Workers : WF_vars(Relay(w)) /\ WF_vars(Outbox!Restart(w) /\ Queued)
  /\ WF_vars(Outbox!Elapse /\ Queued)
  /\ \A h \in Handlers : WF_vars(Consume(h))
  /\ \A m \in Events :
       /\ SF_vars((\E h \in Handlers : Consumer!Deliver(h, m)) /\ UNCHANGED relayVars)
       /\ WF_vars(Consumer!LeaseExpires(m) /\ UNCHANGED relayVars)

Spec == Init /\ [][Next]_vars /\ Fairness

-----------------------------------------------------------------------------
(* Properties.                                                               *)

(* A row is marked PUBLISHED and never looked at again: from then on its event
   is in the queue, with a handler or in the dead-letter queue until its work is
   done. *)
PublishedIsInGoodHands ==
  \A m \in Events : status[m] = "PUBLISHED" => Consumer!InGoodHands(m)

Delivery == INSTANCE EventDelivery
  WITH committed <- {m \in Events : status[m] # "ABSENT"}, effects <- work, lapsed <- everExpired

(* "At-least-once, never at-most-once" and "an event is processed once" from
   end to end: through lost confirms, duplicates, crashes of relay and consumer
   and expired leases on either side, every committed event is handled or parked
   in the dead-letter queue, and handled twice only if the lease of a claim on it
   ran out first, the claimant being slow or dead. *)
ImplementsDelivery == Delivery!Spec

=============================================================================
