-------------------------------- MODULE Inbox --------------------------------
(***************************************************************************)
(* The kernel's Inbox for one consumer group: claim and complete, used by  *)
(* several handlers that the broker delivers messages to.  No consumer is  *)
(* part of the repository yet; the handler around the inbox is the one its *)
(* comments prescribe: claim, then the business write and complete in one  *)
(* transaction, then ack; nack when claim throws ConcurrentDeliveryError   *)
(* or the transaction aborts.  The queue is the one docs/EVENTS.md section *)
(* 3 declares: a copy of a message is delivered DeliveryLimit times at     *)
(* most, and what comes back after that is parked in a dead-letter queue.  *)
(*                                                                         *)
(* Left out: the 30-day purge of processed records, resultRef, the delays  *)
(* of the retry ladder and an operator's replay of a parked message.  A    *)
(* lease is live or expired; clocks agree (isLeaseExpired reads the stamp).*)
(*                                                                         *)
(* A definition named Faulty_... is a bug the properties must notice: it   *)
(* takes no part in the specification.                                     *)
(***************************************************************************)
EXTENDS Naturals, FiniteSets

CONSTANTS
  Messages,   \* messageIds
  Handlers,   \* concurrent deliveries
  Pods,       \* values of claimedBy
  PodOf,      \* the pod a handler runs in
  NoMessage,
  NoPod,
  DeliveryLimit,  \* x-delivery-limit: deliveries of one copy before it is parked
  MaxCopies,  \* bound: copies of one message in the queue at the start
  MaxFaults   \* bound: crashes and aborts in a behaviour

ASSUME InboxAssumption ==
  /\ PodOf \in [Handlers -> Pods]
  /\ NoMessage \notin Messages
  /\ NoPod \notin Pods
  /\ DeliveryLimit \in Nat \ {0}
  /\ MaxCopies \in Nat \ {0}
  /\ MaxFaults \in Nat

VARIABLES
  copies,   \* copies of a message in the queue that wait for their k-th delivery
  parked,   \* messages with a copy in the dead-letter queue
  record,   \* processed_messages, by messageId
  pc,       \* where a handler stands
  msg,      \* the message a handler was given
  attempt,  \* the how manieth delivery of that copy it is
  seen,     \* claimedBy of the record a handler read
  work,     \* how often a message's business write was committed
  faults,   \* how many crashes and aborts there have been
  everExpired  \* messages with a claim whose lease ran out before they were done

delivery == <<copies, parked, msg, attempt>>
history == <<faults, everExpired>>
vars == <<delivery, record, pc, seen, work, history>>

Attempts == 1..DeliveryLimit

Absent == [state |-> "ABSENT", claimedBy |-> NoPod, live |-> FALSE]

Records == [state : {"IN_PROGRESS", "SUCCEEDED"}, claimedBy : Pods, live : BOOLEAN]

-----------------------------------------------------------------------------

InitInbox ==
  /\ record = [m \in Messages |-> Absent]
  /\ pc = [h \in Handlers |-> "idle"]
  /\ parked = {}
  /\ msg = [h \in Handlers |-> NoMessage]
  /\ attempt = [h \in Handlers |-> 0]
  /\ seen = [h \in Handlers |-> NoPod]
  /\ work = [m \in Messages |-> 0]
  /\ faults = 0
  /\ everExpired = {}

(* n[m] fresh copies of each message m. *)
Fresh(n) == [m \in Messages |-> [k \in Attempts |-> IF k = 1 THEN n[m] ELSE 0]]

(* At-least-once delivery: a message may have been published more than once. *)
Init == InitInbox /\ \E n \in [Messages -> 1..MaxCopies] : copies = Fresh(n)

Step(h, from, to) == pc[h] = from /\ pc' = [pc EXCEPT ![h] = to]

(* The handler is free again. *)
Finish(h) ==
  /\ pc' = [pc EXCEPT ![h] = "idle"]
  /\ msg' = [msg EXCEPT ![h] = NoMessage]
  /\ attempt' = [attempt EXCEPT ![h] = 0]
  /\ seen' = [seen EXCEPT ![h] = NoPod]

Requeue(h) ==
  /\ attempt[h] < DeliveryLimit
  /\ copies' = [copies EXCEPT ![msg[h]][attempt[h] + 1] = @ + 1]
  /\ UNCHANGED parked

Faulty_Park(h) ==   \* the queue has no dead-letter exchange
  attempt[h] = DeliveryLimit /\ UNCHANGED <<copies, parked>>

(* The copy has used up its deliveries. *)
Park(h) ==
  /\ attempt[h] = DeliveryLimit
  /\ parked' = parked \cup {msg[h]}
  /\ UNCHANGED copies

Nack(h) == Finish(h) /\ (Requeue(h) \/ Park(h))

Deliver(h, m) ==
  /\ Step(h, "idle", "insert")
  /\ \E k \in Attempts :
       /\ copies[m][k] > 0
       /\ copies' = [copies EXCEPT ![m][k] = @ - 1]
       /\ attempt' = [attempt EXCEPT ![h] = k]
  /\ msg' = [msg EXCEPT ![h] = m]
  /\ UNCHANGED <<parked, record, seen, work, history>>

-----------------------------------------------------------------------------
(* claim: the insert is the check.                                           *)

Faulty_Claimed(h) == Absent   \* a first delivery proceeds without a record

Claimed(h) == [state |-> "IN_PROGRESS", claimedBy |-> PodOf[h], live |-> TRUE]

Insert(h) ==
  /\ Step(h, "insert", "work")
  /\ record[msg[h]] = Absent
  /\ record' = [record EXCEPT ![msg[h]] = Claimed(h)]
  /\ UNCHANGED <<delivery, seen, work, history>>

DuplicateKey(h) ==
  /\ Step(h, "insert", "read")
  /\ record[msg[h]] # Absent
  /\ UNCHANGED <<delivery, record, seen, work, history>>

Faulty_Handled(m) == record[m] # Absent   \* a claim in progress is acked as well

Handled(m) == record[m].state = "SUCCEEDED"

(* Handled before: the caller acks without redoing the work. *)
ReadSucceeded(h) ==
  /\ Step(h, "read", "ack")
  /\ Handled(msg[h])
  /\ UNCHANGED <<delivery, record, seen, work, history>>

Faulty_LeaseExpired(m) == TRUE   \* any claim in progress is taken over

LeaseExpired(m) == ~record[m].live

ReadExpired(h) ==
  /\ Step(h, "read", "reclaim")
  /\ ~Handled(msg[h])
  /\ LeaseExpired(msg[h])
  /\ seen' = [seen EXCEPT ![h] = record[msg[h]].claimedBy]
  /\ UNCHANGED <<delivery, record, work, history>>

(* ConcurrentDeliveryError. *)
ReadClaimed(h) ==
  /\ pc[h] = "read"
  /\ ~Handled(msg[h])
  /\ ~LeaseExpired(msg[h])
  /\ Nack(h)
  /\ UNCHANGED <<record, work, history>>

(* The filter of findOneAndUpdate: claimedBy, and neither the state nor the
   lease that were read before. *)
StillTheSame(h) == record[msg[h]].claimedBy = seen[h]

Reclaim(h) ==
  /\ Step(h, "reclaim", "work")
  /\ StillTheSame(h)
  /\ record' = [record EXCEPT ![msg[h]] = [Claimed(h) EXCEPT !.state = record[msg[h]].state]]
  /\ UNCHANGED <<delivery, seen, work, history>>

ReclaimLost(h) ==
  /\ pc[h] = "reclaim"
  /\ ~StillTheSame(h)
  /\ Nack(h)
  /\ UNCHANGED <<record, work, history>>

-----------------------------------------------------------------------------
(* The handler's transaction and the broker.                                 *)

Faulty_Completed(m) == record[m]   \* complete outside the transaction, and lost

Completed(m) == [record[m] EXCEPT !.state = "SUCCEEDED"]

(* The business write and complete commit together. *)
Complete(h) ==
  /\ Step(h, "work", "ack")
  /\ record' = [record EXCEPT ![msg[h]] = Completed(msg[h])]
  /\ work' = [work EXCEPT ![msg[h]] = @ + 1]
  /\ UNCHANGED <<delivery, seen, history>>

Ack(h) ==
  /\ pc[h] = "ack"
  /\ Finish(h)
  /\ UNCHANGED <<copies, parked, record, work, history>>

(* The transaction aborts, a call throws anything else or the pod dies: an
   unacked message comes back, the claim stays until its lease runs out. *)
Crash(h) ==
  /\ pc[h] # "idle"
  /\ faults < MaxFaults
  /\ faults' = faults + 1
  /\ Nack(h)
  /\ UNCHANGED <<record, work, everExpired>>

LeaseExpires(m) ==
  /\ record[m].live
  /\ record' = [record EXCEPT ![m].live = FALSE]
  /\ everExpired' = IF Handled(m) THEN everExpired ELSE everExpired \cup {m}
  /\ UNCHANGED <<delivery, pc, seen, work, faults>>

-----------------------------------------------------------------------------

Handle(h) ==
  \/ Insert(h) \/ DuplicateKey(h) \/ ReadSucceeded(h) \/ ReadExpired(h)
  \/ ReadClaimed(h) \/ Reclaim(h) \/ ReclaimLost(h) \/ Complete(h) \/ Ack(h)

Next ==
  \/ \E h \in Handlers : (\E m \in Messages : Deliver(h, m)) \/ Handle(h) \/ Crash(h)
  \/ \E m \in Messages : LeaseExpires(m)

(* A handler that was given a message goes on; the queue is first in, first
   out, so no message is passed over for ever; leases run out. *)
Fairness ==
  /\ \A h \in Handlers : WF_vars(Handle(h))
  /\ \A m \in Messages : SF_vars(\E h \in Handlers : Deliver(h, m))
  /\ \A m \in Messages : WF_vars(LeaseExpires(m))

Spec == Init /\ [][Next]_vars /\ Fairness

-----------------------------------------------------------------------------
(* Properties.                                                               *)

(* Every variable holds a value of its type, and a busy handler has a message
   whose record, once it is past the insert, exists. *)
TypeOK ==
  /\ copies \in [Messages -> [Attempts -> Nat]]
  /\ parked \subseteq Messages
  /\ record \in [Messages -> Records \cup {Absent}]
  /\ pc \in [Handlers -> {"idle", "insert", "read", "reclaim", "work", "ack"}]
  /\ msg \in [Handlers -> Messages \cup {NoMessage}]
  /\ attempt \in [Handlers -> Attempts \cup {0}]
  /\ seen \in [Handlers -> Pods \cup {NoPod}]
  /\ work \in [Messages -> Nat]
  /\ faults \in 0..MaxFaults
  /\ everExpired \subseteq Messages
  /\ \A h \in Handlers :
       /\ pc[h] # "idle" => msg[h] \in Messages /\ attempt[h] \in Attempts
       /\ pc[h] \in {"read", "reclaim", "work", "ack"} => record[msg[h]] # Absent

(* "Work done and work recorded cannot diverge", in neither direction. *)
DoneIffRecorded == \A m \in Messages : Handled(m) <=> work[m] > 0

(* A message is done, in the queue, with a handler or in the dead-letter queue. *)
InGoodHands(m) ==
  \/ work[m] > 0
  \/ \E k \in Attempts : copies[m][k] > 0
  \/ \E h \in Handlers : msg[h] = m
  \/ m \in parked

(* No ack, abort, crash or reclaim drops a message whose work is not done:
   until then the queue, a handler or the dead-letter queue has it. *)
NoMessageIsLost == \A m \in Messages : InGoodHands(m)

(* Duplicates and crashes alone never make the work happen twice: that takes a
   claim whose lease ran out before the work was done, its claimant slow or
   dead. *)
OnceWhileLeasesLast ==
  \A m \in Messages : m \notin everExpired => work[m] <= 1

(* No message goes round for ever: although its first claimants crash, in the
   end it is handled, or its deliveries are used up and it waits in the
   dead-letter queue, where an operator is paged for it. *)
EveryMessageIsSettled == \A m \in Messages : <>(work[m] > 0 \/ m \in parked)

-----------------------------------------------------------------------------
(* A claim of the repository that the code does not keep.                    *)

(* claim "returns the previous record if this message was already handled,
   else null and the claim is ours": a handler is never told to go on with a
   message whose record is SUCCEEDED.  But the reclaim compares only claimedBy,
   so it still matches when the slow claimant has completed in the meantime. *)
NoClaimAfterSuccess ==
  [][\A h \in Handlers :
       pc[h] # "work" /\ pc'[h] = "work" => record[msg[h]].state # "SUCCEEDED"]_vars

=============================================================================
