----------------------------- MODULE OutboxRelay -----------------------------
(***************************************************************************)
(* The kernel's transactional outbox after commit: claimBatch, relayTick   *)
(* and startOutboxRelay, run by several workers against one outbox         *)
(* collection and one RabbitMQ exchange.                                   *)
(*                                                                         *)
(* Time is kept relative: wait[r] and lease[r] are how far availableAt and *)
(* leaseExpiresAt of row r lie ahead (negative when past), age[w] is how   *)
(* long ago worker w fixed the `now` of its claim loop.  A row is due for  *)
(* w when it was due at that `now`.  The workers' clocks agree.            *)
(*                                                                         *)
(* Left out: claimedBy (written by a claim, compared by nothing), attempts *)
(* (only the length of the backoff, which is any member of Backoffs) and   *)
(* the content of a row.  An error of claimBatch or of the update in the   *)
(* catch block ends the relay loop, which nothing restarts from within:    *)
(* both are Die, and Restart is the pod's supervisor.  So is a channel that *)
(* closes with an error nobody listens for; one that closes without is     *)
(* ChannelCloses, and its process goes on with it.                         *)
(*                                                                         *)
(* A definition named Faulty_... is a bug the properties must notice: it   *)
(* takes no part in the specification.                                     *)
(***************************************************************************)
EXTENDS Integers, Sequences, FiniteSets

CONSTANTS
  Rows,         \* outbox rows
  Workers,
  OccurredAt,   \* the sort key of claimBatch
  AggregateOf,
  BatchSize,    \* limit
  LeaseFor,     \* leaseForMs
  Backoffs,     \* delays backoffMs may return
  Closable,     \* workers whose channel may close under them
  MaxStall,     \* bound: how long a worker may take over one tick
  MaxFaults     \* bound: how many faults happen in a behaviour

ASSUME RelayAssumption ==
  /\ OccurredAt \in [Rows -> Nat]
  /\ \A q, r \in Rows : OccurredAt[q] = OccurredAt[r] => q = r
  /\ BatchSize \in Nat \ {0}
  /\ LeaseFor \in Nat \ {0}
  /\ Backoffs \subseteq Nat \ {0}
  /\ Closable \subseteq Workers
  /\ MaxStall \in Nat
  /\ MaxFaults \in Nat

VARIABLES
  status,   \* of a row; "ABSENT" before its transaction commits
  wait,     \* availableAt, relative to the present
  lease,    \* leaseExpiresAt, relative to the present, or NoLease
  pc,       \* where a worker's relay loop stands
  batch,    \* the rows a worker has claimed and not finished with
  age,      \* how long ago the worker fixed `now`
  stream,   \* what the broker accepted, in order
  closed,   \* workers whose channel is closed
  faults,   \* how many faults have happened
  overran   \* some worker once kept a row beyond its lease

rowVars == <<status, wait, lease>>
workerVars == <<pc, batch, age>>
envVars == <<closed, faults, overran>>
vars == <<rowVars, workerVars, stream, envVars>>

(* No lease field; a number, so that TLC can compare it with one. *)
NoLease == LeaseFor + 1

-----------------------------------------------------------------------------

Init ==
  /\ status = [r \in Rows |-> "ABSENT"]
  /\ wait = [r \in Rows |-> 0]
  /\ lease = [r \in Rows |-> NoLease]
  /\ pc = [w \in Workers |-> "idle"]
  /\ batch = [w \in Workers |-> << >>]
  /\ age = [w \in Workers |-> 0]
  /\ stream = << >>
  /\ closed = {}
  /\ faults = 0
  /\ overran = FALSE

(* withOutbox commits a row, available at once.  An aggregate's events are
   committed in the order in which they occur. *)
Enqueue(r) ==
  /\ status[r] = "ABSENT"
  /\ \A q \in Rows : AggregateOf[q] = AggregateOf[r] /\ OccurredAt[q] < OccurredAt[r]
                       => status[q] # "ABSENT"
  /\ status' = [status EXCEPT ![r] = "PENDING"]
  /\ wait' = [wait EXCEPT ![r] = 0]
  /\ UNCHANGED <<lease, workerVars, stream, envVars>>

-----------------------------------------------------------------------------
(* claimBatch.                                                               *)

Faulty_Free(r, w) == lease[r] = NoLease   \* a lease is not looked at once it has run out

Free(r, w) == lease[r] = NoLease \/ lease[r] <= -age[w]

(* The filter of findOneAndUpdate, evaluated with the loop's fixed `now`. *)
Claimable(w) == {r \in Rows : status[r] = "PENDING" /\ wait[r] <= -age[w] /\ Free(r, w)}

(* A worker keeps rows beyond the lease it took from its `now`: it claimed,
   published or waited too long. *)
Overruns(w) == batch[w] # << >> /\ age[w] >= LeaseFor

NoteOverrun == overran' = (overran \/ \E w \in Workers : Overruns(w)')

StartTick(w) ==
  /\ pc[w] = "idle"
  /\ pc' = [pc EXCEPT ![w] = "claim"]
  /\ age' = [age EXCEPT ![w] = 0]
  /\ UNCHANGED <<rowVars, batch, stream, envVars>>

Faulty_LeaseFrom(w) == -age[w]   \* leaseExpiresAt: now, without leaseForMs

LeaseFrom(w) == LeaseFor - age[w]

(* The oldest claimable row, leased from the loop's `now`. *)
ClaimRow(w) ==
  /\ pc[w] = "claim"
  /\ Len(batch[w]) < BatchSize
  /\ \E r \in Claimable(w) :
       /\ \A q \in Claimable(w) : OccurredAt[r] <= OccurredAt[q]
       /\ lease' = [lease EXCEPT ![r] = LeaseFrom(w)]
       /\ batch' = [batch EXCEPT ![w] = Append(@, r)]
  /\ UNCHANGED <<status, wait, pc, age, stream, closed, faults>>
  /\ NoteOverrun

Faulty_AfterClaim(w) == "publish"   \* an empty batch is published like any other

AfterClaim(w) == IF batch[w] = << >> THEN "idle" ELSE "publish"

EndClaim(w) ==
  /\ pc[w] = "claim"
  /\ Len(batch[w]) = BatchSize \/ Claimable(w) = {}
  /\ pc' = [pc EXCEPT ![w] = AfterClaim(w)]
  /\ UNCHANGED <<rowVars, batch, age, stream, envVars>>

-----------------------------------------------------------------------------
(* relayTick, for the first row of the batch.                                *)

Row(w) == Head(batch[w])

(* The for loop goes on to the next row, or the tick returns. *)
NextRow(w) ==
  /\ batch' = [batch EXCEPT ![w] = Tail(@)]
  /\ pc' = [pc EXCEPT ![w] = IF Len(batch[w]) = 1 THEN "idle" ELSE "publish"]
  /\ UNCHANGED age

Goto(w, label) ==
  /\ pc' = [pc EXCEPT ![w] = label]
  /\ UNCHANGED <<batch, age>>

Fault ==
  /\ faults < MaxFaults
  /\ faults' = faults + 1
  /\ UNCHANGED overran

(* What the broker may have accepted of a row it did not confirm. *)
Attempted(w) == {stream, Append(stream, Row(w))}

Faulty_Accepted(w) == Attempted(w)   \* without waitForConfirms

Accepted(w) == {Append(stream, Row(w))}

(* publish and waitForConfirms return. *)
Confirmed(w) ==
  /\ pc[w] = "publish"
  /\ w \notin closed
  /\ stream' \in Accepted(w)
  /\ Goto(w, "mark")
  /\ UNCHANGED <<rowVars, envVars>>

(* publish or waitForConfirms throws; the broker may have the message. *)
NotConfirmed(w) ==
  /\ pc[w] = "publish"
  /\ w \notin closed
  /\ stream' \in Attempted(w)
  /\ Goto(w, "release")
  /\ Fault
  /\ UNCHANGED <<rowVars, closed>>

(* publish throws IllegalOperationError on a closed channel, whenever it is
   called: startOutboxRelay was given the channel and opens no other. *)
PublishThrows(w) ==
  /\ pc[w] = "publish"
  /\ w \in closed
  /\ Goto(w, "release")
  /\ UNCHANGED <<rowVars, stream, envVars>>

(* By _id alone: whoever holds the lease by now. *)
MarkPublished(w) ==
  /\ pc[w] = "mark"
  /\ status' = [status EXCEPT ![Row(w)] = "PUBLISHED"]
  /\ NextRow(w)
  /\ UNCHANGED <<wait, lease, stream, envVars>>

(* The update throws after the broker confirmed: the same catch block. *)
MarkFails(w) ==
  /\ pc[w] = "mark"
  /\ Goto(w, "release")
  /\ Fault
  /\ UNCHANGED <<rowVars, stream, closed>>

(* The catch block backs the row off and drops its lease, also by _id alone. *)
Release(w) ==
  /\ pc[w] = "release"
  /\ \E d \in Backoffs : wait' = [wait EXCEPT ![Row(w)] = d]
  /\ lease' = [lease EXCEPT ![Row(w)] = NoLease]
  /\ NextRow(w)
  /\ UNCHANGED <<status, stream, envVars>>

-----------------------------------------------------------------------------
(* The worker and its surroundings.                                          *)

Die(w) ==
  /\ pc[w] # "dead"
  /\ pc' = [pc EXCEPT ![w] = "dead"]
  /\ batch' = [batch EXCEPT ![w] = << >>]
  /\ Fault
  /\ UNCHANGED <<rowVars, age, stream, closed>>

(* A new process connects. *)
Restart(w) ==
  /\ pc[w] = "dead"
  /\ Goto(w, "idle")
  /\ closed' = closed \ {w}
  /\ UNCHANGED <<rowVars, stream, faults, overran>>

(* The broker, or whoever operates it, closes the channel in good order: no
   error is emitted that would end the process. *)
ChannelCloses(w) ==
  /\ w \in Closable \ closed
  /\ pc[w] # "dead"
  /\ closed' = closed \cup {w}
  /\ Fault
  /\ UNCHANGED <<rowVars, workerVars, stream>>

Busy(w) == pc[w] \notin {"idle", "dead"}

(* The clock moves on.  Times further back than the longest stall all compare
   alike, so they are not told apart. *)
Elapse ==
  LET Back(t) == IF t > -MaxStall THEN t - 1 ELSE t
  IN  /\ \A w \in Workers : Busy(w) => age[w] < MaxStall
      /\ wait' = [r \in Rows |-> Back(wait[r])]
      /\ lease' = [r \in Rows |-> IF lease[r] = NoLease THEN NoLease ELSE Back(lease[r])]
      /\ age' = [w \in Workers |-> IF Busy(w) THEN age[w] + 1 ELSE 0]
      /\ UNCHANGED <<status, pc, batch, stream, closed, faults>>
      /\ NoteOverrun

-----------------------------------------------------------------------------

Work(w) ==
  \/ StartTick(w) \/ ClaimRow(w) \/ EndClaim(w)
  \/ Confirmed(w) \/ PublishThrows(w) \/ MarkPublished(w) \/ Release(w)

Next ==
  \/ \E r \in Rows : Enqueue(r)
  \/ \E w \in Workers :
       \/ Work(w) \/ NotConfirmed(w) \/ MarkFails(w)
       \/ Die(w) \/ Restart(w) \/ ChannelCloses(w)
  \/ Elapse

(* The relay loop keeps polling, a dead worker is restarted and time passes. *)
Fairness ==
  /\ \A w \in Workers : WF_vars(Work(w)) /\ WF_vars(Restart(w))
  /\ WF_vars(Elapse)

Spec == Init /\ [][Next]_vars /\ Fairness

-----------------------------------------------------------------------------
(* Properties.                                                               *)

(* Every variable holds a value of its type, and a worker that publishes,
   marks or releases has a row to do it with. *)
TypeOK ==
  /\ status \in [Rows -> {"ABSENT", "PENDING", "PUBLISHED"}]
  /\ wait \in [Rows -> Int]
  /\ lease \in [Rows -> Int]
  /\ pc \in [Workers -> {"idle", "claim", "publish", "mark", "release", "dead"}]
  /\ batch \in [Workers -> Seq(Rows)]
  /\ age \in [Workers -> 0..MaxStall]
  /\ stream \in Seq(Rows)
  /\ closed \subseteq Closable
  /\ faults \in 0..MaxFaults
  /\ overran \in BOOLEAN
  /\ \A w \in Workers : pc[w] \in {"publish", "mark", "release"} => batch[w] # << >>

(* "At-least-once, never at-most-once": a row marked PUBLISHED, by whichever
   of its holders, is one the broker has. *)
PublishedWasAccepted ==
  \A r \in Rows : status[r] = "PUBLISHED" => \E n \in DOMAIN stream : stream[n] = r

(* The broker sees a message twice only after a fault or an overrun lease. *)
DuplicatesHaveACause ==
  faults = 0 /\ ~overran =>
    \A m, n \in DOMAIN stream : stream[m] = stream[n] => m = n

(* "This row cannot be dropped": every committed event is published in the
   end, whatever crashes, refused publishes and lost confirms came before, as
   long as no relay is left with a closed channel.  One that is claims due rows
   and releases them for ever, which may keep them from another, so that the
   "obligations discharge on recovery" of docs/PERFORMANCE.md needs a restart. *)
EveryRowIsPublished ==
  \A r \in Rows : status[r] = "PENDING" ~> status[r] = "PUBLISHED" \/ closed # {}

-----------------------------------------------------------------------------
(* A claim of the repository that the code does not keep.                    *)

(* "Ordering within an aggregate is preserved by claiming in occurredAt order
   and publishing sequentially per aggregateId": batches are claimed row by
   row, without regard to the aggregate, so two workers or one failed publish
   suffice to swap two events of one aggregate. *)
PerAggregateOrder ==
  \A n \in DOMAIN stream : \A q \in Rows :
    AggregateOf[q] = AggregateOf[stream[n]] /\ OccurredAt[q] < OccurredAt[stream[n]]
      => \E m \in 1..n : stream[m] = q

=============================================================================
