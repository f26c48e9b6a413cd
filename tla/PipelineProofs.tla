----------------------------- MODULE PipelineProofs -----------------------------
(***************************************************************************)
(* Theorems about Pipeline, from the lemmas about its parts: nothing that  *)
(* was marked PUBLISHED is lost on the way, and every step of relay,       *)
(* broker and consumer is a step of EventDelivery or changes nothing there.*)
(***************************************************************************)
EXTENDS Pipeline, TLAPS

R == INSTANCE RelayProofs
  WITH Rows <- Events, pc <- workerPc, faults <- relayFaults, MaxFaults <- MaxRelayFaults,
       Closable <- {}, closed <- {}

C == INSTANCE InboxProofs
  WITH Messages <- Events, pc <- handlerPc, faults <- inboxFaults, MaxFaults <- MaxInboxFaults,
       MaxCopies <- 1

(* The consumer's part of the invariant: what Inbox promises whatever the queue
   holds.  The relay's part is its own invariant. *)
ConsumerInv ==
  /\ C!TypeOK /\ C!DoneIffRecorded /\ C!AckedIsDone /\ C!IdleIsFree /\ C!OneClaimant

(* What the broker has accepted is in good hands. *)
SentIsInGoodHands == \A m \in R!Elems(stream) : C!InGoodHands(m)

(* The consumer has to do with committed events alone. *)
OnlyCommittedIsTouched == \A m \in Events : C!Touched(m) => status[m] # "ABSENT"

IInv == R!IInv /\ ConsumerInv /\ SentIsInGoodHands /\ OnlyCommittedIsTouched

-----------------------------------------------------------------------------
(* The definitions that the theorems of the parts are about are those that   *)
(* Pipeline is made of.                                                      *)

LEMMA Parts == R!RelayAssumption /\ C!InboxAssumption
BY PipelineAssumption
DEF Outbox!RelayAssumption, R!RelayAssumption, Consumer!InboxAssumption, C!InboxAssumption

LEMMA RelayVars == R!vars = Outbox!vars /\ R!Init = Outbox!Init
BY DEF R!vars, R!rowVars, R!workerVars, R!envVars, R!Init, R!NoLease,
  Outbox!vars, Outbox!rowVars, Outbox!workerVars, Outbox!envVars, Outbox!Init, Outbox!NoLease

LEMMA RelayNext == R!Next = Outbox!Next
BY DEF
  R!Next, R!Work, R!Enqueue, R!StartTick, R!ClaimRow, R!EndClaim, R!Confirmed, R!NotConfirmed,
  R!PublishThrows, R!ChannelCloses,
  R!MarkPublished, R!MarkFails, R!Release, R!Die, R!Restart, R!Elapse, R!Claimable, R!Free,
  R!LeaseFrom, R!NoLease, R!AfterClaim, R!Row, R!NextRow, R!Goto, R!Fault, R!Attempted, R!Accepted,
  R!Busy, R!Overruns, R!NoteOverrun, R!rowVars, R!workerVars, R!envVars,
  Outbox!Next, Outbox!Work, Outbox!Enqueue, Outbox!StartTick, Outbox!ClaimRow, Outbox!EndClaim,
  Outbox!Confirmed, Outbox!NotConfirmed,
  Outbox!PublishThrows, Outbox!ChannelCloses, Outbox!MarkPublished, Outbox!MarkFails, Outbox!Release,
  Outbox!Die, Outbox!Restart, Outbox!Elapse, Outbox!Claimable, Outbox!Free, Outbox!LeaseFrom,
  Outbox!NoLease, Outbox!AfterClaim, Outbox!Row, Outbox!NextRow, Outbox!Goto, Outbox!Fault,
  Outbox!Attempted, Outbox!Accepted, Outbox!Busy, Outbox!Overruns, Outbox!NoteOverrun,
  Outbox!rowVars, Outbox!workerVars, Outbox!envVars

LEMMA ConsumerNext == C!Next = Consumer!Next
BY DEF
  C!Next, C!Handle, C!Deliver, C!Insert, C!DuplicateKey, C!ReadSucceeded, C!ReadExpired,
  C!ReadClaimed, C!Reclaim, C!ReclaimLost, C!Complete, C!Ack, C!Crash, C!LeaseExpires, C!Step,
  C!Finish, C!Nack, C!Requeue, C!Park, C!Attempts, C!Claimed, C!Handled, C!LeaseExpired, C!StillTheSame, C!Completed, C!Absent,
  C!delivery, C!history,
  Consumer!Next, Consumer!Handle, Consumer!Deliver, Consumer!Insert, Consumer!DuplicateKey,
  Consumer!ReadSucceeded, Consumer!ReadExpired, Consumer!ReadClaimed, Consumer!Reclaim,
  Consumer!ReclaimLost, Consumer!Complete, Consumer!Ack, Consumer!Crash, Consumer!LeaseExpires,
  Consumer!Step, Consumer!Finish, Consumer!Nack, Consumer!Requeue, Consumer!Park,
  Consumer!Attempts, Consumer!Claimed, Consumer!Handled,
  Consumer!LeaseExpired, Consumer!StillTheSame, Consumer!Completed, Consumer!Absent,
  Consumer!delivery, Consumer!history

(* A step of the relay, which may add to the queue, or of the consumer, or of
   neither. *)
LEMMA StepCases ==
  ASSUME [Next]_vars
  PROVE  \/ R!Next /\ Queued
         \/ C!Next /\ UNCHANGED relayVars
         \/ UNCHANGED vars
BY RelayNext, ConsumerNext DEF Next

(* What a step leaves alone, in the terms of the parts. *)
LEMMA Unchanged ==
  /\ UNCHANGED relayVars => UNCHANGED R!vars
  /\ UNCHANGED vars => UNCHANGED R!vars /\ UNCHANGED C!vars
BY DEF vars, relayVars, handlerVars, R!vars, R!rowVars, R!workerVars, R!envVars,
  C!vars, C!delivery, C!history

-----------------------------------------------------------------------------
(* What waits in the queue.                                                  *)

(* The relay adds a delivery of one committed event at most. *)
LEMMA QueueStep ==
  ASSUME IInv, R!Next, Queued
  PROVE  \/ copies' = copies /\ stream' = stream
         \/ \E r \in Events :
              /\ status[r] # "ABSENT"
              /\ copies' = [copies EXCEPT ![r][1] = @ + 1]
              /\ stream' = Append(stream, r)
<1>1. CASE stream' = stream
  BY <1>1 DEF Queued
<1>2. CASE stream' # stream
  <2>1. PICK w \in Workers : /\ R!Row(w) \in Events /\ R!Row(w) \in R!Elems(batch[w])
                            /\ stream' = Append(stream, R!Row(w))
    BY <1>2, Parts, R!StreamStep DEF IInv, R!IInv
  <2> DEFINE r == R!Row(w)
  <2>2. r \in Events /\ status[r] # "ABSENT" /\ stream \in Seq(Events)
    BY <2>1 DEF IInv, R!IInv, R!OnlyCommittedRows, R!TypeOK
  <2> HIDE DEF r
  <2>3. stream' = Append(stream, r)
    BY <2>1 DEF r
  <2>4. stream'[Len(stream')] = r
    BY <2>2, <2>3
  <2>5. copies' = [copies EXCEPT ![r][1] = @ + 1]
    BY <1>2, <2>4 DEF Queued
  <2>6. QED
    BY <2>2, <2>3, <2>5
<1>3. QED
  BY <1>1, <1>2

(* A relay step leaves the consumer alone but for its queue, which grows. *)
LEMMA QueueGrows ==
  ASSUME IInv, R!Next, Queued
  PROVE  /\ UNCHANGED handlerVars
         /\ copies' \in [Events -> [C!Attempts -> Nat]]
         /\ \A m \in Events : \A k \in C!Attempts : copies[m][k] > 0 => copies'[m][k] > 0
<1>1. copies \in [Events -> [C!Attempts -> Nat]] /\ 1 \in C!Attempts
  BY Parts DEF IInv, ConsumerInv, C!TypeOK, C!Attempts, C!InboxAssumption
<1>2. ASSUME NEW r \in Events, copies' = [copies EXCEPT ![r][1] = @ + 1]
      PROVE  /\ copies' \in [Events -> [C!Attempts -> Nat]]
             /\ \A m \in Events : \A k \in C!Attempts : copies[m][k] > 0 => copies'[m][k] > 0
  <2> DEFINE grown == [copies[r] EXCEPT ![1] = @ + 1]
  <2>1. grown \in [C!Attempts -> Nat] /\ \A k \in C!Attempts : copies[r][k] > 0 => grown[k] > 0
    <3>1. copies[r] \in [C!Attempts -> Nat]
      BY <1>1
    <3>2. QED
      BY <1>1, <3>1
  <2>2. copies' = [copies EXCEPT ![r] = grown]
    BY <1>1, <1>2
  <2> HIDE DEF grown
  <2>3. QED
    BY <1>1, <2>1, <2>2
<1>3. UNCHANGED handlerVars
  BY DEF Queued
<1>4. QED
  BY <1>1, <1>2, <1>3, QueueStep

(* Nothing is committed twice or taken back. *)
LEMMA CommitStep ==
  ASSUME IInv, [Next]_vars
  PROVE  \/ {m \in Events : status'[m] # "ABSENT"} = {m \in Events : status[m] # "ABSENT"}
         \/ \E r \in Events : /\ status[r] = "ABSENT"
                              /\ {m \in Events : status'[m] # "ABSENT"}
                                   = {m \in Events : status[m] # "ABSENT"} \cup {r}
<1>1. status \in [Events -> {"ABSENT", "PENDING", "PUBLISHED"}]
  BY DEF IInv, R!IInv, R!TypeOK
<1>2. CASE R!Next
  <2>1. ASSUME NEW w \in Workers, R!Row(w) \in Events, R!Row(w) \in R!Elems(batch[w]),
               status' = [status EXCEPT ![R!Row(w)] = "PUBLISHED"]
        PROVE  {m \in Events : status'[m] # "ABSENT"} = {m \in Events : status[m] # "ABSENT"}
    <3>1. status[R!Row(w)] # "ABSENT"
      BY <2>1 DEF IInv, R!IInv, R!OnlyCommittedRows
    <3>2. QED
      BY <1>1, <2>1, <3>1
  <2>2. ASSUME NEW r \in Events, status[r] = "ABSENT", status' = [status EXCEPT ![r] = "PENDING"]
        PROVE  {m \in Events : status'[m] # "ABSENT"} = {m \in Events : status[m] # "ABSENT"} \cup {r}
    BY <1>1, <2>2
  <2>3. QED
    BY <1>2, <2>1, <2>2, Parts, R!StatusStep DEF IInv, R!IInv
<1>3. CASE UNCHANGED status
  BY <1>3
<1>4. QED
  BY <1>2, <1>3, StepCases DEF vars, relayVars

(* What was committed stays so. *)
LEMMA CommittedStays ==
  ASSUME IInv, [Next]_vars, NEW m \in Events, status[m] # "ABSENT"
  PROVE  status'[m] # "ABSENT"
BY CommitStep

-----------------------------------------------------------------------------
(* The parts of the invariant.                                               *)

(* The relay does not look at the queue. *)
LEMMA RelayStep ==
  ASSUME IInv, [Next]_vars
  PROVE  R!IInv'
<1>1. [R!Next]_(R!vars)
  BY StepCases, Unchanged
<1>2. QED
  BY <1>1, Parts, R!InvariantStep DEF IInv

(* What the inbox promises does not depend on what the queue holds. *)
LEMMA ConsumerStep ==
  ASSUME IInv, [Next]_vars
  PROVE  ConsumerInv'
<1>1. CASE [C!Next]_(C!vars)
  BY <1>1, Parts, C!TypeStep, C!DoneStep, C!AckStep, C!ClaimStep DEF IInv, ConsumerInv
<1>2. CASE R!Next /\ Queued
  <2>1. UNCHANGED handlerVars /\ copies' \in [Events -> [C!Attempts -> Nat]]
    BY <1>2, QueueGrows
  <2>2. QED
    BY <2>1 DEF handlerVars, IInv, ConsumerInv, C!TypeOK, C!DoneIffRecorded, C!Handled,
      C!AckedIsDone, C!IdleIsFree, C!OneClaimant
<1>3. QED
  BY <1>1, <1>2, StepCases, Unchanged

(* A delivery is in the queue as soon as the broker has accepted it, and the
   consumer loses none. *)
LEMMA HandsStep ==
  ASSUME IInv, [Next]_vars
  PROVE  SentIsInGoodHands'
<1>1. stream \in Seq(Events) /\ R!Elems(stream) \subseteq Events
  BY DEF IInv, R!IInv, R!TypeOK, R!Elems
<1>2. CASE [C!Next]_(C!vars) /\ UNCHANGED stream
  <2>1. ASSUME NEW m \in R!Elems(stream) PROVE C!InGoodHands(m)'
    BY <1>1, <1>2, <2>1, Parts, C!HandsStep DEF IInv, ConsumerInv, SentIsInGoodHands
  <2>2. QED
    BY <1>2, <2>1 DEF SentIsInGoodHands, R!Elems
<1>3. CASE R!Next /\ Queued
  <2>1. /\ UNCHANGED handlerVars
        /\ \A m \in Events : \A k \in C!Attempts : copies[m][k] > 0 => copies'[m][k] > 0
    BY <1>3, QueueGrows
  <2>2. \A m \in R!Elems(stream) : C!InGoodHands(m)'
    BY <1>1, <2>1 DEF handlerVars, IInv, SentIsInGoodHands, C!InGoodHands
  <2>3. CASE stream' = stream
    BY <2>2, <2>3 DEF SentIsInGoodHands
  <2>4. ASSUME NEW r \in Events, copies' = [copies EXCEPT ![r][1] = @ + 1],
               stream' = Append(stream, r)
        PROVE  SentIsInGoodHands'
    <3>1. R!Elems(stream') = R!Elems(stream) \cup {r}
      BY <1>1, <2>4, Parts, R!AppendLemma
    <3>2. C!InGoodHands(r)'
      <4>1. copies \in [Events -> [C!Attempts -> Nat]] /\ 1 \in C!Attempts
        BY Parts DEF IInv, ConsumerInv, C!TypeOK, C!Attempts, C!InboxAssumption
      <4>2. copies'[r][1] > 0
        BY <2>4, <4>1
      <4>3. QED
        BY <4>1, <4>2 DEF C!InGoodHands
    <3>3. QED
      BY <2>2, <3>1, <3>2 DEF SentIsInGoodHands
  <2>5. QED
    BY <1>3, <2>3, <2>4, QueueStep
<1>4. QED
  BY <1>2, <1>3, StepCases, Unchanged DEF vars, relayVars

(* Only the relay brings events in, and it has committed ones alone. *)
LEMMA TouchedStep ==
  ASSUME IInv, [Next]_vars
  PROVE  OnlyCommittedIsTouched'
<1> SUFFICES ASSUME NEW m \in Events, C!Touched(m)' PROVE status[m] # "ABSENT"
  BY CommittedStays DEF OnlyCommittedIsTouched
<1>1. CASE [C!Next]_(C!vars)
  BY <1>1, Parts, C!TouchStep DEF IInv, ConsumerInv, OnlyCommittedIsTouched
<1>2. CASE R!Next /\ Queued
  <2>1. UNCHANGED handlerVars
    BY <1>2 DEF Queued
  <2>2. CASE copies'[m] = copies[m]
    BY <2>1, <2>2 DEF handlerVars, C!Touched, C!Absent, IInv, OnlyCommittedIsTouched
  <2>3. CASE copies'[m] # copies[m]
    BY <1>2, <2>3, QueueStep DEF IInv, ConsumerInv, C!TypeOK
  <2>4. QED
    BY <2>2, <2>3
<1>3. QED
  BY <1>1, <1>2, StepCases, Unchanged

-----------------------------------------------------------------------------

(* Nothing is committed, sent or handled at the start. *)
LEMMA InitInv == Init => IInv
<1> SUFFICES ASSUME Init PROVE IInv
  OBVIOUS
<1>1. R!IInv
  BY Parts, RelayVars, R!InitIsSound DEF Init
<1>2. ConsumerInv
  BY Parts DEF Init, Consumer!InitInbox, Consumer!Fresh, Consumer!Attempts, ConsumerInv,
    Consumer!Absent, C!Absent, C!InboxAssumption, C!Attempts, C!TypeOK, C!DoneIffRecorded, C!Handled, C!AckedIsDone, C!IdleIsFree, C!OneClaimant
<1>3. SentIsInGoodHands
  BY DEF Init, Outbox!Init, SentIsInGoodHands, R!Elems
<1>4. OnlyCommittedIsTouched
  BY Parts DEF Init, Consumer!InitInbox, Consumer!Fresh, Consumer!Attempts, Consumer!Absent,
    C!Absent, C!Attempts, C!InboxAssumption, OnlyCommittedIsTouched, C!Touched
<1>5. QED
  BY <1>1, <1>2, <1>3, <1>4 DEF IInv

(* The invariants of the two parts hold side by side, and between them an event
   the broker accepted is not lost and one never committed is not seen. *)
THEOREM Invariance == Spec => []IInv
<1>1. IInv /\ [Next]_vars => IInv'
  BY RelayStep, ConsumerStep, HandsStep, TouchedStep DEF IInv
<1>2. QED
  BY <1>1, InitInv, PTL DEF Spec

(* A row that was marked PUBLISHED, and will never be looked at again, has its
   event in the queue, with a handler or parked until the work is done. *)
THEOREM NothingPublishedIsLost == Spec => []PublishedIsInGoodHands
<1>1. IInv => PublishedIsInGoodHands
  BY DEF IInv, R!IInv, R!PublishedWasAccepted, SentIsInGoodHands, R!Elems, C!InGoodHands,
    C!Attempts, Consumer!InGoodHands, Consumer!Attempts, PublishedIsInGoodHands
<1>2. QED
  BY <1>1, Invariance, PTL

(* Work is done for committed events alone, and twice only for one whose lease
   ran out, however often the relay sent it. *)
HandledForAReason ==
  \A m \in Events : work[m] > 0 =>
    /\ status[m] # "ABSENT"
    /\ work[m] > 1 => m \in everExpired

(* From end to end, nothing is handled that was not committed, and duplicates
   of the relay alone never make the work happen twice. *)
THEOREM HandledOnceEndToEnd == Spec => []HandledForAReason
<1>1. IInv => HandledForAReason
  BY Parts, C!RecordShapes
  DEF IInv, ConsumerInv, C!TypeOK, C!DoneIffRecorded, C!Handled, C!OneClaimant, OnlyCommittedIsTouched,
    C!Touched, HandledForAReason
<1>2. QED
  BY <1>1, Invariance, PTL

(* Every step of the pipeline is one of EventDelivery: a commit, the work of a
   committed event for the first time, the work again of an event with a lease
   that ran out, such a lapse, the parking of an event, or nothing that
   EventDelivery sees. *)
LEMMA Simulation ==
  ASSUME IInv, [Next]_vars
  PROVE  [Delivery!Next]_(Delivery!vars)
<1> DEFINE committed == {m \in Events : status[m] # "ABSENT"}
<1>1. CASE UNCHANGED <<work, everExpired, parked>>
  <2>1. ASSUME NEW r \in Events, status[r] = "ABSENT", committed' = committed \cup {r}
        PROVE  Delivery!Commit(r)
    BY <1>1, <2>1 DEF Delivery!Commit
  <2>2. committed' = committed => UNCHANGED Delivery!vars
    BY <1>1 DEF Delivery!vars
  <2>3. QED
    BY <2>1, <2>2, CommitStep DEF Delivery!Next
<1>2. CASE [C!Next]_(C!vars) /\ UNCHANGED status
  <2>1. ASSUME NEW m \in Events, C!Touched(m), work[m] = 0 \/ m \in everExpired,
               work' = [work EXCEPT ![m] = @ + 1], UNCHANGED <<everExpired, parked>>
        PROVE  Delivery!Handle(m) \/ Delivery!HandleAgain(m)
    <3>1. m \in committed /\ work[m] \in Nat
      BY <2>1 DEF IInv, OnlyCommittedIsTouched, ConsumerInv, C!TypeOK
    <3>2. Delivery!Do(m)
      BY <1>2, <2>1, <3>1 DEF Delivery!Do
    <3>3. QED
      BY <2>1, <3>1, <3>2 DEF Delivery!Handle, Delivery!HandleAgain
  <2>2. ASSUME NEW m \in Events, C!Touched(m),
               everExpired' = everExpired \cup {m}, UNCHANGED <<work, parked>>
        PROVE  Delivery!Lapse(m)
    BY <1>2, <2>2 DEF Delivery!Lapse, IInv, OnlyCommittedIsTouched
  <2>3. ASSUME NEW m \in Events, C!Touched(m),
               parked' = parked \cup {m}, UNCHANGED <<work, everExpired>>
        PROVE  Delivery!Park(m)
    BY <1>2, <2>3 DEF Delivery!Park, IInv, OnlyCommittedIsTouched
  <2>4. QED
    BY <1>1, <1>2, <2>1, <2>2, <2>3, Parts, C!EffectStep DEF Delivery!Next, IInv, ConsumerInv
<1>3. QED
  BY <1>1, <1>2, StepCases, Unchanged DEF vars, relayVars, handlerVars, Queued

(* The safety part of ImplementsDelivery: relay, broker and consumer together
   implement EventDelivery, through any number of lost confirms, duplicates,
   crashes and expired leases. *)
THEOREM DeliverySafety == Spec => Delivery!Init /\ [][Delivery!Next]_(Delivery!vars)
<1>1. Init => Delivery!Init
  BY DEF Init, Outbox!Init, Consumer!InitInbox, Delivery!Init
<1>2. IInv /\ [Next]_vars => [Delivery!Next]_(Delivery!vars)
  BY Simulation
<1>3. QED
  BY <1>1, <1>2, Invariance, PTL DEF Spec

=============================================================================
