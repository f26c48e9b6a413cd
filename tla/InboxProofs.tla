------------------------------ MODULE InboxProofs ------------------------------
(***************************************************************************)
(* Theorems about Inbox, for every set of messages, handlers and pods, any *)
(* number of copies and of faults.                                         *)
(***************************************************************************)
EXTENDS Inbox, TLAPS

(* A message is acked only when its work is done. *)
AckedIsDone == \A h \in Handlers : pc[h] = "ack" => work[msg[h]] > 0

(* An idle handler holds no message that a delivery could overwrite. *)
IdleIsFree == \A h \in Handlers : pc[h] = "idle" => msg[h] = NoMessage

(* As long as a message's lease never ran out, its claim is live, nobody takes
   it over, and whoever works on it is alone and the first. *)
OneClaimant ==
  \A m \in Messages \ everExpired :
    /\ record[m] # Absent => record[m].live \/ Handled(m)
    /\ work[m] <= 1
    /\ \A h \in Handlers : msg[h] = m =>
         /\ pc[h] # "reclaim"
         /\ pc[h] = "work" =>
              /\ work[m] = 0
              /\ \A g \in Handlers : pc[g] = "work" /\ msg[g] = m => g = h

IInv ==
  /\ TypeOK
  /\ DoneIffRecorded
  /\ AckedIsDone
  /\ IdleIsFree
  /\ NoMessageIsLost
  /\ OneClaimant

-----------------------------------------------------------------------------

(* The initial state satisfies the invariant: every message has a copy in the
   queue and no handler is busy. *)
LEMMA InitIsSound == Init => IInv
  BY InboxAssumption
  DEF Init, InitInbox, Fresh, Attempts, IInv, TypeOK, DoneIffRecorded, AckedIsDone, IdleIsFree,
      NoMessageIsLost, InGoodHands, OneClaimant, Handled, Absent, Records

(* The ways in which a handler lets go of its message. *)
LEMMA FinishCases ==
  ASSUME NEW h \in Handlers, ReadClaimed(h) \/ ReclaimLost(h) \/ Ack(h) \/ Crash(h)
  PROVE  /\ pc[h] # "idle" /\ Finish(h) /\ UNCHANGED <<record, work, everExpired>>
         /\ \/ pc[h] = "ack" /\ UNCHANGED <<copies, parked>>
            \/ Requeue(h)
            \/ Park(h)
  BY DEF ReadClaimed, ReclaimLost, Ack, Crash, Nack, history

(* The two shapes of a record: nobody's, or one of Records, which are told
   apart by their states. *)
LEMMA RecordShapes ==
  /\ Absent.state = "ABSENT" /\ Absent \notin Records
  /\ \A h \in Handlers : Claimed(h) \in Records /\ Claimed(h).state = "IN_PROGRESS"
                         /\ Claimed(h).live
  BY InboxAssumption DEF Absent, Records, Claimed

(* No step takes a variable out of its domain. *)
LEMMA TypeStep == TypeOK /\ [Next]_vars => TypeOK'
<1> SUFFICES ASSUME TypeOK, [Next]_vars PROVE TypeOK'
  OBVIOUS
<1> USE InboxAssumption, RecordShapes DEF TypeOK, Step, delivery, history
<1>1. ASSUME NEW h \in Handlers, NEW m \in Messages, Deliver(h, m) PROVE TypeOK'
  BY <1>1 DEF Deliver
<1>2. ASSUME NEW h \in Handlers, Insert(h) PROVE TypeOK'
  BY <1>2 DEF Insert
<1>3. ASSUME NEW h \in Handlers, DuplicateKey(h) PROVE TypeOK'
  BY <1>3 DEF DuplicateKey
<1>4. ASSUME NEW h \in Handlers, ReadSucceeded(h) PROVE TypeOK'
  BY <1>4 DEF ReadSucceeded
<1>5. ASSUME NEW h \in Handlers, ReadExpired(h) PROVE TypeOK'
  BY <1>5 DEF ReadExpired, Records
<1>6. ASSUME NEW h \in Handlers, ReadClaimed(h) \/ ReclaimLost(h) \/ Ack(h) \/ Crash(h)
      PROVE  TypeOK'
  <2>1. msg[h] \in Messages /\ attempt[h] \in Attempts
    BY <1>6, FinishCases
  <2>2. copies' \in [Messages -> [Attempts -> Nat]] /\ parked' \subseteq Messages
    <3>1. CASE Requeue(h)
      <4>1. attempt[h] + 1 \in Attempts
        BY <2>1, <3>1 DEF Requeue, Attempts
      <4>2. QED
        BY <2>1, <3>1, <4>1 DEF Requeue
    <3>2. QED
      BY <1>6, <2>1, <3>1, FinishCases DEF Park
  <2>3. faults' \in 0..MaxFaults
    BY <1>6 DEF ReadClaimed, ReclaimLost, Ack, Crash
  <2>4. /\ pc' = [pc EXCEPT ![h] = "idle"]
        /\ msg' = [msg EXCEPT ![h] = NoMessage]
        /\ attempt' = [attempt EXCEPT ![h] = 0]
        /\ seen' = [seen EXCEPT ![h] = NoPod]
        /\ UNCHANGED <<record, work, everExpired>>
    BY <1>6, FinishCases DEF Finish
  <2>5. \A g \in Handlers \ {h} : pc'[g] = pc[g] /\ msg'[g] = msg[g] /\ attempt'[g] = attempt[g]
    BY <2>4
  <2>6. pc'[h] = "idle"
    BY <2>4
  <2>7. QED
    BY <2>2, <2>3, <2>4, <2>5, <2>6
<1>7. ASSUME NEW h \in Handlers, Reclaim(h) PROVE TypeOK'
  <2> DEFINE taken == [Claimed(h) EXCEPT !.state = record[msg[h]].state]
  <2>1. msg[h] \in Messages /\ record[msg[h]] \in Records
    BY <1>7 DEF Reclaim
  <2>2. taken \in Records
    BY <2>1 DEF Records, Claimed
  <2>3. taken # Absent
    BY <2>2
  <2> HIDE DEF taken
  <2>4. record' = [record EXCEPT ![msg[h]] = taken]
    BY <1>7 DEF Reclaim, taken
  <2>5. \A m \in Messages : record'[m] \in Records \cup {Absent} /\ (record[m] # Absent => record'[m] # Absent)
    BY <2>1, <2>2, <2>3, <2>4
  <2>6. record' \in [Messages -> Records \cup {Absent}]
    BY <2>2, <2>4
  <2>7. QED
    BY <1>7, <2>1, <2>5, <2>6 DEF Reclaim
<1>8. ASSUME NEW h \in Handlers, Complete(h) PROVE TypeOK'
  BY <1>8 DEF Complete, Completed, Records
<1>9. ASSUME NEW m \in Messages, LeaseExpires(m) PROVE TypeOK'
  <2>1. record[m] \in Records
    BY <1>9 DEF LeaseExpires, Absent
  <2>2. [record[m] EXCEPT !.live = FALSE] \in Records
    BY <2>1 DEF Records
  <2>3. record' \in [Messages -> Records \cup {Absent}] /\ \A n \in Messages :
          record[n] # Absent => record'[n] # Absent
    BY <1>9, <2>2 DEF LeaseExpires
  <2>4. QED
    BY <1>9, <2>3 DEF LeaseExpires
<1>10. ASSUME UNCHANGED vars PROVE TypeOK'
  BY <1>10 DEF vars
<1>11. QED
  BY <1>1, <1>2, <1>3, <1>4, <1>5, <1>6, <1>7, <1>8, <1>9, <1>10 DEF Next, Handle

(* What the handler steps change of the records and the work done. *)
LEMMA WorkSteps ==
  ASSUME TypeOK, [Next]_vars
  PROVE  \/ record' = record /\ work' = work
         \/ \E h \in Handlers : Insert(h) \/ Reclaim(h) \/ Complete(h)
         \/ \E m \in Messages : LeaseExpires(m)
  BY DEF Next, Handle, Deliver, DuplicateKey, ReadSucceeded, ReadExpired, ReadClaimed, ReclaimLost,
         Ack, Crash, vars

(* The record and the work of a message change together. *)
LEMMA DoneStep == TypeOK /\ DoneIffRecorded /\ [Next]_vars => DoneIffRecorded'
<1> SUFFICES ASSUME TypeOK, DoneIffRecorded, [Next]_vars PROVE DoneIffRecorded'
  OBVIOUS
<1> USE RecordShapes DEF TypeOK, DoneIffRecorded, Handled, Step
<1>1. ASSUME record' = record, work' = work PROVE DoneIffRecorded'
  BY <1>1
<1>2. ASSUME NEW h \in Handlers, Insert(h) PROVE DoneIffRecorded'
  BY <1>2 DEF Insert
<1>3. ASSUME NEW h \in Handlers, Reclaim(h) PROVE DoneIffRecorded'
  BY <1>3 DEF Reclaim, Claimed
<1>4. ASSUME NEW h \in Handlers, Complete(h) PROVE DoneIffRecorded'
  BY <1>4 DEF Complete, Completed, Records
<1>5. ASSUME NEW m \in Messages, LeaseExpires(m) PROVE DoneIffRecorded'
  BY <1>5 DEF LeaseExpires, Records
<1>6. QED
  BY <1>1, <1>2, <1>3, <1>4, <1>5, WorkSteps

(* A handler acks a message only when the record says that the work is done,
   and an idle one has none. *)
LEMMA AckStep ==
  TypeOK /\ DoneIffRecorded /\ AckedIsDone /\ IdleIsFree /\ [Next]_vars
    => AckedIsDone' /\ IdleIsFree'
<1> SUFFICES ASSUME TypeOK, DoneIffRecorded, AckedIsDone, IdleIsFree, [Next]_vars
             PROVE  AckedIsDone' /\ IdleIsFree'
  OBVIOUS
<1> DEFINE Goal == AckedIsDone' /\ IdleIsFree'
<1> USE InboxAssumption DEF TypeOK, AckedIsDone, IdleIsFree, Step, delivery, history
<1>1. ASSUME NEW h \in Handlers, NEW m \in Messages, Deliver(h, m) PROVE Goal
  BY <1>1 DEF Deliver
<1>2. ASSUME NEW h \in Handlers, NEW to \in {"read", "reclaim", "work"},
             Step(h, pc[h], to), pc[h] # "idle", work' = work, UNCHANGED delivery
      PROVE  Goal
  BY <1>2
<1>3. ASSUME NEW h \in Handlers, ReadSucceeded(h) PROVE Goal
  BY <1>3 DEF ReadSucceeded, DoneIffRecorded
<1>4. ASSUME NEW h \in Handlers, Finish(h), work' = work PROVE Goal
  BY <1>4 DEF Finish
<1>5. ASSUME NEW h \in Handlers, Complete(h) PROVE Goal
  BY <1>5 DEF Complete
<1>6. ASSUME UNCHANGED <<delivery, pc, work>> PROVE Goal
  BY <1>6
<1>7. ASSUME NEW h \in Handlers, Insert(h) \/ DuplicateKey(h) \/ ReadExpired(h) \/ Reclaim(h)
      PROVE  Goal
  BY <1>2, <1>7 DEF Insert, DuplicateKey, ReadExpired, Reclaim
<1>8. ASSUME NEW h \in Handlers, ReadClaimed(h) \/ ReclaimLost(h) \/ Ack(h) \/ Crash(h) PROVE Goal
  BY <1>4, <1>8, FinishCases
<1>9. QED
  BY <1>1, <1>3, <1>5, <1>6, <1>7, <1>8 DEF Next, Handle, LeaseExpires, vars

(* A handler that has a message keeps it, does its work or gives it back. *)
LEMMA HandsStep ==
  ASSUME TypeOK, AckedIsDone, IdleIsFree, [Next]_vars,
         NEW m \in Messages, InGoodHands(m)
  PROVE  InGoodHands(m)'
<1> USE InboxAssumption DEF TypeOK, IdleIsFree, InGoodHands, Step, delivery, history
<1>1. ASSUME NEW h \in Handlers, NEW n \in Messages, Deliver(h, n) PROVE InGoodHands(m)'
  <2>1. /\ msg' = [msg EXCEPT ![h] = n] /\ msg[h] = NoMessage
        /\ UNCHANGED <<work, parked>>
        /\ \A o \in Messages \ {n} : copies'[o] = copies[o]
    BY <1>1 DEF Deliver
  <2>2. QED
    BY <2>1
<1>2. ASSUME NEW h \in Handlers, pc[h] # "idle", Finish(h), Requeue(h) \/ Park(h), work' = work
      PROVE  InGoodHands(m)'
  <2>1. msg[h] \in Messages /\ attempt[h] \in Attempts
    BY <1>2
  <2>2. CASE m = msg[h] /\ Requeue(h)
    <3>1. attempt[h] + 1 \in Attempts
      BY <2>1, <2>2 DEF Requeue, Attempts
    <3>2. copies'[m][attempt[h] + 1] > 0
      BY <2>1, <2>2, <3>1 DEF Requeue
    <3>3. QED
      BY <3>1, <3>2
  <2>3. CASE m = msg[h] /\ Park(h)
    BY <2>3 DEF Park
  <2>4. parked \subseteq parked' /\ \A o \in Messages \ {msg[h]} : copies'[o] = copies[o]
    BY <1>2, <2>1 DEF Requeue, Park
  <2>5. CASE m # msg[h]
    <3>1. \A g \in Handlers : msg[g] = m => msg'[g] = m
      BY <1>2, <2>5 DEF Finish
    <3>2. work'[m] = work[m] /\ copies'[m] = copies[m] /\ (m \in parked => m \in parked')
      BY <1>2, <2>4, <2>5
    <3>3. QED
      BY <3>1, <3>2
  <2>6. QED
    BY <1>2, <2>2, <2>3, <2>5
<1>3. ASSUME NEW h \in Handlers, Complete(h) PROVE InGoodHands(m)'
  BY <1>3 DEF Complete
<1>4. ASSUME NEW h \in Handlers, Ack(h) PROVE InGoodHands(m)'
  BY <1>4 DEF Ack, Finish, AckedIsDone
<1>5. ASSUME UNCHANGED <<delivery, work>> PROVE InGoodHands(m)'
  BY <1>5
<1>6. ASSUME NEW h \in Handlers, ReadClaimed(h) \/ ReclaimLost(h) \/ Crash(h)
      PROVE  InGoodHands(m)'
  BY <1>2, <1>6 DEF ReadClaimed, ReclaimLost, Crash, Nack
<1>7. QED
  BY <1>1, <1>3, <1>4, <1>5, <1>6
  DEF Next, Handle, Insert, DuplicateKey, ReadSucceeded, ReadExpired, Reclaim, LeaseExpires, vars

(* No message is lost if none was to begin with. *)
LEMMA LossStep ==
  TypeOK /\ AckedIsDone /\ IdleIsFree /\ NoMessageIsLost /\ [Next]_vars => NoMessageIsLost'
<1> SUFFICES ASSUME TypeOK, AckedIsDone, IdleIsFree, NoMessageIsLost, [Next]_vars
             PROVE  NoMessageIsLost'
  OBVIOUS
<1>1. ASSUME NEW m \in Messages PROVE InGoodHands(m)'
  BY HandsStep DEF NoMessageIsLost
<1>2. QED
  BY <1>1 DEF NoMessageIsLost

(* The broker or the inbox knows of a message. *)
Touched(m) ==
  \/ \E k \in Attempts : copies[m][k] > 0
  \/ record[m] # Absent \/ m \in everExpired \/ m \in parked
  \/ \E h \in Handlers : msg[h] = m

(* No handler makes a message up. *)
LEMMA TouchStep ==
  ASSUME TypeOK, [Next]_vars, NEW m \in Messages, Touched(m)'
  PROVE  Touched(m)
<1> USE InboxAssumption DEF TypeOK, Touched, Step, delivery, history
<1>1. ASSUME NEW h \in Handlers, NEW n \in Messages, Deliver(h, n) PROVE Touched(m)
  BY <1>1 DEF Deliver
<1>2. ASSUME NEW h \in Handlers, ReadClaimed(h) \/ ReclaimLost(h) \/ Ack(h) \/ Crash(h)
      PROVE  Touched(m)
  <2>1. msg[h] \in Messages
    BY <1>2, FinishCases
  <2>2. /\ \A o \in Messages \ {msg[h]} : copies'[o] = copies[o]
        /\ parked' \subseteq parked \cup {msg[h]}
    BY <1>2, <2>1, FinishCases DEF Requeue, Park
  <2>3. QED
    BY <1>2, <2>1, <2>2, FinishCases DEF Finish
<1>3. ASSUME NEW h \in Handlers, pc[h] # "idle", UNCHANGED <<delivery, everExpired>>,
             \A n \in Messages \ {msg[h]} : record'[n] = record[n]
      PROVE  Touched(m)
  BY <1>3
<1>4. ASSUME NEW h \in Handlers, Insert(h) \/ Reclaim(h) \/ Complete(h) PROVE Touched(m)
  BY <1>3, <1>4 DEF Insert, Reclaim, Complete
<1>5. ASSUME NEW n \in Messages, LeaseExpires(n) PROVE Touched(m)
  <2>1. record[n] # Absent
    BY <1>5 DEF LeaseExpires, Absent
  <2>2. \A o \in Messages \ {n} : record'[o] = record[o]
    BY <1>5 DEF LeaseExpires
  <2>3. QED
    BY <1>5, <2>1, <2>2 DEF LeaseExpires
<1>6. ASSUME UNCHANGED <<delivery, record, everExpired>> PROVE Touched(m)
  BY <1>6
<1>7. QED
  BY <1>1, <1>2, <1>4, <1>5, <1>6
  DEF Next, Handle, DuplicateKey, ReadSucceeded, ReadExpired, vars

(* While no lease of a message runs out its claim stays with one handler. *)
LEMMA ClaimStep ==
  TypeOK /\ DoneIffRecorded /\ OneClaimant /\ [Next]_vars => OneClaimant'
<1> SUFFICES ASSUME TypeOK, DoneIffRecorded, OneClaimant, [Next]_vars,
                    NEW m \in Messages, m \notin everExpired'
             PROVE  /\ record'[m] # Absent => record'[m].live \/ Handled(m)'
                    /\ work'[m] <= 1
                    /\ \A h \in Handlers : msg'[h] = m =>
                         /\ pc'[h] # "reclaim"
                         /\ pc'[h] = "work" =>
                              /\ work'[m] = 0
                              /\ \A g \in Handlers : pc'[g] = "work" /\ msg'[g] = m => g = h
  BY DEF OneClaimant
<1> DEFINE Goal == /\ record'[m] # Absent => record'[m].live \/ Handled(m)'
                   /\ work'[m] <= 1
                   /\ \A h \in Handlers : msg'[h] = m =>
                        /\ pc'[h] # "reclaim"
                        /\ pc'[h] = "work" =>
                             /\ work'[m] = 0
                             /\ \A g \in Handlers : pc'[g] = "work" /\ msg'[g] = m => g = h
<1>0. m \notin everExpired
  BY DEF Next, Handle, Deliver, Insert, DuplicateKey, ReadSucceeded, ReadExpired, ReadClaimed,
         Reclaim, ReclaimLost, Complete, Ack, Crash, LeaseExpires, vars, history
<1>00. /\ record[m] # Absent => record[m].live \/ Handled(m)
       /\ work[m] <= 1
       /\ \A h \in Handlers : msg[h] = m =>
            /\ pc[h] # "reclaim"
            /\ pc[h] = "work" =>
                 /\ work[m] = 0
                 /\ \A g \in Handlers : pc[g] = "work" /\ msg[g] = m => g = h
  BY <1>0 DEF OneClaimant
<1> USE InboxAssumption, RecordShapes, <1>00 DEF TypeOK, Step, delivery, history, Handled
<1>1. ASSUME NEW h \in Handlers, NEW n \in Messages, Deliver(h, n) PROVE Goal
  BY <1>1 DEF Deliver
<1>2. ASSUME NEW h \in Handlers, Insert(h) PROVE Goal
  BY <1>2 DEF Insert, DoneIffRecorded, Handled
<1>3. ASSUME NEW h \in Handlers, DuplicateKey(h) \/ ReadSucceeded(h) PROVE Goal
  BY <1>3 DEF DuplicateKey, ReadSucceeded
<1>4. ASSUME NEW h \in Handlers, ReadExpired(h) PROVE Goal
  BY <1>4 DEF ReadExpired, LeaseExpired
<1>5. ASSUME NEW h \in Handlers, pc[h] # "idle", Finish(h), UNCHANGED <<record, work>>
      PROVE  Goal
  BY <1>5 DEF Finish
<1>6. ASSUME NEW h \in Handlers, Reclaim(h) PROVE Goal
  BY <1>6 DEF Reclaim
<1>7. ASSUME NEW h \in Handlers, Complete(h) PROVE Goal
  BY <1>7 DEF Complete, Completed, Records
<1>8. ASSUME NEW n \in Messages, LeaseExpires(n) PROVE Goal
  BY <1>8 DEF LeaseExpires
<1>9. ASSUME NEW h \in Handlers, ReadClaimed(h) \/ ReclaimLost(h) \/ Ack(h) \/ Crash(h) PROVE Goal
  BY <1>5, <1>9, FinishCases
<1>10. ASSUME UNCHANGED vars PROVE Goal
  BY <1>10 DEF vars
<1>11. QED
  BY <1>1, <1>2, <1>3, <1>4, <1>6, <1>7, <1>8, <1>9, <1>10 DEF Next, Handle

(* The work of a message is done for the first time or after its lease ran out,
   its lease runs out, it is parked, or nobody outside notices. *)
LEMMA EffectStep ==
  ASSUME TypeOK, OneClaimant, [Next]_vars
  PROVE  \/ UNCHANGED <<work, everExpired, parked>>
         \/ \E m \in Messages :
              /\ Touched(m)
              /\ work[m] = 0 \/ m \in everExpired
              /\ work' = [work EXCEPT ![m] = @ + 1] /\ UNCHANGED <<everExpired, parked>>
         \/ \E m \in Messages :
              /\ Touched(m)
              /\ everExpired' = everExpired \cup {m} /\ UNCHANGED <<work, parked>>
         \/ \E m \in Messages :
              /\ Touched(m)
              /\ parked' = parked \cup {m} /\ UNCHANGED <<work, everExpired>>
<1>1. \/ UNCHANGED <<work, everExpired, parked>>
      \/ \E h \in Handlers : Complete(h)
      \/ \E h \in Handlers : ReadClaimed(h) \/ ReclaimLost(h) \/ Ack(h) \/ Crash(h)
      \/ \E m \in Messages : LeaseExpires(m)
  BY DEF Next, Handle, Deliver, Insert, DuplicateKey, ReadSucceeded, ReadExpired, Reclaim,
         vars, delivery, history
<1>2. ASSUME NEW h \in Handlers, Complete(h)
      PROVE  \E m \in Messages :
               /\ Touched(m)
               /\ work[m] = 0 \/ m \in everExpired
               /\ work' = [work EXCEPT ![m] = @ + 1] /\ UNCHANGED <<everExpired, parked>>
  <2>1. pc[h] = "work" /\ msg[h] \in Messages
    BY <1>2 DEF Complete, Step, TypeOK
  <2>2. work[msg[h]] = 0 \/ msg[h] \in everExpired
    BY <2>1 DEF OneClaimant
  <2>3. QED
    BY <1>2, <2>1, <2>2 DEF Complete, Touched, delivery, history
<1>3. ASSUME NEW m \in Messages, LeaseExpires(m)
      PROVE  /\ Touched(m) /\ UNCHANGED <<work, parked>>
             /\ everExpired' \in {everExpired, everExpired \cup {m}}
  BY <1>3 DEF LeaseExpires, Touched, Absent, delivery
<1>4. ASSUME NEW h \in Handlers, ReadClaimed(h) \/ ReclaimLost(h) \/ Ack(h) \/ Crash(h)
      PROVE  /\ Touched(msg[h]) /\ msg[h] \in Messages /\ UNCHANGED <<work, everExpired>>
             /\ parked' \in {parked, parked \cup {msg[h]}}
  BY <1>4, FinishCases DEF TypeOK, Touched, Requeue, Park
<1>5. QED
  BY <1>1, <1>2, <1>3, <1>4

-----------------------------------------------------------------------------

(* Every step preserves the invariant. *)
LEMMA InvariantStep == IInv /\ [Next]_vars => IInv'
  BY TypeStep, DoneStep, AckStep, LossStep, ClaimStep DEF IInv

(* The inductive invariant of Inbox holds in every reachable state. *)
THEOREM Invariance == Spec => []IInv
  BY InitIsSound, InvariantStep, PTL DEF Spec

(* Every variable of Inbox keeps its type, and a handler past the insert finds
   a record. *)
THEOREM TypeCorrect == Spec => []TypeOK
  BY Invariance, PTL DEF IInv

(* Work done and work recorded never diverge, for any number of handlers that
   crash and take over from one another. *)
THEOREM WorkIsRecorded == Spec => []DoneIffRecorded
  BY Invariance, PTL DEF IInv

(* A message whose work is not done is in the queue, with a handler or in the
   dead-letter queue. *)
THEOREM NothingIsLost == Spec => []NoMessageIsLost
  BY Invariance, PTL DEF IInv

(* Copies, nacks and crashes alone never make the work of a message happen
   twice: only a lease that ran out does. *)
THEOREM OneEffectPerLiveLease == Spec => []OnceWhileLeasesLast
<1>1. IInv => OnceWhileLeasesLast
  BY DEF IInv, OneClaimant, OnceWhileLeasesLast
<1>2. QED
  BY <1>1, Invariance, PTL

=============================================================================
