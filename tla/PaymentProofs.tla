---------------------------- MODULE PaymentProofs ----------------------------
(***************************************************************************)
(* Theorems about Payment for every set of attempts, keys, orders, amounts *)
(* and commands.                                                           *)
(***************************************************************************)
EXTENDS Payment, TLAPS

USE DEF Failed, Decided, Found   \* names of tests and of a read

-----------------------------------------------------------------------------
(* The inductive invariant, in parts.                                        *)

(* An attempt past openOrFindExisting holds a faithful PENDING copy of an
   existing intent, although that intent may have settled since. *)
HoldsPendingCopy ==
  \A a \in Attempts :
    pc[a] \in {"charge", "record", "lookup", "persist"} =>
      /\ intents[Key(a)] # NoIntent
      /\ intent[a] = [status |-> "PENDING", amount |-> intents[Key(a)].amount,
                      amountCaptured |-> NoAmount]

(* The outcome an attempt is about to persist is the PSP's outcome for its
   key, and the PSP knows no key that was not claimed first. *)
AnswerIsFinal ==
  /\ \A a \in Attempts : pc[a] = "find" => intents[Key(a)] # NoIntent
  /\ \A a \in Attempts :
       pc[a] = "persist" => psp[Key(a)] # NoAnswer /\ answer[a] = psp[Key(a)]
  /\ \A k \in Keys : psp[k] # NoAnswer => intents[k] # NoIntent

(* A settled payment agrees with the PSP. *)
VerdictMatchesPsp ==
  \A k \in Keys :
    /\ intents[k].status # "REFUNDED"
    /\ intents[k].status = "CAPTURED" =>
         /\ psp[k].status = "SUCCEEDED"
         /\ intents[k].amountCaptured = intents[k].amount
    /\ intents[k].status = "FAILED" =>
         /\ psp[k].status = "DECLINED"
         /\ intents[k].amountCaptured = NoAmount
    /\ intents[k].status = "PENDING" => intents[k].amountCaptured = NoAmount

(* Amounts come from commands that carry the key. *)
AmountsAreCommanded ==
  \A k \in Keys :
    /\ intents[k] # NoIntent =>
         \E a \in Attempts : Key(a) = k /\ intents[k].amount = cmd[a].amount
    /\ psp[k] # NoAnswer =>
         \E a \in Attempts : Key(a) = k /\ psp[k].amount = cmd[a].amount

AmbiguityIsRecorded ==
  \A a \in Attempts : pc[a] = "lookup" => "PENDING" \in Rows(Key(a))

IInv ==
  /\ TypeOK
  /\ HoldsPendingCopy
  /\ AnswerIsFinal
  /\ VerdictMatchesPsp
  /\ AmountsAreCommanded
  /\ AmbiguityIsRecorded
  /\ CommitPoint
  /\ OneLivePaymentPerOrder
  /\ TruthfulResult

-----------------------------------------------------------------------------
(* Helpers.                                                                  *)

RowOutcomes == {"PENDING", "SUCCEEDED", "FAILED"}

(* insertTransaction adds its outcome to one intent's rows and no other's. *)
LEMMA RowsAfterAppend ==
  ASSUME TypeOK, NEW k \in Keys, NEW outcome \in RowOutcomes, AppendRow(k, outcome)
  PROVE  /\ ledger' \in [Keys -> Seq(RowOutcomes)]
         /\ \A j \in Keys : Rows(j)' = IF j = k THEN Rows(j) \cup {outcome} ELSE Rows(j)
<1>1. ledger \in [Keys -> Seq(RowOutcomes)]
  BY DEF TypeOK, RowOutcomes
<1>2. ledger' = [ledger EXCEPT ![k] = Append(@, outcome)]
  BY DEF AppendRow
<1>3. ledger' \in [Keys -> Seq(RowOutcomes)]
  BY <1>1, <1>2
<1>4. ASSUME NEW j \in Keys
      PROVE  Rows(j)' = IF j = k THEN Rows(j) \cup {outcome} ELSE Rows(j)
  <2>1. CASE j # k
    BY <1>1, <1>2, <2>1 DEF Rows
  <2>2. CASE j = k
    <3>1. /\ ledger[k] \in Seq(RowOutcomes)
          /\ ledger'[k] = Append(ledger[k], outcome)
      BY <1>1, <1>2
    <3>2. /\ DOMAIN ledger[k] = 1..Len(ledger[k])
          /\ Len(ledger[k]) \in Nat
          /\ DOMAIN ledger'[k] = 1..Len(ledger[k]) + 1
          /\ ledger'[k][Len(ledger[k]) + 1] = outcome
          /\ \A n \in 1..Len(ledger[k]) : ledger'[k][n] = ledger[k][n]
      BY <3>1
    <3>3. QED
      BY <2>2, <3>2 DEF Rows
  <2>3. QED
    BY <2>1, <2>2
<1>5. QED
  BY <1>3, <1>4

(* The event written with an intent is told of its key and of no other. *)
LEMMA ToldAfterAnnounce ==
  ASSUME TypeOK, NEW a \in Attempts, NEW type, Announce(a, type)
  PROVE  \A j \in Keys : Told(j)' = IF j = Key(a) THEN Told(j) \cup {type} ELSE Told(j)
<1> DEFINE event == [id |-> a, type |-> type, key |-> Key(a)]
<1>1. /\ outbox' = outbox \cup {event}
      /\ event.key = Key(a)
      /\ event.type = type
  BY DEF Announce
<1> HIDE DEF event
<1>2. TAKE j \in Keys
<1>3. CASE j = Key(a)
  BY <1>1, <1>3 DEF Told
<1>4. CASE j # Key(a)
  <2>1. {x \in outbox' : x.key = j} = {x \in outbox : x.key = j}
    BY <1>1, <1>4
  <2>2. QED
    BY <1>4, <2>1 DEF Told
<1>5. QED
  BY <1>3, <1>4

(* An attempt's command names a key and an amount the instance has. *)
LEMMA KeyInKeys == TypeOK => \A a \in Attempts : Key(a) \in Keys /\ cmd[a].amount \in Amounts
<1>1. ASSUME TypeOK, NEW a \in Attempts
      PROVE  Key(a) \in Keys /\ cmd[a].amount \in Amounts
  <2>1. cmd[a] \in [key : Keys, amount : Amounts, token : Tokens]
    BY <1>1, CommandsAssumption DEF TypeOK
  <2>2. QED
    BY <2>1 DEF Key
<1>2. QED
  BY <1>1

(* A stored document never has the status or the amount of the null record. *)
LEMMA DocumentsExist ==
  ASSUME TypeOK
  PROVE  /\ \A k \in Keys : intents[k] # NoIntent <=> intents[k] \in Intents
         /\ \A k \in Keys : psp[k] # NoAnswer <=> psp[k] \in Answers
<1>1. NoIntent \notin Intents
  BY DEF NoIntent, Intents, Statuses
<1>2. NoAnswer \notin Answers
  BY DEF NoAnswer, Answers
<1>3. QED
  BY <1>1, <1>2 DEF TypeOK

-----------------------------------------------------------------------------
(* Type correctness.                                                         *)

(* Every step of an attempt keeps every variable in its type. *)
LEMMA TypeStep ==
  ASSUME TypeOK, NEW a \in Attempts, Execute(a)
  PROVE  TypeOK'
<1>1. Key(a) \in Keys /\ cmd[a].amount \in Amounts
  BY KeyInKeys
<1>2. CASE OpenIntent(a)
  BY <1>1, <1>2 DEF TypeOK, OpenIntent, Opened, Goto, Intents, Statuses
<1>3. CASE DuplicateKey(a)
  BY <1>1, <1>3 DEF TypeOK, DuplicateKey, Goto
<1>4. CASE FindExisting(a)
  <2>1. intents[Key(a)] \in Intents \cup {NoIntent}
    BY <1>1 DEF TypeOK
  <2>2. intents[Key(a)].status = "PENDING" => intents[Key(a)] \in Intents
    BY <2>1 DEF NoIntent
  <2>3. QED
    BY <1>4, <2>1, <2>2 DEF TypeOK, FindExisting, Goto, Return, Results
<1>5. CASE ChargeReplayed(a)
  BY <1>1, <1>5 DEF TypeOK, ChargeReplayed, Goto
<1>6. CASE ChargeAnswered(a)
  BY <1>1, <1>6 DEF TypeOK, ChargeAnswered, Goto, Charged, Answers
<1>7. CASE ChargeTimedOut(a)
  <2>1. psp' \in [Keys -> Answers \cup {NoAnswer}]
    <3>1. Charged(a, "SUCCEEDED") \in Answers
      BY <1>1 DEF Charged, Answers
    <3>2. QED
      BY <1>1, <1>7, <3>1 DEF TypeOK, ChargeTimedOut
  <2>2. QED
    BY <1>7, <2>1 DEF TypeOK, ChargeTimedOut, Goto
<1>8. CASE RecordPending(a)
  <2>1. ledger' \in [Keys -> Seq(RowOutcomes)]
    BY <1>1, <1>8, RowsAfterAppend DEF RecordPending, RowOutcomes
  <2>2. QED
    BY <1>8, <2>1 DEF TypeOK, RecordPending, Goto, RowOutcomes
<1>9. CASE LookUp(a)
  BY <1>1, <1>9 DEF TypeOK, LookUp, Goto, Return, Results
<1>10. CASE PersistCaptured(a)
  <2>1. ledger' \in [Keys -> Seq(RowOutcomes)]
    BY <1>1, <1>10, RowsAfterAppend DEF PersistCaptured, RowOutcomes
  <2>2. outbox' \subseteq Events
    BY <1>1, <1>10 DEF TypeOK, PersistCaptured, Announce, Events
  <2>3. intent[a] \in Intents
    BY <1>10 DEF TypeOK, PersistCaptured
  <2>4. intents' \in [Keys -> Intents \cup {NoIntent}]
    <3>1. MarkCaptured(intent[a]) \in Intents
      BY <2>3 DEF MarkCaptured, Intents, Statuses
    <3>2. QED
      BY <1>1, <1>10, <3>1 DEF TypeOK, PersistCaptured
  <2>5. QED
    BY <1>10, <2>1, <2>2, <2>4
    DEF TypeOK, PersistCaptured, Goto, Answered, Return, Results, RowOutcomes
<1>11. CASE PersistRejected(a)
  BY <1>11 DEF TypeOK, PersistRejected, Goto, Return, Results
<1>12. CASE PersistFailed(a)
  <2>1. ledger' \in [Keys -> Seq(RowOutcomes)]
    BY <1>1, <1>12, RowsAfterAppend DEF PersistFailed, RowOutcomes
  <2>2. outbox' \subseteq Events
    BY <1>1, <1>12 DEF TypeOK, PersistFailed, Announce, Events
  <2>3. intent[a] \in Intents
    BY <1>12 DEF TypeOK, PersistFailed
  <2>4. intents' \in [Keys -> Intents \cup {NoIntent}]
    <3>1. MarkFailed(intent[a]) \in Intents
      BY <2>3 DEF MarkFailed, Intents, Statuses
    <3>2. QED
      BY <1>1, <1>12, <3>1 DEF TypeOK, PersistFailed
  <2>5. QED
    BY <1>12, <2>1, <2>2, <2>4
    DEF TypeOK, PersistFailed, Goto, Answered, Return, Results, RowOutcomes
<1>13. CASE Fail(a)
  BY <1>13 DEF TypeOK, Fail, Goto, Return, Results
<1>14. QED
  BY <1>2, <1>3, <1>4, <1>5, <1>6, <1>7, <1>8, <1>9, <1>10, <1>11, <1>12, <1>13
  DEF Execute

(* Every reachable value of every variable has its type. *)
THEOREM TypeCorrect == Spec => []TypeOK
<1>1. Init => TypeOK
  BY DEF Init, TypeOK, NoIntent, NoAnswer
<1>2. TypeOK /\ [Next]_vars => TypeOK'
  <2>1. ASSUME TypeOK, UNCHANGED vars PROVE TypeOK'
    BY <2>1 DEF vars, TypeOK
  <2>2. QED
    BY <2>1, TypeStep DEF Next
<1>3. QED
  BY <1>1, <1>2, PTL DEF Spec

-----------------------------------------------------------------------------
(* What no step takes back.                                                  *)

(* Commands are fixed, a claimed key keeps its document and amount, a settled
   document is written over only with itself, the PSP's answer is final, and
   transaction rows are never erased. *)
Stable ==
  /\ cmd' = cmd
  /\ \A k \in Keys : intents[k] # NoIntent =>
       intents'[k] # NoIntent /\ intents'[k].amount = intents[k].amount
  /\ \A k \in Keys : intents[k].status \in {"CAPTURED", "FAILED"} => intents'[k] = intents[k]
  /\ \A k \in Keys : psp[k] # NoAnswer => psp'[k] = psp[k]
  /\ \A k \in Keys : Rows(k) \subseteq Rows(k)'

(* What persist writes: the intent as it stands, marked as the PSP decided.
   Over a document that an earlier attempt settled it writes the same again. *)
LEMMA CapturedDocument ==
  ASSUME IInv, NEW a \in Attempts, PersistCaptured(a)
  PROVE  /\ Key(a) \in Keys
         /\ intents[Key(a)] \in Intents
         /\ intents' = [intents EXCEPT ![Key(a)] =
              [status |-> "CAPTURED", amount |-> intents[Key(a)].amount,
               amountCaptured |-> intents[Key(a)].amount]]
         /\ psp[Key(a)].status = "SUCCEEDED"
         /\ intents[Key(a)].status # "FAILED"
         /\ intents[Key(a)].status = "CAPTURED" => intents' = intents
<1>1. Key(a) \in Keys /\ intents[Key(a)] \in Intents
  BY KeyInKeys, DocumentsExist DEF IInv, HoldsPendingCopy, PersistCaptured
<1>2. intent[a] = [status |-> "PENDING", amount |-> intents[Key(a)].amount,
                   amountCaptured |-> NoAmount]
  BY DEF IInv, HoldsPendingCopy, PersistCaptured
<1>3. intents' = [intents EXCEPT ![Key(a)] =
        [status |-> "CAPTURED", amount |-> intents[Key(a)].amount,
         amountCaptured |-> intents[Key(a)].amount]]
  <2>1. MarkCaptured(intent[a]) =
          [status |-> "CAPTURED", amount |-> intents[Key(a)].amount,
           amountCaptured |-> intents[Key(a)].amount]
    <3>1. intent[a].amount = intents[Key(a)].amount
      BY <1>2
    <3>2. MarkCaptured(intent[a]) =
            [[status |-> "PENDING", amount |-> intents[Key(a)].amount, amountCaptured |-> NoAmount]
               EXCEPT !.status = "CAPTURED", !.amountCaptured = intents[Key(a)].amount]
      BY <1>2, <3>1, Zenon DEF MarkCaptured
    <3>3. QED
      BY <3>2
  <2>2. QED
    BY <2>1, Zenon DEF PersistCaptured
<1>4. psp[Key(a)].status = "SUCCEEDED"
  BY DEF IInv, AnswerIsFinal, PersistCaptured
<1>5. intents[Key(a)].status # "FAILED"
  BY <1>1, <1>4 DEF IInv, VerdictMatchesPsp
<1>6. ASSUME intents[Key(a)].status = "CAPTURED" PROVE intents' = intents
  <2>1. intents[Key(a)] = [status |-> "CAPTURED", amount |-> intents[Key(a)].amount,
                           amountCaptured |-> intents[Key(a)].amount]
    BY <1>1, <1>6 DEF IInv, VerdictMatchesPsp, Intents
  <2>2. intents \in [Keys -> Intents \cup {NoIntent}]
    BY DEF IInv, TypeOK
  <2>3. QED
    BY <1>3, <2>1, <2>2
<1>7. QED
  BY <1>1, <1>3, <1>4, <1>5, <1>6

(* persist of a declined charge writes a FAILED document that is otherwise the
   intent opened, over a document that is pending or says the same. *)
LEMMA FailedDocument ==
  ASSUME IInv, NEW a \in Attempts, PersistFailed(a)
  PROVE  /\ Key(a) \in Keys
         /\ intents[Key(a)] \in Intents
         /\ intents' = [intents EXCEPT ![Key(a)] =
              [status |-> "FAILED", amount |-> intents[Key(a)].amount,
               amountCaptured |-> NoAmount]]
         /\ psp[Key(a)].status = "DECLINED"
         /\ intents[Key(a)].status # "CAPTURED"
         /\ intents[Key(a)].status = "FAILED" => intents' = intents
<1>1. Key(a) \in Keys /\ intents[Key(a)] \in Intents
  BY KeyInKeys, DocumentsExist DEF IInv, HoldsPendingCopy, PersistFailed
<1>2. intent[a] = [status |-> "PENDING", amount |-> intents[Key(a)].amount,
                   amountCaptured |-> NoAmount]
  BY DEF IInv, HoldsPendingCopy, PersistFailed
<1>3. intents' = [intents EXCEPT ![Key(a)] =
        [status |-> "FAILED", amount |-> intents[Key(a)].amount,
         amountCaptured |-> NoAmount]]
  <2>1. MarkFailed(intent[a]) =
          [status |-> "FAILED", amount |-> intents[Key(a)].amount,
           amountCaptured |-> NoAmount]
    BY <1>2 DEF MarkFailed
  <2>2. QED
    BY <2>1, Zenon DEF PersistFailed
<1>4. psp[Key(a)].status = "DECLINED"
  BY DEF IInv, AnswerIsFinal, PersistFailed
<1>5. intents[Key(a)].status # "CAPTURED"
  BY <1>1, <1>4 DEF IInv, VerdictMatchesPsp
<1>6. ASSUME intents[Key(a)].status = "FAILED" PROVE intents' = intents
  <2>1. intents[Key(a)] = [status |-> "FAILED", amount |-> intents[Key(a)].amount,
                           amountCaptured |-> NoAmount]
    BY <1>1, <1>6 DEF IInv, VerdictMatchesPsp, Intents
  <2>2. intents \in [Keys -> Intents \cup {NoIntent}]
    BY DEF IInv, TypeOK
  <2>3. QED
    BY <1>3, <2>1, <2>2
<1>7. QED
  BY <1>1, <1>3, <1>4, <1>5, <1>6

(* Commands never change, an opened intent keeps its amount, and a settled
   document, a transaction row and a decision of the PSP stay. *)
LEMMA StepIsStable ==
  ASSUME IInv, NEW a \in Attempts, Execute(a)
  PROVE  Stable
<1>1. /\ Key(a) \in Keys
      /\ intents \in [Keys -> Intents \cup {NoIntent}]
      /\ psp \in [Keys -> Answers \cup {NoAnswer}]
  BY KeyInKeys DEF IInv, TypeOK
<1>2. cmd' = cmd
  BY DEF Execute, OpenIntent, DuplicateKey, FindExisting, ChargeReplayed, ChargeAnswered,
         ChargeTimedOut, RecordPending, LookUp, PersistCaptured, PersistRejected,
         PersistFailed, Fail
<1>3. \A k \in Keys : psp[k] # NoAnswer => psp'[k] = psp[k]
  BY <1>1 DEF Execute, OpenIntent, DuplicateKey, FindExisting, ChargeReplayed,
         ChargeAnswered, ChargeTimedOut, RecordPending, LookUp, PersistCaptured,
         PersistRejected, PersistFailed, Fail
<1>4. \A k \in Keys : Rows(k) \subseteq Rows(k)'
  <2>1. CASE \E outcome \in RowOutcomes : AppendRow(Key(a), outcome)
    BY <1>1, <2>1, RowsAfterAppend DEF IInv
  <2>2. CASE ledger' = ledger
    BY <2>2 DEF Rows
  <2>3. QED
    BY <2>1, <2>2
    DEF Execute, OpenIntent, DuplicateKey, FindExisting, ChargeReplayed, ChargeAnswered,
        ChargeTimedOut, RecordPending, LookUp, PersistCaptured, PersistRejected,
        PersistFailed, Fail, RowOutcomes
<1>5. /\ \A k \in Keys : intents[k] # NoIntent =>
           intents'[k] # NoIntent /\ intents'[k].amount = intents[k].amount
      /\ \A k \in Keys : intents[k].status \in {"CAPTURED", "FAILED"} => intents'[k] = intents[k]
  <2>1. CASE intents' = intents
    BY <2>1
  <2>2. CASE OpenIntent(a)
    BY <1>1, <2>2 DEF OpenIntent, Opened, NoIntent
  <2>3. CASE PersistCaptured(a)
    BY <1>1, <2>3, CapturedDocument DEF NoIntent
  <2>4. CASE PersistFailed(a)
    BY <1>1, <2>4, FailedDocument DEF NoIntent
  <2>5. QED
    BY <2>1, <2>2, <2>3, <2>4
    DEF Execute, DuplicateKey, FindExisting, ChargeReplayed, ChargeAnswered,
        ChargeTimedOut, RecordPending, LookUp, PersistRejected, Fail
<1>6. QED
  BY <1>2, <1>3, <1>4, <1>5 DEF Stable

-----------------------------------------------------------------------------
(* The invariant is inductive.                                               *)

(* An attempt moves only its own program counter and memory. *)
LEMMA OthersStand ==
  ASSUME TypeOK, NEW a \in Attempts, Execute(a), NEW b \in Attempts \ {a}
  PROVE  /\ pc'[b] = pc[b]
         /\ intent'[b] = intent[b]
         /\ answer'[b] = answer[b]
         /\ result'[b] = result[b]
BY DEF TypeOK, Execute, Goto, Answered, Return, OpenIntent, DuplicateKey, FindExisting, ChargeReplayed,
       ChargeAnswered, ChargeTimedOut, RecordPending, LookUp, PersistCaptured,
       PersistRejected, PersistFailed, Fail

(* Every step keeps the in-memory intent a pending copy of the stored one. *)
LEMMA PendingCopyStep ==
  ASSUME IInv, NEW a \in Attempts, Execute(a)
  PROVE  HoldsPendingCopy'
<1>1. SUFFICES ASSUME NEW b \in Attempts,
                      pc'[b] \in {"charge", "record", "lookup", "persist"}
               PROVE  /\ intents'[Key(b)] # NoIntent
                      /\ intent'[b] = [status |-> "PENDING", amount |-> intents'[Key(b)].amount,
                                       amountCaptured |-> NoAmount]
  <2>1. cmd' = cmd
    BY StepIsStable DEF Stable
  <2>2. QED
    BY <2>1 DEF HoldsPendingCopy, Key
<1>2. /\ TypeOK
      /\ Stable
      /\ Key(b) \in Keys
      /\ Key(a) \in Keys
  BY StepIsStable, KeyInKeys DEF IInv
<1>3. ASSUME pc[b] \in {"charge", "record", "lookup", "persist"}, intent'[b] = intent[b]
      PROVE  /\ intents'[Key(b)] # NoIntent
             /\ intent'[b] = [status |-> "PENDING", amount |-> intents'[Key(b)].amount,
                              amountCaptured |-> NoAmount]
  <2>1. /\ intents[Key(b)] # NoIntent
        /\ intent[b] = [status |-> "PENDING", amount |-> intents[Key(b)].amount,
                        amountCaptured |-> NoAmount]
    BY <1>3 DEF IInv, HoldsPendingCopy
  <2>2. intents'[Key(b)] # NoIntent /\ intents'[Key(b)].amount = intents[Key(b)].amount
    BY <1>2, <2>1 DEF Stable
  <2>3. QED
    BY <1>3, <2>1, <2>2
<1>4. CASE b # a
  BY <1>1, <1>2, <1>3, <1>4, OthersStand
<1>5. CASE b = a
  <2>1. CASE OpenIntent(a)
    <3>1. /\ intents'[Key(a)] = [status |-> "PENDING", amount |-> cmd[a].amount,
                                 amountCaptured |-> NoAmount]
          /\ intent'[a] = [status |-> "PENDING", amount |-> cmd[a].amount,
                           amountCaptured |-> NoAmount]
      BY <1>2, <2>1 DEF TypeOK, OpenIntent, Opened
    <3>2. QED
      BY <1>5, <3>1 DEF NoIntent
  <2>2. CASE FindExisting(a)
    <3>1. /\ intents' = intents
          /\ intent'[a] = intents[Key(a)]
          /\ intents[Key(a)].status = "PENDING"
      BY <1>1, <1>2, <1>5, <2>2 DEF TypeOK, FindExisting, Return, Goto
    <3>2. intents[Key(a)] \in Intents /\ intents[Key(a)] # NoIntent
      BY <1>2, <3>1 DEF TypeOK, NoIntent
    <3>3. intents[Key(a)].amountCaptured = NoAmount
      BY <1>2, <3>1, <3>2 DEF IInv, VerdictMatchesPsp
    <3>4. intents[Key(a)] = [status |-> "PENDING", amount |-> intents[Key(a)].amount,
                             amountCaptured |-> NoAmount]
      BY <3>1, <3>2, <3>3 DEF Intents
    <3>5. QED
      BY <1>5, <3>1, <3>2, <3>4
  <2>3. CASE ChargeReplayed(a) \/ ChargeAnswered(a) \/ ChargeTimedOut(a)
             \/ RecordPending(a) \/ LookUp(a)
    BY <1>3, <1>5, <2>3
    DEF ChargeReplayed, ChargeAnswered, ChargeTimedOut, RecordPending, LookUp
  <2>4. CASE DuplicateKey(a) \/ PersistCaptured(a) \/ PersistRejected(a)
             \/ PersistFailed(a) \/ Fail(a)
    BY <1>1, <1>2, <1>5, <2>4
    DEF TypeOK, DuplicateKey, PersistCaptured, PersistRejected, PersistFailed, Fail,
        Answered, Return, Goto
  <2>5. QED
    BY <2>1, <2>2, <2>3, <2>4 DEF Execute
<1>6. QED
  BY <1>4, <1>5

(* Every step keeps an attempt's outcome the one the PSP gave for its key. *)
LEMMA AnswerStep ==
  ASSUME IInv, NEW a \in Attempts, Execute(a)
  PROVE  AnswerIsFinal'
<1>1. /\ TypeOK
      /\ TypeOK'
      /\ Stable
      /\ cmd' = cmd
      /\ Key(a) \in Keys
  BY StepIsStable, TypeStep, KeyInKeys DEF IInv, Stable
<1>2. ASSUME NEW b \in Attempts, pc'[b] = "find"
      PROVE  intents'[Key(b)] # NoIntent
  <2>1. Key(b) \in Keys
    BY <1>1, KeyInKeys
  <2>2. CASE pc[b] = "find"
    BY <1>1, <2>1, <2>2 DEF IInv, AnswerIsFinal, Stable
  <2>3. CASE pc[b] # "find"
    <3>1. b = a
      BY <1>1, <1>2, <2>3, OthersStand
    <3>2. DuplicateKey(a)
      BY <1>1, <1>2, <2>3, <3>1
      DEF TypeOK, Execute, Goto, Answered, Return, OpenIntent, FindExisting, ChargeReplayed,
          ChargeAnswered, ChargeTimedOut, RecordPending, LookUp, PersistCaptured,
          PersistRejected, PersistFailed, Fail
    <3>3. QED
      BY <3>1, <3>2 DEF DuplicateKey
  <2>4. QED
    BY <2>2, <2>3
<1>3. ASSUME NEW b \in Attempts, pc'[b] = "persist"
      PROVE  psp'[Key(b)] # NoAnswer /\ answer'[b] = psp'[Key(b)]
  <2>1. Key(b) \in Keys
    BY <1>1, KeyInKeys
  <2>2. CASE b # a
    <3>1. psp[Key(b)] # NoAnswer /\ answer[b] = psp[Key(b)]
      BY <1>1, <1>3, <2>2, OthersStand DEF IInv, AnswerIsFinal
    <3>2. answer'[b] = answer[b]
      BY <1>1, <2>2, OthersStand
    <3>3. QED
      BY <1>1, <2>1, <3>1, <3>2 DEF Stable
  <2>3. CASE b = a
    <3>1. ChargeReplayed(a) \/ ChargeAnswered(a) \/ LookUp(a)
      BY <1>1, <1>3, <2>3
      DEF TypeOK, Execute, Goto, Answered, Return, OpenIntent, DuplicateKey, FindExisting,
          ChargeTimedOut, RecordPending, PersistCaptured, PersistRejected, PersistFailed, Fail
    <3>2. CASE ChargeReplayed(a)
      BY <1>1, <2>3, <3>2 DEF TypeOK, ChargeReplayed
    <3>3. CASE ChargeAnswered(a)
      BY <1>1, <2>3, <3>3 DEF TypeOK, ChargeAnswered, Charged, NoAnswer
    <3>4. CASE LookUp(a)
      BY <1>1, <1>3, <2>3, <3>4 DEF TypeOK, LookUp, Return, Goto
    <3>5. QED
      BY <3>1, <3>2, <3>3, <3>4
  <2>4. QED
    BY <2>2, <2>3
<1>4. ASSUME NEW k \in Keys, psp'[k] # NoAnswer
      PROVE  intents'[k] # NoIntent
  <2>1. CASE psp[k] # NoAnswer
    BY <1>1, <2>1 DEF IInv, AnswerIsFinal, Stable
  <2>2. CASE psp[k] = NoAnswer
    <3>1. k = Key(a) /\ pc[a] = "charge"
      BY <1>1, <1>4, <2>2
      DEF TypeOK, Execute, OpenIntent, DuplicateKey, FindExisting, ChargeReplayed,
          ChargeAnswered, ChargeTimedOut, RecordPending, LookUp, PersistCaptured,
          PersistRejected, PersistFailed, Fail
    <3>2. QED
      BY <1>1, <3>1 DEF IInv, HoldsPendingCopy, Stable
  <2>3. QED
    BY <2>1, <2>2
<1>5. QED
  BY <1>1, <1>2, <1>3, <1>4 DEF AnswerIsFinal, Key

(* Every step keeps the stored status in line with the PSP's decision. *)
LEMMA VerdictStep ==
  ASSUME IInv, NEW a \in Attempts, Execute(a)
  PROVE  VerdictMatchesPsp'
<1>1. /\ TypeOK
      /\ Stable
      /\ Key(a) \in Keys
  BY StepIsStable, KeyInKeys DEF IInv
<1>2. ASSUME NEW k \in Keys, psp[k].status \in {"SUCCEEDED", "DECLINED"}
      PROVE  psp'[k] = psp[k]
  BY <1>1, <1>2 DEF Stable, NoAnswer
<1>3. CASE intents' = intents
  BY <1>2, <1>3 DEF IInv, VerdictMatchesPsp
<1>4. CASE OpenIntent(a)
  BY <1>1, <1>2, <1>4 DEF IInv, TypeOK, VerdictMatchesPsp, OpenIntent, Opened
<1>5. CASE PersistCaptured(a)
  <2>1. psp' = psp
    BY <1>5 DEF PersistCaptured
  <2>2. \A k \in Keys \ {Key(a)} : intents'[k] = intents[k]
    BY <1>1, <1>5, CapturedDocument DEF TypeOK
  <2>3. intents'[Key(a)] = [status |-> "CAPTURED", amount |-> intents[Key(a)].amount,
                            amountCaptured |-> intents[Key(a)].amount]
    BY <1>1, <1>5, CapturedDocument DEF TypeOK
  <2>4. QED
    BY <1>5, <2>1, <2>2, <2>3, CapturedDocument DEF IInv, VerdictMatchesPsp
<1>6. CASE PersistFailed(a)
  <2>1. psp' = psp
    BY <1>6 DEF PersistFailed
  <2>2. \A k \in Keys \ {Key(a)} : intents'[k] = intents[k]
    BY <1>1, <1>6, FailedDocument DEF TypeOK
  <2>3. intents'[Key(a)] = [status |-> "FAILED", amount |-> intents[Key(a)].amount,
                            amountCaptured |-> NoAmount]
    BY <1>1, <1>6, FailedDocument DEF TypeOK
  <2>4. QED
    BY <1>6, <2>1, <2>2, <2>3, FailedDocument DEF IInv, VerdictMatchesPsp
<1>7. QED
  BY <1>3, <1>4, <1>5, <1>6
  DEF Execute, DuplicateKey, FindExisting, ChargeReplayed, ChargeAnswered,
      ChargeTimedOut, RecordPending, LookUp, PersistRejected, Fail

(* Every step keeps stored and charged amounts ones that a command carries. *)
LEMMA AmountsStep ==
  ASSUME IInv, NEW a \in Attempts, Execute(a)
  PROVE  AmountsAreCommanded'
<1>1. /\ TypeOK
      /\ Stable
      /\ Key(a) \in Keys
      /\ cmd' = cmd
  BY StepIsStable, KeyInKeys DEF IInv, Stable
<1>2. ASSUME NEW k \in Keys, intents'[k] # NoIntent
      PROVE  \E b \in Attempts : Key(b) = k /\ intents'[k].amount = cmd[b].amount
  <2>1. CASE intents[k] # NoIntent
    BY <1>1, <2>1 DEF IInv, AmountsAreCommanded, Stable
  <2>2. CASE intents[k] = NoIntent
    <3>1. OpenIntent(a) /\ k = Key(a)
      BY <1>1, <1>2, <2>2, CapturedDocument, FailedDocument, DocumentsExist
      DEF TypeOK, Execute, OpenIntent, DuplicateKey, FindExisting, ChargeReplayed,
          ChargeAnswered, ChargeTimedOut, RecordPending, LookUp, PersistRejected, Fail
    <3>2. intents'[k].amount = cmd[a].amount
      BY <1>1, <3>1 DEF TypeOK, OpenIntent, Opened
    <3>3. QED
      BY <3>1, <3>2
  <2>3. QED
    BY <2>1, <2>2
<1>3. ASSUME NEW k \in Keys, psp'[k] # NoAnswer
      PROVE  \E b \in Attempts : Key(b) = k /\ psp'[k].amount = cmd[b].amount
  <2>1. CASE psp[k] # NoAnswer
    BY <1>1, <2>1 DEF IInv, AmountsAreCommanded, Stable
  <2>2. CASE psp[k] = NoAnswer
    <3>1. k = Key(a) /\ (ChargeAnswered(a) \/ ChargeTimedOut(a))
      BY <1>1, <1>3, <2>2
      DEF TypeOK, Execute, OpenIntent, DuplicateKey, FindExisting, ChargeReplayed,
          ChargeAnswered, ChargeTimedOut, RecordPending, LookUp, PersistCaptured,
          PersistRejected, PersistFailed, Fail
    <3>2. psp'[k].amount = cmd[a].amount
      BY <1>1, <1>3, <2>2, <3>1 DEF TypeOK, ChargeAnswered, ChargeTimedOut, Charged
    <3>3. QED
      BY <3>1, <3>2
  <2>3. QED
    BY <2>1, <2>2
<1>4. QED
  BY <1>1, <1>2, <1>3 DEF AmountsAreCommanded, Key

(* An attempt that asks the PSP again has left its PENDING row. *)
LEMMA AmbiguityStep ==
  ASSUME IInv, NEW a \in Attempts, Execute(a)
  PROVE  AmbiguityIsRecorded'
<1>1. /\ TypeOK
      /\ Stable
      /\ cmd' = cmd
  BY StepIsStable DEF IInv, Stable
<1>2. ASSUME NEW b \in Attempts, NEW k \in Keys, pc'[b] = "lookup", k = Key(b)
      PROVE  "PENDING" \in Rows(k)'
  <2>1. CASE pc[b] = "lookup"
    BY <1>1, <1>2, <2>1 DEF IInv, AmbiguityIsRecorded, Stable
  <2>2. CASE pc[b] # "lookup"
    <3>1. b = a
      BY <1>1, <1>2, <2>2, OthersStand
    <3>2. RecordPending(a)
      BY <1>1, <1>2, <2>2, <3>1
      DEF TypeOK, Execute, Goto, Answered, Return, OpenIntent, DuplicateKey, FindExisting,
          ChargeReplayed, ChargeAnswered, ChargeTimedOut, LookUp, PersistCaptured,
          PersistRejected, PersistFailed, Fail
    <3>3. AppendRow(k, "PENDING")
      BY <1>2, <3>1, <3>2 DEF RecordPending
    <3>4. QED
      BY <1>1, <3>3, RowsAfterAppend DEF RowOutcomes
  <2>3. QED
    BY <2>1, <2>2
<1>3. ASSUME NEW b \in Attempts, pc'[b] = "lookup"
      PROVE  "PENDING" \in {ledger'[Key(b)][n] : n \in DOMAIN ledger'[Key(b)]}
  BY <1>1, <1>2, <1>3, KeyInKeys DEF Rows
<1>4. QED
  BY <1>1, <1>3 DEF AmbiguityIsRecorded, Rows, Key

(* Every step writes status, row and event together or none of them. *)
LEMMA CommitPointStep ==
  ASSUME IInv, NEW a \in Attempts, Execute(a)
  PROVE  CommitPoint'
<1>1. /\ TypeOK
      /\ Key(a) \in Keys
      /\ intents \in [Keys -> Intents \cup {NoIntent}]
  BY KeyInKeys DEF IInv, TypeOK
<1>2. CASE UNCHANGED <<intents, ledger, outbox>>
  BY <1>2 DEF IInv, CommitPoint, Rows, Told
<1>3. CASE OpenIntent(a)
  <2>1. \A k \in Keys : Rows(k)' = Rows(k) /\ Told(k)' = Told(k)
    BY <1>3 DEF OpenIntent, Opened, Rows, Told
  <2>2. \A k \in Keys : /\ intents'[k].status = "CAPTURED" <=> intents[k].status = "CAPTURED"
                        /\ intents'[k].status = "FAILED" <=> intents[k].status = "FAILED"
    BY <1>1, <1>3 DEF OpenIntent, Opened, NoIntent
  <2>3. QED
    BY <2>1, <2>2 DEF IInv, CommitPoint
<1>4. CASE RecordPending(a)
  <2>1. \A k \in Keys : Rows(k)' = IF k = Key(a) THEN Rows(k) \cup {"PENDING"} ELSE Rows(k)
    BY <1>1, <1>4, RowsAfterAppend DEF RecordPending, RowOutcomes
  <2>2. \A k \in Keys : Told(k)' = Told(k)
    BY <1>4 DEF RecordPending, Told
  <2>3. intents' = intents
    BY <1>4 DEF RecordPending
  <2>4. QED
    BY <2>1, <2>2, <2>3 DEF IInv, CommitPoint
<1>5. CASE PersistCaptured(a)
  <2>1. \A k \in Keys : Rows(k)' = IF k = Key(a) THEN Rows(k) \cup {"SUCCEEDED"} ELSE Rows(k)
    BY <1>1, <1>5, RowsAfterAppend DEF PersistCaptured, RowOutcomes
  <2>2. \A k \in Keys :
          Told(k)' = IF k = Key(a) THEN Told(k) \cup {"payment.captured"} ELSE Told(k)
    BY <1>1, <1>5, ToldAfterAnnounce DEF PersistCaptured
  <2>3. /\ intents'[Key(a)].status = "CAPTURED"
        /\ intents[Key(a)].status # "FAILED"
        /\ \A k \in Keys \ {Key(a)} : intents'[k] = intents[k]
    BY <1>1, <1>5, CapturedDocument
  <2>4. QED
    BY <2>1, <2>2, <2>3 DEF IInv, CommitPoint
<1>6. CASE PersistFailed(a)
  <2>1. \A k \in Keys : Rows(k)' = IF k = Key(a) THEN Rows(k) \cup {"FAILED"} ELSE Rows(k)
    BY <1>1, <1>6, RowsAfterAppend DEF PersistFailed, RowOutcomes
  <2>2. \A k \in Keys :
          Told(k)' = IF k = Key(a) THEN Told(k) \cup {"payment.failed"} ELSE Told(k)
    BY <1>1, <1>6, ToldAfterAnnounce DEF PersistFailed
  <2>3. /\ intents'[Key(a)].status = "FAILED"
        /\ intents[Key(a)].status # "CAPTURED"
        /\ \A k \in Keys \ {Key(a)} : intents'[k] = intents[k]
    BY <1>1, <1>6, FailedDocument
  <2>4. QED
    BY <2>1, <2>2, <2>3 DEF IInv, CommitPoint
<1>7. QED
  BY <1>2, <1>3, <1>4, <1>5, <1>6
  DEF Execute, DuplicateKey, FindExisting, ChargeReplayed, ChargeAnswered,
      ChargeTimedOut, LookUp, PersistRejected, Fail

(* The unique index keeps a second payment of an order out of the live set. *)
LEMMA OneLiveStep ==
  ASSUME IInv, NEW a \in Attempts, Execute(a)
  PROVE  OneLivePaymentPerOrder'
<1>1. /\ TypeOK
      /\ Key(a) \in Keys
      /\ intents \in [Keys -> Intents \cup {NoIntent}]
  BY KeyInKeys DEF IInv, TypeOK
<1>2. ASSUME \A k \in Keys : Live(k)' => Live(k)
      PROVE  OneLivePaymentPerOrder'
  BY <1>2 DEF IInv, OneLivePaymentPerOrder
<1>3. CASE intents' = intents
  BY <1>2, <1>3 DEF Live
<1>4. CASE OpenIntent(a)
  BY <1>1, <1>2, <1>4 DEF OpenIntent, Opened, Live
<1>5. CASE PersistFailed(a)
  BY <1>1, <1>2, <1>5, FailedDocument DEF Live
<1>6. CASE PersistCaptured(a)
  <2>1. ~OrderTaken(Key(a))
    BY <1>6 DEF PersistCaptured
  <2>2. \A k \in Keys \ {Key(a)} : Live(k)' => Live(k)
    BY <1>1, <1>6, CapturedDocument DEF Live
  <2>3. QED
    BY <2>1, <2>2 DEF IInv, OneLivePaymentPerOrder, OrderTaken
<1>7. QED
  BY <1>3, <1>4, <1>5, <1>6
  DEF Execute, DuplicateKey, FindExisting, ChargeReplayed, ChargeAnswered,
      ChargeTimedOut, RecordPending, LookUp, PersistRejected, Fail

(* No step makes an answer given earlier untrue. *)
LEMMA TruthfulStep ==
  ASSUME IInv, NEW a \in Attempts, Execute(a)
  PROVE  TruthfulResult'
<1>1. /\ TypeOK
      /\ Stable
      /\ cmd' = cmd
  BY StepIsStable DEF IInv, Stable
<1>2. ASSUME NEW b \in Attempts, NEW k \in Keys, k = Key(b)
      PROVE  /\ result'[b] \in {"CAPTURED", "ALREADY_CAPTURED"} => intents'[k].status = "CAPTURED"
             /\ result'[b] = "DECLINED" => intents'[k].status = "FAILED"
             /\ result'[b] = "PENDING_RECONCILIATION" => "PENDING" \in Rows(k)'
  <2>1. CASE result'[b] = result[b]
    <3>1. /\ result[b] \in {"CAPTURED", "ALREADY_CAPTURED"} => intents[k].status = "CAPTURED"
          /\ result[b] = "DECLINED" => intents[k].status = "FAILED"
          /\ result[b] = "PENDING_RECONCILIATION" => "PENDING" \in Rows(k)
      BY <1>2 DEF IInv, TruthfulResult
    <3>2. QED
      BY <1>1, <2>1, <3>1 DEF Stable
  <2>2. CASE result'[b] # result[b]
    <3>1. b = a
      BY <1>1, <2>2, OthersStand
    <3>2. CASE FindExisting(a)
      <4>1. intents[k] # NoIntent /\ intents[k].status # "REFUNDED"
        BY <1>2, <3>1, <3>2 DEF IInv, AnswerIsFinal, VerdictMatchesPsp, FindExisting
      <4>2. intents[k].status \in Statuses
        BY <1>1, <4>1, DocumentsExist DEF Intents
      <4>3. intents' = intents
        BY <3>2 DEF FindExisting
      <4>4. QED
        BY <1>1, <1>2, <2>2, <3>1, <3>2, <4>1, <4>2, <4>3
        DEF TypeOK, FindExisting, Return, Statuses
    <3>3. CASE LookUp(a)
      <4>1. result'[b] = "PENDING_RECONCILIATION"
        BY <1>1, <2>2, <3>1, <3>3 DEF TypeOK, LookUp, Return
      <4>2. "PENDING" \in Rows(k)
        BY <1>2, <3>1, <3>3 DEF IInv, AmbiguityIsRecorded, LookUp
      <4>3. QED
        BY <1>1, <4>1, <4>2 DEF Stable
    <3>4. CASE PersistCaptured(a)
      <4>1. result'[b] \in {"CAPTURED", "ERROR"}
        BY <1>1, <3>1, <3>4 DEF TypeOK, PersistCaptured, Answered, Return
      <4>2. intents'[k].status = "CAPTURED"
        BY <1>1, <1>2, <3>1, <3>4, CapturedDocument DEF TypeOK
      <4>3. QED
        BY <4>1, <4>2
    <3>5. CASE PersistFailed(a)
      <4>1. result'[b] \in {"DECLINED", "ERROR"}
        BY <1>1, <3>1, <3>5 DEF TypeOK, PersistFailed, Answered, Return
      <4>2. intents'[k].status = "FAILED"
        BY <1>1, <1>2, <3>1, <3>5, FailedDocument DEF TypeOK
      <4>3. QED
        BY <4>1, <4>2
    <3>6. CASE PersistRejected(a) \/ Fail(a)
      BY <1>1, <3>1, <3>6 DEF TypeOK, PersistRejected, Fail, Return
    <3>7. QED
      BY <2>2, <3>2, <3>3, <3>4, <3>5, <3>6
      DEF Execute, OpenIntent, DuplicateKey, ChargeReplayed, ChargeAnswered,
          ChargeTimedOut, RecordPending
  <2>3. QED
    BY <2>1, <2>2
<1>3. QED
  BY <1>1, <1>2, KeyInKeys DEF TruthfulResult, Rows, Key

-----------------------------------------------------------------------------
(* Theorems.                                                                 *)

(* The invariant holds of every reachable state. *)
THEOREM Invariance == Spec => []IInv
<1>1. Init => IInv
  <2>1. ASSUME Init PROVE IInv
    <3>1. TypeOK
      BY <2>1 DEF Init, TypeOK, NoIntent, NoAnswer
    <3>2. \A k \in Keys : /\ intents[k] = NoIntent
                          /\ psp[k] = NoAnswer
                          /\ Rows(k) = {}
                          /\ Told(k) = {}
      BY <2>1 DEF Init, Rows, Told
    <3>3. \A a \in Attempts : pc[a] = "open" /\ result[a] = "NONE"
      BY <2>1 DEF Init
    <3>4. HoldsPendingCopy /\ AnswerIsFinal /\ AmbiguityIsRecorded /\ AmountsAreCommanded
      BY <3>2, <3>3
      DEF HoldsPendingCopy, AnswerIsFinal, AmbiguityIsRecorded, AmountsAreCommanded
    <3>5. VerdictMatchesPsp /\ CommitPoint /\ OneLivePaymentPerOrder
      BY <3>2 DEF VerdictMatchesPsp, CommitPoint, OneLivePaymentPerOrder, Live, NoIntent
    <3>6. TruthfulResult
      BY <3>3 DEF TruthfulResult
    <3>7. QED
      BY <3>1, <3>4, <3>5, <3>6 DEF IInv
  <2>2. QED
    BY <2>1
<1>2. IInv /\ [Next]_vars => IInv'
  <2>1. ASSUME IInv, NEW a \in Attempts, Execute(a) PROVE IInv'
    BY <2>1, TypeStep, PendingCopyStep, AnswerStep, VerdictStep, AmountsStep, AmbiguityStep,
       CommitPointStep, OneLiveStep, TruthfulStep
    DEF IInv
  <2>2. ASSUME IInv, UNCHANGED vars PROVE IInv'
    BY <2>2
    DEF IInv, vars, TypeOK, HoldsPendingCopy, AnswerIsFinal, VerdictMatchesPsp,
        AmountsAreCommanded, AmbiguityIsRecorded, CommitPoint, OneLivePaymentPerOrder,
        TruthfulResult, Rows, Told, Live, Key
  <2>3. QED
    BY <2>1, <2>2 DEF Next
<1>3. QED
  BY <1>1, <1>2, PTL DEF Spec

(* An order never has two captured payments, for any number of keys, orders
   and concurrent attempts. *)
THEOREM AtMostOneLivePayment == Spec => []OneLivePaymentPerOrder
BY Invariance, PTL DEF IInv

(* What callers were told stays true of the stored payment. *)
THEOREM ResultsStayTrue == Spec => []TruthfulResult
BY Invariance, PTL DEF IInv

(* Status, transaction row and event are one commit. *)
THEOREM CommitPointHolds == Spec => []CommitPoint
BY Invariance, PTL DEF IInv

(* Under one amount per key, what was charged is what was recorded. *)
THEOREM ChargeMatchesRecord == Spec => []ChargedAsRecorded
<1>1. IInv => ChargedAsRecorded
  <2>1. SUFFICES ASSUME IInv, NEW k \in Keys, intents[k].status = "CAPTURED",
                        \A a, b \in Attempts : Key(a) = k /\ Key(b) = k =>
                                                 cmd[a].amount = cmd[b].amount
                 PROVE  psp[k] = [status |-> "SUCCEEDED", amount |-> intents[k].amountCaptured]
    BY DEF ChargedAsRecorded
  <2>2. /\ psp[k].status = "SUCCEEDED"
        /\ intents[k].amountCaptured = intents[k].amount
    BY <2>1 DEF IInv, VerdictMatchesPsp
  <2>3. intents[k] # NoIntent /\ psp[k] # NoAnswer
    BY <2>1, <2>2 DEF NoIntent, NoAnswer
  <2>4. intents[k].amount = psp[k].amount
    BY <2>1, <2>3 DEF IInv, AmountsAreCommanded
  <2>5. psp[k] \in Answers
    BY <2>1, <2>3, DocumentsExist DEF IInv
  <2>6. QED
    BY <2>2, <2>4, <2>5 DEF Answers
<1>2. QED
  BY <1>1, Invariance, PTL

(* A settled payment is never changed, although every attempt that still holds
   the PENDING copy may write over it. *)
THEOREM SettledPaymentsStand == Spec => SettledIsFinal
<1>1. IInv /\ [Next]_vars =>
        [\A k \in Keys :
           intents[k].status \in {"CAPTURED", "FAILED"} => intents'[k] = intents[k]]_vars
  BY StepIsStable DEF Next, Stable
<1>2. QED
  BY <1>1, Invariance, PTL DEF Spec, SettledIsFinal

-----------------------------------------------------------------------------
(* Refinement.                                                               *)

(* What a step leaves alone it leaves alone in the ledger. *)
LEMMA MappingFrame ==
  /\ intents' = intents => [k \in Keys |-> PaymentAs[intents[k].status]]' =
                           [k \in Keys |-> PaymentAs[intents[k].status]]
  /\ psp' = psp => [k \in Keys |-> VerdictAs[psp[k].status]]' =
                   [k \in Keys |-> VerdictAs[psp[k].status]]
  /\ outbox' = outbox => [k \in Keys |-> Told(k)]' = [k \in Keys |-> Told(k)]
BY DEF Told

(* The insert is the ledger's Open. *)
LEMMA OpenIntentOpens ==
  ASSUME IInv, NEW a \in Attempts, OpenIntent(a)
  PROVE  Ledger!Open(Key(a))
<1>1. /\ Key(a) \in Keys
      /\ intents \in [Keys -> Intents \cup {NoIntent}]
  BY KeyInKeys DEF IInv, TypeOK
<1>2. /\ intents[Key(a)].status = "ABSENT"
      /\ intents'[Key(a)].status = "PENDING"
      /\ \A k \in Keys \ {Key(a)} : intents'[k] = intents[k]
  BY <1>1 DEF OpenIntent, Opened, NoIntent
<1>3. [k \in Keys |-> PaymentAs[intents[k].status]]' =
        [[k \in Keys |-> PaymentAs[intents[k].status]] EXCEPT ![Key(a)] = "open"]
  <2>1. \A k \in Keys : PaymentAs[intents'[k].status] =
          IF k = Key(a) THEN "open" ELSE PaymentAs[intents[k].status]
    BY <1>1, <1>2 DEF PaymentAs
  <2>2. QED
    BY <1>1, <2>1
<1>4. psp' = psp /\ outbox' = outbox
  BY DEF OpenIntent
<1>5. [k \in Keys |-> PaymentAs[intents[k].status]][Key(a)] = "unopened"
  BY <1>1, <1>2 DEF PaymentAs
<1>6. /\ [k \in Keys |-> VerdictAs[psp[k].status]]' = [k \in Keys |-> VerdictAs[psp[k].status]]
      /\ [k \in Keys |-> Told(k)]' = [k \in Keys |-> Told(k)]
  BY <1>4, MappingFrame
<1>7. QED
  BY <1>3, <1>5, <1>6 DEF Ledger!Open

(* A charge that the PSP decides is the ledger's Decide. *)
LEMMA ChargeDecides ==
  ASSUME IInv, NEW a \in Attempts, ChargeAnswered(a) \/ ChargeTimedOut(a), psp' # psp
  PROVE  Ledger!Decide(Key(a))
<1>1. /\ TypeOK
      /\ Key(a) \in Keys
      /\ intents \in [Keys -> Intents \cup {NoIntent}]
      /\ psp \in [Keys -> Answers \cup {NoAnswer}]
      /\ psp[Key(a)] = NoAnswer
      /\ pc[a] = "charge"
      /\ intents' = intents
      /\ outbox' = outbox
  BY KeyInKeys DEF IInv, TypeOK, ChargeAnswered, ChargeTimedOut
<1>2. PICK status \in {"SUCCEEDED", "DECLINED"} :
        psp' = [psp EXCEPT ![Key(a)] = Charged(a, status)]
  BY DEF ChargeAnswered, ChargeTimedOut
<1>3. PICK v \in {"approved", "declined"} : v = VerdictAs[status]
  BY <1>2 DEF VerdictAs
<1>4. [k \in Keys |-> VerdictAs[psp[k].status]]' =
        [[k \in Keys |-> VerdictAs[psp[k].status]] EXCEPT ![Key(a)] = v]
  <2>1. \A k \in Keys : VerdictAs[psp'[k].status] =
          IF k = Key(a) THEN v ELSE VerdictAs[psp[k].status]
    BY <1>1, <1>2, <1>3 DEF Charged
  <2>2. QED
    BY <1>1, <2>1
<1>5. intents[Key(a)].status = "PENDING"
  <2>1. intents[Key(a)] \in Intents
    BY <1>1, DocumentsExist DEF IInv, HoldsPendingCopy
  <2>2. psp[Key(a)].status = "NONE"
    BY <1>1 DEF NoAnswer
  <2>3. QED
    BY <1>1, <2>1, <2>2 DEF IInv, VerdictMatchesPsp, Intents, Statuses
<1>6. /\ [k \in Keys |-> PaymentAs[intents[k].status]][Key(a)] = "open"
      /\ [k \in Keys |-> VerdictAs[psp[k].status]][Key(a)] = "none"
  BY <1>1, <1>5 DEF PaymentAs, VerdictAs, NoAnswer
<1>7. /\ [k \in Keys |-> PaymentAs[intents[k].status]]' =
           [k \in Keys |-> PaymentAs[intents[k].status]]
      /\ [k \in Keys |-> Told(k)]' = [k \in Keys |-> Told(k)]
  BY <1>1, MappingFrame
<1>8. QED
  BY <1>3, <1>4, <1>6, <1>7 DEF Ledger!Decide

(* persist of a successful charge, over a pending intent, is the ledger's Capture. *)
LEMMA PersistCaptures ==
  ASSUME IInv, NEW a \in Attempts, PersistCaptured(a), intents[Key(a)].status = "PENDING"
  PROVE  Ledger!Capture(Key(a))
<1>1. /\ TypeOK
      /\ Key(a) \in Keys
      /\ intents \in [Keys -> Intents \cup {NoIntent}]
      /\ intents'[Key(a)].status = "CAPTURED"
      /\ \A k \in Keys \ {Key(a)} : intents'[k] = intents[k]
  BY CapturedDocument DEF IInv, TypeOK
<1>2. [k \in Keys |-> PaymentAs[intents[k].status]]' =
        [[k \in Keys |-> PaymentAs[intents[k].status]] EXCEPT ![Key(a)] = "captured"]
  <2>1. \A k \in Keys : PaymentAs[intents'[k].status] =
          IF k = Key(a) THEN "captured" ELSE PaymentAs[intents[k].status]
    BY <1>1 DEF PaymentAs
  <2>2. QED
    BY <1>1, <2>1
<1>3. [k \in Keys |-> Told(k)]' = [[k \in Keys |-> Told(k)] EXCEPT ![Key(a)] = {"payment.captured"}]
  <2>1. Told(Key(a)) = {}
    <3>1. \A e \in outbox : e.key = Key(a) => e.type \in Told(Key(a))
      BY DEF Told
    <3>2. \A e \in outbox : e.type \in {"payment.captured", "payment.failed"}
      BY <1>1 DEF TypeOK, Events
    <3>3. "payment.captured" \notin Told(Key(a)) /\ "payment.failed" \notin Told(Key(a))
      BY <1>1 DEF IInv, CommitPoint
    <3>4. QED
      BY <3>1, <3>2, <3>3 DEF Told
  <2>2. \A k \in Keys : Told(k)' = IF k = Key(a) THEN {"payment.captured"} ELSE Told(k)
    BY <1>1, <2>1, ToldAfterAnnounce DEF PersistCaptured
  <2>3. QED
    BY <1>1, <2>2
<1>4. [k \in Keys |-> VerdictAs[psp[k].status]]' = [k \in Keys |-> VerdictAs[psp[k].status]]
  BY MappingFrame DEF PersistCaptured
<1>5. /\ [k \in Keys |-> PaymentAs[intents[k].status]][Key(a)] = "open"
      /\ [k \in Keys |-> VerdictAs[psp[k].status]][Key(a)] = "approved"
  BY <1>1, CapturedDocument DEF PaymentAs, VerdictAs
<1>6. \A j \in Keys : OrderOf[j] = OrderOf[Key(a)] =>
        [k \in Keys |-> PaymentAs[intents[k].status]][j] # "captured"
  <2>1. SUFFICES ASSUME NEW j \in Keys, OrderOf[j] = OrderOf[Key(a)]
                 PROVE  PaymentAs[intents[j].status] # "captured"
    OBVIOUS
  <2>2. intents[j].status \notin {"CAPTURED", "REFUNDED"}
    BY <1>1, <2>1 DEF PersistCaptured, OrderTaken, Live
  <2>3. intents[j].status \in {"ABSENT", "PENDING", "FAILED"}
    BY <1>1, <2>2 DEF NoIntent, Intents, Statuses
  <2>4. QED
    BY <2>3 DEF PaymentAs
<1>7. QED
  BY <1>2, <1>3, <1>4, <1>5, <1>6 DEF Ledger!Capture

(* persist of a declined charge, over a pending intent, is the ledger's Reject. *)
LEMMA PersistRejects ==
  ASSUME IInv, NEW a \in Attempts, PersistFailed(a), intents[Key(a)].status = "PENDING"
  PROVE  Ledger!Reject(Key(a))
<1>1. /\ TypeOK
      /\ Key(a) \in Keys
      /\ intents \in [Keys -> Intents \cup {NoIntent}]
      /\ intents'[Key(a)].status = "FAILED"
      /\ \A k \in Keys \ {Key(a)} : intents'[k] = intents[k]
  BY FailedDocument DEF IInv, TypeOK
<1>2. [k \in Keys |-> PaymentAs[intents[k].status]]' =
        [[k \in Keys |-> PaymentAs[intents[k].status]] EXCEPT ![Key(a)] = "failed"]
  <2>1. \A k \in Keys : PaymentAs[intents'[k].status] =
          IF k = Key(a) THEN "failed" ELSE PaymentAs[intents[k].status]
    BY <1>1 DEF PaymentAs
  <2>2. QED
    BY <1>1, <2>1
<1>3. [k \in Keys |-> Told(k)]' = [[k \in Keys |-> Told(k)] EXCEPT ![Key(a)] = {"payment.failed"}]
  <2>1. Told(Key(a)) = {}
    <3>1. \A e \in outbox : e.key = Key(a) => e.type \in Told(Key(a))
      BY DEF Told
    <3>2. \A e \in outbox : e.type \in {"payment.captured", "payment.failed"}
      BY <1>1 DEF TypeOK, Events
    <3>3. "payment.captured" \notin Told(Key(a)) /\ "payment.failed" \notin Told(Key(a))
      BY <1>1 DEF IInv, CommitPoint
    <3>4. QED
      BY <3>1, <3>2, <3>3 DEF Told
  <2>2. \A k \in Keys : Told(k)' = IF k = Key(a) THEN {"payment.failed"} ELSE Told(k)
    BY <1>1, <2>1, ToldAfterAnnounce DEF PersistFailed
  <2>3. QED
    BY <1>1, <2>2
<1>4. [k \in Keys |-> VerdictAs[psp[k].status]]' = [k \in Keys |-> VerdictAs[psp[k].status]]
  BY MappingFrame DEF PersistFailed
<1>5. /\ [k \in Keys |-> PaymentAs[intents[k].status]][Key(a)] = "open"
      /\ [k \in Keys |-> VerdictAs[psp[k].status]][Key(a)] = "declined"
  BY <1>1, FailedDocument DEF PaymentAs, VerdictAs
<1>6. QED
  BY <1>2, <1>3, <1>4, <1>5 DEF Ledger!Reject

(* The use case, its races and failures included, implements PaymentLedger. *)
THEOREM LedgerIsImplemented == Spec => ImplementsLedger
<1>1. Init => Ledger!Init
  <2>1. ASSUME Init PROVE \A k \in Keys : /\ intents[k].status = "ABSENT"
                                          /\ psp[k].status = "NONE"
                                          /\ Told(k) = {}
    BY <2>1 DEF Init, NoIntent, NoAnswer, Told
  <2>2. QED
    BY <2>1 DEF Ledger!Init, PaymentAs, VerdictAs
<1>2. IInv /\ [Next]_vars => [Ledger!Next]_(Ledger!vars)
  <2>1. ASSUME UNCHANGED <<intents, psp, outbox>> PROVE UNCHANGED Ledger!vars
    BY <2>1, MappingFrame DEF Ledger!vars
  <2>2. ASSUME IInv, NEW a \in Attempts, Execute(a)
        PROVE  [Ledger!Next]_(Ledger!vars)
    <3>1. PICK key \in Keys : key = Key(a)
      BY <2>2, KeyInKeys DEF IInv
    <3>2. CASE OpenIntent(a)
      <4>1. Ledger!Open(key)
        BY <2>2, <3>1, <3>2, OpenIntentOpens DEF Ledger!Open
      <4>2. QED
        BY <4>1 DEF Ledger!Next
    <3>3. CASE ChargeAnswered(a) \/ ChargeTimedOut(a)
      <4>1. CASE psp' = psp
        BY <2>1, <3>3, <4>1 DEF ChargeAnswered, ChargeTimedOut
      <4>2. CASE psp' # psp
        <5>1. Ledger!Decide(key)
          BY <2>2, <3>1, <3>3, <4>2, ChargeDecides DEF Ledger!Decide
        <5>2. QED
          BY <5>1 DEF Ledger!Next
      <4>3. QED
        BY <4>1, <4>2
    <3>4. CASE PersistCaptured(a)
      <4>1. CASE intents[Key(a)].status = "PENDING"
        <5>1. Ledger!Capture(key)
          BY <2>2, <3>1, <3>4, <4>1, PersistCaptures DEF Ledger!Capture
        <5>2. QED
          BY <5>1 DEF Ledger!Next
      <4>2. CASE intents[Key(a)].status # "PENDING"
        <5>1. intents[Key(a)].status = "CAPTURED"
          BY <2>2, <3>4, <4>2, CapturedDocument
          DEF IInv, VerdictMatchesPsp, Intents, Statuses
        <5>2. intents' = intents /\ psp' = psp
          BY <2>2, <3>4, <5>1, CapturedDocument DEF PersistCaptured
        <5>3. "payment.captured" \in Told(Key(a))
          BY <2>2, <3>1, <5>1 DEF IInv, CommitPoint
        <5>4. [k \in Keys |-> Told(k)]' = [k \in Keys |-> Told(k)]
          BY <2>2, <3>4, <5>3, ToldAfterAnnounce DEF IInv, PersistCaptured
        <5>5. QED
          BY <5>2, <5>4, MappingFrame DEF Ledger!vars
      <4>3. QED
        BY <4>1, <4>2
    <3>5. CASE PersistFailed(a)
      <4>1. CASE intents[Key(a)].status = "PENDING"
        <5>1. Ledger!Reject(key)
          BY <2>2, <3>1, <3>5, <4>1, PersistRejects DEF Ledger!Reject
        <5>2. QED
          BY <5>1 DEF Ledger!Next
      <4>2. CASE intents[Key(a)].status # "PENDING"
        <5>1. intents[Key(a)].status = "FAILED"
          BY <2>2, <3>5, <4>2, FailedDocument
          DEF IInv, VerdictMatchesPsp, Intents, Statuses
        <5>2. intents' = intents /\ psp' = psp
          BY <2>2, <3>5, <5>1, FailedDocument DEF PersistFailed
        <5>3. "payment.failed" \in Told(Key(a))
          BY <2>2, <3>1, <5>1 DEF IInv, CommitPoint
        <5>4. [k \in Keys |-> Told(k)]' = [k \in Keys |-> Told(k)]
          BY <2>2, <3>5, <5>3, ToldAfterAnnounce DEF IInv, PersistFailed
        <5>5. QED
          BY <5>2, <5>4, MappingFrame DEF Ledger!vars
      <4>3. QED
        BY <4>1, <4>2
    <3>6. CASE DuplicateKey(a) \/ FindExisting(a) \/ ChargeReplayed(a) \/ RecordPending(a)
               \/ LookUp(a) \/ PersistRejected(a) \/ Fail(a)
      BY <2>1, <3>6
      DEF DuplicateKey, FindExisting, ChargeReplayed, RecordPending, LookUp,
          PersistRejected, Fail
    <3>7. QED
      BY <2>2, <3>2, <3>3, <3>4, <3>5, <3>6 DEF Execute
  <2>3. QED
    BY <2>1, <2>2 DEF Next, vars
<1>3. QED
  BY <1>1, <1>2, Invariance, PTL DEF Spec, ImplementsLedger, Ledger!Spec

=============================================================================
