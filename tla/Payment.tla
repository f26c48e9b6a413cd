------------------------------- MODULE Payment -------------------------------
(***************************************************************************)
(* payment-service: AuthorizeAndCaptureUseCase.execute, the PaymentIntent  *)
(* aggregate, the unique indexes of payment_intents, the append-only       *)
(* payment_transactions, the outbox rows written with them, and the PSP as *)
(* MockPspGateway answers for it.                                          *)
(*                                                                         *)
(* An attempt is one call of execute.  Attempts run concurrently; each     *)
(* `await` is a step boundary, each MongoDB transaction is one step        *)
(* (conflicting transactions are retried by withTransaction), and an       *)
(* attempt may fail between any two steps.                                 *)
(*                                                                         *)
(* A key stands for one {tenantId, idempotencyKey} pair and so for the one *)
(* document that may bear it.  The PSP is given the idempotencyKey without *)
(* the tenant.  The model takes it that no two tenants use the same: the   *)
(* docs make a key of the id of a checkout session, which is unique (see   *)
(* docs/CHECKOUT-SAGA.md), but nothing in this service checks it, and what *)
(* the PSP does with one key of two tenants is left out.                   *)
(*                                                                         *)
(* Left out: ids, dates, the card's brand and digits, decline texts, the   *)
(* aggregate's version (written, never read) and timedOutOnce (the mock    *)
(* sets it together with the outcome, which the next charge reads first).  *)
(*                                                                         *)
(* A definition named Faulty_... is a bug the properties must notice: it   *)
(* takes no part in the specification.                                     *)
(***************************************************************************)
EXTENDS Naturals, Sequences

CONSTANTS
  Attempts,  \* calls of execute; also the identity of the event each may emit
  Keys,      \* {tenantId, idempotencyKey} pairs, no two of one idempotencyKey
  Orders,
  OrderOf,   \* the order a key's checkout session is about
  Amounts,
  NoAmount,  \* amountCaptured: null
  Commands   \* the commands an attempt may carry

Tokens == {"visa", "declined", "timeout", "unresolvable"}

ASSUME OrderOfAssumption == OrderOf \in [Keys -> Orders]
ASSUME NoAmountAssumption == NoAmount \notin Amounts
ASSUME CommandsAssumption ==
  Commands \subseteq [key : Keys, amount : Amounts, token : Tokens]

VARIABLES
  cmd,      \* the command of each attempt
  intents,  \* payment_intents, by key
  ledger,   \* payment_transactions of each intent, outcomes in sequence order
  outbox,   \* payment events committed to the outbox
  psp,      \* byIdempotencyKey on the PSP's side (by the tenant's key here),
            \* with the amount it moved
  pc,       \* the await an attempt stands at
  intent,   \* the PaymentIntent an attempt holds in memory
  answer,   \* the PSP outcome an attempt holds in memory
  result    \* what execute resolved to

vars == <<cmd, intents, ledger, outbox, psp, pc, intent, answer, result>>

-----------------------------------------------------------------------------
(* Values.                                                                   *)

Statuses == {"PENDING", "CAPTURED", "FAILED", "REFUNDED"}

Legal == [PENDING  |-> {"CAPTURED", "FAILED"},
          CAPTURED |-> {"REFUNDED"},
          FAILED   |-> {},
          REFUNDED |-> {}]

NoIntent == [status |-> "ABSENT", amount |-> NoAmount, amountCaptured |-> NoAmount]

Intents == [status : Statuses, amount : Amounts, amountCaptured : Amounts \cup {NoAmount}]

NoAnswer == [status |-> "NONE", amount |-> NoAmount]

Answers == [status : {"SUCCEEDED", "DECLINED"}, amount : Amounts]

Results == {"CAPTURED", "ALREADY_CAPTURED", "DECLINED", "PENDING_RECONCILIATION", "ERROR"}

Events == [id : Attempts, type : {"payment.captured", "payment.failed"}, key : Keys]

Key(a) == cmd[a].key

(* uq_one_live_payment_per_order: its partial filter, and the order entry a
   document entering the live set would collide with. *)
Live(k) == intents[k].status \in {"CAPTURED", "REFUNDED"}

Faulty_OrderTaken(k) ==   \* the partial filter forgets CAPTURED
  \E j \in Keys \ {k} : OrderOf[j] = OrderOf[k] /\ intents[j].status = "REFUNDED"

OrderTaken(k) == \E j \in Keys \ {k} : OrderOf[j] = OrderOf[k] /\ Live(j)

-----------------------------------------------------------------------------

Init ==
  /\ cmd \in [Attempts -> Commands]
  /\ intents = [k \in Keys |-> NoIntent]
  /\ ledger = [k \in Keys |-> << >>]
  /\ outbox = {}
  /\ psp = [k \in Keys |-> NoAnswer]
  /\ pc = [a \in Attempts |-> "open"]
  /\ intent = [a \in Attempts |-> NoIntent]
  /\ answer = [a \in Attempts |-> NoAnswer]
  /\ result = [a \in Attempts |-> "NONE"]

Goto(a, label) == pc' = [pc EXCEPT ![a] = label]

(* The promise of execute settles with r. *)
Return(a, r) ==
  /\ Goto(a, "done")
  /\ result' = [result EXCEPT ![a] = r]

-----------------------------------------------------------------------------
(* openOrFindExisting: insert first, and read only after a duplicate key.    *)

Opened(a) == [status |-> "PENDING", amount |-> cmd[a].amount, amountCaptured |-> NoAmount]

OpenIntent(a) ==
  /\ pc[a] = "open"
  /\ intents[Key(a)] = NoIntent
  /\ intents' = [intents EXCEPT ![Key(a)] = Opened(a)]
  /\ intent' = [intent EXCEPT ![a] = Opened(a)]
  /\ Goto(a, "charge")
  /\ UNCHANGED <<cmd, ledger, outbox, psp, answer, result>>

DuplicateKey(a) ==
  /\ pc[a] = "open"
  /\ intents[Key(a)] # NoIntent
  /\ Goto(a, "find")
  /\ UNCHANGED <<cmd, intents, ledger, outbox, psp, intent, answer, result>>

Faulty_Failed(i) == i.status # "CAPTURED"   \* an intent in flight is taken for a failed one

Failed(i) == i.status \notin {"CAPTURED", "PENDING"}

FindExisting(a) ==
  /\ pc[a] = "find"
  /\ LET found == intents[Key(a)]
     IN  /\ intent' = [intent EXCEPT ![a] = found]
         /\ \/ /\ found.status = "CAPTURED"
               /\ Return(a, "ALREADY_CAPTURED")
            \/ /\ Failed(found)
               /\ Return(a, "DECLINED")
            \/ /\ found.status = "PENDING"
               /\ Goto(a, "charge")
               /\ UNCHANGED result
  /\ UNCHANGED <<cmd, intents, ledger, outbox, psp, answer>>

-----------------------------------------------------------------------------
(* MockPspGateway.charge and findByIdempotencyKey.                           *)

Charged(a, status) == [status |-> status, amount |-> cmd[a].amount]

Faulty_Decided(k) == FALSE   \* the key does not reach the PSP

Decided(k) == psp[k] # NoAnswer

(* The key already has an outcome: the PSP's own idempotency. *)
ChargeReplayed(a) ==
  /\ pc[a] = "charge"
  /\ Decided(Key(a))
  /\ answer' = [answer EXCEPT ![a] = psp[Key(a)]]
  /\ Goto(a, "persist")
  /\ UNCHANGED <<cmd, intents, ledger, outbox, psp, intent, result>>

ChargeAnswered(a) ==
  /\ pc[a] = "charge"
  /\ ~Decided(Key(a))
  /\ cmd[a].token \in {"visa", "declined"}
  /\ LET outcome == Charged(a, IF cmd[a].token = "declined" THEN "DECLINED"
                                                            ELSE "SUCCEEDED")
     IN  /\ psp' = [psp EXCEPT ![Key(a)] = outcome]
         /\ answer' = [answer EXCEPT ![a] = outcome]
  /\ Goto(a, "persist")
  /\ UNCHANGED <<cmd, intents, ledger, outbox, intent, result>>

(* PspTimeoutError: the money moved and the response was lost, or the PSP
   was never reached. *)
ChargeTimedOut(a) ==
  /\ pc[a] = "charge"
  /\ ~Decided(Key(a))
  /\ \/ /\ cmd[a].token = "timeout"
        /\ psp' = [psp EXCEPT ![Key(a)] = Charged(a, "SUCCEEDED")]
     \/ /\ cmd[a].token = "unresolvable"
        /\ UNCHANGED psp
  /\ Goto(a, "record")
  /\ UNCHANGED <<cmd, intents, ledger, outbox, intent, answer, result>>

-----------------------------------------------------------------------------
(* reconcileAfterTimeout: record the ambiguous attempt, then ask.            *)

AppendRow(k, outcome) == ledger' = [ledger EXCEPT ![k] = Append(@, outcome)]

RecordPending(a) ==
  /\ pc[a] = "record"
  /\ AppendRow(Key(a), "PENDING")
  /\ Goto(a, "lookup")
  /\ UNCHANGED <<cmd, intents, outbox, psp, intent, answer, result>>

Faulty_Found(a) ==   \* an empty lookup is taken for a decline
  IF psp[Key(a)] = NoAnswer THEN Charged(a, "DECLINED") ELSE psp[Key(a)]

(* findByIdempotencyKey. *)
Found(a) == psp[Key(a)]

LookUp(a) ==
  /\ pc[a] = "lookup"
  /\ \/ /\ Found(a) = NoAnswer
        /\ Return(a, "PENDING_RECONCILIATION")
        /\ UNCHANGED answer
     \/ /\ Found(a) # NoAnswer
        /\ answer' = [answer EXCEPT ![a] = Found(a)]
        /\ Goto(a, "persist")
        /\ UNCHANGED result
  /\ UNCHANGED <<cmd, intents, ledger, outbox, psp, intent>>

-----------------------------------------------------------------------------
(* finalize and persist: mark the in-memory intent, then write the whole
   document over whatever the collection holds by now (no version or status
   in the filter), append the transaction row and write the event, in one
   transaction. *)

Faulty_MarkCaptured(i) == [i EXCEPT !.status = "CAPTURED"]   \* no amountCaptured

MarkCaptured(i) == [i EXCEPT !.status = "CAPTURED", !.amountCaptured = i.amount]

Faulty_MarkFailed(i) == [i EXCEPT !.status = "DECLINED"]   \* the PSP's word for it

MarkFailed(i) == [i EXCEPT !.status = "FAILED"]

Faulty_Announce(a, type) == UNCHANGED outbox   \* pulled in the callback, lost by its retry

Announce(a, type) == outbox' = outbox \cup {[id |-> a, type |-> type, key |-> Key(a)]}

(* The process may die between the commit and the answer. *)
Answered(a, r) == Return(a, r) \/ Return(a, "ERROR")

PersistCaptured(a) ==
  /\ pc[a] = "persist"
  /\ answer[a].status = "SUCCEEDED"
  /\ "CAPTURED" \in Legal[intent[a].status]
  /\ ~OrderTaken(Key(a))
  /\ intents' = [intents EXCEPT ![Key(a)] = MarkCaptured(intent[a])]
  /\ AppendRow(Key(a), "SUCCEEDED")
  /\ Announce(a, "payment.captured")
  /\ Answered(a, "CAPTURED")
  /\ UNCHANGED <<cmd, psp, intent, answer>>

(* The document would enter the live set of an order that already has a live
   payment: uq_one_live_payment_per_order aborts the transaction and execute
   rejects.  The PSP has charged by then. *)
PersistRejected(a) ==
  /\ pc[a] = "persist"
  /\ answer[a].status = "SUCCEEDED"
  /\ "CAPTURED" \in Legal[intent[a].status]
  /\ OrderTaken(Key(a))
  /\ Return(a, "ERROR")
  /\ UNCHANGED <<cmd, intents, ledger, outbox, psp, intent, answer>>

PersistFailed(a) ==
  /\ pc[a] = "persist"
  /\ answer[a].status = "DECLINED"
  /\ "FAILED" \in Legal[intent[a].status]
  /\ intents' = [intents EXCEPT ![Key(a)] = MarkFailed(intent[a])]
  /\ AppendRow(Key(a), "FAILED")
  /\ Announce(a, "payment.failed")
  /\ Answered(a, "DECLINED")
  /\ UNCHANGED <<cmd, psp, intent, answer>>

(* The process dies or a call throws anything else than the errors handled:
   the attempt ends where it stands and what was committed stays. *)
Fail(a) ==
  /\ pc[a] # "done"
  /\ Return(a, "ERROR")
  /\ UNCHANGED <<cmd, intents, ledger, outbox, psp, intent, answer>>

-----------------------------------------------------------------------------

Execute(a) ==
  \/ OpenIntent(a) \/ DuplicateKey(a) \/ FindExisting(a)
  \/ ChargeReplayed(a) \/ ChargeAnswered(a) \/ ChargeTimedOut(a)
  \/ RecordPending(a) \/ LookUp(a)
  \/ PersistCaptured(a) \/ PersistRejected(a) \/ PersistFailed(a)
  \/ Fail(a)

Next == \E a \in Attempts : Execute(a)

Spec == Init /\ [][Next]_vars

-----------------------------------------------------------------------------
(* Properties.                                                               *)

Rows(k) == {ledger[k][n] : n \in DOMAIN ledger[k]}

Told(k) == {e.type : e \in {x \in outbox : x.key = k}}

(* Every variable holds a value the code can store in it, and an attempt past
   openOrFindExisting holds a document. *)
TypeOK ==
  /\ cmd \in [Attempts -> Commands]
  /\ intents \in [Keys -> Intents \cup {NoIntent}]
  /\ ledger \in [Keys -> Seq({"PENDING", "SUCCEEDED", "FAILED"})]
  /\ outbox \subseteq Events
  /\ psp \in [Keys -> Answers \cup {NoAnswer}]
  /\ pc \in [Attempts -> {"open", "find", "charge", "record", "lookup", "persist", "done"}]
  /\ intent \in [Attempts -> Intents \cup {NoIntent}]
  /\ answer \in [Attempts -> Answers \cup {NoAnswer}]
  /\ result \in [Attempts -> Results \cup {"NONE"}]
  /\ \A a \in Attempts :
       pc[a] \in {"charge", "record", "lookup", "persist"} => intent[a] \in Intents

(* DATA-INTEGRITY.md's first invariant: an order has at most one captured
   payment, whichever keys and however many attempts raced for it. *)
OneLivePaymentPerOrder ==
  \A j, k \in Keys : Live(j) /\ Live(k) /\ OrderOf[j] = OrderOf[k] => j = k

(* What execute told its caller stays true of the stored payment, although
   other attempts with the same key overwrite the document without comparing
   versions: captured means captured, declined means failed, and an attempt
   left for reconciliation has its PENDING row. *)
TruthfulResult ==
  \A a \in Attempts :
    /\ result[a] \in {"CAPTURED", "ALREADY_CAPTURED"} => intents[Key(a)].status = "CAPTURED"
    /\ result[a] = "DECLINED" => intents[Key(a)].status = "FAILED"
    /\ result[a] = "PENDING_RECONCILIATION" => "PENDING" \in Rows(Key(a))

(* The commit point of the whole system: status, transaction row and outbox
   event say the same of a payment after every crash and interleaving. *)
CommitPoint ==
  \A k \in Keys :
    /\ (intents[k].status = "CAPTURED") <=> ("SUCCEEDED" \in Rows(k))
    /\ (intents[k].status = "CAPTURED") <=> ("payment.captured" \in Told(k))
    /\ (intents[k].status = "FAILED") <=> ("FAILED" \in Rows(k))
    /\ (intents[k].status = "FAILED") <=> ("payment.failed" \in Told(k))

(* execute charges the command's amount and records the stored intent's; the
   two agree for a captured payment whenever all attempts with its key carry
   one amount, as a key derived from a checkout session does. *)
ChargedAsRecorded ==
  \A k \in Keys :
    /\ intents[k].status = "CAPTURED"
    /\ \A a, b \in Attempts : Key(a) = k /\ Key(b) = k => cmd[a].amount = cmd[b].amount
    => psp[k] = [status |-> "SUCCEEDED", amount |-> intents[k].amountCaptured]

(* LEGAL gives FAILED no successor and CAPTURED only REFUNDED; a late attempt
   that still holds the PENDING copy never takes a settled payment elsewhere. *)
SettledIsFinal ==
  [][\A k \in Keys :
       intents[k].status \in {"CAPTURED", "FAILED"} => intents'[k] = intents[k]]_vars

(* The service implements the ledger other services rely on. *)
PaymentAs == [ABSENT   |-> "unopened",
              PENDING  |-> "open",
              CAPTURED |-> "captured",
              REFUNDED |-> "captured",
              FAILED   |-> "failed"]

VerdictAs == [NONE |-> "none", SUCCEEDED |-> "approved", DECLINED |-> "declined"]

Ledger == INSTANCE PaymentLedger WITH
  payment   <- [k \in Keys |-> PaymentAs[intents[k].status]],
  verdict   <- [k \in Keys |-> VerdictAs[psp[k].status]],
  announced <- [k \in Keys |-> Told(k)]

(* Every behaviour of the use case, its races and failures included, is a
   behaviour of PaymentLedger: the key is claimed before the PSP is called,
   the PSP decides once, and the payment settles once and as decided. *)
ImplementsLedger == Ledger!Spec

-----------------------------------------------------------------------------
(* Claims of the repository that the code does not keep.                     *)

(* "no second CAPTURE row from the retry": two attempts with one key that both
   read the intent while it was PENDING both persist, and neither write
   compares the version, so the payment gets two SUCCEEDED rows and two
   payment.captured events. *)
NoSecondCaptureRow ==
  \A k \in Keys : \A m, n \in DOMAIN ledger[k] :
    ledger[k][m] = "SUCCEEDED" /\ ledger[k][n] = "SUCCEEDED" => m = n

(* "Three independent guards protect against a double charge": alone, the
   unique index rejects the second payment of an order only after the PSP has
   taken the money. *)
OneChargePerOrder ==
  \A j, k \in Keys :
    /\ psp[j].status = "SUCCEEDED"
    /\ psp[k].status = "SUCCEEDED"
    /\ OrderOf[j] = OrderOf[k]
    => j = k

=============================================================================
