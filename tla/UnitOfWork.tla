------------------------------ MODULE UnitOfWork ------------------------------
(***************************************************************************)
(* kernel: withOutbox, and the session-bound collections its callback      *)
(* writes through.                                                         *)
(*                                                                         *)
(* The callback reads a document, writes what it makes of it and returns   *)
(* the events; withOutbox appends them to the outbox and commits, all in   *)
(* one MongoDB transaction with snapshot reads.  A document is the         *)
(* sequence of the calls whose write it contains, so that a lost, repeated *)
(* or phantom write shows.                                                 *)
(*                                                                         *)
(* MongoDB and its driver are modelled by what withTransaction documents:  *)
(* a write to a document that changed since the snapshot, or that another  *)
(* transaction is writing, is a transient error; transient errors abort    *)
(* and call the callback again, until the time is up; a commit whose reply *)
(* is lost is sent again.                                                  *)
(*                                                                         *)
(* A definition named Faulty_... is a bug the properties must notice: it   *)
(* takes no part in the specification.                                     *)
(***************************************************************************)
EXTENDS Naturals, Sequences, FiniteSets

CONSTANTS
  Calls,        \* calls of withOutbox
  Documents,
  Messages,
  Subject,      \* the document a call's callback writes
  Announces,    \* the messageIds of the events it returns
  MaxAttempts   \* bound: runs of one callback before withTransaction's time is up

ASSUME WorkAssumption ==
  /\ Subject \in [Calls -> Documents]
  /\ Announces \in [Calls -> SUBSET Messages]
  /\ MaxAttempts \in Nat

VARIABLES
  docs,      \* the committed documents
  outbox,    \* the committed rows
  pc,        \* where a call stands
  attempts,  \* how often its callback was called again
  tx,        \* its transaction: what it read, whether it wrote, the rows it adds
  answer     \* what became of the caller's promise

stored == <<docs, outbox>>
vars == <<stored, pc, attempts, tx, answer>>

NoWork == [read |-> << >>, wrote |-> FALSE, rows |-> {}]

Pending == [outcome |-> "NONE", place |-> 0]

Faulty_Row(m, c) == [messageId |-> c, call |-> m]   \* swapped

Row(m, c) == [messageId |-> m, call |-> c]

Init ==
  /\ docs = [k \in Documents |-> << >>]
  /\ outbox = {}
  /\ pc = [c \in Calls |-> "begin"]
  /\ attempts = [c \in Calls |-> 0]
  /\ tx = [c \in Calls |-> NoWork]
  /\ answer = [c \in Calls |-> Pending]

-----------------------------------------------------------------------------

Goto(c, label) == pc' = [pc EXCEPT ![c] = label]

(* endSession, in the finally block, aborts what is not committed. *)
End(c, outcome, place) ==
  /\ Goto(c, "ended")
  /\ tx' = [tx EXCEPT ![c] = NoWork]
  /\ answer' = [answer EXCEPT ![c] = [outcome |-> outcome, place |-> place]]

(* The first operation of a callback takes the snapshot. *)
Read(c) ==
  /\ pc[c] = "begin"
  /\ Goto(c, "write")
  /\ tx' = [tx EXCEPT ![c].read = docs[Subject[c]]]
  /\ UNCHANGED <<stored, attempts, answer>>

Faulty_Conflict(c) == FALSE   \* the writes do not carry the session

Conflict(c) ==
  \/ docs[Subject[c]] # tx[c].read
  \/ \E d \in Calls \ {c} : tx[d].wrote /\ Subject[d] = Subject[c]

Write(c) ==
  /\ pc[c] = "write"
  /\ ~Conflict(c)
  /\ Goto(c, "append")
  /\ tx' = [tx EXCEPT ![c].wrote = TRUE]
  /\ UNCHANGED <<stored, attempts, answer>>

Faulty_Events(c) ==   \* events pulled out of an aggregate are gone on the second run
  IF attempts[c] = 0 THEN Announces[c] ELSE {}

(* What the callback returns is made anew each time it runs. *)
Events(c) == Announces[c]

(* The unique index on messageId. *)
Taken(c) == \E row \in outbox : row.messageId \in Events(c)

Contended(c) == \E d \in Calls \ {c} : \E row \in tx[d].rows : row.messageId \in Events(c)

(* insertMany, unless there is nothing to insert. *)
AppendEvents(c) ==
  /\ pc[c] = "append"
  /\ ~Taken(c) /\ ~Contended(c)
  /\ Goto(c, "commit")
  /\ tx' = [tx EXCEPT ![c].rows = {Row(m, c) : m \in Events(c)}]
  /\ UNCHANGED <<stored, attempts, answer>>

AppendRejected(c) ==
  /\ pc[c] = "append"
  /\ Taken(c)
  /\ End(c, "REJECTED", 0)
  /\ UNCHANGED <<stored, attempts>>

(* The result is the callback's: the place its write has in the document. *)
Result(c) == Len(tx[c].read) + 1

(* The reply of the commit may get lost. *)
Commit(c) ==
  /\ pc[c] = "commit"
  /\ docs' = [docs EXCEPT ![Subject[c]] = Append(tx[c].read, c)]
  /\ outbox' = outbox \cup tx[c].rows
  /\ \/ End(c, "OK", Result(c))
     \/ /\ Goto(c, "confirm")
        /\ tx' = [tx EXCEPT ![c] = [read |-> tx[c].read, wrote |-> FALSE, rows |-> {}]]
        /\ UNCHANGED answer
  /\ UNCHANGED attempts

(* UnknownTransactionCommitResult: the commit is sent again. *)
Confirm(c) ==
  /\ pc[c] = "confirm"
  /\ End(c, "OK", Result(c))
  /\ UNCHANGED <<stored, attempts>>

Faulty_Retriable(c) == pc[c] \in {"write", "append", "commit", "confirm"}   \* also after the commit

Retriable(c) == pc[c] \in {"write", "append", "commit"}

(* A write conflict, or the primary steps down: the callback is called again. *)
TransientError(c) ==
  /\ Retriable(c)
  /\ attempts[c] < MaxAttempts
  /\ Goto(c, "begin")
  /\ attempts' = [attempts EXCEPT ![c] = @ + 1]
  /\ tx' = [tx EXCEPT ![c] = NoWork]
  /\ UNCHANGED <<stored, answer>>

(* The callback throws, or an operation fails for good, or the time is up. *)
Throw(c) ==
  /\ pc[c] \in {"begin", "write", "append", "commit"}
  /\ End(c, "REJECTED", 0)
  /\ UNCHANGED <<stored, attempts>>

(* The time is up while the outcome of the commit is unknown: the commit was
   applied, or it was not.  withOutbox rejects as in Throw; that nobody knows
   is only in the label UnknownTransactionCommitResult of the driver's error,
   which it passes on and nothing in the repository reads. *)
GiveUp(c) ==
  /\ pc[c] \in {"commit", "confirm"}
  /\ End(c, "REJECTED_UNKNOWN", 0)
  /\ UNCHANGED <<stored, attempts>>

(* The process dies: the server aborts an open transaction. *)
Die(c) ==
  /\ pc[c] # "ended"
  /\ End(c, "DIED", 0)
  /\ UNCHANGED <<stored, attempts>>

Step(c) ==
  \/ Read(c) \/ Write(c) \/ AppendEvents(c) \/ AppendRejected(c) \/ Commit(c) \/ Confirm(c)
  \/ TransientError(c) \/ Throw(c) \/ GiveUp(c)

Next == \E c \in Calls : Step(c) \/ Die(c)

Spec == Init /\ [][Next]_vars

-----------------------------------------------------------------------------
(* Properties.                                                               *)

(* Every variable holds a value of its type. *)
TypeOK ==
  /\ docs \in [Documents -> Seq(Calls)]
  /\ outbox \subseteq [messageId : Messages, call : Calls]
  /\ pc \in [Calls -> {"begin", "write", "append", "commit", "confirm", "ended"}]
  /\ attempts \in [Calls -> 0..MaxAttempts]
  /\ tx \in [Calls -> [read : Seq(Calls), wrote : BOOLEAN,
                       rows : SUBSET [messageId : Messages, call : Calls]]]
  /\ answer \in [Calls ->
       [outcome : {"NONE", "OK", "REJECTED", "REJECTED_UNKNOWN", "DIED"}, place : Nat]]

Places(c) == {n \in 1..Len(docs[Subject[c]]) : docs[Subject[c]][n] = c}

(* "There is no window where one exists without the other": the outbox holds
   the events of exactly the calls whose write is in their document. *)
WriteIffEvents ==
  \A c \in Calls : \A m \in Messages :
    Row(m, c) \in outbox <=> m \in Announces[c] /\ Places(c) # {}

(* A caller that is told the result is told that of the write which is in the
   document, once, and a caller that is rejected has written nothing, unless
   the driver's error says that the outcome of the commit is unknown.  A caller
   that does not look for that label cannot tell. *)
TruthfulAnswer ==
  \A c \in Calls :
    /\ answer[c].outcome = "OK" => Places(c) = {answer[c].place}
    /\ answer[c].outcome = "REJECTED" => Places(c) = {}

Atomic == INSTANCE AtomicWork

(* A unit of work, retries and lost replies included, is one atomic step. *)
ImplementsAtomic == Atomic!Spec

=============================================================================
