------------------------------ MODULE AtomicWork ------------------------------
(***************************************************************************)
(* What withOutbox promises: a unit of work happens once or not at all,    *)
(* its write and its events in one step, and the caller is never told      *)
(* otherwise, though it may be rejected with an error that leaves it open. *)
(***************************************************************************)
EXTENDS Naturals, Sequences

CONSTANTS Calls, Documents, Messages, Subject, Announces

VARIABLES
  docs,    \* each document: the calls whose write it contains, in order
  outbox,  \* the rows: message and the call it came from
  answer   \* of each call, and its place in the document

vars == <<docs, outbox, answer>>

Pending == [outcome |-> "NONE", place |-> 0]

Happened(c) == \E n \in 1..Len(docs[Subject[c]]) : docs[Subject[c]][n] = c

Init ==
  /\ docs = [k \in Documents |-> << >>]
  /\ outbox = {}
  /\ answer = [c \in Calls |-> Pending]

Happen(c) ==
  /\ answer[c] = Pending
  /\ ~Happened(c)
  /\ \A row \in outbox : row.messageId \notin Announces[c]
  /\ docs' = [docs EXCEPT ![Subject[c]] = Append(@, c)]
  /\ outbox' = outbox \cup {[messageId |-> m, call |-> c] : m \in Announces[c]}

Tell(c, outcome, place) == answer' = [answer EXCEPT ![c] = [outcome |-> outcome, place |-> place]]

Succeed(c) ==
  \/ Happen(c) /\ Tell(c, "OK", Len(docs[Subject[c]]) + 1)
  \/ Happen(c) /\ UNCHANGED answer
  \/ /\ answer[c] = Pending
     /\ \E n \in 1..Len(docs[Subject[c]]) : docs[Subject[c]][n] = c /\ Tell(c, "OK", n)
     /\ UNCHANGED <<docs, outbox>>

(* A call may fail for every reason; that its message was used up is one. *)
Fail(c) ==
  /\ answer[c] = Pending
  /\ ~Happened(c)
  /\ Tell(c, "REJECTED", 0)
  /\ UNCHANGED <<docs, outbox>>

LoseTouch(c) ==
  /\ answer[c] = Pending
  /\ \E outcome \in {"REJECTED_UNKNOWN", "DIED"} : Tell(c, outcome, 0)
  /\ UNCHANGED <<docs, outbox>>

Next == \E c \in Calls : Succeed(c) \/ Fail(c) \/ LoseTouch(c)

Spec == Init /\ [][Next]_vars

=============================================================================
