---------------------------- MODULE UnitOfWorkProofs ----------------------------
(***************************************************************************)
(* Theorems about UnitOfWork, for every set of calls, documents and        *)
(* messages, whatever the calls write and announce.                        *)
(***************************************************************************)
EXTENDS UnitOfWork, TLAPS

(* The rows a call adds to the outbox. *)
RowsOf(c) == {Row(m, c) : m \in Announces[c]}

(* What a call's transaction holds goes with where the call stands. *)
StagesAreSound ==
  \A c \in Calls :
    /\ tx[c].wrote <=> pc[c] \in {"append", "commit"}
    /\ tx[c].rows = IF pc[c] = "commit" THEN RowsOf(c) ELSE {}
    /\ answer[c] = Pending <=> pc[c] # "ended"

(* A document has one writer at a time, which has read its latest version. *)
WritersAreCurrent ==
  \A c \in Calls : tx[c].wrote =>
    /\ tx[c].read = docs[Subject[c]]
    /\ \A d \in Calls \ {c} : tx[d].wrote => Subject[d] # Subject[c]

(* A call's write is in its document from the commit on and once. *)
WrittenByCommit ==
  \A c \in Calls :
    /\ pc[c] \in {"begin", "write", "append", "commit"} => Places(c) = {}
    /\ pc[c] = "confirm" => Places(c) = {Result(c)}

(* The messages of a call that is about to commit are its own. *)
MessagesAreFresh ==
  \A c \in Calls : pc[c] = "commit" =>
    /\ \A row \in outbox : row.messageId \notin Announces[c]
    /\ \A d \in Calls \ {c} : pc[d] = "commit" => Announces[c] \cap Announces[d] = {}

(* No messageId is in the outbox twice, whichever calls announce it. *)
OneRowPerMessage ==
  \A row, other \in outbox : row.messageId = other.messageId => row = other

IInv ==
  /\ TypeOK
  /\ StagesAreSound
  /\ WritersAreCurrent
  /\ WrittenByCommit
  /\ MessagesAreFresh
  /\ WriteIffEvents
  /\ OneRowPerMessage
  /\ TruthfulAnswer

-----------------------------------------------------------------------------

(* The initial state satisfies the invariant: nothing is written. *)
LEMMA InitIsSound == Init => IInv
<1> SUFFICES ASSUME Init PROVE IInv
  OBVIOUS
<1> USE WorkAssumption DEF Init
<1>1. TypeOK
  BY DEF TypeOK, NoWork, Pending
<1>2. \A c \in Calls : Places(c) = {}
  BY DEF Places
<1>3. StagesAreSound /\ WritersAreCurrent /\ MessagesAreFresh
  BY DEF StagesAreSound, WritersAreCurrent, MessagesAreFresh, NoWork
<1>4. WrittenByCommit /\ WriteIffEvents /\ OneRowPerMessage /\ TruthfulAnswer
  BY <1>2 DEF WrittenByCommit, WriteIffEvents, OneRowPerMessage, TruthfulAnswer, Pending
<1>5. QED
  BY <1>1, <1>3, <1>4 DEF IInv

(* A step of a call touches nothing of the other calls, and only a commit
   touches what is stored. *)
LEMMA StepFrame ==
  ASSUME TypeOK, NEW c \in Calls, Step(c) \/ Die(c)
  PROVE  /\ \A d \in Calls \ {c} :
              pc'[d] = pc[d] /\ tx'[d] = tx[d] /\ answer'[d] = answer[d]
         /\ Commit(c) \/ (docs' = docs /\ outbox' = outbox)
<1>1. \A d \in Calls \ {c} : pc'[d] = pc[d]
  BY DEF TypeOK, Step, Die, Read, Write, AppendEvents, AppendRejected, Commit, Confirm,
         TransientError, Throw, GiveUp, End, Goto
<1>2. \A d \in Calls \ {c} : tx'[d] = tx[d]
  BY DEF TypeOK, Step, Die, Read, Write, AppendEvents, AppendRejected, Commit, Confirm,
         TransientError, Throw, GiveUp, End
<1>3. \A d \in Calls \ {c} : answer'[d] = answer[d]
  BY DEF TypeOK, Step, Die, Read, Write, AppendEvents, AppendRejected, Commit, Confirm,
         TransientError, Throw, GiveUp, End
<1>4. Commit(c) \/ (docs' = docs /\ outbox' = outbox)
  BY DEF Step, Die, Read, Write, AppendEvents, AppendRejected, Confirm, TransientError, Throw,
         GiveUp, stored
<1>5. QED
  BY <1>1, <1>2, <1>3, <1>4

(* A call ends: what is left of it. *)
LEMMA Ended ==
  ASSUME TypeOK, NEW c \in Calls, NEW outcome, NEW place, End(c, outcome, place)
  PROVE  /\ pc'[c] = "ended" /\ tx'[c] = NoWork
         /\ answer'[c] = [outcome |-> outcome, place |-> place]
  BY DEF TypeOK, End, Goto

(* The rows of a call, as the outbox stores them. *)
LEMMA RowsOfACall ==
  ASSUME NEW c \in Calls
  PROVE  RowsOf(c) \subseteq [messageId : Messages, call : Calls]
  BY WorkAssumption DEF Row, RowsOf

(* Every step keeps every variable in its domain. *)
LEMMA TypeStep == TypeOK /\ [Next]_vars => TypeOK'
<1> SUFFICES ASSUME TypeOK, [Next]_vars PROVE TypeOK'
  OBVIOUS
<1> USE WorkAssumption DEF TypeOK, stored
<1>1. NoWork \in [read : Seq(Calls), wrote : BOOLEAN,
                  rows : SUBSET [messageId : Messages, call : Calls]]
  BY DEF NoWork
<1>2. ASSUME NEW c \in Calls, NEW outcome \in {"OK", "REJECTED", "REJECTED_UNKNOWN", "DIED"}, NEW place \in Nat,
             End(c, outcome, place)
      PROVE  /\ pc' \in [Calls -> {"begin", "write", "append", "commit", "confirm", "ended"}]
             /\ tx' \in [Calls -> [read : Seq(Calls), wrote : BOOLEAN,
                                   rows : SUBSET [messageId : Messages, call : Calls]]]
             /\ answer' \in [Calls -> [outcome : {"NONE", "OK", "REJECTED", "REJECTED_UNKNOWN", "DIED"},
                                       place : Nat]]
  BY <1>1, <1>2 DEF End, Goto
<1>3. ASSUME NEW c \in Calls, Read(c) PROVE TypeOK'
  <2>1. docs[Subject[c]] \in Seq(Calls)
    BY <1>3
  <2>2. QED
    BY <1>3, <2>1 DEF Read, Goto
<1>4. ASSUME NEW c \in Calls, Write(c) PROVE TypeOK'
  BY <1>4 DEF Write, Goto
<1>5. ASSUME NEW c \in Calls, AppendEvents(c) PROVE TypeOK'
  BY <1>5, RowsOfACall DEF AppendEvents, Goto, Events, RowsOf
<1>6. ASSUME NEW c \in Calls, AppendRejected(c) \/ Throw(c) \/ GiveUp(c) \/ Die(c) PROVE TypeOK'
  BY <1>2, <1>6 DEF AppendRejected, Throw, GiveUp, Die
<1>7. ASSUME NEW c \in Calls PROVE Result(c) \in Nat
  BY <1>7 DEF Result
<1>8. ASSUME NEW c \in Calls, Commit(c) PROVE TypeOK'
  <2>1. docs' \in [Documents -> Seq(Calls)]
    <3>1. Append(tx[c].read, c) \in Seq(Calls)
      OBVIOUS
    <3>2. QED
      BY <1>8, <3>1 DEF Commit
  <2>2. outbox' \subseteq [messageId : Messages, call : Calls]
    BY <1>8 DEF Commit
  <2>3. CASE End(c, "OK", Result(c))
    BY <1>2, <1>7, <1>8, <2>1, <2>2, <2>3 DEF Commit
  <2>4. CASE ~End(c, "OK", Result(c))
    <3> DEFINE after == [read |-> tx[c].read, wrote |-> FALSE, rows |-> {}]
    <3>1. /\ pc' = [pc EXCEPT ![c] = "confirm"]
          /\ tx' = [tx EXCEPT ![c] = after]
          /\ UNCHANGED <<answer, attempts>>
      BY <1>8, <2>4 DEF Commit, Goto
    <3>2. after \in [read : Seq(Calls), wrote : BOOLEAN,
                     rows : SUBSET [messageId : Messages, call : Calls]]
      BY DEF TypeOK
    <3> HIDE DEF after
    <3>3. QED
      BY <2>1, <2>2, <3>1, <3>2
  <2>5. QED
    BY <2>3, <2>4
<1>9. ASSUME NEW c \in Calls, Confirm(c) PROVE TypeOK'
  BY <1>2, <1>7, <1>9 DEF Confirm
<1>10. ASSUME NEW c \in Calls, TransientError(c) PROVE TypeOK'
  <2>1. attempts[c] + 1 \in 0..MaxAttempts
    BY <1>10 DEF TransientError
  <2>2. attempts' = [attempts EXCEPT ![c] = attempts[c] + 1]
    BY <1>10 DEF TransientError
  <2>3. QED
    BY <1>1, <1>10, <2>1, <2>2 DEF TransientError, Goto
<1>11. ASSUME UNCHANGED vars PROVE TypeOK'
  BY <1>11 DEF vars
<1>12. QED
  BY <1>3, <1>4, <1>5, <1>6, <1>8, <1>9, <1>10, <1>11 DEF Next, Step

-----------------------------------------------------------------------------

(* Of the last commit of a call c: the document grows by c's write, the outbox
   by c's rows, and c is told or has to ask again. *)
LEMMA CommitStores ==
  ASSUME TypeOK, StagesAreSound, WritersAreCurrent, NEW c \in Calls, Commit(c)
  PROVE  /\ docs' = [docs EXCEPT ![Subject[c]] = Append(docs[Subject[c]], c)]
         /\ outbox' = outbox \cup RowsOf(c)
         /\ Result(c) = Len(docs[Subject[c]]) + 1
         /\ \/ End(c, "OK", Result(c))
            \/ /\ pc'[c] = "confirm" /\ answer' = answer
               /\ tx'[c] = [read |-> tx[c].read, wrote |-> FALSE, rows |-> {}]
<1>1. /\ pc[c] = "commit"
      /\ docs' = [docs EXCEPT ![Subject[c]] = Append(tx[c].read, c)]
      /\ outbox' = outbox \cup tx[c].rows
  BY DEF Commit
<1>2. tx[c].wrote /\ tx[c].rows = RowsOf(c)
  BY <1>1 DEF StagesAreSound
<1>3. tx[c].read = docs[Subject[c]]
  BY <1>2 DEF WritersAreCurrent
<1>4. CASE End(c, "OK", Result(c))
  BY <1>1, <1>2, <1>3, <1>4 DEF Result
<1>5. CASE ~End(c, "OK", Result(c))
  <2>1. /\ pc' = [pc EXCEPT ![c] = "confirm"]
        /\ tx' = [tx EXCEPT ![c] = [read |-> tx[c].read, wrote |-> FALSE, rows |-> {}]]
        /\ answer' = answer
    BY <1>5 DEF Commit, Goto
  <2>2. tx'[c] = [read |-> tx[c].read, wrote |-> FALSE, rows |-> {}]
    BY <2>1 DEF TypeOK
  <2>3. pc'[c] = "confirm"
    BY <2>1 DEF TypeOK
  <2>4. QED
    BY <1>1, <1>2, <1>3, <2>1, <2>2, <2>3 DEF Result
<1>6. QED
  BY <1>4, <1>5

(* Where the write of a call stands changes by its own commit alone. *)
LEMMA PlacesAfterCommit ==
  ASSUME TypeOK, StagesAreSound, WritersAreCurrent, NEW c \in Calls, Commit(c), NEW d \in Calls
  PROVE  Places(d)' = IF d = c THEN Places(d) \cup {Result(c)} ELSE Places(d)
<1> DEFINE old == docs[Subject[c]]
<1>1. docs' = [docs EXCEPT ![Subject[c]] = Append(old, c)] /\ Result(c) = Len(old) + 1
  BY CommitStores
<1>2. Subject[c] \in Documents /\ Subject[d] \in Documents /\ old \in Seq(Calls)
  BY WorkAssumption DEF TypeOK
<1>3. CASE Subject[d] # Subject[c]
  <2>1. docs'[Subject[d]] = docs[Subject[d]] /\ d # c
    BY <1>1, <1>2, <1>3 DEF TypeOK
  <2>2. QED
    BY <2>1 DEF Places
<1>4. CASE Subject[d] = Subject[c]
  <2>1. docs'[Subject[d]] = Append(old, c)
    BY <1>1, <1>2, <1>4 DEF TypeOK
  <2>2. /\ Len(Append(old, c)) = Len(old) + 1
        /\ \A n \in 1..Len(old) : Append(old, c)[n] = old[n]
        /\ Append(old, c)[Len(old) + 1] = c
    BY <1>2
  <2>3. Places(d)' = {n \in 1..(Len(old) + 1) : Append(old, c)[n] = d}
    BY <2>1, <2>2 DEF Places
  <2>4. Places(d) = {n \in 1..Len(old) : old[n] = d}
    BY <1>4 DEF Places
  <2> HIDE DEF old
  <2>5. Len(old) \in Nat
    BY <1>2
  <2>6. QED
    BY <1>1, <2>2, <2>3, <2>4, <2>5
<1>5. QED
  BY <1>3, <1>4

(* The stage of every call stays what its transaction says it is. *)
LEMMA StageStep == TypeOK /\ StagesAreSound /\ WritersAreCurrent /\ [Next]_vars => StagesAreSound'
<1> SUFFICES ASSUME TypeOK, StagesAreSound, WritersAreCurrent, [Next]_vars PROVE StagesAreSound'
  OBVIOUS
<1>1. CASE UNCHANGED vars
  BY <1>1 DEF StagesAreSound, vars
<1>2. ASSUME NEW c \in Calls, Step(c) \/ Die(c) PROVE StagesAreSound'
  <2> DEFINE Sound(d) ==
        /\ tx'[d].wrote <=> pc'[d] \in {"append", "commit"}
        /\ tx'[d].rows = IF pc'[d] = "commit" THEN RowsOf(d) ELSE {}
        /\ answer'[d] = Pending <=> pc'[d] # "ended"
  <2>1. \A d \in Calls \ {c} : Sound(d)
    BY <1>2, StepFrame DEF StagesAreSound
  <2>2. /\ tx[c].wrote <=> pc[c] \in {"append", "commit"}
        /\ tx[c].rows = IF pc[c] = "commit" THEN RowsOf(c) ELSE {}
        /\ answer[c] = Pending <=> pc[c] # "ended"
    BY DEF StagesAreSound
  <2> SUFFICES Sound(c)
    BY <2>1 DEF StagesAreSound
  <2>3. CASE Read(c)
    BY <2>2, <2>3 DEF TypeOK, Read, Goto
  <2>4. CASE Write(c)
    BY <2>2, <2>4 DEF TypeOK, Write, Goto
  <2>5. CASE AppendEvents(c)
    <3>1. /\ pc[c] = "append" /\ pc'[c] = "commit" /\ answer' = answer
          /\ tx'[c] = [tx[c] EXCEPT !.rows = RowsOf(c)]
      BY <2>5 DEF TypeOK, AppendEvents, Goto, Events, RowsOf
    <3>2. tx'[c].rows = RowsOf(c) /\ tx'[c].wrote = tx[c].wrote
      BY <3>1 DEF TypeOK
    <3>3. QED
      BY <2>2, <3>1, <3>2
  <2>6. ASSUME NEW outcome \in {"OK", "REJECTED", "REJECTED_UNKNOWN", "DIED"}, NEW place, End(c, outcome, place)
        PROVE  Sound(c)
    <3>1. /\ pc'[c] = "ended" /\ tx'[c] = NoWork
          /\ answer'[c] = [outcome |-> outcome, place |-> place]
      BY <2>6, Ended
    <3>2. answer'[c].outcome # Pending.outcome
      BY <3>1 DEF Pending
    <3>3. tx'[c].wrote = FALSE /\ tx'[c].rows = {}
      BY <3>1 DEF NoWork
    <3>4. QED
      BY <3>1, <3>2, <3>3
  <2>7. CASE AppendRejected(c) \/ Confirm(c) \/ Throw(c) \/ GiveUp(c) \/ Die(c)
    BY <2>6, <2>7 DEF AppendRejected, Confirm, Throw, GiveUp, Die
  <2>8. CASE Commit(c)
    <3>1. pc[c] = "commit"
      BY <2>8 DEF Commit
    <3>2. CASE End(c, "OK", Result(c))
      BY <2>6, <3>2
    <3>3. CASE /\ pc'[c] = "confirm" /\ answer' = answer
               /\ tx'[c] = [read |-> tx[c].read, wrote |-> FALSE, rows |-> {}]
      BY <2>2, <3>1, <3>3
    <3>4. QED
      BY <2>8, <3>2, <3>3, CommitStores
  <2>9. CASE TransientError(c)
    BY <2>2, <2>9 DEF TypeOK, TransientError, Retriable, Goto, NoWork
  <2>10. QED
    BY <1>2, <2>3, <2>4, <2>5, <2>7, <2>8, <2>9 DEF Step
<1>3. QED
  BY <1>1, <1>2 DEF Next

(* A call writes only what nobody else is writing and nobody has changed. *)
LEMMA WriterStep ==
  TypeOK /\ StagesAreSound /\ WritersAreCurrent /\ [Next]_vars => WritersAreCurrent'
<1> SUFFICES ASSUME TypeOK, StagesAreSound, WritersAreCurrent, [Next]_vars
             PROVE  WritersAreCurrent'
  OBVIOUS
<1>1. CASE UNCHANGED vars
  BY <1>1 DEF WritersAreCurrent, vars, stored
<1>2. ASSUME NEW c \in Calls, Write(c) PROVE WritersAreCurrent'
  <2>1. /\ docs' = docs /\ tx'[c].read = docs[Subject[c]]
        /\ \A d \in Calls \ {c} : tx'[d] = tx[d] /\ (tx[d].wrote => Subject[d] # Subject[c])
    BY <1>2 DEF TypeOK, Write, Conflict, stored
  <2>2. QED
    BY <2>1 DEF WritersAreCurrent
<1>3. ASSUME NEW c \in Calls, tx'[c].wrote => tx[c].wrote, tx'[c].wrote => tx'[c].read = tx[c].read,
             \A d \in Calls \ {c} : tx'[d] = tx[d], docs' = docs
      PROVE  WritersAreCurrent'
  <2>1. \A d \in Calls : tx'[d].wrote => tx[d].wrote /\ tx'[d].read = tx[d].read
    BY <1>3
  <2>2. QED
    BY <1>3, <2>1 DEF WritersAreCurrent
<1>4. ASSUME NEW c \in Calls, Commit(c) PROVE WritersAreCurrent'
  <2>1. ~tx'[c].wrote
    <3>1. CASE End(c, "OK", Result(c))
      <4>1. tx'[c] = NoWork
        BY <3>1, Ended
      <4>2. QED
        BY <4>1 DEF NoWork
    <3>2. CASE tx'[c] = [read |-> tx[c].read, wrote |-> FALSE, rows |-> {}]
      BY <3>2
    <3>3. QED
      BY <1>4, <3>1, <3>2, CommitStores
  <2>2. \A d \in Calls \ {c} : tx'[d] = tx[d]
    BY <1>4, StepFrame DEF Step
  <2>3. tx[c].wrote
    BY <1>4 DEF Commit, StagesAreSound
  <2>4. \A d \in Calls \ {c} : tx[d].wrote => docs'[Subject[d]] = docs[Subject[d]]
    <3>1. SUFFICES ASSUME NEW d \in Calls \ {c}, tx[d].wrote
                   PROVE  docs'[Subject[d]] = docs[Subject[d]]
      OBVIOUS
    <3>2. Subject[d] # Subject[c]
      BY <2>3, <3>1 DEF WritersAreCurrent
    <3>3. docs' = [docs EXCEPT ![Subject[c]] = Append(docs[Subject[c]], c)]
      BY <1>4, CommitStores
    <3>4. QED
      BY <3>1, <3>2, <3>3, WorkAssumption DEF TypeOK
  <2>5. QED
    BY <2>1, <2>2, <2>4 DEF WritersAreCurrent
<1>5. ASSUME NEW c \in Calls, (Step(c) \/ Die(c)), ~Write(c), ~Commit(c) PROVE WritersAreCurrent'
  <2>1. docs' = docs /\ \A d \in Calls \ {c} : tx'[d] = tx[d]
    BY <1>5, StepFrame
  <2>2. CASE AppendEvents(c)
    <3>1. tx'[c] = [tx[c] EXCEPT !.rows = RowsOf(c)]
      BY <2>2 DEF TypeOK, AppendEvents, RowsOf, Events
    <3>2. tx'[c].wrote = tx[c].wrote /\ tx'[c].read = tx[c].read
      BY <3>1 DEF TypeOK
    <3>3. QED
      BY <1>3, <2>1, <3>2
  <2>3. CASE Read(c)
    <3>1. ~tx[c].wrote
      BY <2>3 DEF Read, StagesAreSound
    <3>2. ~tx'[c].wrote
      BY <2>3, <3>1 DEF TypeOK, Read
    <3>3. QED
      BY <1>3, <2>1, <3>2
  <2>4. CASE ~AppendEvents(c) /\ ~Read(c)
    <3>1. tx'[c] = NoWork
      BY <1>5, <2>4, Ended DEF TypeOK, Step, AppendRejected, Confirm, TransientError, Throw, GiveUp, Die
    <3>2. ~tx'[c].wrote
      BY <3>1 DEF NoWork
    <3>3. QED
      BY <1>3, <2>1, <3>2
  <2>5. QED
    BY <2>2, <2>3, <2>4
<1>6. QED
  BY <1>1, <1>2, <1>4, <1>5 DEF Next

(* No step but a commit moves the place of a write. *)
LEMMA PlacesStay == ASSUME docs' = docs, NEW c \in Calls PROVE Places(c)' = Places(c)
  BY DEF Places

(* A call's write is in its document once its commit took effect. *)
LEMMA WrittenStep ==
  TypeOK /\ StagesAreSound /\ WritersAreCurrent /\ WrittenByCommit /\ [Next]_vars
    => WrittenByCommit'
<1> SUFFICES ASSUME TypeOK, StagesAreSound, WritersAreCurrent, WrittenByCommit, [Next]_vars
             PROVE  WrittenByCommit'
  OBVIOUS
<1> DEFINE Open == {"begin", "write", "append", "commit"}
<1>1. CASE UNCHANGED vars
  BY <1>1 DEF WrittenByCommit, Places, Result, vars, stored
<1>2. ASSUME NEW c \in Calls, Commit(c) PROVE WrittenByCommit'
  <2>1. \A d \in Calls \ {c} : Places(d)' = Places(d) /\ pc'[d] = pc[d] /\ Result(d)' = Result(d)
    BY <1>2, PlacesAfterCommit, StepFrame DEF Step, Result
  <2>2. pc[c] = "commit" /\ Places(c)' = {Result(c)}
    BY <1>2, PlacesAfterCommit DEF Commit, WrittenByCommit
  <2>3. \/ pc'[c] = "ended"
        \/ pc'[c] = "confirm" /\ Result(c)' = Result(c)
    <3>1. CASE End(c, "OK", Result(c))
      BY <3>1, Ended
    <3>2. CASE pc'[c] = "confirm" /\ tx'[c] = [read |-> tx[c].read, wrote |-> FALSE, rows |-> {}]
      BY <3>2 DEF Result
    <3>3. QED
      BY <1>2, <3>1, <3>2, CommitStores
  <2>4. QED
    BY <2>1, <2>2, <2>3 DEF WrittenByCommit
<1>3. ASSUME NEW c \in Calls, (Step(c) \/ Die(c)), ~Commit(c) PROVE WrittenByCommit'
  <2>1. docs' = docs /\ \A d \in Calls \ {c} : pc'[d] = pc[d] /\ tx'[d] = tx[d]
    BY <1>3, StepFrame
  <2>2. \A d \in Calls : Places(d)' = Places(d)
    BY <2>1, PlacesStay
  <2>3. pc'[c] \in Open => pc[c] \in Open
    BY <1>3 DEF TypeOK, Step, Read, Write, AppendEvents, AppendRejected, Confirm, TransientError,
                Retriable, Throw, GiveUp, Die, End, Goto
  <2>4. pc'[c] # "confirm"
    BY <1>3 DEF TypeOK, Step, Read, Write, AppendEvents, AppendRejected, Confirm, TransientError,
                Retriable, Throw, GiveUp, Die, End, Goto
  <2>5. \A d \in Calls \ {c} : Result(d)' = Result(d)
    BY <2>1 DEF Result
  <2>6. QED
    BY <2>1, <2>2, <2>3, <2>4, <2>5 DEF WrittenByCommit
<1>4. QED
  BY <1>1, <1>2, <1>3 DEF Next

(* The messages a call is about to commit are neither in the outbox nor with
   another call that is about to commit. *)
LEMMA FreshStep ==
  TypeOK /\ StagesAreSound /\ WritersAreCurrent /\ MessagesAreFresh /\ [Next]_vars
    => MessagesAreFresh'
<1> SUFFICES ASSUME TypeOK, StagesAreSound, WritersAreCurrent, MessagesAreFresh, [Next]_vars
             PROVE  MessagesAreFresh'
  OBVIOUS
<1>1. CASE UNCHANGED vars
  BY <1>1 DEF MessagesAreFresh, vars, stored
<1>2. ASSUME NEW c \in Calls, AppendEvents(c) PROVE MessagesAreFresh'
  <2>1. /\ outbox' = outbox
        /\ \A d \in Calls \ {c} : pc'[d] = pc[d]
    BY <1>2, StepFrame DEF Step, AppendEvents, stored
  <2>2. \A row \in outbox : row.messageId \notin Announces[c]
    BY <1>2 DEF AppendEvents, Taken, Events
  <2>3. \A d \in Calls \ {c} : pc[d] = "commit" => Announces[c] \cap Announces[d] = {}
    <3>1. SUFFICES ASSUME NEW d \in Calls \ {c}, pc[d] = "commit", NEW m \in Announces[d]
                   PROVE  m \notin Announces[c]
      OBVIOUS
    <3>2. Row(m, d) \in tx[d].rows
      BY <3>1 DEF StagesAreSound, RowsOf
    <3>3. Row(m, d).messageId = m
      BY DEF Row
    <3>4. QED
      BY <1>2, <3>1, <3>2, <3>3 DEF AppendEvents, Contended, Events
  <2>4. QED
    BY <2>1, <2>2, <2>3 DEF MessagesAreFresh
<1>3. ASSUME NEW c \in Calls, Commit(c) PROVE MessagesAreFresh'
  <2>1. pc[c] = "commit" /\ pc'[c] # "commit"
    <3>1. pc'[c] = "ended" \/ pc'[c] = "confirm"
      BY <1>3, CommitStores, Ended
    <3>2. QED
      BY <1>3, <3>1 DEF Commit
  <2>2. outbox' = outbox \cup RowsOf(c) /\ \A d \in Calls \ {c} : pc'[d] = pc[d]
    BY <1>3, CommitStores, StepFrame DEF Step
  <2>3. \A d \in Calls \ {c} : pc[d] = "commit" =>
          \A row \in RowsOf(c) : row.messageId \notin Announces[d]
    BY <2>1 DEF MessagesAreFresh, RowsOf, Row
  <2>4. QED
    BY <2>1, <2>2, <2>3 DEF MessagesAreFresh
<1>4. ASSUME NEW c \in Calls, (Step(c) \/ Die(c)), ~AppendEvents(c), ~Commit(c)
      PROVE  MessagesAreFresh'
  <2>1. /\ outbox' = outbox
        /\ \A d \in Calls \ {c} : pc'[d] = pc[d]
    BY <1>4, StepFrame
  <2>2. pc'[c] # "commit"
    BY <1>4 DEF TypeOK, Step, Read, Write, AppendRejected, Confirm, TransientError, Throw, GiveUp,
                Die, End, Goto
  <2>3. QED
    BY <2>1, <2>2 DEF MessagesAreFresh
<1>5. QED
  BY <1>1, <1>2, <1>3, <1>4 DEF Next

(* A commit adds the rows of a call together with its write. *)
LEMMA EventStep ==
  TypeOK /\ StagesAreSound /\ WritersAreCurrent /\ WrittenByCommit /\ MessagesAreFresh
    /\ WriteIffEvents /\ OneRowPerMessage /\ [Next]_vars
    => WriteIffEvents' /\ OneRowPerMessage'
<1> SUFFICES ASSUME TypeOK, StagesAreSound, WritersAreCurrent, WrittenByCommit, MessagesAreFresh,
                    WriteIffEvents, OneRowPerMessage, [Next]_vars
             PROVE  WriteIffEvents' /\ OneRowPerMessage'
  OBVIOUS
<1>1. CASE docs' = docs /\ outbox' = outbox
  BY <1>1, PlacesStay DEF WriteIffEvents, OneRowPerMessage
<1>2. ASSUME NEW c \in Calls, Commit(c) PROVE WriteIffEvents' /\ OneRowPerMessage'
  <2>1. pc[c] = "commit" /\ outbox' = outbox \cup RowsOf(c)
    BY <1>2, CommitStores DEF Commit
  <2>2. \A d \in Calls : Places(d)' # {} <=> (Places(d) # {} \/ d = c)
    BY <1>2, PlacesAfterCommit
  <2>3. \A d \in Calls, m \in Messages : Row(m, d) \in RowsOf(c) <=> d = c /\ m \in Announces[c]
    BY DEF RowsOf, Row
  <2>4. Places(c) = {}
    BY <2>1 DEF WrittenByCommit
  <2>5. WriteIffEvents'
    BY <2>1, <2>2, <2>3, <2>4 DEF WriteIffEvents
  <2>6. \A row \in RowsOf(c) : row.messageId \in Announces[c] /\ row = Row(row.messageId, c)
    BY DEF RowsOf, Row
  <2>7. \A row \in outbox : row.messageId \notin Announces[c]
    BY <2>1 DEF MessagesAreFresh
  <2>8. OneRowPerMessage'
    <3>1. SUFFICES ASSUME NEW row \in outbox', NEW other \in outbox',
                          row.messageId = other.messageId
                   PROVE  row = other
      BY DEF OneRowPerMessage
    <3>2. CASE row \in outbox /\ other \in outbox
      BY <3>1, <3>2 DEF OneRowPerMessage
    <3>3. CASE row \in RowsOf(c) /\ other \in RowsOf(c)
      BY <3>1, <3>3, <2>6
    <3>4. QED
      BY <2>1, <2>6, <2>7, <3>1, <3>2, <3>3
  <2>9. QED
    BY <2>5, <2>8
<1>3. QED
  BY <1>1, <1>2, StepFrame DEF Next, vars, stored

(* A call is told the truth when it ends, and what it was told stays true. *)
LEMMA AnswerStep ==
  TypeOK /\ StagesAreSound /\ WritersAreCurrent /\ WrittenByCommit /\ TruthfulAnswer /\ [Next]_vars
    => TruthfulAnswer'
<1> SUFFICES ASSUME TypeOK, StagesAreSound, WritersAreCurrent, WrittenByCommit, TruthfulAnswer,
                    [Next]_vars
             PROVE  TruthfulAnswer'
  OBVIOUS
<1>1. CASE UNCHANGED vars
  BY <1>1, PlacesStay DEF TruthfulAnswer, vars, stored
<1>2. ASSUME NEW c \in Calls, (Step(c) \/ Die(c)) PROVE TruthfulAnswer'
  <2> DEFINE Truthful(d) ==
        /\ answer'[d].outcome = "OK" => Places(d)' = {answer'[d].place}
        /\ answer'[d].outcome = "REJECTED" => Places(d)' = {}
  <2>1. \A d \in Calls \ {c} : Places(d)' = Places(d) /\ answer'[d] = answer[d]
    <3>1. \A d \in Calls \ {c} : answer'[d] = answer[d]
      BY <1>2, StepFrame
    <3>2. CASE Commit(c)
      BY <3>1, <3>2, PlacesAfterCommit
    <3>3. CASE docs' = docs
      BY <3>1, <3>3, PlacesStay
    <3>4. QED
      BY <1>2, <3>2, <3>3, StepFrame
  <2> SUFFICES Truthful(c)
    BY <2>1 DEF TruthfulAnswer
  <2>2. ASSUME NEW outcome, NEW place, End(c, outcome, place),
               outcome = "OK" => Places(c)' = {place}, outcome = "REJECTED" => Places(c)' = {}
        PROVE  Truthful(c)
    <3>1. answer'[c] = [outcome |-> outcome, place |-> place]
      BY <2>2, Ended
    <3>2. answer'[c].outcome = outcome /\ answer'[c].place = place
      BY <3>1
    <3>3. QED
      BY <2>2, <3>2
  <2>3. ASSUME pc[c] # "ended", answer' = answer PROVE Truthful(c)
    BY <2>3 DEF StagesAreSound, Pending
  <2>4. CASE Commit(c)
    <3>1. pc[c] = "commit" /\ Places(c)' = {Result(c)}
      BY <2>4, PlacesAfterCommit DEF Commit, WrittenByCommit
    <3>2. End(c, "OK", Result(c)) \/ answer' = answer
      BY <2>4 DEF Commit
    <3>3. QED
      BY <2>2, <2>3, <3>1, <3>2
  <2>5. CASE Confirm(c)
    <3>1. Places(c) = {Result(c)} /\ End(c, "OK", Result(c)) /\ docs' = docs
      BY <2>5 DEF Confirm, WrittenByCommit, stored
    <3>2. QED
      BY <2>2, <3>1, PlacesStay
  <2>6. CASE AppendRejected(c) \/ Throw(c)
    <3>1. Places(c) = {} /\ End(c, "REJECTED", 0) /\ docs' = docs
      BY <2>6 DEF AppendRejected, Throw, WrittenByCommit, stored
    <3>2. QED
      BY <2>2, <3>1, PlacesStay
  <2>7. CASE GiveUp(c) \/ Die(c)
    BY <2>2, <2>7 DEF GiveUp, Die
  <2>8. CASE Read(c) \/ Write(c) \/ AppendEvents(c) \/ TransientError(c)
    BY <2>3, <2>8 DEF Read, Write, AppendEvents, TransientError, Retriable
  <2>9. QED
    BY <1>2, <2>4, <2>5, <2>6, <2>7, <2>8 DEF Step
<1>3. QED
  BY <1>1, <1>2 DEF Next

-----------------------------------------------------------------------------

(* The inductive invariant of UnitOfWork holds in every reachable state. *)
THEOREM Invariance == Spec => []IInv
<1>1. Init => IInv
  BY InitIsSound
<1>2. IInv /\ [Next]_vars => IInv'
  BY TypeStep, StageStep, WriterStep, WrittenStep, FreshStep, EventStep, AnswerStep DEF IInv
<1>3. QED
  BY <1>1, <1>2, PTL DEF Spec

(* Every variable of UnitOfWork keeps its type. *)
THEOREM TypeCorrect == Spec => []TypeOK
  BY Invariance, PTL DEF IInv

(* A write and its events are stored together or not at all, however often
   withTransaction runs a callback and whatever becomes of its commit. *)
THEOREM WritesCarryTheirEvents == Spec => []WriteIffEvents
  BY Invariance, PTL DEF IInv

(* Calls that announce one message never both get it into the outbox. *)
THEOREM MessagesAreUnique == Spec => []OneRowPerMessage
  BY Invariance, PTL DEF IInv

(* What withOutbox answers is true, and stays true while other calls write the
   same document. *)
THEOREM AnswersAreTrue == Spec => []TruthfulAnswer
  BY Invariance, PTL DEF IInv

-----------------------------------------------------------------------------

(* The commit of a call is the one step of AtomicWork in which it happens. *)
LEMMA CommitHappens ==
  ASSUME IInv, NEW c \in Calls, Commit(c)
  PROVE  Atomic!Succeed(c)
<1> USE DEF IInv
<1>1. pc[c] = "commit" /\ answer[c] = Atomic!Pending
  BY DEF Commit, StagesAreSound, Pending, Atomic!Pending
<1>2. ~Atomic!Happened(c)
  BY <1>1 DEF WrittenByCommit, Places, Atomic!Happened
<1>3. \A row \in outbox : row.messageId \notin Announces[c]
  BY <1>1 DEF MessagesAreFresh
<1>4. docs' = [docs EXCEPT ![Subject[c]] = Append(@, c)]
  BY CommitStores
<1>5. outbox' = outbox \cup {[messageId |-> m, call |-> c] : m \in Announces[c]}
  BY CommitStores DEF RowsOf, Row
<1>6. Atomic!Happen(c)
  BY <1>1, <1>2, <1>3, <1>4, <1>5 DEF Atomic!Happen
<1>7. CASE End(c, "OK", Result(c))
  <2>1. Atomic!Tell(c, "OK", Len(docs[Subject[c]]) + 1)
    BY <1>7, CommitStores DEF End, Atomic!Tell
  <2>2. QED
    BY <1>6, <2>1 DEF Atomic!Succeed
<1>8. CASE answer' = answer
  BY <1>6, <1>8 DEF Atomic!Succeed
<1>9. QED
  BY <1>7, <1>8, CommitStores

(* Every behaviour of withOutbox, its retries and lost replies included, is a
   behaviour of AtomicWork. *)
THEOREM WorkIsAtomic == Spec => ImplementsAtomic
<1>1. Init => Atomic!Init
  BY DEF Init, Pending, Atomic!Init, Atomic!Pending
<1>2. IInv /\ [Next]_vars => [Atomic!Next]_Atomic!vars
  <2> SUFFICES ASSUME IInv, [Next]_vars PROVE Atomic!Next \/ UNCHANGED Atomic!vars
    OBVIOUS
  <2> USE DEF IInv, stored
  <2>1. ASSUME NEW c \in Calls, Step(c) \/ Die(c) PROVE Atomic!Next \/ UNCHANGED Atomic!vars
    <3>1. CASE Commit(c)
      BY <3>1, CommitHappens DEF Atomic!Next
    <3>2. CASE Confirm(c)
      <4>1. answer[c] = Atomic!Pending /\ Places(c) = {Result(c)}
        BY <3>2 DEF Confirm, StagesAreSound, WrittenByCommit, Pending, Atomic!Pending
      <4>2. Result(c) \in 1..Len(docs[Subject[c]]) /\ docs[Subject[c]][Result(c)] = c
        BY <4>1 DEF Places
      <4>3. Atomic!Tell(c, "OK", Result(c)) /\ UNCHANGED <<docs, outbox>>
        BY <3>2 DEF Confirm, End, Atomic!Tell
      <4>4. Atomic!Succeed(c)
        BY <4>1, <4>2, <4>3 DEF Atomic!Succeed
      <4>5. QED
        BY <4>4 DEF Atomic!Next
    <3>3. CASE AppendRejected(c) \/ Throw(c)
      <4>1. answer[c] = Atomic!Pending /\ Places(c) = {}
        BY <3>3 DEF AppendRejected, Throw, StagesAreSound, WrittenByCommit, Pending, Atomic!Pending
      <4>2. ~Atomic!Happened(c)
        BY <4>1 DEF Places, Atomic!Happened
      <4>3. Atomic!Tell(c, "REJECTED", 0) /\ UNCHANGED <<docs, outbox>>
        BY <3>3 DEF AppendRejected, Throw, End, Atomic!Tell
      <4>4. Atomic!Fail(c)
        BY <4>1, <4>2, <4>3 DEF Atomic!Fail
      <4>5. QED
        BY <4>4 DEF Atomic!Next
    <3>4. CASE GiveUp(c) \/ Die(c)
      <4>1. answer[c] = Atomic!Pending
        BY <3>4 DEF GiveUp, Die, StagesAreSound, Pending, Atomic!Pending
      <4>2. /\ Atomic!Tell(c, "REJECTED_UNKNOWN", 0) \/ Atomic!Tell(c, "DIED", 0)
            /\ UNCHANGED <<docs, outbox>>
        BY <3>4 DEF GiveUp, Die, End, Atomic!Tell
      <4>3. Atomic!LoseTouch(c)
        BY <4>1, <4>2 DEF Atomic!LoseTouch
      <4>4. QED
        BY <4>3 DEF Atomic!Next
    <3>5. CASE Read(c) \/ Write(c) \/ AppendEvents(c) \/ TransientError(c)
      BY <3>5 DEF Read, Write, AppendEvents, TransientError, Atomic!vars
    <3>6. QED
      BY <2>1, <3>1, <3>2, <3>3, <3>4, <3>5 DEF Step
  <2>2. QED
    BY <2>1 DEF Next, vars, Atomic!vars
<1>3. QED
  BY <1>1, <1>2, Invariance, PTL DEF Spec, ImplementsAtomic, Atomic!Spec

=============================================================================
