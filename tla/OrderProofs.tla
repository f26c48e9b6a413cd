------------------------------ MODULE OrderProofs ------------------------------
(***************************************************************************)
(* Theorems about OrderReservation, for every set of orders, items,        *)
(* requests and editors and any number of versions.                        *)
(***************************************************************************)
EXTENDS OrderReservation, FiniteSetTheorems, SequenceTheorems, TLAPS

(* A request is about to commit exactly while it holds its order's document,
   and the document is still the one its filter matched. *)
WriterHolds ==
  /\ \A r \in Requests : pc[r] = "commit" =>
       /\ writer[Target(r)] = r
       /\ snapshot[r] = orders[Target(r)]
       /\ Matches(r, snapshot[r])
       /\ snapshot[r].version < MaxVersion
  /\ \A o \in Orders : \A r \in Requests : writer[o] = r => pc[r] = "commit" /\ Target(r) = o

(* A request has an answer only when it is done, and holds an order only then. *)
AnsweredIsDone ==
  /\ \A r \in Requests : pc[r] # "done" => result[r] = NoResult
  /\ \A o \in Orders : \A r \in Requests : orders[o].session = r => pc[r] = "done"

(* What a request that lost has seen. *)
SeenByLosers ==
  \A r \in Requests : pc[r] = "diagnose" =>
    /\ ~Matches(r, snapshot[r])
    /\ snapshot[r].session # r

(* A winner's order has gone past the version it asked for. *)
WonVersionIsGone ==
  \A r \in Requests :
    result[r].outcome = "OK" => orders[Target(r)].version > cmd[r].expectedVersion

(* A copy is of an order that exists and has not become older, and what
   happened to it since it was loaded starts from the order's status, as long
   as the order still has the version that was loaded. *)
CopiesFollow ==
  \A e \in Editors : editing[e] # NoCopy =>
    /\ orders[editing[e]] # NoOrder
    /\ copy[e].loaded <= orders[editing[e]].version
    /\ copy[e].version = copy[e].loaded + Len(copy[e].pending)
    /\ orders[editing[e]].version = copy[e].loaded =>
         Leads(orders[editing[e]].status, copy[e].pending, copy[e].status)

(* An order that does not exist has no events. *)
NothingBeforeCreation == \A o \in Orders : orders[o] = NoOrder => events[o] = << >>

IInv ==
  /\ TypeOK
  /\ WriterHolds
  /\ AnsweredIsDone
  /\ SeenByLosers
  /\ WonVersionIsGone
  /\ CopiesFollow
  /\ NothingBeforeCreation
  /\ OneWinnerPerVersion
  /\ HoldIsEarned
  /\ ViewInSync
  /\ EventsTellTheHistory
  /\ AccurateReason

-----------------------------------------------------------------------------

(* The state machine stays within its statuses, and lets a reservation happen. *)
LEMMA LegalTargets ==
  /\ \A s \in Statuses : Legal[s] \subseteq Statuses
  /\ "CHECKOUT_PENDING" \in Legal["READY_FOR_CHECKOUT"]
  BY DEF Legal, Statuses

(* NoOrder is not a document. *)
LEMMA NoOrderIsNone ==
  /\ NoOrder \notin OrderDocuments
  /\ NoOrder.status = "ABSENT" /\ NoOrder.version = 0
  /\ NoOrder.items = {} /\ NoOrder.session = NoSession
  BY DEF NoOrder, OrderDocuments, Statuses

(* The number of items of an order is a number. *)
LEMMA ItemsAreCounted == \A items \in SUBSET Items : Cardinality(items) \in Nat
  BY OrderAssumption, FS_Subset, FS_CardinalityType

(* The stories of two stretches of an order's life make one story. *)
LEMMA LeadsOn ==
  ASSUME NEW a, NEW b, NEW c,
         NEW s \in Seq([from : Statuses, to : Statuses]),
         NEW t \in Seq([from : Statuses, to : Statuses]),
         Leads(a, s, b), Leads(b, t, c)
  PROVE  /\ s \o t \in Seq([from : Statuses, to : Statuses])
         /\ Len(s \o t) = Len(s) + Len(t)
         /\ Leads(a, s \o t, c)
<1> DEFINE u == s \o t
<1>1. /\ u \in Seq([from : Statuses, to : Statuses])
      /\ Len(s) \in Nat /\ Len(t) \in Nat /\ Len(u) = Len(s) + Len(t)
      /\ \A n \in 1..Len(s) : u[n] = s[n]
      /\ \A n \in 1..Len(t) : u[n + Len(s)] = t[n]
  BY ConcatProperties
<1> HIDE DEF u
<1>2. ASSUME NEW n \in 1..Len(u)
      PROVE  u[n].from = (IF n - 1 = 0 THEN a ELSE u[n - 1].to) /\ u[n].to \in Legal[u[n].from]
  <2>1. CASE n \in 1..Len(s)
    <3>1. n - 1 = 0 \/ n - 1 \in 1..Len(s)
      BY <1>1, <2>1
    <3>2. u[n] = s[n] /\ (n - 1 # 0 => u[n - 1] = s[n - 1])
      BY <1>1, <2>1, <3>1
    <3>3. QED
      BY <2>1, <3>2 DEF Leads
  <2>2. CASE n \notin 1..Len(s)
    <3> DEFINE k == n - Len(s)
    <3>1. k \in 1..Len(t) /\ n = k + Len(s) /\ k \in Int /\ n - 1 = (k - 1) + Len(s) /\ n - 1 \in Nat
      BY <1>1, <2>2
    <3> HIDE DEF k
    <3>2. u[n] = t[k] /\ t[k].to \in Legal[t[k].from]
          /\ t[k].from = (IF k - 1 = 0 THEN b ELSE t[k - 1].to)
      BY <1>1, <3>1 DEF Leads
    <3>3. CASE k = 1
      <4>1. n - 1 = Len(s)
        BY <1>1, <3>1, <3>3
      <4>2. b = (IF Len(s) = 0 THEN a ELSE s[Len(s)].to)
        BY DEF Leads
      <4>3. Len(s) # 0 => u[Len(s)] = s[Len(s)]
        BY <1>1
      <4>4. QED
        BY <3>2, <3>3, <4>1, <4>2, <4>3
    <3>4. CASE k # 1
      <4>1. k - 1 \in 1..Len(t) /\ k - 1 # 0 /\ n - 1 # 0
        BY <1>1, <3>1, <3>4
      <4>2. u[n - 1] = t[k - 1]
        BY <1>1, <3>1, <4>1
      <4>3. QED
        BY <3>2, <4>1, <4>2
    <3>5. QED
      BY <3>3, <3>4
  <2>3. QED
    BY <2>1, <2>2
<1>3. c = (IF Len(u) = 0 THEN a ELSE u[Len(u)].to)
  <2>1. CASE Len(t) = 0
    BY <1>1, <2>1 DEF Leads
  <2>2. CASE Len(t) # 0
    <3>1. Len(t) \in 1..Len(t) /\ u[Len(t) + Len(s)] = t[Len(t)] /\ Len(u) # 0
      BY <1>1, <2>2
    <3>2. QED
      BY <1>1, <2>2, <3>1 DEF Leads
  <2>3. QED
    BY <2>1, <2>2
<1>4. Leads(a, u, c)
  BY <1>2, <1>3 DEF Leads
<1>5. QED
  BY <1>1, <1>4 DEF u

(* A story of one transition. *)
LEMMA LeadsOnce ==
  ASSUME NEW from \in Statuses, NEW to \in Legal[from]
  PROVE  /\ <<[from |-> from, to |-> to]>> \in Seq([from : Statuses, to : Statuses])
         /\ Len(<<[from |-> from, to |-> to]>>) = 1
         /\ Leads(from, <<[from |-> from, to |-> to]>>, to)
<1>1. to \in Statuses
  BY LegalTargets
<1> DEFINE once == <<[from |-> from, to |-> to]>>
<1>2. once \in Seq([from : Statuses, to : Statuses]) /\ Len(once) = 1
      /\ once[1].from = from /\ once[1].to = to
  BY <1>1
<1> HIDE DEF once
<1>3. Leads(from, once, to)
  BY <1>2 DEF Leads
<1>4. QED
  BY <1>2, <1>3 DEF once

(* Nothing happened, nothing changed. *)
LEMMA LeadsNowhere == \A s : Leads(s, << >>, s)
  BY DEF Leads

-----------------------------------------------------------------------------

(* The initial state satisfies the invariant. *)
LEMMA InitIsSound == Init => IInv
<1> SUFFICES ASSUME Init PROVE IInv
  OBVIOUS
<1> USE OrderAssumption DEF Init
<1>1. TypeOK
  <2>1. << >> \in Seq([from : Statuses, to : Statuses]) /\ 0 \in 0..MaxVersion
        /\ {} \in SUBSET Items /\ "DRAFT" \in Statuses
    BY DEF Statuses
  <2>2. NotLoaded \in Copies
    BY <2>1 DEF NotLoaded, Copies
  <2>3. QED
    BY <2>1, <2>2 DEF TypeOK
<1>2. WriterHolds /\ AnsweredIsDone /\ SeenByLosers
  BY NoOrderIsNone DEF WriterHolds, AnsweredIsDone, SeenByLosers
<1>3. WonVersionIsGone /\ CopiesFollow /\ OneWinnerPerVersion /\ AccurateReason
  BY DEF WonVersionIsGone, CopiesFollow, OneWinnerPerVersion, AccurateReason, NoResult
<1>4. HoldIsEarned /\ EventsTellTheHistory /\ NothingBeforeCreation
  BY NoOrderIsNone DEF HoldIsEarned, EventsTellTheHistory, NothingBeforeCreation, NoResult
<1>5. ViewInSync
  BY NoOrderIsNone, FS_EmptySet DEF ViewInSync
<1>6. QED
  BY <1>1, <1>2, <1>3, <1>4, <1>5 DEF IInv

-----------------------------------------------------------------------------

(* What an editor loads is a copy. *)
LEMMA LoadedIsCopy ==
  ASSUME TypeOK, NEW o \in Orders, orders[o] # NoOrder
  PROVE  [loaded |-> orders[o].version, status |-> orders[o].status,
          version |-> orders[o].version, items |-> orders[o].items, pending |-> << >>] \in Copies
<1>1. orders[o] \in OrderDocuments
  BY DEF TypeOK
<1>2. << >> \in Seq([from : Statuses, to : Statuses])
  OBVIOUS
<1>3. QED
  BY <1>1, <1>2 DEF OrderDocuments, Copies

(* A copy stays a copy through a transition, with one event more to announce. *)
LEMMA MovedIsCopy ==
  ASSUME TypeOK, NEW e \in Editors, NEW to \in Legal[copy[e].status],
         copy[e].version < MaxVersion
  PROVE  /\ copy[e].status \in Statuses /\ to \in Statuses
         /\ copy[e].pending \o Announced(e, to) \in Seq([from : Statuses, to : Statuses])
         /\ Len(copy[e].pending \o Announced(e, to)) = Len(copy[e].pending) + 1
         /\ [copy[e] EXCEPT !.status = to, !.version = @ + 1,
                            !.pending = @ \o Announced(e, to)] \in Copies
<1>1. copy[e] \in Copies
  BY DEF TypeOK
<1>2. /\ copy[e].status \in Statuses /\ copy[e].version \in 0..MaxVersion
      /\ copy[e].pending \in Seq([from : Statuses, to : Statuses])
  BY <1>1 DEF Copies
<1>3. to \in Statuses
  BY <1>2, LegalTargets
<1>4. /\ Announced(e, to) \in Seq([from : Statuses, to : Statuses])
      /\ Len(Announced(e, to)) = 1
  BY <1>2, LeadsOnce DEF Announced
<1>5. /\ copy[e].pending \o Announced(e, to) \in Seq([from : Statuses, to : Statuses])
      /\ Len(copy[e].pending \o Announced(e, to)) = Len(copy[e].pending) + 1
  BY <1>2, <1>4, ConcatProperties
<1>6. copy[e].version + 1 \in 0..MaxVersion
  BY <1>2, OrderAssumption
<1>7. QED
  BY <1>1, <1>2, <1>3, <1>5, <1>6 DEF Copies

(* toOrderDocument and toSearchViewDocument make documents of a copy. *)
LEMMA SavedIsDocument ==
  ASSUME TypeOK, NEW e \in Editors
  PROVE  Saved(e) \in OrderDocuments /\ Shown(Saved(e)) \in [status : Statuses, itemCount : Nat]
<1>1. copy[e] \in Copies
  BY DEF TypeOK
<1>2. QED
  BY <1>1, ItemsAreCounted DEF Saved, Shown, Copies, OrderDocuments

(* So they do of a new order. *)
LEMMA CreatedIsDocument ==
  Created \in OrderDocuments /\ Shown(Created) \in [status : Statuses, itemCount : Nat]
<1>1. {} \in SUBSET Items /\ 0 \in 0..MaxVersion /\ "DRAFT" \in Statuses
  BY OrderAssumption DEF Statuses
<1>2. QED
  BY <1>1, ItemsAreCounted DEF Created, Shown, OrderDocuments

(* What a reservation commits is the document it matched, one version on. *)
LEMMA ReservedIsDocument ==
  ASSUME TypeOK, WriterHolds, NEW r \in Requests, pc[r] = "commit"
  PROVE  /\ Target(r) \in Orders /\ orders[Target(r)] \in OrderDocuments
         /\ Reserved(r) = [orders[Target(r)] EXCEPT !.status = "CHECKOUT_PENDING",
                                                    !.version = @ + 1, !.session = r]
         /\ Reserved(r) \in OrderDocuments
         /\ Reserved(r).status = "CHECKOUT_PENDING" /\ Reserved(r).session = r
         /\ Reserved(r).items = orders[Target(r)].items
         /\ Reserved(r).version = orders[Target(r)].version + 1
         /\ orders[Target(r)].version = cmd[r].expectedVersion
         /\ orders[Target(r)].version \in Nat
         /\ orders[Target(r)].status = "READY_FOR_CHECKOUT"
<1>1. Target(r) \in Orders
  BY DEF TypeOK, Target
<1>2. /\ snapshot[r] = orders[Target(r)] /\ snapshot[r].version < MaxVersion
      /\ snapshot[r].status = "READY_FOR_CHECKOUT"
      /\ snapshot[r].version = cmd[r].expectedVersion
  BY DEF WriterHolds, Matches
<1>3. orders[Target(r)] \in OrderDocuments
  BY <1>1, <1>2, NoOrderIsNone DEF TypeOK
<1>4. orders[Target(r)].version + 1 \in 0..MaxVersion /\ orders[Target(r)].version \in Nat
  BY <1>2, <1>3, OrderAssumption DEF OrderDocuments
<1>5. "CHECKOUT_PENDING" \in Statuses
  BY DEF Statuses
<1>6. QED
  BY <1>1, <1>2, <1>3, <1>4, <1>5 DEF Reserved, OrderDocuments

(* No step takes a variable out of its domain. *)
LEMMA TypeStep == TypeOK /\ WriterHolds /\ [Next]_vars => TypeOK'
<1> SUFFICES ASSUME TypeOK, WriterHolds, [Next]_vars PROVE TypeOK'
  OBVIOUS
<1>0. /\ NoResult \in {NoResult}
      /\ \A outcome \in Outcomes, current \in OrderDocuments \cup {NoOrder} :
           [outcome |-> outcome, current |-> current] \in
             [outcome : Outcomes, current : OrderDocuments \cup {NoOrder}]
  OBVIOUS
<1>1. ASSUME NEW o \in Orders, CreateOrder(o) PROVE TypeOK'
  BY <1>1, CreatedIsDocument DEF CreateOrder, TypeOK, requestVars, editorVars
<1>2. ASSUME NEW o \in Orders, NEW e \in Editors, Load(e, o) PROVE TypeOK'
  <2>1. PICK c \in Copies : copy' = [copy EXCEPT ![e] = c]
    BY <1>2, LoadedIsCopy DEF Load
  <2>2. QED
    BY <1>2, <2>1 DEF Load, TypeOK, stored, requestVars
<1>3. ASSUME NEW e \in Editors, EditItems(e) PROVE TypeOK'
  <2>1. PICK items \in SUBSET Items : copy' = [copy EXCEPT ![e].items = items]
    <3>1. copy[e].items \in SUBSET Items
      BY DEF TypeOK, Copies
    <3>2. PICK i \in Items : \/ copy' = [copy EXCEPT ![e].items = copy[e].items \cup {i}]
                             \/ copy' = [copy EXCEPT ![e].items = copy[e].items \ {i}]
      BY <1>3 DEF EditItems
    <3>3. QED
      BY <3>1, <3>2
  <2>2. [copy[e] EXCEPT !.items = items] \in Copies
    <3>1. copy[e] \in Copies
      BY DEF TypeOK
    <3>2. \A c \in Copies : [c EXCEPT !.items = items] \in Copies
      BY DEF Copies
    <3>3. QED
      BY <3>1, <3>2
  <2>3. copy' \in [Editors -> Copies]
    BY <2>1, <2>2 DEF TypeOK
  <2>4. QED
    BY <1>3, <2>3 DEF EditItems, TypeOK, stored, requestVars
<1>4. ASSUME NEW e \in Editors, NEW to, TransitionTo(e, to) PROVE TypeOK'
  <2> DEFINE c == [copy[e] EXCEPT !.status = to, !.version = @ + 1,
                                  !.pending = @ \o Announced(e, to)]
  <2>1. c \in Copies
    BY <1>4, MovedIsCopy DEF TransitionTo
  <2>2. copy' = [copy EXCEPT ![e] = c]
    BY <1>4 DEF TransitionTo, TypeOK
  <2> HIDE DEF c
  <2>3. copy' \in [Editors -> Copies]
    BY <2>1, <2>2 DEF TypeOK
  <2>4. QED
    BY <1>4, <2>3 DEF TransitionTo, TypeOK, stored, requestVars
<1>5. NotLoaded \in Copies
  <2>1. << >> \in Seq([from : Statuses, to : Statuses]) /\ 0 \in 0..MaxVersion
        /\ {} \in SUBSET Items /\ "DRAFT" \in Statuses
    BY OrderAssumption DEF Statuses
  <2>2. QED
    BY <2>1 DEF NotLoaded, Copies
<1>6. ASSUME NEW e \in Editors, Save(e) PROVE TypeOK'
  <2>1. editing[e] \in Orders /\ copy[e].pending \in Seq([from : Statuses, to : Statuses])
    BY <1>6 DEF Save, TypeOK, Copies
  <2>2. events[editing[e]] \o copy[e].pending \in Seq([from : Statuses, to : Statuses])
    BY <2>1, ConcatProperties DEF TypeOK
  <2>3. /\ orders' \in [Orders -> OrderDocuments \cup {NoOrder}]
        /\ view' \in [Orders -> [status : Statuses \cup {"ABSENT"}, itemCount : Nat]]
    BY <1>6, <2>1, SavedIsDocument DEF Save, TypeOK
  <2>4. events' \in [Orders -> Seq([from : Statuses, to : Statuses])]
    BY <1>6, <2>1, <2>2 DEF Save, TypeOK
  <2>5. editing' \in [Editors -> Orders \cup {NoCopy}] /\ copy' \in [Editors -> Copies]
    BY <1>5, <1>6 DEF Save, Drop, TypeOK
  <2>6. UNCHANGED <<writer, requestVars>>
    BY <1>6 DEF Save
  <2>7. QED
    BY <2>3, <2>4, <2>5, <2>6 DEF TypeOK, requestVars
<1>7. ASSUME NEW e \in Editors, Discard(e) PROVE TypeOK'
  BY <1>5, <1>7 DEF Discard, Drop, TypeOK, stored, requestVars
<1>8. ASSUME NEW r \in Requests, Reserve(r) \/ ReserveMisses(r) PROVE TypeOK'
  <2>1. Target(r) \in Orders
    BY DEF Target, TypeOK
  <2>2. /\ pc' \in [Requests -> {"reserve", "diagnose", "commit", "done"}]
        /\ snapshot' \in [Requests -> OrderDocuments \cup {NoOrder}]
        /\ writer' \in [Orders -> Requests \cup {NoSession}]
        /\ UNCHANGED <<cmd, stored, result, editorVars>>
    <3>1. orders[Target(r)] \in OrderDocuments \cup {NoOrder}
      BY <2>1 DEF TypeOK
    <3>2. /\ snapshot' = [snapshot EXCEPT ![r] = orders[Target(r)]]
          /\ pc' = [pc EXCEPT ![r] = "commit"] \/ pc' = [pc EXCEPT ![r] = "diagnose"]
          /\ writer' = writer \/ writer' = [writer EXCEPT ![Target(r)] = r]
          /\ UNCHANGED <<cmd, stored, result, editorVars>>
      BY <1>8 DEF Reserve, ReserveMisses, Goto
    <3>3. pc' \in [Requests -> {"reserve", "diagnose", "commit", "done"}]
      BY <3>2 DEF TypeOK
    <3>4. snapshot' \in [Requests -> OrderDocuments \cup {NoOrder}]
      BY <3>1, <3>2 DEF TypeOK
    <3>5. writer' \in [Orders -> Requests \cup {NoSession}]
      BY <3>2 DEF TypeOK
    <3>6. QED
      BY <3>2, <3>3, <3>4, <3>5
  <2>3. QED
    BY <2>2 DEF TypeOK, stored, editorVars
<1>9. ASSUME NEW r \in Requests, NEW outcome \in Outcomes,
             NEW current \in OrderDocuments \cup {NoOrder}, Return(r, outcome, current)
      PROVE  /\ pc' \in [Requests -> {"reserve", "diagnose", "commit", "done"}]
             /\ snapshot' \in [Requests -> OrderDocuments \cup {NoOrder}]
             /\ result' \in [Requests -> {NoResult} \cup
                  [outcome : Outcomes, current : OrderDocuments \cup {NoOrder}]]
  BY <1>9 DEF Return, Goto, TypeOK
<1>10. ASSUME NEW r \in Requests, Diagnose(r) PROVE TypeOK'
  <2>1. Reason(r) \in Outcomes /\ Seen(r) \in OrderDocuments \cup {NoOrder}
    BY DEF Reason, Seen, Outcomes, TypeOK
  <2>2. Return(r, Reason(r), Seen(r)) /\ UNCHANGED <<cmd, stored, writer, editorVars>>
    BY <1>10 DEF Diagnose
  <2>3. QED
    BY <1>9, <2>1, <2>2 DEF TypeOK, stored, editorVars
<1>11. ASSUME NEW r \in Requests, Commit(r) PROVE TypeOK'
  <2>1. pc[r] = "commit" /\ Target(r) \in Orders /\ Reserved(r) \in OrderDocuments
    BY <1>11, ReservedIsDocument DEF Commit
  <2>2. /\ pc' \in [Requests -> {"reserve", "diagnose", "commit", "done"}]
        /\ snapshot' \in [Requests -> OrderDocuments \cup {NoOrder}]
        /\ result' \in [Requests -> {NoResult} \cup
             [outcome : Outcomes, current : OrderDocuments \cup {NoOrder}]]
    BY <1>9, <1>11, <2>1 DEF Commit, Outcomes
  <2>3. [from |-> "READY_FOR_CHECKOUT", to |-> "CHECKOUT_PENDING"] \in [from : Statuses, to : Statuses]
    BY DEF Statuses
  <2>4. Append(events[Target(r)], [from |-> "READY_FOR_CHECKOUT", to |-> "CHECKOUT_PENDING"])
          \in Seq([from : Statuses, to : Statuses])
    BY <2>1, <2>3, AppendProperties DEF TypeOK
  <2>5. events' \in [Orders -> Seq([from : Statuses, to : Statuses])]
    BY <1>11, <2>1, <2>4 DEF Commit, TypeOK
  <2>6. Reshown(Target(r), "CHECKOUT_PENDING") \in [status : Statuses \cup {"ABSENT"}, itemCount : Nat]
    BY <2>1 DEF Reshown, TypeOK, Statuses
  <2>7. /\ orders' \in [Orders -> OrderDocuments \cup {NoOrder}]
        /\ view' \in [Orders -> [status : Statuses \cup {"ABSENT"}, itemCount : Nat]]
        /\ writer' \in [Orders -> Requests \cup {NoSession}]
        /\ UNCHANGED <<cmd, editorVars>>
    BY <1>11, <2>1, <2>6 DEF Commit, TypeOK
  <2>8. QED
    BY <2>2, <2>5, <2>7 DEF TypeOK, editorVars
<1>12. ASSUME NEW r \in Requests, TransientError(r) PROVE TypeOK'
  BY <1>12 DEF TransientError, Goto, Release, TypeOK, stored, editorVars
<1>13. ASSUME NEW r \in Requests, Fail(r) PROVE TypeOK'
  <2>1. Return(r, "ERROR", NoOrder) /\ Release(r) /\ UNCHANGED <<cmd, stored, editorVars>>
    BY <1>13 DEF Fail
  <2>2. writer' \in [Orders -> Requests \cup {NoSession}]
    BY <2>1 DEF Release, TypeOK
  <2>3. QED
    BY <1>9, <2>1, <2>2 DEF TypeOK, stored, editorVars, Outcomes
<1>14. ASSUME UNCHANGED vars PROVE TypeOK'
  BY <1>14 DEF vars, TypeOK, stored, requestVars, editorVars
<1>15. QED
  BY <1>1, <1>2, <1>3, <1>4, <1>6, <1>7, <1>8, <1>10, <1>11, <1>12, <1>13, <1>14
  DEF Next, MoveToPricing, Move

-----------------------------------------------------------------------------

(* The only steps that write an order, or answer a request. *)
LEMMA OrderSteps ==
  ASSUME [Next]_vars
  PROVE  \/ UNCHANGED <<orders, view, events>>
         \/ \E o \in Orders : CreateOrder(o)
         \/ \E e \in Editors : Save(e)
         \/ \E r \in Requests : Commit(r)
  BY DEF Next, vars, stored, Load, EditItems, MoveToPricing, Move, TransitionTo, Discard, Reserve,
         ReserveMisses, Diagnose, TransientError, Fail

(* No command changes, and no order loses a version. *)
LEMMA VersionsGrow ==
  ASSUME TypeOK, WriterHolds, CopiesFollow, [Next]_vars
  PROVE  /\ cmd' = cmd
         /\ \A o \in Orders : orders[o].version \in Nat /\ orders'[o].version \in Nat
         /\ \A o \in Orders : orders'[o].version >= orders[o].version
         /\ \A o \in Orders : orders[o] # NoOrder => orders'[o] # NoOrder
<1>1. cmd' = cmd
  BY DEF Next, vars, requestVars, CreateOrder, Load, EditItems, MoveToPricing, Move, TransitionTo,
         Save, Discard, Reserve, ReserveMisses, Diagnose, Commit, TransientError, Fail
<1>2. \A o \in Orders : orders[o].version \in Nat
  BY OrderAssumption, NoOrderIsNone DEF TypeOK, OrderDocuments
<1>3. TypeOK'
  BY TypeStep
<1>4. \A o \in Orders : orders'[o].version \in Nat
  BY <1>3, OrderAssumption, NoOrderIsNone DEF TypeOK, OrderDocuments
<1>5. \A o \in Orders : /\ orders'[o].version >= orders[o].version
                        /\ orders[o] # NoOrder => orders'[o] # NoOrder
  <2>1. ASSUME UNCHANGED <<orders, view, events>>
        PROVE  \A o \in Orders : /\ orders'[o].version >= orders[o].version
                                 /\ orders[o] # NoOrder => orders'[o] # NoOrder
    BY <1>2, <2>1
  <2>2. ASSUME NEW p \in Orders, CreateOrder(p)
        PROVE  \A o \in Orders : /\ orders'[o].version >= orders[o].version
                                 /\ orders[o] # NoOrder => orders'[o] # NoOrder
    BY <1>2, <2>2, NoOrderIsNone DEF CreateOrder, Created, TypeOK
  <2>3. ASSUME NEW e \in Editors, Save(e)
        PROVE  \A o \in Orders : /\ orders'[o].version >= orders[o].version
                                 /\ orders[o] # NoOrder => orders'[o] # NoOrder
    <3>1. editing[e] \in Orders /\ orders' = [orders EXCEPT ![editing[e]] = Saved(e)]
      BY <2>3 DEF Save, TypeOK
    <3>2. Saved(e) \in OrderDocuments /\ Saved(e).version = copy[e].version
      BY SavedIsDocument DEF Saved
    <3>3. copy[e].version >= orders[editing[e]].version
      <4>1. /\ orders[editing[e]].version = copy[e].loaded
            /\ copy[e].version = copy[e].loaded + Len(copy[e].pending)
        BY <2>3 DEF Save, CopiesFollow
      <4>2. Len(copy[e].pending) \in Nat /\ copy[e].loaded \in Nat
        BY DEF TypeOK, Copies
      <4>3. QED
        BY <4>1, <4>2
    <3>4. QED
      BY <1>2, <3>1, <3>2, <3>3, NoOrderIsNone DEF TypeOK
  <2>4. ASSUME NEW r \in Requests, Commit(r)
        PROVE  \A o \in Orders : /\ orders'[o].version >= orders[o].version
                                 /\ orders[o] # NoOrder => orders'[o] # NoOrder
    <3>1. pc[r] = "commit" /\ orders' = [orders EXCEPT ![Target(r)] = Reserved(r)]
      BY <2>4 DEF Commit
    <3>2. /\ Target(r) \in Orders /\ Reserved(r) \in OrderDocuments
          /\ Reserved(r).version = orders[Target(r)].version + 1
      BY <3>1, ReservedIsDocument
    <3>3. QED
      BY <1>2, <3>1, <3>2, NoOrderIsNone DEF TypeOK
  <2>5. QED
    BY <2>1, <2>2, <2>3, <2>4, OrderSteps
<1>6. QED
  BY <1>1, <1>2, <1>4, <1>5

(* The document of an order that a transaction holds stays as it is until the
   transaction ends. *)
LEMMA WriterStep == TypeOK /\ WriterHolds /\ [Next]_vars => WriterHolds'
<1> SUFFICES ASSUME TypeOK, WriterHolds, [Next]_vars PROVE WriterHolds'
  OBVIOUS
<1> USE OrderAssumption DEF Matches, Target
<1>0. \A r \in Requests : cmd[r].order \in Orders
  BY DEF TypeOK
<1>1. ASSUME NEW o \in Orders, CreateOrder(o) PROVE WriterHolds'
  BY <1>0, <1>1, NoOrderIsNone DEF CreateOrder, WriterHolds, TypeOK, requestVars
<1>2. ASSUME NEW e \in Editors, Save(e) PROVE WriterHolds'
  BY <1>0, <1>2 DEF Save, WriterHolds, TypeOK, requestVars
<1>3. ASSUME UNCHANGED <<orders, writer, cmd, pc, snapshot>> PROVE WriterHolds'
  BY <1>3 DEF WriterHolds
<1>4. ASSUME NEW r \in Requests, Reserve(r) PROVE WriterHolds'
  BY <1>0, <1>4 DEF Reserve, Goto, WriterHolds, TypeOK, stored
<1>5. ASSUME NEW r \in Requests, ReserveMisses(r) PROVE WriterHolds'
  BY <1>0, <1>5 DEF ReserveMisses, Goto, WriterHolds, TypeOK, stored
<1>6. ASSUME NEW r \in Requests, Diagnose(r) PROVE WriterHolds'
  BY <1>0, <1>6 DEF Diagnose, Return, Goto, WriterHolds, TypeOK, stored
<1>7. ASSUME NEW r \in Requests, Commit(r) PROVE WriterHolds'
  <2>1. /\ pc[r] = "commit" /\ writer[Target(r)] = r
        /\ orders' = [orders EXCEPT ![Target(r)] = Reserved(r)]
        /\ writer' = [writer EXCEPT ![Target(r)] = NoSession]
        /\ pc' = [pc EXCEPT ![r] = "done"]
        /\ snapshot' = [snapshot EXCEPT ![r] = NoOrder]
        /\ cmd' = cmd
    BY <1>7 DEF Commit, Return, Goto, WriterHolds
  <2>2. \A q \in Requests : pc'[q] = "commit" => q # r /\ pc[q] = "commit" /\ Target(q) # Target(r)
    BY <2>1 DEF WriterHolds, TypeOK
  <2>3. QED
    BY <1>0, <2>1, <2>2 DEF WriterHolds, TypeOK
<1>8. ASSUME NEW r \in Requests, TransientError(r) \/ Fail(r) PROVE WriterHolds'
  <2>1. /\ writer' = [o \in Orders |-> IF writer[o] = r THEN NoSession ELSE writer[o]]
        /\ pc' = [pc EXCEPT ![r] = "reserve"] \/ pc' = [pc EXCEPT ![r] = "done"]
        /\ snapshot' = [snapshot EXCEPT ![r] = NoOrder]
        /\ orders' = orders /\ cmd' = cmd
    BY <1>8 DEF TransientError, Fail, Release, Return, Goto, stored
  <2>2. QED
    BY <1>0, <2>1 DEF WriterHolds, TypeOK
<1>9. QED
  BY <1>1, <1>2, <1>3, <1>4, <1>5, <1>6, <1>7, <1>8
  DEF Next, Load, EditItems, MoveToPricing, Move, TransitionTo, Discard, vars, stored, requestVars

(* An answer is the last thing of a request, and only a request that is done
   holds an order. *)
LEMMA AnsweredStep ==
  TypeOK /\ WriterHolds /\ AnsweredIsDone /\ [Next]_vars => AnsweredIsDone'
<1> SUFFICES ASSUME TypeOK, WriterHolds, AnsweredIsDone, [Next]_vars PROVE AnsweredIsDone'
  OBVIOUS
<1>0. \A r \in Requests : r # NoSession
  BY OrderAssumption
<1>1. ASSUME NEW o \in Orders, CreateOrder(o) PROVE AnsweredIsDone'
  BY <1>0, <1>1 DEF CreateOrder, Created, AnsweredIsDone, TypeOK, requestVars
<1>2. ASSUME NEW e \in Editors, Save(e) PROVE AnsweredIsDone'
  <2>1. /\ editing[e] \in Orders
        /\ orders' = [orders EXCEPT ![editing[e]] = Saved(e)]
        /\ UNCHANGED <<pc, result>>
    BY <1>2 DEF Save, TypeOK, requestVars
  <2>2. Saved(e).session = NoSession
    BY DEF Saved
  <2>3. QED
    BY <1>0, <2>1, <2>2 DEF AnsweredIsDone, TypeOK
<1>3. ASSUME UNCHANGED <<orders, pc, result>> PROVE AnsweredIsDone'
  BY <1>3 DEF AnsweredIsDone
<1>4. ASSUME NEW r \in Requests, pc[r] # "done", UNCHANGED <<orders, result>>,
             NEW to \in {"reserve", "diagnose", "commit"}, pc' = [pc EXCEPT ![r] = to]
      PROVE  AnsweredIsDone'
  BY <1>4 DEF AnsweredIsDone, TypeOK
<1>5. ASSUME NEW r \in Requests, NEW outcome, NEW current, Return(r, outcome, current),
             orders' = orders
      PROVE  AnsweredIsDone'
  BY <1>5 DEF Return, Goto, AnsweredIsDone, TypeOK
<1>6. ASSUME NEW r \in Requests, Reserve(r) \/ ReserveMisses(r) \/ TransientError(r)
      PROVE  AnsweredIsDone'
  BY <1>4, <1>6 DEF Reserve, ReserveMisses, TransientError, Goto, stored
<1>7. ASSUME NEW r \in Requests, Diagnose(r) \/ Fail(r) PROVE AnsweredIsDone'
  BY <1>5, <1>7 DEF Diagnose, Fail, stored
<1>8. ASSUME NEW r \in Requests, Commit(r) PROVE AnsweredIsDone'
  <2>1. /\ pc[r] = "commit"
        /\ orders' = [orders EXCEPT ![Target(r)] = Reserved(r)]
        /\ pc' = [pc EXCEPT ![r] = "done"]
        /\ \A q \in Requests \ {r} : result'[q] = result[q]
    BY <1>8 DEF Commit, Return, Goto, TypeOK
  <2>2. Target(r) \in Orders /\ Reserved(r).session = r
    BY <2>1, ReservedIsDocument
  <2>3. QED
    BY <2>1, <2>2 DEF AnsweredIsDone, TypeOK
<1>9. QED
  BY <1>1, <1>2, <1>3, <1>6, <1>7, <1>8
  DEF Next, Load, EditItems, MoveToPricing, Move, TransitionTo, Discard, vars, stored, requestVars

(* What a loser has seen does not change; it was a document of its order, which
   it did not hold. *)
LEMMA SeenStep ==
  TypeOK /\ AnsweredIsDone /\ SeenByLosers /\ [Next]_vars => SeenByLosers'
<1> SUFFICES ASSUME TypeOK, AnsweredIsDone, SeenByLosers, [Next]_vars PROVE SeenByLosers'
  OBVIOUS
<1>1. cmd' = cmd
  BY DEF Next, vars, requestVars, CreateOrder, Load, EditItems, MoveToPricing, Move, TransitionTo,
         Save, Discard, Reserve, ReserveMisses, Diagnose, Commit, TransientError, Fail
<1>2. \/ UNCHANGED <<pc, snapshot>>
      \/ \E r \in Requests : ReserveMisses(r)
      \/ \E r \in Requests : /\ \A q \in Requests : pc'[q] = "diagnose" => q # r /\ pc[q] = "diagnose"
                             /\ \A q \in Requests \ {r} : snapshot'[q] = snapshot[q]
  <2>1. ASSUME NEW r \in Requests,
               Reserve(r) \/ Diagnose(r) \/ Commit(r) \/ TransientError(r) \/ Fail(r)
        PROVE  /\ \A q \in Requests : pc'[q] = "diagnose" => q # r /\ pc[q] = "diagnose"
               /\ \A q \in Requests \ {r} : snapshot'[q] = snapshot[q]
    BY <2>1 DEF Reserve, Diagnose, Commit, TransientError, Fail, Return, Goto, TypeOK
  <2>2. QED
    BY <2>1 DEF Next, vars, requestVars, CreateOrder, Load, EditItems, MoveToPricing, Move,
                TransitionTo, Save, Discard
<1>3. ASSUME NEW r \in Requests, ReserveMisses(r) PROVE SeenByLosers'
  <2>1. /\ pc[r] = "reserve" /\ Target(r) \in Orders
        /\ ~Matches(r, orders[Target(r)])
        /\ snapshot' = [snapshot EXCEPT ![r] = orders[Target(r)]]
        /\ pc' = [pc EXCEPT ![r] = "diagnose"]
    BY <1>3 DEF ReserveMisses, Goto, Target, TypeOK
  <2>2. orders[Target(r)].session # r
    BY <2>1 DEF AnsweredIsDone
  <2>3. snapshot'[r] = orders[Target(r)] /\ \A q \in Requests \ {r} : snapshot'[q] = snapshot[q] /\ pc'[q] = pc[q]
    BY <2>1 DEF TypeOK
  <2>4. QED
    BY <1>1, <2>1, <2>2, <2>3 DEF SeenByLosers, Matches
<1>4. QED
  BY <1>1, <1>2, <1>3 DEF SeenByLosers, Matches

(* Only its own commit tells a request OK. *)
LEMMA OnlyCommitWins ==
  ASSUME TypeOK, [Next]_vars, NEW r \in Requests,
         result[r].outcome # "OK", result'[r].outcome = "OK"
  PROVE  Commit(r)
<1>1. result'[r] # result[r]
  OBVIOUS
<1>2. \A q \in Requests : Reason(q) # "OK"
  BY DEF Reason
<1>3. \A q \in Requests : Diagnose(q) \/ Fail(q) => result'[r] = result[r] \/ result'[r].outcome # "OK"
  BY <1>2 DEF Diagnose, Fail, Return, TypeOK
<1>4. \A q \in Requests : Commit(q) => q = r \/ result'[r] = result[r]
  BY DEF Commit, Return, TypeOK
<1>5. QED
  BY <1>1, <1>3, <1>4
  DEF Next, vars, requestVars, CreateOrder, Load, EditItems, MoveToPricing, Move, TransitionTo,
      Save, Discard, Reserve, ReserveMisses, TransientError

(* A request is told OK once its order is one version on. *)
LEMMA WonStep ==
  TypeOK /\ WriterHolds /\ CopiesFollow /\ WonVersionIsGone /\ [Next]_vars => WonVersionIsGone'
<1> SUFFICES ASSUME TypeOK, WriterHolds, CopiesFollow, WonVersionIsGone, [Next]_vars,
                    NEW r \in Requests, result'[r].outcome = "OK"
             PROVE  orders'[Target(r)].version > cmd[r].expectedVersion
  BY VersionsGrow DEF WonVersionIsGone, Target
<1>1. Target(r) \in Orders /\ cmd[r].expectedVersion \in Nat
  BY OrderAssumption DEF TypeOK, Target
<1>2. CASE result[r].outcome = "OK"
  BY <1>1, <1>2, VersionsGrow DEF WonVersionIsGone
<1>3. CASE result[r].outcome # "OK"
  <2>1. Commit(r)
    BY <1>3, OnlyCommitWins
  <2>2. pc[r] = "commit" /\ orders' = [orders EXCEPT ![Target(r)] = Reserved(r)]
    BY <2>1 DEF Commit
  <2>3. /\ orders'[Target(r)].version = orders[Target(r)].version + 1
        /\ orders[Target(r)].version = cmd[r].expectedVersion
    BY <1>1, <2>2, ReservedIsDocument DEF TypeOK
  <2>4. QED
    BY <1>1, <2>3
<1>4. QED
  BY <1>2, <1>3

(* So nobody else is told OK for that version. *)
LEMMA WinnerStep ==
  TypeOK /\ WriterHolds /\ WonVersionIsGone /\ OneWinnerPerVersion /\ [Next]_vars
    => OneWinnerPerVersion'
<1> SUFFICES ASSUME TypeOK, WriterHolds, WonVersionIsGone, OneWinnerPerVersion, [Next]_vars
             PROVE  OneWinnerPerVersion'
  OBVIOUS
<1>1. cmd' = cmd
  BY DEF Next, vars, requestVars, CreateOrder, Load, EditItems, MoveToPricing, Move, TransitionTo,
         Save, Discard, Reserve, ReserveMisses, Diagnose, Commit, TransientError, Fail
<1>2. ASSUME \A r \in Requests : result'[r].outcome = "OK" => result[r].outcome = "OK"
      PROVE  OneWinnerPerVersion'
  BY <1>1, <1>2 DEF OneWinnerPerVersion
<1>3. ASSUME NEW r \in Requests, Commit(r) PROVE OneWinnerPerVersion'
  <2>1. pc[r] = "commit" /\ \A q \in Requests \ {r} : result'[q] = result[q]
    BY <1>3 DEF Commit, Return, TypeOK
  <2>2. orders[Target(r)].version = cmd[r].expectedVersion /\ orders[Target(r)].version \in Nat
    BY <2>1, ReservedIsDocument
  <2>3. \A q \in Requests : cmd[q] = cmd[r] => result[q].outcome # "OK"
    BY <2>2 DEF WonVersionIsGone, Target
  <2>4. QED
    BY <1>1, <2>1, <2>3 DEF OneWinnerPerVersion
<1>4. ASSUME NEW r \in Requests, Diagnose(r) \/ Fail(r) PROVE OneWinnerPerVersion'
  <2>1. Reason(r) # "OK"
    BY DEF Reason
  <2>2. /\ result'[r].outcome # "OK"
        /\ \A q \in Requests \ {r} : result'[q] = result[q]
    BY <1>4, <2>1 DEF Diagnose, Fail, Return, TypeOK
  <2>3. QED
    BY <1>2, <2>2
<1>5. QED
  BY <1>2, <1>3, <1>4
  DEF Next, vars, requestVars, CreateOrder, Load, EditItems, MoveToPricing, Move, TransitionTo,
      Save, Discard, Reserve, ReserveMisses, TransientError

(* The steps that change a copy. *)
LEMMA CopySteps ==
  ASSUME [Next]_vars
  PROVE  \/ UNCHANGED <<editing, copy>>
         \/ \E e \in Editors : (\E o \in Orders : Load(e, o)) \/ EditItems(e) \/ Save(e) \/ Discard(e)
         \/ \E e \in Editors : MoveToPricing(e) \/ Move(e)
  BY DEF Next, vars, editorVars, CreateOrder, Reserve, ReserveMisses, Diagnose, Commit,
         TransientError, Fail

(* What each of them makes of the editor's copy. *)
LEMMA CopyEffects ==
  ASSUME TypeOK, NEW e \in Editors
  PROVE  /\ \A o \in Orders : Load(e, o) =>
              /\ copy'[e].loaded = orders[o].version /\ copy'[e].version = orders[o].version
              /\ copy'[e].status = orders[o].status /\ copy'[e].items = orders[o].items
              /\ copy'[e].pending = << >>
              /\ editing'[e] = o /\ orders[o] # NoOrder
         /\ EditItems(e) =>
              /\ copy[e].status = "DRAFT" /\ editing'[e] = editing[e]
              /\ copy'[e].loaded = copy[e].loaded /\ copy'[e].version = copy[e].version
              /\ copy'[e].status = copy[e].status /\ copy'[e].pending = copy[e].pending
         /\ Save(e) \/ Discard(e) => editing'[e] = NoCopy /\ copy'[e] = NotLoaded
         /\ (\E o \in Orders : Load(e, o)) \/ EditItems(e) \/ Save(e) \/ Discard(e) =>
              \A d \in Editors \ {e} : copy'[d] = copy[d] /\ editing'[d] = editing[d]
<1>1. copy \in [Editors -> Copies] /\ editing \in [Editors -> Orders \cup {NoCopy}]
  BY DEF TypeOK
<1>2. ASSUME NEW o \in Orders, Load(e, o)
      PROVE  /\ copy'[e].loaded = orders[o].version /\ copy'[e].version = orders[o].version
             /\ copy'[e].status = orders[o].status /\ copy'[e].items = orders[o].items
             /\ copy'[e].pending = << >>
             /\ editing'[e] = o /\ orders[o] # NoOrder
             /\ \A d \in Editors \ {e} : copy'[d] = copy[d] /\ editing'[d] = editing[d]
  BY <1>1, <1>2 DEF Load
<1>3. ASSUME EditItems(e)
      PROVE  /\ copy[e].status = "DRAFT" /\ editing' = editing
             /\ copy'[e].loaded = copy[e].loaded /\ copy'[e].version = copy[e].version
             /\ copy'[e].status = copy[e].status /\ copy'[e].pending = copy[e].pending
             /\ \A d \in Editors \ {e} : copy'[d] = copy[d]
  <2>1. PICK items : copy' = [copy EXCEPT ![e] = [copy[e] EXCEPT !.items = items]]
    <3>1. PICK i \in Items : \/ copy' = [copy EXCEPT ![e] = [copy[e] EXCEPT !.items = @ \cup {i}]]
                             \/ copy' = [copy EXCEPT ![e] = [copy[e] EXCEPT !.items = @ \ {i}]]
      BY <1>3 DEF EditItems
    <3>2. QED
      BY <3>1
  <2>2. copy'[e] = [copy[e] EXCEPT !.items = items] /\ \A d \in Editors \ {e} : copy'[d] = copy[d]
    BY <1>1, <2>1
  <2>3. copy[e] \in Copies
    BY <1>1
  <2>4. copy[e].status = "DRAFT" /\ editing' = editing
    BY <1>3 DEF EditItems
  <2>5. QED
    BY <2>2, <2>3, <2>4 DEF Copies
<1>4. ASSUME Save(e) \/ Discard(e)
      PROVE  /\ editing'[e] = NoCopy /\ copy'[e] = NotLoaded
             /\ \A d \in Editors \ {e} : copy'[d] = copy[d] /\ editing'[d] = editing[d]
  BY <1>1, <1>4 DEF Save, Discard, Drop
<1>5. QED
  BY <1>2, <1>3, <1>4

(* What a transition makes of it. *)
LEMMA MoveEffects ==
  ASSUME TypeOK, NEW e \in Editors, NEW to, TransitionTo(e, to)
  PROVE  /\ to \in Legal[copy[e].status] /\ to \in Statuses /\ copy[e].status \in Statuses
         /\ editing[e] # NoCopy /\ editing' = editing /\ orders' = orders /\ events' = events
         /\ copy'[e].loaded = copy[e].loaded /\ copy'[e].version = copy[e].version + 1
         /\ copy'[e].status = to /\ copy'[e].items = copy[e].items
         /\ copy'[e].pending = copy[e].pending \o <<[from |-> copy[e].status, to |-> to]>>
         /\ copy[e].pending \in Seq([from : Statuses, to : Statuses])
         /\ \A d \in Editors \ {e} : copy'[d] = copy[d]
<1>1. to \in Legal[copy[e].status] /\ copy[e].version < MaxVersion /\ editing[e] # NoCopy
      /\ editing' = editing /\ orders' = orders /\ events' = events
  BY DEF TransitionTo, stored
<1>2. copy[e] \in Copies
  BY DEF TypeOK
<1>3. copy' = [copy EXCEPT ![e] = [copy[e] EXCEPT !.status = to, !.version = @ + 1,
                                                  !.pending = @ \o Announced(e, to)]]
  BY DEF TransitionTo, TypeOK
<1>4. copy'[e] = [copy[e] EXCEPT !.status = to, !.version = @ + 1,
                                 !.pending = @ \o Announced(e, to)]
      /\ \A d \in Editors \ {e} : copy'[d] = copy[d]
  BY <1>3 DEF TypeOK
<1>5. to \in Statuses /\ copy[e].status \in Statuses
  BY <1>1, MovedIsCopy
<1>6. QED
  BY <1>1, <1>2, <1>4, <1>5 DEF Copies, Announced

-----------------------------------------------------------------------------

(* What the view shows is what the document says, write by write. *)
LEMMA ViewStep == TypeOK /\ WriterHolds /\ ViewInSync /\ [Next]_vars => ViewInSync'
<1> SUFFICES ASSUME TypeOK, WriterHolds, ViewInSync, [Next]_vars PROVE ViewInSync'
  OBVIOUS
<1>1. ASSUME NEW p \in Orders, NEW document, NEW shown,
             orders' = [orders EXCEPT ![p] = document], view' = [view EXCEPT ![p] = shown],
             shown.status = document.status, shown.itemCount = Cardinality(document.items)
      PROVE  ViewInSync'
  BY <1>1 DEF ViewInSync, TypeOK
<1>2. ASSUME NEW o \in Orders, CreateOrder(o) PROVE ViewInSync'
  BY <1>1, <1>2 DEF CreateOrder, Shown
<1>3. ASSUME NEW e \in Editors, Save(e) PROVE ViewInSync'
  <2>1. /\ editing[e] \in Orders
        /\ orders' = [orders EXCEPT ![editing[e]] = Saved(e)]
        /\ view' = [view EXCEPT ![editing[e]] = Shown(Saved(e))]
    BY <1>3 DEF Save, TypeOK
  <2>2. QED
    BY <1>1, <2>1 DEF Shown
<1>4. ASSUME NEW r \in Requests, Commit(r) PROVE ViewInSync'
  <2> DEFINE o == Target(r)
  <2>1. /\ pc[r] = "commit"
        /\ orders' = [orders EXCEPT ![o] = Reserved(r)]
        /\ view' = [view EXCEPT ![o] = Reshown(o, "CHECKOUT_PENDING")]
    BY <1>4 DEF Commit
  <2>2. o \in Orders /\ Reserved(r).status = "CHECKOUT_PENDING" /\ Reserved(r).items = orders[o].items
    BY <2>1, ReservedIsDocument
  <2>3. /\ Reshown(o, "CHECKOUT_PENDING").status = "CHECKOUT_PENDING"
        /\ Reshown(o, "CHECKOUT_PENDING").itemCount = view[o].itemCount
    BY <2>2 DEF Reshown, TypeOK
  <2>4. Reshown(o, "CHECKOUT_PENDING").itemCount = Cardinality(Reserved(r).items)
    BY <2>2, <2>3 DEF ViewInSync
  <2>5. QED
    BY <1>1, <2>1, <2>2, <2>3, <2>4
<1>5. QED
  BY <1>2, <1>3, <1>4, OrderSteps DEF ViewInSync

(* An editor's save goes on from the document as it is. *)
LEMMA SaveEffects ==
  ASSUME TypeOK, CopiesFollow, NEW e \in Editors, Save(e)
  PROVE  LET o == editing[e] IN
         /\ o \in Orders /\ orders[o] # NoOrder /\ orders[o].version \in Nat
         /\ orders' = [orders EXCEPT ![o] = Saved(e)]
         /\ events' = [events EXCEPT ![o] = @ \o copy[e].pending]
         /\ copy[e].pending \in Seq([from : Statuses, to : Statuses])
         /\ Saved(e).status = copy[e].status
         /\ Saved(e).version = orders[o].version + Len(copy[e].pending)
         /\ Leads(orders[o].status, copy[e].pending, copy[e].status)
         /\ Saved(e) # NoOrder
<1> DEFINE o == editing[e]
<1>1. /\ o \in Orders /\ o # NoCopy
      /\ orders' = [orders EXCEPT ![o] = Saved(e)]
      /\ events' = [events EXCEPT ![o] = @ \o copy[e].pending]
      /\ orders[o].version = copy[e].loaded
  BY DEF Save, TypeOK
<1>2. copy[e] \in Copies
  BY DEF TypeOK
<1>3. copy[e].pending \in Seq([from : Statuses, to : Statuses]) /\ copy[e].loaded \in Nat
  BY <1>2, OrderAssumption DEF Copies
<1>4. /\ orders[o] # NoOrder
      /\ copy[e].version = copy[e].loaded + Len(copy[e].pending)
      /\ Leads(orders[o].status, copy[e].pending, copy[e].status)
  BY <1>1 DEF CopiesFollow
<1>5. Saved(e).status = copy[e].status /\ Saved(e).version = copy[e].version /\ Saved(e) # NoOrder
  <2>1. Saved(e).status = copy[e].status /\ Saved(e).version = copy[e].version
    BY DEF Saved
  <2>2. QED
    BY <2>1, SavedIsDocument, NoOrderIsNone
<1>6. QED
  BY <1>1, <1>3, <1>4, <1>5

(* No order changes its status without a new version, or is given to a session. *)
LEMMA StatusIsVersioned ==
  ASSUME TypeOK, WriterHolds, CopiesFollow, [Next]_vars, NEW o \in Orders, orders[o] # NoOrder,
         orders'[o].version = orders[o].version
  PROVE  orders'[o].status = orders[o].status
         /\ orders'[o].session \in {orders[o].session, NoSession}
<1>1. ASSUME NEW p \in Orders, CreateOrder(p) PROVE orders'[o] = orders[o]
  BY <1>1 DEF CreateOrder, TypeOK
<1>2. ASSUME NEW e \in Editors, Save(e)
      PROVE  orders'[o].status = orders[o].status
             /\ orders'[o].session \in {orders[o].session, NoSession}
  <2>1. CASE editing[e] # o
    BY <1>2, <2>1, SaveEffects DEF TypeOK
  <2>2. CASE editing[e] = o
    <3>1. /\ orders' = [orders EXCEPT ![o] = Saved(e)]
          /\ orders[o].version \in Nat
          /\ copy[e].pending \in Seq([from : Statuses, to : Statuses])
          /\ Saved(e).status = copy[e].status
          /\ Saved(e).version = orders[o].version + Len(copy[e].pending)
          /\ Leads(orders[o].status, copy[e].pending, copy[e].status)
      BY <1>2, <2>2, SaveEffects
    <3>2. orders'[o] = Saved(e) /\ Saved(e).session = NoSession
      BY <3>1 DEF TypeOK, Saved
    <3>3. Len(copy[e].pending) \in Nat
      BY <3>1
    <3>4. Len(copy[e].pending) = 0
      BY <3>1, <3>2, <3>3
    <3>5. copy[e].status = orders[o].status
      BY <3>1, <3>4 DEF Leads
    <3>6. QED
      BY <3>1, <3>2, <3>5
  <2>3. QED
    BY <2>1, <2>2
<1>3. ASSUME NEW r \in Requests, Commit(r) PROVE orders'[o] = orders[o]
  <2>1. pc[r] = "commit" /\ orders' = [orders EXCEPT ![Target(r)] = Reserved(r)]
    BY <1>3 DEF Commit
  <2>2. Target(r) \in Orders /\ Reserved(r).version = orders[Target(r)].version + 1
        /\ orders[Target(r)].version \in Nat
    BY <2>1, ReservedIsDocument
  <2>3. o # Target(r)
    BY <2>1, <2>2 DEF TypeOK
  <2>4. QED
    BY <2>1, <2>3 DEF TypeOK
<1>4. QED
  BY <1>1, <1>2, <1>3, OrderSteps

(* Only a reservation gives an order to a session, and the version it makes of
   the order stays CHECKOUT_PENDING until the next one. *)
LEMMA HoldStep ==
  TypeOK /\ WriterHolds /\ AnsweredIsDone /\ WonVersionIsGone /\ CopiesFollow /\ HoldIsEarned
    /\ [Next]_vars
    => HoldIsEarned'
<1> SUFFICES ASSUME TypeOK, WriterHolds, AnsweredIsDone, WonVersionIsGone, CopiesFollow,
                    HoldIsEarned, [Next]_vars
             PROVE  HoldIsEarned'
  OBVIOUS
<1> DEFINE Held(o, r) ==
             /\ Target(r) = o
             /\ orders[o].status = "CHECKOUT_PENDING"
             /\ result[r].outcome \in {"OK", "ERROR"}
             /\ orders[o].version = cmd[r].expectedVersion + 1
           Kept(r) ==
             /\ orders[Target(r)].status = "CHECKOUT_PENDING"
             /\ orders[Target(r)].session \in {r, NoSession}
<1>1. cmd' = cmd /\ \A r \in Requests : r # NoSession /\ Target(r) \in Orders
  BY VersionsGrow, OrderAssumption DEF Target, TypeOK
<1>2. ASSUME NEW r \in Requests, result[r].outcome \in {"OK", "ERROR"} PROVE result'[r] = result[r]
  <2>1. pc[r] = "done"
    BY <1>2 DEF AnsweredIsDone, NoResult
  <2>2. \A q \in Requests : pc[q] # "done" => q # r
    BY <2>1
  <2>3. QED
    BY <2>2 DEF Next, vars, requestVars, CreateOrder, Load, EditItems, MoveToPricing, Move,
                TransitionTo, Save, Discard, Reserve, ReserveMisses, Diagnose, Commit,
                TransientError, Fail, Return, TypeOK
<1>3. ASSUME NEW r \in Requests, Commit(r)
      PROVE  /\ orders'[Target(r)] = Reserved(r)
             /\ Reserved(r).status = "CHECKOUT_PENDING" /\ Reserved(r).session = r
             /\ Reserved(r).version = cmd[r].expectedVersion + 1
             /\ result'[r].outcome \in {"OK", "ERROR"}
             /\ \A o \in Orders \ {Target(r)} : orders'[o] = orders[o]
  <2>1. /\ pc[r] = "commit"
        /\ orders' = [orders EXCEPT ![Target(r)] = Reserved(r)]
        /\ result'[r].outcome \in {"OK", "ERROR"}
    BY <1>3 DEF Commit, Return, TypeOK
  <2>2. /\ Reserved(r).status = "CHECKOUT_PENDING" /\ Reserved(r).session = r
        /\ Reserved(r).version = cmd[r].expectedVersion + 1
    BY <2>1, ReservedIsDocument
  <2>3. QED
    BY <1>1, <2>1, <2>2 DEF TypeOK
<1>4. ASSUME NEW o \in Orders, NEW r \in Requests, orders'[o].session = r PROVE Held(o, r)'
  <2>1. ASSUME orders'[o] = orders[o] PROVE Held(o, r)'
    <3>1. Held(o, r)
      BY <1>4, <2>1 DEF HoldIsEarned
    <3>2. QED
      BY <1>1, <1>2, <2>1, <3>1 DEF Target
  <2>2. ASSUME NEW p \in Orders, CreateOrder(p) PROVE Held(o, r)'
    <3>1. orders'[o] = Created \/ orders'[o] = orders[o]
      BY <2>2 DEF CreateOrder, TypeOK
    <3>2. Created.session = NoSession
      BY DEF Created
    <3>3. QED
      BY <1>1, <1>4, <2>1, <3>1, <3>2
  <2>3. ASSUME NEW e \in Editors, Save(e) PROVE Held(o, r)'
    <3>1. orders'[o] = Saved(e) \/ orders'[o] = orders[o]
      BY <2>3 DEF Save, TypeOK
    <3>2. Saved(e).session = NoSession
      BY DEF Saved
    <3>3. QED
      BY <1>1, <1>4, <2>1, <3>1, <3>2
  <2>4. ASSUME NEW q \in Requests, Commit(q) PROVE Held(o, r)'
    <3>1. CASE o = Target(q)
      <4>1. q = r
        BY <1>3, <1>4, <2>4, <3>1
      <4>2. QED
        BY <1>1, <1>3, <2>4, <3>1, <4>1 DEF Target
    <3>2. CASE o # Target(q)
      BY <1>3, <2>1, <2>4, <3>2
    <3>3. QED
      BY <3>1, <3>2
  <2>5. QED
    BY <2>1, <2>2, <2>3, <2>4, OrderSteps
<1>5. ASSUME NEW r \in Requests, result'[r].outcome = "OK",
             orders'[Target(r)].version = cmd[r].expectedVersion + 1
      PROVE  /\ orders'[Target(r)].status = "CHECKOUT_PENDING"
             /\ orders'[Target(r)].session \in {r, NoSession}
  <2> DEFINE o == Target(r)
  <2>1. CASE result[r].outcome = "OK"
    <3>1. cmd[r].expectedVersion \in Nat
      BY OrderAssumption DEF TypeOK
    <3>2. /\ orders[o].version \in Nat /\ orders[o].version > cmd[r].expectedVersion
          /\ orders'[o].version \in Nat /\ orders'[o].version >= orders[o].version
      BY <1>1, <2>1, VersionsGrow DEF WonVersionIsGone
    <3>3. orders[o].version = cmd[r].expectedVersion + 1 /\ orders'[o].version = orders[o].version
      BY <1>5, <3>1, <3>2
    <3>4. orders[o] # NoOrder
      BY <3>1, <3>2, NoOrderIsNone
    <3>5. Kept(r)
      BY <2>1, <3>3 DEF HoldIsEarned
    <3>6. QED
      BY <1>1, <3>3, <3>4, <3>5, StatusIsVersioned
  <2>2. CASE result[r].outcome # "OK"
    <3>1. Commit(r)
      BY <1>5, <2>2, OnlyCommitWins
    <3>2. QED
      BY <1>3, <3>1
  <2>3. QED
    BY <2>1, <2>2
<1>6. QED
  BY <1>1, <1>4, <1>5 DEF HoldIsEarned, Target

(* A copy goes on from its order, or is out of date. *)
LEMMA FollowStep == TypeOK /\ WriterHolds /\ CopiesFollow /\ [Next]_vars => CopiesFollow'
<1> SUFFICES ASSUME TypeOK, WriterHolds, CopiesFollow, [Next]_vars PROVE CopiesFollow'
  OBVIOUS
<1> DEFINE Follows(e) ==
      /\ orders[editing[e]] # NoOrder
      /\ copy[e].loaded <= orders[editing[e]].version
      /\ copy[e].version = copy[e].loaded + Len(copy[e].pending)
      /\ orders[editing[e]].version = copy[e].loaded =>
           Leads(orders[editing[e]].status, copy[e].pending, copy[e].status)
<1>1. \A e \in Editors : editing[e] # NoCopy => editing[e] \in Orders /\ Follows(e)
  BY DEF CopiesFollow, TypeOK
<1>2. \A e \in Editors : copy[e].loaded \in Nat /\ copy[e].version \in Nat
                         /\ copy[e].pending \in Seq([from : Statuses, to : Statuses])
  <2>1. \A e \in Editors : copy[e] \in Copies
    BY DEF TypeOK
  <2>2. \A c \in Copies : /\ c.loaded \in 0..MaxVersion /\ c.version \in 0..MaxVersion
                          /\ c.pending \in Seq([from : Statuses, to : Statuses])
    BY DEF Copies
  <2>3. \A n \in 0..MaxVersion : n \in Nat
    BY OrderAssumption
  <2>4. QED
    BY <2>1, <2>2, <2>3
<1>3. ASSUME NEW e \in Editors, editing'[e] = editing[e], editing[e] # NoCopy,
             copy'[e].loaded = copy[e].loaded, copy'[e].version = copy[e].version,
             copy'[e].status = copy[e].status, copy'[e].pending = copy[e].pending
      PROVE  Follows(e)'
  <2> DEFINE o == editing[e]
  <2>1. o \in Orders /\ Follows(e)
    BY <1>1, <1>3
  <2>2. /\ orders[o].version \in Nat /\ orders'[o].version \in Nat
        /\ orders'[o].version >= orders[o].version /\ orders'[o] # NoOrder
    BY <2>1, VersionsGrow
  <2>3. orders'[o].version = orders[o].version => orders'[o].status = orders[o].status
    BY <2>1, StatusIsVersioned
  <2>4. orders'[o].version = copy[e].loaded => orders'[o].version = orders[o].version
    BY <1>2, <2>1, <2>2
  <2>5. QED
    BY <1>2, <1>3, <2>1, <2>2, <2>3, <2>4
<1>4. ASSUME NEW e \in Editors,
             (\E o \in Orders : Load(e, o)) \/ EditItems(e) \/ Save(e) \/ Discard(e),
             editing'[e] # NoCopy
      PROVE  Follows(e)'
  <2>1. ASSUME NEW o \in Orders, Load(e, o) PROVE Follows(e)'
    <3>1. /\ copy'[e].loaded = orders[o].version /\ copy'[e].version = orders[o].version
          /\ copy'[e].status = orders[o].status /\ copy'[e].pending = << >>
          /\ editing'[e] = o /\ orders[o] # NoOrder
      BY <2>1, CopyEffects
    <3>2. orders' = orders
      BY <2>1 DEF Load, stored
    <3>3. orders[o].version \in Nat
      BY VersionsGrow
    <3>4. QED
      BY <3>1, <3>2, <3>3, LeadsNowhere
  <2>2. ASSUME EditItems(e) PROVE Follows(e)'
    <3>1. /\ editing'[e] = editing[e] /\ editing[e] # NoCopy
          /\ copy'[e].loaded = copy[e].loaded /\ copy'[e].version = copy[e].version
          /\ copy'[e].status = copy[e].status /\ copy'[e].pending = copy[e].pending
      BY <1>4, <2>2, CopyEffects
    <3>2. QED
      BY <1>3, <3>1
  <2>3. ~(Save(e) \/ Discard(e))
    BY <1>4, CopyEffects
  <2>4. QED
    BY <1>4, <2>1, <2>2, <2>3
<1>5. ASSUME NEW e \in Editors, NEW to, TransitionTo(e, to) PROVE Follows(e)'
  <2> DEFINE o == editing[e]
             once == <<[from |-> copy[e].status, to |-> to]>>
  <2>1. /\ to \in Legal[copy[e].status] /\ copy[e].status \in Statuses
        /\ editing[e] # NoCopy /\ editing' = editing /\ orders' = orders
        /\ copy'[e].loaded = copy[e].loaded /\ copy'[e].version = copy[e].version + 1
        /\ copy'[e].status = to /\ copy'[e].pending = copy[e].pending \o once
    BY <1>5, MoveEffects
  <2>2. Follows(e)
    BY <1>1, <2>1
  <2>3. /\ once \in Seq([from : Statuses, to : Statuses]) /\ Len(once) = 1
        /\ Leads(copy[e].status, once, to)
    BY <2>1, LeadsOnce
  <2>4. Len(copy[e].pending \o once) = Len(copy[e].pending) + 1
    BY <1>5, MovedIsCopy DEF TransitionTo, Announced
  <2> HIDE DEF once
  <2>5. orders[o].version = copy[e].loaded => Leads(orders[o].status, copy[e].pending \o once, to)
    BY <1>2, <2>2, <2>3, LeadsOn
  <2>6. Len(copy[e].pending) \in Nat
    BY <1>2
  <2>7. copy'[e].version = copy'[e].loaded + Len(copy'[e].pending)
    BY <1>2, <2>1, <2>2, <2>4, <2>6
  <2>8. QED
    BY <2>1, <2>2, <2>5, <2>7
<1>6. CASE UNCHANGED <<editing, copy>>
  BY <1>3, <1>6 DEF CopiesFollow
<1>7. ASSUME NEW e \in Editors,
             (\E o \in Orders : Load(e, o)) \/ EditItems(e) \/ Save(e) \/ Discard(e)
      PROVE  CopiesFollow'
  <2>1. \A d \in Editors \ {e} : copy'[d] = copy[d] /\ editing'[d] = editing[d]
    BY <1>7, CopyEffects
  <2>2. \A d \in Editors : editing'[d] # NoCopy => Follows(d)'
    BY <1>3, <1>4, <1>7, <2>1
  <2>3. QED
    BY <2>2 DEF CopiesFollow
<1>8. ASSUME NEW e \in Editors, MoveToPricing(e) \/ Move(e) PROVE CopiesFollow'
  <2>1. PICK to : TransitionTo(e, to)
    BY <1>8 DEF MoveToPricing, Move
  <2>2. editing' = editing /\ \A d \in Editors \ {e} : copy'[d] = copy[d]
    BY <2>1, MoveEffects
  <2>3. \A d \in Editors : editing'[d] # NoCopy => Follows(d)'
    BY <1>3, <1>5, <2>1, <2>2
  <2>4. QED
    BY <2>3 DEF CopiesFollow
<1>9. QED
  BY <1>6, <1>7, <1>8, CopySteps

(* Nothing is announced of an order that does not exist. *)
LEMMA SilenceStep ==
  TypeOK /\ WriterHolds /\ CopiesFollow /\ NothingBeforeCreation /\ [Next]_vars
    => NothingBeforeCreation'
<1> SUFFICES ASSUME TypeOK, WriterHolds, CopiesFollow, NothingBeforeCreation, [Next]_vars
             PROVE  NothingBeforeCreation'
  OBVIOUS
<1>1. ASSUME NEW p \in Orders, NEW document, document # NoOrder,
             orders' = [orders EXCEPT ![p] = document],
             \A o \in Orders \ {p} : events'[o] = events[o]
      PROVE  NothingBeforeCreation'
  BY <1>1 DEF NothingBeforeCreation, TypeOK
<1>2. ASSUME NEW o \in Orders, CreateOrder(o) PROVE NothingBeforeCreation'
  BY <1>1, <1>2, CreatedIsDocument, NoOrderIsNone DEF CreateOrder
<1>3. ASSUME NEW e \in Editors, Save(e) PROVE NothingBeforeCreation'
  <2>1. /\ editing[e] \in Orders /\ Saved(e) # NoOrder
        /\ orders' = [orders EXCEPT ![editing[e]] = Saved(e)]
        /\ events' = [events EXCEPT ![editing[e]] = @ \o copy[e].pending]
    BY <1>3, SaveEffects
  <2>2. \A o \in Orders \ {editing[e]} : events'[o] = events[o]
    BY <2>1 DEF TypeOK
  <2>3. QED
    BY <1>1, <2>1, <2>2
<1>4. ASSUME NEW r \in Requests, Commit(r) PROVE NothingBeforeCreation'
  <2>1. /\ pc[r] = "commit"
        /\ orders' = [orders EXCEPT ![Target(r)] = Reserved(r)]
        /\ \A o \in Orders \ {Target(r)} : events'[o] = events[o]
    BY <1>4 DEF Commit, TypeOK
  <2>2. Target(r) \in Orders /\ Reserved(r) # NoOrder
    BY <2>1, ReservedIsDocument, NoOrderIsNone
  <2>3. QED
    BY <1>1, <2>1, <2>2
<1>5. QED
  BY <1>2, <1>3, <1>4, OrderSteps DEF NothingBeforeCreation

(* Every write appends to the events of the order what it does to its status. *)
LEMMA EventsStep ==
  TypeOK /\ WriterHolds /\ CopiesFollow /\ NothingBeforeCreation /\ EventsTellTheHistory
    /\ [Next]_vars
    => EventsTellTheHistory'
<1> SUFFICES ASSUME TypeOK, WriterHolds, CopiesFollow, NothingBeforeCreation,
                    EventsTellTheHistory, [Next]_vars
             PROVE  EventsTellTheHistory'
  OBVIOUS
<1>1. ASSUME NEW p \in Orders, NEW document,
             NEW story \in Seq([from : Statuses, to : Statuses]),
             orders[p] # NoOrder,
             orders' = [orders EXCEPT ![p] = document],
             events' = [events EXCEPT ![p] = @ \o story],
             document.version = orders[p].version + Len(story),
             Leads(orders[p].status, story, document.status)
      PROVE  EventsTellTheHistory'
  <2>1. events[p] \in Seq([from : Statuses, to : Statuses])
    BY DEF TypeOK
  <2>2. Len(events[p]) = orders[p].version /\ Leads("DRAFT", events[p], orders[p].status)
    BY <1>1 DEF EventsTellTheHistory
  <2>3. /\ Len(events[p] \o story) = Len(events[p]) + Len(story)
        /\ Leads("DRAFT", events[p] \o story, document.status)
    <3> DEFINE before == events[p]  now == orders[p].status  next == document.status  start == "DRAFT"
    <3>1. /\ before \in Seq([from : Statuses, to : Statuses])
          /\ story \in Seq([from : Statuses, to : Statuses])
          /\ Leads(start, before, now) /\ Leads(now, story, next)
      BY <1>1, <2>1, <2>2
    <3> HIDE DEF before, now, next, start
    <3>2. Leads(start, before \o story, next)
      BY <3>1, LeadsOn
    <3>3. Len(before \o story) = Len(before) + Len(story)
      BY <3>1, ConcatProperties
    <3>4. QED
      BY <3>2, <3>3 DEF before, now, next, start
  <2>4. events'[p] = events[p] \o story /\ orders'[p] = document
        /\ \A o \in Orders \ {p} : events'[o] = events[o] /\ orders'[o] = orders[o]
    BY <1>1 DEF TypeOK
  <2>5. QED
    BY <1>1, <2>2, <2>3, <2>4 DEF EventsTellTheHistory
<1>2. ASSUME NEW p \in Orders, CreateOrder(p) PROVE EventsTellTheHistory'
  <2>1. /\ orders[p] = NoOrder /\ orders' = [orders EXCEPT ![p] = Created] /\ events' = events
    BY <1>2 DEF CreateOrder
  <2>2. events'[p] = << >>
    BY <2>1 DEF NothingBeforeCreation
  <2>3. orders'[p] = Created /\ \A o \in Orders \ {p} : orders'[o] = orders[o]
    BY <2>1 DEF TypeOK
  <2>4. Len(events'[p]) = Created.version /\ Leads("DRAFT", events'[p], Created.status)
    BY <2>2, LeadsNowhere DEF Created
  <2>5. QED
    BY <2>1, <2>3, <2>4 DEF EventsTellTheHistory
<1>3. ASSUME NEW e \in Editors, Save(e) PROVE EventsTellTheHistory'
  <2> DEFINE o == editing[e]
  <2>1. /\ o \in Orders /\ orders[o] # NoOrder
        /\ orders' = [orders EXCEPT ![o] = Saved(e)]
        /\ events' = [events EXCEPT ![o] = @ \o copy[e].pending]
        /\ copy[e].pending \in Seq([from : Statuses, to : Statuses])
        /\ Saved(e).status = copy[e].status
        /\ Saved(e).version = orders[o].version + Len(copy[e].pending)
        /\ Leads(orders[o].status, copy[e].pending, copy[e].status)
    BY <1>3, SaveEffects
  <2> HIDE DEF o
  <2>2. QED
    BY <1>1, <2>1
<1>4. ASSUME NEW r \in Requests, Commit(r) PROVE EventsTellTheHistory'
  <2> DEFINE o == Target(r)
             once == <<[from |-> "READY_FOR_CHECKOUT", to |-> "CHECKOUT_PENDING"]>>
  <2>1. /\ pc[r] = "commit"
        /\ orders' = [orders EXCEPT ![o] = Reserved(r)]
        /\ events' = [events EXCEPT ![o] =
             Append(@, [from |-> "READY_FOR_CHECKOUT", to |-> "CHECKOUT_PENDING"])]
    BY <1>4 DEF Commit
  <2>2. /\ o \in Orders /\ orders[o] \in OrderDocuments
        /\ Reserved(r).status = "CHECKOUT_PENDING"
        /\ Reserved(r).version = orders[o].version + 1
        /\ orders[o].status = "READY_FOR_CHECKOUT"
    BY <2>1, ReservedIsDocument
  <2>3. /\ once \in Seq([from : Statuses, to : Statuses]) /\ Len(once) = 1
        /\ Leads("READY_FOR_CHECKOUT", once, "CHECKOUT_PENDING")
    <3>1. "READY_FOR_CHECKOUT" \in Statuses
      BY DEF Statuses
    <3>2. QED
      BY <3>1, LegalTargets, LeadsOnce
  <2>4. Append(events[o], [from |-> "READY_FOR_CHECKOUT", to |-> "CHECKOUT_PENDING"])
          = events[o] \o once
    <3>1. events[o] \in Seq([from : Statuses, to : Statuses])
      BY <2>2 DEF TypeOK
    <3>2. [from |-> "READY_FOR_CHECKOUT", to |-> "CHECKOUT_PENDING"] \in [from : Statuses, to : Statuses]
      BY DEF Statuses
    <3>3. QED
      BY <3>1, <3>2, AppendIsConcat
  <2>5. events' = [events EXCEPT ![o] = @ \o once]
    BY <2>1, <2>4
  <2>6. orders[o] # NoOrder
    BY <2>2, NoOrderIsNone
  <2> HIDE DEF once, o
  <2>7. QED
    BY <1>1, <2>1, <2>2, <2>3, <2>5, <2>6
<1>5. ASSUME UNCHANGED <<orders, view, events>> PROVE EventsTellTheHistory'
  BY <1>5 DEF EventsTellTheHistory
<1>6. QED
  BY <1>2, <1>3, <1>4, <1>5, OrderSteps

(* The reason given to a loser is that of the document its filter missed. *)
LEMMA ReasonStep == TypeOK /\ SeenByLosers /\ AccurateReason /\ [Next]_vars => AccurateReason'
<1> SUFFICES ASSUME TypeOK, SeenByLosers, AccurateReason, [Next]_vars PROVE AccurateReason'
  OBVIOUS
<1>1. cmd' = cmd
  BY DEF Next, vars, requestVars, CreateOrder, Load, EditItems, MoveToPricing, Move, TransitionTo,
         Save, Discard, Reserve, ReserveMisses, Diagnose, Commit, TransientError, Fail
<1>2. ASSUME NEW r \in Requests, NEW outcome, NEW current,
             result' = [result EXCEPT ![r] = [outcome |-> outcome, current |-> current]],
             outcome = "INVALID_STATE" => current.status \in {"DRAFT", "PRICING", "CANCELLED"},
             outcome = "VERSION_CONFLICT" => current.version # cmd[r].expectedVersion,
             outcome = "ALREADY_RESERVED" => current.session # r
      PROVE  AccurateReason'
  BY <1>1, <1>2 DEF AccurateReason, TypeOK
<1>3. ASSUME NEW r \in Requests, Diagnose(r) PROVE AccurateReason'
  <2>1. pc[r] = "diagnose" /\ ~Matches(r, snapshot[r]) /\ snapshot[r].session # r
    BY <1>3 DEF Diagnose, SeenByLosers
  <2>2. snapshot[r] = NoOrder \/ snapshot[r].status \in Statuses
    BY DEF TypeOK, OrderDocuments
  <2>3. /\ Reason(r) = "INVALID_STATE" => snapshot[r].status \in {"DRAFT", "PRICING", "CANCELLED"}
        /\ Reason(r) = "VERSION_CONFLICT" => snapshot[r].version # cmd[r].expectedVersion
    <3>1. CASE snapshot[r] = NoOrder
      BY <3>1 DEF Reason, Seen
    <3>2. CASE snapshot[r] # NoOrder /\ snapshot[r].status = "CHECKOUT_PENDING"
      BY <3>2 DEF Reason, Seen
    <3>3. CASE snapshot[r] # NoOrder /\ snapshot[r].status \in PaidStatuses
      <4>1. Reason(r) = "ALREADY_PAID"
        BY <3>3 DEF Reason, Seen, PaidStatuses
      <4>2. QED
        BY <4>1
    <3>4. CASE /\ snapshot[r] # NoOrder
               /\ snapshot[r].status \notin PaidStatuses \cup {"CHECKOUT_PENDING"}
      <4>1. Reason(r) = IF snapshot[r].version # cmd[r].expectedVersion
                        THEN "VERSION_CONFLICT" ELSE "INVALID_STATE"
        BY <3>4 DEF Reason, Seen
      <4>2. snapshot[r].status \in {"DRAFT", "PRICING", "READY_FOR_CHECKOUT", "CANCELLED"}
        BY <2>2, <3>4 DEF Statuses, PaidStatuses
      <4>3. QED
        BY <2>1, <4>1, <4>2 DEF Matches
    <3>5. QED
      BY <3>1, <3>2, <3>3, <3>4
  <2>4. result' = [result EXCEPT ![r] = [outcome |-> Reason(r), current |-> snapshot[r]]]
    BY <1>3 DEF Diagnose, Return, Seen
  <2>5. QED
    BY <1>2, <2>1, <2>3, <2>4
<1>4. ASSUME NEW r \in Requests, Commit(r) \/ Fail(r) PROVE AccurateReason'
  <2>1. \E outcome \in {"OK", "ERROR"} : \E current :
          result' = [result EXCEPT ![r] = [outcome |-> outcome, current |-> current]]
    BY <1>4 DEF Commit, Fail, Return
  <2>2. QED
    BY <1>2, <2>1
<1>5. ASSUME result' = result PROVE AccurateReason'
  BY <1>1, <1>5 DEF AccurateReason
<1>6. QED
  BY <1>3, <1>4, <1>5
  DEF Next, vars, requestVars, CreateOrder, Load, EditItems, MoveToPricing, Move, TransitionTo,
      Save, Discard, Reserve, ReserveMisses, TransientError

-----------------------------------------------------------------------------

(* The strengthened invariant holds in every reachable state. *)
THEOREM Invariance == Spec => []IInv
<1>1. Init => IInv
  BY InitIsSound
<1>2. IInv /\ [Next]_vars => IInv'
  BY TypeStep, WriterStep, AnsweredStep, SeenStep, WonStep, FollowStep, SilenceStep,
     WinnerStep, HoldStep, ViewStep, EventsStep, ReasonStep DEF IInv
<1>3. QED
  BY <1>1, <1>2, PTL DEF Spec

(* Every variable holds a value of its type. *)
THEOREM TypeCorrect == Spec => []TypeOK
  BY Invariance, PTL DEF IInv

(* ReserveForCheckoutUseCase: one winner per version of an order, however many
   requests race, retry and fail. *)
THEOREM OneReservationWins == Spec => []OneWinnerPerVersion
  BY Invariance, PTL DEF IInv

(* ReserveForCheckoutUseCase alone gives an order to a session, that of a request
   that has won it, and what a winner made of the order is nobody else's. *)
THEOREM HoldsAreEarned == Spec => []HoldIsEarned
  BY Invariance, PTL DEF IInv

(* The search view shows status and item count of every order at every commit. *)
THEOREM SearchIsNeverStale == Spec => []ViewInSync
  BY Invariance, PTL DEF IInv

(* The outbox tells the whole history of every order. *)
THEOREM EventsAreComplete == Spec => []EventsTellTheHistory
  BY Invariance, PTL DEF IInv

(* Every refusal names the reason. *)
THEOREM RefusalsAreAccurate == Spec => []AccurateReason
  BY Invariance, PTL DEF IInv

=============================================================================
