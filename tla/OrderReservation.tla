--------------------------- MODULE OrderReservation ---------------------------
(***************************************************************************)
(* order-service: CreateOrderUseCase, ReserveForCheckoutUseCase and the    *)
(* Order aggregate, over the orders collection, the order_search_view and  *)
(* the outbox.                                                             *)
(*                                                                         *)
(* A reservation runs in a withOutbox transaction with snapshot reads: its *)
(* first operation takes the snapshot, findOneAndUpdate holds the document *)
(* until commit or abort, and a transient error runs the whole callback    *)
(* again.                                                                  *)
(*                                                                         *)
(* An editor is a caller of the aggregate: it loads an order, calls any of *)
(* the public methods of its copy and saves it.  The methods are in the    *)
(* repository, a caller that saves is not: Save writes what                *)
(* toOrderDocument and toSearchViewDocument make of the copy, changed or   *)
(* not, with the events it pulls, in one transaction, if the document      *)
(* still has the version that was loaded.  That comparison is what         *)
(* docs/DATA-INTEGRITY.md section 6 prescribes for every write.            *)
(*                                                                         *)
(* A request's checkoutSessionId is the request itself.  An order stands   *)
(* for an {_id, tenantId} pair.  Left out: the name and the expiry of the  *)
(* hold, which is stored and read by nothing.                              *)
(*                                                                         *)
(* A definition named Faulty_... is a bug the properties must notice: it   *)
(* takes no part in the specification.                                     *)
(***************************************************************************)
EXTENDS Naturals, Sequences, FiniteSets

CONSTANTS
  Orders,
  Items,       \* what addItem may add to an order
  Requests,    \* calls of ReserveForCheckoutUseCase.execute
  Editors,     \* callers that load, change and save an order
  NoSession,   \* checkout: null
  NoCopy,      \* an editor that has loaded nothing
  MaxVersion   \* bound: versions an order goes through

ASSUME OrderAssumption ==
  /\ IsFiniteSet(Items)
  /\ NoSession \notin Requests
  /\ \A o \in Orders : NoCopy # o
  /\ MaxVersion \in Nat

VARIABLES
  cmd,       \* the order and the expectedVersion of each request
  orders,    \* the committed documents
  view,      \* order_search_view
  events,    \* order.status_changed events committed, by order
  writer,    \* the transaction that holds an order's document
  pc,        \* where a request's transaction stands
  snapshot,  \* the order as the transaction sees it
  result,    \* what execute resolved to
  editing,   \* the order an editor works on
  copy       \* its aggregate: version when loaded, properties, pendingEvents

stored == <<orders, view, events>>
requestVars == <<cmd, pc, snapshot, result>>
editorVars == <<editing, copy>>
vars == <<stored, writer, requestVars, editorVars>>

Statuses ==
  {"DRAFT", "PRICING", "READY_FOR_CHECKOUT", "CHECKOUT_PENDING",
   "PAID_AWAITING_PRODUCTION", "PRODUCTION_REJECTED", "IN_PRODUCTION",
   "QA_REVIEW", "DELIVERED", "CANCELLED", "REFUNDED"}

Legal ==
  [DRAFT                    |-> {"PRICING", "CANCELLED"},
   PRICING                  |-> {"READY_FOR_CHECKOUT", "DRAFT"},
   READY_FOR_CHECKOUT       |-> {"CHECKOUT_PENDING", "PRICING", "DRAFT", "CANCELLED"},
   CHECKOUT_PENDING         |-> {"READY_FOR_CHECKOUT", "PAID_AWAITING_PRODUCTION"},
   PAID_AWAITING_PRODUCTION |-> {"IN_PRODUCTION", "PRODUCTION_REJECTED"},
   PRODUCTION_REJECTED      |-> {"REFUNDED", "IN_PRODUCTION"},
   IN_PRODUCTION            |-> {"QA_REVIEW"},
   QA_REVIEW                |-> {"DELIVERED", "IN_PRODUCTION"},
   DELIVERED                |-> {},
   CANCELLED                |-> {},
   REFUNDED                 |-> {}]

PaidStatuses ==
  {"PAID_AWAITING_PRODUCTION", "PRODUCTION_REJECTED", "IN_PRODUCTION",
   "QA_REVIEW", "DELIVERED", "REFUNDED"}

NoOrder == [status |-> "ABSENT", version |-> 0, items |-> {}, session |-> NoSession]

OrderDocuments ==
  [status : Statuses, version : 0..MaxVersion, items : SUBSET Items,
   session : Requests \cup {NoSession}]

Copies ==
  [loaded : 0..MaxVersion, status : Statuses, version : 0..MaxVersion, items : SUBSET Items,
   pending : Seq([from : Statuses, to : Statuses])]

NotLoaded == [loaded |-> 0, status |-> "DRAFT", version |-> 0, items |-> {}, pending |-> << >>]

(* outcome, and the order as the answer describes it. *)
NoResult == [outcome |-> "NONE", current |-> NoOrder]

Outcomes == {"OK", "NOT_FOUND", "ALREADY_RESERVED", "ALREADY_PAID", "VERSION_CONFLICT",
             "INVALID_STATE", "ERROR"}

Target(r) == cmd[r].order

-----------------------------------------------------------------------------

Init ==
  /\ cmd \in [Requests -> [order : Orders, expectedVersion : 0..MaxVersion]]
  /\ orders = [o \in Orders |-> NoOrder]
  /\ view = [o \in Orders |-> [status |-> "ABSENT", itemCount |-> 0]]
  /\ events = [o \in Orders |-> << >>]
  /\ writer = [o \in Orders |-> NoSession]
  /\ pc = [r \in Requests |-> "reserve"]
  /\ snapshot = [r \in Requests |-> NoOrder]
  /\ result = [r \in Requests |-> NoResult]
  /\ editing = [e \in Editors |-> NoCopy]
  /\ copy = [e \in Editors |-> NotLoaded]

Created == [status |-> "DRAFT", version |-> 0, items |-> {}, session |-> NoSession]

(* toSearchViewDocument. *)
Shown(document) == [status |-> document.status, itemCount |-> Cardinality(document.items)]

CreateOrder(o) ==
  /\ orders[o] = NoOrder
  /\ orders' = [orders EXCEPT ![o] = Created]
  /\ view' = [view EXCEPT ![o] = Shown(Created)]
  /\ UNCHANGED <<events, writer, requestVars, editorVars>>

-----------------------------------------------------------------------------
(* The Order aggregate in the hands of an editor.                            *)

(* findById and toDomainOrder. *)
Load(e, o) ==
  /\ editing[e] = NoCopy
  /\ orders[o] # NoOrder
  /\ editing' = [editing EXCEPT ![e] = o]
  /\ copy' = [copy EXCEPT ![e] =
       [loaded |-> orders[o].version, status |-> orders[o].status,
        version |-> orders[o].version, items |-> orders[o].items, pending |-> << >>]]
  /\ UNCHANGED <<stored, writer, requestVars>>

(* addItem and removeItem throw OrderNotEditableError outside DRAFT.  They do
   not touch the version. *)
EditItems(e) ==
  /\ editing[e] # NoCopy
  /\ copy[e].status = "DRAFT"
  /\ \E i \in Items :
       \/ copy' = [copy EXCEPT ![e].items = @ \cup {i}]
       \/ copy' = [copy EXCEPT ![e].items = @ \ {i}]
  /\ UNCHANGED <<stored, writer, requestVars, editing>>

Faulty_Announced(e, to) == << >>   \* the event is forgotten

Announced(e, to) == <<[from |-> copy[e].status, to |-> to]>>

(* transitionTo, unless it throws IllegalTransitionError. *)
TransitionTo(e, to) ==
  /\ editing[e] # NoCopy
  /\ to \in Legal[copy[e].status]
  /\ copy[e].version < MaxVersion
  /\ copy' = [copy EXCEPT ![e].status = to, ![e].version = @ + 1,
                          ![e].pending = @ \o Announced(e, to)]
  /\ UNCHANGED <<stored, writer, requestVars, editing>>

(* Or it throws EmptyOrderError. *)
MoveToPricing(e) == copy[e].items # {} /\ TransitionTo(e, "PRICING")

(* markReadyForCheckout, and transitionTo itself, which is public. *)
Move(e) == \E to \in Statuses : TransitionTo(e, to)

(* toOrderDocument: checkout is always null. *)
Saved(e) ==
  [status |-> copy[e].status, version |-> copy[e].version, items |-> copy[e].items,
   session |-> NoSession]

Drop(e) ==
  /\ editing' = [editing EXCEPT ![e] = NoCopy]
  /\ copy' = [copy EXCEPT ![e] = NotLoaded]

Save(e) ==
  LET o == editing[e] IN
  /\ o # NoCopy
  /\ orders[o].version = copy[e].loaded
  /\ writer[o] = NoSession
  /\ orders' = [orders EXCEPT ![o] = Saved(e)]
  /\ view' = [view EXCEPT ![o] = Shown(Saved(e))]
  /\ events' = [events EXCEPT ![o] = @ \o copy[e].pending]
  /\ Drop(e)
  /\ UNCHANGED <<writer, requestVars>>

(* The save loses the race for the version, or the caller dies. *)
Discard(e) ==
  /\ editing[e] # NoCopy
  /\ Drop(e)
  /\ UNCHANGED <<stored, writer, requestVars>>

-----------------------------------------------------------------------------
(* ReserveForCheckoutUseCase.                                                *)

Goto(r, label) == pc' = [pc EXCEPT ![r] = label]

Return(r, outcome, current) ==
  /\ Goto(r, "done")
  /\ snapshot' = [snapshot EXCEPT ![r] = NoOrder]
  /\ result' = [result EXCEPT ![r] = [outcome |-> outcome, current |-> current]]

Faulty_Matches(r, document) ==   \* the version is not in the filter
  document.status = "READY_FOR_CHECKOUT"

(* The filter of findOneAndUpdate. *)
Matches(r, document) ==
  /\ document.status = "READY_FOR_CHECKOUT"
  /\ document.version = cmd[r].expectedVersion

(* The bound on versions leaves room for the increment. *)
Reserve(r) ==
  /\ pc[r] = "reserve"
  /\ Matches(r, orders[Target(r)])
  /\ orders[Target(r)].version < MaxVersion
  /\ writer[Target(r)] = NoSession   \* else a write conflict, and the callback runs again
  /\ writer' = [writer EXCEPT ![Target(r)] = r]
  /\ snapshot' = [snapshot EXCEPT ![r] = orders[Target(r)]]
  /\ Goto(r, "commit")
  /\ UNCHANGED <<cmd, stored, result, editorVars>>

ReserveMisses(r) ==
  /\ pc[r] = "reserve"
  /\ ~Matches(r, orders[Target(r)])
  /\ snapshot' = [snapshot EXCEPT ![r] = orders[Target(r)]]
  /\ Goto(r, "diagnose")
  /\ UNCHANGED <<cmd, stored, writer, result, editorVars>>

Faulty_Seen(r) == orders[Target(r)]   \* findOne without the session: the latest document

(* findOne in the same transaction: the snapshot the filter was matched with. *)
Seen(r) == snapshot[r]

Faulty_Reason(r) == Seen(r).status   \* the status where the outcome belongs

Reason(r) ==
  CASE Seen(r) = NoOrder                   -> "NOT_FOUND"
    [] Seen(r).status = "CHECKOUT_PENDING" -> "ALREADY_RESERVED"
    [] Seen(r).status \in PaidStatuses     -> "ALREADY_PAID"
    [] OTHER -> IF Seen(r).version # cmd[r].expectedVersion
                THEN "VERSION_CONFLICT" ELSE "INVALID_STATE"

Diagnose(r) ==
  /\ pc[r] = "diagnose"
  /\ Return(r, Reason(r), Seen(r))
  /\ UNCHANGED <<cmd, stored, writer, editorVars>>

Faulty_Reserved(r) ==   \* the version stays
  [snapshot[r] EXCEPT !.status = "CHECKOUT_PENDING", !.session = r]

Reserved(r) ==
  [snapshot[r] EXCEPT !.status = "CHECKOUT_PENDING", !.version = @ + 1, !.session = r]

Faulty_Reshown(o, status) == view[o]   \* the view is updated outside the transaction

Reshown(o, status) == [view[o] EXCEPT !.status = status]

(* A process that dies after the commit answers nobody. *)
Commit(r) ==
  /\ pc[r] = "commit"
  /\ orders' = [orders EXCEPT ![Target(r)] = Reserved(r)]
  /\ view' = [view EXCEPT ![Target(r)] = Reshown(Target(r), "CHECKOUT_PENDING")]
  /\ events' = [events EXCEPT ![Target(r)] =
       Append(@, [from |-> "READY_FOR_CHECKOUT", to |-> "CHECKOUT_PENDING"])]
  /\ writer' = [writer EXCEPT ![Target(r)] = NoSession]
  /\ \/ Return(r, "OK", Reserved(r))
     \/ Return(r, "ERROR", NoOrder)
  /\ UNCHANGED <<cmd, editorVars>>

Release(r) == writer' = [o \in Orders |-> IF writer[o] = r THEN NoSession ELSE writer[o]]

(* withTransaction aborts and calls the callback again. *)
TransientError(r) ==
  /\ pc[r] \in {"diagnose", "commit"}
  /\ Goto(r, "reserve")
  /\ snapshot' = [snapshot EXCEPT ![r] = NoOrder]
  /\ Release(r)
  /\ UNCHANGED <<cmd, stored, result, editorVars>>

(* The process dies or an operation throws: the transaction aborts. *)
Fail(r) ==
  /\ pc[r] # "done"
  /\ Return(r, "ERROR", NoOrder)
  /\ Release(r)
  /\ UNCHANGED <<cmd, stored, editorVars>>

-----------------------------------------------------------------------------

Next ==
  \/ \E o \in Orders : CreateOrder(o) \/ \E e \in Editors : Load(e, o)
  \/ \E e \in Editors : EditItems(e) \/ MoveToPricing(e) \/ Move(e) \/ Save(e) \/ Discard(e)
  \/ \E r \in Requests :
       \/ Reserve(r) \/ ReserveMisses(r) \/ Diagnose(r) \/ Commit(r)
       \/ TransientError(r) \/ Fail(r)

Spec == Init /\ [][Next]_vars

-----------------------------------------------------------------------------
(* Properties.                                                               *)

(* Every variable holds a value of its type. *)
TypeOK ==
  /\ cmd \in [Requests -> [order : Orders, expectedVersion : 0..MaxVersion]]
  /\ orders \in [Orders -> OrderDocuments \cup {NoOrder}]
  /\ view \in [Orders -> [status : Statuses \cup {"ABSENT"}, itemCount : Nat]]
  /\ events \in [Orders -> Seq([from : Statuses, to : Statuses])]
  /\ writer \in [Orders -> Requests \cup {NoSession}]
  /\ pc \in [Requests -> {"reserve", "diagnose", "commit", "done"}]
  /\ snapshot \in [Requests -> OrderDocuments \cup {NoOrder}]
  /\ result \in [Requests -> {NoResult} \cup
       [outcome : Outcomes, current : OrderDocuments \cup {NoOrder}]]
  /\ editing \in [Editors -> Orders \cup {NoCopy}]
  /\ copy \in [Editors -> Copies]

(* "Exactly one caller can match this filter": of the requests that expect one
   version of an order at most one is told OK, through retries and releases. *)
OneWinnerPerVersion ==
  \A q, r \in Requests :
    /\ result[q].outcome = "OK"
    /\ result[r].outcome = "OK"
    /\ cmd[q] = cmd[r]
    => q = r

(* What reserveForCheckout alone promises of a hold.  A session holds an order
   only while it is CHECKOUT_PENDING and after its own request, which expected
   the version before, was told OK or died before it was told.  And as long as
   the order has the version a winner made of it, it is CHECKOUT_PENDING and no
   other session holds it, whatever stale copies are saved.  An editor may make
   an order CHECKOUT_PENDING without a session, and a save wipes a session, for
   toOrderDocument writes checkout: null; neither gives the order to another. *)
HoldIsEarned ==
  /\ \A o \in Orders, r \in Requests : orders[o].session = r =>
       /\ Target(r) = o
       /\ orders[o].status = "CHECKOUT_PENDING"
       /\ result[r].outcome \in {"OK", "ERROR"}
       /\ orders[o].version = cmd[r].expectedVersion + 1
  /\ \A r \in Requests :
       /\ result[r].outcome = "OK"
       /\ orders[Target(r)].version = cmd[r].expectedVersion + 1
       => /\ orders[Target(r)].status = "CHECKOUT_PENDING"
          /\ orders[Target(r)].session \in {r, NoSession}

(* "Search can never show a stale status", nor another number of items. *)
ViewInSync ==
  \A o \in Orders :
    /\ view[o].status = orders[o].status
    /\ view[o].itemCount = Cardinality(orders[o].items)

(* A story leads from one status to another along legal transitions, each from
   where the one before it led. *)
Leads(from, story, to) ==
  LET At(n) == IF n = 0 THEN from ELSE story[n].to
  IN  /\ \A n \in 1..Len(story) : story[n].from = At(n - 1) /\ story[n].to \in Legal[story[n].from]
      /\ to = At(Len(story))

(* The events of an order tell its history: one per version, from DRAFT up to
   the present status, whatever copies were edited and lost in between. *)
EventsTellTheHistory ==
  \A o \in Orders : orders[o] # NoOrder =>
    /\ Len(events[o]) = orders[o].version
    /\ Leads("DRAFT", events[o], orders[o].status)

(* "The loser deserves an accurate reason": no refusal describes an order that
   the request should have won, a conflict names another version, and nobody is
   refused for a hold of its own. *)
AccurateReason ==
  \A r \in Requests :
    LET refused == result[r] IN
    /\ refused.outcome = "INVALID_STATE" =>
         refused.current.status \in {"DRAFT", "PRICING", "CANCELLED"}
    /\ refused.outcome = "VERSION_CONFLICT" =>
         refused.current.version # cmd[r].expectedVersion
    /\ refused.outcome = "ALREADY_RESERVED" =>
         refused.current.session # r

=============================================================================
