------------------------------ MODULE TenantScope ------------------------------
(***************************************************************************)
(* kernel: RequestContext over AsyncLocalStorage, and the repositories     *)
(* that take the tenant of their filters from it (TenantScopedRepository,  *)
(* OrderRepository.findById, OrderSearchRepository.search).                *)
(*                                                                         *)
(* A repository builds its filter when it is called and MongoDB applies it *)
(* later: between the two, requests of other tenants run in the same       *)
(* process.  Of a document the model keeps its tenantId and the requests   *)
(* that changed it, of a filter the _id and the tenantId; the other fields *)
(* of a filter narrow it further.                                          *)
(*                                                                         *)
(* A definition named Faulty_... is a bug the properties must notice: it   *)
(* takes no part in the specification.                                     *)
(***************************************************************************)
EXTENDS Tenancy

CONSTANTS
  Requests,  \* calls of RequestContext.run
  Orders,    \* _ids of documents
  NoCall

ASSUME ScopeAssumption ==
  NoCall \notin [operation : {"find", "updateOne"}, ids : SUBSET Orders, tenantId : Tenants]

VARIABLES
  documents,  \* tenantId of each document, and the requests that changed it
  store,      \* the RequestContextData of each request's chain of awaits
  call,       \* the operation a request awaits, with its filter
  seen        \* the documents each request was given

scopeVars == <<documents, store, call, seen>>

InitScope ==
  /\ documents = [o \in Orders |-> [tenantId |-> NoTenant, changedBy |-> {}]]
  /\ store = [r \in Requests |-> NoTenant]
  /\ call = [r \in Requests |-> NoCall]
  /\ seen = [r \in Requests |-> {}]

(* RequestContext.run, with the tenant of the verified token. *)
Run(r, tenantId) ==
  /\ store[r] = NoTenant
  /\ store' = [store EXCEPT ![r] = tenantId]
  /\ UNCHANGED <<documents, call, seen>>

(* insertOne does not look at the context: the tenantId is the caller's. *)
InsertOne(o, tenantId) ==
  /\ documents[o].tenantId = NoTenant
  /\ documents' = [documents EXCEPT ![o].tenantId = tenantId]
  /\ UNCHANGED <<store, call, seen>>

Faulty_TenantId(r) ==   \* one variable for the process: the other request's run() set it last
  IF \E q \in Requests \ {r} : store[q] # NoTenant
  THEN store[CHOOSE q \in Requests \ {r} : store[q] # NoTenant]
  ELSE store[r]

TenantId(r) == store[r]

(* "Our value is spread last, so it always wins". *)
Scoped(r, filter) == [filter EXCEPT !.tenantId = TenantId(r)]

(* findOne, find and updateOne; a caller may put a tenantId in its filter.
   Outside run they throw MissingTenantContextError. *)
Call(r, operation, filter) ==
  /\ TenantId(r) # NoTenant
  /\ call[r] = NoCall
  /\ call' = [call EXCEPT ![r] =
       [operation |-> operation, ids |-> Scoped(r, filter).ids,
        tenantId |-> Scoped(r, filter).tenantId]]
  /\ UNCHANGED <<documents, store, seen>>

Matching(r) == {o \in call[r].ids : documents[o].tenantId = call[r].tenantId}

(* findById and findOne get one document, find and search get all. *)
Find(r) ==
  /\ call[r] # NoCall
  /\ call[r].operation = "find"
  /\ seen' = [seen EXCEPT ![r] = @ \cup Matching(r)]
  /\ call' = [call EXCEPT ![r] = NoCall]
  /\ UNCHANGED <<documents, store>>

UpdateOne(r) ==
  /\ call[r] # NoCall
  /\ call[r].operation = "updateOne"
  /\ \/ \E o \in Matching(r) : documents' = [documents EXCEPT ![o].changedBy = @ \cup {r}]
     \/ Matching(r) = {} /\ UNCHANGED documents
  /\ call' = [call EXCEPT ![r] = NoCall]
  /\ UNCHANGED <<store, seen>>

Filters == [ids : {{o} : o \in Orders} \cup {Orders}, tenantId : Tenants \cup {NoTenant}]

NextScope ==
  \/ \E o \in Orders, tenantId \in Tenants : InsertOne(o, tenantId)
  \/ \E r \in Requests :
       \/ \E operation \in {"find", "updateOne"}, filter \in Filters : Call(r, operation, filter)
       \/ Find(r) \/ UpdateOne(r)

-----------------------------------------------------------------------------

ScopeTypeOK ==
  /\ documents \in [Orders -> [tenantId : Tenants \cup {NoTenant}, changedBy : SUBSET Requests]]
  /\ store \in [Requests -> Tenants \cup {NoTenant}]
  /\ call \in [Requests -> {NoCall} \cup
       [operation : {"find", "updateOne"}, ids : SUBSET Orders, tenantId : Tenants]]
  /\ seen \in [Requests -> SUBSET Orders]

=============================================================================
