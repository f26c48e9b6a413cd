------------------------------ MODULE AccessProofs ------------------------------
(***************************************************************************)
(* Theorems about Access, for every set of tenants, registrations, logins, *)
(* requests and documents, whatever is registered and asked for.           *)
(***************************************************************************)
EXTENDS Access, TLAPS

(* One account, whatever its status. *)
Same(u, v) == u.id = v.id /\ u.tenantId = v.tenantId /\ u.email = v.email /\ u.password = v.password

(* An email has one account, made by a registration that is over. *)
AccountsAreSound ==
  /\ \A u, v \in users : u.email = v.email => u = v
  /\ \A u \in users : regPc[u.id] = "done"

(* What a registration was told is in the users collection. *)
RegistrationsAreSound ==
  \A r \in Registrations :
    /\ registered[r] = "REGISTERED" => \E u \in users : u.id = r /\ u.email = Form[r].email
    /\ registered[r] \in {"EMAIL_ALREADY_REGISTERED", "DUPLICATE_KEY"} =>
         \E u \in users : u.id # r /\ u.email = Form[r].email

(* A login holds a copy of an account of its email, and has checked the
   password before it issues a token. *)
LoginsAreSound ==
  \A l \in Logins :
    /\ loginPc[l] \in {"verify", "issue"} =>
         \E u \in users : Same(u, found[l]) /\ u.email = Body[l].email
    /\ loginPc[l] = "issue" => found[l].password = Body[l].password
    /\ loginPc[l] # "done" => reply[l].status # 200

(* A token is that of an account. *)
TokensAreSound ==
  \A l \in Logins : reply[l].status = 200 =>
    \E u \in users :
      /\ u.email = Body[l].email
      /\ u.password = Body[l].password
      /\ reply[l].token = [sub |-> u.id, tid |-> u.tenantId]

(* A request runs in the context of the token it carries, and what it awaits
   is restricted to that tenant. *)
ContextsAreSound ==
  \A r \in Requests :
    /\ store[r] # NoTenant =>
         /\ carries[r] \in Logins
         /\ reply[carries[r]].status = 200
         /\ reply[carries[r]].token.tid = store[r]
    /\ call[r] # NoCall => store[r] # NoTenant /\ call[r].tenantId = store[r]

(* What a request has seen or changed belongs to the tenant of its context. *)
SeenIsOwn ==
  \A r \in Requests, o \in Orders :
    o \in seen[r] \/ r \in documents[o].changedBy =>
      store[r] # NoTenant /\ documents[o].tenantId = store[r]

IInv ==
  /\ TypeOK
  /\ AccountsAreSound
  /\ RegistrationsAreSound
  /\ LoginsAreSound
  /\ TokensAreSound
  /\ ContextsAreSound
  /\ SeenIsOwn

-----------------------------------------------------------------------------

(* The initial state satisfies the invariant: no account, no context. *)
LEMMA InitIsSound == Init => IInv
<1> SUFFICES ASSUME Init PROVE IInv
  OBVIOUS
<1> USE TenancyAssumption, IdentityAssumption, ScopeAssumption DEF Init, InitIdentity, InitScope
<1>1. IdentityTypeOK
  BY DEF IdentityTypeOK, NotFound, NoToken
<1>2. ScopeTypeOK /\ carries \in [Requests -> Logins \cup {NoLogin}]
  BY DEF ScopeTypeOK
<1>3. AccountsAreSound /\ RegistrationsAreSound /\ LoginsAreSound /\ TokensAreSound
  BY DEF AccountsAreSound, RegistrationsAreSound, LoginsAreSound, TokensAreSound
<1>4. ContextsAreSound /\ SeenIsOwn
  BY DEF ContextsAreSound, SeenIsOwn
<1>5. QED
  BY <1>1, <1>2, <1>3, <1>4 DEF IInv, TypeOK

(* The users collection changes by an insert or by disabling an account. *)
LEMMA UsersSteps ==
  ASSUME [Next]_vars
  PROVE  \/ users' = users
         \/ \E r \in Registrations : Insert(r)
         \/ \E u \in users : Disable(u)
  BY DEF Next, NextIdentity, NextScope, Authenticate, Run, InsertOne, Call, Find, UpdateOne,
         FindByEmail, InsertRejected, RegistrationFails, RejectBody, FindUser, Verify, Issue,
         LoginFails, identityVars, vars

(* An account is there for good, and disabled for good. *)
LEMMA AccountsStay ==
  ASSUME IdentityTypeOK, [Next]_vars, NEW u \in users
  PROVE  \E v \in users' : Same(v, u) /\ (u.status = "DISABLED" => v = u)
<1>1. CASE users' = users
  BY <1>1 DEF Same
<1>2. ASSUME NEW r \in Registrations, Insert(r) PROVE u \in users'
  BY <1>2 DEF Insert
<1>3. ASSUME NEW w \in users, Disable(w)
      PROVE  \E v \in users' : Same(v, u) /\ (u.status = "DISABLED" => v = u)
  <2>1. CASE u # w
    BY <1>3, <2>1 DEF Disable, Same
  <2>2. CASE u = w
    <3> DEFINE v == [u EXCEPT !.status = "DISABLED"]
    <3>1. u \in User /\ v \in users' /\ u.status = "ACTIVE"
      BY <1>3, <2>2 DEF Disable, IdentityTypeOK
    <3>2. Same(v, u)
      BY <3>1 DEF Same, User
    <3>3. QED
      BY <3>1, <3>2
  <2>3. QED
    BY <2>1, <2>2
<1>4. QED
  BY <1>1, <1>2, <1>3, UsersSteps DEF Same

(* An account that is there was there, or its registration has just inserted
   it for an email nobody had. *)
LEMMA AccountsWere ==
  ASSUME IdentityTypeOK, [Next]_vars, NEW u \in users'
  PROVE  \/ \E v \in users : Same(u, v)
         \/ \E r \in Registrations : Insert(r) /\ u = NewUser(r)
<1>1. CASE users' = users
  BY <1>1 DEF Same
<1>2. ASSUME NEW r \in Registrations, Insert(r)
      PROVE  u \in users \/ u = NewUser(r)
  BY <1>2 DEF Insert
<1>3. ASSUME NEW w \in users, Disable(w)
      PROVE  \E v \in users : Same(u, v)
  <2>1. CASE u \in users
    BY <2>1 DEF Same
  <2>2. CASE u = [w EXCEPT !.status = "DISABLED"]
    BY <2>2 DEF Same, IdentityTypeOK, User
  <2>3. QED
    BY <1>3, <2>1, <2>2 DEF Disable
<1>4. QED
  BY <1>1, <1>2, <1>3, UsersSteps DEF Same

-----------------------------------------------------------------------------
(* Types.                                                                    *)

(* A login that is verified holds a whole account. *)
LEMMA FoundIsAUser ==
  ASSUME IdentityTypeOK, LoginsAreSound, NEW l \in Logins, loginPc[l] \in {"verify", "issue"}
  PROVE  found[l] \in User
<1>1. PICK u \in users : Same(u, found[l])
  BY DEF LoginsAreSound
<1>2. found[l].id \in Registrations
  BY <1>1 DEF Same, IdentityTypeOK, User
<1>3. found[l] # NotFound
  BY <1>2, IdentityAssumption DEF NotFound
<1>4. QED
  BY <1>3 DEF IdentityTypeOK

(* Steps of identity-service keep its variables in their domains. *)
LEMMA IdentityTypeStep == IdentityTypeOK /\ LoginsAreSound /\ [Next]_vars => IdentityTypeOK'
<1> SUFFICES ASSUME IdentityTypeOK, LoginsAreSound, [Next]_vars PROVE IdentityTypeOK'
  OBVIOUS
<1> USE TenancyAssumption, IdentityAssumption DEF IdentityTypeOK
<1> USE DEF registrationVars, loginVars
<1> DEFINE Outcomes == {"NONE", "REGISTERED", "EMAIL_ALREADY_REGISTERED", "DUPLICATE_KEY", "ERROR"}
<1>0. ASSUME NEW r \in Registrations, NEW outcome \in Outcomes, Registered(r, outcome)
      PROVE  /\ regPc' \in [Registrations -> {"find", "insert", "done"}]
             /\ registered' \in [Registrations -> Outcomes]
  BY <1>0 DEF Registered
<1>1. ASSUME NEW r \in Registrations, FindByEmail(r) PROVE IdentityTypeOK'
  <2>1. CASE Registered(r, "EMAIL_ALREADY_REGISTERED")
    BY <1>0, <1>1, <2>1 DEF FindByEmail
  <2>2. CASE regPc' = [regPc EXCEPT ![r] = "insert"] /\ UNCHANGED registered
    BY <1>1, <2>2 DEF FindByEmail
  <2>3. QED
    BY <1>1, <2>1, <2>2 DEF FindByEmail
<1>2. ASSUME NEW r \in Registrations, Insert(r) PROVE IdentityTypeOK'
  <2>1. NewUser(r) \in User
    BY DEF NewUser, User
  <2>2. PICK outcome \in {"REGISTERED", "ERROR"} : Registered(r, outcome)
    BY <1>2 DEF Insert
  <2>3. users' \subseteq User
    BY <1>2, <2>1 DEF Insert
  <2>4. QED
    BY <1>0, <1>2, <2>2, <2>3 DEF Insert
<1>3. ASSUME NEW r \in Registrations, InsertRejected(r) \/ RegistrationFails(r) PROVE IdentityTypeOK'
  BY <1>0, <1>3 DEF InsertRejected, RegistrationFails
<1>4. ASSUME NEW u \in users, Disable(u) PROVE IdentityTypeOK'
  <2> DEFINE disabled == [u EXCEPT !.status = "DISABLED"]
  <2>1. disabled \in User
    <3>1. u \in User
      OBVIOUS
    <3>2. QED
      BY <3>1 DEF User
  <2>2. users' \subseteq User
    <3>1. users' = (users \ {u}) \cup {disabled}
      BY <1>4 DEF Disable
    <3> HIDE DEF disabled
    <3>2. QED
      BY <2>1, <3>1
  <2>3. QED
    BY <1>4, <2>2 DEF Disable
<1>5. ASSUME NEW l \in Logins, NEW status \in {0, 200, 400, 401, 500},
             NEW token \in [sub : Registrations, tid : Tenants] \cup {NoToken},
             Respond(l, status, token), UNCHANGED <<users, registrationVars, found>>
      PROVE  IdentityTypeOK'
  BY <1>5 DEF Respond
<1>6. ASSUME NEW l \in Logins, RejectBody(l) \/ LoginFails(l) PROVE IdentityTypeOK'
  BY <1>5, <1>6 DEF RejectBody, LoginFails
<1>7. ASSUME NEW l \in Logins, FindUser(l) PROVE IdentityTypeOK'
  <2>1. CASE Respond(l, 401, NoToken) /\ UNCHANGED found
    BY <1>5, <1>7, <2>1 DEF FindUser
  <2>2. CASE \E u \in WithEmail(Body[l].email) :
               /\ found' = [found EXCEPT ![l] = u]
               /\ loginPc' = [loginPc EXCEPT ![l] = "verify"]
               /\ UNCHANGED reply
    BY <1>7, <2>2 DEF FindUser, WithEmail
  <2>3. QED
    BY <1>7, <2>1, <2>2 DEF FindUser
<1>8. ASSUME NEW l \in Logins, Verify(l) PROVE IdentityTypeOK'
  <2>1. CASE Respond(l, 401, NoToken)
    BY <1>5, <1>8, <2>1 DEF Verify
  <2>2. CASE loginPc' = [loginPc EXCEPT ![l] = "issue"] /\ UNCHANGED reply
    BY <1>8, <2>2 DEF Verify
  <2>3. QED
    BY <1>8, <2>1, <2>2 DEF Verify
<1>9. ASSUME NEW l \in Logins, Issue(l) PROVE IdentityTypeOK'
  <2>1. Claims(found[l]) \in [sub : Registrations, tid : Tenants]
    BY <1>9, FoundIsAUser DEF Issue, Claims, User
  <2>2. QED
    BY <1>5, <1>9, <2>1 DEF Issue
<1>10. ASSUME UNCHANGED identityVars PROVE IdentityTypeOK'
  BY <1>10 DEF identityVars
<1>11. QED
  BY <1>1, <1>2, <1>3, <1>4, <1>6, <1>7, <1>8, <1>9, <1>10
  DEF Next, NextIdentity, Authenticate, vars

(* Steps of the repositories and of the gateway keep theirs. *)
LEMMA ScopeTypeStep == TypeOK /\ TokensAreSound /\ [Next]_vars
  => ScopeTypeOK' /\ carries' \in [Requests -> Logins \cup {NoLogin}]
<1> SUFFICES ASSUME TypeOK, TokensAreSound, [Next]_vars
             PROVE  ScopeTypeOK' /\ carries' \in [Requests -> Logins \cup {NoLogin}]
  OBVIOUS
<1> DEFINE Goal == ScopeTypeOK' /\ carries' \in [Requests -> Logins \cup {NoLogin}]
<1> USE TenancyAssumption, ScopeAssumption DEF TypeOK, ScopeTypeOK
<1>1. ASSUME NEW o \in Orders, NEW tenantId \in Tenants, InsertOne(o, tenantId), carries' = carries
      PROVE  Goal
  BY <1>1 DEF InsertOne
<1>2. ASSUME NEW r \in Requests, NEW operation \in {"find", "updateOne"}, NEW filter \in Filters,
             Call(r, operation, filter), carries' = carries
      PROVE  Goal
  <2> DEFINE made == [operation |-> operation, ids |-> Scoped(r, filter).ids,
                      tenantId |-> Scoped(r, filter).tenantId]
  <2>1. Scoped(r, filter).ids = filter.ids /\ Scoped(r, filter).tenantId = store[r]
    BY DEF Scoped, TenantId, Filters
  <2>2. store[r] \in Tenants /\ filter.ids \in SUBSET Orders
    BY <1>2 DEF Call, TenantId, Filters
  <2>3. made \in [operation : {"find", "updateOne"}, ids : SUBSET Orders, tenantId : Tenants]
    BY <2>1, <2>2
  <2>4. call' = [call EXCEPT ![r] = made] /\ UNCHANGED <<documents, store, seen>>
    BY <1>2 DEF Call
  <2> HIDE DEF made
  <2>5. QED
    BY <1>2, <2>3, <2>4
<1>3. ASSUME NEW r \in Requests, Find(r), carries' = carries PROVE Goal
  <2>1. Matching(r) \subseteq Orders
    BY <1>3 DEF Find, Matching
  <2>2. QED
    BY <1>3, <2>1 DEF Find
<1>4. ASSUME NEW r \in Requests, UpdateOne(r), carries' = carries PROVE Goal
  <2>1. Matching(r) \subseteq Orders
    BY <1>4 DEF UpdateOne, Matching
  <2>2. documents' \in [Orders -> [tenantId : Tenants \cup {NoTenant}, changedBy : SUBSET Requests]]
    BY <1>4, <2>1 DEF UpdateOne
  <2>3. QED
    BY <1>4, <2>2 DEF UpdateOne
<1>5. ASSUME NEW r \in Requests, NEW l \in Logins, Authenticate(r, l) PROVE Goal
  <2>1. reply[l].token.tid \in Tenants
    <3>1. PICK u \in users : reply[l].token = [sub |-> u.id, tid |-> u.tenantId]
      BY <1>5 DEF Authenticate, TokensAreSound
    <3>2. reply[l].token.tid = u.tenantId
      BY <3>1
    <3>3. QED
      BY <3>2 DEF IdentityTypeOK, User
  <2>2. QED
    BY <1>5, <2>1 DEF Authenticate, Run
<1>6. ASSUME UNCHANGED <<scopeVars, carries>> PROVE Goal
  BY <1>6 DEF scopeVars
<1>7. QED
  BY <1>1, <1>2, <1>3, <1>4, <1>5, <1>6 DEF Next, NextScope, vars

-----------------------------------------------------------------------------
(* Accounts and tokens.                                                      *)

(* A registration that is over stays so, and was told once. *)
LEMMA RegistrationsEnd ==
  ASSUME IdentityTypeOK, [Next]_vars, NEW r \in Registrations
  PROVE  /\ regPc[r] = "done" => regPc'[r] = "done"
         /\ \/ registered'[r] = registered[r]
            \/ FindByEmail(r) \/ Insert(r) \/ InsertRejected(r)
            \/ registered'[r] = "ERROR"
<1> USE DEF IdentityTypeOK
<1>1. CASE UNCHANGED <<regPc, registered>>
  BY <1>1
<1>2. ASSUME NEW q \in Registrations, NEW outcome, Registered(q, outcome), regPc[q] # "done"
      PROVE  /\ regPc[r] = "done" => regPc'[r] = "done"
             /\ r # q => registered'[r] = registered[r]
             /\ registered'[q] = outcome
  BY <1>2 DEF Registered
<1>3. ASSUME NEW q \in Registrations, RegistrationFails(q)
      PROVE  /\ regPc[r] = "done" => regPc'[r] = "done"
             /\ registered'[r] = registered[r] \/ registered'[r] = "ERROR"
  BY <1>2, <1>3 DEF RegistrationFails
<1>4. ASSUME NEW q \in Registrations, FindByEmail(q)
      PROVE  /\ regPc[r] = "done" => regPc'[r] = "done"
             /\ r # q => registered'[r] = registered[r]
  <2>1. CASE Registered(q, "EMAIL_ALREADY_REGISTERED")
    BY <1>2, <1>4, <2>1 DEF FindByEmail
  <2>2. CASE regPc' = [regPc EXCEPT ![q] = "insert"] /\ UNCHANGED registered
    BY <1>4, <2>2 DEF FindByEmail
  <2>3. QED
    BY <1>4, <2>1, <2>2 DEF FindByEmail
<1>5. ASSUME NEW q \in Registrations, Insert(q) \/ InsertRejected(q)
      PROVE  /\ regPc[r] = "done" => regPc'[r] = "done"
             /\ r # q => registered'[r] = registered[r]
  BY <1>2, <1>5 DEF Insert, InsertRejected
<1>6. QED
  BY <1>1, <1>3, <1>4, <1>5
  DEF Next, NextIdentity, NextScope, Authenticate, Disable, RejectBody, FindUser, Verify, Issue,
      LoginFails, identityVars, registrationVars, vars

(* The unique index keeps an email to one account. *)
LEMMA AccountStep ==
  IdentityTypeOK /\ AccountsAreSound /\ [Next]_vars => AccountsAreSound'
<1> SUFFICES ASSUME IdentityTypeOK, AccountsAreSound, [Next]_vars PROVE AccountsAreSound'
  OBVIOUS
<1>1. \A r \in Registrations : regPc[r] = "done" => regPc'[r] = "done"
  BY RegistrationsEnd
<1>2. CASE users' = users
  BY <1>1, <1>2 DEF AccountsAreSound, IdentityTypeOK, User
<1>3. ASSUME NEW r \in Registrations, Insert(r) PROVE AccountsAreSound'
  <2>1. NewUser(r).email = Form[r].email /\ NewUser(r).id = r
    BY DEF NewUser
  <2>2. users' = users \cup {NewUser(r)} /\ \A u \in users : u.email # Form[r].email
    BY <1>3 DEF Insert, Free, WithEmail
  <2>3. regPc'[r] = "done"
    BY <1>3 DEF Insert, Registered, IdentityTypeOK
  <2>4. \A u \in users : regPc'[u.id] = "done"
    BY <1>1 DEF AccountsAreSound, IdentityTypeOK, User
  <2>5. QED
    BY <2>1, <2>2, <2>3, <2>4 DEF AccountsAreSound
<1>4. ASSUME NEW w \in users, Disable(w) PROVE AccountsAreSound'
  <2> DEFINE disabled == [w EXCEPT !.status = "DISABLED"]
  <2>1. disabled.id = w.id /\ disabled.email = w.email
    BY DEF IdentityTypeOK, User
  <2>2. users' = (users \ {w}) \cup {disabled}
    BY <1>4 DEF Disable
  <2> HIDE DEF disabled
  <2>3. \A u \in users : regPc'[u.id] = "done"
    BY <1>1 DEF AccountsAreSound, IdentityTypeOK, User
  <2>4. \A u, v \in users' : u.email = v.email => u = v
    BY <2>1, <2>2 DEF AccountsAreSound
  <2>5. \A u \in users' : regPc'[u.id] = "done"
    BY <2>1, <2>2, <2>3
  <2>6. QED
    BY <2>4, <2>5 DEF AccountsAreSound
<1>5. QED
  BY <1>2, <1>3, <1>4, UsersSteps

(* Who registered has an account, and who lost the email lost it to one. *)
LEMMA RegistrationStep ==
  IdentityTypeOK /\ AccountsAreSound /\ RegistrationsAreSound /\ [Next]_vars
    => RegistrationsAreSound'
<1> SUFFICES ASSUME IdentityTypeOK, AccountsAreSound, RegistrationsAreSound, [Next]_vars,
                    NEW r \in Registrations
             PROVE  /\ registered'[r] = "REGISTERED" =>
                         \E u \in users' : u.id = r /\ u.email = Form[r].email
                    /\ registered'[r] \in {"EMAIL_ALREADY_REGISTERED", "DUPLICATE_KEY"} =>
                         \E u \in users' : u.id # r /\ u.email = Form[r].email
  BY DEF RegistrationsAreSound
<1>1. CASE registered'[r] = registered[r]
  BY <1>1, AccountsStay DEF RegistrationsAreSound, Same
<1>2. ASSUME regPc[r] # "done", NEW u \in users, u.email = Form[r].email
      PROVE  \E v \in users' : v.id # r /\ v.email = Form[r].email
  <2>1. u.id # r
    BY <1>2 DEF AccountsAreSound
  <2>2. QED
    BY <1>2, <2>1, AccountsStay DEF Same
<1>3. CASE FindByEmail(r)
  <2>1. CASE Registered(r, "EMAIL_ALREADY_REGISTERED") /\ WithEmail(Form[r].email) # {}
    <3>1. PICK u \in users : u.email = Form[r].email
      BY <2>1 DEF WithEmail
    <3>2. registered'[r] = "EMAIL_ALREADY_REGISTERED" /\ regPc[r] # "done"
      BY <1>3, <2>1 DEF FindByEmail, Registered, IdentityTypeOK
    <3>3. QED
      BY <1>2, <3>1, <3>2
  <2>2. CASE registered' = registered
    BY <1>1, <2>2
  <2>3. QED
    BY <1>3, <2>1, <2>2 DEF FindByEmail
<1>4. CASE Insert(r)
  <2>1. registered'[r] \in {"REGISTERED", "ERROR"}
    BY <1>4 DEF Insert, Registered, IdentityTypeOK
  <2>2. NewUser(r) \in users' /\ NewUser(r).id = r /\ NewUser(r).email = Form[r].email
    BY <1>4 DEF Insert, NewUser
  <2>3. QED
    BY <2>1, <2>2
<1>5. CASE InsertRejected(r)
  <2>1. registered'[r] = "DUPLICATE_KEY" /\ regPc[r] # "done"
    BY <1>5 DEF InsertRejected, Registered, IdentityTypeOK
  <2>2. PICK u \in users : u.email = Form[r].email
    BY <1>5 DEF InsertRejected, Free, WithEmail
  <2>3. QED
    BY <1>2, <2>1, <2>2
<1>6. CASE registered'[r] = "ERROR"
  BY <1>6
<1>7. QED
  BY <1>1, <1>3, <1>4, <1>5, <1>6, RegistrationsEnd

(* What a step does to one login: nothing, or one of the login's own steps. *)
LEMMA LoginSteps ==
  ASSUME IdentityTypeOK, [Next]_vars, NEW l \in Logins
  PROVE  \/ loginPc'[l] = loginPc[l] /\ found'[l] = found[l] /\ reply'[l] = reply[l]
         \/ RejectBody(l) \/ FindUser(l) \/ Verify(l) \/ Issue(l) \/ LoginFails(l)
<1> USE DEF IdentityTypeOK
<1>1. CASE UNCHANGED loginVars
  BY <1>1 DEF loginVars
<1>2. ASSUME NEW k \in Logins \ {l},
             RejectBody(k) \/ FindUser(k) \/ Verify(k) \/ Issue(k) \/ LoginFails(k)
      PROVE  loginPc'[l] = loginPc[l] /\ found'[l] = found[l] /\ reply'[l] = reply[l]
  <2>1. loginPc'[l] = loginPc[l]
    BY <1>2 DEF RejectBody, FindUser, Verify, Issue, LoginFails, Respond
  <2>2. found'[l] = found[l]
    BY <1>2 DEF RejectBody, FindUser, Verify, Issue, LoginFails
  <2>3. reply'[l] = reply[l]
    BY <1>2 DEF RejectBody, FindUser, Verify, Issue, LoginFails, Respond
  <2>4. QED
    BY <2>1, <2>2, <2>3
<1>3. QED
  BY <1>1, <1>2
  DEF Next, NextIdentity, NextScope, Authenticate, FindByEmail, Insert, InsertRejected,
      RegistrationFails, Disable, identityVars, vars

(* A login that responds is over. *)
LEMMA Responded ==
  ASSUME IdentityTypeOK, NEW l \in Logins, NEW status, NEW token, Respond(l, status, token)
  PROVE  /\ loginPc'[l] = "done"
         /\ reply'[l].status = status /\ reply'[l].token = token
<1>1. loginPc'[l] = "done" /\ reply'[l] = [status |-> status, token |-> token]
  BY DEF Respond, IdentityTypeOK
<1>2. QED
  BY <1>1

(* A login goes on only with an account of its email and, once verified, with
   its password; every other way it ends without a token. *)
LEMMA LoginStep ==
  IdentityTypeOK /\ LoginsAreSound /\ [Next]_vars => LoginsAreSound'
<1> SUFFICES ASSUME IdentityTypeOK, LoginsAreSound, [Next]_vars, NEW l \in Logins
             PROVE  /\ loginPc'[l] \in {"verify", "issue"} =>
                         \E u \in users' : Same(u, found'[l]) /\ u.email = Body[l].email
                    /\ loginPc'[l] = "issue" => found'[l].password = Body[l].password
                    /\ loginPc'[l] # "done" => reply'[l].status # 200
  BY DEF LoginsAreSound, Same
<1> DEFINE Goal == /\ loginPc'[l] \in {"verify", "issue"} =>
                        \E u \in users' : Same(u, found'[l]) /\ u.email = Body[l].email
                   /\ loginPc'[l] = "issue" => found'[l].password = Body[l].password
                   /\ loginPc'[l] # "done" => reply'[l].status # 200
<1>1. ASSUME NEW u \in users, Same(u, found[l]), u.email = Body[l].email
      PROVE  \E v \in users' : Same(v, found[l]) /\ v.email = Body[l].email
  BY <1>1, AccountsStay DEF Same
<1>2. CASE loginPc'[l] = loginPc[l] /\ found'[l] = found[l] /\ reply'[l] = reply[l]
  BY <1>1, <1>2 DEF LoginsAreSound
<1>3. ASSUME NEW status, NEW token, Respond(l, status, token) PROVE Goal
  BY <1>3, Responded
<1>4. CASE RejectBody(l) \/ Issue(l) \/ LoginFails(l)
  BY <1>3, <1>4 DEF RejectBody, Issue, LoginFails
<1>5. CASE FindUser(l)
  <2>1. CASE \E u \in WithEmail(Body[l].email) :
               /\ found' = [found EXCEPT ![l] = u]
               /\ loginPc' = [loginPc EXCEPT ![l] = "verify"]
               /\ UNCHANGED reply
    <3>1. PICK u \in users : /\ u.email = Body[l].email
                             /\ found' = [found EXCEPT ![l] = u]
                             /\ loginPc' = [loginPc EXCEPT ![l] = "verify"]
                             /\ UNCHANGED reply
      BY <2>1 DEF WithEmail
    <3>2. found'[l] = u /\ loginPc'[l] = "verify" /\ reply'[l].status # 200 /\ u \in users'
      BY <1>5, <3>1 DEF FindUser, IdentityTypeOK, LoginsAreSound
    <3>3. QED
      BY <3>1, <3>2 DEF Same
  <2>2. QED
    BY <1>3, <1>5, <2>1 DEF FindUser
<1>6. CASE Verify(l)
  <2>1. CASE Valid(l) /\ loginPc' = [loginPc EXCEPT ![l] = "issue"] /\ UNCHANGED reply
    <3>1. /\ found'[l] = found[l] /\ found[l].password = Body[l].password
          /\ loginPc[l] = "verify" /\ loginPc'[l] = "issue" /\ reply'[l] = reply[l]
      BY <1>6, <2>1 DEF Verify, Valid, IdentityTypeOK
    <3>2. QED
      BY <1>1, <3>1 DEF LoginsAreSound
  <2>2. QED
    BY <1>3, <1>6, <2>1 DEF Verify
<1>7. QED
  BY <1>2, <1>4, <1>5, <1>6, LoginSteps

(* A response stands, and only Issue responds with a token. *)
LEMMA ReplyStep ==
  ASSUME IdentityTypeOK, LoginsAreSound, [Next]_vars, NEW l \in Logins
  PROVE  /\ reply[l].status = 200 => reply'[l] = reply[l]
         /\ reply'[l].status = 200 => reply'[l] = reply[l] \/ Issue(l)
<1>1. CASE reply'[l] = reply[l]
  BY <1>1
<1>2. ASSUME NEW status, NEW token, Respond(l, status, token), status # 200, loginPc[l] # "done"
      PROVE  reply[l].status # 200 /\ reply'[l].status # 200
  BY <1>2, Responded DEF LoginsAreSound
<1>3. CASE RejectBody(l) \/ LoginFails(l)
  BY <1>2, <1>3 DEF RejectBody, LoginFails
<1>4. CASE FindUser(l)
  BY <1>1, <1>2, <1>4 DEF FindUser
<1>5. CASE Verify(l)
  BY <1>1, <1>2, <1>5 DEF Verify
<1>6. CASE Issue(l)
  BY <1>6 DEF Issue, LoginsAreSound
<1>7. QED
  BY <1>1, <1>3, <1>4, <1>5, <1>6, LoginSteps

(* A token carries the claims of the account its login has found. *)
LEMMA TokenStep ==
  IdentityTypeOK /\ LoginsAreSound /\ TokensAreSound /\ [Next]_vars => TokensAreSound'
<1> SUFFICES ASSUME IdentityTypeOK, LoginsAreSound, TokensAreSound, [Next]_vars,
                    NEW l \in Logins, reply'[l].status = 200
             PROVE  \E u \in users' :
                      /\ u.email = Body[l].email
                      /\ u.password = Body[l].password
                      /\ reply'[l].token = [sub |-> u.id, tid |-> u.tenantId]
  BY DEF TokensAreSound
<1>1. CASE reply'[l] = reply[l]
  <2>1. PICK u \in users : /\ u.email = Body[l].email
                           /\ u.password = Body[l].password
                           /\ reply[l].token = [sub |-> u.id, tid |-> u.tenantId]
    BY <1>1 DEF TokensAreSound
  <2>2. PICK v \in users' : Same(v, u)
    BY AccountsStay
  <2>3. /\ v.email = Body[l].email /\ v.password = Body[l].password
        /\ v.id = u.id /\ v.tenantId = u.tenantId
    BY <2>1, <2>2 DEF Same
  <2>4. QED
    BY <1>1, <2>1, <2>3
<1>2. CASE Issue(l)
  <2>1. reply'[l].token = [sub |-> found[l].id, tid |-> found[l].tenantId] /\ loginPc[l] = "issue"
    BY <1>2, Responded DEF Issue, Claims
  <2>2. PICK u \in users : Same(u, found[l]) /\ u.email = Body[l].email
    BY <2>1 DEF LoginsAreSound
  <2>3. PICK v \in users' : Same(v, u)
    BY AccountsStay
  <2>4. /\ v.id = found[l].id /\ v.tenantId = found[l].tenantId
        /\ v.email = Body[l].email /\ v.password = Body[l].password
    BY <2>1, <2>2, <2>3 DEF LoginsAreSound, Same
  <2>5. QED
    BY <2>1, <2>4
<1>3. QED
  BY <1>1, <1>2, ReplyStep

-----------------------------------------------------------------------------
(* Contexts and documents.                                                   *)

(* What the steps do to the contexts, the calls, the documents and what was
   seen, one request at a time. *)
LEMMA ScopeSteps ==
  ASSUME [Next]_vars
  PROVE  \/ UNCHANGED <<documents, store, call, seen, carries>>
         \/ \E o \in Orders, tenantId \in Tenants : InsertOne(o, tenantId) /\ carries' = carries
         \/ \E r \in Requests :
              \/ \E operation \in {"find", "updateOne"}, filter \in Filters :
                   Call(r, operation, filter) /\ UNCHANGED <<carries, reply>>
              \/ (Find(r) \/ UpdateOne(r)) /\ UNCHANGED <<carries, reply>>
              \/ \E l \in Logins : Authenticate(r, l)
  BY DEF Next, NextScope, identityVars, loginVars, scopeVars, vars

(* A request keeps the context it was given, and its calls take the tenant
   from it. *)
LEMMA ContextStep ==
  TypeOK /\ LoginsAreSound /\ ContextsAreSound /\ [Next]_vars => ContextsAreSound'
<1> SUFFICES ASSUME TypeOK, LoginsAreSound, ContextsAreSound, [Next]_vars, NEW r \in Requests
             PROVE  /\ store'[r] # NoTenant =>
                         /\ carries'[r] \in Logins
                         /\ reply'[carries'[r]].status = 200
                         /\ reply'[carries'[r]].token.tid = store'[r]
                    /\ call'[r] # NoCall => store'[r] # NoTenant /\ call'[r].tenantId = store'[r]
  BY DEF ContextsAreSound
<1> DEFINE Goal == /\ store'[r] # NoTenant =>
                        /\ carries'[r] \in Logins
                        /\ reply'[carries'[r]].status = 200
                        /\ reply'[carries'[r]].token.tid = store'[r]
                   /\ call'[r] # NoCall => store'[r] # NoTenant /\ call'[r].tenantId = store'[r]
<1> USE DEF TypeOK, ScopeTypeOK
<1>1. \A l \in Logins : reply[l].status = 200 => reply'[l] = reply[l]
  BY ReplyStep
<1>2. ASSUME store'[r] = store[r], carries'[r] = carries[r], call'[r] \in {call[r], NoCall}
      PROVE  Goal
  BY <1>1, <1>2 DEF ContextsAreSound
<1>3. CASE UNCHANGED <<documents, store, call, seen, carries>>
  BY <1>2, <1>3
<1>4. ASSUME NEW o \in Orders, NEW tenantId \in Tenants, InsertOne(o, tenantId), carries' = carries
      PROVE  Goal
  BY <1>2, <1>4 DEF InsertOne
<1>5. ASSUME NEW q \in Requests, NEW operation \in {"find", "updateOne"}, NEW filter \in Filters,
             Call(q, operation, filter), carries' = carries
      PROVE  Goal
  <2>1. /\ store[q] # NoTenant /\ store' = store
        /\ call' = [call EXCEPT ![q] = [operation |-> operation, ids |-> Scoped(q, filter).ids,
                                       tenantId |-> Scoped(q, filter).tenantId]]
    BY <1>5 DEF Call, TenantId
  <2>2. CASE q # r
    BY <1>2, <1>5, <2>1, <2>2
  <2>3. CASE q = r
    <3>1. Scoped(q, filter).tenantId = store[q]
      BY DEF Scoped, TenantId, Filters
    <3>2. call'[r].tenantId = store[r]
      BY <2>1, <2>3, <3>1
    <3>3. QED
      BY <1>1, <1>5, <2>1, <2>3, <3>2 DEF ContextsAreSound
  <2>4. QED
    BY <2>2, <2>3
<1>6. ASSUME NEW q \in Requests, Find(q) \/ UpdateOne(q), carries' = carries PROVE Goal
  BY <1>2, <1>6 DEF Find, UpdateOne
<1>7. ASSUME NEW q \in Requests, NEW l \in Logins, Authenticate(q, l) PROVE Goal
  <2>1. /\ reply[l].status = 200 /\ store[q] = NoTenant
        /\ store' = [store EXCEPT ![q] = reply[l].token.tid]
        /\ carries' = [carries EXCEPT ![q] = l]
        /\ call' = call
    BY <1>7 DEF Authenticate, Run
  <2>2. CASE q # r
    BY <1>2, <2>1, <2>2
  <2>3. CASE q = r
    <3>1. store'[r] = reply[l].token.tid /\ carries'[r] = l /\ reply'[l] = reply[l]
      BY <1>1, <2>1, <2>3
    <3>2. call'[r] = NoCall
      BY <2>1, <2>3 DEF ContextsAreSound
    <3>3. QED
      BY <2>1, <3>1, <3>2
  <2>4. QED
    BY <2>2, <2>3
<1>8. QED
  BY <1>3, <1>4, <1>5, <1>6, <1>7, ScopeSteps

(* Whatever a request gets to see or to change belongs to its tenant. *)
LEMMA SeenStep ==
  TypeOK /\ ContextsAreSound /\ SeenIsOwn /\ [Next]_vars => SeenIsOwn'
<1> SUFFICES ASSUME TypeOK, ContextsAreSound, SeenIsOwn, [Next]_vars,
                    NEW r \in Requests, NEW o \in Orders,
                    o \in seen'[r] \/ r \in documents'[o].changedBy
             PROVE  store'[r] # NoTenant /\ documents'[o].tenantId = store'[r]
  BY DEF SeenIsOwn
<1> DEFINE Goal == store'[r] # NoTenant /\ documents'[o].tenantId = store'[r]
<1> USE DEF TypeOK, ScopeTypeOK
<1>1. CASE UNCHANGED <<documents, store, call, seen, carries>>
  BY <1>1 DEF SeenIsOwn
<1>2. ASSUME NEW p \in Orders, NEW tenantId \in Tenants, InsertOne(p, tenantId) PROVE Goal
  <2>1. /\ documents[p].tenantId = NoTenant
        /\ documents' = [documents EXCEPT ![p].tenantId = tenantId]
        /\ UNCHANGED <<store, seen>>
    BY <1>2 DEF InsertOne
  <2>2. documents'[o].changedBy = documents[o].changedBy
    BY <2>1
  <2>3. store[r] # NoTenant /\ documents[o].tenantId = store[r]
    BY <2>1, <2>2 DEF SeenIsOwn
  <2>4. o # p
    BY <2>1, <2>3
  <2>5. QED
    BY <2>1, <2>3, <2>4
<1>3. ASSUME NEW q \in Requests, NEW operation \in {"find", "updateOne"}, NEW filter \in Filters,
             Call(q, operation, filter)
      PROVE  Goal
  BY <1>3 DEF Call, SeenIsOwn
<1>4. ASSUME NEW q \in Requests, NEW p \in Matching(q), call[q] # NoCall
      PROVE  store[q] # NoTenant /\ documents[p].tenantId = store[q]
  BY <1>4 DEF Matching, ContextsAreSound
<1>5. ASSUME NEW q \in Requests, Find(q) PROVE Goal
  <2>1. /\ call[q] # NoCall /\ seen' = [seen EXCEPT ![q] = @ \cup Matching(q)]
        /\ UNCHANGED <<documents, store>>
    BY <1>5 DEF Find
  <2>2. CASE q = r /\ o \in Matching(q)
    BY <1>4, <2>1, <2>2
  <2>3. CASE ~(q = r /\ o \in Matching(q))
    <3>1. o \in seen[r] \/ r \in documents[o].changedBy
      BY <2>1, <2>3
    <3>2. QED
      BY <2>1, <3>1 DEF SeenIsOwn
  <2>4. QED
    BY <2>2, <2>3
<1>6. ASSUME NEW q \in Requests, UpdateOne(q) PROVE Goal
  <2>1. call[q] # NoCall /\ UNCHANGED <<store, seen>>
    BY <1>6 DEF UpdateOne
  <2>2. CASE documents' = documents
    BY <2>1, <2>2 DEF SeenIsOwn
  <2>3. ASSUME NEW p \in Matching(q), documents' = [documents EXCEPT ![p].changedBy = @ \cup {q}]
        PROVE  Goal
    <3>1. p \in Orders /\ documents'[o].tenantId = documents[o].tenantId
      BY <2>1, <2>3 DEF Matching
    <3>2. CASE p = o /\ q = r
      BY <1>4, <2>1, <2>3, <3>1, <3>2
    <3>3. CASE ~(p = o /\ q = r)
      <4>1. o \in seen[r] \/ r \in documents[o].changedBy
        BY <2>1, <2>3, <3>1, <3>3
      <4>2. QED
        BY <2>1, <3>1, <4>1 DEF SeenIsOwn
    <3>4. QED
      BY <3>2, <3>3
  <2>4. QED
    BY <1>6, <2>2, <2>3 DEF UpdateOne
<1>7. ASSUME NEW q \in Requests, NEW l \in Logins, Authenticate(q, l) PROVE Goal
  <2>1. /\ store[q] = NoTenant /\ UNCHANGED <<documents, seen>>
        /\ \A p \in Requests \ {q} : store'[p] = store[p]
    BY <1>7 DEF Authenticate, Run
  <2>2. store[r] # NoTenant /\ documents[o].tenantId = store[r]
    BY <2>1 DEF SeenIsOwn
  <2>3. QED
    BY <2>1, <2>2
<1>8. QED
  BY <1>1, <1>2, <1>3, <1>5, <1>6, <1>7, ScopeSteps

-----------------------------------------------------------------------------

(* The inductive invariant of Access holds in every reachable state. *)
THEOREM Invariance == Spec => []IInv
<1>1. Init => IInv
  BY InitIsSound
<1>2. IInv /\ [Next]_vars => IInv'
  BY IdentityTypeStep, ScopeTypeStep, AccountStep, RegistrationStep, LoginStep, TokenStep,
     ContextStep, SeenStep
  DEF IInv, TypeOK
<1>3. QED
  BY <1>1, <1>2, PTL DEF Spec

(* Every variable of Access keeps its type. *)
THEOREM TypeCorrect == Spec => []TypeOK
  BY Invariance, PTL DEF IInv

(* However many registrations race for an email, it has one account, whose
   registration is the only one that may have been told it succeeded. *)
THEOREM EmailsAreUnique == Spec => []OneRegistrationPerEmail
<1>1. IInv => OneRegistrationPerEmail
  <2> SUFFICES ASSUME IInv, NEW r \in Registrations
               PROVE  /\ registered[r] = "REGISTERED" =>
                           {u.id : u \in WithEmail(Form[r].email)} = {r}
                      /\ registered[r] \in {"EMAIL_ALREADY_REGISTERED", "DUPLICATE_KEY"} =>
                           \E u \in WithEmail(Form[r].email) : u.id # r
    BY DEF OneRegistrationPerEmail
  <2>1. CASE registered[r] = "REGISTERED"
    <3>1. PICK u \in users : u.id = r /\ u.email = Form[r].email
      BY <2>1 DEF IInv, RegistrationsAreSound
    <3>2. WithEmail(Form[r].email) = {u}
      BY <3>1 DEF IInv, AccountsAreSound, WithEmail
    <3>3. QED
      BY <2>1, <3>1, <3>2
  <2>2. CASE registered[r] # "REGISTERED"
    BY <2>2 DEF IInv, RegistrationsAreSound, WithEmail
  <2>3. QED
    BY <2>1, <2>2
<1>2. QED
  BY <1>1, Invariance, PTL

(* Every token is that of the one account of the email it was given for. *)
THEOREM TokensAreGenuine == Spec => []TokensNameTheAccount
<1>1. IInv => TokensNameTheAccount
  BY DEF IInv, TokensAreSound, AccountsAreSound, WithEmail, TokensNameTheAccount
<1>2. QED
  BY <1>1, Invariance, PTL

(* No request, whatever it asks for and whatever runs beside it, sees or
   changes a document of a tenant other than its account's. *)
THEOREM TenantsStayApart == Spec => []TenantsAreApart
<1>1. IInv => TenantsAreApart
  <2> SUFFICES ASSUME IInv, NEW r \in Requests, NEW o \in Orders,
                      o \in seen[r] \/ r \in documents[o].changedBy
               PROVE  \E u \in users :
                        /\ carries[r] # NoLogin
                        /\ WithEmail(Body[carries[r]].email) = {u}
                        /\ u.tenantId = documents[o].tenantId
    BY DEF TenantsAreApart
  <2> DEFINE l == carries[r]
  <2>1. l \in Logins /\ reply[l].status = 200 /\ reply[l].token.tid = documents[o].tenantId
    BY DEF IInv, SeenIsOwn, ContextsAreSound
  <2>2. PICK u \in users : u.email = Body[l].email /\ reply[l].token = [sub |-> u.id, tid |-> u.tenantId]
    BY <2>1 DEF IInv, TokensAreSound
  <2>3. WithEmail(Body[l].email) = {u}
    BY <2>2 DEF IInv, AccountsAreSound, WithEmail
  <2>4. u.tenantId = documents[o].tenantId
    BY <2>1, <2>2
  <2>5. QED
    BY <2>1, <2>3, <2>4, AccessAssumption
<1>2. QED
  BY <1>1, Invariance, PTL

(* An account that was disabled when a login began, while that login has no
   token. *)
Barred(l) ==
  /\ \E u \in users : u.email = Body[l].email /\ u.status = "DISABLED"
  /\ loginPc[l] \in {"find", "done"}
  /\ reply[l].status # 200

(* No step takes a login past a disabled account. *)
LEMMA BarredStays ==
  ASSUME NEW l \in Logins, IInv, Barred(l), [Next]_vars
  PROVE  Barred(l)'
<1> USE DEF IInv, TypeOK
<1>1. PICK u \in users : u.email = Body[l].email /\ u.status = "DISABLED"
  BY DEF Barred
<1>2. u \in users'
  BY <1>1, AccountsStay
<1>3. reply'[l].status # 200
  BY ReplyStep DEF Barred, Issue
<1>4. loginPc'[l] \in {"find", "done"}
  <2>1. CASE FindUser(l)
    <3>1. \A v \in WithEmail(Body[l].email) : ~MayLogIn(v)
      BY <1>1 DEF WithEmail, AccountsAreSound, MayLogIn
    <3>2. Respond(l, 401, NoToken)
      BY <2>1, <3>1 DEF FindUser
    <3>3. QED
      BY <3>2, Responded
  <2>2. CASE RejectBody(l) \/ LoginFails(l)
    BY <2>2, Responded DEF RejectBody, LoginFails
  <2>3. QED
    BY <2>1, <2>2, LoginSteps DEF Barred, Verify, Issue
<1>5. QED
  BY <1>1, <1>2, <1>3, <1>4 DEF Barred

(* A login of a disabled account that is still to look it up is barred. *)
LEMMA BarredForGood ==
  ASSUME NEW l \in Logins
  PROVE  Spec => []((loginPc[l] = "find" /\ \E u \in WithEmail(Body[l].email) : u.status = "DISABLED")
                     => [](reply[l].status # 200))
<1>1. IInv /\ loginPc[l] = "find" /\ (\E u \in WithEmail(Body[l].email) : u.status = "DISABLED")
        => Barred(l)
  BY DEF IInv, LoginsAreSound, TokensAreSound, WithEmail, Barred
<1>2. IInv /\ Barred(l) /\ [Next]_vars => Barred(l)'
  BY BarredStays
<1>3. Barred(l) => reply[l].status # 200
  BY DEF Barred
<1>4. QED
  BY <1>1, <1>2, <1>3, Invariance, PTL DEF Spec

(* Nobody whose account is disabled before the login begins gets a token. *)
THEOREM TheDisabledStayOut == Spec => DisabledStaysOut
  BY BarredForGood DEF DisabledStaysOut

=============================================================================
