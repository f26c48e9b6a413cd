------------------------------- MODULE Identity -------------------------------
(***************************************************************************)
(* identity-service: RegisterUserUseCase and POST /login, over the users   *)
(* collection and its unique index on email.                               *)
(*                                                                         *)
(* Every await is a step boundary: other registrations and logins run      *)
(* between the lookup of an email and the insert, and between the lookup   *)
(* of an account and the token.  A userId is the registration that made    *)
(* it; a password stands for its argon2 hash; name and roles are left out. *)
(* Nothing in the repository writes DISABLED: Disable is an operator.      *)
(*                                                                         *)
(* A definition named Faulty_... is a bug the properties must notice: it   *)
(* takes no part in the specification.                                     *)
(***************************************************************************)
EXTENDS Naturals, Tenancy

CONSTANTS
  Registrations,  \* calls of RegisterUserUseCase.execute
  Logins,         \* requests to POST /login
  Emails, Passwords,
  Form,           \* what each registration asks for
  Body,           \* what each login sends
  NoUser

ASSUME IdentityAssumption ==
  /\ Form \in [Registrations -> [tenantId : Tenants, email : Emails, password : Passwords]]
  /\ Body \in [Logins -> [email : Emails, password : Passwords]]
  /\ NoUser \notin Registrations

VARIABLES
  users,              \* the users collection
  regPc, registered,  \* where a registration stands, and how it ended
  loginPc, found,     \* where a login stands, and the account it found
  reply               \* its response

registrationVars == <<regPc, registered>>
loginVars == <<loginPc, found, reply>>
identityVars == <<users, registrationVars, loginVars>>

User == [id : Registrations, tenantId : Tenants, email : Emails, password : Passwords,
         status : {"ACTIVE", "DISABLED"}]

NotFound == [id |-> NoUser]

NoToken == [sub |-> NoUser]

InitIdentity ==
  /\ users = {}
  /\ regPc = [r \in Registrations |-> "find"]
  /\ registered = [r \in Registrations |-> "NONE"]
  /\ loginPc = [l \in Logins |-> "find"]
  /\ found = [l \in Logins |-> NotFound]
  /\ reply = [l \in Logins |-> [status |-> 0, token |-> NoToken]]

-----------------------------------------------------------------------------
(* RegisterUserUseCase.                                                      *)

WithEmail(email) == {u \in users : u.email = email}

Registered(r, outcome) ==
  /\ regPc' = [regPc EXCEPT ![r] = "done"]
  /\ registered' = [registered EXCEPT ![r] = outcome]

FindByEmail(r) ==
  /\ regPc[r] = "find"
  /\ \/ /\ WithEmail(Form[r].email) # {}
        /\ Registered(r, "EMAIL_ALREADY_REGISTERED")
     \/ /\ WithEmail(Form[r].email) = {}
        /\ regPc' = [regPc EXCEPT ![r] = "insert"]
        /\ UNCHANGED registered
  /\ UNCHANGED <<users, loginVars>>

NewUser(r) ==
  [id |-> r, tenantId |-> Form[r].tenantId, email |-> Form[r].email,
   password |-> Form[r].password, status |-> "ACTIVE"]

Faulty_Free(email) == TRUE   \* the index on email is not unique

(* The unique index on email. *)
Free(email) == WithEmail(email) = {}

(* The reply of the insert may get lost: execute throws, the user is there. *)
Insert(r) ==
  /\ regPc[r] = "insert"
  /\ Free(Form[r].email)
  /\ users' = users \cup {NewUser(r)}
  /\ \E outcome \in {"REGISTERED", "ERROR"} : Registered(r, outcome)
  /\ UNCHANGED loginVars

(* The index rejects the loser of a race, and nobody turns its error into
   EmailAlreadyRegisteredError. *)
InsertRejected(r) ==
  /\ regPc[r] = "insert"
  /\ ~Free(Form[r].email)
  /\ Registered(r, "DUPLICATE_KEY")
  /\ UNCHANGED <<users, loginVars>>

RegistrationFails(r) ==
  /\ regPc[r] # "done"
  /\ Registered(r, "ERROR")
  /\ UNCHANGED <<users, loginVars>>

Disable(u) ==
  /\ u.status = "ACTIVE"
  /\ users' = (users \ {u}) \cup {[u EXCEPT !.status = "DISABLED"]}
  /\ UNCHANGED <<registrationVars, loginVars>>

-----------------------------------------------------------------------------
(* POST /login: LoginRequestSchema, LoginUseCase and the error handlers.     *)

Respond(l, status, token) ==
  /\ loginPc' = [loginPc EXCEPT ![l] = "done"]
  /\ reply' = [reply EXCEPT ![l] = [status |-> status, token |-> token]]

(* A body that LoginRequestSchema refuses gets nowhere near an account. *)
RejectBody(l) ==
  /\ loginPc[l] = "find"
  /\ Respond(l, 400, NoToken)
  /\ UNCHANGED <<users, registrationVars, found>>

Faulty_MayLogIn(u) == TRUE   \* the status is not looked at

MayLogIn(u) == u.status = "ACTIVE"

FindUser(l) ==
  /\ loginPc[l] = "find"
  /\ \/ \E u \in WithEmail(Body[l].email) :
          /\ MayLogIn(u)
          /\ found' = [found EXCEPT ![l] = u]
          /\ loginPc' = [loginPc EXCEPT ![l] = "verify"]
          /\ UNCHANGED reply
     \/ /\ WithEmail(Body[l].email) = {} \/ \E u \in WithEmail(Body[l].email) : ~MayLogIn(u)
        /\ Respond(l, 401, NoToken)
        /\ UNCHANGED found
  /\ UNCHANGED <<users, registrationVars>>

Faulty_Valid(l) == TRUE   \* the promise of verifyPassword, not what it resolves to

Valid(l) == Body[l].password = found[l].password

Verify(l) ==
  /\ loginPc[l] = "verify"
  /\ \/ Valid(l) /\ loginPc' = [loginPc EXCEPT ![l] = "issue"] /\ UNCHANGED reply
     \/ ~Valid(l) /\ Respond(l, 401, NoToken)
  /\ UNCHANGED <<users, registrationVars, found>>

Faulty_Claims(u) == [sub |-> u.tenantId, tid |-> u.id]   \* swapped

Claims(u) == [sub |-> u.id, tid |-> u.tenantId]

(* issueAccessToken, from the account as it was found. *)
Issue(l) ==
  /\ loginPc[l] = "issue"
  /\ Respond(l, 200, Claims(found[l]))
  /\ UNCHANGED <<users, registrationVars, found>>

LoginFails(l) ==
  /\ loginPc[l] # "done"
  /\ Respond(l, 500, NoToken)
  /\ UNCHANGED <<users, registrationVars, found>>

NextIdentity ==
  \/ \E r \in Registrations : FindByEmail(r) \/ Insert(r) \/ InsertRejected(r) \/ RegistrationFails(r)
  \/ \E u \in users : Disable(u)
  \/ \E l \in Logins : RejectBody(l) \/ FindUser(l) \/ Verify(l) \/ Issue(l) \/ LoginFails(l)

-----------------------------------------------------------------------------
(* Properties.                                                               *)

IdentityTypeOK ==
  /\ users \subseteq User
  /\ regPc \in [Registrations -> {"find", "insert", "done"}]
  /\ registered \in [Registrations -> {"NONE", "REGISTERED", "EMAIL_ALREADY_REGISTERED",
                                       "DUPLICATE_KEY", "ERROR"}]
  /\ loginPc \in [Logins -> {"find", "verify", "issue", "done"}]
  /\ found \in [Logins -> User \cup {NotFound}]
  /\ reply \in [Logins -> [status : {0, 200, 400, 401, 500},
       token : [sub : Registrations, tid : Tenants] \cup {NoToken}]]

(* However registrations of one email race, one at most is told it registered,
   its account is there, and who is told the email is taken lost to an account. *)
OneRegistrationPerEmail ==
  \A r \in Registrations :
    /\ registered[r] = "REGISTERED" => {u.id : u \in WithEmail(Form[r].email)} = {r}
    /\ registered[r] \in {"EMAIL_ALREADY_REGISTERED", "DUPLICATE_KEY"} =>
         \E u \in WithEmail(Form[r].email) : u.id # r

(* "Email is globally unique across the whole platform": every token given for
   an email names the account, and the tenant, that was registered with it, and
   was given for that account's password, also after other registrations. *)
TokensNameTheAccount ==
  \A l \in Logins : reply[l].status = 200 =>
    \E u \in users :
      /\ WithEmail(Body[l].email) = {u}
      /\ reply[l].token = [sub |-> u.id, tid |-> u.tenantId]
      /\ Body[l].password = u.password

(* A login that starts after its account was disabled gets no token.  Nothing is
   said of an account that is disabled during the password check: its login has
   looked at the status before and goes through. *)
DisabledStaysOut ==
  \A l \in Logins :
    []((loginPc[l] = "find" /\ \E u \in WithEmail(Body[l].email) : u.status = "DISABLED")
         => [](reply[l].status # 200))

=============================================================================
