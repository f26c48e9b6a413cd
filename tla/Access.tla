-------------------------------- MODULE Access --------------------------------
(***************************************************************************)
(* From registration to data: identity-service issues a token, and a       *)
(* request that carries it works on the documents of the token's tenant.   *)
(* The gateway, which verifies the token and opens the request's context   *)
(* with its tid, is described in docs/ARCHITECTURE.md and is not in the    *)
(* repository: Authenticate stands for it.                                 *)
(***************************************************************************)
EXTENDS Identity, TenantScope

CONSTANT NoLogin

ASSUME AccessAssumption == NoLogin \notin Logins

VARIABLE carries   \* the login whose token a request carries

vars == <<identityVars, scopeVars, carries>>

Init == InitIdentity /\ InitScope /\ carries = [r \in Requests |-> NoLogin]

Authenticate(r, l) ==
  /\ reply[l].status = 200
  /\ Run(r, reply[l].token.tid)
  /\ carries' = [carries EXCEPT ![r] = l]
  /\ UNCHANGED identityVars

Next ==
  \/ NextIdentity /\ UNCHANGED <<scopeVars, carries>>
  \/ NextScope /\ UNCHANGED <<identityVars, carries>>
  \/ \E r \in Requests, l \in Logins : Authenticate(r, l)

Spec == Init /\ [][Next]_vars

-----------------------------------------------------------------------------

(* Every variable holds a value of its type. *)
TypeOK == IdentityTypeOK /\ ScopeTypeOK /\ carries \in [Requests -> Logins \cup {NoLogin}]

(* "A tenant can never see another tenant's document", nor change it: whatever
   runs in between, a request sees and changes only documents of the tenant for
   which the account behind its token was registered. *)
TenantsAreApart ==
  \A r \in Requests, o \in Orders :
    o \in seen[r] \/ r \in documents[o].changedBy =>
      \E u \in users :
        /\ carries[r] # NoLogin
        /\ WithEmail(Body[carries[r]].email) = {u}
        /\ u.tenantId = documents[o].tenantId

=============================================================================
