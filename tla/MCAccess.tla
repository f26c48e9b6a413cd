------------------------------- MODULE MCAccess -------------------------------
(***************************************************************************)
(* An instance of Access for TLC: two tenants race for one email, one of   *)
(* them has a second account.                                              *)
(***************************************************************************)
EXTENDS Access, TLC

CONSTANTS r1, r2, r3, l1, l2, e1, e2, p1, p2, t1, t2

const_Form ==
  (r1 :> [tenantId |-> t1, email |-> e1, password |-> p1])
    @@ (r2 :> [tenantId |-> t2, email |-> e1, password |-> p2])
    @@ (r3 :> [tenantId |-> t2, email |-> e2, password |-> p1])

const_Body ==
  (l1 :> [email |-> e1, password |-> p1])
    @@ (l2 :> [email |-> e2, password |-> p1])
=============================================================================
