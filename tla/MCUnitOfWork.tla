----------------------------- MODULE MCUnitOfWork -----------------------------
(***************************************************************************)
(* An instance of UnitOfWork for TLC: two calls that write one document,   *)
(* two that announce one message, one that announces nothing.              *)
(***************************************************************************)
EXTENDS UnitOfWork, TLC

CONSTANTS c1, c2, c3, d1, d2, m1, m2

const_Subject == (c1 :> d1) @@ (c2 :> d1) @@ (c3 :> d2)

const_Announces == (c1 :> {m1}) @@ (c2 :> {}) @@ (c3 :> {m1, m2})
=============================================================================
