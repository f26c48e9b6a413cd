------------------------------ MODULE MCPayment ------------------------------
(***************************************************************************)
(* Instances of Payment for TLC: two keys of one order, so that the unique *)
(* index on the order can collide.                                         *)
(***************************************************************************)
EXTENDS Payment

CONSTANTS k1, k2, order

const_OrderOf == [k \in Keys |-> order]

(* A retry of k1 may carry another card and, with 200, another amount. *)
const_Commands ==
  [key : {k1}, amount : {100}, token : Tokens]
    \cup [key : {k1}, amount : {200}, token : {"visa"}]
    \cup [key : {k2}, amount : {100}, token : {"visa", "declined", "timeout"}]
=============================================================================
