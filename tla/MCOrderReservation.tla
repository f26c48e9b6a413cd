-------------------------- MODULE MCOrderReservation --------------------------
(***************************************************************************)
(* An instance of OrderReservation for TLC.                                *)
(***************************************************************************)
EXTENDS OrderReservation, TLC

RequestSymmetry == Permutations(Requests)
=============================================================================
