---------------------------- MODULE MCOutboxRelay ----------------------------
(***************************************************************************)
(* Instances of OutboxRelay for TLC.  A row is the number that orders it.  *)
(***************************************************************************)
EXTENDS OutboxRelay

const_OccurredAt == [r \in Rows |-> r]
const_AggregateOf == [r \in Rows |-> "payment"]
=============================================================================
