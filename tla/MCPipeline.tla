------------------------------ MODULE MCPipeline ------------------------------
(***************************************************************************)
(* An instance of Pipeline for TLC: two handlers in two pods.              *)
(***************************************************************************)
EXTENDS Pipeline, TLC

CONSTANTS h1, h2, p1, p2

const_OccurredAt == [m \in Events |-> 1]

const_AggregateOf == [m \in Events |-> "order"]

const_PodOf == (h1 :> p1) @@ (h2 :> p2)
=============================================================================
