------------------------------- MODULE MCInbox -------------------------------
(***************************************************************************)
(* An instance of Inbox for TLC: two handlers of one pod, others alone.    *)
(***************************************************************************)
EXTENDS Inbox

CONSTANTS h1, h2, p1, p2

const_PodOf == [h \in Handlers |-> IF h \in {h1, h2} THEN p1 ELSE p2]
=============================================================================
