---------------------------- MODULE EventDelivery ----------------------------
(***************************************************************************)
(* What outbox, broker and inbox promise together: an event that was       *)
(* committed is handled in the end or parked for an operator, nothing else *)
(* is, and an event is handled again only after the lease of a claim on it *)
(* ran out.                                                                *)
(***************************************************************************)
EXTENDS Naturals

CONSTANT Events

VARIABLES
  committed,  \* events in the outbox
  effects,    \* how often an event's work was done
  lapsed,     \* events with a claim that ran out
  parked      \* events given up by the broker

vars == <<committed, effects, lapsed, parked>>

Init ==
  /\ committed = {}
  /\ effects = [e \in Events |-> 0]
  /\ lapsed = {}
  /\ parked = {}

Commit(e) ==
  /\ e \notin committed
  /\ committed' = committed \cup {e}
  /\ UNCHANGED <<effects, lapsed, parked>>

Do(e) ==
  /\ e \in committed
  /\ effects' = [effects EXCEPT ![e] = @ + 1]
  /\ UNCHANGED <<committed, lapsed, parked>>

Handle(e) == effects[e] = 0 /\ Do(e)

HandleAgain(e) == e \in lapsed /\ effects[e] > 0 /\ Do(e)

Lapse(e) ==
  /\ e \in committed
  /\ lapsed' = lapsed \cup {e}
  /\ UNCHANGED <<committed, effects, parked>>

Park(e) ==
  /\ e \in committed
  /\ parked' = parked \cup {e}
  /\ UNCHANGED <<committed, effects, lapsed>>

Next ==
  \E e \in Events : Commit(e) \/ Handle(e) \/ HandleAgain(e) \/ Lapse(e) \/ Park(e)

(* An event does not stay neither handled nor parked. *)
Settle(e) == e \notin parked /\ effects[e] = 0 /\ (Handle(e) \/ Park(e))

Spec == Init /\ [][Next]_vars /\ \A e \in Events : WF_vars(Settle(e))

=============================================================================
