---------------------------- MODULE PaymentLedger ----------------------------
(***************************************************************************)
(* What payment-service promises to the rest of the platform, without its  *)
(* calls, retries and timeouts: an idempotency key names one payment; the  *)
(* payment is claimed before the provider decides about it; the provider   *)
(* decides once; the payment settles once, the way the provider decided,   *)
(* is announced in the same step, and an order has at most one captured    *)
(* payment.                                                                *)
(***************************************************************************)
CONSTANTS Keys, OrderOf

VARIABLES
  payment,   \* "unopened", "open", "captured" or "failed"
  verdict,   \* the provider's decision: "none", "approved" or "declined"
  announced  \* the kinds of event published about the payment

vars == <<payment, verdict, announced>>

Init ==
  /\ payment = [k \in Keys |-> "unopened"]
  /\ verdict = [k \in Keys |-> "none"]
  /\ announced = [k \in Keys |-> {}]

Open(k) ==
  /\ payment[k] = "unopened"
  /\ payment' = [payment EXCEPT ![k] = "open"]
  /\ UNCHANGED <<verdict, announced>>

Decide(k) ==
  /\ payment[k] = "open"
  /\ verdict[k] = "none"
  /\ \E v \in {"approved", "declined"} : verdict' = [verdict EXCEPT ![k] = v]
  /\ UNCHANGED <<payment, announced>>

Capture(k) ==
  /\ payment[k] = "open"
  /\ verdict[k] = "approved"
  /\ \A j \in Keys : OrderOf[j] = OrderOf[k] => payment[j] # "captured"
  /\ payment' = [payment EXCEPT ![k] = "captured"]
  /\ announced' = [announced EXCEPT ![k] = {"payment.captured"}]
  /\ UNCHANGED verdict

Reject(k) ==
  /\ payment[k] = "open"
  /\ verdict[k] = "declined"
  /\ payment' = [payment EXCEPT ![k] = "failed"]
  /\ announced' = [announced EXCEPT ![k] = {"payment.failed"}]
  /\ UNCHANGED verdict

Next == \E k \in Keys : Open(k) \/ Decide(k) \/ Capture(k) \/ Reject(k)

Spec == Init /\ [][Next]_vars

=============================================================================
