------------------------- MODULE MCLicenseFulfilment -------------------------
(***************************************************************************)
(* Instances of LicenseFulfilment.  The events are those a provider sends  *)
(* for one checkout or two; the names say which.                           *)
(***************************************************************************)
EXTENDS LicenseFulfilment

CONSTANTS u1, u2, p1, p2, pay, act, gone, bad, refund, other,
          t1, t2, t3, t4, s1, s2

(* Dodo announces a subscription twice: payment.succeeded and              *)
(* subscription.active, with transaction ids of their own (pay, act); it   *)
(* ends with subscription.cancelled (gone) or goes on hold (bad).  Stripe  *)
(* sends one event per payment.  other is a payment of a second customer.  *)
AllTagged == {pay, act, bad, other}

MCBuyer == [p \in Purchases |-> IF p = p1 THEN u1 ELSE u2]
MCKind == [e \in Events |-> CASE e \in {pay, act, other} -> "succeeded"
                               [] e = gone -> "canceled"
                               [] e = bad -> "failed"
                               [] OTHER -> "refunded"]
MCPurchaseOf == [e \in Events |-> IF e = other THEN p2 ELSE p1]
MCTagged == Events \cap AllTagged
MCTxnOf == [e \in Events |-> IF e = act THEN t2 ELSE t1]
MCOneOff == [e \in Events |-> NoSub]
MCPayer == [e \in Events |-> IF e = other THEN u2 ELSE u1]

MCOnce == [e \in Events |-> 1]
(* BullMQ's three attempts of the payment, one run of anything else.       *)
MCAttempts == [e \in Events |-> IF e = pay THEN 3 ELSE 1]
=============================================================================
