-------------------------- MODULE MCWebhookToLicense --------------------------
(***************************************************************************)
(* One checkout and one event of it, which "focus" chooses: each behaviour *)
(* is about that event, and the others are never delivered.                *)
(***************************************************************************)
EXTENDS WebhookToLicense, TLC

CONSTANTS pay,      \* a subscription's payment event with one id (Stripe)
          again,    \* one of an order, which rescues and operators retry
          dodoPay,  \* a payment event whose verified id differs (Dodo)
          bad,      \* a failed payment
          other,    \* a genuine event that carries no payment
          forged,   \* what no provider signed, and would be a payment
          u1, p1, t1, s1

VARIABLE focus

MCIds == {<<e, i>> : e \in Events, i \in {"header", "body"}}
MCIngressId == [e \in Events |-> CASE e = dodoPay -> <<e, "header">>
                                   [] e = other -> NoId
                                   [] OTHER -> <<e, "body">>]
MCVerifiedId == [e \in Events |-> <<e, "body">>]
MCPayment == Events \ {other}
MCRestorable == {again}

MCBuyer == [p \in Purchases |-> u1]
MCKind == [e \in Events |-> IF e = bad THEN "failed" ELSE "succeeded"]
MCPurchaseOf == [e \in Events |-> p1]
MCTxnOf == [e \in Events |-> t1]
MCSubOf == [e \in Events |-> IF e \in {pay, bad} THEN s1 ELSE NoSub]
MCPayer == [e \in Events |-> u1]

FocusInit == PathInit /\ focus \in Events

(* What else may happen: rescues and operators in the stories of again and *)
(* other, redeliveries in the rest, crashes of the worker in those of pay  *)
(* and bad, logins in all but those of dodoPay and other.                  *)
Within ==
    /\ \A e \in Events \ {focus} : deliveries'[e] = 0
    /\ focus \notin {again, other} => rescue' = {} /\ UNCHANGED admin
    /\ focus \notin {pay, bad} => crashes' = 0
    /\ focus \in {again, other} => deliveries'[focus] <= 1
    /\ focus = dodoPay => UNCHANGED license \/ stage' # stage
    /\ focus = other => UNCHANGED recordVars

FocusNext == PathNext /\ Within /\ UNCHANGED focus

FocusSpec == FocusInit /\ [][FocusNext]_<<pathVars, focus>>

RowSymmetry == Permutations(Logs)
=============================================================================
