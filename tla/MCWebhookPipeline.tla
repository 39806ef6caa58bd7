-------------------------- MODULE MCWebhookPipeline --------------------------
(* Finite instances of WebhookPipeline for TLC.                            *)
EXTENDS WebhookPipeline, TLC

CONSTANTS pay,      \* a payment event with one id (Stripe, LemonSqueezy)
          dodoPay,  \* a payment event whose verified id differs (Dodo)
          other,    \* a genuine event that carries no payment
          badSig,   \* an event no active configuration verifies
          idPay, idDodoHeader, idDodo, idOther, idBad

MCIds == {idPay, idDodoHeader, idDodo, idOther, idBad}

MCIngressId == [e \in Events |->
    CASE e = pay -> idPay
      [] e = dodoPay -> idDodoHeader
      [] e = other -> NoId          \* an unparsable or id-less body
      [] e = badSig -> idBad]

MCVerifiedId == [e \in Events |->
    CASE e = pay -> idPay
      [] e = dodoPay -> idDodo
      [] e = other -> idOther
      [] e = badSig -> idBad]

MCGenuine == Events \ {badSig}
MCRestorable == {}
MCAllRestorable == MCGenuine
MCPayment == Events \ {other}

LogSymmetry == Permutations(Logs)
=============================================================================
