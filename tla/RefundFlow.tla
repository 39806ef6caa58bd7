----------------------------- MODULE RefundFlow -----------------------------
(***************************************************************************)
(* Refunds of one purchase, which two programs write about:                *)
(*   workers  process-refund.ts            jobs of PROCESS_REFUND          *)
(*   core     routes/v1/admin/billing.ts   POST /refunds of an operator    *)
(* The operator's request leaves a row of type "refund" and asks no        *)
(* provider; a job passes a purchase with such a row over, but leaves none *)
(* itself: a full refund makes the purchase "failed", a partial one leaves *)
(* no trace.  A payment event for the purchase writes "completed" over     *)
(* that (billing purchases.ts).  A job that is tried again begins as any   *)
(* other.                                                                  *)
(* POST /billing/refunds (refunds-clean.ts) changes nothing: it looks for  *)
(* a payment whose status is "succeeded", and payments are "success".      *)
(***************************************************************************)
EXTENDS Naturals, FiniteSets

CONSTANTS
    Refunders,      \* requests and attempts of jobs, at a time
    \* Bounds of the model:
    MaxRefunds,     \* how many there are in all
    MaxRefundFaults,    \* answers of the provider that are lost, and crashes
    MaxFulfilments  \* payment events

ASSUME RefundAssumption ==
    /\ IsFiniteSet(Refunders)
    /\ {MaxRefunds, MaxRefundFaults, MaxFulfilments} \subseteq Nat

VARIABLES
    purchase,       \* purchases.status
    payment,        \* the row of the payment: "none", "row" or "linked"
    failing,        \* a failed payment event has read it as pending
    recorded,       \* there is a row of type "refund"
    stage, kind,    \* of a refunder
    asked, refundFaults, fulfilments,
    \* History of the property:
    issued,         \* refunds that the provider has made
    unrecorded,     \* those that no write will follow
    window,         \* most refunders between reading the status and closing
    earlier         \* the windows before a payment event reopened it, added up

purchaseVars == <<purchase, payment, failing, recorded>>
refunderVars == <<stage, kind, asked>>
refundHistory == <<issued, unrecorded, window, earlier>>
refundVars == <<purchaseVars, refunderVars, refundFaults,
                fulfilments, refundHistory>>

Kinds == {"request", "full", "partial"}
Issuing == {"existing", "provider"}
Owing == {"mark"}       \* the refund is made, the purchase still open
RefundTypeOK ==
    /\ purchase \in {"pending", "completed", "failed"}
    /\ payment \in {"none", "row", "linked"}
    /\ failing \in BOOLEAN /\ recorded \in BOOLEAN
    /\ stage \in [Refunders -> {"idle", "request"} \cup Issuing \cup Owing]
    /\ kind \in [Refunders -> Kinds]
    /\ {asked, refundFaults, fulfilments} \subseteq Nat
    /\ {issued, unrecorded, window, earlier} \subseteq Nat

RefundInit ==
    /\ purchase = "pending" /\ payment = "none"
    /\ failing = FALSE /\ recorded = FALSE
    /\ stage = [x \in Refunders |-> "idle"]
    /\ kind = [x \in Refunders |-> "request"]
    /\ asked = 0 /\ refundFaults = 0 /\ fulfilments = 0
    /\ issued = 0 /\ unrecorded = 0 /\ window = 0 /\ earlier = 0

-----------------------------------------------------------------------------
Undecided == {x \in Refunders : stage[x] \in Issuing \cup Owing}

RefundFault ==
    refundFaults < MaxRefundFaults /\ refundFaults' = refundFaults + 1

(* The refunder goes on, or has ended.                                     *)
Turns(x, to) == stage' = [stage EXCEPT ![x] = to] /\ UNCHANGED <<kind, asked>>
Ends(x) ==
    /\ stage' = [stage EXCEPT ![x] = "idle"]
    /\ kind' = [kind EXCEPT ![x] = "request"]
    /\ UNCHANGED asked

-----------------------------------------------------------------------------
(* createPurchase for a payment event that names the purchase.  When it    *)
(* opens one that a refund had closed, the history begins anew.            *)
Fulfil ==
    /\ fulfilments < MaxFulfilments
    /\ fulfilments' = fulfilments + 1
    /\ purchase' = "completed"
    /\ IF purchase # "completed" /\ ~recorded
       THEN /\ earlier' = earlier + window
            /\ window' = Cardinality(Undecided)
       ELSE UNCHANGED <<earlier, window>>
    /\ UNCHANGED <<payment, failing, recorded, refunderVars, refundFaults,
                   issued, unrecorded>>

(* markPurchaseFailed reads the purchase, and writes by id.                *)
ReadFailing ==
    /\ purchase = "pending"
    /\ failing' = TRUE
    /\ UNCHANGED <<purchase, payment, recorded, refunderVars, refundFaults,
                   fulfilments, refundHistory>>

MarkFailed ==
    /\ failing
    /\ purchase' = "failed" /\ failing' = FALSE
    /\ UNCHANGED <<payment, recorded, refunderVars, refundFaults, fulfilments,
                   refundHistory>>

(* The row of the payment, then the purchase's reference to it.            *)
RecordPayment ==
    /\ purchase # "pending"
    /\ \/ payment = "none" /\ payment' = "row"
       \/ payment = "row" /\ payment' = "linked"
    /\ UNCHANGED <<purchase, failing, recorded, refunderVars, refundFaults,
                   fulfilments, refundHistory>>

(* The purchase is read: it has to be completed, and for a job to refer to *)
(* its payment.                                                            *)
ReadPurchase(x, t) ==
    /\ asked < MaxRefunds /\ stage[x] = "idle"
    /\ purchase = "completed"
    /\ t # "request" => payment = "linked"
    /\ asked' = asked + 1
    /\ stage' = [stage EXCEPT ![x] =
                    IF t = "request" THEN "request" ELSE "existing"]
    /\ kind' = [kind EXCEPT ![x] = t]
    /\ LET n == Cardinality(Undecided) + 1 IN
         window' = IF t # "request" /\ ~recorded /\ n > window THEN n
                   ELSE window
    /\ UNCHANGED <<purchaseVars, refundFaults, fulfilments,
                   issued, unrecorded, earlier>>

(* The operator's row names the license of the payment; without a payment  *)
(* it names none, and the foreign key refuses it.                          *)
RecordRequest(x) ==
    /\ stage[x] = "request"
    /\ recorded' = (recorded \/ payment # "none")
    /\ Ends(x)
    /\ UNCHANGED <<purchase, payment, failing, refundFaults, fulfilments,
                   refundHistory>>

(* Mutant of HasRefund: only refunds that have succeeded count, and the    *)
(* operator's rows stay pending.                                           *)
HasRefundSucceeded == FALSE
HasRefund == recorded

FindExisting(x) ==
    /\ stage[x] = "existing"
    /\ IF HasRefund THEN Ends(x) ELSE Turns(x, "provider")
    /\ UNCHANGED <<purchaseVars, refundFaults, fulfilments,
                   refundHistory>>

(* adapter.createRefund has no idempotency key.  The provider may refuse;  *)
(* it may also have made the refund and its answer be lost.                *)
CreateRefund(x) ==
    /\ stage[x] = "provider"
    /\ issued' = issued + 1
    /\ \/ kind[x] = "full" /\ Turns(x, "mark")
          /\ UNCHANGED <<unrecorded, refundFaults>>
       \/ kind[x] = "partial" /\ Ends(x)
          /\ unrecorded' = unrecorded + 1
          /\ UNCHANGED refundFaults
       \/ RefundFault /\ Ends(x)
          /\ unrecorded' = unrecorded + 1
    /\ UNCHANGED <<purchaseVars, fulfilments, window, earlier>>

ClosePurchase(x) ==
    /\ stage[x] = "mark"
    /\ purchase' = "failed"
    /\ Ends(x)
    /\ UNCHANGED <<payment, failing, recorded, refundFaults, fulfilments,
                   refundHistory>>

(* The provider refuses, a query fails or the process dies.                *)
RefundFails(x) ==
    /\ stage[x] # "idle"
    /\ RefundFault
    /\ Ends(x)
    /\ unrecorded' = IF stage[x] \in Owing THEN unrecorded + 1
                     ELSE unrecorded
    /\ UNCHANGED <<purchaseVars, fulfilments, issued, window,
                   earlier>>

RefundNext ==
    \/ Fulfil \/ RecordPayment \/ ReadFailing \/ MarkFailed
    \/ \E x \in Refunders :
        \/ \E t \in Kinds : ReadPurchase(x, t)
        \/ RecordRequest(x) \/ FindExisting(x) \/ CreateRefund(x)
        \/ ClosePurchase(x) \/ RefundFails(x)

RefundSpec == RefundInit /\ [][RefundNext]_refundVars

-----------------------------------------------------------------------------
(* However jobs, their repetitions and requests interleave, a purchase is  *)
(* refunded at most once for each job that had read it as completed before *)
(* the first closed it or a request was recorded, and once more for each   *)
(* refund of which nothing was written: a partial one, or one whose job    *)
(* failed after the provider had made it.  A payment event that reopens    *)
(* the purchase begins another such window.                                *)
RefundsBounded == issued <= window + unrecorded + earlier
=============================================================================
