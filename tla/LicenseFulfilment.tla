--------------------------- MODULE LicenseFulfilment ---------------------------
(***************************************************************************)
(* What a payment event does to a customer's records, and what runs beside *)
(* it:                                                                     *)
(*   billing  services/webhook-processor.ts   processWebhookEvent          *)
(*   billing  services/purchases.ts           createPurchaseRecords        *)
(*   billing  services/license-manager.ts     transitionLicenseState       *)
(*   core     routes/v1/billing/checkout.ts   POST /checkout               *)
(*   core     routes/v1/subscription/index.ts POST /cancel, POST /resume   *)
(*   core     utils/license.ts                ensureLicenseForApp          *)
(*   gateway  routes/license.ts               GET /v1/license/:appId       *)
(* None of it runs in a database transaction: every database call is a     *)
(* step, and any of them can fail.  One app; a user has one license in it. *)
(* WebhookPipeline decides when an event runs: one handler at a time for   *)
(* an event, several events at once, and an event may run again.           *)
(***************************************************************************)
EXTENDS Naturals, FiniteSets

CONSTANTS
    Users, Purchases, Txns, Subs, Events,
    NoUser, NoTxn, NoSub,
    Buyer,      \* the user a checkout is made for (metadata.userId)
    Discounted, \* checkouts that resolved a promotion code
    Kind,       \* PaymentDetails.status of an event
    PurchaseOf, \* the checkout an event comes from
    Tagged,     \* events that carry the checkout's metadata
    TxnOf,      \* PaymentDetails.transactionId
    SubOf,      \* PaymentDetails.subscriptionId
    Payer,      \* the user whose primary email is the event's customerEmail
    \* Bounds of the model:
    MaxRuns,    \* times the queue runs one event
    MaxFaults,  \* failing steps: a database error, a dead worker
    MaxReads    \* cache misses of GET /v1/license

BuyerOf(e) == Buyer[PurchaseOf[e]]

ASSUME ConstantsAssumption ==
    /\ NoUser \notin Users /\ NoTxn \notin Txns /\ NoSub \notin Subs
    /\ Buyer \in [Purchases -> Users]
    /\ Discounted \subseteq Purchases
    /\ Kind \in [Events -> {"succeeded", "canceled", "failed", "refunded"}]
    /\ PurchaseOf \in [Events -> Purchases]
    /\ Tagged \subseteq Events
    /\ TxnOf \in [Events -> Txns]
    /\ SubOf \in [Events -> Subs \cup {NoSub}]
    /\ Payer \in [Events -> Users \cup {NoUser}]
    /\ MaxRuns \in [Events -> Nat]
    /\ {MaxFaults, MaxReads} \subseteq Nat

(* Finitely many events have arrived.                                      *)
ASSUME FiniteAssumption == IsFiniteSet(Events)

(* Providers do not give two customers one transaction or subscription id. *)
ASSUME OwnIdsAssumption ==
    \A e, f \in Events :
        TxnOf[e] = TxnOf[f] \/ (SubOf[e] = SubOf[f] /\ SubOf[e] # NoSub)
            => BuyerOf(e) = BuyerOf(f)

VARIABLES
    checkout,    \* POST /checkout: new, session made, closed
    purchase,    \* purchases.status, "none" without a row
    promo,       \* purchases.promotion_code_id is set
    linked,      \* purchases.payment_transaction_id
    license,     \* licenses.status of a user, "none" without a row
    txnUser,     \* owner of the license a payment_transactions row names
    sub,         \* subscriptions.status, "none" without a row
    atEnd,       \* subscriptions.cancel_at_period_end
    subUser,     \* subscriptions.user_id
    redemptions, \* promotion_redemptions rows of a purchase
    uses,        \* promotion_codes.current_uses
    redeemed,    \* promotions.current_redemptions
    created,     \* license_history rows "created" of a user
    trail,       \* newest status that license_history tells of a user's license
    sent,        \* outbound events, with the provider event or the
                 \* subscription (a customer's request) behind each
    pc,          \* where the handler of an event is
    seen,        \* whether the handler's last read found its row
    made,        \* createdLicense
    target,      \* owner of the license a handler has found
    runs, handled, faults,
    reader, cached, reads   \* gateway reads of the license, and their cache

purchaseVars == <<purchase, promo, linked>>
subVars == <<sub, atEnd, subUser>>
promoVars == <<redemptions, uses, redeemed>>
historyVars == <<created, trail>>
runVars == <<runs, handled>>
localVars == <<seen, made, target>>
readVars == <<reader, reads>>
cacheVars == <<readVars, cached>>
vars == <<checkout, purchaseVars, license, txnUser, subVars, promoVars,
          historyVars, sent, pc, localVars, runVars, faults, cacheVars>>

-----------------------------------------------------------------------------
LicenseStatus == {"none", "active", "suspended", "canceled", "refunded"}
Stage == {"idle", "purchase", "findLicense", "license", "txn", "link",
          "redeem", "uses", "total", "findSub", "sub", "announce", "history",
          "drop", "mark", "find", "set", "note", "forget", "tell"}
OutboundName == {"license.created", "license.renewed", "subscription.created",
                 "subscription.renewed", "subscription.canceled",
                 "subscription.resumed",
                 "subscription.payment_failed", "subscription.refunded"}

TypeOK ==
    /\ checkout \in [Purchases -> {"new", "session", "closed"}]
    /\ purchase \in [Purchases -> {"none", "pending", "completed", "failed"}]
    /\ promo \in [Purchases -> BOOLEAN]
    /\ linked \in [Purchases -> Txns \cup {NoTxn}]
    /\ license \in [Users -> LicenseStatus]
    /\ txnUser \in [Txns -> Users \cup {NoUser}]
    /\ sub \in [Subs -> {"none", "active", "canceled"}]
    /\ atEnd \in [Subs -> BOOLEAN]
    /\ subUser \in [Subs -> Users \cup {NoUser}]
    /\ redemptions \in [Purchases -> Nat]
    /\ uses \in Nat /\ redeemed \in Nat
    /\ created \in [Users -> Nat]
    /\ trail \in [Users -> LicenseStatus]
    /\ sent \subseteq OutboundName \X (Events \cup Subs)
    /\ pc \in [Events -> Stage]
    /\ seen \in [Events -> BOOLEAN]
    /\ made \in [Events -> BOOLEAN]
    /\ target \in [Events -> Users \cup {NoUser}]
    /\ runs \in [Events -> Nat]
    /\ handled \subseteq Events
    /\ faults \in Nat
    /\ reader \in [Users -> LicenseStatus \cup {"idle"}]
    /\ cached \in [Users -> LicenseStatus \cup {"empty"}]
    /\ reads \in Nat

Init ==
    /\ checkout = [p \in Purchases |-> "new"]
    /\ purchase = [p \in Purchases |-> "none"]
    /\ promo = [p \in Purchases |-> FALSE]
    /\ linked = [p \in Purchases |-> NoTxn]
    /\ license = [u \in Users |-> "none"]
    /\ txnUser = [t \in Txns |-> NoUser]
    /\ sub = [s \in Subs |-> "none"]
    /\ atEnd = [s \in Subs |-> FALSE]
    /\ subUser = [s \in Subs |-> NoUser]
    /\ redemptions = [p \in Purchases |-> 0]
    /\ uses = 0 /\ redeemed = 0
    /\ created = [u \in Users |-> 0]
    /\ trail = [u \in Users |-> "none"]
    /\ sent = {}
    /\ pc = [e \in Events |-> "idle"]
    /\ seen = [e \in Events |-> FALSE]
    /\ made = [e \in Events |-> FALSE]
    /\ target = [e \in Events |-> NoUser]
    /\ runs = [e \in Events |-> 0]
    /\ handled = {}
    /\ faults = 0
    /\ reader = [u \in Users |-> "idle"]
    /\ cached = [u \in Users |-> "empty"]
    /\ reads = 0

Fault == faults < MaxFaults /\ faults' = faults + 1

(* The handler of e moves from one stage to another.                       *)
Move(e, from, to) == pc[e] = from /\ pc' = [pc EXCEPT ![e] = to]

(* The handler returns: the event is handled.                              *)
Return(e, from) == Move(e, from, "idle") /\ handled' = handled \cup {e}

-----------------------------------------------------------------------------
(* Checkout: the provider session first, the pending purchase after it.    *)

OpenCheckout(p) ==
    /\ checkout[p] = "new"
    /\ checkout' = [checkout EXCEPT ![p] = "session"]
    /\ UNCHANGED <<purchaseVars, license, txnUser, subVars, promoVars,
                   historyVars, sent, pc, localVars, runVars, faults, cacheVars>>

(* The insert; public_id is unique, and any error is logged and swallowed. *)
RecordCheckout(p) ==
    /\ checkout[p] = "session"
    /\ checkout' = [checkout EXCEPT ![p] = "closed"]
    /\ \/ /\ purchase[p] = "none"
          /\ purchase' = [purchase EXCEPT ![p] = "pending"]
          /\ promo' = [promo EXCEPT ![p] = p \in Discounted]
          /\ UNCHANGED faults
       \/ purchase[p] # "none" /\ UNCHANGED <<purchase, promo, faults>>
       \/ Fault /\ UNCHANGED <<purchase, promo>>
    /\ UNCHANGED <<linked, license, txnUser, subVars, promoVars, historyVars,
                   sent, pc, localVars, runVars, cacheVars>>

-----------------------------------------------------------------------------
(* processWebhookEvent: a run starts, and each run starts from nothing.    *)

FirstStage(e) == IF Kind[e] = "succeeded" THEN "purchase"
                 ELSE IF Kind[e] = "failed" THEN "mark" ELSE "find"

(* Mutant of Start: the pending purchase is not looked up.                 *)
StartBlind(e) ==
    /\ pc[e] = "idle"
    /\ checkout[PurchaseOf[e]] # "new"
    /\ runs[e] < MaxRuns[e]
    /\ Kind[e] = "succeeded" => e \in Tagged
    /\ runs' = [runs EXCEPT ![e] = @ + 1]
    /\ pc' = [pc EXCEPT ![e] = FirstStage(e)]
    /\ seen' = [seen EXCEPT ![e] = FALSE]
    /\ made' = [made EXCEPT ![e] = FALSE]
    /\ target' = [target EXCEPT ![e] = NoUser]
    /\ UNCHANGED <<checkout, purchaseVars, license, txnUser, subVars,
                   promoVars, historyVars, sent, handled, faults, cacheVars>>

(* Without the checkout's metadata createPurchaseRecords throws at once;   *)
(* markPurchaseFailed finds no row.  The first read is part of the start.  *)
Start(e) ==
    /\ pc[e] = "idle"
    /\ checkout[PurchaseOf[e]] # "new"
    /\ runs[e] < MaxRuns[e]
    /\ Kind[e] = "succeeded" => e \in Tagged
    /\ runs' = [runs EXCEPT ![e] = @ + 1]
    /\ pc' = [pc EXCEPT ![e] = FirstStage(e)]
    /\ seen' = [seen EXCEPT ![e] =
          \/ Kind[e] = "succeeded" /\ purchase[PurchaseOf[e]] # "none"
          \/ /\ Kind[e] = "failed" /\ e \in Tagged
             /\ purchase[PurchaseOf[e]] = "pending"]
    /\ made' = [made EXCEPT ![e] = FALSE]
    /\ target' = [target EXCEPT ![e] = NoUser]
    /\ UNCHANGED <<checkout, purchaseVars, license, txnUser, subVars,
                   promoVars, historyVars, sent, handled, faults, cacheVars>>

Busy == {e \in Events : pc[e] # "idle"}

(* Database calls fail, or the worker process dies with every handler it   *)
(* runs: their jobs will run again.                                        *)
Fail(some) ==
    /\ some # {} /\ some \subseteq Busy
    /\ faults + Cardinality(some) <= MaxFaults
    /\ faults' = faults + Cardinality(some)
    /\ pc' = [e \in Events |-> IF e \in some THEN "idle" ELSE pc[e]]
    /\ UNCHANGED <<checkout, purchaseVars, license, txnUser, subVars, promoVars,
                   historyVars, sent, localVars, runVars, cacheVars>>

-----------------------------------------------------------------------------
(* createPurchaseRecords. *)

(* The row found is updated; else one is inserted with the same public_id, *)
(* and if checkout has inserted it in the meantime the job fails.          *)
WritePurchase(e) ==
    LET p == PurchaseOf[e] IN
    /\ pc[e] = "purchase"
    /\ \/ /\ seen[e] \/ purchase[p] = "none"
          /\ purchase' = [purchase EXCEPT ![p] = "completed"]
          /\ pc' = [pc EXCEPT ![e] = "findLicense"]
       \/ /\ ~seen[e] /\ purchase[p] # "none"
          /\ pc' = [pc EXCEPT ![e] = "idle"]
          /\ UNCHANGED purchase
    /\ UNCHANGED <<checkout, promo, linked, license, txnUser, subVars,
                   promoVars, historyVars, sent, localVars, runVars, faults,
                   cacheVars>>

FindLicense(e) ==
    /\ Move(e, "findLicense", "license")
    /\ seen' = [seen EXCEPT ![e] = license[BuyerOf(e)] # "none"]
    /\ UNCHANGED <<checkout, purchaseVars, license, txnUser, subVars,
                   promoVars, historyVars, sent, made, target, runVars, faults,
                   cacheVars>>

(* Mutant of WriteLicense: the handler that loses the race is done.        *)
WriteLicenseGivesUp(e) ==
    LET u == BuyerOf(e) IN
    /\ IF ~seen[e] /\ license[u] # "none" THEN Return(e, "license")
       ELSE Move(e, "license", "txn") /\ UNCHANGED handled
    /\ license' = [license EXCEPT ![u] = "active"]
    /\ made' = [made EXCEPT ![e] = ~seen[e] /\ license[u] = "none"]
    /\ UNCHANGED <<checkout, purchaseVars, txnUser, subVars, promoVars,
                   historyVars, sent, seen, target, runs, faults, cacheVars>>

(* Mutant of WriteLicense: the loser of the race counts as creator too.    *)
WriteLicenseClaims(e) ==
    /\ Move(e, "license", "txn")
    /\ license' = [license EXCEPT ![BuyerOf(e)] = "active"]
    /\ made' = [made EXCEPT ![e] = ~seen[e]]
    /\ UNCHANGED <<checkout, purchaseVars, txnUser, subVars, promoVars,
                   historyVars, sent, seen, target, runVars, faults, cacheVars>>

(* Update, or insert; an insert that meets the unique key of another       *)
(* handler's row (23505) becomes an update, and the row is not "created".  *)
WriteLicense(e) ==
    LET u == BuyerOf(e) IN
    /\ Move(e, "license", "txn")
    /\ license' = [license EXCEPT ![u] = "active"]
    /\ made' = [made EXCEPT ![e] = ~seen[e] /\ license[u] = "none"]
    /\ UNCHANGED <<checkout, purchaseVars, txnUser, subVars, promoVars,
                   historyVars, sent, seen, target, runVars, faults, cacheVars>>

(* ON CONFLICT (config, transaction) keeps the first row, adding a note.   *)
RecordTransaction(e) ==
    LET t == TxnOf[e] IN
    /\ Move(e, "txn", "link")
    /\ txnUser' = IF txnUser[t] = NoUser
                  THEN [txnUser EXCEPT ![t] = BuyerOf(e)] ELSE txnUser
    /\ UNCHANGED <<checkout, purchaseVars, license, subVars, promoVars,
                   historyVars, sent, localVars, runVars, faults, cacheVars>>

LinkPurchase(e) ==
    LET p == PurchaseOf[e] IN
    /\ Move(e, "link", IF promo[p] THEN "redeem" ELSE "findSub")
    /\ linked' = [linked EXCEPT ![p] = TxnOf[e]]
    /\ UNCHANGED <<checkout, purchase, promo, license, txnUser, subVars,
                   promoVars, historyVars, sent, localVars, runVars, faults,
                   cacheVars>>

Redeem(e) ==
    /\ Move(e, "redeem", "uses")
    /\ redemptions' = [redemptions EXCEPT ![PurchaseOf[e]] = @ + 1]
    /\ UNCHANGED <<checkout, purchaseVars, license, txnUser, subVars, uses,
                   redeemed, historyVars, sent, localVars, runVars, faults,
                   cacheVars>>

(* Mutant of IncrementUses: the promotion's own counter is forgotten.      *)
IncrementUsesOnly(e) ==
    /\ Move(e, "uses", "findSub")
    /\ uses' = uses + 1
    /\ UNCHANGED <<checkout, purchaseVars, license, txnUser, subVars,
                   redemptions, redeemed, historyVars, sent, localVars,
                   runVars, faults, cacheVars>>

IncrementUses(e) ==
    /\ Move(e, "uses", "total")
    /\ uses' = uses + 1
    /\ UNCHANGED <<checkout, purchaseVars, license, txnUser, subVars,
                   redemptions, redeemed, historyVars, sent, localVars,
                   runVars, faults, cacheVars>>

IncrementRedemptions(e) ==
    /\ Move(e, "total", "findSub")
    /\ redeemed' = redeemed + 1
    /\ UNCHANGED <<checkout, purchaseVars, license, txnUser, subVars,
                   redemptions, uses, historyVars, sent, localVars, runVars,
                   faults, cacheVars>>

(* Mutant of RedemptionFails: the redemption is tried again.               *)
RedemptionRetries(e) ==
    /\ pc[e] \in {"redeem", "uses", "total"}
    /\ Fault
    /\ pc' = [pc EXCEPT ![e] = "redeem"]
    /\ UNCHANGED <<checkout, purchaseVars, license, txnUser, subVars,
                   promoVars, historyVars, sent, localVars, runVars, cacheVars>>

(* A failing redemption is logged; the rest of the fulfilment goes on.     *)
RedemptionFails(e) ==
    /\ pc[e] \in {"redeem", "uses", "total"}
    /\ Fault
    /\ pc' = [pc EXCEPT ![e] = "findSub"]
    /\ UNCHANGED <<checkout, purchaseVars, license, txnUser, subVars,
                   promoVars, historyVars, sent, localVars, runVars, cacheVars>>

FindSubscription(e) ==
    /\ pc[e] = "findSub"
    /\ IF SubOf[e] = NoSub
       THEN /\ pc' = [pc EXCEPT ![e] = "announce"]
            /\ UNCHANGED seen
       ELSE /\ pc' = [pc EXCEPT ![e] = "sub"]
            /\ seen' = [seen EXCEPT ![e] = sub[SubOf[e]] # "none"]
    /\ UNCHANGED <<checkout, purchaseVars, license, txnUser, subVars,
                   promoVars, historyVars, sent, made, target, runVars, faults,
                   cacheVars>>

(* ON CONFLICT the row becomes active; its owner and cancel_at_period_end  *)
(* stay as they are.                                                       *)
UpsertSubscription(e) ==
    LET s == SubOf[e] IN
    /\ Move(e, "sub", "announce")
    /\ sub' = [sub EXCEPT ![s] = "active"]
    /\ subUser' = IF sub[s] = "none"
                  THEN [subUser EXCEPT ![s] = BuyerOf(e)] ELSE subUser
    /\ UNCHANGED <<checkout, purchaseVars, license, txnUser, atEnd, promoVars,
                   historyVars, sent, localVars, runVars, faults, cacheVars>>

Renewal(e) == {<<IF seen[e] THEN "subscription.renewed"
                 ELSE "subscription.created", e>> : s \in {SubOf[e]} \ {NoSub}}

Licensing(e) == {<<IF made[e] THEN "license.created"
                   ELSE "license.renewed", e>>}

(* fireWebhookEvent for the subscription and the license; errors of either *)
(* are logged and swallowed.                                               *)
Announce(e) ==
    /\ Move(e, "announce", IF made[e] THEN "history" ELSE "drop")
    /\ \/ sent' = sent \cup Renewal(e) \cup Licensing(e) /\ UNCHANGED faults
       \/ /\ Fault
          /\ \E news \in {{}, Renewal(e), Licensing(e)} :
                sent' = sent \cup news
    /\ UNCHANGED <<checkout, purchaseVars, license, txnUser, subVars,
                   promoVars, historyVars, localVars, runVars, cacheVars>>

WriteHistory(e) ==
    LET u == BuyerOf(e) IN
    /\ Move(e, "history", "drop")
    /\ created' = [created EXCEPT ![u] = @ + 1]
    /\ trail' = [trail EXCEPT ![u] = "active"]
    /\ UNCHANGED <<checkout, purchaseVars, license, txnUser, subVars,
                   promoVars, sent, localVars, runVars, faults, cacheVars>>

(* forgetUserAppCache; Redis errors are swallowed.                         *)
DropCache(u) ==
    \/ cached' = [cached EXCEPT ![u] = "empty"] /\ UNCHANGED faults
    \/ Fault /\ UNCHANGED cached

FinishPayment(e) ==
    /\ Return(e, "drop")
    /\ DropCache(BuyerOf(e))
    /\ UNCHANGED <<checkout, purchaseVars, license, txnUser, subVars,
                   promoVars, historyVars, sent, localVars, runs, readVars>>

-----------------------------------------------------------------------------
(* Cancellation, failed payment, refund. *)

(* markPurchaseFailed: the row read as pending is updated by its id only;  *)
(* an error is logged and the suspension goes on.                          *)
MarkPurchaseFailed(e) ==
    LET p == PurchaseOf[e] IN
    /\ Move(e, "mark", "find")
    /\ \/ /\ seen[e]
          /\ purchase' = [purchase EXCEPT ![p] = "failed"]
          /\ UNCHANGED faults
       \/ ~seen[e] /\ UNCHANGED <<purchase, faults>>
       \/ Fault /\ UNCHANGED purchase
    /\ UNCHANGED <<checkout, promo, linked, license, txnUser, subVars,
                   promoVars, historyVars, sent, localVars, runVars, cacheVars>>

(* Mutant of OwnerById: findFirst without the join on the user.            *)
OwnerByIdUnjoined(e) ==
    IF SubOf[e] # NoSub /\ \E u \in Users : license[u] # "none"
    THEN CHOOSE u \in Users : license[u] # "none" ELSE NoUser

(* findLicenseBySubscriptionId and findLicenseByTransactionId: the rows    *)
(* they go through name a user whose license exists.                       *)
OwnerById(e) ==
    IF Kind[e] = "refunded" THEN txnUser[TxnOf[e]]
    ELSE IF SubOf[e] = NoSub THEN NoUser ELSE subUser[SubOf[e]]

(* findLicenseByEmailAndApp, with the app of the metadata; not tried for a *)
(* cancellation.                                                           *)
OwnerByMail(e) ==
    IF /\ Kind[e] # "canceled" /\ e \in Tagged
       /\ Payer[e] # NoUser /\ license[Payer[e]] # "none"
    THEN Payer[e] ELSE NoUser

(* A finder's error counts as "not found".  No license: nothing to do.     *)
FindOwner(e) ==
    /\ pc[e] = "find"
    /\ \E u \in Users \cup {NoUser} :
          /\ \/ /\ u = IF OwnerById(e) # NoUser THEN OwnerById(e)
                       ELSE OwnerByMail(e)
                /\ UNCHANGED faults
             \/ Fault /\ u = OwnerByMail(e)
          /\ target' = [target EXCEPT ![e] = u]
          /\ IF u = NoUser THEN Return(e, "find")
             ELSE Move(e, "find", "set") /\ UNCHANGED handled
    /\ UNCHANGED <<checkout, purchaseVars, license, txnUser, subVars,
                   promoVars, historyVars, sent, seen, made, runs, cacheVars>>

NewStatus(e) == IF Kind[e] = "failed" THEN "suspended" ELSE Kind[e]

(* transitionLicenseState: the update does not look at the old status.     *)
SetStatus(e) ==
    /\ Move(e, "set", "note")
    /\ license' = [license EXCEPT ![target[e]] = NewStatus(e)]
    /\ UNCHANGED <<checkout, purchaseVars, txnUser, subVars, promoVars,
                   historyVars, sent, localVars, runVars, faults, cacheVars>>

NoteStatus(e) ==
    /\ Move(e, "note", "forget")
    /\ trail' = [trail EXCEPT ![target[e]] = NewStatus(e)]
    /\ UNCHANGED <<checkout, purchaseVars, license, txnUser, subVars,
                   promoVars, created, sent, localVars, runVars, faults,
                   cacheVars>>

ForgetStatus(e) ==
    /\ DropCache(target[e])
    /\ IF SubOf[e] = NoSub THEN Return(e, "forget")
       ELSE Move(e, "forget", "tell") /\ UNCHANGED handled
    /\ UNCHANGED <<checkout, purchaseVars, license, txnUser, subVars,
                   promoVars, historyVars, sent, localVars, runs, readVars>>

News(e) == IF Kind[e] = "failed" THEN "subscription.payment_failed"
           ELSE IF Kind[e] = "refunded" THEN "subscription.refunded"
           ELSE "subscription.canceled"

TellApp(e) ==
    /\ Return(e, "tell")
    /\ \/ sent' = sent \cup {<<News(e), e>>} /\ UNCHANGED faults
       \/ Fault /\ UNCHANGED sent
    /\ UNCHANGED <<checkout, purchaseVars, license, txnUser, subVars,
                   promoVars, historyVars, localVars, runs, cacheVars>>

-----------------------------------------------------------------------------
(* What the customer does: cancel, resume, log in, ask for the license.    *)

(* After the row, the handlers write a history row (of the subscription's  *)
(* status, not the license's), tell the app and drop the cache; any of it  *)
(* can fail.                                                               *)
Answer(s, name) ==
    LET told == sent \cup {<<name, s>>}
        dropped == [cached EXCEPT ![subUser[s]] = "empty"]
    IN  \/ sent' = told /\ cached' = dropped /\ UNCHANGED faults
        \/ Fault /\ sent' \in {sent, told} /\ cached' \in {cached, dropped}

(* Only the row changes, not the provider's subscription.                  *)
UserCancel(s) ==
    /\ sub[s] = "active"
    /\ sub' = [sub EXCEPT ![s] = "canceled"]
    /\ atEnd' = [atEnd EXCEPT ![s] = TRUE]
    /\ Answer(s, "subscription.canceled")
    /\ UNCHANGED <<checkout, purchaseVars, license, txnUser, subUser,
                   promoVars, historyVars, pc, localVars, runVars, readVars>>

UserResume(s) ==
    /\ sub[s] = "canceled" /\ atEnd[s]
    /\ sub' = [sub EXCEPT ![s] = "active"]
    /\ atEnd' = [atEnd EXCEPT ![s] = FALSE]
    /\ Answer(s, "subscription.resumed")
    /\ UNCHANGED <<checkout, purchaseVars, license, txnUser, subUser,
                   promoVars, historyVars, pc, localVars, runVars, readVars>>

(* ensureLicenseForApp: the default plan for a user without a license; the *)
(* unique key stops a second row, and no history row is written.           *)
AutoLicense(u) ==
    /\ license[u] = "none"
    /\ license' = [license EXCEPT ![u] = "active"]
    /\ DropCache(u)
    /\ UNCHANGED <<checkout, purchaseVars, txnUser, subVars, promoVars,
                   historyVars, sent, pc, localVars, runVars, readVars>>

(* GET /v1/license/:appId on a cache miss: core's answer, then cache.set;  *)
(* a 404 is not cached.                                                    *)
ReadLicense(u) ==
    /\ reads < MaxReads
    /\ license[u] # "none"
    /\ cached[u] = "empty" /\ reader[u] = "idle"
    /\ reads' = reads + 1
    /\ reader' = [reader EXCEPT ![u] = license[u]]
    /\ UNCHANGED <<checkout, purchaseVars, license, txnUser, subVars,
                   promoVars, historyVars, sent, pc, localVars, runVars,
                   faults, cached>>

FillCache(u) ==
    /\ reader[u] # "idle"
    /\ cached' = [cached EXCEPT ![u] = reader[u]]
    /\ reader' = [reader EXCEPT ![u] = "idle"]
    /\ UNCHANGED <<checkout, purchaseVars, license, txnUser, subVars,
                   promoVars, historyVars, sent, pc, localVars, runVars,
                   faults, reads>>

(* Mutant of ExpireCache: cache.set without a time to live.                *)
ExpireCacheNever(u) == FALSE /\ u \in Users /\ UNCHANGED vars

(* CACHE_TTL, two minutes.                                                 *)
ExpireCache(u) ==
    /\ cached[u] # "empty"
    /\ cached' = [cached EXCEPT ![u] = "empty"]
    /\ UNCHANGED <<checkout, purchaseVars, license, txnUser, subVars,
                   promoVars, historyVars, sent, pc, localVars, runVars,
                   faults, readVars>>

-----------------------------------------------------------------------------
Fulfil(e) ==
    \/ WritePurchase(e) \/ FindLicense(e) \/ WriteLicense(e)
    \/ RecordTransaction(e) \/ LinkPurchase(e)
    \/ Redeem(e) \/ IncrementUses(e) \/ IncrementRedemptions(e)
    \/ RedemptionFails(e)
    \/ FindSubscription(e) \/ UpsertSubscription(e)
    \/ Announce(e) \/ WriteHistory(e) \/ FinishPayment(e)

Transition(e) ==
    \/ MarkPurchaseFailed(e) \/ FindOwner(e)
    \/ SetStatus(e) \/ NoteStatus(e) \/ ForgetStatus(e) \/ TellApp(e)

Next ==
    \/ \E p \in Purchases : OpenCheckout(p) \/ RecordCheckout(p)
    \/ \E e \in Events : Start(e) \/ Fulfil(e) \/ Transition(e)
    \/ \E some \in SUBSET Busy : Fail(some)
    \/ \E s \in Subs : UserCancel(s) \/ UserResume(s)
    \/ \E u \in Users : \/ AutoLicense(u) \/ ReadLicense(u)
                        \/ FillCache(u) \/ ExpireCache(u)

Spec == Init /\ [][Next]_vars

(* BullMQ runs a failed job again, the worker runs a handler to its end,   *)
(* and Redis expires what it caches.                                       *)
Retry(e) == runs[e] > 0 /\ e \notin handled /\ Start(e)

Fairness ==
    /\ \A e \in Events : /\ WF_vars(Fulfil(e) \/ Transition(e))
                         /\ WF_vars(Retry(e))
    /\ \A u \in Users : WF_vars(FillCache(u)) /\ WF_vars(ExpireCache(u))

FairSpec == Spec /\ Fairness

-----------------------------------------------------------------------------
(* Properties. *)

Paying(p) == {e \in Events : Kind[e] = "succeeded" /\ PurchaseOf[e] = p}

(* The rows that createPurchaseRecords leaves behind.                      *)
Complete(e) ==
    /\ license[BuyerOf(e)] # "none"
    /\ purchase[PurchaseOf[e]] \in {"completed", "failed"}
    /\ txnUser[TxnOf[e]] = BuyerOf(e)
    /\ linked[PurchaseOf[e]] # NoTxn
    /\ SubOf[e] # NoSub => subUser[SubOf[e]] = BuyerOf(e)

(* A payment event that was handled has left the whole set of records:     *)
(* whatever failed, raced or ran twice, a handled run went through every   *)
(* one of createPurchaseRecords's writes, and nothing removes a row.       *)
FulfilledIsComplete ==
    \A e \in handled : Kind[e] = "succeeded" => Complete(e)

(* However many payment events race for a user's first license, it is      *)
(* created once: one "created" row, one license.created to the app.        *)
OneCreation ==
    /\ \A u \in Users : created[u] <= 1
    /\ \A e, f \in Events :
          /\ <<"license.created", e>> \in sent
          /\ <<"license.created", f>> \in sent
          /\ BuyerOf(e) = BuyerOf(f)
          => e = f

(* The caps of a promotion are read from two counters and a table that are *)
(* written in three steps: they differ by the handlers that are between    *)
(* the steps and by the steps that failed, never otherwise.                *)
Redeemers(stages) == Cardinality({e \in Events : pc[e] \in stages})

CountersAgree ==
    /\ redeemed + Redeemers({"total"}) <= uses
    /\ uses <= redeemed + Redeemers({"total"}) + faults

(* A purchase is counted twice against the caps only when two payment      *)
(* events of it were processed, or one of them more than once.             *)
DoubleCountHasCause ==
    \A p \in Purchases : redemptions[p] > 1 =>
        \/ \E e \in Paying(p) : runs[e] > 1
        \/ \E e, f \in Paying(p) : e # f /\ runs[e] > 0 /\ runs[f] > 0

(* Whose license an event may change: its buyer's; only a failed payment   *)
(* or a refund falls back to the address the payer gave.                   *)
Concerned(e) ==
    {BuyerOf(e)} \cup IF Kind[e] \in {"failed", "refunded"} /\ e \in Tagged
                      THEN {Payer[e]} \ {NoUser} ELSE {}

ByItsOwner(u) ==
    \/ AutoLicense(u)
    \/ \E e \in Events : /\ WriteLicense(e) \/ SetStatus(e)
                         /\ u \in Concerned(e)

(* A license changes only through its buyer's own payments, a cancellation *)
(* or refund found through its buyer's ids, the email fallback, or its     *)
(* user's login: the finders join subscriptions, transactions and licenses *)
(* of different customers, while those rows are being written.             *)
OnlyOwnLicense ==
    [][\A u \in Users : license'[u] # license[u] => ByItsOwner(u)]_vars

(* A payment event that the queue has begun to run is handled in the end,  *)
(* within BullMQ's three attempts, despite one failure and the clash with  *)
(* checkout's own insert (which costs at most one attempt).                *)
PaidIsHandled ==
    \A e \in Events :
        Kind[e] = "succeeded" /\ runs[e] > 0 ~> e \in handled

(* A cached license does not outlive its truth for ever: a read that fills *)
(* the cache after the drop is undone by the next expiry.                  *)
EventuallyFresh ==
    \A u \in Users : []<>(cached[u] \in {"empty", license[u]})

(* webhook-processor.ts 179: "Mark a pending purchase record as failed".   *)
PaidStaysCompleted ==
    [][\A p \in Purchases : purchase[p] = "completed" =>
                              purchase'[p] = "completed"]_vars

-----------------------------------------------------------------------------
(* The inductive invariant behind the safety properties.                   *)

PayStages == {"purchase", "findLicense", "license", "txn", "link", "redeem",
              "uses", "total", "findSub", "sub", "announce", "history", "drop"}
AfterLicense == PayStages \ {"purchase", "findLicense", "license"}
AfterTxn == AfterLicense \ {"txn"}
AfterLink == AfterTxn \ {"link"}
AfterSub == {"announce", "history", "drop"}

(* A handler runs the stages of its event's kind, and only in a run.       *)
StagesOfKind ==
    \A e \in Events :
        /\ pc[e] \in PayStages => Kind[e] = "succeeded"
        /\ Kind[e] = "succeeded" => pc[e] \in PayStages \cup {"idle"}
        /\ pc[e] # "idle" => runs[e] > 0

(* The records a paying handler has already written.                       *)
OnTheWay(e) ==
    /\ pc[e] \in PayStages \ {"purchase"} =>
          purchase[PurchaseOf[e]] \in {"completed", "failed"}
    /\ pc[e] \in AfterLicense => license[BuyerOf(e)] # "none"
    /\ pc[e] \in AfterTxn => txnUser[TxnOf[e]] = BuyerOf(e)
    /\ pc[e] \in AfterLink => linked[PurchaseOf[e]] # NoTxn
    /\ pc[e] \in AfterSub /\ SubOf[e] # NoSub =>
          subUser[SubOf[e]] = BuyerOf(e)
    /\ pc[e] = "sub" => SubOf[e] # NoSub

RecordsOnTheWay == \A e \in Events : OnTheWay(e)

(* Transaction and subscription rows belong to the buyer of their events,  *)
(* who has a license; a row exists exactly when it has an owner.           *)
OwnersMatch ==
    /\ \A e \in Events :
          /\ txnUser[TxnOf[e]] \in {NoUser, BuyerOf(e)}
          /\ SubOf[e] # NoSub => subUser[SubOf[e]] \in {NoUser, BuyerOf(e)}
    /\ \A t \in Txns : txnUser[t] # NoUser => license[txnUser[t]] # "none"
    /\ \A s \in Subs :
          /\ sub[s] = "none" <=> subUser[s] = NoUser
          /\ subUser[s] # NoUser => license[subUser[s]] # "none"

(* The license a handler is about to change concerns its event, and exists.*)
TargetOwn ==
    \A e \in Events : pc[e] \in {"set", "note", "forget"} =>
        /\ target[e] \in Concerned(e)
        /\ license[target[e]] # "none"

(* The one handler that created the license, until it writes its history.  *)
Making(e) == made[e] /\ pc[e] \in AfterLicense \ {"drop"}
Announced(u) == {e \in Events : <<"license.created", e>> \in sent
                                 /\ BuyerOf(e) = u}

MakerAlone ==
    /\ \A u \in Users : license[u] = "none" =>
          created[u] = 0 /\ Announced(u) = {}
    /\ \A e \in Events : Making(e) =>
          /\ created[BuyerOf(e)] = 0
          /\ Announced(BuyerOf(e)) \subseteq {e}
    /\ \A e \in Events : pc[e] = "history" => made[e]
    /\ \A e, f \in Events :
          Making(e) /\ Making(f) /\ BuyerOf(e) = BuyerOf(f) => e = f

(* Before its insert, the only run of a purchase finds no redemption.      *)
OnlyRun(e) ==
    /\ runs[e] = 1
    /\ \A f \in Paying(PurchaseOf[e]) : f = e \/ runs[f] = 0

RedemptionsHaveRuns ==
    /\ \A p \in Purchases : redemptions[p] > 0 =>
          \E e \in Paying(p) : runs[e] > 0
    /\ \A e \in Events :
          /\ pc[e] \in {"purchase", "findLicense", "license", "txn", "link",
                        "redeem"}
          /\ OnlyRun(e)
          => redemptions[PurchaseOf[e]] = 0

IInv ==
    /\ TypeOK
    /\ StagesOfKind /\ RecordsOnTheWay /\ OwnersMatch /\ TargetOwn
    /\ FulfilledIsComplete
    /\ MakerAlone /\ OneCreation
    /\ RedemptionsHaveRuns /\ DoubleCountHasCause
=============================================================================
