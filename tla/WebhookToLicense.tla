--------------------------- MODULE WebhookToLicense ---------------------------
(***************************************************************************)
(* From the provider's webhook to the customer's records: WebhookPipeline  *)
(* and LicenseFulfilment as one system.                                    *)
(*   workers  process-webhook.ts             one job, one call of ...      *)
(*   billing  services/webhook-handler.ts    processWebhook, which calls   *)
(*   billing  services/webhook-processor.ts  processWebhookEvent           *)
(* The pipeline counts processWebhookEvent as one step, Apply, and the     *)
(* fulfilment lets any event run at any time.  Here each handler of an     *)
(* active job that has passed the duplicate check runs the fulfilment,     *)
(* statement by statement, beside all the others: the pipeline says which  *)
(* events run, how often and against which of their own repetitions, the   *)
(* fulfilment what each run writes.                                        *)
(***************************************************************************)
EXTENDS WebhookPipeline

CONSTANTS
    Users, Purchases, Txns, Subs,
    NoUser, NoTxn, NoSub,
    Buyer, Discounted,  \* as in LicenseFulfilment
    Kind, PurchaseOf, Tagged, TxnOf, SubOf, Payer,  \* as there, of an event
    \* Bounds of the model:
    MaxRuns,      \* calls of processWebhookEvent for one event by one job id
    MaxFailures,  \* failing steps of processWebhookEvent
    MaxReads      \* cache misses of GET /v1/license

ASSUME PathConstants ==
    /\ NoUser \notin Users /\ NoTxn \notin Txns /\ NoSub \notin Subs
    /\ Buyer \in [Purchases -> Users]
    /\ Discounted \subseteq Purchases
    /\ Kind \in [Events -> {"succeeded", "canceled", "failed", "refunded"}]
    /\ PurchaseOf \in [Events -> Purchases]
    /\ Tagged \subseteq Events
    /\ TxnOf \in [Events -> Txns]
    /\ SubOf \in [Events -> Subs \cup {NoSub}]
    /\ Payer \in [Events -> Users \cup {NoUser}]
    /\ {MaxRuns, MaxFailures, MaxReads} \subseteq Nat

(* Finitely many events have arrived, and finitely many jobs with them.    *)
ASSUME PathFinite == IsFiniteSet(Events) /\ IsFiniteSet(JobIds)

(* Providers do not give two customers one transaction or subscription id. *)
ASSUME PathOwnIds ==
    \A e, f \in Events :
        TxnOf[e] = TxnOf[f] \/ (SubOf[e] = SubOf[f] /\ SubOf[e] # NoSub)
            => Buyer[PurchaseOf[e]] = Buyer[PurchaseOf[f]]

VARIABLES
    checkout, purchase, promo, linked, license, txnUser, sub, atEnd, subUser,
    redemptions, uses, redeemed, created, trail, sent, seen, made, target,
    runs, handled, reader, cached, reads,   \* as in LicenseFulfilment
    stage,      \* where a call of processWebhookEvent is
    failures,   \* failing steps of processWebhookEvent so far
    inside      \* jobs whose handler is in processWebhookEvent

(* What is fulfilled is an event in the hands of a job: two rows of one    *)
(* event, which Dodo's ids allow, are two handlings that may race.         *)
Handlings == Events \X JobIds

Of(j) == <<jobEvent[j], j>>

F == INSTANCE LicenseFulfilment
       WITH Events <- Handlings,
            Kind <- [h \in Handlings |-> Kind[h[1]]],
            PurchaseOf <- [h \in Handlings |-> PurchaseOf[h[1]]],
            Tagged <- {h \in Handlings : h[1] \in Tagged},
            TxnOf <- [h \in Handlings |-> TxnOf[h[1]]],
            SubOf <- [h \in Handlings |-> SubOf[h[1]]],
            Payer <- [h \in Handlings |-> Payer[h[1]]],
            MaxRuns <- [h \in Handlings |-> MaxRuns],
            MaxFaults <- MaxFailures,
            pc <- stage, faults <- failures

recordVars == <<checkout, purchase, promo, linked, license, txnUser, sub, atEnd,
                subUser, redemptions, uses, redeemed, created, trail, sent,
                stage, seen, made, target, runs, handled, failures,
                reader, reads, cached>>
pathVars == <<vars, recordVars, inside>>

PathInit == Init /\ F!Init /\ inside = {}

-----------------------------------------------------------------------------
(* The steps of the pipeline that touch no record.                         *)

(* A payment is reported for a checkout session that was opened.           *)
Deliver(e) ==
    /\ e \in Payment => checkout[PurchaseOf[e]] # "new"
    /\ Receive(e)

Outside(j) ==
    \/ Pick(j) \/ VerifyWebhook(j) \/ VerifyFails(j)
    \/ SkipDuplicate(j) \/ SkipNoPayment(j) \/ PassDuplicateCheck(j)
    \/ MarkCompleted(j) \/ FinishOk(j) \/ FinishErr(j) \/ ExpireJob(j)

Queue ==
    \/ \E e \in Events : Deliver(e)
    \/ \E r \in ingress : Enqueue(r) \/ EnqueueFails(r)
    \/ \E j \in JobIds : Outside(j)
    \/ RescueScan \/ RescueFails
    \/ \E l \in Logs : RescueAdd(l) \/ RescueMark(l)
    \/ \E l \in Logs : \/ AdminCheck(l) \/ AdminMark(l)
                       \/ AdminEnqueue(l) \/ AdminFails(l)

-----------------------------------------------------------------------------
(* processWebhookEvent, called by processWebhook for a verified payment    *)
(* event that is no duplicate.                                             *)

Enter(j) ==
    /\ pc[j] = "unique" /\ j \notin inside
    /\ F!Start(Of(j))
    /\ inside' = inside \cup {j}
    /\ UNCHANGED vars

(* The call returns from one of its last stages.                           *)
Returns(j) ==
    /\ stage[Of(j)] \in {"drop", "find", "forget", "tell"}
    /\ stage'[Of(j)] = "idle"

Work(j) ==
    /\ j \in inside
    /\ F!Fulfil(Of(j)) \/ F!Transition(Of(j))
    /\ IF Returns(j) THEN Apply(j) /\ inside' = inside \ {j}
       ELSE UNCHANGED <<vars, inside>>

(* A database error leaves processWebhookEvent as an exception ...         *)
Throw(j) ==
    /\ j \in inside
    /\ F!Fail({Of(j)})
    /\ UNCHANGED <<vars, inside>>

(* Mutant of Catch: the exception is taken for the end of the call.        *)
CatchApplied(j) ==
    /\ j \in inside => stage[Of(j)] = "idle"
    /\ Apply(j)
    /\ inside' = inside \ {j}
    /\ UNCHANGED recordVars

(* ... which processWebhook catches, as it does one raised before the call *)
(* or at its first read: the row is marked failed and the job fails.       *)
Catch(j) ==
    /\ j \in inside => stage[Of(j)] = "idle"
    /\ ProcessFails(j)
    /\ inside' = inside \ {j}
    /\ UNCHANGED recordVars

(* The worker dies with all the calls it runs.                             *)
Running == {Of(j) : j \in {k \in inside : stage[Of(k)] # "idle"}}

WorkerDies ==
    /\ Crash
    /\ inside' = {}
    /\ IF Running = {} THEN UNCHANGED recordVars ELSE F!Fail(Running)

-----------------------------------------------------------------------------
(* What the customer does meanwhile.                                       *)

Customer ==
    \/ \E p \in Purchases : F!OpenCheckout(p) \/ F!RecordCheckout(p)
    \/ \E s \in Subs : F!UserCancel(s) \/ F!UserResume(s)
    \/ \E u \in Users : \/ F!AutoLicense(u) \/ F!ReadLicense(u)
                        \/ F!FillCache(u) \/ F!ExpireCache(u)

PathNext ==
    \/ Queue /\ UNCHANGED <<recordVars, inside>>
    \/ \E j \in JobIds : Enter(j) \/ Work(j) \/ Throw(j) \/ Catch(j)
    \/ WorkerDies
    \/ Customer /\ UNCHANGED <<vars, inside>>

PathSpec == PathInit /\ [][PathNext]_pathVars

-----------------------------------------------------------------------------
(* Properties. *)

(* A row that an operator sees as completed, or as a duplicate, has left   *)
(* the customer every record of the payment: purchase, license,            *)
(* transaction and subscription, though the row and the records are        *)
(* written by many statements that fail, race and run again one by one.    *)
CompletedLeavesRecords ==
    \A l \in Logs :
        /\ status[l] \in {"completed", "duplicate"}
        /\ Kind[logEvent[l]] = "succeeded"
        => F!Complete(<<logEvent[l], l>>)

(* The only payment event that a provider has reported of its purchase.    *)
SolePayment(e) ==
    /\ Kind[e] = "succeeded"
    /\ \A f \in Events :
          /\ deliveries[f] > 0 /\ Kind[f] = "succeeded"
          /\ PurchaseOf[f] = PurchaseOf[e]
          => f = e

(* A purchase that one event with a stable id has paid for is counted      *)
(* against the caps of its promotion once for each window of idempotency,  *)
(* and once more for each step of processWebhookEvent that failed: neither *)
(* redeliveries nor retries count it again by themselves.                  *)
CountedOncePerWindow ==
    Calm => \A e \in Keyed : SolePayment(e) =>
        redemptions[PurchaseOf[e]] <= 1 + forgotten[e] + failures

(* The composition implements PaidLicense.                                 *)
Reports == {e \in Genuine \cap Payment : deliveries[e] > 0}

Paid == {txnUser[t] : t \in Txns} \ {NoUser}

Concerns == [e \in Events |->
    {Buyer[PurchaseOf[e]]} \cup
        IF Kind[e] \in {"failed", "refunded"} /\ e \in Tagged
        THEN {Payer[e]} \ {NoUser} ELSE {}]

StatusAfter == [e \in Events |-> CASE Kind[e] = "succeeded" -> "active"
                                   [] Kind[e] = "failed" -> "suspended"
                                   [] OTHER -> Kind[e]]

Promise == INSTANCE PaidLicense
             WITH Events <- Genuine \cap Payment, Concerns <- Concerns,
                  Status <- StatusAfter, paid <- Paid, reported <- Reports

(* A license changes only by a login or by a reported event, and only a    *)
(* reported payment is recorded: nothing that was forged, that carries no  *)
(* payment, that is another customer's or that no provider reported gets   *)
(* there through rows, stored bodies, jobs, rescues, retries and finders.  *)
ImplementsPromise == Promise!Spec
=============================================================================
