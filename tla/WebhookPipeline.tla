--------------------------- MODULE WebhookPipeline ---------------------------
(***************************************************************************)
(* The path of a payment provider's webhook through Nube Auth:             *)
(*   core     routes/v1/billing/webhooks.ts   handleIncomingWebhook        *)
(*   billing  services/webhook-logging.ts     the webhook_logs table       *)
(*   billing  queue.ts + queue/client.ts      the BullMQ queue "billing"   *)
(*   workers  process-webhook.ts              the queue's consumer         *)
(*   billing  services/webhook-handler.ts     processWebhook               *)
(*   workers  webhook-rescue-cron.ts          rescueWebhookLogs            *)
(*   core     routes/v1/admin/billing.ts      POST /webhooks/:id/retry     *)
(* One provider is modelled; the event ids of two providers never meet     *)
(* (the unique key is (provider, event_id)).                               *)
(***************************************************************************)
EXTENDS Naturals, FiniteSets

CONSTANTS
    Events,         \* what the provider reports, one per provider event
    Logs,           \* primary keys of webhook_logs
    Anon,           \* ids BullMQ makes up for jobs enqueued without a log id
    NoEvent, NoLog, NoId,
    Ids,            \* values of webhook_logs.event_id
    IngressId,      \* id read from header or body before verification
    VerifiedId,     \* event.id of the adapter's verifyWebhook
    Genuine,        \* events whose signature an active config verifies
    Restorable,     \* events whose stored jsonb body still verifies
    Payment,        \* events extractPaymentDetails finds a payment in
    Attempts,       \* attempts: 3
    MaxStalls,      \* BullMQ's maxStalledCount
    RescueMax,      \* WEBHOOK_RESCUE_MAX_RETRIES
    \* Bounds of the model:
    MaxDeliveries,  \* deliveries the provider makes of one event
    MaxRetries,     \* retry_count an operator drives a row to
    MaxCrashes,     \* crashes of the worker process
    MaxFaults       \* database errors that the code swallows

JobIds == Logs \cup Anon

ASSUME ConstantsAssumption ==
    /\ Logs \cap Anon = {}
    /\ NoEvent \notin Events /\ NoLog \notin JobIds /\ NoId \notin Ids
    /\ IngressId \in [Events -> Ids \cup {NoId}]
    /\ VerifiedId \in [Events -> Ids]
    /\ Genuine \subseteq Events /\ Restorable \subseteq Genuine
    /\ Payment \subseteq Events
    /\ Attempts \in Nat \ {0}
    /\ {MaxStalls, RescueMax, MaxDeliveries, MaxRetries, MaxCrashes, MaxFaults}
         \subseteq Nat

(***************************************************************************)
(* Two different events never share an id, before or after verification.   *)
(* Stripe and LemonSqueezy promise it; for Dodo the verified id is made of *)
(* the event's type and timestamp (dodo.ts), so it is an assumption.       *)
(***************************************************************************)
ASSUME IdsAssumption ==
    \A e, f \in Events :
        \/ e = f
        \/ /\ VerifiedId[e] # VerifiedId[f]
           /\ IngressId[e] # VerifiedId[f]
           /\ IngressId[e] = NoId \/ IngressId[e] # IngressId[f]

VARIABLES
    logEvent,   \* the event stored in a row, NoEvent while the row is free
    eventId,    \* webhook_logs.event_id
    status,     \* webhook_logs.status
    retries,    \* webhook_logs.retry_count
    jobState,   \* what Redis holds under a job id
    jobEvent,   \* the event in the job's data
    jobBody,    \* "raw" from the request, "stored" when rebuilt from the row
    attempts,   \* failed attempts of the job
    stalls,     \* stalled counter of the job
    pc,         \* where the handler of an active job is
    ingress,    \* requests between createWebhookLog and queue.add
    deliveries, \* deliveries made of each event
    acked,      \* events answered 200 at least once
    applied,    \* complete runs of processWebhookEvent for each event
    forgotten,  \* completed jobs of each event that Redis has dropped
    rescue,     \* rows the running rescue scan has selected, not yet treated
    rescued,    \* the row between the scan's queue.add and its update
    admin,      \* where an operator's retry of a row is
    crashes, faults

logVars == <<logEvent, eventId, status, retries>>
jobVars == <<jobState, jobEvent, jobBody, attempts, stalls>>
cronVars == <<rescue, rescued>>
vars == <<logVars, jobVars, pc, ingress, deliveries, acked, applied,
          forgotten, cronVars, admin, crashes, faults>>

-----------------------------------------------------------------------------
(* Types.  "duplicate" and "no_payment" are the status "skipped" with the  *)
(* two notes that processWebhook writes; no other skipped row exists.      *)

Status == {"free", "not_started", "picked", "processing", "completed",
           "failed", "signature_failed", "duplicate", "no_payment"}
Stage == {"idle", "picked", "started", "unique", "applied", "ok", "err"}
JobState == {"none", "waiting", "active", "completed", "failed"}
Request == [event : Events, log : Logs \cup {NoLog}]

TypeOK ==
    /\ logEvent \in [Logs -> Events \cup {NoEvent}]
    /\ eventId \in [Logs -> Ids \cup {NoId}]
    /\ status \in [Logs -> Status]
    /\ retries \in [Logs -> Nat]
    /\ jobState \in [JobIds -> JobState]
    /\ jobEvent \in [JobIds -> Events \cup {NoEvent}]
    /\ jobBody \in [JobIds -> {"raw", "stored"}]
    /\ attempts \in [JobIds -> Nat]
    /\ stalls \in [JobIds -> Nat]
    /\ pc \in [JobIds -> Stage]
    /\ ingress \subseteq Request
    /\ deliveries \in [Events -> Nat]
    /\ acked \subseteq Events
    /\ applied \in [Events -> Nat]
    /\ forgotten \in [Events -> Nat]
    /\ rescue \subseteq Logs
    /\ rescued \in Logs \cup {NoLog}
    /\ admin \in [Logs -> {"idle", "checked", "marked"}]
    /\ crashes \in Nat
    /\ faults \in Nat

Init ==
    /\ logEvent = [l \in Logs |-> NoEvent]
    /\ eventId = [l \in Logs |-> NoId]
    /\ status = [l \in Logs |-> "free"]
    /\ retries = [l \in Logs |-> 0]
    /\ jobState = [j \in JobIds |-> "none"]
    /\ jobEvent = [j \in JobIds |-> NoEvent]
    /\ jobBody = [j \in JobIds |-> "raw"]
    /\ attempts = [j \in JobIds |-> 0]
    /\ stalls = [j \in JobIds |-> 0]
    /\ pc = [j \in JobIds |-> "idle"]
    /\ ingress = {}
    /\ deliveries = [e \in Events |-> 0]
    /\ acked = {}
    /\ applied = [e \in Events |-> 0]
    /\ forgotten = [e \in Events |-> 0]
    /\ rescue = {}
    /\ rescued = NoLog
    /\ admin = [l \in Logs |-> "idle"]
    /\ crashes = 0
    /\ faults = 0

Fault == faults < MaxFaults /\ faults' = faults + 1

(***************************************************************************)
(* The mark... methods of WebhookLoggingService: an unconditional update   *)
(* of the status, nothing without a log id, and a database error is logged *)
(* and swallowed.                                                          *)
(***************************************************************************)
Mark(j, s) ==
    \/ /\ j \in Anon
       /\ UNCHANGED <<status, faults>>
    \/ /\ j \in Logs
       /\ status' = [status EXCEPT ![j] = s]
       /\ UNCHANGED faults
    \/ /\ j \in Logs
       /\ Fault
       /\ UNCHANGED status

(* Mutant of AddJob: a completed job of the same id does not stop the add. *)
AddJobAgain(j, e, body) ==
    IF jobState[j] \in {"none", "completed"}
    THEN /\ jobState' = [jobState EXCEPT ![j] = "waiting"]
         /\ jobEvent' = [jobEvent EXCEPT ![j] = e]
         /\ jobBody' = [jobBody EXCEPT ![j] = body]
         /\ attempts' = [attempts EXCEPT ![j] = 0]
         /\ stalls' = [stalls EXCEPT ![j] = 0]
    ELSE UNCHANGED jobVars

(* queue.add: BullMQ ignores the call while Redis holds a job of that id. *)
AddJob(j, e, body) ==
    IF jobState[j] = "none"
    THEN /\ jobState' = [jobState EXCEPT ![j] = "waiting"]
         /\ jobEvent' = [jobEvent EXCEPT ![j] = e]
         /\ jobBody' = [jobBody EXCEPT ![j] = body]
         /\ attempts' = [attempts EXCEPT ![j] = 0]
         /\ stalls' = [stalls EXCEPT ![j] = 0]
    ELSE UNCHANGED jobVars

-----------------------------------------------------------------------------
(* Ingress: handleIncomingWebhook. *)

RowsWithId(i) == {l \in Logs : eventId[l] = i /\ i # NoId}

(* Mutant of CreateWebhookLog: no unique key, every delivery gets a row. *)
CreateWebhookLogAlways(e, l) ==
    /\ l \in Logs
    /\ logEvent[l] = NoEvent
    /\ logEvent' = [logEvent EXCEPT ![l] = e]
    /\ eventId' = [eventId EXCEPT ![l] = IngressId[e]]
    /\ status' = [status EXCEPT ![l] = "not_started"]
    /\ UNCHANGED <<retries, faults>>

(* INSERT ... ON CONFLICT (provider, event_id) DO NOTHING: a new row, or  *)
(* the id of the row that holds the event id, or 0 when the database fails.*)
CreateWebhookLog(e, l) ==
    \/ /\ RowsWithId(IngressId[e]) = {}
       /\ l \in Logs
       /\ logEvent[l] = NoEvent
       /\ logEvent' = [logEvent EXCEPT ![l] = e]
       /\ eventId' = [eventId EXCEPT ![l] = IngressId[e]]
       /\ status' = [status EXCEPT ![l] = "not_started"]
       /\ UNCHANGED <<retries, faults>>
    \/ /\ l \in RowsWithId(IngressId[e])
       /\ UNCHANGED <<logVars, faults>>
    \/ /\ l = NoLog
       /\ Fault
       /\ UNCHANGED logVars

Receive(e) ==
    /\ deliveries[e] < MaxDeliveries
    /\ deliveries' = [deliveries EXCEPT ![e] = @ + 1]
    /\ \E l \in Logs \cup {NoLog} :
          /\ CreateWebhookLog(e, l)
          /\ ingress' = ingress \cup {[event |-> e, log |-> l]}
    /\ UNCHANGED <<jobVars, pc, acked, applied, forgotten, cronVars, admin,
                   crashes>>

(* enqueueWebhookProcessing, then 200. *)
Enqueue(r) ==
    /\ r \in ingress
    /\ \/ r.log \in Logs /\ AddJob(r.log, r.event, "raw")
       \/ /\ r.log = NoLog
          /\ \E j \in Anon : jobState[j] = "none" /\ AddJob(j, r.event, "raw")
    /\ ingress' = ingress \ {r}
    /\ acked' = acked \cup {r.event}
    /\ UNCHANGED <<logVars, pc, deliveries, applied, forgotten, cronVars,
                   admin, crashes, faults>>

(* queue.add throws, or core stops: the provider sees a 500 or a timeout. *)
EnqueueFails(r) ==
    /\ r \in ingress
    /\ ingress' = ingress \ {r}
    /\ UNCHANGED <<logVars, jobVars, pc, deliveries, acked, applied, forgotten,
                   cronVars, admin, crashes, faults>>

-----------------------------------------------------------------------------
(* The consumer of the queue and processWebhook. *)

(* Mutant of Verifies: a body that can be parsed is taken for verified.    *)
VerifiesBody(j) == jobBody[j] = "raw" \/ jobEvent[j] \in Restorable

Verifies(j) ==
    /\ jobEvent[j] \in Genuine
    /\ jobBody[j] = "raw" \/ jobEvent[j] \in Restorable

(* The worker takes a job and calls markPicked. *)
Pick(j) ==
    /\ jobState[j] = "waiting"
    /\ jobState' = [jobState EXCEPT ![j] = "active"]
    /\ pc' = [pc EXCEPT ![j] = "picked"]
    /\ Mark(j, "picked")
    /\ UNCHANGED <<logEvent, eventId, retries, jobEvent, jobBody, attempts,
                   stalls, ingress, deliveries, acked, applied, forgotten,
                   cronVars, admin, crashes>>

(* markProcessingStarted also rewrites event_id; when another row holds    *)
(* the verified id the unique key rejects the whole update.                *)
MarkProcessingStarted(j) ==
    LET id == VerifiedId[jobEvent[j]] IN
    \/ /\ j \in Logs
       /\ RowsWithId(id) \subseteq {j}
       /\ status' = [status EXCEPT ![j] = "processing"]
       /\ eventId' = [eventId EXCEPT ![j] = id]
       /\ UNCHANGED faults
    \/ /\ j \in Anon \/ ~(RowsWithId(id) \subseteq {j})
       /\ UNCHANGED <<status, eventId, faults>>
    \/ /\ j \in Logs
       /\ Fault
       /\ UNCHANGED <<status, eventId>>

VerifyWebhook(j) ==
    /\ pc[j] = "picked"
    /\ Verifies(j)
    /\ MarkProcessingStarted(j)
    /\ pc' = [pc EXCEPT ![j] = "started"]
    /\ UNCHANGED <<logEvent, retries, jobVars, ingress, deliveries, acked,
                   applied, forgotten, cronVars, admin, crashes>>

(* Mutant of VerifyFails: the row is not marked signature_failed. *)
VerifyFailsSilently(j) ==
    /\ pc[j] = "picked"
    /\ ~Verifies(j)
    /\ pc' = [pc EXCEPT ![j] = "err"]
    /\ UNCHANGED <<logVars, jobVars, ingress, deliveries, acked, applied,
                   forgotten, cronVars, admin, crashes, faults>>

VerifyFails(j) ==
    /\ pc[j] = "picked"
    /\ ~Verifies(j)
    /\ Mark(j, "signature_failed")
    /\ pc' = [pc EXCEPT ![j] = "err"]
    /\ UNCHANGED <<logEvent, eventId, retries, jobVars, ingress, deliveries,
                   acked, applied, forgotten, cronVars, admin, crashes>>

IsEventProcessed(e) ==
    \E l \in RowsWithId(VerifiedId[e]) : status[l] = "completed"

SkipDuplicate(j) ==
    /\ pc[j] = "started"
    /\ IsEventProcessed(jobEvent[j])
    /\ Mark(j, "duplicate")
    /\ pc' = [pc EXCEPT ![j] = "ok"]
    /\ UNCHANGED <<logEvent, eventId, retries, jobVars, ingress, deliveries,
                   acked, applied, forgotten, cronVars, admin, crashes>>

SkipNoPayment(j) ==
    /\ pc[j] = "started"
    /\ ~IsEventProcessed(jobEvent[j])
    /\ jobEvent[j] \notin Payment
    /\ Mark(j, "no_payment")
    /\ pc' = [pc EXCEPT ![j] = "ok"]
    /\ UNCHANGED <<logEvent, eventId, retries, jobVars, ingress, deliveries,
                   acked, applied, forgotten, cronVars, admin, crashes>>

(* The check found no completed row, or failed: an error counts as "no". *)
PassDuplicateCheck(j) ==
    /\ pc[j] = "started"
    /\ jobEvent[j] \in Payment
    /\ \/ ~IsEventProcessed(jobEvent[j]) /\ UNCHANGED faults
       \/ IsEventProcessed(jobEvent[j]) /\ Fault
    /\ pc' = [pc EXCEPT ![j] = "unique"]
    /\ UNCHANGED <<logVars, jobVars, ingress, deliveries, acked, applied,
                   forgotten, cronVars, admin, crashes>>

(* processWebhookEvent returns. *)
Apply(j) ==
    /\ pc[j] = "unique"
    /\ applied' = [applied EXCEPT ![jobEvent[j]] = @ + 1]
    /\ pc' = [pc EXCEPT ![j] = "applied"]
    /\ UNCHANGED <<logVars, jobVars, ingress, deliveries, acked, forgotten,
                   cronVars, admin, crashes, faults>>

MarkCompleted(j) ==
    /\ pc[j] = "applied"
    /\ Mark(j, "completed")
    /\ pc' = [pc EXCEPT ![j] = "ok"]
    /\ UNCHANGED <<logEvent, eventId, retries, jobVars, ingress, deliveries,
                   acked, applied, forgotten, cronVars, admin, crashes>>

(* Mutant of ProcessFails: the exception leaves the row as it is. *)
ProcessFailsSilently(j) ==
    /\ pc[j] \in {"picked", "started", "unique"}
    /\ pc' = [pc EXCEPT ![j] = "err"]
    /\ UNCHANGED <<logVars, jobVars, ingress, deliveries, acked, applied,
                   forgotten, cronVars, admin, crashes, faults>>

(* No active config, or an exception: markProcessingFailed, return false. *)
ProcessFails(j) ==
    /\ pc[j] \in {"picked", "started", "unique"}
    /\ Mark(j, "failed")
    /\ pc' = [pc EXCEPT ![j] = "err"]
    /\ UNCHANGED <<logEvent, eventId, retries, jobVars, ingress, deliveries,
                   acked, applied, forgotten, cronVars, admin, crashes>>

FinishOk(j) ==
    /\ pc[j] = "ok"
    /\ jobState' = [jobState EXCEPT ![j] = "completed"]
    /\ pc' = [pc EXCEPT ![j] = "idle"]
    /\ UNCHANGED <<logVars, jobEvent, jobBody, attempts, stalls, ingress,
                   deliveries, acked, applied, forgotten, cronVars, admin,
                   crashes, faults>>

(* The handler throws: BullMQ retries with backoff until attempts run out. *)
FinishErr(j) ==
    /\ pc[j] = "err"
    /\ attempts' = [attempts EXCEPT ![j] = @ + 1]
    /\ jobState' = [jobState EXCEPT
          ![j] = IF attempts[j] + 1 < Attempts THEN "waiting" ELSE "failed"]
    /\ pc' = [pc EXCEPT ![j] = "idle"]
    /\ UNCHANGED <<logVars, jobEvent, jobBody, stalls, ingress, deliveries,
                   acked, applied, forgotten, cronVars, admin, crashes, faults>>

(* removeOnComplete after an hour, removeOnFail after seven days. *)
ExpireJob(j) ==
    /\ jobState[j] \in {"completed", "failed"}
    /\ jobState' = [jobState EXCEPT ![j] = "none"]
    /\ forgotten' = IF jobState[j] = "completed"
                    THEN [forgotten EXCEPT ![jobEvent[j]] = @ + 1]
                    ELSE forgotten
    /\ UNCHANGED <<logVars, jobEvent, jobBody, attempts, stalls, pc, ingress,
                   deliveries, acked, applied, cronVars, admin, crashes,
                   faults>>

(* The worker process dies: BullMQ finds its jobs stalled and puts them    *)
(* back, or fails a job that stalled too often; the rescue scan is lost.   *)
Crash ==
    /\ crashes < MaxCrashes
    /\ crashes' = crashes + 1
    /\ stalls' = [j \in JobIds |->
          IF jobState[j] = "active" THEN stalls[j] + 1 ELSE stalls[j]]
    /\ jobState' = [j \in JobIds |->
          IF jobState[j] # "active" THEN jobState[j]
          ELSE IF stalls[j] < MaxStalls THEN "waiting" ELSE "failed"]
    /\ pc' = [j \in JobIds |-> "idle"]
    /\ rescue' = {}
    /\ rescued' = NoLog
    /\ UNCHANGED <<logVars, jobEvent, jobBody, attempts, ingress, deliveries,
                   acked, applied, forgotten, admin, faults>>

-----------------------------------------------------------------------------
(* The rescue cron, one scan at a time.  Time is left out: any row may be  *)
(* thirty minutes old.  The scan decides on the rows it read.              *)

Retryable == {"not_started", "picked", "failed"}

RescueScan ==
    /\ rescue = {} /\ rescued = NoLog
    /\ \E stale \in SUBSET {l \in Logs : /\ status[l] \in Retryable
                                         /\ retries[l] < RescueMax} :
          stale # {} /\ rescue' = stale
    /\ UNCHANGED <<logVars, jobVars, pc, ingress, deliveries, acked, applied,
                   forgotten, rescued, admin, crashes, faults>>

RescueAdd(l) ==
    /\ l \in rescue /\ rescued = NoLog
    /\ AddJob(l, logEvent[l], "stored")
    /\ rescue' = rescue \ {l}
    /\ rescued' = l
    /\ UNCHANGED <<logVars, pc, ingress, deliveries, acked, applied, forgotten,
                   admin, crashes, faults>>

RescueMark(l) ==
    /\ l = rescued
    /\ status' = [status EXCEPT ![l] = "not_started"]
    /\ retries' = [retries EXCEPT ![l] = @ + 1]
    /\ rescued' = NoLog
    /\ UNCHANGED <<logEvent, eventId, jobVars, pc, ingress, deliveries, acked,
                   applied, forgotten, rescue, admin, crashes, faults>>

(* queue.add throws, or the update after it does: the catch around the     *)
(* loop abandons the scan; a row already enqueued keeps its retry_count.   *)
RescueFails ==
    /\ \/ rescued = NoLog /\ rescue # {} /\ UNCHANGED faults
       \/ rescued # NoLog /\ Fault
    /\ rescue' = {}
    /\ rescued' = NoLog
    /\ UNCHANGED <<logVars, jobVars, pc, ingress, deliveries, acked, applied,
                   forgotten, admin, crashes>>

-----------------------------------------------------------------------------
(* The operator's retry: read and check the row, update it, queue.add. *)

AdminCheck(l) ==
    /\ admin[l] = "idle"
    /\ status[l] \in {"failed", "signature_failed", "duplicate", "no_payment"}
    /\ retries[l] < MaxRetries
    /\ admin' = [admin EXCEPT ![l] = "checked"]
    /\ UNCHANGED <<logVars, jobVars, pc, ingress, deliveries, acked, applied,
                   forgotten, cronVars, crashes, faults>>

AdminMark(l) ==
    /\ admin[l] = "checked"
    /\ status' = [status EXCEPT ![l] = "not_started"]
    /\ retries' = [retries EXCEPT ![l] = @ + 1]
    /\ admin' = [admin EXCEPT ![l] = "marked"]
    /\ UNCHANGED <<logEvent, eventId, jobVars, pc, ingress, deliveries, acked,
                   applied, forgotten, cronVars, crashes, faults>>

AdminEnqueue(l) ==
    /\ admin[l] = "marked"
    /\ AddJob(l, logEvent[l], "stored")
    /\ admin' = [admin EXCEPT ![l] = "idle"]
    /\ UNCHANGED <<logVars, pc, ingress, deliveries, acked, applied, forgotten,
                   cronVars, crashes, faults>>

(* A database or Redis error, or core stops: the operator sees an error. *)
AdminFails(l) ==
    /\ admin[l] # "idle"
    /\ admin' = [admin EXCEPT ![l] = "idle"]
    /\ UNCHANGED <<logVars, jobVars, pc, ingress, deliveries, acked, applied,
                   forgotten, cronVars, crashes, faults>>

-----------------------------------------------------------------------------
Handle(j) ==
    \/ VerifyWebhook(j) \/ VerifyFails(j)
    \/ SkipDuplicate(j) \/ SkipNoPayment(j) \/ PassDuplicateCheck(j)
    \/ Apply(j) \/ MarkCompleted(j) \/ ProcessFails(j)
    \/ FinishOk(j) \/ FinishErr(j)

Next ==
    \/ \E e \in Events : Receive(e)
    \/ \E r \in ingress : Enqueue(r) \/ EnqueueFails(r)
    \/ \E j \in JobIds : Pick(j) \/ Handle(j) \/ ExpireJob(j)
    \/ Crash
    \/ RescueScan \/ RescueFails
    \/ \E l \in Logs : RescueAdd(l) \/ RescueMark(l)
    \/ \E l \in Logs : \/ AdminCheck(l) \/ AdminMark(l)
                       \/ AdminEnqueue(l) \/ AdminFails(l)

Spec == Init /\ [][Next]_vars

(***************************************************************************)
(* The workers are long-lived processes that take waiting jobs and run     *)
(* each handler to its end; a handler's awaits are calls with timeouts.    *)
(* Nothing is assumed of providers, operators, or the age of rows.         *)
(***************************************************************************)
Fairness == \A j \in JobIds : WF_vars(Pick(j)) /\ WF_vars(Handle(j))

FairSpec == Spec /\ Fairness

-----------------------------------------------------------------------------
(* Properties. *)

(* An event whose id is the same before and after verification (Stripe,    *)
(* LemonSqueezy): the unique key then allows it one row only.              *)
StableId(e) == IngressId[e] = VerifiedId[e]

(* A row marked completed stands for an event whose effects took place:    *)
(* webhook-handler.ts marks it after processWebhookEvent, never before.    *)
CompletedMeansFulfilled ==
    \A l \in Logs : status[l] = "completed" => applied[logEvent[l]] > 0

(* A delivery is dropped as a duplicate only when the same event took      *)
(* effect through some row (isEventProcessed, markSkipped).                *)
DuplicateMeansFulfilled ==
    \A l \in Logs : status[l] = "duplicate" => applied[logEvent[l]] > 0

(* The unique key of webhook_logs and the job id made of the log id        *)
(* together let one handler at a time work on a logged stable event, for   *)
(* all redeliveries, rescues and operator retries that run concurrently.   *)
OneHandlerPerEvent ==
    \A j, k \in Logs :
        /\ pc[j] # "idle" /\ pc[k] # "idle"
        /\ jobEvent[j] = jobEvent[k]
        /\ StableId(jobEvent[j])
        => j = k

(* The effects of a stable event are repeated only for a cause: a worker   *)
(* crash, a swallowed database error, or, once for each time, Redis having *)
(* dropped the completed job (the window of idempotency is the hour of     *)
(* removeOnComplete).                                                      *)
EffectsOnceInWindow ==
    \A e \in Events :
        StableId(e) => \/ crashes > 0 \/ faults > 0
                       \/ applied[e] <= 1 + forgotten[e]

(* A row shown as picked or processing has a job that will still move it,  *)
(* unless a write was lost or the worker crashed more often than BullMQ    *)
(* forgives: every exit of processWebhook marks the row.                   *)
InFlightRowHasJob ==
    faults = 0 /\ crashes <= MaxStalls =>
        \A l \in Logs : status[l] \in {"picked", "processing"} =>
                            jobState[l] \in {"waiting", "active"}

(* An outcome an operator can see, or effects that took place.             *)
Settled(e) ==
    \/ applied[e] > 0
    \/ \E l \in Logs : /\ logEvent[l] = e
                       /\ status[l] \in {"failed", "signature_failed",
                                         "duplicate", "no_payment"}

(* Whatever the provider was told 200 about settles, and settles again     *)
(* after each redelivery, through retries and a worker crash: the promise  *)
(* of answering before processing.  It needs both recovery paths idle: see *)
(* RescueRequeues for how they can leave a row at not_started for good.    *)
AckedIsSettled == \A e \in Events : [](e \in acked => []<>Settled(e))

(* webhook-rescue-cron.ts 4: stuck records are re-enqueued to the billing  *)
(* queue for processing.                                                   *)
RescueRequeues ==
    [][\A l \in Logs : RescueAdd(l) =>
          jobState'[l] \in {"waiting", "active"}]_vars

-----------------------------------------------------------------------------
(* The inductive invariant behind the safety properties.                   *)

(* A row that is in use keeps its event and one of that event's two ids.   *)
RowsLinked ==
    \A l \in Logs :
        IF logEvent[l] = NoEvent
        THEN eventId[l] = NoId /\ status[l] = "free" /\ jobState[l] = "none"
        ELSE /\ eventId[l] \in {IngressId[logEvent[l]], VerifiedId[logEvent[l]]}
             /\ status[l] # "free"

(* The unique key of webhook_logs.                                         *)
IdsUnique ==
    \A l, m \in Logs : eventId[l] # NoId /\ eventId[l] = eventId[m] => l = m

(* A job named after a row carries the row's event, and has a handler      *)
(* exactly while it is active.                                             *)
JobsLinked ==
    \A j \in JobIds :
        /\ jobState[j] # "none" =>
              jobEvent[j] \in Events /\ (j \in Logs => jobEvent[j] = logEvent[j])
        /\ pc[j] # "idle" <=> jobState[j] = "active"

(* A request, a rescue and an operator's retry hold rows that are in use.  *)
CallersLinked ==
    /\ \A r \in ingress : r.log \in Logs => logEvent[r.log] = r.event
    /\ \A l \in Logs :
          l \in rescue \/ l = rescued \/ admin[l] # "idle" =>
              logEvent[l] # NoEvent

(* Past processWebhookEvent the event's effects have taken place.          *)
AppliedOnTheWay ==
    \A j \in JobIds : pc[j] = "applied" => applied[jobEvent[j]] > 0

(* Without a cause for repetition, no anonymous job exists, and a stable   *)
(* event that took effect once more than its jobs were dropped has the     *)
(* last effect in a job that Redis still holds.                            *)
Calm == crashes = 0 /\ faults = 0

NoAnonymousJobs ==
    Calm => /\ \A j \in Anon : jobState[j] = "none"
            /\ \A r \in ingress : r.log # NoLog

HeldBy(e, l) ==
    /\ logEvent[l] = e
    /\ jobState[l] = "completed" \/ pc[l] \in {"applied", "ok"}

EffectHeld ==
    \A e \in Events : Calm /\ StableId(e) =>
        /\ applied[e] <= 1 + forgotten[e]
        /\ applied[e] = 1 + forgotten[e] => \E l \in Logs : HeldBy(e, l)

(* Only the handler of its job shows a row as picked or processing, and    *)
(* every exit of processWebhook marks the row again; a job put back after  *)
(* a crash still waits, as long as BullMQ forgives the stall.              *)
StallsCounted == \A j \in JobIds : stalls[j] <= crashes

InFlightHeld ==
    faults = 0 /\ crashes <= MaxStalls =>
        \A l \in Logs : status[l] \in {"picked", "processing"} =>
            \/ jobState[l] = "waiting"
            \/ pc[l] \in {"picked", "started", "unique", "applied"}

(* The handler of a row whose id is stable never finds its own row         *)
(* completed: markProcessingStarted has just overwritten the mark.         *)
OwnRowNotCompleted ==
    Calm => \A l \in Logs :
        pc[l] = "started" /\ StableId(jobEvent[l]) => status[l] # "completed"

IInv ==
    /\ TypeOK
    /\ RowsLinked /\ IdsUnique /\ JobsLinked /\ CallersLinked
    /\ AppliedOnTheWay /\ CompletedMeansFulfilled /\ DuplicateMeansFulfilled
    /\ NoAnonymousJobs /\ EffectHeld
    /\ StallsCounted /\ InFlightHeld
    /\ OwnRowNotCompleted

-----------------------------------------------------------------------------
(* The pipeline implements IdempotencyWindow for the stable payment events.*)

Keyed == {e \in Payment : StableId(e)}

Done == [e \in Keyed |-> applied[e]]

Closed == [e \in Keyed |-> forgotten[e]]

Held == IF Calm THEN {e \in Keyed : \E l \in Logs : HeldBy(e, l)} ELSE {}

Loose == ~Calm

Window == INSTANCE IdempotencyWindow
            WITH Keys <- Keyed, done <- Done, closed <- Closed, held <- Held,
                 loose <- Loose

(* Every window of idempotency holds one effect, the second and later ones *)
(* too: no step of a delivery, worker, cron or operator applies an event   *)
(* again before Redis has dropped the job that applied it.                 *)
ImplementsWindow == Window!Spec

=============================================================================
