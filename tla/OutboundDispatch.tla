-------------------------- MODULE OutboundDispatch --------------------------
(***************************************************************************)
(* One event of an app on its way to the app's webhook endpoints:          *)
(*   billing  outbound-events.ts, queue.ts       fireWebhookEvent          *)
(*   workers  dispatch-outbound-webhook.ts       dispatchOutboundWebhook   *)
(*   workers  dispatch-outbound-webhook-worker.ts                          *)
(*   core     routes/v1/admin/webhooks/record.ts the endpoints             *)
(* A run of the job posts to every endpoint anew, in batches; one failure  *)
(* fails the job, which the queue runs again.  A delivery whose log row    *)
(* cannot be written ends the run at once, but not the other posts of its  *)
(* batch, which go on beside the next run.                                 *)
(***************************************************************************)
EXTENDS Naturals, FiniteSets

CONSTANTS
    Hooks,                  \* endpoints of the app
    DELIVERY_CONCURRENCY,
    ATTEMPTS,               \* of the queue's job, 5 in the code
    MAX_STALLED,            \* times that BullMQ takes a job of a dead worker
    \* Bounds of the model:
    MaxTroubles,            \* failures of posts, of log rows, and crashes
    MaxEdits                \* changes of endpoints

ASSUME OutboundAssumption ==
    /\ IsFiniteSet(Hooks)
    /\ {DELIVERY_CONCURRENCY, ATTEMPTS} \subseteq Nat \ {0}
    /\ {MAX_STALLED, MaxTroubles, MaxEdits} \subseteq Nat

VARIABLES
    listening,  \* endpoints that are active and subscribed to the event
    job,        \* "none", "lost", "waiting", "active", "done", "failed"
    attemptsMade, stalled,
    round,      \* how often a worker has taken the job
    deliveries, \* endpoints that the run has read
    queued,     \* those in later batches
    posting,    \* <<round, endpoint>> of posts on their way
    logging,    \* <<round, endpoint, ok>> of log rows to write
    results,    \* <<endpoint, ok>> of the run
    edits,
    \* History of the properties:
    steady,     \* endpoints that have been listening since the event
    received,   \* copies that an endpoint has had
    accepted,   \* endpoints that have answered 2xx
    troubles    \* what has gone wrong

jobVars == <<job, attemptsMade, stalled, round>>
runVars == <<deliveries, queued, results>>
outboundVars == <<listening, jobVars, runVars, posting, logging, edits, steady,
                  received, accepted, troubles>>

OutboundTypeOK ==
    /\ listening \subseteq Hooks /\ steady \subseteq listening
    /\ job \in {"none", "lost", "waiting", "active", "done", "failed"}
    /\ {attemptsMade, stalled, round, edits, troubles} \subseteq Nat
    /\ deliveries \subseteq Hooks /\ queued \subseteq deliveries
    /\ posting \subseteq Nat \X Hooks
    /\ logging \subseteq Nat \X Hooks \X BOOLEAN
    /\ results \subseteq deliveries \X BOOLEAN
    /\ received \in [Hooks -> Nat] /\ accepted \subseteq Hooks

OutboundInit ==
    /\ listening \in SUBSET Hooks
    /\ job = "none" /\ attemptsMade = 0 /\ stalled = 0 /\ round = 0
    /\ deliveries = {} /\ queued = {} /\ results = {}
    /\ posting = {} /\ logging = {}
    /\ edits = 0
    /\ steady = {} /\ received = [h \in Hooks |-> 0] /\ accepted = {}
    /\ troubles = 0

-----------------------------------------------------------------------------
Busy == (\E f \in posting : f[1] = round) \/ (\E l \in logging : l[1] = round)

Trouble == troubles < MaxTroubles /\ troubles' = troubles + 1

(* BullMQ: a job that has failed runs again until it has had its attempts. *)
FailAttempt ==
    /\ attemptsMade' = attemptsMade + 1
    /\ job' = IF attemptsMade + 1 < ATTEMPTS THEN "waiting" ELSE "failed"
    /\ UNCHANGED <<stalled, round>>

-----------------------------------------------------------------------------
(* fireWebhookEvent waits for nothing; an error of the queue is logged.    *)
Fire ==
    /\ job = "none"
    /\ job' \in {"waiting", "lost"}
    /\ steady' = listening
    /\ UNCHANGED <<listening, attemptsMade, stalled, round, runVars, posting,
                   logging, edits, received, accepted, troubles>>

(* An operator creates, changes or deactivates an endpoint.                *)
EditHook(h) ==
    /\ edits < MaxEdits
    /\ edits' = edits + 1
    /\ listening' = IF h \in listening THEN listening \ {h}
                    ELSE listening \cup {h}
    /\ steady' = steady \ {h}
    /\ UNCHANGED <<jobVars, runVars, posting, logging, received, accepted,
                   troubles>>

(* A worker takes the job and reads the endpoints; with none it is done.   *)
TakeDispatch ==
    /\ job = "waiting"
    /\ job' = IF listening = {} THEN "done" ELSE "active"
    /\ round' = round + 1
    /\ deliveries' = listening /\ queued' = listening /\ results' = {}
    /\ UNCHANGED <<listening, attemptsMade, stalled, posting, logging, edits,
                   steady, received, accepted, troubles>>

NextBatch(batch) ==
    /\ job = "active" /\ ~Busy
    /\ batch \subseteq queued /\ batch # {}
    /\ \/ Cardinality(batch) = DELIVERY_CONCURRENCY
       \/ batch = queued /\ Cardinality(batch) < DELIVERY_CONCURRENCY
    /\ queued' = queued \ batch
    /\ posting' = posting \cup {<<round, h>> : h \in batch}
    /\ UNCHANGED <<listening, jobVars, deliveries, results, logging, edits,
                   steady, received, accepted, troubles>>

(* The endpoint has the event and answers 2xx; or it has it, and answers   *)
(* otherwise or too late; or it never gets it.                             *)
Post(f, got, ok) ==
    LET h == f[2] IN
    /\ f \in posting
    /\ ok => got
    /\ IF ok THEN UNCHANGED troubles ELSE Trouble
    /\ posting' = posting \ {f}
    /\ logging' = logging \cup {<<f[1], h, ok>>}
    /\ received' = [received EXCEPT ![h] = IF got THEN @ + 1 ELSE @]
    /\ accepted' = IF ok THEN accepted \cup {h} ELSE accepted
    /\ UNCHANGED <<listening, jobVars, runVars, edits, steady>>

(* The log row is written; a post of a run that has ended counts no more.  *)
LogDelivery(l) ==
    /\ l \in logging
    /\ logging' = logging \ {l}
    /\ results' = IF job = "active" /\ l[1] = round
                  THEN results \cup {<<l[2], l[3]>>} ELSE results
    /\ UNCHANGED <<listening, jobVars, deliveries, queued, posting, edits,
                   steady, received, accepted, troubles>>

(* It is not written: Promise.all rejects, and with it the run.            *)
LogFails(l) ==
    /\ l \in logging
    /\ Trouble
    /\ logging' = logging \ {l}
    /\ IF job = "active" /\ l[1] = round THEN FailAttempt
       ELSE UNCHANGED jobVars
    /\ UNCHANGED <<listening, runVars, posting, edits, steady, received,
                   accepted>>

(* Mutant of Failed: the job fails only when no endpoint has accepted.     *)
FailedAll(r) == \A x \in r : ~x[2]
(* Mutant of Failed: the accepted ones are compared with all endpoints.    *)
FailedCompared(r) == {x[1] : x \in {y \in r : y[2]}} # Hooks
Failed(r) == \E x \in r : ~x[2]

EndDispatch ==
    /\ job = "active" /\ ~Busy /\ queued = {}
    /\ IF Failed(results) THEN FailAttempt
       ELSE job' = "done" /\ UNCHANGED <<attemptsMade, stalled, round>>
    /\ UNCHANGED <<listening, runVars, posting, logging, edits, steady,
                   received, accepted, troubles>>

(* The worker dies, and its posts with it; BullMQ gives the job to another *)
(* one, a limited number of times, and does not count an attempt.          *)
WorkerDies ==
    /\ job = "active"
    /\ Trouble
    /\ stalled' = stalled + 1
    /\ job' = IF stalled < MAX_STALLED THEN "waiting" ELSE "failed"
    /\ posting' = {f \in posting : f[1] # round}
    /\ logging' = {l \in logging : l[1] # round}
    /\ UNCHANGED <<listening, attemptsMade, round, runVars, edits, steady,
                   received, accepted>>

OutboundNext ==
    \/ Fire \/ TakeDispatch \/ EndDispatch \/ WorkerDies
    \/ \E h \in Hooks : EditHook(h)
    \/ \E batch \in SUBSET queued : NextBatch(batch)
    \/ \E f \in posting : \E got \in BOOLEAN, ok \in BOOLEAN : Post(f, got, ok)
    \/ \E l \in logging : LogDelivery(l) \/ LogFails(l)

OutboundSpec == OutboundInit /\ [][OutboundNext]_outboundVars

-----------------------------------------------------------------------------
(* A job that is done has reached every endpoint that was active and       *)
(* subscribed from the event on: each has answered 2xx, in whatever        *)
(* batches and runs, beside whatever posts an earlier run left behind.     *)
DoneReachesAll == job = "done" => steady \subseteq accepted

(* No endpoint gets another copy of the event unless something went wrong: *)
(* a post somewhere failed, a log row was not written, or a worker died.   *)
CopiesExplained == \A h \in Hooks : received[h] <= 1 + troubles
=============================================================================
