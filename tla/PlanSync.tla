------------------------------ MODULE PlanSync ------------------------------
(***************************************************************************)
(* Copies of a plan's prices at the project's payment providers:           *)
(*   workers  sync-plan-to-providers.ts, sync-plan-worker.ts               *)
(*   billing  queue.ts                      enqueuePlanSync                *)
(*   db       queries.ts, schema.ts         priceProviderRefQueries        *)
(*   core     routes/v1/admin/prices.ts     a new price, a manual sync     *)
(* A run goes through the active providers; at each it reads which prices  *)
(* have a reference, creates the others there and then writes their        *)
(* references, one row per price and provider.  Nothing keeps two runs for *)
(* one plan apart.  A price that fails is logged; only when all prices of  *)
(* a provider fail does the provider count as failed, and the plan is      *)
(* queued again.                                                           *)
(***************************************************************************)
EXTENDS Naturals, FiniteSets

CONSTANTS
    Prices, Providers,
    Syncs,          \* runs that the workers are at, at a time
    NoProvider, NoPrice,
    MAX_RETRIES,    \* 5 in the code
    \* Bounds of the model:
    MaxSyncs,       \* plan syncs that operators queue
    MaxSyncFaults   \* calls and statements that fail, and crashes

ASSUME SyncAssumption ==
    /\ IsFiniteSet(Prices) /\ IsFiniteSet(Providers) /\ IsFiniteSet(Syncs)
    /\ NoProvider \notin Providers /\ NoPrice \notin Prices
    /\ {MAX_RETRIES, MaxSyncs, MaxSyncFaults} \subseteq Nat

VARIABLES
    offered,    \* active prices of the plan
    enabled,    \* active providers of the project
    refs,       \* <<price, provider>> with a row of price_provider_refs
    jobs,       \* jobs that wait, by their retryCount
    phase,      \* of a run
    retry,      \* its retryCount
    priceList,  \* the prices it has read
    remaining,  \* providers it has still to go to
    provider,   \* the one it is at
    unread,     \* prices whose reference it has still to look for
    missing,    \* prices it has to create there
    price,      \* the one it is at
    synced,     \* it has synced a price there
    failed,     \* its failed providers
    queuedSyncs, syncFaults,
    \* History of the properties:
    created,    \* prices made at a provider
    overlap,    \* most runs that were about to make one, at one time
    orphaned,   \* made, and their run died or failed before the reference
    swallowed,  \* pairs whose failure a run has only logged
    visited,    \* providers that a run had read
    reported    \* pairs that a run which reported success was to sync

runState == <<phase, retry, priceList, remaining, provider, unread, missing,
              price, synced, failed>>
syncHistory == <<created, overlap, orphaned, swallowed, visited, reported>>
planVars == <<offered, enabled, refs, jobs, runState, queuedSyncs, syncFaults,
              syncHistory>>

Pairs == Prices \X Providers
AtPrice == {"reference", "legacy"}
PlanTypeOK ==
    /\ offered \subseteq Prices /\ enabled \subseteq Providers
    /\ refs \subseteq Pairs
    /\ jobs \in [0 .. MAX_RETRIES -> Nat]
    /\ phase \in [Syncs -> {"idle", "providers", "next", "refs", "product",
                            "prices"} \cup AtPrice]
    /\ retry \in [Syncs -> 0 .. MAX_RETRIES]
    /\ priceList \in [Syncs -> SUBSET Prices]
    /\ remaining \in [Syncs -> SUBSET Providers]
    /\ provider \in [Syncs -> Providers \cup {NoProvider}]
    /\ unread \in [Syncs -> SUBSET Prices]
    /\ missing \in [Syncs -> SUBSET Prices]
    /\ price \in [Syncs -> Prices \cup {NoPrice}]
    /\ synced \in [Syncs -> BOOLEAN]
    /\ failed \in [Syncs -> SUBSET Providers]
    /\ {queuedSyncs, syncFaults} \subseteq Nat
    /\ created \in [Pairs -> Nat] /\ overlap \in [Pairs -> Nat]
    /\ orphaned \in [Pairs -> Nat]
    /\ swallowed \in [Syncs -> SUBSET Pairs]
    /\ visited \in [Syncs -> SUBSET Providers]
    /\ reported \subseteq Pairs

PlanInit ==
    /\ offered \in SUBSET Prices /\ enabled \in SUBSET Providers
    /\ refs = {}
    /\ jobs = [n \in 0 .. MAX_RETRIES |-> 0]
    /\ phase = [r \in Syncs |-> "idle"] /\ retry = [r \in Syncs |-> 0]
    /\ priceList = [r \in Syncs |-> {}] /\ remaining = [r \in Syncs |-> {}]
    /\ provider = [r \in Syncs |-> NoProvider]
    /\ unread = [r \in Syncs |-> {}] /\ missing = [r \in Syncs |-> {}]
    /\ price = [r \in Syncs |-> NoPrice]
    /\ synced = [r \in Syncs |-> FALSE] /\ failed = [r \in Syncs |-> {}]
    /\ queuedSyncs = 0 /\ syncFaults = 0
    /\ created = [x \in Pairs |-> 0] /\ overlap = [x \in Pairs |-> 0]
    /\ orphaned = [x \in Pairs |-> 0]
    /\ swallowed = [r \in Syncs |-> {}] /\ visited = [r \in Syncs |-> {}]
    /\ reported = {}

-----------------------------------------------------------------------------
(* Runs that have found no reference for the pair and not written one yet. *)
Holders(x) ==
    {r \in Syncs : /\ provider[r] = x[2]
                   /\ x[1] \in missing[r]}

SyncFault == syncFaults < MaxSyncFaults /\ syncFaults' = syncFaults + 1
Moves(r, from, to) == phase[r] = from /\ phase' = [phase EXCEPT ![r] = to]

ForgetRun(r) ==
    /\ phase' = [phase EXCEPT ![r] = "idle"]
    /\ retry' = [retry EXCEPT ![r] = 0]
    /\ priceList' = [priceList EXCEPT ![r] = {}]
    /\ remaining' = [remaining EXCEPT ![r] = {}]
    /\ provider' = [provider EXCEPT ![r] = NoProvider]
    /\ unread' = [unread EXCEPT ![r] = {}]
    /\ missing' = [missing EXCEPT ![r] = {}]
    /\ price' = [price EXCEPT ![r] = NoPrice]
    /\ synced' = [synced EXCEPT ![r] = FALSE]
    /\ failed' = [failed EXCEPT ![r] = {}]
    /\ swallowed' = [swallowed EXCEPT ![r] = {}]
    /\ visited' = [visited EXCEPT ![r] = {}]

(* The provider is done with, or has failed.                               *)
LeaveProvider(r, ok) ==
    /\ phase' = [phase EXCEPT ![r] = "next"]
    /\ provider' = [provider EXCEPT ![r] = NoProvider]
    /\ missing' = [missing EXCEPT ![r] = {}]
    /\ unread' = [unread EXCEPT ![r] = {}]
    /\ failed' = [failed EXCEPT ![r] = IF ok THEN @ ELSE @ \cup {provider[r]}]
    /\ UNCHANGED <<retry, priceList, remaining, price, synced>>

-----------------------------------------------------------------------------
(* A price or provider becomes active or inactive; a new price, or an      *)
(* operator, queues a sync, which may fail unnoticed.                      *)
EditPlan ==
    /\ queuedSyncs < MaxSyncs /\ queuedSyncs' = queuedSyncs + 1
    /\ \/ /\ \E p \in Prices : offered' = IF p \in offered THEN offered \ {p}
                                          ELSE offered \cup {p}
          /\ UNCHANGED enabled
       \/ /\ \E q \in Providers : enabled' = IF q \in enabled
                                            THEN enabled \ {q}
                                            ELSE enabled \cup {q}
          /\ UNCHANGED offered
       \/ UNCHANGED <<offered, enabled>>
    /\ \/ jobs' = [jobs EXCEPT ![0] = @ + 1]
       \/ UNCHANGED jobs
    /\ UNCHANGED <<refs, runState, syncFaults, syncHistory>>

(* The plan's active prices; without any the run has succeeded.            *)
TakeSync(r, n) ==
    /\ phase[r] = "idle" /\ jobs[n] > 0
    /\ jobs' = [jobs EXCEPT ![n] = @ - 1]
    /\ IF offered = {} THEN UNCHANGED <<phase, retry, priceList>>
       ELSE /\ phase' = [phase EXCEPT ![r] = "providers"]
            /\ retry' = [retry EXCEPT ![r] = n]
            /\ priceList' = [priceList EXCEPT ![r] = offered]
    /\ UNCHANGED <<offered, enabled, refs, remaining, provider, unread,
                   missing, price, synced, failed, queuedSyncs, syncFaults,
                   syncHistory>>

ReadProviders(r) ==
    /\ Moves(r, "providers", "next")
    /\ remaining' = [remaining EXCEPT ![r] = enabled]
    /\ visited' = [visited EXCEPT ![r] = enabled]
    /\ UNCHANGED <<offered, enabled, refs, jobs, retry, priceList, provider,
                   unread, missing, price, synced, failed, queuedSyncs,
                   syncFaults, created, overlap, orphaned, swallowed, reported>>

NextProvider(r, q) ==
    /\ q \in remaining[r]
    /\ Moves(r, "next", "refs")
    /\ remaining' = [remaining EXCEPT ![r] = @ \ {q}]
    /\ provider' = [provider EXCEPT ![r] = q]
    /\ unread' = [unread EXCEPT ![r] = priceList[r]]
    /\ synced' = [synced EXCEPT ![r] = FALSE]
    /\ UNCHANGED <<offered, enabled, refs, jobs, retry, priceList, missing,
                   price, failed, queuedSyncs, syncFaults, syncHistory>>

(* Mutant of HasRef: references are not looked for.                        *)
HasRefNever(x) == FALSE
HasRef(x) == x \in refs

ReadRef(r, p) ==
    LET x == <<p, provider[r]>>
        n == Cardinality(Holders(x)) + 1
    IN
    /\ phase[r] = "refs" /\ p \in unread[r]
    /\ unread' = [unread EXCEPT ![r] = @ \ {p}]
    /\ IF HasRef(x) THEN UNCHANGED <<missing, overlap>>
       ELSE /\ missing' = [missing EXCEPT ![r] = @ \cup {p}]
            /\ overlap' = [overlap EXCEPT ![x] = IF n > @ THEN n ELSE @]
    /\ UNCHANGED <<offered, enabled, refs, jobs, phase, retry, priceList,
                   remaining, provider, price, synced, failed, queuedSyncs,
                   syncFaults, created, orphaned, swallowed, visited, reported>>

(* Nothing to create, or first the product: an existing one if any of the  *)
(* prices has a reference to it.                                           *)
RefsRead(r) ==
    /\ phase[r] = "refs" /\ unread[r] = {}
    /\ IF missing[r] = {} THEN LeaveProvider(r, TRUE)
       ELSE /\ phase' = [phase EXCEPT ![r] = "product"]
            /\ UNCHANGED <<retry, priceList, remaining, provider, unread,
                           missing, price, synced, failed>>
    /\ UNCHANGED <<offered, enabled, refs, jobs, queuedSyncs, syncFaults,
                   syncHistory>>

(* Mutant of ProductFailed: the provider is passed over.                   *)
ProductFailedLightly(r) == LeaveProvider(r, TRUE)
ProductFailed(r) == LeaveProvider(r, FALSE)

CreateProduct(r) ==
    /\ \/ /\ Moves(r, "product", "prices")
          /\ UNCHANGED <<retry, priceList, remaining, provider, unread,
                         missing, price, synced, failed, syncFaults>>
       \/ /\ phase[r] \in {"refs", "product"}  \* a read, decryption, the call
          /\ SyncFault
          /\ ProductFailed(r)
    /\ UNCHANGED <<offered, enabled, refs, jobs, queuedSyncs, syncHistory>>

(* Each missing price is created once; a failure is logged.                *)
CreatePrice(r, p) ==
    LET x == <<p, provider[r]>> IN
    /\ phase[r] = "prices" /\ p \in missing[r]
    /\ \/ /\ phase' = [phase EXCEPT ![r] = "reference"]
          /\ price' = [price EXCEPT ![r] = p]
          /\ created' = [created EXCEPT ![x] = @ + 1]
          /\ UNCHANGED <<missing, swallowed, syncFaults>>
       \/ /\ SyncFault
          /\ missing' = [missing EXCEPT ![r] = @ \ {p}]
          /\ swallowed' = [swallowed EXCEPT ![r] = @ \cup {x}]
          /\ UNCHANGED <<phase, price, created>>
    /\ UNCHANGED <<offered, enabled, refs, jobs, retry, priceList, remaining,
                   provider, unread, synced, failed, queuedSyncs, overlap,
                   orphaned, visited, reported>>

(* The upsert; when it fails the provider's price is without a reference.  *)
SaveRef(r) ==
    LET x == <<price[r], provider[r]>> IN
    /\ phase[r] = "reference"
    /\ missing' = [missing EXCEPT ![r] = @ \ {price[r]}]
    /\ \/ /\ phase' = [phase EXCEPT ![r] = "legacy"]
          /\ refs' = refs \cup {x}
          /\ UNCHANGED <<price, swallowed, orphaned, syncFaults>>
       \/ /\ SyncFault
          /\ phase' = [phase EXCEPT ![r] = "prices"]
          /\ price' = [price EXCEPT ![r] = NoPrice]
          /\ swallowed' = [swallowed EXCEPT ![r] = @ \cup {x}]
          /\ orphaned' = [orphaned EXCEPT ![x] = @ + 1]
          /\ UNCHANGED refs
    /\ UNCHANGED <<offered, enabled, jobs, retry, priceList, remaining,
                   provider, unread, synced, failed, queuedSyncs, created,
                   overlap, visited, reported>>

(* The legacy column of the price; if that fails the price counts as       *)
(* failed although it has its reference.                                   *)
UpdateLegacy(r) ==
    /\ Moves(r, "legacy", "prices")
    /\ price' = [price EXCEPT ![r] = NoPrice]
    /\ \/ synced' = [synced EXCEPT ![r] = TRUE] /\ UNCHANGED syncFaults
       \/ SyncFault /\ UNCHANGED synced
    /\ UNCHANGED <<offered, enabled, refs, jobs, retry, priceList, remaining,
                   provider, unread, missing, failed, queuedSyncs, syncHistory>>

ProviderDone(r) ==
    /\ phase[r] = "prices" /\ missing[r] = {}
    /\ LeaveProvider(r, synced[r])
    /\ UNCHANGED <<offered, enabled, refs, jobs, queuedSyncs, syncFaults,
                   syncHistory>>

(* Success, or another run with a higher retryCount, or none any more.     *)
SyncDone(r) ==
    /\ phase[r] = "next" /\ remaining[r] = {}
    /\ IF failed[r] = {}
       THEN /\ reported' = reported \cup
                  ((priceList[r] \X visited[r]) \ swallowed[r])
            /\ UNCHANGED jobs
       ELSE /\ jobs' = IF retry[r] < MAX_RETRIES
                       THEN [jobs EXCEPT ![retry[r] + 1] = @ + 1] ELSE jobs
            /\ UNCHANGED reported
    /\ ForgetRun(r)
    /\ UNCHANGED <<offered, enabled, refs, queuedSyncs, syncFaults, created,
                   overlap, orphaned>>

(* A read fails, or the worker dies; the queue runs the job again.         *)
SyncDies(r) ==
    LET x == <<price[r], provider[r]>> IN
    /\ phase[r] # "idle"
    /\ SyncFault
    /\ jobs' = [jobs EXCEPT ![retry[r]] = @ + 1]
    /\ orphaned' = IF phase[r] = "reference"
                   THEN [orphaned EXCEPT ![x] = @ + 1] ELSE orphaned
    /\ ForgetRun(r)
    /\ UNCHANGED <<offered, enabled, refs, queuedSyncs, created, overlap,
                   reported>>

PlanNext ==
    \/ EditPlan
    \/ \E r \in Syncs :
        \/ \E n \in 0 .. MAX_RETRIES : TakeSync(r, n)
        \/ ReadProviders(r) \/ \E q \in Providers : NextProvider(r, q)
        \/ \E p \in Prices : ReadRef(r, p) \/ CreatePrice(r, p)
        \/ RefsRead(r) \/ CreateProduct(r) \/ SaveRef(r) \/ UpdateLegacy(r)
        \/ ProviderDone(r) \/ SyncDone(r) \/ SyncDies(r)

PlanSpec == PlanInit /\ [][PlanNext]_planVars

-----------------------------------------------------------------------------
(* A provider is asked to make a price at most as often as there were runs *)
(* that had found no reference for it at one time, and once more for each  *)
(* run that made it and wrote no reference, by a failure or its death.     *)
PricesBounded == \A x \in Pairs : created[x] <= overlap[x] + orphaned[x]

(* A run that reports success has left a reference for every price and     *)
(* provider that it had read, but for those whose failure it only logged;  *)
(* nobody retries these.                                                   *)
SuccessLeavesRefs == reported \subseteq refs
=============================================================================
