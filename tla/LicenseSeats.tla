---------------------------- MODULE LicenseSeats ----------------------------
(***************************************************************************)
(* One user's license for one app, its seats, and everything that writes   *)
(* to them beside the billing code:                                        *)
(*   core  routes/v1/license/index.ts           POST /activate, /deactivate *)
(*   core  routes/v1/admin/license-management.ts  grant, PATCH, DELETE      *)
(*   core  routes/v1/admin/apps/users.ts        removal of a user          *)
(*   core  utils/license.ts                     ensureLicenseForApp        *)
(*   db    queries.ts                           licenseQueries, activation-*)
(*                                              Queries                    *)
(* Every await is a step, so the calls of several clients interleave       *)
(* between their statements.  The license row is unique per user and app   *)
(* and is only marked as deleted; the activation of a device is unique per *)
(* license and is only marked as deactivated.                              *)
(***************************************************************************)
EXTENDS Naturals, FiniteSets

CONSTANTS
    Calls,      \* requests that core works on at a time
    Devices,
    Sessions,   \* ids of the user's sessions for the app
    Caps,       \* the values of max_activations an operator may give
    Unlimited,  \* max_activations is null
    NoDevice,
    \* Bound of the model:
    MaxCalls    \* how many requests there are in all

ASSUME SeatsAssumption ==
    /\ IsFiniteSet(Calls) /\ IsFiniteSet(Devices)
    /\ Caps \subseteq Nat \ {0}
    /\ Unlimited \notin Nat
    /\ NoDevice \notin Devices
    /\ {"signIn", "grant"} \cap Devices = {}
    /\ MaxCalls \in Nat

VARIABLES
    licence,    \* the row: "none", "live" or "deleted"
    usable,     \* its status is active or trialing
    cap,        \* its max_activations
    seat,       \* the activation of a device: "none", "active" or "off"
    sessions,   \* sessions of the user for the app that are not revoked
    member,     \* the row of app_users is there
    at,         \* stage of a call
    dev,        \* the device it is about
    max,        \* the max_activations it has read
    begun,      \* how many calls have begun
    held,       \* rows that its open transaction has updated
    \* History of the properties:
    topCap,     \* the highest cap there has been
    peak,       \* most calls that were about to insert at one time
    seen,       \* what an open removal has overlapped
    removed,    \* the user was removed, and has not come back since
    crossed     \* what that removal had overlapped

rowVars == <<licence, usable, cap>>
callVars == <<dev, max, begun>>
capHistory == <<topCap, peak>>
removalVars == <<held, seen, removed, crossed>>
seatsVars == <<rowVars, seat, sessions, member, at, callVars, capHistory,
               removalVars>>

Activating == {"license", "device", "count", "insert"}
SigningIn == {"ensure", "ensureAny", "create", "revive", "join", "session"}
Granting == {"upsert", "grantUpdate", "grantInsert"}
Removing == {"seats", "commit", "leave"}
SeatsStage == {"idle", "owned", "release", "patch", "revoke"}
              \cup Activating \cup SigningIn \cup Granting \cup Removing
Mark == Devices \cup {"signIn", "grant"}
Cap == Caps \cup {Unlimited}

SeatsTypeOK ==
    /\ licence \in {"none", "live", "deleted"}
    /\ usable \in BOOLEAN
    /\ cap \in Cap
    /\ seat \in [Devices -> {"none", "active", "off"}]
    /\ sessions \subseteq Sessions
    /\ member \in BOOLEAN
    /\ at \in [Calls -> SeatsStage]
    /\ dev \in [Calls -> Devices \cup {NoDevice}]
    /\ max \in [Calls -> Cap]
    /\ begun \in Nat
    /\ held \in [Calls -> SUBSET (Devices \cup Sessions)]
    /\ topCap \in Cap \cup {1}
    /\ peak \in Nat
    /\ seen \in [Calls -> SUBSET Mark]
    /\ removed \in BOOLEAN
    /\ crossed \subseteq Mark

(* A user the app has never seen, or one with a license and no device yet. *)
SeatsInit ==
    /\ licence \in {"none", "live"} /\ usable = TRUE
    /\ cap \in Cap /\ (licence = "none" => cap = Unlimited)
    /\ seat = [d \in Devices |-> "none"]
    /\ sessions \in (IF licence = "none" THEN {{}} ELSE SUBSET Sessions)
    /\ member = (sessions # {})
    /\ at = [c \in Calls |-> "idle"]
    /\ dev = [c \in Calls |-> NoDevice]
    /\ max = [c \in Calls |-> Unlimited]
    /\ begun = 0
    /\ held = [c \in Calls |-> {}]
    /\ topCap = (IF licence = "none" THEN 1 ELSE cap) /\ peak = 0
    /\ seen = [c \in Calls |-> {}]
    /\ removed = FALSE /\ crossed = {}

-----------------------------------------------------------------------------
Active == {d \in Devices : seat[d] = "active"}
Inserting == {c \in Calls : at[c] = "insert"}
Held == UNION {held[c] : c \in Calls}

Goes(c, from, to) == at[c] = from /\ at' = [at EXCEPT ![c] = to]

Starts(c, to) ==
    /\ begun < MaxCalls
    /\ begun' = begun + 1
    /\ Goes(c, "idle", to)

(* The call answers, and is forgotten.                                     *)
Answered(c) ==
    /\ at' = [at EXCEPT ![c] = "idle"]
    /\ dev' = [dev EXCEPT ![c] = NoDevice]
    /\ max' = [max EXCEPT ![c] = Unlimited]
    /\ UNCHANGED begun

(* A write to max_activations; the history keeps the highest.              *)
SetCap(k) ==
    /\ cap' = k
    /\ topCap' = IF Unlimited \in {k, topCap} THEN Unlimited
                 ELSE IF k > topCap THEN k ELSE topCap

(* History: a call that begins while a removal is open overlaps it.        *)
Overlap(mark) ==
    seen' = [o \in Calls |-> IF at[o] \in Removing THEN seen[o] \cup {mark}
                             ELSE seen[o]]

InFlight ==
    {dev[c] : c \in {o \in Calls : at[o] \in Activating}}
    \cup (IF \E c \in Calls : at[c] \in SigningIn THEN {"signIn"} ELSE {})
    \cup (IF \E c \in Calls : at[c] \in Granting THEN {"grant"} ELSE {})

-----------------------------------------------------------------------------
(* POST /activate: a live session, a license, and the device's active row. *)
Activate(c, d) ==
    /\ sessions # {}
    /\ Starts(c, "license")
    /\ dev' = [dev EXCEPT ![c] = d]
    /\ Overlap(d)
    /\ UNCHANGED <<rowVars, seat, sessions, member, max, capHistory, held,
                   removed, crossed>>

ActivateLicense(c) ==
    /\ at[c] = "license"
    /\ IF licence = "live" /\ usable
       THEN /\ at' = [at EXCEPT ![c] = "device"]
            /\ max' = [max EXCEPT ![c] = cap]
            /\ UNCHANGED <<dev, begun>>
       ELSE Answered(c)
    /\ UNCHANGED <<rowVars, seat, sessions, member, capHistory, removalVars>>

(* A device that is active already is answered at once; a license with no  *)
(* maximum is not counted.                                                 *)
ActivateDevice(c) ==
    /\ at[c] = "device"
    /\ \/ seat[dev[c]] = "active" /\ Answered(c) /\ UNCHANGED capHistory
       \/ /\ seat[dev[c]] # "active" /\ max[c] # Unlimited
          /\ at' = [at EXCEPT ![c] = "count"]
          /\ UNCHANGED <<callVars, capHistory>>
       \/ /\ seat[dev[c]] # "active" /\ max[c] = Unlimited
          /\ at' = [at EXCEPT ![c] = "insert"]
          /\ UNCHANGED <<callVars, capHistory>>
    /\ UNCHANGED <<rowVars, seat, sessions, member, removalVars>>

(* Mutant of LimitReached: one seat too many.                              *)
LimitReachedLate(count, limit) == count > limit
LimitReached(count, limit) == count >= limit

ActivateCount(c) ==
    /\ at[c] = "count"
    /\ IF LimitReached(Cardinality(Active), max[c])
       THEN Answered(c) /\ UNCHANGED peak
       ELSE /\ at' = [at EXCEPT ![c] = "insert"]
            /\ peak' = IF Cardinality(Inserting) + 1 > peak
                       THEN Cardinality(Inserting) + 1 ELSE peak
            /\ UNCHANGED callVars
    /\ UNCHANGED <<rowVars, seat, sessions, member, topCap, removalVars>>

(* The insert fails on the unique key when the device has any row, also a  *)
(* deactivated one, and the client is answered 500.                        *)
(* Mutant of InsertActivation: the key covers active rows only.            *)
InsertActivationAnew(d) == seat' = [seat EXCEPT ![d] = "active"]
InsertActivation(d) ==
    seat' = [seat EXCEPT ![d] = IF @ = "none" THEN "active" ELSE @]

ActivateInsert(c) ==
    /\ at[c] = "insert"
    /\ InsertActivation(dev[c])
    /\ Answered(c)
    /\ UNCHANGED <<rowVars, sessions, member, capHistory, removalVars>>

(* POST /deactivate: any license that is not deleted will do.              *)
Deactivate(c, d) ==
    /\ sessions # {}
    /\ Starts(c, "owned")
    /\ dev' = [dev EXCEPT ![c] = d]
    /\ UNCHANGED <<rowVars, seat, sessions, member, max, capHistory,
                   removalVars>>

DeactivateLicense(c) ==
    /\ at[c] = "owned"
    /\ IF licence = "live"
       THEN at' = [at EXCEPT ![c] = "release"] /\ UNCHANGED callVars
       ELSE Answered(c)
    /\ UNCHANGED <<rowVars, seat, sessions, member, capHistory, removalVars>>

(* The update waits for a transaction that holds the row.                  *)
DeactivateDevice(c) ==
    /\ at[c] = "release"
    /\ dev[c] \notin Held
    /\ seat' = [seat EXCEPT ![dev[c]] = IF @ = "active" THEN "off" ELSE @]
    /\ Answered(c)
    /\ UNCHANGED <<rowVars, sessions, member, capHistory, removalVars>>

-----------------------------------------------------------------------------
(* A user's sign-in to the app, from the point where core knows the user:  *)
(* ensureLicenseForApp, the row of app_users, the session.                 *)
SignIn(c) ==
    /\ Starts(c, "ensure")
    /\ Overlap("signIn")
    /\ removed' = FALSE /\ crossed' = {}
    /\ UNCHANGED <<rowVars, seat, sessions, member, dev, max, capHistory,
                   held>>

Ensure(c) ==
    /\ at[c] = "ensure"
    /\ \/ licence = "live" /\ at' = [at EXCEPT ![c] = "join"]
       \/ licence # "live" /\ at' = [at EXCEPT ![c] = "ensureAny"]
       \/ at' = [at EXCEPT ![c] = "join"]        \* licensing_required is off
    /\ UNCHANGED <<rowVars, seat, sessions, member, callVars, capHistory,
                   removalVars>>

EnsureAny(c) ==
    /\ at[c] = "ensureAny"
    /\ \/ licence = "none" /\ at' = [at EXCEPT ![c] = "create"]
       \/ licence # "none" /\ at' = [at EXCEPT ![c] = "revive"]
       \/ at' = [at EXCEPT ![c] = "join"]        \* no valid default plan
    /\ UNCHANGED <<rowVars, seat, sessions, member, callVars, capHistory,
                   removalVars>>

(* The license that a user gets by default has no maximum.                 *)
FreshLicense ==
    /\ licence' = "live" /\ usable' = TRUE
    /\ SetCap(Unlimited)

(* An insert that meets the unique key fails, and the error is swallowed.  *)
EnsureCreate(c) ==
    /\ Goes(c, "create", "join")
    /\ IF licence = "none" THEN FreshLicense ELSE UNCHANGED <<rowVars, topCap>>
    /\ UNCHANGED <<seat, sessions, member, callVars, peak, removalVars>>

EnsureRevive(c) ==
    /\ Goes(c, "revive", "join")
    /\ FreshLicense
    /\ UNCHANGED <<seat, sessions, member, callVars, peak, removalVars>>

Join(c) ==
    /\ Goes(c, "join", "session")
    /\ member' = TRUE
    /\ UNCHANGED <<rowVars, seat, sessions, callVars, capHistory, removalVars>>

CreateSession(c, s) ==
    /\ s \notin sessions
    /\ Goes(c, "session", "idle")
    /\ sessions' = sessions \cup {s}
    /\ UNCHANGED <<rowVars, seat, member, callVars, capHistory, removalVars>>

(* The sign-in fails at some step and leaves what it has written.          *)
SignInFails(c) ==
    /\ at[c] \in SigningIn
    /\ at' = [at EXCEPT ![c] = "idle"]
    /\ UNCHANGED <<rowVars, seat, sessions, member, callVars, capHistory,
                   removalVars>>

-----------------------------------------------------------------------------
(* POST /grant: upsert looks for a row, deleted or not, then writes.       *)
Grant(c) ==
    /\ Starts(c, "upsert")
    /\ Overlap("grant")
    /\ removed' = FALSE /\ crossed' = {}
    /\ UNCHANGED <<rowVars, seat, sessions, member, dev, max, capHistory,
                   held>>

GrantFind(c) ==
    /\ at[c] = "upsert"
    /\ at' = [at EXCEPT ![c] =
                 IF licence = "none" THEN "grantInsert" ELSE "grantUpdate"]
    /\ UNCHANGED <<rowVars, seat, sessions, member, callVars, capHistory,
                   removalVars>>

GrantWrite(c, k) ==
    /\ at[c] \in {"grantInsert", "grantUpdate"}
    /\ at' = [at EXCEPT ![c] = "idle"]
    /\ IF at[c] = "grantInsert" /\ licence # "none"
       THEN UNCHANGED <<rowVars, topCap>>
       ELSE licence' = "live" /\ usable' = TRUE /\ SetCap(k)
    /\ UNCHANGED <<seat, sessions, member, callVars, peak, removalVars>>

(* PATCH /:licenseId: what is not given keeps its value; the update is by  *)
(* id, so it also reaches a row that was deleted meanwhile.                *)
Patch(c) ==
    /\ licence = "live"
    /\ Starts(c, "patch")
    /\ UNCHANGED <<rowVars, seat, sessions, member, dev, max, capHistory,
                   removalVars>>

PatchWrite(c, u, k) ==
    /\ Goes(c, "patch", "idle")
    /\ usable' = u
    /\ SetCap(k)
    /\ UNCHANGED <<licence, seat, sessions, member, callVars, peak,
                   removalVars>>

(* DELETE /:licenseId: to the free plan when the app has one, which keeps  *)
(* the maximum and the deletion mark, else the row is marked as deleted.   *)
(* The seats stay as they are.                                             *)
Revoke(c) ==
    /\ licence = "live"
    /\ Starts(c, "revoke")
    /\ UNCHANGED <<rowVars, seat, sessions, member, dev, max, capHistory,
                   removalVars>>

RevokeWrite(c, free) ==
    /\ Goes(c, "revoke", "idle")
    /\ IF free THEN usable' = TRUE /\ UNCHANGED licence
       ELSE licence' = "deleted" /\ UNCHANGED usable
    /\ UNCHANGED <<cap, seat, sessions, member, callVars, capHistory,
                   removalVars>>

-----------------------------------------------------------------------------
(* POST /:projectId/apps/:appId/users/:userId, one transaction.  It begins *)
(* with the revocation of the sessions, which waits for rows that another  *)
(* removal holds; nothing is visible to others before the commit.          *)
Remove(c) ==
    /\ sessions \cap Held = {}
    /\ Starts(c, "seats")
    /\ held' = [held EXCEPT ![c] = sessions]
    /\ seen' = [seen EXCEPT ![c] = InFlight]
    /\ UNCHANGED <<rowVars, seat, sessions, member, dev, max, capHistory,
                   removed, crossed>>

(* With no license there is nothing to deactivate, whatever seats there    *)
(* are.                                                                    *)
RemoveSeats(c) ==
    /\ at[c] = "seats"
    /\ IF licence = "live"
       THEN /\ Active \cap Held = {}
            /\ held' = [held EXCEPT ![c] = @ \cup Active]
            /\ at' = [at EXCEPT ![c] = "commit"]
       ELSE /\ at' = [at EXCEPT ![c] = "leave"]
            /\ UNCHANGED held
    /\ UNCHANGED <<rowVars, seat, sessions, member, callVars, capHistory,
                   seen, removed, crossed>>

(* Mutant of DropHeld: the sessions are revoked, the seats are left.       *)
DropHeldSessions(locked) ==
    /\ sessions' = sessions \ locked
    /\ UNCHANGED seat
DropHeld(locked) ==
    /\ sessions' = sessions \ locked
    /\ seat' = [d \in Devices |-> IF d \in locked THEN "off" ELSE seat[d]]

RemoveCommit(c) ==
    /\ at[c] \in {"commit", "leave"}
    /\ at' = [at EXCEPT ![c] = "idle"]
    /\ DropHeld(held[c])
    /\ member' = FALSE
    /\ held' = [held EXCEPT ![c] = {}]
    /\ seen' = [seen EXCEPT ![c] = {}]
    /\ IF at[c] = "commit"
       THEN licence' = "deleted" /\ removed' = TRUE /\ crossed' = seen[c]
       ELSE UNCHANGED <<licence, removed, crossed>>
    /\ UNCHANGED <<usable, cap, callVars, capHistory>>

RemoveFails(c) ==
    /\ at[c] \in Removing
    /\ at' = [at EXCEPT ![c] = "idle"]
    /\ held' = [held EXCEPT ![c] = {}]
    /\ seen' = [seen EXCEPT ![c] = {}]
    /\ UNCHANGED <<rowVars, seat, sessions, member, callVars, capHistory,
                   removed, crossed>>

-----------------------------------------------------------------------------
SeatsNext ==
    \E c \in Calls :
        \/ \E d \in Devices : Activate(c, d) \/ Deactivate(c, d)
        \/ ActivateLicense(c) \/ ActivateDevice(c) \/ ActivateCount(c)
        \/ ActivateInsert(c)
        \/ DeactivateLicense(c) \/ DeactivateDevice(c)
        \/ SignIn(c) \/ Ensure(c) \/ EnsureAny(c) \/ EnsureCreate(c)
        \/ EnsureRevive(c) \/ Join(c) \/ SignInFails(c)
        \/ \E s \in Sessions : CreateSession(c, s)
        \/ Grant(c) \/ GrantFind(c) \/ \E k \in Cap : GrantWrite(c, k)
        \/ Patch(c)
        \/ \E u \in BOOLEAN, k \in Cap : PatchWrite(c, u, k)
        \/ Revoke(c) \/ \E free \in BOOLEAN : RevokeWrite(c, free)
        \/ Remove(c) \/ RemoveSeats(c) \/ RemoveCommit(c) \/ RemoveFails(c)

SeatsSpec == SeatsInit /\ [][SeatsNext]_seatsVars

-----------------------------------------------------------------------------
(* POST /activate counts the seats and inserts in two statements.  The     *)
(* maximum is overrun at most by the calls that were between the two at    *)
(* one time, the one that may pass left out, however often the maximum is  *)
(* raised or lowered, the license deleted, revived or granted again.       *)
SeatsBounded ==
    topCap # Unlimited => Cardinality(Active) <= topCap - 1 + peak

(* A seat that was given back is given back for good: the key that keeps a *)
(* device from being inserted twice also keeps it from coming back, and no *)
(* revival of the license, nor any grant, turns old seats on again.        *)
SeatGivenBack ==
    [][\A d \in Devices : seat[d] = "off" => seat'[d] = "off"]_seatsVars

(* A user who was removed from the app keeps nothing there: no session, no *)
(* license, no seat, until a sign-in or a grant begins anew.  What ran     *)
(* while the transaction was open is the exception: an activation may      *)
(* still insert its seat, and a sign-in or a grant may bring all back.     *)
RemovedLeavesNothing ==
    (removed /\ crossed \cap {"signIn", "grant"} = {}) =>
        /\ sessions = {} /\ licence # "live"
        /\ Active \subseteq crossed
=============================================================================
