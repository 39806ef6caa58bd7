--------------------------- MODULE GatewaySession ---------------------------
(***************************************************************************)
(* Sessions of the gateway and of core:                                    *)
(*   gateway  middleware/auth.ts       authMiddleware                      *)
(*   gateway  routes/auth/oauth.ts     GET /callback                       *)
(*   gateway  routes/auth/login.ts     POST /login, POST /logout           *)
(*   gateway  routes/auth/sessions.ts  DELETE /sessions/:sessionId         *)
(*   gateway  routes/me.ts             DELETE /sessions, /sessions/:id     *)
(*   gateway  routes/email.ts          POST /verify, GET /magic            *)
(*   core     routes/v1/auth/index.ts  POST /exchange                      *)
(*   core     routes/v1/edge.ts        DELETE /users/:userId/sessions      *)
(*   cache    client.ts                sessionStore (Redis)                *)
(* A gateway session is a Redis key that names a core session; several     *)
(* may name the same one.  Requests run concurrently, each await a step.   *)
(***************************************************************************)
EXTENDS Naturals

CONSTANTS
    Users, Cores,   \* core's sessions rows
    Tokens,         \* the ids in Redis' session:app:<id> keys
    Requests,       \* requests the gateway works on at a time
    Owner,          \* the user a core session was created for
    NoCore, NoToken, NoSession,
    ADMIN_INACTIVITY_TIMEOUT, SESSION_TTL,
    LoginTtl,       \* lifetime a login gives, for the kinds in use
    \* Bounds of the model:
    MaxTime,        \* ticks of the clock
    MaxFaults       \* Redis or core errors that the code swallows

(* How a session is presented.  "legacy" is an admin cookie of POST /login,*)
(* which stores no sessionType; "app" is a Bearer token.                   *)
Kinds == {"user", "app", "admin", "legacy"}

ASSUME SessionAssumption ==
    /\ Owner \in [Cores -> Users]
    /\ NoCore \notin Cores /\ NoToken \notin Tokens
    /\ {ADMIN_INACTIVITY_TIMEOUT, SESSION_TTL} \subseteq Nat \ {0}
    /\ DOMAIN LoginTtl \subseteq Kinds
    /\ \A kind \in DOMAIN LoginTtl : LoginTtl[kind] \in Nat \ {0}
    /\ {MaxTime, MaxFaults} \subseteq Nat

Session == [core : Cores, kind : Kinds, last : Nat]

ASSUME NoSessionAssumption == NoSession \notin Session

VARIABLES
    now,
    core,       \* "none", "live" or "expired": the row and its expires_at
    revoked,    \* core sessions whose revoked_at is set
    store,      \* what Redis holds under a token
    dies,       \* when Redis drops it; 0 when there is nothing
    issued,     \* tokens that some client has been given
    faults,
    pc, tok, snap, \* a request's stage, the token it is about, its copy
    aim, work,  \* the core session to sign out, what is left to go through
    \* History of the properties:
    signedOut,  \* core sessions a caller was told are signed out
    dropped,    \* tokens a caller was told are revoked
    revived,    \* tokens the middleware wrote back after they were gone
    closing,    \* core sessions a running sign-out was asked to end
    busy,       \* when an admin session was last being used
    flags       \* what was true of a request's session when it began

coreVars == <<core, revoked>>
redisVars == <<store, dies>>
requestVars == <<pc, tok, snap, aim, work>>
historyVars == <<signedOut, dropped, revived>>
vars == <<now, coreVars, redisVars, issued, faults, requestVars,
          historyVars, closing, busy, flags>>

Stage == {"idle", "store", "check", "expire", "exchange", "touch",
          "admitted", "delete", "revoke", "drop", "edge", "scan"}
Flag == {"signedOut", "dropped", "quiet"}

TypeOK ==
    /\ now \in Nat
    /\ core \in [Cores -> {"none", "live", "expired"}]
    /\ revoked \subseteq Cores
    /\ store \in [Tokens -> Session \cup {NoSession}]
    /\ dies \in [Tokens -> Nat]
    /\ issued \subseteq Tokens
    /\ faults \in Nat
    /\ pc \in [Requests -> Stage]
    /\ tok \in [Requests -> Tokens \cup {NoToken}]
    /\ snap \in [Requests -> Session \cup {NoSession}]
    /\ aim \in [Requests -> Cores \cup {NoCore}]
    /\ work \in [Requests -> SUBSET (Cores \cup Tokens)]
    /\ signedOut \subseteq Cores
    /\ dropped \subseteq Tokens
    /\ revived \subseteq Tokens
    /\ closing \in [Requests -> SUBSET Cores]
    /\ busy \in [Tokens -> Nat]
    /\ flags \in [Requests -> SUBSET Flag]

Init ==
    /\ now = 0
    /\ core = [c \in Cores |-> "none"]
    /\ revoked = {}
    /\ store = [t \in Tokens |-> NoSession]
    /\ dies = [t \in Tokens |-> 0]
    /\ issued = {}
    /\ faults = 0
    /\ pc = [r \in Requests |-> "idle"]
    /\ tok = [r \in Requests |-> NoToken]
    /\ snap = [r \in Requests |-> NoSession]
    /\ aim = [r \in Requests |-> NoCore]
    /\ work = [r \in Requests |-> {}]
    /\ signedOut = {} /\ dropped = {} /\ revived = {}
    /\ closing = [r \in Requests |-> {}]
    /\ busy = [t \in Tokens |-> 0]
    /\ flags = [r \in Requests |-> {}]

-----------------------------------------------------------------------------
Fault == faults < MaxFaults /\ faults' = faults + 1

(* What POST /exchange, and core's own session checks, accept.             *)
Live(c) == core[c] = "live" /\ c \notin revoked

Move(r, from, to) == pc[r] = from /\ pc' = [pc EXCEPT ![r] = to]

(* The request answers and is forgotten.                                   *)
Answer(r) ==
    /\ pc' = [pc EXCEPT ![r] = "idle"]
    /\ tok' = [tok EXCEPT ![r] = NoToken]
    /\ snap' = [snap EXCEPT ![r] = NoSession]
    /\ aim' = [aim EXCEPT ![r] = NoCore]
    /\ work' = [work EXCEPT ![r] = {}]
    /\ closing' = [closing EXCEPT ![r] = {}]
    /\ flags' = [flags EXCEPT ![r] = {}]

(* sessionStore.revokeAppSession: an error is logged and swallowed.        *)
RevokeAppSession(t) ==
    \/ /\ store' = [store EXCEPT ![t] = NoSession]
       /\ dies' = [dies EXCEPT ![t] = 0]
       /\ UNCHANGED faults
    \/ Fault /\ UNCHANGED redisVars

(* sessionStore.setAppSession, with its setEx: it also creates the key.    *)
SetAppSession(t, s, ttl) ==
    \/ /\ store' = [store EXCEPT ![t] = s]
       /\ dies' = [dies EXCEPT ![t] = now + ttl]
       /\ UNCHANGED faults
    \/ Fault /\ UNCHANGED redisVars

Admitting == {"check", "expire", "exchange", "touch"}
InUse == Admitting \cup {"admitted"}

(* Request r is under way on admin session t.                              *)
Uses(r, t) == tok[r] = t /\ pc[r] \in InUse /\ snap[r].kind = "admin"

NowBusy(t, s) ==
    IF s.kind = "admin" THEN [busy EXCEPT ![t] = now] ELSE busy

(* A minute of the inactivity timeout passes; Redis drops what has expired.*)
Tick ==
    /\ now < MaxTime
    /\ now' = now + 1
    /\ store' = [t \in Tokens |->
          IF dies[t] <= now + 1 THEN NoSession ELSE store[t]]
    /\ dies' = [t \in Tokens |-> IF dies[t] <= now + 1 THEN 0 ELSE dies[t]]
    /\ busy' = [t \in Tokens |->
          IF \E r \in Requests : Uses(r, t) THEN now + 1 ELSE busy[t]]
    /\ UNCHANGED <<coreVars, issued, faults, requestVars, historyVars,
                   closing, flags>>

-----------------------------------------------------------------------------
(* Core: a session row is made by an OAuth or email login, expires, and is *)
(* revoked when an admin removes the user from the app.                    *)

CoreLogin(c) ==
    /\ core[c] = "none"
    /\ core' = [core EXCEPT ![c] = "live"]
    /\ UNCHANGED <<now, revoked, redisVars, issued, faults, requestVars,
                   historyVars, closing, busy, flags>>

CoreExpire(c) ==
    /\ core[c] = "live"
    /\ core' = [core EXCEPT ![c] = "expired"]
    /\ UNCHANGED <<now, revoked, redisVars, issued, faults, requestVars,
                   historyVars, closing, busy, flags>>

RemoveAppUser(c) ==
    /\ core[c] # "none"
    /\ revoked' = revoked \cup {c}
    /\ signedOut' = signedOut \cup {c}
    /\ UNCHANGED <<now, core, redisVars, issued, faults, requestVars, dropped,
                   revived, closing, busy, flags>>

-----------------------------------------------------------------------------
(* Login: exchange the core session's id, then store a session under a new *)
(* random token.  The id is no single-use code: it may come in again.      *)

Login(r, c, t, kind) ==
    /\ pc[r] = "idle"
    /\ Live(c) /\ kind \in DOMAIN LoginTtl
    /\ t \notin issued /\ \A q \in Requests : tok[q] # t
    /\ pc' = [pc EXCEPT ![r] = "store"]
    /\ tok' = [tok EXCEPT ![r] = t]
    /\ snap' = [snap EXCEPT ![r] = [core |-> c, kind |-> kind, last |-> 0]]
    /\ UNCHANGED <<now, coreVars, redisVars, issued, faults, aim, work,
                   historyVars, closing, busy, flags>>

(* lastActivityAt is kept for an admin session only: nothing else reads it.*)
Noted(s) == [s EXCEPT !.last = IF s.kind = "admin" THEN now ELSE 0]

(* The client gets its cookie or token whether or not Redis took it.       *)
LoginStore(r) ==
    /\ pc[r] = "store"
    /\ SetAppSession(tok[r], Noted(snap[r]), LoginTtl[snap[r].kind])
    /\ issued' = issued \cup {tok[r]}
    /\ busy' = NowBusy(tok[r], snap[r])
    /\ Answer(r)
    /\ UNCHANGED <<now, coreVars, historyVars>>

-----------------------------------------------------------------------------
(* authMiddleware. *)

(* getAppSession: nothing under the token, or an error, is a 401.          *)
Begin(r, t) ==
    /\ pc[r] = "idle"
    /\ t \in issued /\ store[t] # NoSession
    /\ pc' = [pc EXCEPT
          ![r] = IF store[t].kind = "admin" THEN "check" ELSE "expire"]
    /\ tok' = [tok EXCEPT ![r] = t]
    /\ snap' = [snap EXCEPT ![r] = store[t]]
    /\ busy' = NowBusy(t, store[t])
    /\ flags' = [flags EXCEPT ![r] =
          (IF store[t].core \in signedOut THEN {"signedOut"} ELSE {})
          \cup (IF t \in dropped THEN {"dropped"} ELSE {})
          \cup (IF /\ now > busy[t] + ADMIN_INACTIVITY_TIMEOUT
                   /\ \A q \in Requests : ~Uses(q, t)
                THEN {"quiet"} ELSE {})]
    /\ UNCHANGED <<now, coreVars, redisVars, issued, faults, aim, work,
                   historyVars, closing>>

\* Mutant: one unit more than the timeout allows.
IdleOffByOne(s) == now > s.last + ADMIN_INACTIVITY_TIMEOUT + 1

Idle(s) == now > s.last + ADMIN_INACTIVITY_TIMEOUT

RefuseIdle(r) ==
    /\ pc[r] = "check"
    /\ Idle(snap[r])
    /\ RevokeAppSession(tok[r])
    /\ Answer(r)
    /\ UNCHANGED <<now, coreVars, issued, historyVars, busy>>

(* The whole copy is written back, whatever has become of the key.         *)
NoteActivity(r) ==
    /\ Move(r, "check", "expire")
    /\ ~Idle(snap[r])
    /\ SetAppSession(tok[r], Noted(snap[r]),
                     ADMIN_INACTIVITY_TIMEOUT)
    /\ revived' = IF store[tok[r]] = NoSession /\ store'[tok[r]] # NoSession
                  THEN revived \cup {tok[r]} ELSE revived
    /\ UNCHANGED <<now, coreVars, issued, tok, snap, aim, work, signedOut,
                   dropped, closing, busy, flags>>

(* cache.expire: nothing to do when the key is gone.                       *)
AccessTtl(kind) ==
    IF kind = "admin" THEN ADMIN_INACTIVITY_TIMEOUT ELSE SESSION_TTL

Expire(r) ==
    /\ Move(r, "expire", "exchange")
    /\ \/ /\ dies' = IF store[tok[r]] = NoSession THEN dies
                     ELSE [dies EXCEPT ![tok[r]] =
                                   now + AccessTtl(snap[r].kind)]
          /\ UNCHANGED faults
       \/ Fault /\ UNCHANGED dies
    /\ UNCHANGED <<now, coreVars, store, issued, tok, snap, aim, work,
                   historyVars, closing, busy, flags>>

Exchange(r) ==
    /\ Move(r, "exchange", "touch")
    /\ Live(snap[r].core)
    /\ UNCHANGED <<now, coreVars, redisVars, issued, faults, tok, snap, aim,
                   work, historyVars, closing, busy, flags>>

\* Mutant: the row read by the exchange is written back as a whole.
TouchWholeRow(r) ==
    /\ Move(r, "touch", "admitted")
    /\ core' = [core EXCEPT ![snap[r].core] = "live"]
    /\ revoked' = revoked \ {snap[r].core}
    /\ snap' = [snap EXCEPT ![r].last = 0]
    /\ flags' = [flags EXCEPT ![r] = {}]
    /\ UNCHANGED <<now, redisVars, issued, faults, tok, aim, work,
                   historyVars, closing, busy>>

(* updateLastSeenAndExpiry, when last_seen_at is old enough, by id only;   *)
(* the gateway then keeps who is calling, not the session's data.          *)
Touch(r) ==
    /\ Move(r, "touch", "admitted")
    /\ \/ core' = [core EXCEPT ![snap[r].core] = "live"]
       \/ UNCHANGED core
    /\ snap' = [snap EXCEPT ![r].last = 0]
    /\ flags' = [flags EXCEPT ![r] = {}]
    /\ UNCHANGED <<now, revoked, redisVars, issued, faults, tok, aim, work,
                   historyVars, closing, busy>>

(* The handler has answered; or core refused, a call failed or timed out,  *)
(* or the gateway stopped.  What has been done stays done.                 *)
End(r) ==
    /\ pc[r] # "idle"
    /\ Answer(r)
    /\ UNCHANGED <<now, coreVars, redisVars, issued, faults, historyVars, busy>>

-----------------------------------------------------------------------------
(* POST /logout: read the session, delete it, revoke what it names.        *)

LogoutRead(r, t) ==
    /\ Move(r, "idle", "delete")
    /\ t \in issued
    /\ store[t] # NoSession => store[t].kind # "app"
    /\ \/ snap' = [snap EXCEPT ![r] = store[t]] /\ UNCHANGED faults
       \/ Fault /\ UNCHANGED snap
    /\ tok' = [tok EXCEPT ![r] = t]
    /\ closing' = [closing EXCEPT ![r] =
          IF store[t] = NoSession THEN {} ELSE {store[t].core}]
    /\ UNCHANGED <<now, coreVars, redisVars, issued, aim, work, historyVars,
                   busy, flags>>

LogoutDelete(r) ==
    /\ Move(r, "delete", "revoke")
    /\ RevokeAppSession(tok[r])
    /\ UNCHANGED <<now, coreVars, issued, tok, snap, aim, work, historyVars,
                   closing, busy, flags>>

(* A failure to revoke is logged; the answer is "Logged out successfully". *)
LogoutRevoke(r) ==
    /\ pc[r] = "revoke"
    /\ IF snap[r] = NoSession THEN UNCHANGED <<revoked, faults>>
       ELSE \/ revoked' = revoked \cup {snap[r].core} /\ UNCHANGED faults
            \/ Fault /\ UNCHANGED revoked
    /\ signedOut' = signedOut \cup closing[r]
    /\ Answer(r)
    /\ UNCHANGED <<now, core, redisVars, issued, dropped, revived, busy>>

-----------------------------------------------------------------------------
(* DELETE /v1/auth/sessions/:sessionId deletes another gateway session of  *)
(* the caller, not the core session it names.  The checks before read what *)
(* never changes for a token, and are one step.                            *)

RevokeOther(r, mine, t) ==
    /\ Move(r, "idle", "drop")
    /\ mine \in issued /\ mine # t
    /\ store[mine] # NoSession /\ store[t] # NoSession
    /\ store[mine].kind # "app"
    /\ Live(store[mine].core)
    /\ Owner[store[t].core] = Owner[store[mine].core]
    /\ tok' = [tok EXCEPT ![r] = t]
    /\ UNCHANGED <<now, coreVars, redisVars, issued, faults, snap, aim, work,
                   historyVars, closing, busy, flags>>

\* Mutant: the answer does not wait for the deletion, which is lost.
DropSessionUnawaited(r) ==
    /\ pc[r] = "drop"
    /\ dropped' = dropped \cup {tok[r]}
    /\ Answer(r)
    /\ UNCHANGED <<now, coreVars, redisVars, issued, faults, signedOut, revived,
                   busy>>

DropSession(r) ==
    /\ pc[r] = "drop"
    /\ RevokeAppSession(tok[r])
    /\ dropped' = dropped \cup {tok[r]}
    /\ Answer(r)
    /\ UNCHANGED <<now, coreVars, issued, signedOut, revived, busy>>

-----------------------------------------------------------------------------
(* DELETE /v1/me/sessions and /v1/me/sessions/:sessionId: core revokes its *)
(* rows, then the gateway scans Redis for the sessions that name them.     *)

Mine(r) == {c \in Cores : Owner[c] = Owner[snap[r].core]}

OwnRoute(r) == pc[r] = "admitted" /\ snap[r].kind \in {"user", "app"}

SignOutAll(r) ==
    /\ OwnRoute(r) /\ Move(r, "admitted", "edge")
    /\ work' = [work EXCEPT ![r] = {c \in Mine(r) : Live(c)}]
    /\ closing' = [closing EXCEPT ![r] = {c \in Mine(r) : Live(c)}]
    /\ UNCHANGED <<now, coreVars, redisVars, issued, faults, tok, snap, aim,
                   historyVars, busy, flags>>

EdgeRevoke(r) ==
    /\ pc[r] = "edge"
    /\ \E c \in work[r] :
          /\ revoked' = revoked \cup {c}
          /\ work' = [work EXCEPT ![r] = @ \ {c}]
    /\ UNCHANGED <<now, core, redisVars, issued, faults, pc, tok, snap, aim,
                   historyVars, closing, busy, flags>>

(* SCAN promises the keys that are there throughout, and may give others.  *)
ScanBegin(r) ==
    \E keys \in SUBSET Tokens :
       /\ \A t \in Tokens : store[t] # NoSession => t \in keys
       /\ work' = [work EXCEPT ![r] = keys]

EdgeDone(r) ==
    /\ Move(r, "edge", "scan")
    /\ work[r] = {}
    /\ ScanBegin(r)
    /\ UNCHANGED <<now, coreVars, redisVars, issued, faults, tok, snap, aim,
                   historyVars, closing, busy, flags>>

SignOutOne(r, c) ==
    /\ OwnRoute(r) /\ Move(r, "admitted", "scan")
    /\ c \in Mine(r) /\ core[c] # "none"
    /\ revoked' = revoked \cup {c}
    /\ aim' = [aim EXCEPT ![r] = c]
    /\ closing' = [closing EXCEPT ![r] = {c}]
    /\ ScanBegin(r)
    /\ UNCHANGED <<now, core, redisVars, issued, faults, tok, snap,
                   historyVars, busy, flags>>

ToDelete(r, t) ==
    /\ store[t] # NoSession
    /\ store[t].core \in Mine(r)
    /\ aim[r] # NoCore => store[t].core = aim[r]

ScanStep(r) ==
    /\ pc[r] = "scan"
    /\ \E t \in work[r] :
          /\ work' = [work EXCEPT ![r] = @ \ {t}]
          /\ IF ToDelete(r, t) THEN RevokeAppSession(t)
             ELSE UNCHANGED <<redisVars, faults>>
    /\ UNCHANGED <<now, coreVars, issued, pc, tok, snap, aim, historyVars,
                   closing, busy, flags>>

SignOutDone(r) ==
    /\ pc[r] = "scan" /\ work[r] = {}
    /\ signedOut' = signedOut \cup closing[r]
    /\ Answer(r)
    /\ UNCHANGED <<now, coreVars, redisVars, issued, faults, dropped, revived,
                   busy>>

-----------------------------------------------------------------------------
Step(r) ==
    \/ \E c \in Cores, t \in Tokens, kind \in Kinds : Login(r, c, t, kind)
    \/ LoginStore(r)
    \/ \E t \in Tokens : Begin(r, t) \/ LogoutRead(r, t)
    \/ RefuseIdle(r) \/ NoteActivity(r) \/ Expire(r)
    \/ Exchange(r) \/ Touch(r) \/ End(r)
    \/ LogoutDelete(r) \/ LogoutRevoke(r)
    \/ \E mine, t \in Tokens : RevokeOther(r, mine, t)
    \/ DropSession(r)
    \/ SignOutAll(r) \/ EdgeRevoke(r) \/ EdgeDone(r)
    \/ \E c \in Cores : SignOutOne(r, c)
    \/ ScanStep(r) \/ SignOutDone(r)

Next ==
    \/ Tick
    \/ \E c \in Cores : CoreLogin(c) \/ CoreExpire(c) \/ RemoveAppUser(c)
    \/ \E r \in Requests : Step(r)

Spec == Init /\ [][Next]_vars

-----------------------------------------------------------------------------
(* Properties. *)

Admits(r) == pc[r] = "touch" /\ pc'[r] = "admitted"

(* Once a caller was told that a core session is signed out, no request    *)
(* that begins later is admitted on it, through any gateway session and    *)
(* however the requests interleave; except that logout swallows errors.    *)
SignedOutStaysOut ==
    [][\A r \in Requests :
          Admits(r) /\ "signedOut" \in flags[r] => faults > 0]_vars

(* A gateway session that its owner revoked is not admitted again, unless  *)
(* a request that was under way wrote it back or the deletion failed.      *)
DroppedStaysOut ==
    [][\A r \in Requests :
          Admits(r) /\ "dropped" \in flags[r]
             => tok[r] \in revived \/ faults > 0]_vars

(* An admin session with no request in progress for longer than the        *)
(* inactivity timeout is refused on its next use, although every access    *)
(* writes the session back and moves its expiry.                           *)
IdleAdminRefused ==
    [][\A r \in Requests :
          Admits(r) /\ "quiet" \in flags[r] => snap[r].kind # "admin"]_vars

(* What sessions.ts tells the caller: "Session revoked successfully".      *)
RevokeIsFinal ==
    [][\A r \in Requests : Admits(r) => "dropped" \notin flags[r]]_vars

-----------------------------------------------------------------------------
(* The inductive invariant behind the properties.                          *)

(* What Redis holds has been issued, a login alone knows its token until   *)
(* then, and whoever is past reading a session has a copy of one.          *)
TokensLinked ==
    /\ dropped \subseteq issued
    /\ \A t \in Tokens : store[t] # NoSession => t \in issued
    /\ \A r \in Requests :
          /\ pc[r] = "store" => /\ tok[r] \in Tokens \ issued
                                /\ snap[r] \in Session
                                /\ snap[r].kind \in DOMAIN LoginTtl
                                /\ \A q \in Requests \ {r} : tok[q] # tok[r]
          /\ pc[r] \notin {"idle", "store"} => tok[r] \in issued
          /\ pc[r] \in InUse \cup {"edge", "scan"} => snap[r] \in Session
          /\ pc[r] = "edge" => work[r] \subseteq Cores
          /\ pc[r] = "scan" => work[r] \subseteq Tokens

(* A core session that a running sign-out is to end is revoked or still on *)
(* its list; one that was signed out stays revoked, whatever is written.   *)
SignedOutRevoked ==
    faults = 0 =>
        /\ signedOut \subseteq revoked
        /\ \A r \in Requests :
              /\ pc[r] \in {"delete", "revoke"} =>
                    \A c \in closing[r] : snap[r] # NoSession /\ snap[r].core = c
              /\ pc[r] = "edge" => closing[r] \subseteq revoked \cup work[r]
              /\ pc[r] = "scan" => closing[r] \subseteq revoked
              /\ pc[r] \in Admitting /\ "signedOut" \in flags[r] =>
                    pc[r] # "touch" /\ snap[r].core \in revoked

(* A dropped session is gone, or the middleware has written it back.       *)
DroppedGone ==
    faults = 0 =>
        /\ \A t \in dropped \ revived : store[t] = NoSession
        /\ \A r \in Requests :
              pc[r] \in Admitting /\ "dropped" \in flags[r] =>
                  tok[r] \in revived

(* The last activity in Redis is never later than the last use, and a      *)
(* request that came after too long a pause will find the session idle.    *)
ActivityNoted ==
    /\ \A t \in Tokens :
          /\ busy[t] <= now
          /\ store[t] # NoSession /\ store[t].kind = "admin" =>
                store[t].last <= busy[t]
          /\ \A r \in Requests : Uses(r, t) => busy[t] = now
    /\ \A r \in Requests :
          /\ pc[r] \in Admitting /\ "quiet" \in flags[r]
          /\ snap[r].kind = "admin"
          => pc[r] = "check" /\ Idle(snap[r])

IInv ==
    /\ TypeOK
    /\ TokensLinked /\ SignedOutRevoked /\ DroppedGone /\ ActivityNoted
=============================================================================
