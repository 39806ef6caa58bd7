---------------------------- MODULE EmailSignIn ----------------------------
(***************************************************************************)
(* Sign-in with one email address, by an emailed code or link:             *)
(*   core   routes/v1/email/index.ts  POST /start, /verify, /verify-magic, *)
(*                                    completeEmailAuth                    *)
(*   cache  client.ts                 rateLimit.checkLimit, getAndDelete   *)
(*   db     queries.ts, schema.ts     emailVerificationQueries,            *)
(*                                    userQueries, identityQueries         *)
(* Neither users.primary_email nor email_verifications.email has a unique  *)
(* key; the identity of an address has one.  Requests read, decide and     *)
(* write in separate statements, and may be at any of them together.       *)
(***************************************************************************)
EXTENDS Naturals, FiniteSets

CONSTANTS
    Clients,            \* requests that core works on at a time
    Otps,               \* rows of email_verifications
    Codes,              \* codes, each sent with a link of the same name
    Accounts,           \* rows of users with this address
    NoOtp, NoCode, NoAccount,
    WrongCode,          \* a guess that is nobody's code
    OTP_MAX_ATTEMPTS,
    Limit,              \* allowed calls per bucket and window
    \* Bounds of the model:
    MaxTries,           \* requests in all
    MaxErrors           \* Redis errors that the code swallows, and crashes

Buckets == {"otp_request", "otp_verify"}
Otp == [code : Codes, attempts : Nat, locked : BOOLEAN, expired : BOOLEAN]

ASSUME EmailAssumption ==
    /\ IsFiniteSet(Clients) /\ IsFiniteSet(Accounts)
    /\ NoOtp \notin Otp
    /\ NoCode \notin Codes /\ WrongCode \notin Codes
    /\ NoAccount \notin Accounts
    /\ OTP_MAX_ATTEMPTS \in Nat \ {0}
    /\ Limit \in [Buckets -> Nat]
    /\ {MaxTries, MaxErrors} \subseteq Nat

VARIABLES
    otp,        \* email_verifications
    magic,      \* links that Redis holds
    mailed,     \* codes and links that were sent
    fresh,      \* codes not drawn yet
    accounts,   \* users with this address
    identity,   \* the account of the address's identity
    count,      \* the counter of a bucket, 0 when there is none
    timed,      \* buckets whose counter has an expiry
    does,       \* stage of a request
    bucket,     \* the bucket it asks
    reads,      \* the row it has read
    code,       \* the code or link it has
    tries,      \* the attempts it has read
    account,    \* the account it signs in
    begunTries, errors,
    \* History of the properties:
    uses,       \* how often a code was accepted
    clicks,     \* how often a link was accepted
    peakUse,    \* most requests that held one code before its row was deleted
    signedUp,   \* accounts made by email sign-in
    peakNew,    \* most requests that were about to create an account at once
    passed,     \* calls a bucket has let through in its present window
    lost,       \* buckets whose expiry was lost to an error
    early       \* starts whose row was locked after they read it

requestVars == <<does, bucket, reads, code, tries, account>>
dbVars == <<otp, accounts, identity>>
redisVars == <<magic, count, timed>>
useHistory == <<uses, clicks, peakUse>>
limitHistory == <<passed, lost>>
accountHistory == <<signedUp, peakNew>>
emailVars == <<dbVars, redisVars, mailed, fresh, requestVars, begunTries,
               errors, useHistory, limitHistory, accountHistory, early>>

EmailStage == {"idle", "limit", "expire", "readStart", "save", "insert",
               "link", "mail", "readVerify", "wrong", "right", "click",
               "readClick", "clear", "findUser", "newUser", "newIdentity",
               "findIdentity", "addIdentity", "session"}

EmailTypeOK ==
    /\ otp \in [Otps -> Otp \cup {NoOtp}]
    /\ magic \subseteq Codes /\ mailed \subseteq Codes /\ fresh \subseteq Codes
    /\ accounts \subseteq Accounts
    /\ identity \in Accounts \cup {NoAccount}
    /\ count \in [Buckets -> Nat] /\ timed \subseteq Buckets
    /\ does \in [Clients -> EmailStage]
    /\ bucket \in [Clients -> Buckets]
    /\ reads \in [Clients -> SUBSET Otps]
    /\ code \in [Clients -> Codes \cup {NoCode, WrongCode}]
    /\ tries \in [Clients -> Nat]
    /\ account \in [Clients -> Accounts \cup {NoAccount}]
    /\ begunTries \in Nat /\ errors \in Nat
    /\ uses \in [Codes -> Nat] /\ clicks \in [Codes -> Nat]
    /\ peakUse \in Nat
    /\ signedUp \subseteq accounts /\ peakNew \in Nat
    /\ passed \in [Buckets -> Nat] /\ lost \subseteq Buckets
    /\ early \subseteq Clients

(* Nobody knows the address, or one code was sent to it.                   *)
EmailInit ==
    /\ \/ otp = [v \in Otps |-> NoOtp] /\ mailed = {}
       \/ \E v \in Otps, k \in Codes :
             /\ otp = [o \in Otps |->
                          IF o = v THEN [code |-> k, attempts |-> 0,
                                         locked |-> FALSE, expired |-> FALSE]
                          ELSE NoOtp]
             /\ mailed = {k}
    /\ magic = mailed /\ fresh = Codes \ mailed
    /\ accounts = {} /\ identity = NoAccount
    /\ count = [b \in Buckets |-> 0] /\ timed = {}
    /\ does = [c \in Clients |-> "idle"]
    /\ bucket = [c \in Clients |-> "otp_request"]
    /\ reads = [c \in Clients |-> {}]
    /\ code = [c \in Clients |-> NoCode]
    /\ tries = [c \in Clients |-> 0]
    /\ account = [c \in Clients |-> NoAccount]
    /\ begunTries = 0 /\ errors = 0
    /\ uses = [k \in Codes |-> 0] /\ clicks = [k \in Codes |-> 0]
    /\ peakUse = 0
    /\ signedUp = {} /\ peakNew = 0
    /\ passed = [b \in Buckets |-> 0] /\ lost = {}
    /\ early = {}

-----------------------------------------------------------------------------
Rows == {v \in Otps : otp[v] # NoOtp}
Holding(k) == {c \in Clients : does[c] = "right" /\ code[c] = k}
Creating == {c \in Clients : does[c] = "newUser"}
Larger(a, b) == IF a > b THEN a ELSE b

Error == errors < MaxErrors /\ errors' = errors + 1

Steps(c, from, to) == does[c] = from /\ does' = [does EXCEPT ![c] = to]

Done(c) ==
    /\ does' = [does EXCEPT ![c] = "idle"]
    /\ bucket' = [bucket EXCEPT ![c] = "otp_request"]
    /\ reads' = [reads EXCEPT ![c] = {}]
    /\ code' = [code EXCEPT ![c] = NoCode]
    /\ tries' = [tries EXCEPT ![c] = 0]
    /\ account' = [account EXCEPT ![c] = NoAccount]
    /\ early' = early \ {c}

Enter(c, to, b, k) ==
    /\ begunTries < MaxTries
    /\ begunTries' = begunTries + 1
    /\ Steps(c, "idle", to)
    /\ bucket' = [bucket EXCEPT ![c] = b]
    /\ code' = [code EXCEPT ![c] = k]
    /\ UNCHANGED <<dbVars, redisVars, mailed, fresh, reads, tries, account,
                   errors, useHistory, limitHistory, accountHistory, early>>

-----------------------------------------------------------------------------
(* POST /start, POST /verify with a guess, POST /verify-magic with a link. *)
Start(c) == Enter(c, "limit", "otp_request", NoCode)
Verify(c, guess) ==
    /\ guess \in mailed \cup {WrongCode}
    /\ Enter(c, "limit", "otp_verify", guess)
Click(c, k) == k \in mailed /\ Enter(c, "click", "otp_verify", k)

(* rateLimit.checkLimit: INCR, and EXPIRE when the counter is new.  The    *)
(* result is compared only after that.                                     *)
AfterLimit(b) == IF b = "otp_request" THEN "readStart" ELSE "readVerify"

(* Mutant of Increment: a counter past the limit is left as it is.         *)
IncrementAll(b) ==
    count' = [count EXCEPT ![b] = IF @ < Limit[b] THEN @ + 1 ELSE @]
Increment(b) == count' = [count EXCEPT ![b] = @ + 1]

(* Mutant of IsFirst: the count is compared after it has been raised.      *)
IsFirstLate(b) == count[b] = 1
IsFirst(b) == count[b] = 0

Let(c, b) ==
    /\ does' = [does EXCEPT ![c] = AfterLimit(b)]
    /\ passed' = [passed EXCEPT ![b] = @ + 1]
    /\ UNCHANGED <<bucket, reads, code, tries, account, early>>

CheckLimit(c) ==
    LET b == bucket[c] IN
    /\ does[c] = "limit"
    /\ Increment(b)
    /\ IF IsFirst(b)
       THEN /\ does' = [does EXCEPT ![c] = "expire"]
            /\ UNCHANGED <<bucket, reads, code, tries, account, early, passed>>
       ELSE IF count'[b] <= Limit[b] THEN Let(c, b)
       ELSE Done(c) /\ UNCHANGED passed
    /\ UNCHANGED <<dbVars, magic, timed, mailed, fresh, begunTries, errors,
                   useHistory, lost, accountHistory>>

(* A counter that has expired meanwhile is not made anew by EXPIRE.        *)
SetExpiry(c) ==
    LET b == bucket[c] IN
    /\ does[c] = "expire"
    /\ timed' = IF count[b] > 0 THEN timed \cup {b} ELSE timed
    /\ IF 1 <= Limit[b] THEN Let(c, b) ELSE Done(c) /\ UNCHANGED passed
    /\ UNCHANGED <<dbVars, magic, count, mailed, fresh, begunTries, errors,
                   useHistory, lost, accountHistory>>

(* An error of Redis lets the request through; of EXPIRE, it also leaves   *)
(* the counter without an end.                                             *)
LimitError(c) ==
    LET b == bucket[c] IN
    /\ Error
    /\ does[c] \in {"limit", "expire"}
    /\ does' = [does EXCEPT ![c] = AfterLimit(b)]
    /\ lost' = IF does[c] = "expire" THEN lost \cup {b} ELSE lost
    /\ UNCHANGED <<dbVars, redisVars, mailed, fresh, bucket, reads, code,
                   tries, account, begunTries, useHistory, passed,
                   accountHistory, early>>

WindowEnds(b) ==
    /\ b \in timed
    /\ count' = [count EXCEPT ![b] = 0]
    /\ timed' = timed \ {b}
    /\ passed' = [passed EXCEPT ![b] = 0]
    /\ UNCHANGED <<dbVars, magic, mailed, fresh, requestVars, begunTries,
                   errors, useHistory, lost, accountHistory, early>>

-----------------------------------------------------------------------------
(* /start reads some row of the address; a lock refuses it.                *)
(* Mutant of Refuses: a lock is not looked at.                             *)
RefusesNone(v) == FALSE
Refuses(v) == otp[v].locked

ReadStart(c) ==
    /\ does[c] = "readStart"
    /\ \/ /\ Rows = {}
          /\ does' = [does EXCEPT ![c] = "insert"]
          /\ UNCHANGED <<bucket, reads, code, tries, account, early>>
       \/ \E v \in Rows :
            IF Refuses(v) THEN Done(c)
            ELSE /\ does' = [does EXCEPT ![c] = "save"]
                 /\ reads' = [reads EXCEPT ![c] = {v}]
                 /\ UNCHANGED <<bucket, code, tries, account, early>>
    /\ UNCHANGED <<dbVars, redisVars, mailed, fresh, begunTries, errors,
                   useHistory, limitHistory, accountHistory>>

(* A new code: into the row that was read, and nowhere when that row has   *)
(* been deleted; or into a new row, also when there is one by now.         *)
SaveCode(c, k, v) ==
    /\ k \in fresh
    /\ \/ does[c] = "save" /\ v \in reads[c]
       \/ does[c] = "insert" /\ otp[v] = NoOtp
    /\ otp' = IF does[c] = "save" /\ otp[v] = NoOtp THEN otp
              ELSE [otp EXCEPT ![v] = [code |-> k, attempts |-> 0,
                                       locked |-> FALSE, expired |-> FALSE]]
    /\ fresh' = fresh \ {k}
    /\ does' = [does EXCEPT ![c] = "link"]
    /\ code' = [code EXCEPT ![c] = k]
    /\ early' = early \ {c}
    /\ UNCHANGED <<accounts, identity, redisVars, mailed, bucket, reads, tries,
                   account, begunTries, errors, useHistory, limitHistory,
                   accountHistory>>

(* cache.set swallows its error; the mail is sent all the same.            *)
StoreLink(c) ==
    /\ Steps(c, "link", "mail")
    /\ \/ magic' = magic \cup {code[c]} /\ UNCHANGED errors
       \/ Error /\ UNCHANGED magic
    /\ UNCHANGED <<dbVars, count, timed, mailed, fresh, bucket, reads, code,
                   tries, account, begunTries, useHistory, limitHistory,
                   accountHistory, early>>

SendMail(c) ==
    /\ does[c] = "mail"
    /\ mailed' = mailed \cup {code[c]}
    /\ Done(c)
    /\ UNCHANGED <<dbVars, redisVars, fresh, begunTries, errors, useHistory,
                   limitHistory, accountHistory>>

-----------------------------------------------------------------------------
(* /verify reads a row, refuses a locked or expired one, and compares.     *)
ReadVerify(c) ==
    /\ does[c] = "readVerify"
    /\ \/ Rows = {} /\ Done(c) /\ UNCHANGED peakUse
       \/ \E v \in Rows :
            IF otp[v].locked \/ otp[v].expired
            THEN Done(c) /\ UNCHANGED peakUse
            ELSE /\ reads' = [reads EXCEPT ![c] = {v}]
                 /\ tries' = [tries EXCEPT ![c] = otp[v].attempts]
                 /\ does' = [does EXCEPT ![c] =
                                IF code[c] = otp[v].code THEN "right"
                                ELSE "wrong"]
                 /\ peakUse' =
                      IF code[c] = otp[v].code
                      THEN Larger(Cardinality(Holding(code[c])) + 1, peakUse)
                      ELSE peakUse
                 /\ UNCHANGED <<bucket, code, account, early>>
    /\ UNCHANGED <<dbVars, redisVars, mailed, fresh, begunTries, errors, uses,
                   clicks, limitHistory, accountHistory>>

(* The attempts it has read and one more; the last one locks the row.      *)
CountAttempt(c, v) ==
    LET n == tries[c] + 1
        locks == n >= OTP_MAX_ATTEMPTS
    IN
    /\ does[c] = "wrong" /\ v \in reads[c]
    /\ otp' = IF otp[v] = NoOtp THEN otp
              ELSE [otp EXCEPT ![v].attempts = n,
                               ![v].locked = @ \/ locks]
    /\ does' = [does EXCEPT ![c] = "idle"]
    /\ bucket' = [bucket EXCEPT ![c] = "otp_request"]
    /\ reads' = [reads EXCEPT ![c] = {}]
    /\ code' = [code EXCEPT ![c] = NoCode]
    /\ tries' = [tries EXCEPT ![c] = 0]
    /\ early' = IF locks
                THEN early \cup {o \in Clients : does[o] = "save"
                                                 /\ v \in reads[o]}
                ELSE early
    /\ UNCHANGED <<accounts, identity, redisVars, mailed, fresh, account,
                   begunTries, errors, useHistory, limitHistory,
                   accountHistory>>

(* The right code: the row is deleted by id, whatever code it has by now,  *)
(* and whether it was there is not looked at.                              *)
(* Mutant of DeleteRow: the row is only marked as consumed, and no reader  *)
(* of email_verifications looks at the mark.                               *)
DeleteRowMark(v) == UNCHANGED otp
DeleteRow(v) == otp' = [otp EXCEPT ![v] = NoOtp]

UseCode(c, v) ==
    /\ v \in reads[c]
    /\ Steps(c, "right", "findUser")
    /\ DeleteRow(v)
    /\ uses' = [uses EXCEPT ![code[c]] = @ + 1]
    /\ UNCHANGED <<accounts, identity, redisVars, mailed, fresh, bucket, reads,
                   code, tries, account, begunTries, errors, clicks, peakUse,
                   limitHistory, accountHistory, early>>

(* /verify-magic: GETDEL.                                                  *)
TakeLink(k) == magic' = magic \ {k}

UseLink(c) ==
    /\ does[c] = "click"
    /\ TakeLink(code[c])
    /\ IF code[c] \in magic
       THEN /\ does' = [does EXCEPT ![c] = "readClick"]
            /\ clicks' = [clicks EXCEPT ![code[c]] = @ + 1]
            /\ UNCHANGED <<bucket, reads, code, tries, account, early>>
       ELSE Done(c) /\ UNCHANGED clicks
    /\ UNCHANGED <<dbVars, count, timed, mailed, fresh, begunTries, errors,
                   uses, peakUse, limitHistory, accountHistory>>

(* The address's pending row goes as well.                                 *)
ReadClick(c) ==
    /\ does[c] = "readClick"
    /\ \/ Rows = {} /\ does' = [does EXCEPT ![c] = "findUser"]
                    /\ UNCHANGED reads
       \/ \E v \in Rows : /\ does' = [does EXCEPT ![c] = "clear"]
                          /\ reads' = [reads EXCEPT ![c] = {v}]
    /\ UNCHANGED <<dbVars, redisVars, mailed, fresh, bucket, code, tries,
                   account, begunTries, errors, useHistory, limitHistory,
                   accountHistory, early>>

ClearRow(c, v) ==
    /\ v \in reads[c]
    /\ Steps(c, "clear", "findUser")
    /\ otp' = [otp EXCEPT ![v] = NoOtp]
    /\ UNCHANGED <<accounts, identity, redisVars, mailed, fresh, bucket, reads,
                   code, tries, account, begunTries, errors, useHistory,
                   limitHistory, accountHistory, early>>

-----------------------------------------------------------------------------
(* completeEmailAuth finds any user with the address, or makes one.        *)
(* Mutant of Unknown: the identity is looked for, not the address.         *)
UnknownIdentity == identity = NoAccount
Unknown == accounts = {}

FindUser(c) ==
    /\ does[c] = "findUser"
    /\ \/ /\ Unknown
          /\ does' = [does EXCEPT ![c] = "newUser"]
          /\ peakNew' = Larger(Cardinality(Creating) + 1, peakNew)
          /\ UNCHANGED account
       \/ /\ ~Unknown
          /\ does' = [does EXCEPT ![c] = "findIdentity"]
          /\ \E a \in accounts : account' = [account EXCEPT ![c] = a]
          /\ UNCHANGED peakNew
    /\ UNCHANGED <<dbVars, redisVars, mailed, fresh, bucket, reads, code,
                   tries, begunTries, errors, useHistory, limitHistory,
                   signedUp, early>>

NewUser(c, a) ==
    /\ a \notin accounts
    /\ Steps(c, "newUser", "newIdentity")
    /\ accounts' = accounts \cup {a}
    /\ signedUp' = signedUp \cup {a}
    /\ account' = [account EXCEPT ![c] = a]
    /\ UNCHANGED <<otp, identity, redisVars, mailed, fresh, bucket, reads,
                   code, tries, begunTries, errors, useHistory, limitHistory,
                   peakNew, early>>

(* The identity's unique key refuses a second one: 500, the user stays.    *)
AddIdentity(c) ==
    /\ does[c] \in {"newIdentity", "addIdentity"}
    /\ IF identity = NoAccount
       THEN /\ identity' = account[c]
            /\ does' = [does EXCEPT ![c] = "session"]
            /\ UNCHANGED <<bucket, reads, code, tries, account, early>>
       ELSE Done(c) /\ UNCHANGED identity
    /\ UNCHANGED <<otp, accounts, redisVars, mailed, fresh, begunTries, errors,
                   useHistory, limitHistory, accountHistory>>

FindIdentity(c) ==
    /\ Steps(c, "findIdentity",
             IF identity = NoAccount THEN "addIdentity" ELSE "session")
    /\ UNCHANGED <<dbVars, redisVars, mailed, fresh, bucket, reads, code,
                   tries, account, begunTries, errors, useHistory,
                   limitHistory, accountHistory, early>>

(* License, membership and session: LicenseSeats has what they write.      *)
OpenSession(c) ==
    /\ does[c] = "session"
    /\ Done(c)
    /\ UNCHANGED <<dbVars, redisVars, mailed, fresh, begunTries, errors,
                   useHistory, limitHistory, accountHistory>>

(* OAuth makes a user for a profile with this address, without asking      *)
(* whether there is one.                                                   *)
OAuthUser(a) ==
    /\ begunTries < MaxTries
    /\ begunTries' = begunTries + 1
    /\ a \notin accounts
    /\ accounts' = accounts \cup {a}
    /\ UNCHANGED <<otp, identity, redisVars, mailed, fresh, requestVars,
                   errors, useHistory, limitHistory, accountHistory, early>>

-----------------------------------------------------------------------------
(* The clock, as the code sees it.                                         *)
LockEnds(v) ==
    /\ v \in Rows /\ otp[v].locked
    /\ otp' = [otp EXCEPT ![v].locked = FALSE]
    /\ UNCHANGED <<accounts, identity, redisVars, mailed, fresh, requestVars,
                   begunTries, errors, useHistory, limitHistory,
                   accountHistory, early>>

CodeExpires(v) ==
    /\ v \in Rows /\ ~otp[v].expired
    /\ otp' = [otp EXCEPT ![v].expired = TRUE]
    /\ UNCHANGED <<accounts, identity, redisVars, mailed, fresh, requestVars,
                   begunTries, errors, useHistory, limitHistory,
                   accountHistory, early>>

LinkExpires(k) ==
    /\ k \in magic
    /\ magic' = magic \ {k}
    /\ UNCHANGED <<dbVars, count, timed, mailed, fresh, requestVars,
                   begunTries, errors, useHistory, limitHistory,
                   accountHistory, early>>

(* Core dies at some statement of the request, or the statement fails.     *)
Crash(c) ==
    /\ does[c] # "idle"
    /\ Error
    /\ lost' = IF does[c] = "expire" THEN lost \cup {bucket[c]} ELSE lost
    /\ Done(c)
    /\ UNCHANGED <<dbVars, redisVars, mailed, fresh, begunTries, useHistory,
                   passed, accountHistory>>

EmailNext ==
    \/ \E c \in Clients :
        \/ Start(c) \/ CheckLimit(c) \/ SetExpiry(c) \/ LimitError(c)
        \/ \E guess \in Codes \cup {WrongCode} : Verify(c, guess)
        \/ \E k \in Codes : Click(c, k)
        \/ ReadStart(c) \/ StoreLink(c) \/ SendMail(c)
        \/ \E k \in Codes, v \in Otps : SaveCode(c, k, v)
        \/ ReadVerify(c) \/ UseLink(c) \/ ReadClick(c)
        \/ \E v \in Otps : \/ CountAttempt(c, v) \/ UseCode(c, v)
                           \/ ClearRow(c, v)
        \/ FindUser(c) \/ AddIdentity(c) \/ FindIdentity(c) \/ OpenSession(c)
        \/ \E a \in Accounts : NewUser(c, a)
        \/ Crash(c)
    \/ \E a \in Accounts : OAuthUser(a)
    \/ \E b \in Buckets : WindowEnds(b)
    \/ \E v \in Otps : LockEnds(v) \/ CodeExpires(v)
    \/ \E k \in Codes : LinkExpires(k)

EmailSpec == EmailInit /\ [][EmailNext]_emailVars

-----------------------------------------------------------------------------
(* An emailed link signs in at most one caller, however many present it.   *)
LinkUsedOnce == \A k \in Codes : clicks[k] <= 1

(* An emailed code signs in at most as many callers as had compared it     *)
(* before the first of them deleted its row: the result of that deletion   *)
(* is not looked at, but nothing written later brings the code back.       *)
CodeUsesBounded == \A k \in Codes : uses[k] <= peakUse

(* An address gets at most as many users from email sign-ins as were       *)
(* between finding none and inserting one at one time; after that, every   *)
(* sign-in finds a user, also one whose identity was never written.        *)
AccountsBounded == Cardinality(signedUp) <= peakNew

(* Attempts are counted by reading and writing back, so some get lost; but *)
(* no window lets more calls through than its limit, errors of Redis       *)
(* aside.                                                                  *)
WindowBounded == \A b \in Buckets : passed[b] <= Limit[b]

(* A counter has an end, unless its creator is just about to give it one,  *)
(* or failed to.                                                           *)
CounterEnds ==
    \A b \in Buckets :
        (count[b] > 0 /\ b \notin timed) =>
            b \in lost \/ \E c \in Clients : does[c] = "expire" /\ bucket[c] = b

(* A locked address gets no new code, unless by a start that had read the  *)
(* row before it was locked.                                               *)
LockHolds ==
    [][\A v \in Rows :
        (otp[v].locked /\ otp'[v] # NoOtp /\ otp'[v].code # otp[v].code)
        => \E c \in early : does[c] = "save" /\ v \in reads[c]]_emailVars
=============================================================================
