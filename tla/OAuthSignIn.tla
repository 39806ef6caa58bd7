---------------------------- MODULE OAuthSignIn ----------------------------
(***************************************************************************)
(* Sign-in through an OAuth provider, for one profile there:               *)
(*   core     routes/v1/auth/index.ts   GET /start, GET /callback          *)
(*   gateway  routes/auth/oauth.ts      GET /callback: the exchange code   *)
(*   gateway  routes/auth/login.ts      POST /token                        *)
(*   gateway  routes/email.ts           the exchange code of an emailed    *)
(*                                      code or link, taken up the same way*)
(*   cache    client.ts                 set, get, delete, getAndDelete     *)
(* The provider gives a code for each consent and takes it back once.  An  *)
(* account is found by the profile's id, never by its address.             *)
(***************************************************************************)
EXTENDS Naturals, FiniteSets

CONSTANTS
    Visits,         \* requests that core and gateway work on at a time
    States,         \* values of the state parameter
    Consents,       \* codes that the provider gives
    Persons,        \* rows of users made for the profile
    NoState, NoConsent, NoPerson,
    \* Bounds of the model:
    MaxCrashes      \* requests that die, and Redis errors that are swallowed

ASSUME OAuthAssumption ==
    /\ IsFiniteSet(Visits) /\ IsFiniteSet(Persons)
    /\ NoState \notin States /\ NoConsent \notin Consents
    /\ NoPerson \notin Persons
    /\ MaxCrashes \in Nat

VARIABLES
    unused,     \* states not drawn yet
    pending,    \* states that Redis holds
    consent,    \* the state a provider's code was given for
    redeemed,   \* codes the provider has taken back
    persons,    \* users made for the profile
    owner,      \* the user of the profile's identity, unique by its key
    exchange,   \* exchange codes that Redis holds, named after the consent
    doing,      \* stage of a request
    about,      \* the consent it is about
    person,     \* the account it signs in
    crashes,
    \* History of the properties:
    opened,     \* sessions that a state has led to
    peakState,  \* most requests that held one state before it was deleted
    peakNone,   \* most requests that had found no identity, at one time
    abandoned,  \* requests that died between user and identity
    served,     \* accounts that were given a session
    delivered   \* how often an exchange code was turned into its token

visitVars == <<doing, about, person>>
accountVars == <<persons, owner>>
cacheVars == <<pending, exchange>>
oauthHistory == <<opened, peakState, peakNone, abandoned, served, delivered>>
oauthVars == <<unused, cacheVars, consent, redeemed, accountVars, visitVars,
               crashes, oauthHistory>>

VisitStage == {"idle", "state", "drop", "dropError", "redeem", "lookup",
               "user", "identity", "open", "code", "token"}

OAuthTypeOK ==
    /\ unused \subseteq States /\ pending \subseteq States
    /\ consent \in [Consents -> States \cup {NoState}]
    /\ redeemed \subseteq Consents
    /\ persons \subseteq Persons /\ owner \in Persons \cup {NoPerson}
    /\ exchange \subseteq Consents
    /\ doing \in [Visits -> VisitStage]
    /\ about \in [Visits -> Consents \cup {NoConsent}]
    /\ person \in [Visits -> Persons \cup {NoPerson}]
    /\ crashes \in Nat
    /\ opened \in [States -> Nat]
    /\ {peakState, peakNone, abandoned} \subseteq Nat
    /\ served \subseteq Persons
    /\ delivered \in [Consents -> Nat]

OAuthInit ==
    /\ unused = States /\ pending = {}
    /\ consent = [g \in Consents |-> NoState] /\ redeemed = {}
    /\ persons = {} /\ owner = NoPerson
    /\ exchange = {}
    /\ doing = [r \in Visits |-> "idle"]
    /\ about = [r \in Visits |-> NoConsent]
    /\ person = [r \in Visits |-> NoPerson]
    /\ crashes = 0
    /\ opened = [s \in States |-> 0]
    /\ peakState = 0 /\ peakNone = 0 /\ abandoned = 0
    /\ served = {}
    /\ delivered = [g \in Consents |-> 0]

-----------------------------------------------------------------------------
(* The state a request was called with.                                    *)
StateOf(r) == consent[about[r]]
HoldingState(s) ==
    {r \in Visits : /\ doing[r] \in {"drop", "redeem", "lookup", "user",
                                      "identity", "open"}
                    /\ StateOf(r) = s}
WithoutIdentity == {r \in Visits : doing[r] \in {"user", "identity"}}
Highest(a, b) == IF a > b THEN a ELSE b

CrashOnce == crashes < MaxCrashes /\ crashes' = crashes + 1

Passes(r, from, to) == doing[r] = from /\ doing' = [doing EXCEPT ![r] = to]

Leave(r) ==
    /\ doing' = [doing EXCEPT ![r] = "idle"]
    /\ about' = [about EXCEPT ![r] = NoConsent]
    /\ person' = [person EXCEPT ![r] = NoPerson]

-----------------------------------------------------------------------------
(* GET /start draws a state and sends the browser away, whether Redis has  *)
(* taken it or not.                                                        *)
Begun(s) ==
    /\ s \in unused
    /\ unused' = unused \ {s}
    /\ \/ pending' = pending \cup {s} /\ UNCHANGED crashes
       \/ CrashOnce /\ UNCHANGED pending
    /\ UNCHANGED <<exchange, consent, redeemed, accountVars, visitVars,
                   oauthHistory>>

(* External: the provider's user consents, as often as the browser asks.   *)
Consented(g, s) ==
    /\ consent[g] = NoState /\ s \notin unused
    /\ consent' = [consent EXCEPT ![g] = s]
    /\ UNCHANGED <<unused, cacheVars, redeemed, accountVars, visitVars,
                   crashes, oauthHistory>>

StateExpires(s) ==
    /\ s \in pending
    /\ pending' = pending \ {s}
    /\ UNCHANGED <<unused, exchange, consent, redeemed, accountVars, visitVars,
                   crashes, oauthHistory>>

(* GET /callback, with a code or with the provider's error.                *)
Callback(r, g) ==
    /\ consent[g] # NoState
    /\ Passes(r, "idle", "state")
    /\ about' = [about EXCEPT ![r] = g]
    /\ UNCHANGED <<unused, cacheVars, consent, redeemed, accountVars, person,
                   crashes, oauthHistory>>

(* The state is read, and deleted in a second call.                        *)
GetState(r) ==
    /\ doing[r] = "state"
    /\ \/ /\ StateOf(r) \in pending
          /\ doing' = [doing EXCEPT ![r] = "drop"]
          /\ peakState' = Highest(Cardinality(HoldingState(StateOf(r))) + 1,
                                  peakState)
          /\ UNCHANGED <<about, person>>
       \/ /\ StateOf(r) \in pending
          /\ doing' = [doing EXCEPT ![r] = "dropError"]
          /\ UNCHANGED <<about, person, peakState>>
       \/ StateOf(r) \notin pending /\ Leave(r) /\ UNCHANGED peakState
    /\ UNCHANGED <<unused, cacheVars, consent, redeemed, accountVars, crashes,
                   opened, peakNone, abandoned, served, delivered>>

(* Mutant of DeleteState: a state is left to its expiry.                   *)
DeleteStateLater(s) == UNCHANGED pending
DeleteState(s) == pending' = pending \ {s}

(* cache.delete swallows its error, and the state stays.                   *)
DropState(r) ==
    /\ Passes(r, "drop", "redeem")
    /\ \/ DeleteState(StateOf(r)) /\ UNCHANGED crashes
       \/ CrashOnce /\ UNCHANGED pending
    /\ UNCHANGED <<unused, exchange, consent, redeemed, accountVars, about,
                   person, oauthHistory>>

DropStateOnError(r) ==
    /\ doing[r] = "dropError"
    /\ pending' = pending \ {StateOf(r)}
    /\ Leave(r)
    /\ UNCHANGED <<unused, exchange, consent, redeemed, accountVars, crashes,
                   oauthHistory>>

(* exchangeCodeForTokens and fetchUserProfile: the provider takes a code   *)
(* back once.                                                              *)
Redeem(r) ==
    /\ doing[r] = "redeem"
    /\ IF about[r] \in redeemed
       THEN Leave(r) /\ UNCHANGED redeemed
       ELSE /\ doing' = [doing EXCEPT ![r] = "lookup"]
            /\ redeemed' = redeemed \cup {about[r]}
            /\ UNCHANGED <<about, person>>
    /\ UNCHANGED <<unused, cacheVars, consent, accountVars, crashes,
                   oauthHistory>>

(* Mutant of Identified: another column is compared with the profile's id. *)
IdentifiedNever == FALSE
Identified == owner # NoPerson

Lookup(r) ==
    /\ doing[r] = "lookup"
    /\ IF Identified
       THEN /\ doing' = [doing EXCEPT ![r] = "open"]
            /\ person' = [person EXCEPT ![r] = owner]
            /\ UNCHANGED peakNone
       ELSE /\ doing' = [doing EXCEPT ![r] = "user"]
            /\ peakNone' = Highest(Cardinality(WithoutIdentity) + 1, peakNone)
            /\ UNCHANGED person
    /\ UNCHANGED <<unused, cacheVars, consent, redeemed, accountVars, about,
                   crashes, opened, peakState, abandoned, served, delivered>>

CreateUser(r, p) ==
    /\ p \notin persons
    /\ Passes(r, "user", "identity")
    /\ persons' = persons \cup {p}
    /\ person' = [person EXCEPT ![r] = p]
    /\ UNCHANGED <<unused, cacheVars, consent, redeemed, owner, about, crashes,
                   oauthHistory>>

(* The identity's unique key refuses the second one of two sign-ups: it is *)
(* answered 500, and its user stays, with no identity.                     *)
(* Mutant of Refused: the conflict is ignored.                             *)
RefusedNever(r) == FALSE
Refused(r) == owner # NoPerson

CreateIdentity(r) ==
    /\ doing[r] = "identity"
    /\ IF Refused(r)
       THEN Leave(r) /\ UNCHANGED owner
       ELSE /\ owner' = IF owner = NoPerson THEN person[r] ELSE owner
            /\ doing' = [doing EXCEPT ![r] = "open"]
            /\ UNCHANGED <<about, person>>
    /\ UNCHANGED <<unused, cacheVars, consent, redeemed, persons, crashes,
                   oauthHistory>>

(* The session, after invitations, license and membership, which are in    *)
(* ProjectMembers and LicenseSeats.                                        *)
CreateCoreSession(r) ==
    /\ Passes(r, "open", "code")
    /\ opened' = [opened EXCEPT ![StateOf(r)] = @ + 1]
    /\ served' = served \cup {person[r]}
    /\ UNCHANGED <<unused, cacheVars, consent, redeemed, accountVars, about,
                   person, crashes, peakState, peakNone, abandoned, delivered>>

(* Gateway: the token is stored, and an exchange code for it; cache.set    *)
(* swallows its error.                                                     *)
IssueCode(r) ==
    /\ doing[r] = "code"
    /\ \/ exchange' = exchange \cup {about[r]} /\ UNCHANGED crashes
       \/ CrashOnce /\ UNCHANGED exchange
    /\ Leave(r)
    /\ UNCHANGED <<unused, pending, consent, redeemed, accountVars,
                   oauthHistory>>

(* POST /token takes the code out of Redis before it compares the app and  *)
(* the verifier: a mistaken call spends the code.                          *)
TakeCode(g) == exchange' = exchange \ {g}

Token(r, g) ==
    /\ g \in exchange
    /\ TakeCode(g)
    /\ Passes(r, "idle", "token")
    /\ about' = [about EXCEPT ![r] = g]
    /\ UNCHANGED <<unused, pending, consent, redeemed, accountVars, person,
                   crashes, oauthHistory>>

TokenAnswer(r) ==
    /\ doing[r] = "token"
    /\ \/ delivered' = [delivered EXCEPT ![about[r]] = @ + 1]
       \/ UNCHANGED delivered      \* another app, or a wrong code_verifier
    /\ Leave(r)
    /\ UNCHANGED <<unused, cacheVars, consent, redeemed, accountVars, crashes,
                   opened, peakState, peakNone, abandoned, served>>

CodeExpired(g) ==
    /\ g \in exchange
    /\ exchange' = exchange \ {g}
    /\ UNCHANGED <<unused, pending, consent, redeemed, accountVars, visitVars,
                   crashes, oauthHistory>>

(* A statement fails, or the process dies.                                 *)
VisitDies(r) ==
    /\ doing[r] # "idle"
    /\ CrashOnce
    /\ abandoned' = IF doing[r] = "identity" THEN abandoned + 1 ELSE abandoned
    /\ Leave(r)
    /\ UNCHANGED <<unused, cacheVars, consent, redeemed, accountVars, opened,
                   peakState, peakNone, served, delivered>>

OAuthNext ==
    \/ \E s \in States : Begun(s) \/ StateExpires(s)
    \/ \E g \in Consents : CodeExpired(g) \/ \E s \in States : Consented(g, s)
    \/ \E r \in Visits :
        \/ \E g \in Consents : Callback(r, g) \/ Token(r, g)
        \/ GetState(r) \/ DropState(r) \/ DropStateOnError(r) \/ Redeem(r)
        \/ Lookup(r) \/ \E p \in Persons : CreateUser(r, p)
        \/ CreateIdentity(r) \/ CreateCoreSession(r) \/ IssueCode(r)
        \/ TokenAnswer(r) \/ VisitDies(r)

OAuthSpec == OAuthInit /\ [][OAuthNext]_oauthVars

-----------------------------------------------------------------------------
(* A state leads to no more sessions than callbacks that had read it       *)
(* before it was deleted, each with a code of its own from the provider;   *)
(* an error of Redis that leaves the state may add to them.                *)
StateUsesBounded ==
    crashes = 0 => \A s \in States : opened[s] <= peakState

(* Two first sign-ins at once make two users, but only the one that has    *)
(* the identity is ever given a session.                                   *)
OneAccountServed == served \subseteq {owner}

(* The profile gets at most as many users as sign-ins had found no         *)
(* identity at one time, and one more for each that died before it wrote   *)
(* the identity.                                                           *)
UsersBounded == Cardinality(persons) <= peakNone + abandoned

(* An exchange code is turned into its token once.                         *)
ExchangedOnce == \A g \in Consents : delivered[g] <= 1
=============================================================================
