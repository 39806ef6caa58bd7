------------------------ MODULE GatewaySessionProofs ------------------------
(* Theorems about GatewaySession, for every value of its constants.        *)
EXTENDS GatewaySession, TLAPS

(* What an answered request leaves behind.                                 *)
LEMMA AnswerTypes ==
    ASSUME TypeOK, NEW r \in Requests, Answer(r)
    PROVE  /\ pc' \in [Requests -> Stage]
           /\ tok' \in [Requests -> Tokens \cup {NoToken}]
           /\ snap' \in [Requests -> Session \cup {NoSession}]
           /\ aim' \in [Requests -> Cores \cup {NoCore}]
           /\ work' \in [Requests -> SUBSET (Cores \cup Tokens)]
           /\ closing' \in [Requests -> SUBSET Cores]
           /\ flags' \in [Requests -> SUBSET Flag]
BY DEF TypeOK, Answer, Stage

(* The writes to Redis, whether they succeed or not.                       *)
LEMMA RevokeTypes ==
    ASSUME TypeOK, NEW t \in Tokens, RevokeAppSession(t)
    PROVE  /\ store' \in [Tokens -> Session \cup {NoSession}]
           /\ dies' \in [Tokens -> Nat]
           /\ faults' \in Nat
BY DEF TypeOK, RevokeAppSession, Fault, redisVars

LEMMA SetTypes ==
    ASSUME TypeOK, NEW t \in Tokens, NEW s \in Session, NEW ttl \in Nat,
           SetAppSession(t, s, ttl)
    PROVE  /\ store' \in [Tokens -> Session \cup {NoSession}]
           /\ dies' \in [Tokens -> Nat]
           /\ faults' \in Nat
BY DEF TypeOK, SetAppSession, Fault, redisVars

LEMMA NotedTypes ==
    ASSUME TypeOK, NEW s \in Session
    PROVE  /\ Noted(s) \in Session
           /\ Noted(s).core = s.core /\ Noted(s).kind = s.kind
           /\ s.kind = "admin" => Noted(s).last = now
BY DEF TypeOK, Noted, Session

(* Every step keeps the types; the links give those of what is held.       *)
LEMMA TypeStep ==
    ASSUME TypeOK, TokensLinked, [Next]_vars
    PROVE  TypeOK'
<1> USE SessionAssumption, NoSessionAssumption
    DEF TypeOK, Session, Stage, Flag, Kinds, Fault, Move, InUse, Admitting,
        coreVars, redisVars, requestVars, historyVars
<1>1. ASSUME Tick PROVE TypeOK'
  BY <1>1 DEF Tick
<1>2. ASSUME NEW c \in Cores, CoreLogin(c) PROVE TypeOK'
  BY <1>2 DEF CoreLogin
<1>3. ASSUME NEW c \in Cores, CoreExpire(c) PROVE TypeOK'
  BY <1>3 DEF CoreExpire
<1>4. ASSUME NEW c \in Cores, RemoveAppUser(c) PROVE TypeOK'
  BY <1>4 DEF RemoveAppUser
<1>5. ASSUME NEW r \in Requests, NEW c \in Cores, NEW t \in Tokens,
            NEW kind \in Kinds, Login(r, c, t, kind)
     PROVE  TypeOK'
  BY <1>5 DEF Login
<1>6. ASSUME NEW r \in Requests, LoginStore(r) PROVE TypeOK'
  <2>1. snap[r] \in Session /\ tok[r] \in Tokens
    BY <1>6 DEF LoginStore, TokensLinked
  <2>2. LoginTtl[snap[r].kind] \in Nat
    BY <1>6 DEF LoginStore, TokensLinked
  <2>3. /\ store' \in [Tokens -> Session \cup {NoSession}]
        /\ dies' \in [Tokens -> Nat]
        /\ faults' \in Nat
    BY <1>6, <2>1, <2>2, NotedTypes, SetTypes DEF LoginStore
  <2>4. busy' \in [Tokens -> Nat]
    BY <1>6 DEF LoginStore, NowBusy
  <2>5. QED
    BY <1>6, <2>1, <2>3, <2>4, AnswerTypes DEF LoginStore
<1>7. ASSUME NEW r \in Requests, NEW t \in Tokens, Begin(r, t) PROVE TypeOK'
  BY <1>7 DEF Begin, NowBusy
<1>8. ASSUME NEW r \in Requests, NEW t \in Tokens, LogoutRead(r, t)
     PROVE  TypeOK'
  BY <1>8 DEF LogoutRead
<1>9. ASSUME NEW r \in Requests, RefuseIdle(r) PROVE TypeOK'
  <2>1. tok[r] \in Tokens
    BY <1>9 DEF RefuseIdle, TokensLinked
  <2>2. QED
    BY <1>9, <2>1, RevokeTypes, AnswerTypes DEF RefuseIdle
<1>10. ASSUME NEW r \in Requests, NoteActivity(r) PROVE TypeOK'
  <2>1. snap[r] \in Session /\ tok[r] \in Tokens
    BY <1>10 DEF NoteActivity, TokensLinked
  <2>2. /\ store' \in [Tokens -> Session \cup {NoSession}]
        /\ dies' \in [Tokens -> Nat]
        /\ faults' \in Nat
    BY <1>10, <2>1, NotedTypes, SetTypes DEF NoteActivity
  <2>3. QED
    BY <1>10, <2>1, <2>2 DEF NoteActivity
<1>11. ASSUME NEW r \in Requests, Expire(r) PROVE TypeOK'
  BY <1>11 DEF Expire, AccessTtl
<1>12. ASSUME NEW r \in Requests, Exchange(r) PROVE TypeOK'
  BY <1>12 DEF Exchange
<1>13. ASSUME NEW r \in Requests, Touch(r) PROVE TypeOK'
  <2>1. snap[r] \in Session
    BY <1>13 DEF Touch, TokensLinked
  <2>2. snap' \in [Requests -> Session \cup {NoSession}]
    BY <1>13, <2>1 DEF Touch
  <2>3. core' \in [Cores -> {"none", "live", "expired"}]
    BY <1>13, <2>1 DEF Touch
  <2>4. QED
    BY <1>13, <2>2, <2>3 DEF Touch
<1>14. ASSUME NEW r \in Requests, End(r) PROVE TypeOK'
  BY <1>14, AnswerTypes DEF End
<1>15. ASSUME NEW r \in Requests, LogoutDelete(r) PROVE TypeOK'
  <2>1. tok[r] \in Tokens
    BY <1>15 DEF LogoutDelete, TokensLinked
  <2>2. QED
    BY <1>15, <2>1, RevokeTypes DEF LogoutDelete
<1>16. ASSUME NEW r \in Requests, LogoutRevoke(r) PROVE TypeOK'
  BY <1>16, AnswerTypes DEF LogoutRevoke
<1>17. ASSUME NEW r \in Requests, NEW mine \in Tokens, NEW t \in Tokens,
             RevokeOther(r, mine, t)
     PROVE  TypeOK'
  BY <1>17 DEF RevokeOther
<1>18. ASSUME NEW r \in Requests, DropSession(r) PROVE TypeOK'
  <2>1. tok[r] \in Tokens
    BY <1>18 DEF DropSession, TokensLinked
  <2>2. QED
    BY <1>18, <2>1, RevokeTypes, AnswerTypes DEF DropSession
<1>19. ASSUME NEW r \in Requests, SignOutAll(r) PROVE TypeOK'
  <2> DEFINE mine == {c \in Mine(r) : Live(c)}
  <2>1. mine \subseteq Cores
    BY DEF Mine
  <2>2. /\ work' = [work EXCEPT ![r] = mine]
        /\ closing' = [closing EXCEPT ![r] = mine]
        /\ pc' = [pc EXCEPT ![r] = "edge"]
        /\ UNCHANGED <<now, coreVars, redisVars, issued, faults, tok, snap, aim,
                       historyVars, busy, flags>>
    BY <1>19 DEF SignOutAll
  <2> HIDE DEF mine
  <2>3. QED
    BY <2>1, <2>2
<1>20. ASSUME NEW r \in Requests, EdgeRevoke(r) PROVE TypeOK'
  <2>1. PICK c \in work[r] : /\ revoked' = revoked \cup {c}
                             /\ work' = [work EXCEPT ![r] = @ \ {c}]
    BY <1>20 DEF EdgeRevoke
  <2>2. c \in Cores
    BY <1>20 DEF EdgeRevoke, TokensLinked
  <2>3. QED
    BY <1>20, <2>1, <2>2 DEF EdgeRevoke
<1>21. ASSUME NEW r \in Requests, EdgeDone(r) PROVE TypeOK'
  BY <1>21 DEF EdgeDone, ScanBegin
<1>22. ASSUME NEW r \in Requests, NEW c \in Cores, SignOutOne(r, c)
     PROVE  TypeOK'
  BY <1>22 DEF SignOutOne, OwnRoute, ScanBegin
<1>23. ASSUME NEW r \in Requests, ScanStep(r) PROVE TypeOK'
  <2>1. PICK t \in work[r] :
            /\ work' = [work EXCEPT ![r] = @ \ {t}]
            /\ \/ RevokeAppSession(t)
               \/ UNCHANGED <<redisVars, faults>>
    BY <1>23 DEF ScanStep
  <2>2. t \in Tokens
    BY <1>23 DEF ScanStep, TokensLinked
  <2>3. /\ store' \in [Tokens -> Session \cup {NoSession}]
        /\ dies' \in [Tokens -> Nat]
        /\ faults' \in Nat
    BY <2>1, <2>2, RevokeTypes
  <2>4. QED
    BY <1>23, <2>1, <2>3 DEF ScanStep
<1>24. ASSUME NEW r \in Requests, SignOutDone(r) PROVE TypeOK'
  BY <1>24, AnswerTypes DEF SignOutDone
<1>25. CASE UNCHANGED vars
  BY <1>25 DEF vars, coreVars, redisVars, requestVars, historyVars
<1> HIDE DEF TypeOK, Move, Fault
<1>26. QED
  BY <1>1, <1>2, <1>3, <1>4, <1>5, <1>6, <1>7, <1>8, <1>9, <1>10, <1>11,
     <1>12, <1>13, <1>14, <1>15, <1>16, <1>17, <1>18, <1>19, <1>20, <1>21,
     <1>22, <1>23, <1>24, <1>25 DEF Next, Step

(* Tokens, copies and the requests that hold them stay linked.             *)
LEMMA LinkStep ==
    ASSUME TypeOK, TokensLinked, [Next]_vars
    PROVE  TokensLinked'
<1> USE SessionAssumption, NoSessionAssumption
    DEF TypeOK, Session, Stage, Flag, Kinds, Fault, Move, InUse, Admitting,
        coreVars, redisVars, requestVars, historyVars
<1> USE DEF TokensLinked
<1>1. ASSUME Tick PROVE TokensLinked'
  BY <1>1 DEF Tick
<1>2. ASSUME NEW c \in Cores, CoreLogin(c) PROVE TokensLinked'
  BY <1>2 DEF CoreLogin
<1>3. ASSUME NEW c \in Cores, CoreExpire(c) PROVE TokensLinked'
  BY <1>3 DEF CoreExpire
<1>4. ASSUME NEW c \in Cores, RemoveAppUser(c) PROVE TokensLinked'
  BY <1>4 DEF RemoveAppUser
<1>5. ASSUME NEW r \in Requests, NEW c \in Cores, NEW t \in Tokens,
            NEW kind \in Kinds, Login(r, c, t, kind)
     PROVE  TokensLinked'
  BY <1>5 DEF Login
<1>6. ASSUME NEW r \in Requests, LoginStore(r) PROVE TokensLinked'
  BY <1>6 DEF LoginStore, SetAppSession, Noted, NowBusy, Answer
<1>7. ASSUME NEW r \in Requests, NEW t \in Tokens, Begin(r, t)
     PROVE  TokensLinked'
  BY <1>7 DEF Begin, NowBusy
<1>8. ASSUME NEW r \in Requests, NEW t \in Tokens, LogoutRead(r, t)
     PROVE  TokensLinked'
  BY <1>8 DEF LogoutRead
<1>9. ASSUME NEW r \in Requests, RefuseIdle(r) PROVE TokensLinked'
  BY <1>9 DEF RefuseIdle, RevokeAppSession, Answer
<1>10. ASSUME NEW r \in Requests, NoteActivity(r) PROVE TokensLinked'
  BY <1>10 DEF NoteActivity, SetAppSession, Noted
<1>11. ASSUME NEW r \in Requests, Expire(r) PROVE TokensLinked'
  BY <1>11 DEF Expire, AccessTtl
<1>12. ASSUME NEW r \in Requests, Exchange(r) PROVE TokensLinked'
  BY <1>12 DEF Exchange
<1>13. ASSUME NEW r \in Requests, Touch(r) PROVE TokensLinked'
  BY <1>13 DEF Touch
<1>14. ASSUME NEW r \in Requests, End(r) PROVE TokensLinked'
  BY <1>14 DEF End, Answer
<1>15. ASSUME NEW r \in Requests, LogoutDelete(r) PROVE TokensLinked'
  BY <1>15 DEF LogoutDelete, RevokeAppSession
<1>16. ASSUME NEW r \in Requests, LogoutRevoke(r) PROVE TokensLinked'
  BY <1>16 DEF LogoutRevoke, Answer
<1>17. ASSUME NEW r \in Requests, NEW mine \in Tokens, NEW t \in Tokens,
             RevokeOther(r, mine, t)
     PROVE  TokensLinked'
  BY <1>17 DEF RevokeOther
<1>18. ASSUME NEW r \in Requests, DropSession(r) PROVE TokensLinked'
  BY <1>18 DEF DropSession, RevokeAppSession, Answer
<1>19. ASSUME NEW r \in Requests, SignOutAll(r) PROVE TokensLinked'
  <2> DEFINE mine == {c \in Mine(r) : Live(c)}
  <2>1. mine \subseteq Cores
    BY DEF Mine
  <2>2. /\ work' = [work EXCEPT ![r] = mine]
        /\ pc[r] = "admitted"
        /\ pc' = [pc EXCEPT ![r] = "edge"]
        /\ UNCHANGED <<redisVars, issued, tok, snap, historyVars>>
    BY <1>19 DEF SignOutAll
  <2> HIDE DEF mine
  <2>3. QED
    BY <2>1, <2>2
<1>20. ASSUME NEW r \in Requests, EdgeRevoke(r) PROVE TokensLinked'
  BY <1>20 DEF EdgeRevoke
<1>21. ASSUME NEW r \in Requests, EdgeDone(r) PROVE TokensLinked'
  BY <1>21 DEF EdgeDone, ScanBegin
<1>22. ASSUME NEW r \in Requests, NEW c \in Cores, SignOutOne(r, c)
     PROVE  TokensLinked'
  BY <1>22 DEF SignOutOne, OwnRoute, ScanBegin
<1>23. ASSUME NEW r \in Requests, ScanStep(r) PROVE TokensLinked'
  BY <1>23 DEF ScanStep, RevokeAppSession
<1>24. ASSUME NEW r \in Requests, SignOutDone(r) PROVE TokensLinked'
  BY <1>24 DEF SignOutDone, Answer
<1>25. CASE UNCHANGED vars
  BY <1>25 DEF vars, coreVars, redisVars, requestVars, historyVars
<1> HIDE DEF TypeOK, TokensLinked, Move, Fault
<1>26. QED
  BY <1>1, <1>2, <1>3, <1>4, <1>5, <1>6, <1>7, <1>8, <1>9, <1>10, <1>11,
     <1>12, <1>13, <1>14, <1>15, <1>16, <1>17, <1>18, <1>19, <1>20, <1>21,
     <1>22, <1>23, <1>24, <1>25 DEF Next, Step

(* What a sign-out ends stays revoked: a row is never un-revoked, and an   *)
(* exchange refuses it.                                                    *)
LEMMA SignedOutStep ==
    ASSUME TypeOK, TokensLinked, SignedOutRevoked, [Next]_vars
    PROVE  SignedOutRevoked'
<1> USE SessionAssumption, NoSessionAssumption
    DEF TypeOK, Session, Stage, Flag, Kinds, Fault, Move, InUse, Admitting,
        coreVars, redisVars, requestVars, historyVars
<1> USE DEF TokensLinked
<1> USE DEF SignedOutRevoked
<1>1. ASSUME Tick PROVE SignedOutRevoked'
  BY <1>1 DEF Tick
<1>2. ASSUME NEW c \in Cores, CoreLogin(c) PROVE SignedOutRevoked'
  BY <1>2 DEF CoreLogin
<1>3. ASSUME NEW c \in Cores, CoreExpire(c) PROVE SignedOutRevoked'
  BY <1>3 DEF CoreExpire
<1>4. ASSUME NEW c \in Cores, RemoveAppUser(c) PROVE SignedOutRevoked'
  BY <1>4 DEF RemoveAppUser
<1>5. ASSUME NEW r \in Requests, NEW c \in Cores, NEW t \in Tokens,
            NEW kind \in Kinds, Login(r, c, t, kind)
     PROVE  SignedOutRevoked'
  BY <1>5 DEF Login
<1>6. ASSUME NEW r \in Requests, LoginStore(r) PROVE SignedOutRevoked'
  BY <1>6 DEF LoginStore, SetAppSession, Noted, NowBusy, Answer
<1>7. ASSUME NEW r \in Requests, NEW t \in Tokens, Begin(r, t)
     PROVE  SignedOutRevoked'
  BY <1>7 DEF Begin, NowBusy
<1>8. ASSUME NEW r \in Requests, NEW t \in Tokens, LogoutRead(r, t)
     PROVE  SignedOutRevoked'
  BY <1>8 DEF LogoutRead
<1>9. ASSUME NEW r \in Requests, RefuseIdle(r) PROVE SignedOutRevoked'
  BY <1>9 DEF RefuseIdle, RevokeAppSession, Answer
<1>10. ASSUME NEW r \in Requests, NoteActivity(r) PROVE SignedOutRevoked'
  BY <1>10 DEF NoteActivity, SetAppSession, Noted
<1>11. ASSUME NEW r \in Requests, Expire(r) PROVE SignedOutRevoked'
  BY <1>11 DEF Expire, AccessTtl
<1>12. ASSUME NEW r \in Requests, Exchange(r) PROVE SignedOutRevoked'
  BY <1>12 DEF Exchange, Live
<1>13. ASSUME NEW r \in Requests, Touch(r) PROVE SignedOutRevoked'
  BY <1>13 DEF Touch
<1>14. ASSUME NEW r \in Requests, End(r) PROVE SignedOutRevoked'
  BY <1>14 DEF End, Answer
<1>15. ASSUME NEW r \in Requests, LogoutDelete(r) PROVE SignedOutRevoked'
  BY <1>15 DEF LogoutDelete, RevokeAppSession
<1>16. ASSUME NEW r \in Requests, LogoutRevoke(r) PROVE SignedOutRevoked'
  BY <1>16 DEF LogoutRevoke, Answer
<1>17. ASSUME NEW r \in Requests, NEW mine \in Tokens, NEW t \in Tokens,
             RevokeOther(r, mine, t)
     PROVE  SignedOutRevoked'
  BY <1>17 DEF RevokeOther
<1>18. ASSUME NEW r \in Requests, DropSession(r) PROVE SignedOutRevoked'
  BY <1>18 DEF DropSession, RevokeAppSession, Answer
<1>19. ASSUME NEW r \in Requests, SignOutAll(r) PROVE SignedOutRevoked'
  BY <1>19 DEF SignOutAll, OwnRoute
<1>20. ASSUME NEW r \in Requests, EdgeRevoke(r) PROVE SignedOutRevoked'
  BY <1>20 DEF EdgeRevoke
<1>21. ASSUME NEW r \in Requests, EdgeDone(r) PROVE SignedOutRevoked'
  BY <1>21 DEF EdgeDone, ScanBegin
<1>22. ASSUME NEW r \in Requests, NEW c \in Cores, SignOutOne(r, c)
     PROVE  SignedOutRevoked'
  BY <1>22 DEF SignOutOne, OwnRoute, ScanBegin
<1>23. ASSUME NEW r \in Requests, ScanStep(r) PROVE SignedOutRevoked'
  BY <1>23 DEF ScanStep, RevokeAppSession
<1>24. ASSUME NEW r \in Requests, SignOutDone(r) PROVE SignedOutRevoked'
  BY <1>24 DEF SignOutDone, Answer
<1>25. CASE UNCHANGED vars
  BY <1>25 DEF vars, coreVars, redisVars, requestVars, historyVars
<1> HIDE DEF TypeOK, TokensLinked, Move, Fault
<1>26. QED
  BY <1>1, <1>2, <1>3, <1>4, <1>5, <1>6, <1>7, <1>8, <1>9, <1>10, <1>11,
     <1>12, <1>13, <1>14, <1>15, <1>16, <1>17, <1>18, <1>19, <1>20, <1>21,
     <1>22, <1>23, <1>24, <1>25 DEF Next, Step

(* A dropped key comes back only through the middleware's write-back.      *)
LEMMA DroppedStep ==
    ASSUME TypeOK, TokensLinked, DroppedGone, [Next]_vars
    PROVE  DroppedGone'
<1> USE SessionAssumption, NoSessionAssumption
    DEF TypeOK, Session, Stage, Flag, Kinds, Fault, Move, InUse, Admitting,
        coreVars, redisVars, requestVars, historyVars
<1> USE DEF TokensLinked
<1> USE DEF DroppedGone
<1>1. ASSUME Tick PROVE DroppedGone'
  BY <1>1 DEF Tick
<1>2. ASSUME NEW c \in Cores, CoreLogin(c) PROVE DroppedGone'
  BY <1>2 DEF CoreLogin
<1>3. ASSUME NEW c \in Cores, CoreExpire(c) PROVE DroppedGone'
  BY <1>3 DEF CoreExpire
<1>4. ASSUME NEW c \in Cores, RemoveAppUser(c) PROVE DroppedGone'
  BY <1>4 DEF RemoveAppUser
<1>5. ASSUME NEW r \in Requests, NEW c \in Cores, NEW t \in Tokens,
            NEW kind \in Kinds, Login(r, c, t, kind)
     PROVE  DroppedGone'
  BY <1>5 DEF Login
<1>6. ASSUME NEW r \in Requests, LoginStore(r) PROVE DroppedGone'
  BY <1>6 DEF LoginStore, SetAppSession, Noted, NowBusy, Answer
<1>7. ASSUME NEW r \in Requests, NEW t \in Tokens, Begin(r, t)
     PROVE  DroppedGone'
  BY <1>7 DEF Begin, NowBusy
<1>8. ASSUME NEW r \in Requests, NEW t \in Tokens, LogoutRead(r, t)
     PROVE  DroppedGone'
  BY <1>8 DEF LogoutRead
<1>9. ASSUME NEW r \in Requests, RefuseIdle(r) PROVE DroppedGone'
  BY <1>9 DEF RefuseIdle, RevokeAppSession, Answer
<1>10. ASSUME NEW r \in Requests, NoteActivity(r) PROVE DroppedGone'
  BY <1>10 DEF NoteActivity, SetAppSession, Noted
<1>11. ASSUME NEW r \in Requests, Expire(r) PROVE DroppedGone'
  BY <1>11 DEF Expire, AccessTtl
<1>12. ASSUME NEW r \in Requests, Exchange(r) PROVE DroppedGone'
  BY <1>12 DEF Exchange
<1>13. ASSUME NEW r \in Requests, Touch(r) PROVE DroppedGone'
  BY <1>13 DEF Touch
<1>14. ASSUME NEW r \in Requests, End(r) PROVE DroppedGone'
  BY <1>14 DEF End, Answer
<1>15. ASSUME NEW r \in Requests, LogoutDelete(r) PROVE DroppedGone'
  BY <1>15 DEF LogoutDelete, RevokeAppSession
<1>16. ASSUME NEW r \in Requests, LogoutRevoke(r) PROVE DroppedGone'
  BY <1>16 DEF LogoutRevoke, Answer
<1>17. ASSUME NEW r \in Requests, NEW mine \in Tokens, NEW t \in Tokens,
             RevokeOther(r, mine, t)
     PROVE  DroppedGone'
  BY <1>17 DEF RevokeOther
<1>18. ASSUME NEW r \in Requests, DropSession(r) PROVE DroppedGone'
  BY <1>18 DEF DropSession, RevokeAppSession, Answer
<1>19. ASSUME NEW r \in Requests, SignOutAll(r) PROVE DroppedGone'
  BY <1>19 DEF SignOutAll, OwnRoute
<1>20. ASSUME NEW r \in Requests, EdgeRevoke(r) PROVE DroppedGone'
  BY <1>20 DEF EdgeRevoke
<1>21. ASSUME NEW r \in Requests, EdgeDone(r) PROVE DroppedGone'
  BY <1>21 DEF EdgeDone, ScanBegin
<1>22. ASSUME NEW r \in Requests, NEW c \in Cores, SignOutOne(r, c)
     PROVE  DroppedGone'
  BY <1>22 DEF SignOutOne, OwnRoute, ScanBegin
<1>23. ASSUME NEW r \in Requests, ScanStep(r) PROVE DroppedGone'
  BY <1>23 DEF ScanStep, RevokeAppSession
<1>24. ASSUME NEW r \in Requests, SignOutDone(r) PROVE DroppedGone'
  BY <1>24 DEF SignOutDone, Answer
<1>25. CASE UNCHANGED vars
  BY <1>25 DEF vars, coreVars, redisVars, requestVars, historyVars
<1> HIDE DEF TypeOK, TokensLinked, Move, Fault
<1>26. QED
  BY <1>1, <1>2, <1>3, <1>4, <1>5, <1>6, <1>7, <1>8, <1>9, <1>10, <1>11,
     <1>12, <1>13, <1>14, <1>15, <1>16, <1>17, <1>18, <1>19, <1>20, <1>21,
     <1>22, <1>23, <1>24, <1>25 DEF Next, Step

(* The last activity in Redis follows the use of the session.              *)
LEMMA ActivityStep ==
    ASSUME TypeOK, TokensLinked, ActivityNoted, [Next]_vars
    PROVE  ActivityNoted'
<1> USE SessionAssumption, NoSessionAssumption
    DEF TypeOK, Session, Stage, Flag, Kinds, Fault, Move, InUse, Admitting,
        coreVars, redisVars, requestVars, historyVars
<1> USE DEF TokensLinked
<1> USE DEF ActivityNoted, Uses, Idle, NowBusy, Noted
<1>1. ASSUME Tick PROVE ActivityNoted'
  BY <1>1 DEF Tick
<1>2. ASSUME NEW c \in Cores, CoreLogin(c) PROVE ActivityNoted'
  BY <1>2 DEF CoreLogin
<1>3. ASSUME NEW c \in Cores, CoreExpire(c) PROVE ActivityNoted'
  BY <1>3 DEF CoreExpire
<1>4. ASSUME NEW c \in Cores, RemoveAppUser(c) PROVE ActivityNoted'
  BY <1>4 DEF RemoveAppUser
<1>5. ASSUME NEW r \in Requests, NEW c \in Cores, NEW t \in Tokens,
            NEW kind \in Kinds, Login(r, c, t, kind)
     PROVE  ActivityNoted'
  BY <1>5 DEF Login
<1>6. ASSUME NEW r \in Requests, LoginStore(r) PROVE ActivityNoted'
  BY <1>6 DEF LoginStore, SetAppSession, Noted, NowBusy, Answer
<1>7. ASSUME NEW r \in Requests, NEW t \in Tokens, Begin(r, t)
     PROVE  ActivityNoted'
  BY <1>7 DEF Begin, NowBusy
<1>8. ASSUME NEW r \in Requests, NEW t \in Tokens, LogoutRead(r, t)
     PROVE  ActivityNoted'
  BY <1>8 DEF LogoutRead
<1>9. ASSUME NEW r \in Requests, RefuseIdle(r) PROVE ActivityNoted'
  BY <1>9 DEF RefuseIdle, RevokeAppSession, Answer
<1>10. ASSUME NEW r \in Requests, NoteActivity(r) PROVE ActivityNoted'
  BY <1>10 DEF NoteActivity, SetAppSession, Noted
<1>11. ASSUME NEW r \in Requests, Expire(r) PROVE ActivityNoted'
  BY <1>11 DEF Expire, AccessTtl
<1>12. ASSUME NEW r \in Requests, Exchange(r) PROVE ActivityNoted'
  BY <1>12 DEF Exchange
<1>13. ASSUME NEW r \in Requests, Touch(r) PROVE ActivityNoted'
  BY <1>13 DEF Touch
<1>14. ASSUME NEW r \in Requests, End(r) PROVE ActivityNoted'
  BY <1>14 DEF End, Answer
<1>15. ASSUME NEW r \in Requests, LogoutDelete(r) PROVE ActivityNoted'
  BY <1>15 DEF LogoutDelete, RevokeAppSession
<1>16. ASSUME NEW r \in Requests, LogoutRevoke(r) PROVE ActivityNoted'
  BY <1>16 DEF LogoutRevoke, Answer
<1>17. ASSUME NEW r \in Requests, NEW mine \in Tokens, NEW t \in Tokens,
             RevokeOther(r, mine, t)
     PROVE  ActivityNoted'
  BY <1>17 DEF RevokeOther
<1>18. ASSUME NEW r \in Requests, DropSession(r) PROVE ActivityNoted'
  BY <1>18 DEF DropSession, RevokeAppSession, Answer
<1>19. ASSUME NEW r \in Requests, SignOutAll(r) PROVE ActivityNoted'
  BY <1>19 DEF SignOutAll, OwnRoute
<1>20. ASSUME NEW r \in Requests, EdgeRevoke(r) PROVE ActivityNoted'
  BY <1>20 DEF EdgeRevoke
<1>21. ASSUME NEW r \in Requests, EdgeDone(r) PROVE ActivityNoted'
  BY <1>21 DEF EdgeDone, ScanBegin
<1>22. ASSUME NEW r \in Requests, NEW c \in Cores, SignOutOne(r, c)
     PROVE  ActivityNoted'
  BY <1>22 DEF SignOutOne, OwnRoute, ScanBegin
<1>23. ASSUME NEW r \in Requests, ScanStep(r) PROVE ActivityNoted'
  <2>1. PICK t \in work[r] : \/ RevokeAppSession(t)
                             \/ UNCHANGED <<redisVars, faults>>
    BY <1>23 DEF ScanStep
  <2>2. \A u \in Tokens : store'[u] \in {store[u], NoSession}
    BY <2>1 DEF RevokeAppSession
  <2>3. UNCHANGED <<now, busy, pc, tok, snap, flags>>
    BY <1>23 DEF ScanStep
  <2>4. QED
    BY <2>2, <2>3
<1>24. ASSUME NEW r \in Requests, SignOutDone(r) PROVE ActivityNoted'
  BY <1>24 DEF SignOutDone, Answer
<1>25. CASE UNCHANGED vars
  BY <1>25 DEF vars, coreVars, redisVars, requestVars, historyVars
<1> HIDE DEF TypeOK, TokensLinked, Move, Fault
<1>26. QED
  BY <1>1, <1>2, <1>3, <1>4, <1>5, <1>6, <1>7, <1>8, <1>9, <1>10, <1>11,
     <1>12, <1>13, <1>14, <1>15, <1>16, <1>17, <1>18, <1>19, <1>20, <1>21,
     <1>22, <1>23, <1>24, <1>25 DEF Next, Step

-----------------------------------------------------------------------------
(* The inductive invariant holds in every reachable state, for any number  *)
(* of users, sessions, concurrent requests, ticks and swallowed errors.    *)
THEOREM SessionIInvHolds == Spec => []IInv
<1>1. Init => IInv
  BY SessionAssumption
  DEF Init, IInv, TypeOK, TokensLinked, SignedOutRevoked, DroppedGone,
      ActivityNoted, Uses, InUse, Admitting, Stage, Flag
<1>2. IInv /\ [Next]_vars => IInv'
  BY TypeStep, LinkStep, SignedOutStep, DroppedStep, ActivityStep DEF IInv
<1>3. QED
  BY <1>1, <1>2, PTL DEF Spec

(* Type correctness of the session model.                                  *)
THEOREM SessionTypes == Spec => []TypeOK
<1>1. IInv => TypeOK
  BY DEF IInv
<1>2. QED
  BY <1>1, SessionIInvHolds, PTL

(* A request that begins after a sign-out was answered is never admitted   *)
(* on a session that the sign-out ended: the middleware's exchange sees    *)
(* the revoked row (unless logout swallowed an error).                     *)
THEOREM SignOutIsFinal == Spec => SignedOutStaysOut
<1>1. IInv /\ [Next]_vars =>
        [\A r \in Requests :
            Admits(r) /\ "signedOut" \in flags[r] => faults > 0]_vars
  BY DEF IInv, TypeOK, SignedOutRevoked, Admits, Admitting
<1>2. QED
  BY <1>1, SessionIInvHolds, PTL DEF Spec, SignedOutStaysOut

(* A revoked gateway session is admitted again only when a request that    *)
(* was under way wrote it back, or its deletion failed.                    *)
THEOREM DroppedNeedsRevival == Spec => DroppedStaysOut
<1>1. IInv /\ [Next]_vars =>
        [\A r \in Requests :
            Admits(r) /\ "dropped" \in flags[r]
               => tok[r] \in revived \/ faults > 0]_vars
  BY DEF IInv, TypeOK, DroppedGone, Admits, Admitting
<1>2. QED
  BY <1>1, SessionIInvHolds, PTL DEF Spec, DroppedStaysOut

(* The middleware admits no request on an admin session that was left      *)
(* unused for longer than the inactivity timeout.                          *)
THEOREM IdleAdminIsRefused == Spec => IdleAdminRefused
<1>1. IInv /\ [Next]_vars =>
        [\A r \in Requests :
            Admits(r) /\ "quiet" \in flags[r] => snap[r].kind # "admin"]_vars
  BY DEF IInv, ActivityNoted, Admits, Admitting
<1>2. QED
  BY <1>1, SessionIInvHolds, PTL DEF Spec, IdleAdminRefused
=============================================================================
