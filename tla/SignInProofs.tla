---------------------------- MODULE SignInProofs ----------------------------
(* Theorems about EmailSignIn and OAuthSignIn, for every value of their    *)
(* constants.  The two share no state: each has an invariant of its own.   *)
EXTENDS EmailSignIn, OAuthSignIn, FiniteSetTheorems, TLAPS

(***************************************************************************)
(* EmailSignIn                                                             *)
(***************************************************************************)
Sending == {"link", "mail"}

(* What a request holds: codes that were drawn, rows that exist or did.    *)
RequestsLinked ==
    /\ mailed \cap fresh = {}
    /\ \A c \in Clients :
        /\ code[c] \notin fresh
        /\ does[c] = "right" => code[c] \in Codes
        /\ does[c] = "click" => code[c] \in mailed
        /\ does[c] \in Sending => /\ code[c] \in Codes \ mailed
                                  /\ \A o \in Clients :
                                        does[o] \in Sending /\ code[o] = code[c]
                                        => o = c
        /\ does[c] \in {"newIdentity", "findIdentity", "addIdentity"} =>
              account[c] \in Accounts

(* A link that was not sent has not been clicked, nor has one that Redis   *)
(* holds.                                                                  *)
LinksUnspent ==
    \A k \in Codes :
        /\ clicks[k] <= 1
        /\ k \in magic \/ k \notin mailed => clicks[k] = 0

(* A code lives in one row, and is unused while it does.                   *)
CodesUnspent ==
    /\ \A v \in Otps : otp[v] # NoOtp =>
          /\ otp[v].code \notin fresh /\ uses[otp[v].code] = 0
          /\ \A w \in Otps : otp[w] # NoOtp /\ otp[w].code = otp[v].code
                             => w = v
          /\ \A c \in Clients : does[c] = "right" /\ code[c] = otp[v].code
                                => reads[c] = {v}
    /\ \A k \in fresh : uses[k] = 0

CodesCounted ==
    \A k \in Codes : uses[k] + Cardinality(Holding(k)) <= peakUse

(* Accounts that were made and accounts that are about to be.              *)
AccountsCounted ==
    Cardinality(signedUp) + Cardinality(Creating) <= peakNew

(* The call that made a counter is one that the window has not let through *)
(* yet; only it can give the counter its end.                              *)
WindowsCounted ==
    /\ \A b \in Buckets : /\ passed[b] <= Limit[b] /\ passed[b] <= count[b]
                          /\ b \in timed => count[b] > 0
    /\ \A c \in Clients : does[c] = "expire" =>
          /\ bucket[c] \notin timed
          /\ passed[bucket[c]] < count[bucket[c]]
          /\ Limit[bucket[c]] >= 1 => passed[bucket[c]] < Limit[bucket[c]]
          /\ \A o \in Clients : does[o] = "expire" /\ bucket[o] = bucket[c]
                                => o = c

(* Who saves into a locked row had read it before.                         *)
LocksOvertaken ==
    \A c \in Clients, v \in Otps :
        does[c] = "save" /\ v \in reads[c] /\ otp[v] # NoOtp /\ otp[v].locked
        => c \in early

EmailInductive ==
    /\ EmailTypeOK /\ RequestsLinked /\ LinksUnspent /\ CodesUnspent
    /\ CodesCounted /\ AccountsCounted /\ WindowsCounted /\ CounterEnds
    /\ LocksOvertaken

-----------------------------------------------------------------------------
(* The sets that are counted are finite.                                   *)
LEMMA EmailSets ==
    ASSUME EmailTypeOK
    PROVE  /\ IsFiniteSet(signedUp) /\ Cardinality(signedUp) \in Nat
           /\ IsFiniteSet(Creating) /\ Cardinality(Creating) \in Nat
           /\ \A k \in Codes : /\ IsFiniteSet(Holding(k))
                               /\ Cardinality(Holding(k)) \in Nat
<1>1. /\ signedUp \subseteq Accounts /\ Creating \subseteq Clients
      /\ \A k \in Codes : Holding(k) \subseteq Clients
  BY DEF EmailTypeOK, Creating, Holding
<1>2. /\ IsFiniteSet(signedUp) /\ IsFiniteSet(Creating)
      /\ \A k \in Codes : IsFiniteSet(Holding(k))
  BY <1>1, FS_Subset, EmailAssumption
<1>3. QED
  BY <1>2, FS_CardinalityType

LEMMA EmailSetsNext ==
    ASSUME EmailTypeOK'
    PROVE  /\ IsFiniteSet(signedUp') /\ Cardinality(signedUp') \in Nat
           /\ IsFiniteSet(Creating') /\ Cardinality(Creating') \in Nat
           /\ \A k \in Codes : /\ IsFiniteSet(Holding(k)')
                               /\ Cardinality(Holding(k)') \in Nat
<1>1. /\ signedUp' \subseteq Accounts /\ Creating' \subseteq Clients
      /\ \A k \in Codes : Holding(k)' \subseteq Clients
  BY DEF EmailTypeOK, Creating, Holding
<1>2. /\ IsFiniteSet(signedUp') /\ IsFiniteSet(Creating')
      /\ \A k \in Codes : IsFiniteSet(Holding(k)')
  BY <1>1, FS_Subset, EmailAssumption
<1>3. QED
  BY <1>2, FS_CardinalityType

(* Sizes of a set with one element more or less.                           *)
LEMMA OneMore ==
    ASSUME NEW X, NEW x, IsFiniteSet(X)
    PROVE  /\ Cardinality(X \cup {x}) <= Cardinality(X) + 1
           /\ x \in X => Cardinality(X \ {x}) = Cardinality(X) - 1
<1>1. Cardinality(X) \in Nat
  BY FS_CardinalityType
<1>2. Cardinality(X \cup {x}) = IF x \in X THEN Cardinality(X)
                                 ELSE Cardinality(X) + 1
  BY FS_AddElement
<1>3. Cardinality(X \ {x}) = IF x \in X THEN Cardinality(X) - 1
                              ELSE Cardinality(X)
  BY FS_RemoveElement
<1>4. QED
  BY <1>1, <1>2, <1>3

LEMMA LargerType ==
    ASSUME NEW a \in Nat, NEW b \in Nat
    PROVE  Larger(a, b) \in Nat /\ a <= Larger(a, b) /\ b <= Larger(a, b)
BY DEF Larger

(* What a request that has ended leaves behind.                            *)
LEMMA DoneTypes ==
    ASSUME EmailTypeOK, NEW c \in Clients, Done(c)
    PROVE  /\ does' \in [Clients -> EmailStage]
           /\ bucket' \in [Clients -> Buckets]
           /\ reads' \in [Clients -> SUBSET Otps]
           /\ code' \in [Clients -> Codes \cup {NoCode, WrongCode}]
           /\ tries' \in [Clients -> Nat]
           /\ account' \in [Clients -> Accounts \cup {NoAccount}]
           /\ early' \subseteq Clients
BY DEF EmailTypeOK, Done, EmailStage, Buckets

LEMMA ErrorType ==
    ASSUME EmailTypeOK, Error
    PROVE  errors' \in Nat
BY DEF EmailTypeOK, Error

(* A row that changes its attempts, its lock or its expiry is a row.       *)
LEMMA RowTypes ==
    ASSUME EmailTypeOK, NEW v \in Otps, otp[v] # NoOtp, NEW n \in Nat
    PROVE  /\ otp[v] \in Otp /\ otp[v].code \in Codes /\ otp[v].attempts \in Nat
           /\ [otp EXCEPT ![v].locked = FALSE] \in [Otps -> Otp \cup {NoOtp}]
           /\ [otp EXCEPT ![v].expired = TRUE] \in [Otps -> Otp \cup {NoOtp}]
           /\ \A locks \in BOOLEAN :
                  [otp EXCEPT ![v].attempts = n, ![v].locked = @ \/ locks]
                      \in [Otps -> Otp \cup {NoOtp}]
<1>1. otp[v] \in Otp
  BY DEF EmailTypeOK
<1>2. /\ otp[v].code \in Codes /\ otp[v].attempts \in Nat
      /\ otp[v].locked \in BOOLEAN /\ otp[v].expired \in BOOLEAN
  BY <1>1 DEF Otp
<1>3. [otp[v] EXCEPT !.locked = FALSE] \in Otp
  BY <1>1 DEF Otp
<1>4. [otp[v] EXCEPT !.expired = TRUE] \in Otp
  BY <1>1 DEF Otp
<1>5. ASSUME NEW locks \in BOOLEAN
      PROVE  [otp[v] EXCEPT !.attempts = n, !.locked = @ \/ locks] \in Otp
  <2>1. (otp[v].locked \/ locks) \in BOOLEAN
    BY <1>2
  <2>2. QED
    BY <1>1, <2>1 DEF Otp
<1>6. otp \in [Otps -> Otp \cup {NoOtp}]
  BY DEF EmailTypeOK
<1>7. QED
  BY <1>1, <1>2, <1>3, <1>4, <1>5, <1>6

(* Every step keeps the types.                                              *)
LEMMA EmailTypeStep ==
    ASSUME EmailTypeOK, RequestsLinked, [EmailNext]_emailVars
    PROVE  EmailTypeOK'
<1> USE EmailAssumption
        DEF EmailTypeOK, EmailStage, Buckets, requestVars, dbVars, redisVars, useHistory, limitHistory,
        accountHistory
<1>1. ASSUME NEW c \in Clients, Start(c) PROVE EmailTypeOK'
  BY <1>1 DEF Start, Enter, Steps
<1>2. ASSUME NEW c \in Clients, CheckLimit(c) PROVE EmailTypeOK'
  <2>1. count' \in [Buckets -> Nat]
    BY <1>2 DEF CheckLimit, Increment
  <2>2. CASE Done(c) /\ UNCHANGED passed
    BY <1>2, <2>1, <2>2, DoneTypes DEF CheckLimit
  <2>3. CASE Let(c, bucket[c])
    BY <1>2, <2>1, <2>3 DEF CheckLimit, Let, AfterLimit
  <2>4. CASE /\ does' = [does EXCEPT ![c] = "expire"]
             /\ UNCHANGED <<bucket, reads, code, tries, account, early, passed>>
    BY <1>2, <2>1, <2>4 DEF CheckLimit
  <2>5. QED
    BY <1>2, <2>2, <2>3, <2>4 DEF CheckLimit
<1>3. ASSUME NEW c \in Clients, SetExpiry(c) PROVE EmailTypeOK'
  <2>1. CASE Done(c) /\ UNCHANGED passed
    BY <1>3, <2>1, DoneTypes DEF SetExpiry
  <2>2. CASE Let(c, bucket[c])
    <3>1. timed' \subseteq Buckets
      BY <1>3 DEF SetExpiry
    <3>2. /\ does' \in [Clients -> EmailStage]
          /\ passed' \in [Buckets -> Nat]
      BY <2>2 DEF Let, AfterLimit
    <3>3. QED
      BY <1>3, <2>2, <3>1, <3>2 DEF SetExpiry, Let
  <2>3. QED
    BY <1>3, <2>1, <2>2 DEF SetExpiry
<1>4. ASSUME NEW c \in Clients, LimitError(c) PROVE EmailTypeOK'
  <2>1. errors' \in Nat
    BY <1>4, ErrorType DEF LimitError
  <2>2. does' \in [Clients -> EmailStage]
    BY <1>4 DEF LimitError, AfterLimit
  <2>3. lost' \subseteq Buckets
    BY <1>4 DEF LimitError
  <2>4. QED
    BY <1>4, <2>1, <2>2, <2>3 DEF LimitError
<1>5. ASSUME NEW c \in Clients, NEW guess \in Codes \cup {WrongCode},
            Verify(c, guess)
     PROVE  EmailTypeOK'
  BY <1>5 DEF Verify, Enter, Steps
<1>6. ASSUME NEW c \in Clients, NEW k \in Codes, Click(c, k) PROVE EmailTypeOK'
  BY <1>6 DEF Click, Enter, Steps
<1>7. ASSUME NEW c \in Clients, ReadStart(c) PROVE EmailTypeOK'
  <2>1. CASE Done(c)
    BY <1>7, <2>1, DoneTypes DEF ReadStart
  <2>2. CASE ~ Done(c) /\ Rows = {}
    BY <1>7, <2>2 DEF ReadStart, Rows
  <2>3. CASE ~ Done(c) /\ Rows # {}
    <3>1. PICK v \in Otps : /\ does' = [does EXCEPT ![c] = "save"]
                            /\ reads' = [reads EXCEPT ![c] = {v}]
                            /\ UNCHANGED <<bucket, code, tries, account, early>>
      BY <1>7, <2>3 DEF ReadStart, Rows
    <3>2. QED
      BY <1>7, <3>1 DEF ReadStart
  <2>4. QED
    BY <2>1, <2>2, <2>3
<1>8. ASSUME NEW c \in Clients, StoreLink(c) PROVE EmailTypeOK'
  <2>1. errors' \in Nat
    BY <1>8, ErrorType DEF StoreLink
  <2>2. code[c] \in Codes
    BY <1>8 DEF StoreLink, Steps, RequestsLinked, Sending
  <2>3. magic' \subseteq Codes
    BY <1>8, <2>2 DEF StoreLink
  <2>4. QED
    BY <1>8, <2>1, <2>3 DEF StoreLink, Steps
<1>9. ASSUME NEW c \in Clients, SendMail(c) PROVE EmailTypeOK'
  <2>1. code[c] \in Codes
    BY <1>9 DEF SendMail, RequestsLinked, Sending
  <2>2. mailed' \subseteq Codes
    BY <1>9, <2>1 DEF SendMail
  <2>3. QED
    BY <1>9, <2>2, DoneTypes DEF SendMail
<1>10. ASSUME NEW c \in Clients, NEW k \in Codes, NEW v \in Otps,
            SaveCode(c, k, v)
     PROVE  EmailTypeOK'
  BY <1>10 DEF SaveCode, Otp
<1>11. ASSUME NEW c \in Clients, ReadVerify(c) PROVE EmailTypeOK'
  <2>1. CASE Done(c) /\ UNCHANGED peakUse
    BY <1>11, <2>1, DoneTypes DEF ReadVerify
  <2>2. CASE ~ (Done(c) /\ UNCHANGED peakUse)
    <3>1. PICK v \in Rows :
             /\ reads' = [reads EXCEPT ![c] = {v}]
             /\ tries' = [tries EXCEPT ![c] = otp[v].attempts]
             /\ does' = [does EXCEPT ![c] = IF code[c] = otp[v].code
                                            THEN "right" ELSE "wrong"]
             /\ peakUse' =
                  IF code[c] = otp[v].code
                  THEN Larger(Cardinality(Holding(code[c])) + 1, peakUse)
                  ELSE peakUse
             /\ UNCHANGED <<bucket, code, account, early>>
      BY <1>11, <2>2 DEF ReadVerify
    <3>2. v \in Otps /\ otp[v].code \in Codes /\ otp[v].attempts \in Nat
      BY RowTypes DEF Rows
    <3>3. peakUse' \in Nat
      <4>1. CASE code[c] = otp[v].code
        <5>1. Cardinality(Holding(code[c])) + 1 \in Nat /\ peakUse \in Nat
          BY <3>2, <4>1, EmailSets
        <5>2. QED
          BY <3>1, <4>1, <5>1, LargerType
      <4>2. QED
        BY <3>1, <4>1
    <3>4. QED
      BY <1>11, <3>1, <3>2, <3>3 DEF ReadVerify
  <2>3. QED
    BY <2>1, <2>2
<1>12. ASSUME NEW c \in Clients, UseLink(c) PROVE EmailTypeOK'
  <2>1. magic' \subseteq Codes
    BY <1>12 DEF UseLink, TakeLink
  <2>2. CASE Done(c) /\ UNCHANGED clicks
    BY <1>12, <2>1, <2>2, DoneTypes DEF UseLink
  <2>3. CASE /\ does' = [does EXCEPT ![c] = "readClick"]
             /\ clicks' = [clicks EXCEPT ![code[c]] = @ + 1]
             /\ UNCHANGED <<bucket, reads, code, tries, account, early>>
    <3>1. clicks' \in [Codes -> Nat]
      <4>1. code[c] \in Codes
        BY <1>12 DEF UseLink, RequestsLinked
      <4>2. QED
        BY <2>3, <4>1
    <3>2. QED
      BY <1>12, <2>1, <2>3, <3>1 DEF UseLink
  <2>4. QED
    BY <1>12, <2>2, <2>3 DEF UseLink
<1>13. ASSUME NEW c \in Clients, ReadClick(c) PROVE EmailTypeOK'
  <2>1. \A v \in Rows : v \in Otps
    BY DEF Rows
  <2>2. /\ does' \in [Clients -> EmailStage]
        /\ reads' \in [Clients -> SUBSET Otps]
    BY <1>13, <2>1 DEF ReadClick
  <2>3. QED
    BY <1>13, <2>2 DEF ReadClick
<1>14. ASSUME NEW c \in Clients, NEW v \in Otps, CountAttempt(c, v)
     PROVE  EmailTypeOK'
  <2>1. otp' \in [Otps -> Otp \cup {NoOtp}]
    <3>1. tries[c] + 1 \in Nat /\ (tries[c] + 1 >= OTP_MAX_ATTEMPTS) \in BOOLEAN
      OBVIOUS
    <3>2. CASE otp[v] = NoOtp
      BY <1>14, <3>2 DEF CountAttempt
    <3>3. CASE otp[v] # NoOtp
      BY <1>14, <3>1, <3>3, RowTypes DEF CountAttempt
    <3>4. QED
      BY <3>2, <3>3
  <2>2. early' \subseteq Clients
    BY <1>14 DEF CountAttempt
  <2>3. /\ does' = [does EXCEPT ![c] = "idle"]
        /\ bucket' = [bucket EXCEPT ![c] = "otp_request"]
        /\ reads' = [reads EXCEPT ![c] = {}]
        /\ code' = [code EXCEPT ![c] = NoCode]
        /\ tries' = [tries EXCEPT ![c] = 0]
        /\ UNCHANGED <<accounts, identity, redisVars, mailed, fresh, account,
                       begunTries, errors, useHistory, limitHistory,
                       accountHistory>>
    BY <1>14 DEF CountAttempt
  <2>4. QED
    BY <2>1, <2>2, <2>3
<1>15. ASSUME NEW c \in Clients, NEW v \in Otps, UseCode(c, v)
     PROVE  EmailTypeOK'
  <2>1. uses' \in [Codes -> Nat]
    <3>1. code[c] \in Codes
      BY <1>15 DEF UseCode, Steps, RequestsLinked
    <3>2. QED
      BY <1>15, <3>1 DEF UseCode
  <2>2. otp' \in [Otps -> Otp \cup {NoOtp}]
    BY <1>15 DEF UseCode, DeleteRow
  <2>3. QED
    BY <1>15, <2>1, <2>2 DEF UseCode, Steps
<1>16. ASSUME NEW c \in Clients, NEW v \in Otps, ClearRow(c, v)
     PROVE  EmailTypeOK'
  BY <1>16 DEF ClearRow, Steps
<1>17. ASSUME NEW c \in Clients, FindUser(c) PROVE EmailTypeOK'
  <2>1. Cardinality(Creating) + 1 \in Nat /\ peakNew \in Nat
    BY EmailSets
  <2>2. Larger(Cardinality(Creating) + 1, peakNew) \in Nat
    BY <2>1, LargerType
  <2>3. peakNew' \in Nat
    BY <1>17, <2>2 DEF FindUser
  <2>4. account' \in [Clients -> Accounts \cup {NoAccount}]
    BY <1>17 DEF FindUser
  <2>5. does' \in [Clients -> EmailStage]
    BY <1>17 DEF FindUser
  <2>6. QED
    BY <1>17, <2>3, <2>4, <2>5 DEF FindUser
<1>18. ASSUME NEW c \in Clients, AddIdentity(c) PROVE EmailTypeOK'
  BY <1>18 DEF AddIdentity, Done
<1>19. ASSUME NEW c \in Clients, FindIdentity(c) PROVE EmailTypeOK'
  BY <1>19 DEF FindIdentity, Steps
<1>20. ASSUME NEW c \in Clients, OpenSession(c) PROVE EmailTypeOK'
  BY <1>20, DoneTypes DEF OpenSession
<1>21. ASSUME NEW c \in Clients, NEW a \in Accounts, NewUser(c, a)
     PROVE  EmailTypeOK'
  BY <1>21 DEF NewUser, Steps
<1>22. ASSUME NEW c \in Clients, Crash(c) PROVE EmailTypeOK'
  <2>1. errors' \in Nat
    BY <1>22, ErrorType DEF Crash
  <2>2. lost' \subseteq Buckets
    BY <1>22 DEF Crash
  <2>3. QED
    BY <1>22, <2>1, <2>2, DoneTypes DEF Crash
<1>23. ASSUME NEW a \in Accounts, OAuthUser(a) PROVE EmailTypeOK'
  BY <1>23 DEF OAuthUser
<1>24. ASSUME NEW b \in Buckets, WindowEnds(b) PROVE EmailTypeOK'
  BY <1>24 DEF WindowEnds
<1>25. ASSUME NEW v \in Otps, LockEnds(v) PROVE EmailTypeOK'
  <2>1. otp' \in [Otps -> Otp \cup {NoOtp}]
    BY <1>25, RowTypes DEF LockEnds, Rows
  <2>2. QED
    BY <1>25, <2>1 DEF LockEnds
<1>26. ASSUME NEW v \in Otps, CodeExpires(v) PROVE EmailTypeOK'
  <2>1. otp' \in [Otps -> Otp \cup {NoOtp}]
    BY <1>26, RowTypes DEF CodeExpires, Rows
  <2>2. QED
    BY <1>26, <2>1 DEF CodeExpires
<1>27. ASSUME NEW k \in Codes, LinkExpires(k) PROVE EmailTypeOK'
  BY <1>27 DEF LinkExpires
<1>28. CASE UNCHANGED emailVars
  BY <1>28 DEF emailVars, requestVars, dbVars, redisVars, useHistory,
     limitHistory, accountHistory
<1> HIDE DEF EmailTypeOK
<1>29. QED
  BY <1>1, <1>2, <1>3, <1>4, <1>5, <1>6, <1>7, <1>8, <1>9, <1>10, <1>11, <1>12,
     <1>13, <1>14, <1>15, <1>16, <1>17, <1>18, <1>19, <1>20, <1>21, <1>22,
     <1>23, <1>24, <1>25, <1>26, <1>27, <1>28
     DEF EmailNext

(* Requests stay linked.                                                    *)
LEMMA LinkedStep ==
    ASSUME EmailTypeOK, RequestsLinked, CodesUnspent, [EmailNext]_emailVars
    PROVE  RequestsLinked'
<1> USE EmailAssumption
        DEF EmailTypeOK, EmailStage, Otp, RequestsLinked, Sending,
        requestVars, dbVars, redisVars, useHistory, limitHistory,
        accountHistory
<1>1. ASSUME NEW c \in Clients, Start(c) PROVE RequestsLinked'
  BY <1>1 DEF Start, Enter, Steps
<1>2. ASSUME NEW c \in Clients, CheckLimit(c) PROVE RequestsLinked'
  BY <1>2 DEF CheckLimit, Increment, IsFirst, Let, Done, AfterLimit
<1>3. ASSUME NEW c \in Clients, SetExpiry(c) PROVE RequestsLinked'
  BY <1>3 DEF SetExpiry, Let, Done, AfterLimit
<1>4. ASSUME NEW c \in Clients, LimitError(c) PROVE RequestsLinked'
  BY <1>4 DEF LimitError, Error, AfterLimit
<1>5. ASSUME NEW c \in Clients, NEW guess \in Codes \cup {WrongCode},
            Verify(c, guess)
     PROVE  RequestsLinked'
  BY <1>5 DEF Verify, Enter, Steps
<1>6. ASSUME NEW c \in Clients, NEW k \in Codes, Click(c, k)
     PROVE  RequestsLinked'
  BY <1>6 DEF Click, Enter, Steps
<1>7. ASSUME NEW c \in Clients, ReadStart(c) PROVE RequestsLinked'
  BY <1>7 DEF ReadStart, Refuses, Done
<1>8. ASSUME NEW c \in Clients, StoreLink(c) PROVE RequestsLinked'
  BY <1>8 DEF StoreLink, Steps, Error
<1>9. ASSUME NEW c \in Clients, SendMail(c) PROVE RequestsLinked'
  BY <1>9 DEF SendMail, Done
<1>10. ASSUME NEW c \in Clients, NEW k \in Codes, NEW v \in Otps,
            SaveCode(c, k, v)
     PROVE  RequestsLinked'
  BY <1>10 DEF SaveCode
<1>11. ASSUME NEW c \in Clients, ReadVerify(c) PROVE RequestsLinked'
  <2>1. \A v \in Rows : otp[v].code \in Codes
    BY RowTypes DEF Rows
  <2>2. does'[c] = "right" => code[c] \in Codes
    BY <1>11, <2>1 DEF ReadVerify, Done
  <2>3. /\ does'[c] \in {"idle", "right", "wrong"}
        /\ \A x \in Clients \ {c} : /\ does'[x] = does[x]
                                    /\ code'[x] = code[x]
                                    /\ account'[x] = account[x]
        /\ code'[c] \in {code[c], NoCode}
        /\ does'[c] # "idle" => code'[c] = code[c]
        /\ UNCHANGED <<mailed, fresh>>
    BY <1>11 DEF ReadVerify, Done
  <2>4. NoCode \notin fresh
    OBVIOUS
  <2>5. QED
    BY <2>2, <2>3, <2>4
<1>12. ASSUME NEW c \in Clients, UseLink(c) PROVE RequestsLinked'
  BY <1>12 DEF UseLink, TakeLink, Done
<1>13. ASSUME NEW c \in Clients, ReadClick(c) PROVE RequestsLinked'
  BY <1>13 DEF ReadClick
<1>14. ASSUME NEW c \in Clients, NEW v \in Otps, CountAttempt(c, v)
     PROVE  RequestsLinked'
  BY <1>14 DEF CountAttempt
<1>15. ASSUME NEW c \in Clients, NEW v \in Otps, UseCode(c, v)
     PROVE  RequestsLinked'
  BY <1>15 DEF UseCode, Steps, DeleteRow
<1>16. ASSUME NEW c \in Clients, NEW v \in Otps, ClearRow(c, v)
     PROVE  RequestsLinked'
  BY <1>16 DEF ClearRow, Steps
<1>17. ASSUME NEW c \in Clients, FindUser(c) PROVE RequestsLinked'
  BY <1>17 DEF FindUser, Unknown
<1>18. ASSUME NEW c \in Clients, AddIdentity(c) PROVE RequestsLinked'
  BY <1>18 DEF AddIdentity, Done
<1>19. ASSUME NEW c \in Clients, FindIdentity(c) PROVE RequestsLinked'
  BY <1>19 DEF FindIdentity, Steps
<1>20. ASSUME NEW c \in Clients, OpenSession(c) PROVE RequestsLinked'
  BY <1>20 DEF OpenSession, Done
<1>21. ASSUME NEW c \in Clients, NEW a \in Accounts, NewUser(c, a)
     PROVE  RequestsLinked'
  BY <1>21 DEF NewUser, Steps
<1>22. ASSUME NEW c \in Clients, Crash(c) PROVE RequestsLinked'
  BY <1>22 DEF Crash, Error, Done
<1>23. ASSUME NEW a \in Accounts, OAuthUser(a) PROVE RequestsLinked'
  BY <1>23 DEF OAuthUser
<1>24. ASSUME NEW b \in Buckets, WindowEnds(b) PROVE RequestsLinked'
  BY <1>24 DEF WindowEnds
<1>25. ASSUME NEW v \in Otps, LockEnds(v) PROVE RequestsLinked'
  BY <1>25 DEF LockEnds
<1>26. ASSUME NEW v \in Otps, CodeExpires(v) PROVE RequestsLinked'
  BY <1>26 DEF CodeExpires
<1>27. ASSUME NEW k \in Codes, LinkExpires(k) PROVE RequestsLinked'
  BY <1>27 DEF LinkExpires
<1>28. CASE UNCHANGED emailVars
  BY <1>28 DEF emailVars, requestVars, dbVars, redisVars, useHistory,
     limitHistory, accountHistory
<1> HIDE DEF EmailTypeOK, RequestsLinked
<1>29. QED
  BY <1>1, <1>2, <1>3, <1>4, <1>5, <1>6, <1>7, <1>8, <1>9, <1>10, <1>11, <1>12,
     <1>13, <1>14, <1>15, <1>16, <1>17, <1>18, <1>19, <1>20, <1>21, <1>22,
     <1>23, <1>24, <1>25, <1>26, <1>27, <1>28
     DEF EmailNext

(* Links stay unspent.                                                      *)
LEMMA LinksStep ==
    ASSUME EmailTypeOK, RequestsLinked, LinksUnspent, [EmailNext]_emailVars
    PROVE  LinksUnspent'
<1> USE EmailAssumption
        DEF EmailTypeOK, RequestsLinked, LinksUnspent, Sending,
        requestVars, dbVars, redisVars, useHistory, limitHistory,
        accountHistory
<1>1. ASSUME NEW c \in Clients, Start(c) PROVE LinksUnspent'
  BY <1>1 DEF Start, Enter, Steps
<1>2. ASSUME NEW c \in Clients, CheckLimit(c) PROVE LinksUnspent'
  BY <1>2 DEF CheckLimit, Increment, IsFirst, Let, Done, AfterLimit
<1>3. ASSUME NEW c \in Clients, SetExpiry(c) PROVE LinksUnspent'
  BY <1>3 DEF SetExpiry, Let, Done, AfterLimit
<1>4. ASSUME NEW c \in Clients, LimitError(c) PROVE LinksUnspent'
  BY <1>4 DEF LimitError, Error, AfterLimit
<1>5. ASSUME NEW c \in Clients, NEW guess \in Codes \cup {WrongCode},
            Verify(c, guess)
     PROVE  LinksUnspent'
  BY <1>5 DEF Verify, Enter, Steps
<1>6. ASSUME NEW c \in Clients, NEW k \in Codes, Click(c, k)
     PROVE  LinksUnspent'
  BY <1>6 DEF Click, Enter, Steps
<1>7. ASSUME NEW c \in Clients, ReadStart(c) PROVE LinksUnspent'
  BY <1>7 DEF ReadStart, Refuses, Done
<1>8. ASSUME NEW c \in Clients, StoreLink(c) PROVE LinksUnspent'
  BY <1>8 DEF StoreLink, Steps, Error
<1>9. ASSUME NEW c \in Clients, SendMail(c) PROVE LinksUnspent'
  BY <1>9 DEF SendMail, Done
<1>10. ASSUME NEW c \in Clients, NEW k \in Codes, NEW v \in Otps,
            SaveCode(c, k, v)
     PROVE  LinksUnspent'
  BY <1>10 DEF SaveCode
<1>11. ASSUME NEW c \in Clients, ReadVerify(c) PROVE LinksUnspent'
  BY <1>11 DEF ReadVerify, Done
<1>12. ASSUME NEW c \in Clients, UseLink(c) PROVE LinksUnspent'
  BY <1>12 DEF UseLink, TakeLink, Done
<1>13. ASSUME NEW c \in Clients, ReadClick(c) PROVE LinksUnspent'
  BY <1>13 DEF ReadClick
<1>14. ASSUME NEW c \in Clients, NEW v \in Otps, CountAttempt(c, v)
     PROVE  LinksUnspent'
  BY <1>14 DEF CountAttempt
<1>15. ASSUME NEW c \in Clients, NEW v \in Otps, UseCode(c, v)
     PROVE  LinksUnspent'
  BY <1>15 DEF UseCode, Steps, DeleteRow
<1>16. ASSUME NEW c \in Clients, NEW v \in Otps, ClearRow(c, v)
     PROVE  LinksUnspent'
  BY <1>16 DEF ClearRow, Steps
<1>17. ASSUME NEW c \in Clients, FindUser(c) PROVE LinksUnspent'
  BY <1>17 DEF FindUser, Unknown
<1>18. ASSUME NEW c \in Clients, AddIdentity(c) PROVE LinksUnspent'
  BY <1>18 DEF AddIdentity, Done
<1>19. ASSUME NEW c \in Clients, FindIdentity(c) PROVE LinksUnspent'
  BY <1>19 DEF FindIdentity, Steps
<1>20. ASSUME NEW c \in Clients, OpenSession(c) PROVE LinksUnspent'
  BY <1>20 DEF OpenSession, Done
<1>21. ASSUME NEW c \in Clients, NEW a \in Accounts, NewUser(c, a)
     PROVE  LinksUnspent'
  BY <1>21 DEF NewUser, Steps
<1>22. ASSUME NEW c \in Clients, Crash(c) PROVE LinksUnspent'
  BY <1>22 DEF Crash, Error, Done
<1>23. ASSUME NEW a \in Accounts, OAuthUser(a) PROVE LinksUnspent'
  BY <1>23 DEF OAuthUser
<1>24. ASSUME NEW b \in Buckets, WindowEnds(b) PROVE LinksUnspent'
  BY <1>24 DEF WindowEnds
<1>25. ASSUME NEW v \in Otps, LockEnds(v) PROVE LinksUnspent'
  BY <1>25 DEF LockEnds
<1>26. ASSUME NEW v \in Otps, CodeExpires(v) PROVE LinksUnspent'
  BY <1>26 DEF CodeExpires
<1>27. ASSUME NEW k \in Codes, LinkExpires(k) PROVE LinksUnspent'
  BY <1>27 DEF LinkExpires
<1>28. CASE UNCHANGED emailVars
  BY <1>28 DEF emailVars, requestVars, dbVars, redisVars, useHistory,
     limitHistory, accountHistory
<1> HIDE DEF EmailTypeOK, RequestsLinked, LinksUnspent
<1>29. QED
  BY <1>1, <1>2, <1>3, <1>4, <1>5, <1>6, <1>7, <1>8, <1>9, <1>10, <1>11, <1>12,
     <1>13, <1>14, <1>15, <1>16, <1>17, <1>18, <1>19, <1>20, <1>21, <1>22,
     <1>23, <1>24, <1>25, <1>26, <1>27, <1>28
     DEF EmailNext

(* Codes stay unspent.                                                      *)
LEMMA CodesStep ==
    ASSUME EmailTypeOK, RequestsLinked, CodesUnspent, [EmailNext]_emailVars
    PROVE  CodesUnspent'
<1> USE EmailAssumption
        DEF EmailTypeOK, Otp, RequestsLinked, CodesUnspent, Rows,
        requestVars, dbVars, redisVars, useHistory, limitHistory,
        accountHistory
<1>1. ASSUME NEW c \in Clients, Start(c) PROVE CodesUnspent'
  BY <1>1 DEF Start, Enter, Steps
<1>2. ASSUME NEW c \in Clients, CheckLimit(c) PROVE CodesUnspent'
  BY <1>2 DEF CheckLimit, Increment, IsFirst, Let, Done, AfterLimit
<1>3. ASSUME NEW c \in Clients, SetExpiry(c) PROVE CodesUnspent'
  BY <1>3 DEF SetExpiry, Let, Done, AfterLimit
<1>4. ASSUME NEW c \in Clients, LimitError(c) PROVE CodesUnspent'
  BY <1>4 DEF LimitError, Error, AfterLimit
<1>5. ASSUME NEW c \in Clients, NEW guess \in Codes \cup {WrongCode},
            Verify(c, guess)
     PROVE  CodesUnspent'
  BY <1>5 DEF Verify, Enter, Steps
<1>6. ASSUME NEW c \in Clients, NEW k \in Codes, Click(c, k)
     PROVE  CodesUnspent'
  BY <1>6 DEF Click, Enter, Steps
<1>7. ASSUME NEW c \in Clients, ReadStart(c) PROVE CodesUnspent'
  BY <1>7 DEF ReadStart, Refuses, Done
<1>8. ASSUME NEW c \in Clients, StoreLink(c) PROVE CodesUnspent'
  BY <1>8 DEF StoreLink, Steps, Error
<1>9. ASSUME NEW c \in Clients, SendMail(c) PROVE CodesUnspent'
  BY <1>9 DEF SendMail, Done
<1>10. ASSUME NEW c \in Clients, NEW k \in Codes, NEW v \in Otps,
            SaveCode(c, k, v)
     PROVE  CodesUnspent'
  BY <1>10 DEF SaveCode
<1>11. ASSUME NEW c \in Clients, ReadVerify(c) PROVE CodesUnspent'
  BY <1>11 DEF ReadVerify, Done
<1>12. ASSUME NEW c \in Clients, UseLink(c) PROVE CodesUnspent'
  BY <1>12 DEF UseLink, TakeLink, Done
<1>13. ASSUME NEW c \in Clients, ReadClick(c) PROVE CodesUnspent'
  BY <1>13 DEF ReadClick
<1>14. ASSUME NEW c \in Clients, NEW v \in Otps, CountAttempt(c, v)
     PROVE  CodesUnspent'
  BY <1>14 DEF CountAttempt
<1>15. ASSUME NEW c \in Clients, NEW v \in Otps, UseCode(c, v)
     PROVE  CodesUnspent'
  BY <1>15 DEF UseCode, Steps, DeleteRow
<1>16. ASSUME NEW c \in Clients, NEW v \in Otps, ClearRow(c, v)
     PROVE  CodesUnspent'
  BY <1>16 DEF ClearRow, Steps
<1>17. ASSUME NEW c \in Clients, FindUser(c) PROVE CodesUnspent'
  BY <1>17 DEF FindUser, Unknown
<1>18. ASSUME NEW c \in Clients, AddIdentity(c) PROVE CodesUnspent'
  BY <1>18 DEF AddIdentity, Done
<1>19. ASSUME NEW c \in Clients, FindIdentity(c) PROVE CodesUnspent'
  BY <1>19 DEF FindIdentity, Steps
<1>20. ASSUME NEW c \in Clients, OpenSession(c) PROVE CodesUnspent'
  BY <1>20 DEF OpenSession, Done
<1>21. ASSUME NEW c \in Clients, NEW a \in Accounts, NewUser(c, a)
     PROVE  CodesUnspent'
  BY <1>21 DEF NewUser, Steps
<1>22. ASSUME NEW c \in Clients, Crash(c) PROVE CodesUnspent'
  BY <1>22 DEF Crash, Error, Done
<1>23. ASSUME NEW a \in Accounts, OAuthUser(a) PROVE CodesUnspent'
  BY <1>23 DEF OAuthUser
<1>24. ASSUME NEW b \in Buckets, WindowEnds(b) PROVE CodesUnspent'
  BY <1>24 DEF WindowEnds
<1>25. ASSUME NEW v \in Otps, LockEnds(v) PROVE CodesUnspent'
  BY <1>25 DEF LockEnds
<1>26. ASSUME NEW v \in Otps, CodeExpires(v) PROVE CodesUnspent'
  BY <1>26 DEF CodeExpires
<1>27. ASSUME NEW k \in Codes, LinkExpires(k) PROVE CodesUnspent'
  BY <1>27 DEF LinkExpires
<1>28. CASE UNCHANGED emailVars
  BY <1>28 DEF emailVars, requestVars, dbVars, redisVars, useHistory,
     limitHistory, accountHistory
<1> HIDE DEF EmailTypeOK, RequestsLinked, CodesUnspent
<1>29. QED
  BY <1>1, <1>2, <1>3, <1>4, <1>5, <1>6, <1>7, <1>8, <1>9, <1>10, <1>11, <1>12,
     <1>13, <1>14, <1>15, <1>16, <1>17, <1>18, <1>19, <1>20, <1>21, <1>22,
     <1>23, <1>24, <1>25, <1>26, <1>27, <1>28
     DEF EmailNext

(* Windows let no more through than they may.                               *)
LEMMA WindowsStep ==
    ASSUME EmailTypeOK, WindowsCounted, [EmailNext]_emailVars
    PROVE  WindowsCounted'
<1> USE EmailAssumption
        DEF EmailTypeOK, WindowsCounted,
        requestVars, dbVars, redisVars, useHistory, limitHistory,
        accountHistory
<1>1. ASSUME NEW c \in Clients, Start(c) PROVE WindowsCounted'
  BY <1>1 DEF Start, Enter, Steps
<1>2. ASSUME NEW c \in Clients, CheckLimit(c) PROVE WindowsCounted'
  BY <1>2 DEF CheckLimit, Increment, IsFirst, Let, Done, AfterLimit
<1>3. ASSUME NEW c \in Clients, SetExpiry(c) PROVE WindowsCounted'
  BY <1>3 DEF SetExpiry, Let, Done, AfterLimit
<1>4. ASSUME NEW c \in Clients, LimitError(c) PROVE WindowsCounted'
  BY <1>4 DEF LimitError, Error, AfterLimit
<1>5. ASSUME NEW c \in Clients, NEW guess \in Codes \cup {WrongCode},
            Verify(c, guess)
     PROVE  WindowsCounted'
  BY <1>5 DEF Verify, Enter, Steps
<1>6. ASSUME NEW c \in Clients, NEW k \in Codes, Click(c, k)
     PROVE  WindowsCounted'
  BY <1>6 DEF Click, Enter, Steps
<1>7. ASSUME NEW c \in Clients, ReadStart(c) PROVE WindowsCounted'
  BY <1>7 DEF ReadStart, Refuses, Done
<1>8. ASSUME NEW c \in Clients, StoreLink(c) PROVE WindowsCounted'
  BY <1>8 DEF StoreLink, Steps, Error
<1>9. ASSUME NEW c \in Clients, SendMail(c) PROVE WindowsCounted'
  BY <1>9 DEF SendMail, Done
<1>10. ASSUME NEW c \in Clients, NEW k \in Codes, NEW v \in Otps,
            SaveCode(c, k, v)
     PROVE  WindowsCounted'
  BY <1>10 DEF SaveCode
<1>11. ASSUME NEW c \in Clients, ReadVerify(c) PROVE WindowsCounted'
  BY <1>11 DEF ReadVerify, Done
<1>12. ASSUME NEW c \in Clients, UseLink(c) PROVE WindowsCounted'
  BY <1>12 DEF UseLink, TakeLink, Done
<1>13. ASSUME NEW c \in Clients, ReadClick(c) PROVE WindowsCounted'
  BY <1>13 DEF ReadClick
<1>14. ASSUME NEW c \in Clients, NEW v \in Otps, CountAttempt(c, v)
     PROVE  WindowsCounted'
  BY <1>14 DEF CountAttempt
<1>15. ASSUME NEW c \in Clients, NEW v \in Otps, UseCode(c, v)
     PROVE  WindowsCounted'
  BY <1>15 DEF UseCode, Steps, DeleteRow
<1>16. ASSUME NEW c \in Clients, NEW v \in Otps, ClearRow(c, v)
     PROVE  WindowsCounted'
  BY <1>16 DEF ClearRow, Steps
<1>17. ASSUME NEW c \in Clients, FindUser(c) PROVE WindowsCounted'
  BY <1>17 DEF FindUser, Unknown
<1>18. ASSUME NEW c \in Clients, AddIdentity(c) PROVE WindowsCounted'
  BY <1>18 DEF AddIdentity, Done
<1>19. ASSUME NEW c \in Clients, FindIdentity(c) PROVE WindowsCounted'
  BY <1>19 DEF FindIdentity, Steps
<1>20. ASSUME NEW c \in Clients, OpenSession(c) PROVE WindowsCounted'
  BY <1>20 DEF OpenSession, Done
<1>21. ASSUME NEW c \in Clients, NEW a \in Accounts, NewUser(c, a)
     PROVE  WindowsCounted'
  BY <1>21 DEF NewUser, Steps
<1>22. ASSUME NEW c \in Clients, Crash(c) PROVE WindowsCounted'
  BY <1>22 DEF Crash, Error, Done
<1>23. ASSUME NEW a \in Accounts, OAuthUser(a) PROVE WindowsCounted'
  BY <1>23 DEF OAuthUser
<1>24. ASSUME NEW b \in Buckets, WindowEnds(b) PROVE WindowsCounted'
  BY <1>24 DEF WindowEnds
<1>25. ASSUME NEW v \in Otps, LockEnds(v) PROVE WindowsCounted'
  BY <1>25 DEF LockEnds
<1>26. ASSUME NEW v \in Otps, CodeExpires(v) PROVE WindowsCounted'
  BY <1>26 DEF CodeExpires
<1>27. ASSUME NEW k \in Codes, LinkExpires(k) PROVE WindowsCounted'
  BY <1>27 DEF LinkExpires
<1>28. CASE UNCHANGED emailVars
  BY <1>28 DEF emailVars, requestVars, dbVars, redisVars, useHistory,
     limitHistory, accountHistory
<1> HIDE DEF EmailTypeOK, WindowsCounted
<1>29. QED
  BY <1>1, <1>2, <1>3, <1>4, <1>5, <1>6, <1>7, <1>8, <1>9, <1>10, <1>11, <1>12,
     <1>13, <1>14, <1>15, <1>16, <1>17, <1>18, <1>19, <1>20, <1>21, <1>22,
     <1>23, <1>24, <1>25, <1>26, <1>27, <1>28
     DEF EmailNext

(* Counters keep their end.                                                 *)
LEMMA CountersStep ==
    ASSUME EmailTypeOK, WindowsCounted, CounterEnds,
           [EmailNext]_emailVars
    PROVE  CounterEnds'
<1> USE EmailAssumption
        DEF EmailTypeOK, WindowsCounted, CounterEnds,
        requestVars, dbVars, redisVars, useHistory, limitHistory,
        accountHistory
<1>1. ASSUME NEW c \in Clients, Start(c) PROVE CounterEnds'
  BY <1>1 DEF Start, Enter, Steps
<1>2. ASSUME NEW c \in Clients, CheckLimit(c) PROVE CounterEnds'
  BY <1>2 DEF CheckLimit, Increment, IsFirst, Let, Done, AfterLimit
<1>3. ASSUME NEW c \in Clients, SetExpiry(c) PROVE CounterEnds'
  BY <1>3 DEF SetExpiry, Let, Done, AfterLimit
<1>4. ASSUME NEW c \in Clients, LimitError(c) PROVE CounterEnds'
  BY <1>4 DEF LimitError, Error, AfterLimit
<1>5. ASSUME NEW c \in Clients, NEW guess \in Codes \cup {WrongCode},
            Verify(c, guess)
     PROVE  CounterEnds'
  BY <1>5 DEF Verify, Enter, Steps
<1>6. ASSUME NEW c \in Clients, NEW k \in Codes, Click(c, k) PROVE CounterEnds'
  BY <1>6 DEF Click, Enter, Steps
<1>7. ASSUME NEW c \in Clients, ReadStart(c) PROVE CounterEnds'
  BY <1>7 DEF ReadStart, Refuses, Done
<1>8. ASSUME NEW c \in Clients, StoreLink(c) PROVE CounterEnds'
  BY <1>8 DEF StoreLink, Steps, Error
<1>9. ASSUME NEW c \in Clients, SendMail(c) PROVE CounterEnds'
  BY <1>9 DEF SendMail, Done
<1>10. ASSUME NEW c \in Clients, NEW k \in Codes, NEW v \in Otps,
            SaveCode(c, k, v)
     PROVE  CounterEnds'
  BY <1>10 DEF SaveCode
<1>11. ASSUME NEW c \in Clients, ReadVerify(c) PROVE CounterEnds'
  BY <1>11 DEF ReadVerify, Done
<1>12. ASSUME NEW c \in Clients, UseLink(c) PROVE CounterEnds'
  BY <1>12 DEF UseLink, TakeLink, Done
<1>13. ASSUME NEW c \in Clients, ReadClick(c) PROVE CounterEnds'
  BY <1>13 DEF ReadClick
<1>14. ASSUME NEW c \in Clients, NEW v \in Otps, CountAttempt(c, v)
     PROVE  CounterEnds'
  BY <1>14 DEF CountAttempt
<1>15. ASSUME NEW c \in Clients, NEW v \in Otps, UseCode(c, v)
     PROVE  CounterEnds'
  BY <1>15 DEF UseCode, Steps, DeleteRow
<1>16. ASSUME NEW c \in Clients, NEW v \in Otps, ClearRow(c, v)
     PROVE  CounterEnds'
  BY <1>16 DEF ClearRow, Steps
<1>17. ASSUME NEW c \in Clients, FindUser(c) PROVE CounterEnds'
  BY <1>17 DEF FindUser, Unknown
<1>18. ASSUME NEW c \in Clients, AddIdentity(c) PROVE CounterEnds'
  BY <1>18 DEF AddIdentity, Done
<1>19. ASSUME NEW c \in Clients, FindIdentity(c) PROVE CounterEnds'
  BY <1>19 DEF FindIdentity, Steps
<1>20. ASSUME NEW c \in Clients, OpenSession(c) PROVE CounterEnds'
  BY <1>20 DEF OpenSession, Done
<1>21. ASSUME NEW c \in Clients, NEW a \in Accounts, NewUser(c, a)
     PROVE  CounterEnds'
  BY <1>21 DEF NewUser, Steps
<1>22. ASSUME NEW c \in Clients, Crash(c) PROVE CounterEnds'
  BY <1>22 DEF Crash, Error, Done
<1>23. ASSUME NEW a \in Accounts, OAuthUser(a) PROVE CounterEnds'
  BY <1>23 DEF OAuthUser
<1>24. ASSUME NEW b \in Buckets, WindowEnds(b) PROVE CounterEnds'
  BY <1>24 DEF WindowEnds
<1>25. ASSUME NEW v \in Otps, LockEnds(v) PROVE CounterEnds'
  BY <1>25 DEF LockEnds
<1>26. ASSUME NEW v \in Otps, CodeExpires(v) PROVE CounterEnds'
  BY <1>26 DEF CodeExpires
<1>27. ASSUME NEW k \in Codes, LinkExpires(k) PROVE CounterEnds'
  BY <1>27 DEF LinkExpires
<1>28. CASE UNCHANGED emailVars
  BY <1>28 DEF emailVars, requestVars, dbVars, redisVars, useHistory,
     limitHistory, accountHistory
<1> HIDE DEF EmailTypeOK, WindowsCounted, CounterEnds
<1>29. QED
  BY <1>1, <1>2, <1>3, <1>4, <1>5, <1>6, <1>7, <1>8, <1>9, <1>10, <1>11, <1>12,
     <1>13, <1>14, <1>15, <1>16, <1>17, <1>18, <1>19, <1>20, <1>21, <1>22,
     <1>23, <1>24, <1>25, <1>26, <1>27, <1>28
     DEF EmailNext

(* A locked row is written by those whom the lock overtook.                 *)
LEMMA LocksStep ==
    ASSUME EmailTypeOK, LocksOvertaken, [EmailNext]_emailVars
    PROVE  LocksOvertaken'
<1> USE EmailAssumption
        DEF EmailTypeOK, Otp, Rows, LocksOvertaken,
        requestVars, dbVars, redisVars, useHistory, limitHistory,
        accountHistory
<1>1. ASSUME NEW c \in Clients, Start(c) PROVE LocksOvertaken'
  BY <1>1 DEF Start, Enter, Steps
<1>2. ASSUME NEW c \in Clients, CheckLimit(c) PROVE LocksOvertaken'
  BY <1>2 DEF CheckLimit, Increment, IsFirst, Let, Done, AfterLimit
<1>3. ASSUME NEW c \in Clients, SetExpiry(c) PROVE LocksOvertaken'
  BY <1>3 DEF SetExpiry, Let, Done, AfterLimit
<1>4. ASSUME NEW c \in Clients, LimitError(c) PROVE LocksOvertaken'
  BY <1>4 DEF LimitError, Error, AfterLimit
<1>5. ASSUME NEW c \in Clients, NEW guess \in Codes \cup {WrongCode},
            Verify(c, guess)
     PROVE  LocksOvertaken'
  BY <1>5 DEF Verify, Enter, Steps
<1>6. ASSUME NEW c \in Clients, NEW k \in Codes, Click(c, k)
     PROVE  LocksOvertaken'
  BY <1>6 DEF Click, Enter, Steps
<1>7. ASSUME NEW c \in Clients, ReadStart(c) PROVE LocksOvertaken'
  BY <1>7 DEF ReadStart, Refuses, Done
<1>8. ASSUME NEW c \in Clients, StoreLink(c) PROVE LocksOvertaken'
  BY <1>8 DEF StoreLink, Steps, Error
<1>9. ASSUME NEW c \in Clients, SendMail(c) PROVE LocksOvertaken'
  BY <1>9 DEF SendMail, Done
<1>10. ASSUME NEW c \in Clients, NEW k \in Codes, NEW v \in Otps,
            SaveCode(c, k, v)
     PROVE  LocksOvertaken'
  BY <1>10 DEF SaveCode
<1>11. ASSUME NEW c \in Clients, ReadVerify(c) PROVE LocksOvertaken'
  BY <1>11 DEF ReadVerify, Done
<1>12. ASSUME NEW c \in Clients, UseLink(c) PROVE LocksOvertaken'
  BY <1>12 DEF UseLink, TakeLink, Done
<1>13. ASSUME NEW c \in Clients, ReadClick(c) PROVE LocksOvertaken'
  BY <1>13 DEF ReadClick
<1>14. ASSUME NEW c \in Clients, NEW v \in Otps, CountAttempt(c, v)
     PROVE  LocksOvertaken'
  BY <1>14 DEF CountAttempt
<1>15. ASSUME NEW c \in Clients, NEW v \in Otps, UseCode(c, v)
     PROVE  LocksOvertaken'
  BY <1>15 DEF UseCode, Steps, DeleteRow
<1>16. ASSUME NEW c \in Clients, NEW v \in Otps, ClearRow(c, v)
     PROVE  LocksOvertaken'
  BY <1>16 DEF ClearRow, Steps
<1>17. ASSUME NEW c \in Clients, FindUser(c) PROVE LocksOvertaken'
  BY <1>17 DEF FindUser, Unknown
<1>18. ASSUME NEW c \in Clients, AddIdentity(c) PROVE LocksOvertaken'
  BY <1>18 DEF AddIdentity, Done
<1>19. ASSUME NEW c \in Clients, FindIdentity(c) PROVE LocksOvertaken'
  BY <1>19 DEF FindIdentity, Steps
<1>20. ASSUME NEW c \in Clients, OpenSession(c) PROVE LocksOvertaken'
  BY <1>20 DEF OpenSession, Done
<1>21. ASSUME NEW c \in Clients, NEW a \in Accounts, NewUser(c, a)
     PROVE  LocksOvertaken'
  BY <1>21 DEF NewUser, Steps
<1>22. ASSUME NEW c \in Clients, Crash(c) PROVE LocksOvertaken'
  BY <1>22 DEF Crash, Error, Done
<1>23. ASSUME NEW a \in Accounts, OAuthUser(a) PROVE LocksOvertaken'
  BY <1>23 DEF OAuthUser
<1>24. ASSUME NEW b \in Buckets, WindowEnds(b) PROVE LocksOvertaken'
  BY <1>24 DEF WindowEnds
<1>25. ASSUME NEW v \in Otps, LockEnds(v) PROVE LocksOvertaken'
  BY <1>25 DEF LockEnds
<1>26. ASSUME NEW v \in Otps, CodeExpires(v) PROVE LocksOvertaken'
  BY <1>26 DEF CodeExpires
<1>27. ASSUME NEW k \in Codes, LinkExpires(k) PROVE LocksOvertaken'
  BY <1>27 DEF LinkExpires
<1>28. CASE UNCHANGED emailVars
  BY <1>28 DEF emailVars, requestVars, dbVars, redisVars, useHistory,
     limitHistory, accountHistory
<1> HIDE DEF EmailTypeOK, LocksOvertaken
<1>29. QED
  BY <1>1, <1>2, <1>3, <1>4, <1>5, <1>6, <1>7, <1>8, <1>9, <1>10, <1>11, <1>12,
     <1>13, <1>14, <1>15, <1>16, <1>17, <1>18, <1>19, <1>20, <1>21, <1>22,
     <1>23, <1>24, <1>25, <1>26, <1>27, <1>28
     DEF EmailNext

(* No request more that holds a code: the bound stays.                     *)
LEMMA HoldersFall ==
    ASSUME EmailTypeOK, EmailTypeOK', CodesCounted, UNCHANGED <<uses, peakUse>>,
           \A j \in Codes : Holding(j)' \subseteq Holding(j)
    PROVE  CodesCounted'
<1> SUFFICES ASSUME NEW j \in Codes
             PROVE  uses'[j] + Cardinality(Holding(j)') <= peakUse'
  BY DEF CodesCounted
<1>1. uses[j] + Cardinality(Holding(j)) <= peakUse
  BY DEF CodesCounted
<1>2. Cardinality(Holding(j)') <= Cardinality(Holding(j))
  BY EmailSets, FS_Subset
<1>3. uses[j] \in Nat /\ peakUse \in Nat
  BY DEF EmailTypeOK
<1>4. QED
  BY <1>1, <1>2, <1>3, EmailSets, EmailSetsNext

(* No sign-up more that is about to make an account.                       *)
LEMMA CreatorsFall ==
    ASSUME EmailTypeOK, EmailTypeOK', AccountsCounted,
           UNCHANGED <<signedUp, peakNew>>, Creating' \subseteq Creating
    PROVE  AccountsCounted'
<1>1. Cardinality(Creating') <= Cardinality(Creating)
  BY EmailSets, FS_Subset
<1>2. peakNew \in Nat
  BY DEF EmailTypeOK
<1>3. QED
  BY <1>1, <1>2, EmailSets, EmailSetsNext DEF AccountsCounted

(* A code is accepted as often as it was held at most.                      *)
LEMMA CodesCountedStep ==
    ASSUME EmailTypeOK, EmailTypeOK', RequestsLinked, CodesUnspent,
           CodesCounted, [EmailNext]_emailVars
    PROVE  CodesCounted'
<1> USE DEF EmailTypeOK, requestVars, dbVars, redisVars, useHistory, limitHistory,
        accountHistory
<1>1. ASSUME NEW c \in Clients, Start(c) PROVE CodesCounted'
  <2>1. /\ \A j \in Codes : Holding(j)' \subseteq Holding(j)
        /\ UNCHANGED <<uses, peakUse>>
    BY <1>1 DEF Start, Enter, Steps, Holding
  <2>2. QED
    BY <2>1, HoldersFall
<1>2. ASSUME NEW c \in Clients, CheckLimit(c) PROVE CodesCounted'
  <2>1. /\ \A j \in Codes : Holding(j)' \subseteq Holding(j)
        /\ UNCHANGED <<uses, peakUse>>
    BY <1>2 DEF CheckLimit, Let, Done, AfterLimit, Holding
  <2>2. QED
    BY <2>1, HoldersFall
<1>3. ASSUME NEW c \in Clients, SetExpiry(c) PROVE CodesCounted'
  <2>1. /\ \A j \in Codes : Holding(j)' \subseteq Holding(j)
        /\ UNCHANGED <<uses, peakUse>>
    BY <1>3 DEF SetExpiry, Let, Done, AfterLimit, Holding
  <2>2. QED
    BY <2>1, HoldersFall
<1>4. ASSUME NEW c \in Clients, LimitError(c) PROVE CodesCounted'
  <2>1. /\ \A j \in Codes : Holding(j)' \subseteq Holding(j)
        /\ UNCHANGED <<uses, peakUse>>
    BY <1>4 DEF LimitError, AfterLimit, Holding
  <2>2. QED
    BY <2>1, HoldersFall
<1>5. ASSUME NEW c \in Clients, NEW guess \in Codes \cup {WrongCode},
            Verify(c, guess)
     PROVE  CodesCounted'
  <2>1. /\ \A j \in Codes : Holding(j)' \subseteq Holding(j)
        /\ UNCHANGED <<uses, peakUse>>
    BY <1>5 DEF Verify, Enter, Steps, Holding
  <2>2. QED
    BY <2>1, HoldersFall
<1>6. ASSUME NEW c \in Clients, NEW k \in Codes, Click(c, k)
     PROVE  CodesCounted'
  <2>1. /\ \A j \in Codes : Holding(j)' \subseteq Holding(j)
        /\ UNCHANGED <<uses, peakUse>>
    BY <1>6 DEF Click, Enter, Steps, Holding
  <2>2. QED
    BY <2>1, HoldersFall
<1>7. ASSUME NEW c \in Clients, ReadStart(c) PROVE CodesCounted'
  <2>1. /\ \A j \in Codes : Holding(j)' \subseteq Holding(j)
        /\ UNCHANGED <<uses, peakUse>>
    BY <1>7 DEF ReadStart, Done, Holding
  <2>2. QED
    BY <2>1, HoldersFall
<1>8. ASSUME NEW c \in Clients, StoreLink(c) PROVE CodesCounted'
  <2>1. /\ \A j \in Codes : Holding(j)' \subseteq Holding(j)
        /\ UNCHANGED <<uses, peakUse>>
    BY <1>8 DEF StoreLink, Steps, Holding
  <2>2. QED
    BY <2>1, HoldersFall
<1>9. ASSUME NEW c \in Clients, SendMail(c) PROVE CodesCounted'
  <2>1. /\ \A j \in Codes : Holding(j)' \subseteq Holding(j)
        /\ UNCHANGED <<uses, peakUse>>
    BY <1>9 DEF SendMail, Done, Holding
  <2>2. QED
    BY <2>1, HoldersFall
<1>10. ASSUME NEW c \in Clients, NEW k \in Codes, NEW v \in Otps,
            SaveCode(c, k, v)
     PROVE  CodesCounted'
  <2>1. /\ \A j \in Codes : Holding(j)' \subseteq Holding(j)
        /\ UNCHANGED <<uses, peakUse>>
    BY <1>10 DEF SaveCode, Holding
  <2>2. QED
    BY <2>1, HoldersFall
<1>11. ASSUME NEW c \in Clients, ReadVerify(c) PROVE CodesCounted'
  <2>1. CASE UNCHANGED peakUse /\ does'[c] # "right"
    <3>1. UNCHANGED uses
      BY <1>11 DEF ReadVerify
    <3>2. CASE Done(c)
      <4>1. \A j \in Codes : Holding(j)' \subseteq Holding(j)
        BY <3>2 DEF Done, Holding
      <4>2. QED
        BY <2>1, <3>1, <4>1, HoldersFall
    <3>3. CASE ~ Done(c)
      <4>1. PICK to \in EmailStage : does' = [does EXCEPT ![c] = to]
        BY <1>11, <3>3 DEF ReadVerify, EmailStage
      <4>2. to # "right" /\ code' = code
        BY <1>11, <2>1, <3>3, <4>1 DEF ReadVerify
      <4>3. \A j \in Codes : Holding(j)' \subseteq Holding(j)
        BY <4>1, <4>2 DEF Holding
      <4>4. QED
        BY <2>1, <3>1, <4>3, HoldersFall
    <3>4. QED
      BY <3>2, <3>3
  <2>2. CASE ~ (UNCHANGED peakUse /\ does'[c] # "right")
    <3>1. PICK v \in Rows :
             /\ code[c] = otp[v].code
             /\ does' = [does EXCEPT ![c] = "right"]
             /\ peakUse' = Larger(Cardinality(Holding(code[c])) + 1, peakUse)
             /\ UNCHANGED <<code, uses>>
      BY <1>11, <2>2 DEF ReadVerify, Done
    <3>2. PICK k \in Codes : k = code[c]
      BY <3>1, RowTypes DEF Rows
    <3>3. uses[k] = 0
      BY <3>1, <3>2 DEF CodesUnspent, Rows
    <3>4. Cardinality(Holding(k)) + 1 \in Nat /\ peakUse \in Nat
      BY EmailSets
    <3>5. /\ Cardinality(Holding(k)) + 1 <= peakUse' /\ peakUse <= peakUse'
          /\ peakUse' \in Nat
      BY <3>1, <3>2, <3>4, LargerType
    <3>6. Holding(k)' \subseteq Holding(k) \cup {c}
      BY <3>1 DEF Holding
    <3>7. \A j \in Codes \ {k} : Holding(j)' \subseteq Holding(j)
      BY <3>1, <3>2 DEF Holding
    <3>8. Cardinality(Holding(k)') <= Cardinality(Holding(k)) + 1
      <4>1. /\ IsFiniteSet(Holding(k) \cup {c})
            /\ Cardinality(Holding(k) \cup {c}) <= Cardinality(Holding(k)) + 1
            /\ Cardinality(Holding(k) \cup {c}) \in Nat
        BY EmailSets, OneMore, FS_AddElement, FS_CardinalityType
      <4>2. Cardinality(Holding(k)') <= Cardinality(Holding(k) \cup {c})
        BY <3>6, <4>1, FS_Subset
      <4>3. QED
        BY <3>4, <4>1, <4>2, EmailSetsNext
    <3>9. ASSUME NEW j \in Codes
          PROVE  uses'[j] + Cardinality(Holding(j)') <= peakUse'
      <4>1. CASE j = k
        BY <3>1, <3>3, <3>5, <3>8, <4>1, EmailSetsNext, EmailSets
      <4>2. CASE j # k
        <5>1. Cardinality(Holding(j)') <= Cardinality(Holding(j))
          BY <3>7, <4>2, EmailSets, FS_Subset
        <5>2. uses[j] + Cardinality(Holding(j)) <= peakUse
          BY DEF CodesCounted
        <5>3. QED
          BY <3>1, <3>4, <3>5, <5>1, <5>2, EmailSets, EmailSetsNext
      <4>3. QED
        BY <4>1, <4>2
    <3>10. QED
      BY <3>9 DEF CodesCounted
  <2>3. QED
    BY <2>1, <2>2
<1>12. ASSUME NEW c \in Clients, UseLink(c) PROVE CodesCounted'
  <2>1. /\ \A j \in Codes : Holding(j)' \subseteq Holding(j)
        /\ UNCHANGED <<uses, peakUse>>
    BY <1>12 DEF UseLink, Done, Holding
  <2>2. QED
    BY <2>1, HoldersFall
<1>13. ASSUME NEW c \in Clients, ReadClick(c) PROVE CodesCounted'
  <2>1. /\ \A j \in Codes : Holding(j)' \subseteq Holding(j)
        /\ UNCHANGED <<uses, peakUse>>
    BY <1>13 DEF ReadClick, Holding
  <2>2. QED
    BY <2>1, HoldersFall
<1>14. ASSUME NEW c \in Clients, NEW v \in Otps, CountAttempt(c, v)
     PROVE  CodesCounted'
  <2>1. /\ \A j \in Codes : Holding(j)' \subseteq Holding(j)
        /\ UNCHANGED <<uses, peakUse>>
    BY <1>14 DEF CountAttempt, Holding
  <2>2. QED
    BY <2>1, HoldersFall
<1>15. ASSUME NEW c \in Clients, NEW v \in Otps, UseCode(c, v)
     PROVE  CodesCounted'
  <2>1. PICK k \in Codes : k = code[c]
    BY <1>15 DEF UseCode, Steps, RequestsLinked
  <2>2. /\ uses' = [uses EXCEPT ![k] = @ + 1] /\ peakUse' = peakUse
        /\ Holding(k)' = Holding(k) \ {c} /\ c \in Holding(k)
        /\ \A j \in Codes : Holding(j)' \subseteq Holding(j)
    BY <1>15, <2>1 DEF UseCode, Steps, Holding
  <2>3. ASSUME NEW j \in Codes
        PROVE  uses'[j] + Cardinality(Holding(j)') <= peakUse'
    <3>1. uses[j] + Cardinality(Holding(j)) <= peakUse
      BY DEF CodesCounted
    <3>2. CASE j = k
      <4>1. Cardinality(Holding(k)') = Cardinality(Holding(k)) - 1
        BY <2>2, EmailSets, OneMore
      <4>2. uses'[k] = uses[k] + 1
        BY <2>2
      <4>3. uses[k] \in Nat /\ peakUse \in Nat
        OBVIOUS
      <4>4. uses'[k] + Cardinality(Holding(k)') <= peakUse'
        BY <2>2, <3>1, <3>2, <4>1, <4>2, <4>3, EmailSets, EmailSetsNext
      <4>5. QED
        BY <3>2, <4>4
    <3>3. CASE j # k
      <4>1. Cardinality(Holding(j)') <= Cardinality(Holding(j))
        BY <2>2, EmailSets, FS_Subset
      <4>2. uses'[j] = uses[j]
        BY <2>2, <3>3
      <4>3. QED
        BY <2>2, <3>1, <4>1, <4>2, EmailSets, EmailSetsNext
    <3>4. QED
      BY <3>2, <3>3
  <2>4. QED
    BY <2>3 DEF CodesCounted
<1>16. ASSUME NEW c \in Clients, NEW v \in Otps, ClearRow(c, v)
     PROVE  CodesCounted'
  <2>1. /\ \A j \in Codes : Holding(j)' \subseteq Holding(j)
        /\ UNCHANGED <<uses, peakUse>>
    BY <1>16 DEF ClearRow, Steps, Holding
  <2>2. QED
    BY <2>1, HoldersFall
<1>17. ASSUME NEW c \in Clients, FindUser(c) PROVE CodesCounted'
  <2>1. /\ \A j \in Codes : Holding(j)' \subseteq Holding(j)
        /\ UNCHANGED <<uses, peakUse>>
    BY <1>17 DEF FindUser, Holding
  <2>2. QED
    BY <2>1, HoldersFall
<1>18. ASSUME NEW c \in Clients, AddIdentity(c) PROVE CodesCounted'
  <2>1. /\ \A j \in Codes : Holding(j)' \subseteq Holding(j)
        /\ UNCHANGED <<uses, peakUse>>
    BY <1>18 DEF AddIdentity, Done, Holding
  <2>2. QED
    BY <2>1, HoldersFall
<1>19. ASSUME NEW c \in Clients, FindIdentity(c) PROVE CodesCounted'
  <2>1. /\ \A j \in Codes : Holding(j)' \subseteq Holding(j)
        /\ UNCHANGED <<uses, peakUse>>
    BY <1>19 DEF FindIdentity, Steps, Holding
  <2>2. QED
    BY <2>1, HoldersFall
<1>20. ASSUME NEW c \in Clients, OpenSession(c) PROVE CodesCounted'
  <2>1. /\ \A j \in Codes : Holding(j)' \subseteq Holding(j)
        /\ UNCHANGED <<uses, peakUse>>
    BY <1>20 DEF OpenSession, Done, Holding
  <2>2. QED
    BY <2>1, HoldersFall
<1>21. ASSUME NEW c \in Clients, NEW a \in Accounts, NewUser(c, a)
     PROVE  CodesCounted'
  <2>1. /\ \A j \in Codes : Holding(j)' \subseteq Holding(j)
        /\ UNCHANGED <<uses, peakUse>>
    BY <1>21 DEF NewUser, Steps, Holding
  <2>2. QED
    BY <2>1, HoldersFall
<1>22. ASSUME NEW c \in Clients, Crash(c) PROVE CodesCounted'
  <2>1. /\ \A j \in Codes : Holding(j)' \subseteq Holding(j)
        /\ UNCHANGED <<uses, peakUse>>
    BY <1>22 DEF Crash, Done, Holding
  <2>2. QED
    BY <2>1, HoldersFall
<1>23. ASSUME NEW a \in Accounts, OAuthUser(a) PROVE CodesCounted'
  <2>1. /\ \A j \in Codes : Holding(j)' \subseteq Holding(j)
        /\ UNCHANGED <<uses, peakUse>>
    BY <1>23 DEF OAuthUser, Holding
  <2>2. QED
    BY <2>1, HoldersFall
<1>24. ASSUME NEW b \in Buckets, WindowEnds(b) PROVE CodesCounted'
  <2>1. /\ \A j \in Codes : Holding(j)' \subseteq Holding(j)
        /\ UNCHANGED <<uses, peakUse>>
    BY <1>24 DEF WindowEnds, Holding
  <2>2. QED
    BY <2>1, HoldersFall
<1>25. ASSUME NEW v \in Otps, LockEnds(v) PROVE CodesCounted'
  <2>1. /\ \A j \in Codes : Holding(j)' \subseteq Holding(j)
        /\ UNCHANGED <<uses, peakUse>>
    BY <1>25 DEF LockEnds, Holding
  <2>2. QED
    BY <2>1, HoldersFall
<1>26. ASSUME NEW v \in Otps, CodeExpires(v) PROVE CodesCounted'
  <2>1. /\ \A j \in Codes : Holding(j)' \subseteq Holding(j)
        /\ UNCHANGED <<uses, peakUse>>
    BY <1>26 DEF CodeExpires, Holding
  <2>2. QED
    BY <2>1, HoldersFall
<1>27. ASSUME NEW k \in Codes, LinkExpires(k) PROVE CodesCounted'
  <2>1. /\ \A j \in Codes : Holding(j)' \subseteq Holding(j)
        /\ UNCHANGED <<uses, peakUse>>
    BY <1>27 DEF LinkExpires, Holding
  <2>2. QED
    BY <2>1, HoldersFall
<1>28. CASE UNCHANGED emailVars
  <2>1. /\ \A j \in Codes : Holding(j)' \subseteq Holding(j)
        /\ UNCHANGED <<uses, peakUse>>
    BY <1>28 DEF emailVars, Holding
  <2>2. QED
    BY <2>1, HoldersFall
<1> HIDE DEF EmailTypeOK
<1>29. QED
  BY <1>1, <1>2, <1>3, <1>4, <1>5, <1>6, <1>7, <1>8, <1>9, <1>10, <1>11, <1>12,
     <1>13, <1>14, <1>15, <1>16, <1>17, <1>18, <1>19, <1>20, <1>21, <1>22,
     <1>23, <1>24, <1>25, <1>26, <1>27, <1>28
     DEF EmailNext

(* The accounts stay within the sign-ups that overlapped.                   *)
LEMMA AccountsStep ==
    ASSUME EmailTypeOK, EmailTypeOK', AccountsCounted, [EmailNext]_emailVars
    PROVE  AccountsCounted'
<1> USE DEF EmailTypeOK, requestVars, dbVars, redisVars, useHistory, limitHistory,
        accountHistory
<1>1. ASSUME NEW c \in Clients, Start(c) PROVE AccountsCounted'
  <2>1. /\ Creating' \subseteq Creating
        /\ UNCHANGED <<signedUp, peakNew>>
    BY <1>1 DEF Start, Enter, Steps, Creating
  <2>2. QED
    BY <2>1, CreatorsFall
<1>2. ASSUME NEW c \in Clients, CheckLimit(c) PROVE AccountsCounted'
  <2>1. /\ Creating' \subseteq Creating
        /\ UNCHANGED <<signedUp, peakNew>>
    BY <1>2 DEF CheckLimit, Let, Done, AfterLimit, Creating
  <2>2. QED
    BY <2>1, CreatorsFall
<1>3. ASSUME NEW c \in Clients, SetExpiry(c) PROVE AccountsCounted'
  <2>1. /\ Creating' \subseteq Creating
        /\ UNCHANGED <<signedUp, peakNew>>
    BY <1>3 DEF SetExpiry, Let, Done, AfterLimit, Creating
  <2>2. QED
    BY <2>1, CreatorsFall
<1>4. ASSUME NEW c \in Clients, LimitError(c) PROVE AccountsCounted'
  <2>1. /\ Creating' \subseteq Creating
        /\ UNCHANGED <<signedUp, peakNew>>
    BY <1>4 DEF LimitError, AfterLimit, Creating
  <2>2. QED
    BY <2>1, CreatorsFall
<1>5. ASSUME NEW c \in Clients, NEW guess \in Codes \cup {WrongCode},
            Verify(c, guess)
     PROVE  AccountsCounted'
  <2>1. /\ Creating' \subseteq Creating
        /\ UNCHANGED <<signedUp, peakNew>>
    BY <1>5 DEF Verify, Enter, Steps, Creating
  <2>2. QED
    BY <2>1, CreatorsFall
<1>6. ASSUME NEW c \in Clients, NEW k \in Codes, Click(c, k)
     PROVE  AccountsCounted'
  <2>1. /\ Creating' \subseteq Creating
        /\ UNCHANGED <<signedUp, peakNew>>
    BY <1>6 DEF Click, Enter, Steps, Creating
  <2>2. QED
    BY <2>1, CreatorsFall
<1>7. ASSUME NEW c \in Clients, ReadStart(c) PROVE AccountsCounted'
  <2>1. /\ Creating' \subseteq Creating
        /\ UNCHANGED <<signedUp, peakNew>>
    BY <1>7 DEF ReadStart, Done, Creating
  <2>2. QED
    BY <2>1, CreatorsFall
<1>8. ASSUME NEW c \in Clients, StoreLink(c) PROVE AccountsCounted'
  <2>1. /\ Creating' \subseteq Creating
        /\ UNCHANGED <<signedUp, peakNew>>
    BY <1>8 DEF StoreLink, Steps, Creating
  <2>2. QED
    BY <2>1, CreatorsFall
<1>9. ASSUME NEW c \in Clients, SendMail(c) PROVE AccountsCounted'
  <2>1. /\ Creating' \subseteq Creating
        /\ UNCHANGED <<signedUp, peakNew>>
    BY <1>9 DEF SendMail, Done, Creating
  <2>2. QED
    BY <2>1, CreatorsFall
<1>10. ASSUME NEW c \in Clients, NEW k \in Codes, NEW v \in Otps,
            SaveCode(c, k, v)
     PROVE  AccountsCounted'
  <2>1. /\ Creating' \subseteq Creating
        /\ UNCHANGED <<signedUp, peakNew>>
    BY <1>10 DEF SaveCode, Creating
  <2>2. QED
    BY <2>1, CreatorsFall
<1>11. ASSUME NEW c \in Clients, ReadVerify(c) PROVE AccountsCounted'
  <2>1. /\ Creating' \subseteq Creating
        /\ UNCHANGED <<signedUp, peakNew>>
    BY <1>11 DEF ReadVerify, Done, Creating
  <2>2. QED
    BY <2>1, CreatorsFall
<1>12. ASSUME NEW c \in Clients, UseLink(c) PROVE AccountsCounted'
  <2>1. /\ Creating' \subseteq Creating
        /\ UNCHANGED <<signedUp, peakNew>>
    BY <1>12 DEF UseLink, Done, Creating
  <2>2. QED
    BY <2>1, CreatorsFall
<1>13. ASSUME NEW c \in Clients, ReadClick(c) PROVE AccountsCounted'
  <2>1. /\ Creating' \subseteq Creating
        /\ UNCHANGED <<signedUp, peakNew>>
    BY <1>13 DEF ReadClick, Creating
  <2>2. QED
    BY <2>1, CreatorsFall
<1>14. ASSUME NEW c \in Clients, NEW v \in Otps, CountAttempt(c, v)
     PROVE  AccountsCounted'
  <2>1. /\ Creating' \subseteq Creating
        /\ UNCHANGED <<signedUp, peakNew>>
    BY <1>14 DEF CountAttempt, Creating
  <2>2. QED
    BY <2>1, CreatorsFall
<1>15. ASSUME NEW c \in Clients, NEW v \in Otps, UseCode(c, v)
     PROVE  AccountsCounted'
  <2>1. /\ Creating' \subseteq Creating
        /\ UNCHANGED <<signedUp, peakNew>>
    BY <1>15 DEF UseCode, Steps, DeleteRow, Creating
  <2>2. QED
    BY <2>1, CreatorsFall
<1>16. ASSUME NEW c \in Clients, NEW v \in Otps, ClearRow(c, v)
     PROVE  AccountsCounted'
  <2>1. /\ Creating' \subseteq Creating
        /\ UNCHANGED <<signedUp, peakNew>>
    BY <1>16 DEF ClearRow, Steps, Creating
  <2>2. QED
    BY <2>1, CreatorsFall
<1>17. ASSUME NEW c \in Clients, FindUser(c) PROVE AccountsCounted'
  <2>1. CASE UNCHANGED peakNew /\ does'[c] # "newUser"
    <3>1. Creating' \subseteq Creating /\ UNCHANGED signedUp
      BY <1>17, <2>1 DEF FindUser, Creating
    <3>2. QED
      BY <2>1, <3>1, CreatorsFall
  <2>2. CASE ~ (UNCHANGED peakNew /\ does'[c] # "newUser")
    <3>1. /\ accounts = {} /\ does' = [does EXCEPT ![c] = "newUser"]
          /\ peakNew' = Larger(Cardinality(Creating) + 1, peakNew)
          /\ UNCHANGED signedUp
      BY <1>17, <2>2 DEF FindUser, Unknown
    <3>2. signedUp = {}
      BY <3>1
    <3>3. Cardinality(signedUp') = 0
      BY <3>1, <3>2, FS_EmptySet
    <3>4. Cardinality(Creating) + 1 \in Nat /\ peakNew \in Nat
      BY EmailSets
    <3>5. Cardinality(Creating) + 1 <= peakNew' /\ peakNew' \in Nat
      BY <3>1, <3>4, LargerType
    <3>6. Creating' = Creating \cup {c}
      BY <3>1 DEF Creating
    <3>7. Cardinality(Creating') <= Cardinality(Creating) + 1
      BY <3>6, EmailSets, OneMore
    <3>8. QED
      BY <3>3, <3>4, <3>5, <3>7, EmailSetsNext DEF AccountsCounted
  <2>3. QED
    BY <2>1, <2>2
<1>18. ASSUME NEW c \in Clients, AddIdentity(c) PROVE AccountsCounted'
  <2>1. /\ Creating' \subseteq Creating
        /\ UNCHANGED <<signedUp, peakNew>>
    BY <1>18 DEF AddIdentity, Done, Creating
  <2>2. QED
    BY <2>1, CreatorsFall
<1>19. ASSUME NEW c \in Clients, FindIdentity(c) PROVE AccountsCounted'
  <2>1. /\ Creating' \subseteq Creating
        /\ UNCHANGED <<signedUp, peakNew>>
    BY <1>19 DEF FindIdentity, Steps, Creating
  <2>2. QED
    BY <2>1, CreatorsFall
<1>20. ASSUME NEW c \in Clients, OpenSession(c) PROVE AccountsCounted'
  <2>1. /\ Creating' \subseteq Creating
        /\ UNCHANGED <<signedUp, peakNew>>
    BY <1>20 DEF OpenSession, Done, Creating
  <2>2. QED
    BY <2>1, CreatorsFall
<1>21. ASSUME NEW c \in Clients, NEW a \in Accounts, NewUser(c, a)
     PROVE  AccountsCounted'
  <2>1. /\ Creating' = Creating \ {c} /\ c \in Creating
        /\ signedUp' = signedUp \cup {a} /\ peakNew' = peakNew
    BY <1>21 DEF NewUser, Steps, Creating
  <2>2. /\ Cardinality(Creating') = Cardinality(Creating) - 1
        /\ Cardinality(signedUp') <= Cardinality(signedUp) + 1
    BY <2>1, EmailSets, OneMore
  <2>3. peakNew \in Nat
    OBVIOUS
  <2>4. QED
    BY <2>1, <2>2, <2>3, EmailSets, EmailSetsNext DEF AccountsCounted
<1>22. ASSUME NEW c \in Clients, Crash(c) PROVE AccountsCounted'
  <2>1. /\ Creating' \subseteq Creating
        /\ UNCHANGED <<signedUp, peakNew>>
    BY <1>22 DEF Crash, Done, Creating
  <2>2. QED
    BY <2>1, CreatorsFall
<1>23. ASSUME NEW a \in Accounts, OAuthUser(a) PROVE AccountsCounted'
  <2>1. /\ Creating' \subseteq Creating
        /\ UNCHANGED <<signedUp, peakNew>>
    BY <1>23 DEF OAuthUser, Creating
  <2>2. QED
    BY <2>1, CreatorsFall
<1>24. ASSUME NEW b \in Buckets, WindowEnds(b) PROVE AccountsCounted'
  <2>1. /\ Creating' \subseteq Creating
        /\ UNCHANGED <<signedUp, peakNew>>
    BY <1>24 DEF WindowEnds, Creating
  <2>2. QED
    BY <2>1, CreatorsFall
<1>25. ASSUME NEW v \in Otps, LockEnds(v) PROVE AccountsCounted'
  <2>1. /\ Creating' \subseteq Creating
        /\ UNCHANGED <<signedUp, peakNew>>
    BY <1>25 DEF LockEnds, Creating
  <2>2. QED
    BY <2>1, CreatorsFall
<1>26. ASSUME NEW v \in Otps, CodeExpires(v) PROVE AccountsCounted'
  <2>1. /\ Creating' \subseteq Creating
        /\ UNCHANGED <<signedUp, peakNew>>
    BY <1>26 DEF CodeExpires, Creating
  <2>2. QED
    BY <2>1, CreatorsFall
<1>27. ASSUME NEW k \in Codes, LinkExpires(k) PROVE AccountsCounted'
  <2>1. /\ Creating' \subseteq Creating
        /\ UNCHANGED <<signedUp, peakNew>>
    BY <1>27 DEF LinkExpires, Creating
  <2>2. QED
    BY <2>1, CreatorsFall
<1>28. CASE UNCHANGED emailVars
  <2>1. /\ Creating' \subseteq Creating
        /\ UNCHANGED <<signedUp, peakNew>>
    BY <1>28 DEF emailVars, Creating
  <2>2. QED
    BY <2>1, CreatorsFall
<1> HIDE DEF EmailTypeOK
<1>29. QED
  BY <1>1, <1>2, <1>3, <1>4, <1>5, <1>6, <1>7, <1>8, <1>9, <1>10, <1>11, <1>12,
     <1>13, <1>14, <1>15, <1>16, <1>17, <1>18, <1>19, <1>20, <1>21, <1>22,
     <1>23, <1>24, <1>25, <1>26, <1>27, <1>28
     DEF EmailNext

-----------------------------------------------------------------------------
(* One code was sent, or none.                                             *)
LEMMA EmailBegin ==
    EmailInit => EmailInductive
<1> SUFFICES ASSUME EmailInit PROVE EmailInductive
  OBVIOUS
<1> USE EmailAssumption
<1>1. otp \in [Otps -> Otp \cup {NoOtp}]
  <2>1. ASSUME NEW v \in Otps, NEW k \in Codes
        PROVE  [code |-> k, attempts |-> 0, locked |-> FALSE,
                expired |-> FALSE] \in Otp
    BY DEF Otp
  <2>2. QED
    BY <2>1 DEF EmailInit
<1>2. mailed \subseteq Codes
  BY DEF EmailInit
<1>3. EmailTypeOK
  BY <1>1, <1>2 DEF EmailInit, EmailTypeOK, EmailStage, Buckets
<1>4. /\ RequestsLinked /\ LinksUnspent /\ WindowsCounted /\ CounterEnds
      /\ LocksOvertaken
  BY <1>2 DEF EmailInit, RequestsLinked, LinksUnspent, WindowsCounted,
     CounterEnds, LocksOvertaken, Sending
<1>5. CodesUnspent
  <2>1. CASE otp = [v \in Otps |-> NoOtp] /\ mailed = {}
    BY <2>1 DEF EmailInit, CodesUnspent
  <2>2. CASE \E v \in Otps, k \in Codes :
               /\ otp = [o \in Otps |->
                            IF o = v THEN [code |-> k, attempts |-> 0,
                                           locked |-> FALSE, expired |-> FALSE]
                            ELSE NoOtp]
               /\ mailed = {k}
    BY <2>2 DEF EmailInit, CodesUnspent
  <2>3. QED
    BY <2>1, <2>2 DEF EmailInit
<1>6. Creating = {} /\ signedUp = {} /\ \A k \in Codes : Holding(k) = {}
  BY DEF EmailInit, Creating, Holding
<1>7. CodesCounted /\ AccountsCounted
  <2>1. /\ Cardinality(Creating) = 0 /\ Cardinality(signedUp) = 0
        /\ \A k \in Codes : Cardinality(Holding(k)) = 0
    BY <1>6, FS_EmptySet
  <2>2. /\ peakUse = 0 /\ peakNew = 0
        /\ \A k \in Codes : uses[k] = 0
    BY DEF EmailInit
  <2>3. QED
    BY <2>1, <2>2 DEF CodesCounted, AccountsCounted
<1>8. QED
  BY <1>3, <1>4, <1>5, <1>7 DEF EmailInductive

THEOREM EmailInvariant == EmailSpec => []EmailInductive
<1>1. EmailInductive /\ [EmailNext]_emailVars => EmailInductive'
  BY EmailTypeStep, LinkedStep, LinksStep, CodesStep, CodesCountedStep,
     AccountsStep, WindowsStep, CountersStep, LocksStep DEF EmailInductive
<1>2. QED
  BY EmailBegin, <1>1, PTL DEF EmailSpec

(* The types of rows, links, accounts, counters, requests and history.     *)
THEOREM EmailTyped == EmailSpec => []EmailTypeOK
<1>1. EmailInductive => EmailTypeOK
  BY DEF EmailInductive
<1>2. QED
  BY EmailInvariant, <1>1, PTL

(* A link signs in one caller.                                             *)
THEOREM LinkOnce == EmailSpec => []LinkUsedOnce
<1>1. EmailInductive => LinkUsedOnce
  BY DEF EmailInductive, LinksUnspent, LinkUsedOnce
<1>2. QED
  BY EmailInvariant, <1>1, PTL

(* A code signs in no more callers than had compared it together.          *)
THEOREM CodeUses == EmailSpec => []CodeUsesBounded
<1>1. EmailInductive => CodeUsesBounded
  <2> SUFFICES ASSUME EmailInductive, NEW k \in Codes PROVE uses[k] <= peakUse
    BY DEF CodeUsesBounded
  <2>1. uses[k] + Cardinality(Holding(k)) <= peakUse
    BY DEF EmailInductive, CodesCounted
  <2>2. uses[k] \in Nat /\ peakUse \in Nat /\ Cardinality(Holding(k)) \in Nat
    BY EmailSets DEF EmailInductive, EmailTypeOK
  <2>3. QED
    BY <2>1, <2>2
<1>2. QED
  BY EmailInvariant, <1>1, PTL

(* An address gets no more accounts than its first sign-ins overlapped.    *)
THEOREM AccountLimit == EmailSpec => []AccountsBounded
<1>1. EmailInductive => AccountsBounded
  <2> SUFFICES ASSUME EmailInductive PROVE AccountsBounded
    OBVIOUS
  <2>1. /\ Cardinality(signedUp) \in Nat /\ Cardinality(Creating) \in Nat
        /\ peakNew \in Nat
    BY EmailSets DEF EmailInductive, EmailTypeOK
  <2>2. QED
    BY <2>1 DEF EmailInductive, AccountsCounted, AccountsBounded
<1>2. QED
  BY EmailInvariant, <1>1, PTL

(* A window lets no more calls through than its limit.                     *)
THEOREM WindowLimit == EmailSpec => []WindowBounded
<1>1. EmailInductive => WindowBounded
  BY DEF EmailInductive, WindowsCounted, WindowBounded
<1>2. QED
  BY EmailInvariant, <1>1, PTL

(* A counter ends, unless its creator failed to give it an expiry.         *)
THEOREM CounterHasEnd == EmailSpec => []CounterEnds
<1>1. EmailInductive => CounterEnds
  BY DEF EmailInductive
<1>2. QED
  BY EmailInvariant, <1>1, PTL

(* A new code reaches a locked row only from a start the lock overtook.    *)
LEMMA LockedStep ==
    ASSUME EmailInductive, [EmailNext]_emailVars, NEW v \in Rows,
           otp[v].locked, otp'[v] # NoOtp, otp'[v].code # otp[v].code
    PROVE  \E c \in early : does[c] = "save" /\ v \in reads[c]
<1> USE DEF EmailInductive, EmailTypeOK, Rows
<1> v \in Otps /\ otp[v] # NoOtp /\ otp[v] \in Otp
  OBVIOUS
<1>1. CASE UNCHANGED otp
  BY <1>1
<1>2. ASSUME NEW c \in Clients, NEW k \in Codes, NEW w \in Otps,
             SaveCode(c, k, w)
      PROVE  \E o \in early : does[o] = "save" /\ v \in reads[o]
  <2>1. w = v
    BY <1>2 DEF SaveCode
  <2>2. does[c] = "save" /\ v \in reads[c]
    BY <1>2, <2>1 DEF SaveCode
  <2>3. QED
    BY <2>2 DEF LocksOvertaken
<1>3. ASSUME NEW c \in Clients, NEW w \in Otps, CountAttempt(c, w) PROVE FALSE
  BY <1>3 DEF CountAttempt, Otp
<1>4. ASSUME NEW c \in Clients, NEW w \in Otps, UseCode(c, w) PROVE FALSE
  BY <1>4 DEF UseCode, DeleteRow
<1>5. ASSUME NEW c \in Clients, NEW w \in Otps, ClearRow(c, w) PROVE FALSE
  BY <1>5 DEF ClearRow
<1>6. ASSUME NEW w \in Otps, LockEnds(w) PROVE FALSE
  BY <1>6 DEF LockEnds, Otp
<1>7. ASSUME NEW w \in Otps, CodeExpires(w) PROVE FALSE
  BY <1>7 DEF CodeExpires, Otp
<1>8. CASE UNCHANGED emailVars
  BY <1>8 DEF emailVars, dbVars
<1>9. QED
  BY <1>1, <1>2, <1>3, <1>4, <1>5, <1>6, <1>7, <1>8
     DEF EmailNext, Start, Verify, Click, Enter, dbVars, CheckLimit, SetExpiry,
         LimitError, ReadStart, StoreLink, SendMail, ReadVerify, UseLink,
         ReadClick, FindUser, AddIdentity, FindIdentity, OpenSession, NewUser,
         Crash, OAuthUser, WindowEnds, LinkExpires

THEOREM LockIsKept == EmailSpec => LockHolds
<1>1. EmailInductive /\ [EmailNext]_emailVars =>
        [\A v \in Rows :
          (otp[v].locked /\ otp'[v] # NoOtp /\ otp'[v].code # otp[v].code)
          => \E c \in early : does[c] = "save" /\ v \in reads[c]]_emailVars
  BY LockedStep
<1>2. QED
  BY EmailInvariant, <1>1, PTL DEF EmailSpec, LockHolds

(***************************************************************************)
(* OAuthSignIn                                                             *)
(***************************************************************************)
Loaded == {"drop", "dropError", "redeem", "lookup", "user", "identity", "open"}
PastDrop == {"redeem", "lookup", "user", "identity", "open"}
Exchanging == {"lookup", "user", "identity", "open", "code", "token"}
AtUser == {r \in Visits : doing[r] = "user"}
AtIdentity == {r \in Visits : doing[r] = "identity"}

(* A request is about a consent, whose state was drawn; the account it     *)
(* opens a session for is the identity's.                                  *)
VisitsLinked ==
  /\ \A g \in Consents : consent[g] \notin unused
  /\ \A r \in Visits :
        /\ doing[r] # "idle" => about[r] \in Consents
        /\ doing[r] \in Loaded \cup {"state"} =>
              consent[about[r]] \in States \ unused
        /\ doing[r] = "identity" => person[r] \in Persons
        /\ doing[r] = "open" => person[r] = owner /\ owner \in Persons

(* Only the identity's account has been served.                            *)
ServedOwner == served \subseteq {owner}

(* A state that Redis may still give out has led nowhere: whoever has read *)
(* it has not deleted it yet.                                              *)
StatesUnspent ==
    crashes = 0 =>
        \A s \in pending \cup unused :
            /\ opened[s] = 0
            /\ \A r \in Visits : doing[r] \in PastDrop => StateOf(r) # s

StatesCounted ==
    crashes = 0 =>
        \A s \in States :
            opened[s] + Cardinality(HoldingState(s)) <= peakState

(* While there is no identity every user belongs to a sign-up under way or *)
(* abandoned; afterwards only sign-ups that had found none go on.          *)
UsersCounted ==
    /\ Cardinality(WithoutIdentity) <= peakNone
    /\ owner = NoPerson =>
          Cardinality(persons) <= abandoned + Cardinality(AtIdentity)
    /\ owner # NoPerson =>
          Cardinality(persons) + Cardinality(AtUser) <= abandoned + peakNone

(* A consent is redeemed by one request, which has no exchange code in     *)
(* Redis yet, or no more.                                                  *)
ExchangesLinked ==
    /\ \A g \in Consents :
          /\ delivered[g] <= 1
          /\ g \notin redeemed => delivered[g] = 0 /\ g \notin exchange
          /\ g \in exchange => delivered[g] = 0
    /\ \A r \in Visits : doing[r] \in Exchanging =>
          /\ about[r] \in redeemed \ exchange
          /\ delivered[about[r]] = 0
          /\ \A q \in Visits :
                doing[q] \in Exchanging /\ about[q] = about[r] => q = r

OAuthInductive ==
    /\ OAuthTypeOK /\ VisitsLinked /\ ServedOwner /\ StatesUnspent
    /\ StatesCounted /\ UsersCounted /\ ExchangesLinked

-----------------------------------------------------------------------------
(* The sets that are counted are finite.                                   *)
LEMMA OAuthSets ==
    ASSUME OAuthTypeOK
    PROVE  /\ IsFiniteSet(persons) /\ Cardinality(persons) \in Nat
           /\ IsFiniteSet(WithoutIdentity)
           /\ Cardinality(WithoutIdentity) \in Nat
           /\ IsFiniteSet(AtUser) /\ Cardinality(AtUser) \in Nat
           /\ IsFiniteSet(AtIdentity) /\ Cardinality(AtIdentity) \in Nat
           /\ \A s \in States : /\ IsFiniteSet(HoldingState(s))
                               /\ Cardinality(HoldingState(s)) \in Nat
<1>1. /\ persons \subseteq Persons /\ WithoutIdentity \subseteq Visits
      /\ AtUser \subseteq Visits /\ AtIdentity \subseteq Visits
      /\ \A s \in States : HoldingState(s) \subseteq Visits
  BY DEF OAuthTypeOK, WithoutIdentity, AtUser, AtIdentity, HoldingState
<1>2. /\ IsFiniteSet(persons) /\ IsFiniteSet(WithoutIdentity)
      /\ IsFiniteSet(AtUser) /\ IsFiniteSet(AtIdentity)
      /\ \A s \in States : IsFiniteSet(HoldingState(s))
  BY <1>1, FS_Subset, OAuthAssumption
<1>3. QED
  BY <1>2, FS_CardinalityType

LEMMA OAuthSetsNext ==
    ASSUME OAuthTypeOK'
    PROVE  /\ IsFiniteSet(persons') /\ Cardinality(persons') \in Nat
           /\ IsFiniteSet(WithoutIdentity')
           /\ Cardinality(WithoutIdentity') \in Nat
           /\ IsFiniteSet(AtUser') /\ Cardinality(AtUser') \in Nat
           /\ IsFiniteSet(AtIdentity') /\ Cardinality(AtIdentity') \in Nat
           /\ \A s \in States : /\ IsFiniteSet(HoldingState(s)')
                               /\ Cardinality(HoldingState(s)') \in Nat
<1>1. /\ persons' \subseteq Persons /\ WithoutIdentity' \subseteq Visits
      /\ AtUser' \subseteq Visits /\ AtIdentity' \subseteq Visits
      /\ \A s \in States : HoldingState(s)' \subseteq Visits
  BY DEF OAuthTypeOK, WithoutIdentity, AtUser, AtIdentity, HoldingState
<1>2. /\ IsFiniteSet(persons') /\ IsFiniteSet(WithoutIdentity')
      /\ IsFiniteSet(AtUser') /\ IsFiniteSet(AtIdentity')
      /\ \A s \in States : IsFiniteSet(HoldingState(s)')
  BY <1>1, FS_Subset, OAuthAssumption
<1>3. QED
  BY <1>2, FS_CardinalityType

(* The number of requests that hold a state or lack an identity is a       *)
(* number, so the histories that keep the highest are, too.                *)
LEMMA HighestType ==
    ASSUME NEW a \in Nat, NEW b \in Nat
    PROVE  /\ Highest(a, b) \in Nat
           /\ a <= Highest(a, b) /\ b <= Highest(a, b)
BY DEF Highest

(* Every step keeps the types.                                              *)
LEMMA OAuthTypeStep ==
    ASSUME OAuthTypeOK, VisitsLinked, [OAuthNext]_oauthVars
    PROVE  OAuthTypeOK'
<1> USE OAuthAssumption
        DEF OAuthTypeOK, VisitStage, visitVars, accountVars, cacheVars, oauthHistory
<1>1. ASSUME NEW s \in States, Begun(s) PROVE OAuthTypeOK'
  BY <1>1 DEF Begun, CrashOnce
<1>2. ASSUME NEW s \in States, StateExpires(s) PROVE OAuthTypeOK'
  BY <1>2 DEF StateExpires
<1>3. ASSUME NEW g \in Consents, CodeExpired(g) PROVE OAuthTypeOK'
  BY <1>3 DEF CodeExpired
<1>4. ASSUME NEW g \in Consents, NEW s \in States, Consented(g, s)
     PROVE  OAuthTypeOK'
  BY <1>4 DEF Consented
<1>5. ASSUME NEW r \in Visits, NEW g \in Consents, Callback(r, g)
     PROVE  OAuthTypeOK'
  BY <1>5 DEF Callback, Passes
<1>6. ASSUME NEW r \in Visits, NEW g \in Consents, Token(r, g)
     PROVE  OAuthTypeOK'
  BY <1>6 DEF Token, TakeCode, Passes
<1>7. ASSUME NEW r \in Visits, GetState(r) PROVE OAuthTypeOK'
  <2>1. CASE StateOf(r) \in pending /\ doing' = [doing EXCEPT ![r] = "drop"]
    <3>1. StateOf(r) \in States
      BY <2>1
    <3>2. Cardinality(HoldingState(StateOf(r))) + 1 \in Nat
      BY <3>1, OAuthSets
    <3>3. Highest(Cardinality(HoldingState(StateOf(r))) + 1, peakState) \in Nat
      BY <3>2, HighestType
    <3>4. QED
      BY <1>7, <3>3 DEF GetState, Leave
  <2>2. CASE UNCHANGED peakState
    BY <1>7, <2>2 DEF GetState, Leave
  <2>3. QED
    BY <1>7, <2>1, <2>2 DEF GetState
<1>8. ASSUME NEW r \in Visits, DropState(r) PROVE OAuthTypeOK'
  BY <1>8 DEF DropState, Passes, DeleteState, CrashOnce
<1>9. ASSUME NEW r \in Visits, DropStateOnError(r) PROVE OAuthTypeOK'
  BY <1>9 DEF DropStateOnError, Leave
<1>10. ASSUME NEW r \in Visits, Redeem(r) PROVE OAuthTypeOK'
  <2>1. about[r] \in Consents
    BY <1>10 DEF Redeem, VisitsLinked
  <2>2. QED
    BY <1>10, <2>1 DEF Redeem, Leave
<1>11. ASSUME NEW r \in Visits, Lookup(r) PROVE OAuthTypeOK'
  <2>1. Cardinality(WithoutIdentity) + 1 \in Nat /\ peakNone \in Nat
    BY OAuthSets
  <2>2. Highest(Cardinality(WithoutIdentity) + 1, peakNone) \in Nat
    BY <2>1, HighestType
  <2>3. QED
    BY <1>11, <2>2 DEF Lookup, Identified
<1>12. ASSUME NEW r \in Visits, NEW p \in Persons, CreateUser(r, p)
     PROVE  OAuthTypeOK'
  BY <1>12 DEF CreateUser, Passes
<1>13. ASSUME NEW r \in Visits, CreateIdentity(r) PROVE OAuthTypeOK'
  <2>1. person[r] \in Persons
    BY <1>13 DEF CreateIdentity, VisitsLinked
  <2>2. QED
    BY <1>13, <2>1 DEF CreateIdentity, Leave
<1>14. ASSUME NEW r \in Visits, CreateCoreSession(r) PROVE OAuthTypeOK'
  <2>1. person[r] \in Persons /\ StateOf(r) \in States
    BY <1>14 DEF CreateCoreSession, Passes, VisitsLinked, Loaded, StateOf
  <2>2. served' \subseteq Persons
    BY <1>14, <2>1 DEF CreateCoreSession
  <2>3. opened' \in [States -> Nat]
    BY <1>14, <2>1 DEF CreateCoreSession
  <2>4. QED
    BY <1>14, <2>2, <2>3 DEF CreateCoreSession, Passes
<1>15. ASSUME NEW r \in Visits, IssueCode(r) PROVE OAuthTypeOK'
  <2>1. about[r] \in Consents
    BY <1>15 DEF IssueCode, VisitsLinked
  <2>2. QED
    BY <1>15, <2>1 DEF IssueCode, CrashOnce, Leave
<1>16. ASSUME NEW r \in Visits, TokenAnswer(r) PROVE OAuthTypeOK'
  BY <1>16 DEF TokenAnswer, Leave
<1>17. ASSUME NEW r \in Visits, VisitDies(r) PROVE OAuthTypeOK'
  BY <1>17 DEF VisitDies, CrashOnce, Leave
<1>18. CASE UNCHANGED oauthVars
  BY <1>18 DEF oauthVars, visitVars, accountVars, cacheVars, oauthHistory
<1> HIDE DEF OAuthTypeOK
<1>19. QED
  BY <1>1, <1>2, <1>3, <1>4, <1>5, <1>6, <1>7, <1>8, <1>9, <1>10, <1>11, <1>12,
     <1>13, <1>14, <1>15, <1>16, <1>17, <1>18
     DEF OAuthNext

(* Requests stay linked.                                                    *)
LEMMA VisitStep ==
    ASSUME OAuthTypeOK, VisitsLinked, [OAuthNext]_oauthVars
    PROVE  VisitsLinked'
<1> USE OAuthAssumption
        DEF OAuthTypeOK, VisitStage, VisitsLinked, StateOf, Loaded,
        visitVars, accountVars, cacheVars, oauthHistory
<1>1. ASSUME NEW s \in States, Begun(s) PROVE VisitsLinked'
  BY <1>1 DEF Begun, CrashOnce
<1>2. ASSUME NEW s \in States, StateExpires(s) PROVE VisitsLinked'
  BY <1>2 DEF StateExpires
<1>3. ASSUME NEW g \in Consents, CodeExpired(g) PROVE VisitsLinked'
  BY <1>3 DEF CodeExpired
<1>4. ASSUME NEW g \in Consents, NEW s \in States, Consented(g, s)
     PROVE  VisitsLinked'
  BY <1>4 DEF Consented
<1>5. ASSUME NEW r \in Visits, NEW g \in Consents, Callback(r, g)
     PROVE  VisitsLinked'
  BY <1>5 DEF Callback, Passes
<1>6. ASSUME NEW r \in Visits, NEW g \in Consents, Token(r, g)
     PROVE  VisitsLinked'
  BY <1>6 DEF Token, TakeCode, Passes
<1>7. ASSUME NEW r \in Visits, GetState(r) PROVE VisitsLinked'
  BY <1>7 DEF GetState, Leave
<1>8. ASSUME NEW r \in Visits, DropState(r) PROVE VisitsLinked'
  BY <1>8 DEF DropState, Passes, DeleteState, CrashOnce
<1>9. ASSUME NEW r \in Visits, DropStateOnError(r) PROVE VisitsLinked'
  BY <1>9 DEF DropStateOnError, Leave
<1>10. ASSUME NEW r \in Visits, Redeem(r) PROVE VisitsLinked'
  BY <1>10 DEF Redeem, Leave
<1>11. ASSUME NEW r \in Visits, Lookup(r) PROVE VisitsLinked'
  BY <1>11 DEF Lookup, Identified
<1>12. ASSUME NEW r \in Visits, NEW p \in Persons, CreateUser(r, p)
     PROVE  VisitsLinked'
  BY <1>12 DEF CreateUser, Passes
<1>13. ASSUME NEW r \in Visits, CreateIdentity(r) PROVE VisitsLinked'
  BY <1>13 DEF CreateIdentity, Refused, Leave
<1>14. ASSUME NEW r \in Visits, CreateCoreSession(r) PROVE VisitsLinked'
  BY <1>14 DEF CreateCoreSession, Passes
<1>15. ASSUME NEW r \in Visits, IssueCode(r) PROVE VisitsLinked'
  BY <1>15 DEF IssueCode, CrashOnce, Leave
<1>16. ASSUME NEW r \in Visits, TokenAnswer(r) PROVE VisitsLinked'
  BY <1>16 DEF TokenAnswer, Leave
<1>17. ASSUME NEW r \in Visits, VisitDies(r) PROVE VisitsLinked'
  BY <1>17 DEF VisitDies, CrashOnce, Leave
<1>18. CASE UNCHANGED oauthVars
  BY <1>18 DEF oauthVars, visitVars, accountVars, cacheVars, oauthHistory
<1> HIDE DEF OAuthTypeOK, VisitsLinked
<1>19. QED
  BY <1>1, <1>2, <1>3, <1>4, <1>5, <1>6, <1>7, <1>8, <1>9, <1>10, <1>11, <1>12,
     <1>13, <1>14, <1>15, <1>16, <1>17, <1>18
     DEF OAuthNext

(* Nobody but the owner is served.                                          *)
LEMMA ServedStep ==
    ASSUME OAuthTypeOK, VisitsLinked, ServedOwner, [OAuthNext]_oauthVars
    PROVE  ServedOwner'
<1> USE OAuthAssumption
        DEF OAuthTypeOK, VisitsLinked, ServedOwner,
        visitVars, accountVars, cacheVars, oauthHistory
<1>1. ASSUME NEW s \in States, Begun(s) PROVE ServedOwner'
  BY <1>1 DEF Begun, CrashOnce
<1>2. ASSUME NEW s \in States, StateExpires(s) PROVE ServedOwner'
  BY <1>2 DEF StateExpires
<1>3. ASSUME NEW g \in Consents, CodeExpired(g) PROVE ServedOwner'
  BY <1>3 DEF CodeExpired
<1>4. ASSUME NEW g \in Consents, NEW s \in States, Consented(g, s)
     PROVE  ServedOwner'
  BY <1>4 DEF Consented
<1>5. ASSUME NEW r \in Visits, NEW g \in Consents, Callback(r, g)
     PROVE  ServedOwner'
  BY <1>5 DEF Callback, Passes
<1>6. ASSUME NEW r \in Visits, NEW g \in Consents, Token(r, g)
     PROVE  ServedOwner'
  BY <1>6 DEF Token, TakeCode, Passes
<1>7. ASSUME NEW r \in Visits, GetState(r) PROVE ServedOwner'
  BY <1>7 DEF GetState, Leave
<1>8. ASSUME NEW r \in Visits, DropState(r) PROVE ServedOwner'
  BY <1>8 DEF DropState, Passes, DeleteState, CrashOnce
<1>9. ASSUME NEW r \in Visits, DropStateOnError(r) PROVE ServedOwner'
  BY <1>9 DEF DropStateOnError, Leave
<1>10. ASSUME NEW r \in Visits, Redeem(r) PROVE ServedOwner'
  BY <1>10 DEF Redeem, Leave
<1>11. ASSUME NEW r \in Visits, Lookup(r) PROVE ServedOwner'
  BY <1>11 DEF Lookup, Identified
<1>12. ASSUME NEW r \in Visits, NEW p \in Persons, CreateUser(r, p)
     PROVE  ServedOwner'
  BY <1>12 DEF CreateUser, Passes
<1>13. ASSUME NEW r \in Visits, CreateIdentity(r) PROVE ServedOwner'
  BY <1>13 DEF CreateIdentity, Refused, Leave
<1>14. ASSUME NEW r \in Visits, CreateCoreSession(r) PROVE ServedOwner'
  BY <1>14 DEF CreateCoreSession, Passes
<1>15. ASSUME NEW r \in Visits, IssueCode(r) PROVE ServedOwner'
  BY <1>15 DEF IssueCode, CrashOnce, Leave
<1>16. ASSUME NEW r \in Visits, TokenAnswer(r) PROVE ServedOwner'
  BY <1>16 DEF TokenAnswer, Leave
<1>17. ASSUME NEW r \in Visits, VisitDies(r) PROVE ServedOwner'
  BY <1>17 DEF VisitDies, CrashOnce, Leave
<1>18. CASE UNCHANGED oauthVars
  BY <1>18 DEF oauthVars, visitVars, accountVars, cacheVars, oauthHistory
<1> HIDE DEF OAuthTypeOK, VisitsLinked, ServedOwner
<1>19. QED
  BY <1>1, <1>2, <1>3, <1>4, <1>5, <1>6, <1>7, <1>8, <1>9, <1>10, <1>11, <1>12,
     <1>13, <1>14, <1>15, <1>16, <1>17, <1>18
     DEF OAuthNext

(* What Redis may give out stays unspent.                                   *)
LEMMA UnspentStep ==
    ASSUME OAuthTypeOK, VisitsLinked, StatesUnspent,
           [OAuthNext]_oauthVars
    PROVE  StatesUnspent'
<1> USE OAuthAssumption
        DEF OAuthTypeOK, VisitsLinked, StatesUnspent, StateOf, Loaded,
        PastDrop, visitVars, accountVars, cacheVars, oauthHistory
<1>1. ASSUME NEW s \in States, Begun(s) PROVE StatesUnspent'
  BY <1>1 DEF Begun, CrashOnce
<1>2. ASSUME NEW s \in States, StateExpires(s) PROVE StatesUnspent'
  BY <1>2 DEF StateExpires
<1>3. ASSUME NEW g \in Consents, CodeExpired(g) PROVE StatesUnspent'
  BY <1>3 DEF CodeExpired
<1>4. ASSUME NEW g \in Consents, NEW s \in States, Consented(g, s)
     PROVE  StatesUnspent'
  BY <1>4 DEF Consented
<1>5. ASSUME NEW r \in Visits, NEW g \in Consents, Callback(r, g)
     PROVE  StatesUnspent'
  BY <1>5 DEF Callback, Passes
<1>6. ASSUME NEW r \in Visits, NEW g \in Consents, Token(r, g)
     PROVE  StatesUnspent'
  BY <1>6 DEF Token, TakeCode, Passes
<1>7. ASSUME NEW r \in Visits, GetState(r) PROVE StatesUnspent'
  BY <1>7 DEF GetState, Leave
<1>8. ASSUME NEW r \in Visits, DropState(r) PROVE StatesUnspent'
  BY <1>8 DEF DropState, Passes, DeleteState, CrashOnce
<1>9. ASSUME NEW r \in Visits, DropStateOnError(r) PROVE StatesUnspent'
  BY <1>9 DEF DropStateOnError, Leave
<1>10. ASSUME NEW r \in Visits, Redeem(r) PROVE StatesUnspent'
  BY <1>10 DEF Redeem, Leave
<1>11. ASSUME NEW r \in Visits, Lookup(r) PROVE StatesUnspent'
  BY <1>11 DEF Lookup, Identified
<1>12. ASSUME NEW r \in Visits, NEW p \in Persons, CreateUser(r, p)
     PROVE  StatesUnspent'
  BY <1>12 DEF CreateUser, Passes
<1>13. ASSUME NEW r \in Visits, CreateIdentity(r) PROVE StatesUnspent'
  BY <1>13 DEF CreateIdentity, Refused, Leave
<1>14. ASSUME NEW r \in Visits, CreateCoreSession(r) PROVE StatesUnspent'
  BY <1>14 DEF CreateCoreSession, Passes
<1>15. ASSUME NEW r \in Visits, IssueCode(r) PROVE StatesUnspent'
  BY <1>15 DEF IssueCode, CrashOnce, Leave
<1>16. ASSUME NEW r \in Visits, TokenAnswer(r) PROVE StatesUnspent'
  BY <1>16 DEF TokenAnswer, Leave
<1>17. ASSUME NEW r \in Visits, VisitDies(r) PROVE StatesUnspent'
  BY <1>17 DEF VisitDies, CrashOnce, Leave
<1>18. CASE UNCHANGED oauthVars
  BY <1>18 DEF oauthVars, visitVars, accountVars, cacheVars, oauthHistory
<1> HIDE DEF OAuthTypeOK, VisitsLinked, StatesUnspent
<1>19. QED
  BY <1>1, <1>2, <1>3, <1>4, <1>5, <1>6, <1>7, <1>8, <1>9, <1>10, <1>11, <1>12,
     <1>13, <1>14, <1>15, <1>16, <1>17, <1>18
     DEF OAuthNext

(* Consents and exchange codes stay linked.                                 *)
LEMMA ExchangeStep ==
    ASSUME OAuthTypeOK, VisitsLinked, ExchangesLinked,
           [OAuthNext]_oauthVars
    PROVE  ExchangesLinked'
<1> USE OAuthAssumption
        DEF OAuthTypeOK, VisitsLinked, ExchangesLinked, Exchanging,
        visitVars, accountVars, cacheVars, oauthHistory
<1>1. ASSUME NEW s \in States, Begun(s) PROVE ExchangesLinked'
  BY <1>1 DEF Begun, CrashOnce
<1>2. ASSUME NEW s \in States, StateExpires(s) PROVE ExchangesLinked'
  BY <1>2 DEF StateExpires
<1>3. ASSUME NEW g \in Consents, CodeExpired(g) PROVE ExchangesLinked'
  BY <1>3 DEF CodeExpired
<1>4. ASSUME NEW g \in Consents, NEW s \in States, Consented(g, s)
     PROVE  ExchangesLinked'
  BY <1>4 DEF Consented
<1>5. ASSUME NEW r \in Visits, NEW g \in Consents, Callback(r, g)
     PROVE  ExchangesLinked'
  BY <1>5 DEF Callback, Passes
<1>6. ASSUME NEW r \in Visits, NEW g \in Consents, Token(r, g)
     PROVE  ExchangesLinked'
  BY <1>6 DEF Token, TakeCode, Passes
<1>7. ASSUME NEW r \in Visits, GetState(r) PROVE ExchangesLinked'
  BY <1>7 DEF GetState, Leave
<1>8. ASSUME NEW r \in Visits, DropState(r) PROVE ExchangesLinked'
  BY <1>8 DEF DropState, Passes, DeleteState, CrashOnce
<1>9. ASSUME NEW r \in Visits, DropStateOnError(r) PROVE ExchangesLinked'
  BY <1>9 DEF DropStateOnError, Leave
<1>10. ASSUME NEW r \in Visits, Redeem(r) PROVE ExchangesLinked'
  BY <1>10 DEF Redeem, Leave
<1>11. ASSUME NEW r \in Visits, Lookup(r) PROVE ExchangesLinked'
  BY <1>11 DEF Lookup, Identified
<1>12. ASSUME NEW r \in Visits, NEW p \in Persons, CreateUser(r, p)
     PROVE  ExchangesLinked'
  BY <1>12 DEF CreateUser, Passes
<1>13. ASSUME NEW r \in Visits, CreateIdentity(r) PROVE ExchangesLinked'
  BY <1>13 DEF CreateIdentity, Refused, Leave
<1>14. ASSUME NEW r \in Visits, CreateCoreSession(r) PROVE ExchangesLinked'
  BY <1>14 DEF CreateCoreSession, Passes
<1>15. ASSUME NEW r \in Visits, IssueCode(r) PROVE ExchangesLinked'
  BY <1>15 DEF IssueCode, CrashOnce, Leave
<1>16. ASSUME NEW r \in Visits, TokenAnswer(r) PROVE ExchangesLinked'
  BY <1>16 DEF TokenAnswer, Leave
<1>17. ASSUME NEW r \in Visits, VisitDies(r) PROVE ExchangesLinked'
  BY <1>17 DEF VisitDies, CrashOnce, Leave
<1>18. CASE UNCHANGED oauthVars
  BY <1>18 DEF oauthVars, visitVars, accountVars, cacheVars, oauthHistory
<1> HIDE DEF OAuthTypeOK, VisitsLinked, ExchangesLinked
<1>19. QED
  BY <1>1, <1>2, <1>3, <1>4, <1>5, <1>6, <1>7, <1>8, <1>9, <1>10, <1>11, <1>12,
     <1>13, <1>14, <1>15, <1>16, <1>17, <1>18
     DEF OAuthNext

(* No request more that holds a state, and none opened: the bound stays.   *)
LEMMA StateHoldersFall ==
    ASSUME OAuthTypeOK, OAuthTypeOK', StatesCounted,
           UNCHANGED <<opened, peakState>>, crashes' = 0 => crashes = 0,
           \A s \in States : HoldingState(s)' \subseteq HoldingState(s)
    PROVE  StatesCounted'
<1> SUFFICES ASSUME crashes' = 0, NEW s \in States
             PROVE  opened'[s] + Cardinality(HoldingState(s)') <= peakState'
  BY DEF StatesCounted
<1>1. opened[s] + Cardinality(HoldingState(s)) <= peakState
  BY DEF StatesCounted
<1>2. Cardinality(HoldingState(s)') <= Cardinality(HoldingState(s))
  BY OAuthSets, FS_Subset
<1>3. opened[s] \in Nat /\ peakState \in Nat
  BY DEF OAuthTypeOK
<1>4. QED
  BY <1>1, <1>2, <1>3, OAuthSets, OAuthSetsNext

(* Fewer requests without an identity, and the same accounts.              *)
LEMMA SignUpsFall ==
    ASSUME OAuthTypeOK, OAuthTypeOK', UsersCounted,
           UNCHANGED <<persons, owner, peakNone, abandoned>>,
           AtUser' \subseteq AtUser, AtIdentity' = AtIdentity
    PROVE  UsersCounted'
<1>1. WithoutIdentity' \subseteq WithoutIdentity
  BY DEF WithoutIdentity, AtUser, AtIdentity
<1>2. /\ Cardinality(WithoutIdentity') <= Cardinality(WithoutIdentity)
      /\ Cardinality(AtUser') <= Cardinality(AtUser)
  BY <1>1, OAuthSets, FS_Subset
<1>3. /\ Cardinality(WithoutIdentity) \in Nat
      /\ Cardinality(WithoutIdentity') \in Nat
      /\ Cardinality(AtUser) \in Nat /\ Cardinality(AtUser') \in Nat
      /\ Cardinality(persons) \in Nat /\ peakNone \in Nat
      /\ abandoned \in Nat
  BY OAuthSets, OAuthSetsNext DEF OAuthTypeOK
<1>4. QED
  BY <1>2, <1>3 DEF UsersCounted

(* A state is used as often as it was held at most.                         *)
LEMMA StatesCountedStep ==
    ASSUME OAuthTypeOK, OAuthTypeOK', VisitsLinked, StatesUnspent,
           StatesCounted, [OAuthNext]_oauthVars
    PROVE  StatesCounted'
<1> USE DEF OAuthTypeOK, visitVars, accountVars, cacheVars, oauthHistory
<1>1. ASSUME NEW s \in States, Begun(s) PROVE StatesCounted'
  <2>1. /\ \A z \in States : HoldingState(z)' \subseteq HoldingState(z)
        /\ UNCHANGED <<opened, peakState>>
        /\ crashes' = 0 => crashes = 0
    BY <1>1 DEF Begun, CrashOnce, HoldingState, StateOf, VisitsLinked, Loaded
  <2>2. QED
    BY <2>1, StateHoldersFall
<1>2. ASSUME NEW s \in States, StateExpires(s) PROVE StatesCounted'
  <2>1. /\ \A z \in States : HoldingState(z)' \subseteq HoldingState(z)
        /\ UNCHANGED <<opened, peakState>>
        /\ crashes' = 0 => crashes = 0
    BY <1>2 DEF StateExpires, HoldingState, StateOf, VisitsLinked, Loaded
  <2>2. QED
    BY <2>1, StateHoldersFall
<1>3. ASSUME NEW g \in Consents, CodeExpired(g) PROVE StatesCounted'
  <2>1. /\ \A z \in States : HoldingState(z)' \subseteq HoldingState(z)
        /\ UNCHANGED <<opened, peakState>>
        /\ crashes' = 0 => crashes = 0
    BY <1>3 DEF CodeExpired, HoldingState, StateOf, VisitsLinked, Loaded
  <2>2. QED
    BY <2>1, StateHoldersFall
<1>4. ASSUME NEW g \in Consents, NEW s \in States, Consented(g, s)
     PROVE  StatesCounted'
  <2>1. /\ \A z \in States : HoldingState(z)' \subseteq HoldingState(z)
        /\ UNCHANGED <<opened, peakState>>
        /\ crashes' = 0 => crashes = 0
    BY <1>4, OAuthAssumption
    DEF Consented, HoldingState, StateOf, VisitsLinked, Loaded
  <2>2. QED
    BY <2>1, StateHoldersFall
<1>5. ASSUME NEW r \in Visits, NEW g \in Consents, Callback(r, g)
     PROVE  StatesCounted'
  <2>1. /\ \A z \in States : HoldingState(z)' \subseteq HoldingState(z)
        /\ UNCHANGED <<opened, peakState>>
        /\ crashes' = 0 => crashes = 0
    BY <1>5 DEF Callback, Passes, HoldingState, StateOf, VisitsLinked, Loaded
  <2>2. QED
    BY <2>1, StateHoldersFall
<1>6. ASSUME NEW r \in Visits, NEW g \in Consents, Token(r, g)
     PROVE  StatesCounted'
  <2>1. /\ \A z \in States : HoldingState(z)' \subseteq HoldingState(z)
        /\ UNCHANGED <<opened, peakState>>
        /\ crashes' = 0 => crashes = 0
    BY <1>6 DEF Token, TakeCode, Passes, HoldingState, StateOf, VisitsLinked,
     Loaded
  <2>2. QED
    BY <2>1, StateHoldersFall
<1>7. ASSUME NEW r \in Visits, GetState(r) PROVE StatesCounted'
  <2>0. PICK z : z = StateOf(r)
    OBVIOUS
  <2>1. CASE z \in pending /\ doing' = [doing EXCEPT ![r] = "drop"]
    <3>1. z \in States /\ UNCHANGED <<opened, crashes, consent, about>>
      BY <1>7, <2>0, <2>1 DEF GetState, Leave
    <3>2. peakState' = Highest(Cardinality(HoldingState(z)) + 1, peakState)
      BY <1>7, <2>0, <2>1 DEF GetState, Leave
    <3>3. Cardinality(HoldingState(z)) + 1 \in Nat /\ peakState \in Nat
      BY <3>1, OAuthSets
    <3>4. /\ Cardinality(HoldingState(z)) + 1 <= peakState'
          /\ peakState <= peakState' /\ peakState' \in Nat
      BY <3>2, <3>3, HighestType
    <3>5. HoldingState(z)' = HoldingState(z) \cup {r}
      BY <1>7, <2>0, <2>1, <3>1 DEF GetState, HoldingState, StateOf
    <3>6. \A s \in States \ {z} : HoldingState(s)' \subseteq HoldingState(s)
      BY <1>7, <2>0, <2>1, <3>1 DEF GetState, HoldingState, StateOf
    <3>7. SUFFICES ASSUME crashes = 0, NEW s \in States
                   PROVE  opened[s] + Cardinality(HoldingState(s)') <= peakState'
      BY <3>1 DEF StatesCounted
    <3>8. CASE s = z
      <4>1. opened[z] = 0
        BY <2>1, <3>7 DEF StatesUnspent
      <4>2. Cardinality(HoldingState(z)') <= Cardinality(HoldingState(z)) + 1
        BY <3>1, <3>5, OAuthSets, OneMore
      <4>3. QED
        BY <3>1, <3>3, <3>4, <3>8, <4>1, <4>2, OAuthSetsNext
    <3>9. CASE s # z
      <4>1. Cardinality(HoldingState(s)') <= Cardinality(HoldingState(s))
        BY <3>6, <3>9, OAuthSets, FS_Subset
      <4>2. opened[s] + Cardinality(HoldingState(s)) <= peakState
        BY <3>7 DEF StatesCounted
      <4>3. QED
        BY <3>4, <4>1, <4>2, OAuthSets, OAuthSetsNext
    <3>10. QED
      BY <3>8, <3>9
  <2>2. CASE UNCHANGED peakState /\ doing'[r] # "drop"
    <3>1. /\ \A s \in States : HoldingState(s)' \subseteq HoldingState(s)
          /\ UNCHANGED <<opened, crashes>>
      BY <1>7, <2>2 DEF GetState, Leave, HoldingState, StateOf
    <3>2. QED
      BY <2>2, <3>1, StateHoldersFall
  <2>3. QED
    BY <1>7, <2>0, <2>1, <2>2 DEF GetState, Leave
<1>8. ASSUME NEW r \in Visits, DropState(r) PROVE StatesCounted'
  <2>1. /\ \A z \in States : HoldingState(z)' \subseteq HoldingState(z)
        /\ UNCHANGED <<opened, peakState>>
        /\ crashes' = 0 => crashes = 0
    BY <1>8 DEF DropState, Passes, DeleteState, CrashOnce, HoldingState, StateOf,
     VisitsLinked, Loaded
  <2>2. QED
    BY <2>1, StateHoldersFall
<1>9. ASSUME NEW r \in Visits, DropStateOnError(r) PROVE StatesCounted'
  <2>1. /\ \A z \in States : HoldingState(z)' \subseteq HoldingState(z)
        /\ UNCHANGED <<opened, peakState>>
        /\ crashes' = 0 => crashes = 0
    BY <1>9 DEF DropStateOnError, Leave, HoldingState, StateOf, VisitsLinked,
     Loaded
  <2>2. QED
    BY <2>1, StateHoldersFall
<1>10. ASSUME NEW r \in Visits, Redeem(r) PROVE StatesCounted'
  <2>1. /\ \A z \in States : HoldingState(z)' \subseteq HoldingState(z)
        /\ UNCHANGED <<opened, peakState>>
        /\ crashes' = 0 => crashes = 0
    BY <1>10 DEF Redeem, Leave, HoldingState, StateOf, VisitsLinked, Loaded
  <2>2. QED
    BY <2>1, StateHoldersFall
<1>11. ASSUME NEW r \in Visits, Lookup(r) PROVE StatesCounted'
  <2>1. /\ \A z \in States : HoldingState(z)' \subseteq HoldingState(z)
        /\ UNCHANGED <<opened, peakState>>
        /\ crashes' = 0 => crashes = 0
    BY <1>11 DEF Lookup, Identified, HoldingState, StateOf, VisitsLinked, Loaded
  <2>2. QED
    BY <2>1, StateHoldersFall
<1>12. ASSUME NEW r \in Visits, NEW p \in Persons, CreateUser(r, p)
     PROVE  StatesCounted'
  <2>1. /\ \A z \in States : HoldingState(z)' \subseteq HoldingState(z)
        /\ UNCHANGED <<opened, peakState>>
        /\ crashes' = 0 => crashes = 0
    BY <1>12 DEF CreateUser, Passes, HoldingState, StateOf, VisitsLinked, Loaded
  <2>2. QED
    BY <2>1, StateHoldersFall
<1>13. ASSUME NEW r \in Visits, CreateIdentity(r) PROVE StatesCounted'
  <2>1. /\ \A z \in States : HoldingState(z)' \subseteq HoldingState(z)
        /\ UNCHANGED <<opened, peakState>>
        /\ crashes' = 0 => crashes = 0
    BY <1>13 DEF CreateIdentity, Refused, Leave, HoldingState, StateOf,
     VisitsLinked, Loaded
  <2>2. QED
    BY <2>1, StateHoldersFall
<1>14. ASSUME NEW r \in Visits, CreateCoreSession(r) PROVE StatesCounted'
  <2>0. PICK z : z = StateOf(r)
    OBVIOUS
  <2>1. /\ z \in States /\ UNCHANGED <<peakState, crashes>>
        /\ opened' = [opened EXCEPT ![z] = @ + 1]
    BY <1>14, <2>0 DEF CreateCoreSession, Passes, VisitsLinked, Loaded, StateOf
  <2>2. HoldingState(z)' = HoldingState(z) \ {r} /\ r \in HoldingState(z)
    BY <1>14, <2>0 DEF CreateCoreSession, Passes, HoldingState, StateOf
  <2>3. \A s \in States : HoldingState(s)' \subseteq HoldingState(s)
    BY <1>14, <2>0 DEF CreateCoreSession, Passes, HoldingState, StateOf
  <2>4. SUFFICES ASSUME crashes = 0, NEW s \in States
                 PROVE  opened'[s] + Cardinality(HoldingState(s)') <= peakState
    BY <2>1 DEF StatesCounted
  <2>5. opened[s] + Cardinality(HoldingState(s)) <= peakState
    BY <2>4 DEF StatesCounted
  <2>6. CASE s = z
    <3>1. opened'[z] = opened[z] + 1
      BY <2>1
    <3>2. Cardinality(HoldingState(z)') = Cardinality(HoldingState(z)) - 1
      BY <2>1, <2>2, OAuthSets, OneMore
    <3>3. QED
      BY <2>1, <2>5, <2>6, <3>1, <3>2, OAuthSets, OAuthSetsNext
  <2>7. CASE s # z
    <3>1. opened'[s] = opened[s]
      BY <2>1, <2>7
    <3>2. Cardinality(HoldingState(s)') <= Cardinality(HoldingState(s))
      BY <2>3, OAuthSets, FS_Subset
    <3>3. QED
      BY <2>5, <3>1, <3>2, OAuthSets, OAuthSetsNext
  <2>8. QED
    BY <2>6, <2>7
<1>15. ASSUME NEW r \in Visits, IssueCode(r) PROVE StatesCounted'
  <2>1. /\ \A z \in States : HoldingState(z)' \subseteq HoldingState(z)
        /\ UNCHANGED <<opened, peakState>>
        /\ crashes' = 0 => crashes = 0
    BY <1>15 DEF IssueCode, CrashOnce, Leave, HoldingState, StateOf, VisitsLinked,
     Loaded
  <2>2. QED
    BY <2>1, StateHoldersFall
<1>16. ASSUME NEW r \in Visits, TokenAnswer(r) PROVE StatesCounted'
  <2>1. /\ \A z \in States : HoldingState(z)' \subseteq HoldingState(z)
        /\ UNCHANGED <<opened, peakState>>
        /\ crashes' = 0 => crashes = 0
    BY <1>16 DEF TokenAnswer, Leave, HoldingState, StateOf, VisitsLinked, Loaded
  <2>2. QED
    BY <2>1, StateHoldersFall
<1>17. ASSUME NEW r \in Visits, VisitDies(r) PROVE StatesCounted'
  <2>1. /\ \A z \in States : HoldingState(z)' \subseteq HoldingState(z)
        /\ UNCHANGED <<opened, peakState>>
        /\ crashes' = 0 => crashes = 0
    BY <1>17 DEF VisitDies, CrashOnce, Leave, HoldingState, StateOf, VisitsLinked,
     Loaded
  <2>2. QED
    BY <2>1, StateHoldersFall
<1>18. CASE UNCHANGED oauthVars
  <2>1. /\ \A s \in States : HoldingState(s)' \subseteq HoldingState(s)
        /\ UNCHANGED <<opened, peakState, crashes>>
    BY <1>18 DEF oauthVars, HoldingState, StateOf
  <2>2. QED
    BY <2>1, StateHoldersFall
<1> HIDE DEF OAuthTypeOK
<1>19. QED
  BY <1>1, <1>2, <1>3, <1>4, <1>5, <1>6, <1>7, <1>8, <1>9, <1>10, <1>11, <1>12,
     <1>13, <1>14, <1>15, <1>16, <1>17, <1>18
     DEF OAuthNext

(* A sign-up without an identity is before its user or after it.           *)
LEMMA SignUpsSplit ==
    ASSUME OAuthTypeOK
    PROVE  Cardinality(AtUser) + Cardinality(AtIdentity)
               <= Cardinality(WithoutIdentity)
<1>1. /\ WithoutIdentity = AtUser \cup AtIdentity
      /\ AtUser \cap AtIdentity = {}
  BY DEF WithoutIdentity, AtUser, AtIdentity
<1>2. /\ Cardinality(AtUser \cup AtIdentity)
           = Cardinality(AtUser) + Cardinality(AtIdentity)
               - Cardinality(AtUser \cap AtIdentity)
  BY OAuthSets, FS_Union
<1>3. Cardinality(AtUser \cap AtIdentity) = 0
  BY <1>1, FS_EmptySet
<1>4. QED
  BY <1>1, <1>2, <1>3, OAuthSets

(* The users of the profile stay within the sign-ups that overlapped.       *)
LEMMA UsersCountedStep ==
    ASSUME OAuthTypeOK, OAuthTypeOK', VisitsLinked, UsersCounted,
           [OAuthNext]_oauthVars
    PROVE  UsersCounted'
<1> USE DEF OAuthTypeOK, visitVars, accountVars, cacheVars, oauthHistory
<1>1. ASSUME NEW s \in States, Begun(s) PROVE UsersCounted'
  <2>1. /\ AtUser' \subseteq AtUser /\ AtIdentity' = AtIdentity
        /\ UNCHANGED <<persons, owner, peakNone, abandoned>>
    BY <1>1 DEF Begun, CrashOnce, AtUser, AtIdentity
  <2>2. QED
    BY <2>1, SignUpsFall
<1>2. ASSUME NEW s \in States, StateExpires(s) PROVE UsersCounted'
  <2>1. /\ AtUser' \subseteq AtUser /\ AtIdentity' = AtIdentity
        /\ UNCHANGED <<persons, owner, peakNone, abandoned>>
    BY <1>2 DEF StateExpires, AtUser, AtIdentity
  <2>2. QED
    BY <2>1, SignUpsFall
<1>3. ASSUME NEW g \in Consents, CodeExpired(g) PROVE UsersCounted'
  <2>1. /\ AtUser' \subseteq AtUser /\ AtIdentity' = AtIdentity
        /\ UNCHANGED <<persons, owner, peakNone, abandoned>>
    BY <1>3 DEF CodeExpired, AtUser, AtIdentity
  <2>2. QED
    BY <2>1, SignUpsFall
<1>4. ASSUME NEW g \in Consents, NEW s \in States, Consented(g, s)
     PROVE  UsersCounted'
  <2>1. /\ AtUser' \subseteq AtUser /\ AtIdentity' = AtIdentity
        /\ UNCHANGED <<persons, owner, peakNone, abandoned>>
    BY <1>4 DEF Consented, AtUser, AtIdentity
  <2>2. QED
    BY <2>1, SignUpsFall
<1>5. ASSUME NEW r \in Visits, NEW g \in Consents, Callback(r, g)
     PROVE  UsersCounted'
  <2>1. /\ AtUser' \subseteq AtUser /\ AtIdentity' = AtIdentity
        /\ UNCHANGED <<persons, owner, peakNone, abandoned>>
    BY <1>5 DEF Callback, Passes, AtUser, AtIdentity
  <2>2. QED
    BY <2>1, SignUpsFall
<1>6. ASSUME NEW r \in Visits, NEW g \in Consents, Token(r, g)
     PROVE  UsersCounted'
  <2>1. /\ AtUser' \subseteq AtUser /\ AtIdentity' = AtIdentity
        /\ UNCHANGED <<persons, owner, peakNone, abandoned>>
    BY <1>6 DEF Token, TakeCode, Passes, AtUser, AtIdentity
  <2>2. QED
    BY <2>1, SignUpsFall
<1>7. ASSUME NEW r \in Visits, GetState(r) PROVE UsersCounted'
  <2>1. /\ AtUser' \subseteq AtUser /\ AtIdentity' = AtIdentity
        /\ UNCHANGED <<persons, owner, peakNone, abandoned>>
    BY <1>7 DEF GetState, Leave, AtUser, AtIdentity
  <2>2. QED
    BY <2>1, SignUpsFall
<1>8. ASSUME NEW r \in Visits, DropState(r) PROVE UsersCounted'
  <2>1. /\ AtUser' \subseteq AtUser /\ AtIdentity' = AtIdentity
        /\ UNCHANGED <<persons, owner, peakNone, abandoned>>
    BY <1>8 DEF DropState, Passes, DeleteState, CrashOnce, AtUser, AtIdentity
  <2>2. QED
    BY <2>1, SignUpsFall
<1>9. ASSUME NEW r \in Visits, DropStateOnError(r) PROVE UsersCounted'
  <2>1. /\ AtUser' \subseteq AtUser /\ AtIdentity' = AtIdentity
        /\ UNCHANGED <<persons, owner, peakNone, abandoned>>
    BY <1>9 DEF DropStateOnError, Leave, AtUser, AtIdentity
  <2>2. QED
    BY <2>1, SignUpsFall
<1>10. ASSUME NEW r \in Visits, Redeem(r) PROVE UsersCounted'
  <2>1. /\ AtUser' \subseteq AtUser /\ AtIdentity' = AtIdentity
        /\ UNCHANGED <<persons, owner, peakNone, abandoned>>
    BY <1>10 DEF Redeem, Leave, AtUser, AtIdentity
  <2>2. QED
    BY <2>1, SignUpsFall
<1>11. ASSUME NEW r \in Visits, Lookup(r) PROVE UsersCounted'
  <2>1. CASE Identified
    <3>1. /\ AtUser' \subseteq AtUser /\ AtIdentity' = AtIdentity
          /\ UNCHANGED <<persons, owner, peakNone, abandoned>>
      BY <1>11, <2>1 DEF Lookup, AtUser, AtIdentity
    <3>2. QED
      BY <3>1, SignUpsFall
  <2>2. CASE ~ Identified
    <3>1. /\ WithoutIdentity' = WithoutIdentity \cup {r}
          /\ AtIdentity' = AtIdentity
          /\ UNCHANGED <<persons, owner, abandoned>> /\ owner = NoPerson
          /\ peakNone' = Highest(Cardinality(WithoutIdentity) + 1, peakNone)
      BY <1>11, <2>2 DEF Lookup, WithoutIdentity, AtIdentity, Identified
    <3>2. Cardinality(WithoutIdentity') <= Cardinality(WithoutIdentity) + 1
      BY <3>1, OAuthSets, OneMore
    <3>3. Cardinality(WithoutIdentity) + 1 \in Nat /\ peakNone \in Nat
      BY OAuthSets
    <3>4. Cardinality(WithoutIdentity) + 1 <= peakNone' /\ peakNone' \in Nat
      BY <3>1, <3>3, HighestType
    <3>5. Cardinality(WithoutIdentity') <= peakNone'
      BY <3>2, <3>3, <3>4, OAuthSetsNext
    <3>6. QED
      BY <3>1, <3>5 DEF UsersCounted
  <2>3. QED
    BY <2>1, <2>2
<1>12. ASSUME NEW r \in Visits, NEW p \in Persons, CreateUser(r, p)
     PROVE  UsersCounted'
  <2>1. /\ WithoutIdentity' = WithoutIdentity
        /\ AtUser' = AtUser \ {r} /\ r \in AtUser
        /\ AtIdentity' = AtIdentity \cup {r} /\ r \notin AtIdentity
        /\ persons' = persons \cup {p} /\ p \notin persons
        /\ UNCHANGED <<owner, peakNone, abandoned>>
    BY <1>12 DEF CreateUser, Passes, WithoutIdentity, AtUser, AtIdentity
  <2>2. /\ Cardinality(AtUser') = Cardinality(AtUser) - 1
        /\ Cardinality(AtIdentity') = Cardinality(AtIdentity) + 1
        /\ Cardinality(persons') = Cardinality(persons) + 1
    BY <2>1, OAuthSets, FS_AddElement, FS_RemoveElement
  <2>3. /\ Cardinality(WithoutIdentity) \in Nat
        /\ Cardinality(WithoutIdentity') \in Nat
        /\ Cardinality(AtUser) \in Nat /\ Cardinality(AtUser') \in Nat
        /\ Cardinality(AtIdentity) \in Nat /\ Cardinality(AtIdentity') \in Nat
        /\ Cardinality(persons) \in Nat /\ Cardinality(persons') \in Nat
        /\ peakNone \in Nat /\ abandoned \in Nat
    BY OAuthSets, OAuthSetsNext
  <2>4. QED
    BY <2>1, <2>2, <2>3 DEF UsersCounted
<1>13. ASSUME NEW r \in Visits, CreateIdentity(r) PROVE UsersCounted'
  <2>1. /\ AtUser' = AtUser
        /\ WithoutIdentity' = WithoutIdentity \ {r}
        /\ UNCHANGED <<persons, peakNone, abandoned>>
    BY <1>13 DEF CreateIdentity, Leave, WithoutIdentity, AtUser
  <2>2. Cardinality(WithoutIdentity') <= Cardinality(WithoutIdentity)
    BY <2>1, OAuthSets, FS_Subset
  <2>3. /\ Cardinality(WithoutIdentity) \in Nat
        /\ Cardinality(WithoutIdentity') \in Nat
        /\ Cardinality(AtUser) \in Nat /\ Cardinality(AtUser') \in Nat
        /\ Cardinality(AtIdentity) \in Nat /\ Cardinality(AtIdentity') \in Nat
        /\ Cardinality(persons) \in Nat /\ Cardinality(persons') \in Nat
        /\ peakNone \in Nat /\ abandoned \in Nat
    BY OAuthSets, OAuthSetsNext
  <2>4. CASE Refused(r)
    <3>1. UNCHANGED owner /\ owner # NoPerson
      BY <1>13, <2>4 DEF CreateIdentity, Refused
    <3>2. QED
      BY <2>1, <2>2, <2>3, <3>1 DEF UsersCounted
  <2>5. CASE ~ Refused(r)
    <3>1. owner = NoPerson /\ owner' # NoPerson
      BY <1>13, <2>5, OAuthAssumption DEF CreateIdentity, Refused, VisitsLinked
    <3>2. Cardinality(AtUser) + Cardinality(AtIdentity)
              <= Cardinality(WithoutIdentity)
      BY SignUpsSplit
    <3>3. QED
      BY <2>1, <2>2, <2>3, <3>1, <3>2 DEF UsersCounted
  <2>6. QED
    BY <2>4, <2>5
<1>14. ASSUME NEW r \in Visits, CreateCoreSession(r) PROVE UsersCounted'
  <2>1. /\ AtUser' \subseteq AtUser /\ AtIdentity' = AtIdentity
        /\ UNCHANGED <<persons, owner, peakNone, abandoned>>
    BY <1>14 DEF CreateCoreSession, Passes, AtUser, AtIdentity
  <2>2. QED
    BY <2>1, SignUpsFall
<1>15. ASSUME NEW r \in Visits, IssueCode(r) PROVE UsersCounted'
  <2>1. /\ AtUser' \subseteq AtUser /\ AtIdentity' = AtIdentity
        /\ UNCHANGED <<persons, owner, peakNone, abandoned>>
    BY <1>15 DEF IssueCode, CrashOnce, Leave, AtUser, AtIdentity
  <2>2. QED
    BY <2>1, SignUpsFall
<1>16. ASSUME NEW r \in Visits, TokenAnswer(r) PROVE UsersCounted'
  <2>1. /\ AtUser' \subseteq AtUser /\ AtIdentity' = AtIdentity
        /\ UNCHANGED <<persons, owner, peakNone, abandoned>>
    BY <1>16 DEF TokenAnswer, Leave, AtUser, AtIdentity
  <2>2. QED
    BY <2>1, SignUpsFall
<1>17. ASSUME NEW r \in Visits, VisitDies(r) PROVE UsersCounted'
  <2>1. CASE doing[r] = "identity"
    <3>1. /\ AtUser' = AtUser /\ WithoutIdentity' \subseteq WithoutIdentity
          /\ AtIdentity' = AtIdentity \ {r} /\ r \in AtIdentity
          /\ UNCHANGED <<persons, owner, peakNone>>
          /\ abandoned' = abandoned + 1
      BY <1>17, <2>1 DEF VisitDies, Leave, WithoutIdentity, AtUser, AtIdentity
    <3>2. Cardinality(AtIdentity') = Cardinality(AtIdentity) - 1
      BY <3>1, OAuthSets, FS_RemoveElement
    <3>3. Cardinality(WithoutIdentity') <= Cardinality(WithoutIdentity)
      BY <3>1, OAuthSets, FS_Subset
    <3>4. /\ Cardinality(WithoutIdentity) \in Nat
          /\ Cardinality(WithoutIdentity') \in Nat
          /\ Cardinality(AtUser) \in Nat /\ Cardinality(AtUser') \in Nat
          /\ Cardinality(AtIdentity) \in Nat /\ Cardinality(AtIdentity') \in Nat
          /\ Cardinality(persons) \in Nat /\ Cardinality(persons') \in Nat
          /\ peakNone \in Nat /\ abandoned \in Nat
      BY OAuthSets, OAuthSetsNext
    <3>5. QED
      BY <3>1, <3>2, <3>3, <3>4 DEF UsersCounted
  <2>2. CASE doing[r] # "identity"
    <3>1. /\ AtUser' \subseteq AtUser /\ AtIdentity' = AtIdentity
          /\ UNCHANGED <<persons, owner, peakNone, abandoned>>
      BY <1>17, <2>2 DEF VisitDies, Leave, AtUser, AtIdentity
    <3>2. QED
      BY <3>1, SignUpsFall
  <2>3. QED
    BY <2>1, <2>2
<1>18. CASE UNCHANGED oauthVars
  <2>1. /\ AtUser' \subseteq AtUser /\ AtIdentity' = AtIdentity
        /\ UNCHANGED <<persons, owner, peakNone, abandoned>>
    BY <1>18 DEF oauthVars, AtUser, AtIdentity
  <2>2. QED
    BY <2>1, SignUpsFall
<1> HIDE DEF OAuthTypeOK
<1>19. QED
  BY <1>1, <1>2, <1>3, <1>4, <1>5, <1>6, <1>7, <1>8, <1>9, <1>10, <1>11, <1>12,
     <1>13, <1>14, <1>15, <1>16, <1>17, <1>18
     DEF OAuthNext

-----------------------------------------------------------------------------
(* Nothing is pending, and there is no user.                               *)
LEMMA OAuthBegin ==
    OAuthInit => OAuthInductive
<1> SUFFICES ASSUME OAuthInit PROVE OAuthInductive
  OBVIOUS
<1>1. OAuthTypeOK
  BY DEF OAuthInit, OAuthTypeOK, VisitStage
<1>2. VisitsLinked /\ ServedOwner /\ StatesUnspent /\ ExchangesLinked
  BY OAuthAssumption DEF OAuthInit, VisitsLinked, ServedOwner, StatesUnspent,
     ExchangesLinked, Loaded, PastDrop, Exchanging
<1>3. /\ persons = {} /\ WithoutIdentity = {} /\ AtUser = {}
      /\ AtIdentity = {} /\ \A s \in States : HoldingState(s) = {}
  BY DEF OAuthInit, WithoutIdentity, AtUser, AtIdentity, HoldingState
<1>4. StatesCounted /\ UsersCounted
  BY <1>3, FS_EmptySet DEF OAuthInit, StatesCounted, UsersCounted
<1>5. QED
  BY <1>1, <1>2, <1>4 DEF OAuthInductive

THEOREM OAuthInvariant == OAuthSpec => []OAuthInductive
<1>1. OAuthInductive /\ [OAuthNext]_oauthVars => OAuthInductive'
  BY OAuthTypeStep, VisitStep, ServedStep, UnspentStep, StatesCountedStep,
     UsersCountedStep, ExchangeStep DEF OAuthInductive
<1>2. QED
  BY OAuthBegin, <1>1, PTL DEF OAuthSpec

(* The types of states, consents, accounts, requests and history.          *)
THEOREM OAuthTyped == OAuthSpec => []OAuthTypeOK
<1>1. OAuthInductive => OAuthTypeOK
  BY DEF OAuthInductive
<1>2. QED
  BY OAuthInvariant, <1>1, PTL

(* A state is used by no more callbacks than had read it together.         *)
THEOREM StateUses == OAuthSpec => []StateUsesBounded
<1>1. OAuthInductive => StateUsesBounded
  <2> SUFFICES ASSUME OAuthInductive, crashes = 0, NEW s \in States
               PROVE  opened[s] <= peakState
    BY DEF StateUsesBounded
  <2>1. opened[s] + Cardinality(HoldingState(s)) <= peakState
    BY DEF OAuthInductive, StatesCounted
  <2>2. /\ opened[s] \in Nat /\ peakState \in Nat
        /\ Cardinality(HoldingState(s)) \in Nat
    BY OAuthSets DEF OAuthInductive, OAuthTypeOK
  <2>3. QED
    BY <2>1, <2>2
<1>2. QED
  BY OAuthInvariant, <1>1, PTL

(* Of all the users that sign-ups at once may make, one is ever served.    *)
THEOREM ServedIsOwner == OAuthSpec => []OneAccountServed
<1>1. OAuthInductive => OneAccountServed
  BY DEF OAuthInductive, ServedOwner, OneAccountServed
<1>2. QED
  BY OAuthInvariant, <1>1, PTL

(* The profile's users are as many as sign-ups overlapped or were dropped. *)
THEOREM UserLimit == OAuthSpec => []UsersBounded
<1>1. OAuthInductive => UsersBounded
  <2> SUFFICES ASSUME OAuthInductive PROVE UsersBounded
    OBVIOUS
  <2>1. OAuthTypeOK /\ UsersCounted
    BY DEF OAuthInductive
  <2>2. Cardinality(AtUser) + Cardinality(AtIdentity)
            <= Cardinality(WithoutIdentity)
    BY <2>1, SignUpsSplit
  <2>3. /\ Cardinality(AtUser) \in Nat /\ Cardinality(AtIdentity) \in Nat
        /\ Cardinality(WithoutIdentity) \in Nat
        /\ Cardinality(persons) \in Nat
        /\ peakNone \in Nat /\ abandoned \in Nat
    BY <2>1, OAuthSets DEF OAuthTypeOK
  <2>4. QED
    BY <2>1, <2>2, <2>3 DEF UsersCounted, UsersBounded
<1>2. QED
  BY OAuthInvariant, <1>1, PTL

(* An exchange code is worth one token.                                    *)
THEOREM ExchangeOnce == OAuthSpec => []ExchangedOnce
<1>1. OAuthInductive => ExchangedOnce
  BY DEF OAuthInductive, ExchangesLinked, ExchangedOnce
<1>2. QED
  BY OAuthInvariant, <1>1, PTL

=============================================================================
