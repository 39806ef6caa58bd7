------------------------- MODULE LicenseSeatsProofs -------------------------
(* Theorems about LicenseSeats, for every value of its constants.          *)
EXTENDS LicenseSeats, FiniteSetTheorems, TLAPS

(* What a stage says of the call and of the license: an activation is      *)
(* about a device, and whoever has read the license leaves a row behind.   *)
Staged ==
    \A c \in Calls :
        /\ at[c] \in Activating \cup {"owned", "release"} => dev[c] \in Devices
        /\ at[c] \in {"device", "count", "insert", "patch", "revoke", "commit"}
           => licence # "none"

(* The highest cap bounds the present one and what activations have read.  *)
CapsFollow ==
    topCap # Unlimited =>
        /\ licence # "none" => (cap # Unlimited /\ cap <= topCap)
        /\ \A c \in Calls : at[c] \in {"device", "count", "insert"}
                             => (max[c] # Unlimited /\ max[c] <= topCap)

(* Seats that are taken and seats that are about to be.                    *)
SeatsCounted ==
    topCap # Unlimited =>
        Cardinality(Active) + Cardinality(Inserting) <= topCap - 1 + peak

(* An open removal has noted all that may undo it: the calls under way,    *)
(* and those behind a session or a seat that it does not hold.             *)
RemovalNotes ==
    \A c \in Calls : at[c] \in Removing =>
        /\ \A o \in Calls :
              /\ at[o] \in Activating => dev[o] \in seen[c]
              /\ at[o] \in SigningIn => "signIn" \in seen[c]
              /\ at[o] \in Granting => "grant" \in seen[c]
        /\ ~ sessions \subseteq held[c] => "signIn" \in seen[c]
        /\ at[c] = "commit" => Active \subseteq held[c] \cup seen[c]

(* What a removal has left, and what may still come.                       *)
RemovalHolds ==
    removed =>
        \/ "signIn" \in crossed \/ "grant" \in crossed
        \/ /\ sessions = {} /\ licence # "live"
           /\ Active \subseteq crossed
           /\ \A o \in Calls : /\ at[o] \in Activating => dev[o] \in crossed
                               /\ at[o] \notin SigningIn \cup Granting

SeatsInductive ==
    SeatsTypeOK /\ Staged /\ CapsFollow /\ SeatsCounted /\ RemovalNotes
    /\ RemovalHolds

-----------------------------------------------------------------------------
(* The sets that are counted are finite, and so have a size.               *)
LEMMA SeatSets ==
    /\ Active \subseteq Devices /\ IsFiniteSet(Active)
    /\ Cardinality(Active) \in Nat
    /\ Inserting \subseteq Calls /\ IsFiniteSet(Inserting)
    /\ Cardinality(Inserting) \in Nat
<1>1. Active \subseteq Devices /\ Inserting \subseteq Calls
  BY DEF Active, Inserting
<1>2. IsFiniteSet(Active) /\ IsFiniteSet(Inserting)
  BY <1>1, FS_Subset, SeatsAssumption
<1>3. QED
  BY <1>1, <1>2, FS_CardinalityType

LEMMA SeatSetsNext ==
    /\ Active' \subseteq Devices /\ IsFiniteSet(Active')
    /\ Cardinality(Active') \in Nat
    /\ Inserting' \subseteq Calls /\ IsFiniteSet(Inserting')
    /\ Cardinality(Inserting') \in Nat
<1>1. Active' \subseteq Devices /\ Inserting' \subseteq Calls
  BY DEF Active, Inserting
<1>2. IsFiniteSet(Active') /\ IsFiniteSet(Inserting')
  BY <1>1, FS_Subset, SeatsAssumption
<1>3. QED
  BY <1>1, <1>2, FS_CardinalityType

(* A call notes itself in the removals that are open.                     *)
LEMMA OverlapTypes ==
    ASSUME SeatsTypeOK, NEW mark \in Mark, Overlap(mark)
    PROVE  seen' \in [Calls -> SUBSET Mark]
BY DEF SeatsTypeOK, Overlap

LEMMA MarksInFlight ==
    ASSUME SeatsTypeOK, Staged
    PROVE  InFlight \subseteq Mark
BY DEF SeatsTypeOK, Staged, InFlight, Mark, Activating

(* Every step keeps the types.                                              *)
LEMMA SeatsTypeStep ==
    ASSUME SeatsTypeOK, Staged, [SeatsNext]_seatsVars
    PROVE  SeatsTypeOK'
<1> USE SeatsAssumption DEF SeatsTypeOK, Mark, Cap, SeatsStage, Activating, SigningIn, Granting, Removing,
        rowVars, callVars, capHistory, removalVars
<1>1. ASSUME NEW c \in Calls, NEW d \in Devices, Activate(c, d)
     PROVE  SeatsTypeOK'
  <2>1. d \in Mark
    BY DEF Mark
  <2>2. QED
    BY <1>1, <2>1, OverlapTypes DEF Activate, Starts, Goes
<1>2. ASSUME NEW c \in Calls, NEW d \in Devices, Deactivate(c, d)
     PROVE  SeatsTypeOK'
  BY <1>2 DEF Deactivate, Starts, Goes
<1>3. ASSUME NEW c \in Calls, ActivateLicense(c) PROVE SeatsTypeOK'
  BY <1>3 DEF ActivateLicense, Answered
<1>4. ASSUME NEW c \in Calls, ActivateDevice(c) PROVE SeatsTypeOK'
  BY <1>4 DEF ActivateDevice, Answered
<1>5. ASSUME NEW c \in Calls, ActivateCount(c) PROVE SeatsTypeOK'
  <2>1. Cardinality(Inserting) \in Nat
    BY SeatSets
  <2>2. QED
    BY <1>5, <2>1 DEF ActivateCount, Answered
<1>6. ASSUME NEW c \in Calls, ActivateInsert(c) PROVE SeatsTypeOK'
  BY <1>6 DEF ActivateInsert, Answered, InsertActivation
<1>7. ASSUME NEW c \in Calls, DeactivateLicense(c) PROVE SeatsTypeOK'
  BY <1>7 DEF DeactivateLicense, Answered
<1>8. ASSUME NEW c \in Calls, DeactivateDevice(c) PROVE SeatsTypeOK'
  BY <1>8 DEF DeactivateDevice, Answered
<1>9. ASSUME NEW c \in Calls, SignIn(c) PROVE SeatsTypeOK'
  <2>1. "signIn" \in Mark
    BY DEF Mark
  <2>2. seen' \in [Calls -> SUBSET Mark]
    BY <1>9, <2>1, OverlapTypes DEF SignIn
  <2>3. removed' \in BOOLEAN /\ crossed' \subseteq Mark
    BY <1>9 DEF SignIn
  <2>4. /\ at' \in [Calls -> SeatsStage] /\ begun' \in Nat
        /\ UNCHANGED <<rowVars, seat, sessions, member, dev, max, capHistory,
                       held>>
    BY <1>9 DEF SignIn, Starts, Goes
  <2>5. QED
    BY <2>2, <2>3, <2>4
<1>10. ASSUME NEW c \in Calls, Ensure(c) PROVE SeatsTypeOK'
  BY <1>10 DEF Ensure
<1>11. ASSUME NEW c \in Calls, EnsureAny(c) PROVE SeatsTypeOK'
  BY <1>11 DEF EnsureAny
<1>12. ASSUME NEW c \in Calls, EnsureCreate(c) PROVE SeatsTypeOK'
  BY <1>12 DEF EnsureCreate, Goes, FreshLicense, SetCap
<1>13. ASSUME NEW c \in Calls, EnsureRevive(c) PROVE SeatsTypeOK'
  BY <1>13 DEF EnsureRevive, Goes, FreshLicense, SetCap
<1>14. ASSUME NEW c \in Calls, Join(c) PROVE SeatsTypeOK'
  BY <1>14 DEF Join, Goes
<1>15. ASSUME NEW c \in Calls, SignInFails(c) PROVE SeatsTypeOK'
  BY <1>15 DEF SignInFails
<1>16. ASSUME NEW c \in Calls, NEW s \in Sessions, CreateSession(c, s)
     PROVE  SeatsTypeOK'
  BY <1>16 DEF CreateSession, Goes
<1>17. ASSUME NEW c \in Calls, Grant(c) PROVE SeatsTypeOK'
  <2>1. "grant" \in Mark
    BY DEF Mark
  <2>2. seen' \in [Calls -> SUBSET Mark]
    BY <1>17, <2>1, OverlapTypes DEF Grant
  <2>3. removed' \in BOOLEAN /\ crossed' \subseteq Mark
    BY <1>17 DEF Grant
  <2>4. /\ at' \in [Calls -> SeatsStage] /\ begun' \in Nat
        /\ UNCHANGED <<rowVars, seat, sessions, member, dev, max, capHistory,
                       held>>
    BY <1>17 DEF Grant, Starts, Goes
  <2>5. QED
    BY <2>2, <2>3, <2>4
<1>18. ASSUME NEW c \in Calls, GrantFind(c) PROVE SeatsTypeOK'
  BY <1>18 DEF GrantFind
<1>19. ASSUME NEW c \in Calls, NEW k \in Cap, GrantWrite(c, k)
     PROVE  SeatsTypeOK'
  BY <1>19 DEF GrantWrite, SetCap
<1>20. ASSUME NEW c \in Calls, Patch(c) PROVE SeatsTypeOK'
  BY <1>20 DEF Patch, Starts, Goes
<1>21. ASSUME NEW c \in Calls, NEW u \in BOOLEAN, NEW k \in Cap,
            PatchWrite(c, u, k)
     PROVE  SeatsTypeOK'
  BY <1>21 DEF PatchWrite, Goes, SetCap
<1>22. ASSUME NEW c \in Calls, Revoke(c) PROVE SeatsTypeOK'
  BY <1>22 DEF Revoke, Starts, Goes
<1>23. ASSUME NEW c \in Calls, NEW free \in BOOLEAN, RevokeWrite(c, free)
     PROVE  SeatsTypeOK'
  BY <1>23 DEF RevokeWrite, Goes
<1>24. ASSUME NEW c \in Calls, Remove(c) PROVE SeatsTypeOK'
  <2>1. InFlight \subseteq Mark
    BY MarksInFlight
  <2>2. QED
    BY <1>24, <2>1 DEF Remove, Starts, Goes
<1>25. ASSUME NEW c \in Calls, RemoveSeats(c) PROVE SeatsTypeOK'
  <2>1. Active \subseteq Devices
    BY SeatSets
  <2>2. QED
    BY <1>25, <2>1 DEF RemoveSeats
<1>26. ASSUME NEW c \in Calls, RemoveCommit(c) PROVE SeatsTypeOK'
  <2>1. removed' \in BOOLEAN
    BY <1>26 DEF RemoveCommit
  <2>2. crossed' \subseteq Mark
    BY <1>26 DEF RemoveCommit
  <2>3. /\ licence' \in {"none", "live", "deleted"}
        /\ seat' \in [Devices -> {"none", "active", "off"}]
        /\ sessions' \subseteq Sessions /\ member' \in BOOLEAN
        /\ at' \in [Calls -> SeatsStage]
        /\ held' \in [Calls -> SUBSET (Devices \cup Sessions)]
        /\ seen' \in [Calls -> SUBSET Mark]
    BY <1>26 DEF RemoveCommit, DropHeld
  <2>4. UNCHANGED <<usable, cap, callVars, capHistory>>
    BY <1>26 DEF RemoveCommit
  <2>5. QED
    BY <2>1, <2>2, <2>3, <2>4
<1>27. ASSUME NEW c \in Calls, RemoveFails(c) PROVE SeatsTypeOK'
  BY <1>27 DEF RemoveFails
<1>28. CASE UNCHANGED seatsVars
  BY <1>28 DEF seatsVars, rowVars, callVars, capHistory, removalVars
<1> HIDE DEF SeatsTypeOK
<1>29. QED
  BY <1>1, <1>2, <1>3, <1>4, <1>5, <1>6, <1>7, <1>8, <1>9, <1>10, <1>11, <1>12,
     <1>13, <1>14, <1>15, <1>16, <1>17, <1>18, <1>19, <1>20, <1>21, <1>22,
     <1>23, <1>24, <1>25, <1>26, <1>27, <1>28
     DEF SeatsNext

(* Stages keep what they say.                                               *)
LEMMA StagedStep ==
    ASSUME SeatsTypeOK, Staged, [SeatsNext]_seatsVars
    PROVE  Staged'
<1> USE DEF SeatsTypeOK, Staged, Activating, Removing,
        rowVars, callVars, capHistory, removalVars
<1>1. ASSUME NEW c \in Calls, NEW d \in Devices, Activate(c, d) PROVE Staged'
  BY <1>1 DEF Activate, Starts, Goes, Overlap
<1>2. ASSUME NEW c \in Calls, NEW d \in Devices, Deactivate(c, d) PROVE Staged'
  BY <1>2 DEF Deactivate, Starts, Goes
<1>3. ASSUME NEW c \in Calls, ActivateLicense(c) PROVE Staged'
  BY <1>3 DEF ActivateLicense, Answered
<1>4. ASSUME NEW c \in Calls, ActivateDevice(c) PROVE Staged'
  BY <1>4 DEF ActivateDevice, Answered
<1>5. ASSUME NEW c \in Calls, ActivateCount(c) PROVE Staged'
  BY <1>5 DEF ActivateCount, Answered
<1>6. ASSUME NEW c \in Calls, ActivateInsert(c) PROVE Staged'
  BY <1>6 DEF ActivateInsert, Answered, InsertActivation
<1>7. ASSUME NEW c \in Calls, DeactivateLicense(c) PROVE Staged'
  BY <1>7 DEF DeactivateLicense, Answered
<1>8. ASSUME NEW c \in Calls, DeactivateDevice(c) PROVE Staged'
  BY <1>8 DEF DeactivateDevice, Answered
<1>9. ASSUME NEW c \in Calls, SignIn(c) PROVE Staged'
  BY <1>9 DEF SignIn, Starts, Goes, Overlap
<1>10. ASSUME NEW c \in Calls, Ensure(c) PROVE Staged'
  BY <1>10 DEF Ensure
<1>11. ASSUME NEW c \in Calls, EnsureAny(c) PROVE Staged'
  BY <1>11 DEF EnsureAny
<1>12. ASSUME NEW c \in Calls, EnsureCreate(c) PROVE Staged'
  BY <1>12 DEF EnsureCreate, Goes, FreshLicense, SetCap
<1>13. ASSUME NEW c \in Calls, EnsureRevive(c) PROVE Staged'
  BY <1>13 DEF EnsureRevive, Goes, FreshLicense, SetCap
<1>14. ASSUME NEW c \in Calls, Join(c) PROVE Staged'
  BY <1>14 DEF Join, Goes
<1>15. ASSUME NEW c \in Calls, SignInFails(c) PROVE Staged'
  BY <1>15 DEF SignInFails
<1>16. ASSUME NEW c \in Calls, NEW s \in Sessions, CreateSession(c, s)
     PROVE  Staged'
  BY <1>16 DEF CreateSession, Goes
<1>17. ASSUME NEW c \in Calls, Grant(c) PROVE Staged'
  BY <1>17 DEF Grant, Starts, Goes, Overlap
<1>18. ASSUME NEW c \in Calls, GrantFind(c) PROVE Staged'
  BY <1>18 DEF GrantFind
<1>19. ASSUME NEW c \in Calls, NEW k \in Cap, GrantWrite(c, k) PROVE Staged'
  BY <1>19 DEF GrantWrite, SetCap
<1>20. ASSUME NEW c \in Calls, Patch(c) PROVE Staged'
  BY <1>20 DEF Patch, Starts, Goes
<1>21. ASSUME NEW c \in Calls, NEW u \in BOOLEAN, NEW k \in Cap,
            PatchWrite(c, u, k)
     PROVE  Staged'
  BY <1>21 DEF PatchWrite, Goes, SetCap
<1>22. ASSUME NEW c \in Calls, Revoke(c) PROVE Staged'
  BY <1>22 DEF Revoke, Starts, Goes
<1>23. ASSUME NEW c \in Calls, NEW free \in BOOLEAN, RevokeWrite(c, free)
     PROVE  Staged'
  BY <1>23 DEF RevokeWrite, Goes
<1>24. ASSUME NEW c \in Calls, Remove(c) PROVE Staged'
  BY <1>24 DEF Remove, Starts, Goes
<1>25. ASSUME NEW c \in Calls, RemoveSeats(c) PROVE Staged'
  BY <1>25 DEF RemoveSeats
<1>26. ASSUME NEW c \in Calls, RemoveCommit(c) PROVE Staged'
  BY <1>26 DEF RemoveCommit, DropHeld
<1>27. ASSUME NEW c \in Calls, RemoveFails(c) PROVE Staged'
  BY <1>27 DEF RemoveFails
<1>28. CASE UNCHANGED seatsVars
  BY <1>28 DEF seatsVars, rowVars, callVars, capHistory, removalVars
<1> HIDE DEF SeatsTypeOK, Staged
<1>29. QED
  BY <1>1, <1>2, <1>3, <1>4, <1>5, <1>6, <1>7, <1>8, <1>9, <1>10, <1>11, <1>12,
     <1>13, <1>14, <1>15, <1>16, <1>17, <1>18, <1>19, <1>20, <1>21, <1>22,
     <1>23, <1>24, <1>25, <1>26, <1>27, <1>28
     DEF SeatsNext

(* A write to the maximum raises the highest one where it must.            *)
LEMMA SetCapRaises ==
    ASSUME SeatsTypeOK, NEW k \in Cap, SetCap(k), topCap' # Unlimited
    PROVE  /\ topCap # Unlimited /\ cap' = k /\ k # Unlimited
           /\ topCap \in Nat /\ topCap' \in Nat
           /\ k <= topCap' /\ topCap <= topCap'
BY SeatsAssumption DEF SeatsTypeOK, SetCap, Cap

LEMMA FreshIsUnlimited ==
    ASSUME SeatsTypeOK, FreshLicense
    PROVE  topCap' = Unlimited
BY DEF FreshLicense, SetCap

(* The highest cap keeps bounding the others.                                *)
LEMMA CapsStep ==
    ASSUME SeatsTypeOK, Staged, CapsFollow, [SeatsNext]_seatsVars
    PROVE  CapsFollow'
<1> USE SeatsAssumption
        DEF SeatsTypeOK, Staged, CapsFollow, Cap, Activating,
        rowVars, callVars, capHistory, removalVars
<1>1. ASSUME NEW c \in Calls, NEW d \in Devices, Activate(c, d)
     PROVE  CapsFollow'
  BY <1>1 DEF Activate, Starts, Goes, Overlap
<1>2. ASSUME NEW c \in Calls, NEW d \in Devices, Deactivate(c, d)
     PROVE  CapsFollow'
  BY <1>2 DEF Deactivate, Starts, Goes
<1>3. ASSUME NEW c \in Calls, ActivateLicense(c) PROVE CapsFollow'
  BY <1>3 DEF ActivateLicense, Answered
<1>4. ASSUME NEW c \in Calls, ActivateDevice(c) PROVE CapsFollow'
  BY <1>4 DEF ActivateDevice, Answered
<1>5. ASSUME NEW c \in Calls, ActivateCount(c) PROVE CapsFollow'
  BY <1>5 DEF ActivateCount, Answered
<1>6. ASSUME NEW c \in Calls, ActivateInsert(c) PROVE CapsFollow'
  BY <1>6 DEF ActivateInsert, Answered, InsertActivation
<1>7. ASSUME NEW c \in Calls, DeactivateLicense(c) PROVE CapsFollow'
  BY <1>7 DEF DeactivateLicense, Answered
<1>8. ASSUME NEW c \in Calls, DeactivateDevice(c) PROVE CapsFollow'
  BY <1>8 DEF DeactivateDevice, Answered
<1>9. ASSUME NEW c \in Calls, SignIn(c) PROVE CapsFollow'
  BY <1>9 DEF SignIn, Starts, Goes, Overlap
<1>10. ASSUME NEW c \in Calls, Ensure(c) PROVE CapsFollow'
  BY <1>10 DEF Ensure
<1>11. ASSUME NEW c \in Calls, EnsureAny(c) PROVE CapsFollow'
  BY <1>11 DEF EnsureAny
<1>12. ASSUME NEW c \in Calls, EnsureCreate(c) PROVE CapsFollow'
  <2>1. CASE licence = "none"
    BY <1>12, <2>1, FreshIsUnlimited DEF EnsureCreate
  <2>2. CASE licence # "none"
    BY <1>12, <2>2 DEF EnsureCreate, Goes
  <2>3. QED
    BY <2>1, <2>2
<1>13. ASSUME NEW c \in Calls, EnsureRevive(c) PROVE CapsFollow'
  BY <1>13, FreshIsUnlimited DEF EnsureRevive
<1>14. ASSUME NEW c \in Calls, Join(c) PROVE CapsFollow'
  BY <1>14 DEF Join, Goes
<1>15. ASSUME NEW c \in Calls, SignInFails(c) PROVE CapsFollow'
  BY <1>15 DEF SignInFails
<1>16. ASSUME NEW c \in Calls, NEW s \in Sessions, CreateSession(c, s)
     PROVE  CapsFollow'
  BY <1>16 DEF CreateSession, Goes
<1>17. ASSUME NEW c \in Calls, Grant(c) PROVE CapsFollow'
  BY <1>17 DEF Grant, Starts, Goes, Overlap
<1>18. ASSUME NEW c \in Calls, GrantFind(c) PROVE CapsFollow'
  BY <1>18 DEF GrantFind
<1>19. ASSUME NEW c \in Calls, NEW k \in Cap, GrantWrite(c, k)
     PROVE  CapsFollow'
  <2>1. CASE at[c] = "grantInsert" /\ licence # "none"
    BY <1>19, <2>1 DEF GrantWrite
  <2>2. CASE SetCap(k)
    <3> SUFFICES ASSUME topCap' # Unlimited PROVE CapsFollow'
      BY DEF CapsFollow
    <3>1. /\ topCap # Unlimited /\ cap' = k /\ k # Unlimited
          /\ topCap \in Nat /\ topCap' \in Nat
          /\ k <= topCap' /\ topCap <= topCap'
      BY <2>2, SetCapRaises
    <3>2. \A o \in Calls : at'[o] \in {"device", "count", "insert"} =>
             /\ at[o] \in {"device", "count", "insert"}
             /\ max'[o] = max[o]
      BY <1>19 DEF GrantWrite
    <3>3. ASSUME NEW o \in Calls, at'[o] \in {"device", "count", "insert"}
          PROVE  max'[o] # Unlimited /\ max'[o] <= topCap'
      <4>1. max'[o] = max[o] /\ max[o] # Unlimited /\ max[o] <= topCap
        BY <3>1, <3>2, <3>3
      <4>2. max[o] \in Nat
        BY <4>1
      <4> HIDE DEF SeatsTypeOK
      <4>3. QED
        BY <4>1, <4>2, <3>1
    <3>4. QED
      BY <3>1, <3>3
  <2>3. QED
    BY <1>19, <2>1, <2>2 DEF GrantWrite
<1>20. ASSUME NEW c \in Calls, Patch(c) PROVE CapsFollow'
  BY <1>20 DEF Patch, Starts, Goes
<1>21. ASSUME NEW c \in Calls, NEW u \in BOOLEAN, NEW k \in Cap,
            PatchWrite(c, u, k)
     PROVE  CapsFollow'
  <2> SUFFICES ASSUME topCap' # Unlimited PROVE CapsFollow'
    BY DEF CapsFollow
  <2>1. /\ topCap # Unlimited /\ cap' = k /\ k # Unlimited
        /\ topCap \in Nat /\ topCap' \in Nat
        /\ k <= topCap' /\ topCap <= topCap'
    BY <1>21, SetCapRaises DEF PatchWrite
  <2>2. \A o \in Calls : at'[o] \in {"device", "count", "insert"} =>
           /\ at[o] \in {"device", "count", "insert"}
           /\ max'[o] = max[o]
    BY <1>21 DEF PatchWrite, Goes
  <2>3. ASSUME NEW o \in Calls, at'[o] \in {"device", "count", "insert"}
        PROVE  max'[o] # Unlimited /\ max'[o] <= topCap'
    <3>1. max'[o] = max[o] /\ max[o] # Unlimited /\ max[o] <= topCap
      BY <2>1, <2>2, <2>3
    <3>2. max[o] \in Nat
      BY <3>1
    <3> HIDE DEF SeatsTypeOK
    <3>3. QED
      BY <3>1, <3>2, <2>1
  <2>4. QED
    BY <2>1, <2>3
<1>22. ASSUME NEW c \in Calls, Revoke(c) PROVE CapsFollow'
  BY <1>22 DEF Revoke, Starts, Goes
<1>23. ASSUME NEW c \in Calls, NEW free \in BOOLEAN, RevokeWrite(c, free)
     PROVE  CapsFollow'
  BY <1>23 DEF RevokeWrite, Goes
<1>24. ASSUME NEW c \in Calls, Remove(c) PROVE CapsFollow'
  BY <1>24 DEF Remove, Starts, Goes
<1>25. ASSUME NEW c \in Calls, RemoveSeats(c) PROVE CapsFollow'
  BY <1>25 DEF RemoveSeats
<1>26. ASSUME NEW c \in Calls, RemoveCommit(c) PROVE CapsFollow'
  BY <1>26 DEF RemoveCommit, DropHeld
<1>27. ASSUME NEW c \in Calls, RemoveFails(c) PROVE CapsFollow'
  BY <1>27 DEF RemoveFails
<1>28. CASE UNCHANGED seatsVars
  BY <1>28 DEF seatsVars, rowVars, callVars, capHistory, removalVars
<1> HIDE DEF SeatsTypeOK, Staged, CapsFollow
<1>29. QED
  BY <1>1, <1>2, <1>3, <1>4, <1>5, <1>6, <1>7, <1>8, <1>9, <1>10, <1>11, <1>12,
     <1>13, <1>14, <1>15, <1>16, <1>17, <1>18, <1>19, <1>20, <1>21, <1>22,
     <1>23, <1>24, <1>25, <1>26, <1>27, <1>28
     DEF SeatsNext

(* A maximum that is not null is a number.                                 *)
LEMMA CapsAreNumbers ==
    ASSUME SeatsTypeOK
    PROVE  /\ topCap # Unlimited => topCap \in Nat
           /\ \A c \in Calls : max[c] # Unlimited => max[c] \in Nat
           /\ peak \in Nat
<1>1. \A k \in Cap \cup {1} : k # Unlimited => k \in Nat
  BY SeatsAssumption DEF Cap
<1>2. /\ topCap \in Cap \cup {1} /\ peak \in Nat
      /\ \A c \in Calls : max[c] \in Cap
  BY DEF SeatsTypeOK
<1>3. QED
  BY <1>1, <1>2

(* One seat more at most.                                                  *)
LEMMA OneMore ==
    ASSUME NEW d, Active' \subseteq Active \cup {d}
    PROVE  Cardinality(Active') <= Cardinality(Active) + 1
<1> DEFINE A == Active \cup {d}
<1>1. /\ IsFiniteSet(A)
      /\ Cardinality(A) = IF d \in Active THEN Cardinality(Active)
                          ELSE Cardinality(Active) + 1
  BY SeatSets, FS_AddElement
<1>2. Active' \in SUBSET A
  OBVIOUS
<1> HIDE DEF A
<1>3. Cardinality(Active') <= Cardinality(A) /\ Cardinality(A) \in Nat
  BY <1>1, <1>2, FS_Subset, FS_CardinalityType
<1>4. QED
  BY <1>1, <1>3, SeatSets, SeatSetsNext

(* The highest cap never falls.                                            *)
LEMMA TopRises ==
    ASSUME SeatsTypeOK, \/ UNCHANGED topCap
                        \/ FreshLicense
                        \/ \E k \in Cap : SetCap(k)
    PROVE  topCap' # Unlimited =>
               /\ topCap # Unlimited /\ topCap \in Nat /\ topCap' \in Nat
               /\ topCap <= topCap'
<1>1. CASE UNCHANGED topCap
  BY <1>1, SeatsAssumption DEF SeatsTypeOK, Cap
<1>2. CASE FreshLicense
  BY <1>2, FreshIsUnlimited
<1>3. CASE \E k \in Cap : SetCap(k)
  BY <1>3, SetCapRaises
<1>4. QED
  BY <1>1, <1>2, <1>3

(* No seat more, and no insertion more: the bound stays.                   *)
LEMMA CountFalls ==
    ASSUME SeatsTypeOK, SeatsCounted, UNCHANGED peak,
           Active' \subseteq Active, Inserting' \subseteq Inserting,
           \/ UNCHANGED topCap
           \/ FreshLicense
           \/ \E k \in Cap : SetCap(k)
    PROVE  SeatsCounted'
<1> SUFFICES ASSUME topCap' # Unlimited
             PROVE  Cardinality(Active') + Cardinality(Inserting')
                        <= topCap' - 1 + peak'
  BY DEF SeatsCounted
<1>1. /\ topCap # Unlimited /\ topCap \in Nat /\ topCap' \in Nat
      /\ topCap <= topCap'
  BY TopRises
<1>2. /\ Cardinality(Active') <= Cardinality(Active)
      /\ Cardinality(Inserting') <= Cardinality(Inserting)
  BY SeatSets, FS_Subset
<1>3. Cardinality(Active) + Cardinality(Inserting) <= topCap - 1 + peak
  BY <1>1 DEF SeatsCounted
<1>4. peak \in Nat /\ peak' = peak
  BY DEF SeatsTypeOK
<1>5. QED
  BY <1>1, <1>2, <1>3, <1>4, SeatSets, SeatSetsNext

(* The seats taken and about to be stay within the cap and the overlap.      *)
LEMMA CountStep ==
    ASSUME SeatsTypeOK, CapsFollow, SeatsCounted, [SeatsNext]_seatsVars
    PROVE  SeatsCounted'
<1> USE DEF SeatsTypeOK, rowVars, callVars, capHistory, removalVars
<1>1. ASSUME NEW c \in Calls, NEW d \in Devices, Activate(c, d)
     PROVE  SeatsCounted'
  <2>1. /\ Active' \subseteq Active /\ Inserting' \subseteq Inserting
        /\ UNCHANGED peak
    BY <1>1 DEF Activate, Starts, Goes, Active, Inserting
  <2>2. \/ UNCHANGED topCap
        \/ FreshLicense
        \/ \E k \in Cap : SetCap(k)
    BY <1>1 DEF Activate
  <2>3. QED
    BY <2>1, <2>2, CountFalls
<1>2. ASSUME NEW c \in Calls, NEW d \in Devices, Deactivate(c, d)
     PROVE  SeatsCounted'
  <2>1. /\ Active' \subseteq Active /\ Inserting' \subseteq Inserting
        /\ UNCHANGED peak
    BY <1>2 DEF Deactivate, Starts, Goes, Active, Inserting
  <2>2. \/ UNCHANGED topCap
        \/ FreshLicense
        \/ \E k \in Cap : SetCap(k)
    BY <1>2 DEF Deactivate
  <2>3. QED
    BY <2>1, <2>2, CountFalls
<1>3. ASSUME NEW c \in Calls, ActivateLicense(c) PROVE SeatsCounted'
  <2>1. /\ Active' \subseteq Active /\ Inserting' \subseteq Inserting
        /\ UNCHANGED peak
    BY <1>3 DEF ActivateLicense, Answered, Active, Inserting
  <2>2. \/ UNCHANGED topCap
        \/ FreshLicense
        \/ \E k \in Cap : SetCap(k)
    BY <1>3 DEF ActivateLicense
  <2>3. QED
    BY <2>1, <2>2, CountFalls
<1>4. ASSUME NEW c \in Calls, ActivateDevice(c) PROVE SeatsCounted'
  <2>1. Active' = Active /\ UNCHANGED <<topCap, peak>>
    BY <1>4 DEF ActivateDevice, Active, capHistory
  <2>2. CASE Inserting' \subseteq Inserting
    BY <2>1, <2>2, CountFalls
  <2>3. CASE ~ Inserting' \subseteq Inserting
    <3>1. max[c] = Unlimited
      BY <1>4, <2>3 DEF ActivateDevice, Inserting, Answered
    <3>2. topCap = Unlimited
      BY <1>4, <3>1 DEF CapsFollow, ActivateDevice
    <3>3. QED
      BY <2>1, <3>2 DEF SeatsCounted
  <2>4. QED
    BY <2>2, <2>3
<1>5. ASSUME NEW c \in Calls, ActivateCount(c) PROVE SeatsCounted'
  <2>1. Active' = Active /\ UNCHANGED topCap
    BY <1>5 DEF ActivateCount, Active
  <2>2. CASE LimitReached(Cardinality(Active), max[c])
    <3>1. Inserting' \subseteq Inserting /\ UNCHANGED peak
      BY <1>5, <2>2 DEF ActivateCount, Inserting, Answered
    <3>2. QED
      BY <2>1, <3>1, CountFalls
  <2>3. CASE ~ LimitReached(Cardinality(Active), max[c]) /\ topCap # Unlimited
    <3>1. /\ Inserting' = Inserting \cup {c} /\ c \notin Inserting
          /\ peak' = IF Cardinality(Inserting) + 1 > peak
                     THEN Cardinality(Inserting) + 1 ELSE peak
      BY <1>5, <2>3 DEF ActivateCount, Inserting
    <3>2. Cardinality(Inserting') = Cardinality(Inserting) + 1
      BY <3>1, SeatSets, FS_AddElement
    <3>3. max[c] # Unlimited /\ max[c] <= topCap
      BY <1>5, <2>3 DEF CapsFollow, ActivateCount
    <3>4. max[c] \in Nat /\ topCap \in Nat
      BY <2>3, <3>3, CapsAreNumbers
    <3>5. Cardinality(Active) < max[c]
      BY <2>3, <3>4, SeatSets DEF LimitReached
    <3>6. Cardinality(Inserting') <= peak' /\ peak' \in Nat
      BY <3>1, <3>2, SeatSets DEF SeatsTypeOK
    <3>7. Cardinality(Active') + Cardinality(Inserting') <= topCap' - 1 + peak'
      BY <2>1, <3>3, <3>4, <3>5, <3>6, SeatSets, SeatSetsNext
    <3>8. QED
      BY <3>7 DEF SeatsCounted
  <2>4. CASE topCap = Unlimited
    BY <2>1, <2>4 DEF SeatsCounted
  <2>5. QED
    BY <2>2, <2>3, <2>4
<1>6. ASSUME NEW c \in Calls, ActivateInsert(c) PROVE SeatsCounted'
  <2>1. /\ Active' \subseteq Active \cup {dev[c]}
        /\ Inserting' = Inserting \ {c} /\ c \in Inserting
        /\ UNCHANGED capHistory
    BY <1>6 DEF ActivateInsert, InsertActivation, Answered, Active, Inserting,
             SeatsTypeOK
  <2>2. Cardinality(Active') <= Cardinality(Active) + 1
    BY <2>1, OneMore
  <2>3. Cardinality(Inserting') = Cardinality(Inserting) - 1
    BY <2>1, SeatSets, FS_RemoveElement
  <2>4. topCap # Unlimited =>
            Cardinality(Active') + Cardinality(Inserting') <= topCap - 1 + peak
    <3>1. topCap # Unlimited => topCap \in Nat /\ peak \in Nat
      BY CapsAreNumbers
    <3>2. QED
      BY <2>2, <2>3, <3>1, SeatSets, SeatSetsNext DEF SeatsCounted
  <2>5. QED
    BY <2>1, <2>4 DEF SeatsCounted, capHistory
<1>7. ASSUME NEW c \in Calls, DeactivateLicense(c) PROVE SeatsCounted'
  <2>1. /\ Active' \subseteq Active /\ Inserting' \subseteq Inserting
        /\ UNCHANGED peak
    BY <1>7 DEF DeactivateLicense, Answered, Active, Inserting
  <2>2. \/ UNCHANGED topCap
        \/ FreshLicense
        \/ \E k \in Cap : SetCap(k)
    BY <1>7 DEF DeactivateLicense
  <2>3. QED
    BY <2>1, <2>2, CountFalls
<1>8. ASSUME NEW c \in Calls, DeactivateDevice(c) PROVE SeatsCounted'
  <2>1. /\ Active' \subseteq Active /\ Inserting' \subseteq Inserting
        /\ UNCHANGED peak
    BY <1>8 DEF DeactivateDevice, Answered, Active, Inserting
  <2>2. \/ UNCHANGED topCap
        \/ FreshLicense
        \/ \E k \in Cap : SetCap(k)
    BY <1>8 DEF DeactivateDevice
  <2>3. QED
    BY <2>1, <2>2, CountFalls
<1>9. ASSUME NEW c \in Calls, SignIn(c) PROVE SeatsCounted'
  <2>1. /\ Active' \subseteq Active /\ Inserting' \subseteq Inserting
        /\ UNCHANGED peak
    BY <1>9 DEF SignIn, Starts, Goes, Active, Inserting
  <2>2. \/ UNCHANGED topCap
        \/ FreshLicense
        \/ \E k \in Cap : SetCap(k)
    BY <1>9 DEF SignIn
  <2>3. QED
    BY <2>1, <2>2, CountFalls
<1>10. ASSUME NEW c \in Calls, Ensure(c) PROVE SeatsCounted'
  <2>1. /\ Active' \subseteq Active /\ Inserting' \subseteq Inserting
        /\ UNCHANGED peak
    BY <1>10 DEF Ensure, Active, Inserting
  <2>2. \/ UNCHANGED topCap
        \/ FreshLicense
        \/ \E k \in Cap : SetCap(k)
    BY <1>10 DEF Ensure
  <2>3. QED
    BY <2>1, <2>2, CountFalls
<1>11. ASSUME NEW c \in Calls, EnsureAny(c) PROVE SeatsCounted'
  <2>1. /\ Active' \subseteq Active /\ Inserting' \subseteq Inserting
        /\ UNCHANGED peak
    BY <1>11 DEF EnsureAny, Active, Inserting
  <2>2. \/ UNCHANGED topCap
        \/ FreshLicense
        \/ \E k \in Cap : SetCap(k)
    BY <1>11 DEF EnsureAny
  <2>3. QED
    BY <2>1, <2>2, CountFalls
<1>12. ASSUME NEW c \in Calls, EnsureCreate(c) PROVE SeatsCounted'
  <2>1. /\ Active' \subseteq Active /\ Inserting' \subseteq Inserting
        /\ UNCHANGED peak
    BY <1>12 DEF EnsureCreate, Goes, Active, Inserting
  <2>2. \/ UNCHANGED topCap
        \/ FreshLicense
        \/ \E k \in Cap : SetCap(k)
    BY <1>12 DEF EnsureCreate
  <2>3. QED
    BY <2>1, <2>2, CountFalls
<1>13. ASSUME NEW c \in Calls, EnsureRevive(c) PROVE SeatsCounted'
  <2>1. /\ Active' \subseteq Active /\ Inserting' \subseteq Inserting
        /\ UNCHANGED peak
    BY <1>13 DEF EnsureRevive, Goes, Active, Inserting
  <2>2. \/ UNCHANGED topCap
        \/ FreshLicense
        \/ \E k \in Cap : SetCap(k)
    BY <1>13 DEF EnsureRevive
  <2>3. QED
    BY <2>1, <2>2, CountFalls
<1>14. ASSUME NEW c \in Calls, Join(c) PROVE SeatsCounted'
  <2>1. /\ Active' \subseteq Active /\ Inserting' \subseteq Inserting
        /\ UNCHANGED peak
    BY <1>14 DEF Join, Goes, Active, Inserting
  <2>2. \/ UNCHANGED topCap
        \/ FreshLicense
        \/ \E k \in Cap : SetCap(k)
    BY <1>14 DEF Join
  <2>3. QED
    BY <2>1, <2>2, CountFalls
<1>15. ASSUME NEW c \in Calls, SignInFails(c) PROVE SeatsCounted'
  <2>1. /\ Active' \subseteq Active /\ Inserting' \subseteq Inserting
        /\ UNCHANGED peak
    BY <1>15 DEF SignInFails, Active, Inserting
  <2>2. \/ UNCHANGED topCap
        \/ FreshLicense
        \/ \E k \in Cap : SetCap(k)
    BY <1>15 DEF SignInFails
  <2>3. QED
    BY <2>1, <2>2, CountFalls
<1>16. ASSUME NEW c \in Calls, NEW s \in Sessions, CreateSession(c, s)
     PROVE  SeatsCounted'
  <2>1. /\ Active' \subseteq Active /\ Inserting' \subseteq Inserting
        /\ UNCHANGED peak
    BY <1>16 DEF CreateSession, Goes, Active, Inserting
  <2>2. \/ UNCHANGED topCap
        \/ FreshLicense
        \/ \E k \in Cap : SetCap(k)
    BY <1>16 DEF CreateSession
  <2>3. QED
    BY <2>1, <2>2, CountFalls
<1>17. ASSUME NEW c \in Calls, Grant(c) PROVE SeatsCounted'
  <2>1. /\ Active' \subseteq Active /\ Inserting' \subseteq Inserting
        /\ UNCHANGED peak
    BY <1>17 DEF Grant, Starts, Goes, Active, Inserting
  <2>2. \/ UNCHANGED topCap
        \/ FreshLicense
        \/ \E k \in Cap : SetCap(k)
    BY <1>17 DEF Grant
  <2>3. QED
    BY <2>1, <2>2, CountFalls
<1>18. ASSUME NEW c \in Calls, GrantFind(c) PROVE SeatsCounted'
  <2>1. /\ Active' \subseteq Active /\ Inserting' \subseteq Inserting
        /\ UNCHANGED peak
    BY <1>18 DEF GrantFind, Active, Inserting
  <2>2. \/ UNCHANGED topCap
        \/ FreshLicense
        \/ \E k \in Cap : SetCap(k)
    BY <1>18 DEF GrantFind
  <2>3. QED
    BY <2>1, <2>2, CountFalls
<1>19. ASSUME NEW c \in Calls, NEW k \in Cap, GrantWrite(c, k)
     PROVE  SeatsCounted'
  <2>1. /\ Active' \subseteq Active /\ Inserting' \subseteq Inserting
        /\ UNCHANGED peak
    BY <1>19 DEF GrantWrite, Active, Inserting
  <2>2. \/ UNCHANGED topCap
        \/ FreshLicense
        \/ \E j \in Cap : SetCap(j)
    BY <1>19 DEF GrantWrite
  <2>3. QED
    BY <2>1, <2>2, CountFalls
<1>20. ASSUME NEW c \in Calls, Patch(c) PROVE SeatsCounted'
  <2>1. /\ Active' \subseteq Active /\ Inserting' \subseteq Inserting
        /\ UNCHANGED peak
    BY <1>20 DEF Patch, Starts, Goes, Active, Inserting
  <2>2. \/ UNCHANGED topCap
        \/ FreshLicense
        \/ \E k \in Cap : SetCap(k)
    BY <1>20 DEF Patch
  <2>3. QED
    BY <2>1, <2>2, CountFalls
<1>21. ASSUME NEW c \in Calls, NEW u \in BOOLEAN, NEW k \in Cap,
            PatchWrite(c, u, k)
     PROVE  SeatsCounted'
  <2>1. /\ Active' \subseteq Active /\ Inserting' \subseteq Inserting
        /\ UNCHANGED peak
    BY <1>21 DEF PatchWrite, Goes, Active, Inserting
  <2>2. \/ UNCHANGED topCap
        \/ FreshLicense
        \/ \E j \in Cap : SetCap(j)
    BY <1>21 DEF PatchWrite
  <2>3. QED
    BY <2>1, <2>2, CountFalls
<1>22. ASSUME NEW c \in Calls, Revoke(c) PROVE SeatsCounted'
  <2>1. /\ Active' \subseteq Active /\ Inserting' \subseteq Inserting
        /\ UNCHANGED peak
    BY <1>22 DEF Revoke, Starts, Goes, Active, Inserting
  <2>2. \/ UNCHANGED topCap
        \/ FreshLicense
        \/ \E k \in Cap : SetCap(k)
    BY <1>22 DEF Revoke
  <2>3. QED
    BY <2>1, <2>2, CountFalls
<1>23. ASSUME NEW c \in Calls, NEW free \in BOOLEAN, RevokeWrite(c, free)
     PROVE  SeatsCounted'
  <2>1. /\ Active' \subseteq Active /\ Inserting' \subseteq Inserting
        /\ UNCHANGED peak
    BY <1>23 DEF RevokeWrite, Goes, Active, Inserting
  <2>2. \/ UNCHANGED topCap
        \/ FreshLicense
        \/ \E k \in Cap : SetCap(k)
    BY <1>23 DEF RevokeWrite
  <2>3. QED
    BY <2>1, <2>2, CountFalls
<1>24. ASSUME NEW c \in Calls, Remove(c) PROVE SeatsCounted'
  <2>1. /\ Active' \subseteq Active /\ Inserting' \subseteq Inserting
        /\ UNCHANGED peak
    BY <1>24 DEF Remove, Starts, Goes, Active, Inserting
  <2>2. \/ UNCHANGED topCap
        \/ FreshLicense
        \/ \E k \in Cap : SetCap(k)
    BY <1>24 DEF Remove
  <2>3. QED
    BY <2>1, <2>2, CountFalls
<1>25. ASSUME NEW c \in Calls, RemoveSeats(c) PROVE SeatsCounted'
  <2>1. /\ Active' \subseteq Active /\ Inserting' \subseteq Inserting
        /\ UNCHANGED peak
    BY <1>25 DEF RemoveSeats, Active, Inserting
  <2>2. \/ UNCHANGED topCap
        \/ FreshLicense
        \/ \E k \in Cap : SetCap(k)
    BY <1>25 DEF RemoveSeats
  <2>3. QED
    BY <2>1, <2>2, CountFalls
<1>26. ASSUME NEW c \in Calls, RemoveCommit(c) PROVE SeatsCounted'
  <2>1. /\ Active' \subseteq Active /\ Inserting' \subseteq Inserting
        /\ UNCHANGED peak
    BY <1>26 DEF RemoveCommit, DropHeld, Active, Inserting
  <2>2. \/ UNCHANGED topCap
        \/ FreshLicense
        \/ \E k \in Cap : SetCap(k)
    BY <1>26 DEF RemoveCommit
  <2>3. QED
    BY <2>1, <2>2, CountFalls
<1>27. ASSUME NEW c \in Calls, RemoveFails(c) PROVE SeatsCounted'
  <2>1. /\ Active' \subseteq Active /\ Inserting' \subseteq Inserting
        /\ UNCHANGED peak
    BY <1>27 DEF RemoveFails, Active, Inserting
  <2>2. \/ UNCHANGED topCap
        \/ FreshLicense
        \/ \E k \in Cap : SetCap(k)
    BY <1>27 DEF RemoveFails
  <2>3. QED
    BY <2>1, <2>2, CountFalls
<1>28. CASE UNCHANGED seatsVars
  <2>1. UNCHANGED <<Active, Inserting, topCap, peak>>
    BY <1>28 DEF seatsVars, Active, Inserting
  <2>2. QED
    BY <2>1, CountFalls
<1>29. QED
  BY <1>1, <1>2, <1>3, <1>4, <1>5, <1>6, <1>7, <1>8, <1>9, <1>10, <1>11, <1>12,
     <1>13, <1>14, <1>15, <1>16, <1>17, <1>18, <1>19, <1>20, <1>21, <1>22,
     <1>23, <1>24, <1>25, <1>26, <1>27, <1>28
     DEF SeatsNext

(* An open removal goes on noting what may undo it.                          *)
LEMMA NotesStep ==
    ASSUME SeatsTypeOK, Staged, RemovalNotes, [SeatsNext]_seatsVars
    PROVE  RemovalNotes'
<1> USE DEF SeatsTypeOK, RemovalNotes, Active, Activating, SigningIn,
        Granting, Removing, rowVars, callVars, capHistory, removalVars
<1>1. ASSUME NEW c \in Calls, NEW d \in Devices, Activate(c, d)
     PROVE  RemovalNotes'
  BY <1>1 DEF Activate, Starts, Goes, Overlap
<1>2. ASSUME NEW c \in Calls, NEW d \in Devices, Deactivate(c, d)
     PROVE  RemovalNotes'
  BY <1>2 DEF Deactivate, Starts, Goes
<1>3. ASSUME NEW c \in Calls, ActivateLicense(c) PROVE RemovalNotes'
  BY <1>3 DEF ActivateLicense, Answered
<1>4. ASSUME NEW c \in Calls, ActivateDevice(c) PROVE RemovalNotes'
  BY <1>4 DEF ActivateDevice, Answered
<1>5. ASSUME NEW c \in Calls, ActivateCount(c) PROVE RemovalNotes'
  BY <1>5 DEF ActivateCount, Answered
<1>6. ASSUME NEW c \in Calls, ActivateInsert(c) PROVE RemovalNotes'
  BY <1>6 DEF ActivateInsert, Answered, InsertActivation
<1>7. ASSUME NEW c \in Calls, DeactivateLicense(c) PROVE RemovalNotes'
  BY <1>7 DEF DeactivateLicense, Answered
<1>8. ASSUME NEW c \in Calls, DeactivateDevice(c) PROVE RemovalNotes'
  BY <1>8 DEF DeactivateDevice, Answered
<1>9. ASSUME NEW c \in Calls, SignIn(c) PROVE RemovalNotes'
  BY <1>9 DEF SignIn, Starts, Goes, Overlap
<1>10. ASSUME NEW c \in Calls, Ensure(c) PROVE RemovalNotes'
  BY <1>10 DEF Ensure
<1>11. ASSUME NEW c \in Calls, EnsureAny(c) PROVE RemovalNotes'
  BY <1>11 DEF EnsureAny
<1>12. ASSUME NEW c \in Calls, EnsureCreate(c) PROVE RemovalNotes'
  BY <1>12 DEF EnsureCreate, Goes, FreshLicense, SetCap
<1>13. ASSUME NEW c \in Calls, EnsureRevive(c) PROVE RemovalNotes'
  BY <1>13 DEF EnsureRevive, Goes, FreshLicense, SetCap
<1>14. ASSUME NEW c \in Calls, Join(c) PROVE RemovalNotes'
  BY <1>14 DEF Join, Goes
<1>15. ASSUME NEW c \in Calls, SignInFails(c) PROVE RemovalNotes'
  BY <1>15 DEF SignInFails
<1>16. ASSUME NEW c \in Calls, NEW s \in Sessions, CreateSession(c, s)
     PROVE  RemovalNotes'
  BY <1>16 DEF CreateSession, Goes
<1>17. ASSUME NEW c \in Calls, Grant(c) PROVE RemovalNotes'
  BY <1>17 DEF Grant, Starts, Goes, Overlap
<1>18. ASSUME NEW c \in Calls, GrantFind(c) PROVE RemovalNotes'
  BY <1>18 DEF GrantFind
<1>19. ASSUME NEW c \in Calls, NEW k \in Cap, GrantWrite(c, k)
     PROVE  RemovalNotes'
  BY <1>19 DEF GrantWrite, SetCap
<1>20. ASSUME NEW c \in Calls, Patch(c) PROVE RemovalNotes'
  BY <1>20 DEF Patch, Starts, Goes
<1>21. ASSUME NEW c \in Calls, NEW u \in BOOLEAN, NEW k \in Cap,
            PatchWrite(c, u, k)
     PROVE  RemovalNotes'
  BY <1>21 DEF PatchWrite, Goes, SetCap
<1>22. ASSUME NEW c \in Calls, Revoke(c) PROVE RemovalNotes'
  BY <1>22 DEF Revoke, Starts, Goes
<1>23. ASSUME NEW c \in Calls, NEW free \in BOOLEAN, RevokeWrite(c, free)
     PROVE  RemovalNotes'
  BY <1>23 DEF RevokeWrite, Goes
<1>24. ASSUME NEW c \in Calls, Remove(c) PROVE RemovalNotes'
  BY <1>24 DEF Remove, Starts, Goes, InFlight
<1>25. ASSUME NEW c \in Calls, RemoveSeats(c) PROVE RemovalNotes'
  BY <1>25 DEF RemoveSeats
<1>26. ASSUME NEW c \in Calls, RemoveCommit(c) PROVE RemovalNotes'
  BY <1>26 DEF RemoveCommit, DropHeld
<1>27. ASSUME NEW c \in Calls, RemoveFails(c) PROVE RemovalNotes'
  BY <1>27 DEF RemoveFails
<1>28. CASE UNCHANGED seatsVars
  BY <1>28 DEF seatsVars, rowVars, callVars, capHistory, removalVars
<1> HIDE DEF SeatsTypeOK, RemovalNotes, Staged
<1>29. QED
  BY <1>1, <1>2, <1>3, <1>4, <1>5, <1>6, <1>7, <1>8, <1>9, <1>10, <1>11, <1>12,
     <1>13, <1>14, <1>15, <1>16, <1>17, <1>18, <1>19, <1>20, <1>21, <1>22,
     <1>23, <1>24, <1>25, <1>26, <1>27, <1>28
     DEF SeatsNext

(* What a removal has left stays left.                                       *)
LEMMA HoldsStep ==
    ASSUME SeatsTypeOK, Staged, RemovalNotes, RemovalHolds,
           [SeatsNext]_seatsVars
    PROVE  RemovalHolds'
<1> USE DEF SeatsTypeOK, RemovalHolds, Active, Activating, SigningIn,
        Granting, Removing, rowVars, callVars, capHistory, removalVars
<1>1. ASSUME NEW c \in Calls, NEW d \in Devices, Activate(c, d)
     PROVE  RemovalHolds'
  BY <1>1 DEF Activate, Starts, Goes, Overlap
<1>2. ASSUME NEW c \in Calls, NEW d \in Devices, Deactivate(c, d)
     PROVE  RemovalHolds'
  BY <1>2 DEF Deactivate, Starts, Goes
<1>3. ASSUME NEW c \in Calls, ActivateLicense(c) PROVE RemovalHolds'
  BY <1>3 DEF ActivateLicense, Answered
<1>4. ASSUME NEW c \in Calls, ActivateDevice(c) PROVE RemovalHolds'
  BY <1>4 DEF ActivateDevice, Answered
<1>5. ASSUME NEW c \in Calls, ActivateCount(c) PROVE RemovalHolds'
  BY <1>5 DEF ActivateCount, Answered
<1>6. ASSUME NEW c \in Calls, ActivateInsert(c) PROVE RemovalHolds'
  BY <1>6 DEF ActivateInsert, Answered, InsertActivation
<1>7. ASSUME NEW c \in Calls, DeactivateLicense(c) PROVE RemovalHolds'
  BY <1>7 DEF DeactivateLicense, Answered
<1>8. ASSUME NEW c \in Calls, DeactivateDevice(c) PROVE RemovalHolds'
  BY <1>8 DEF DeactivateDevice, Answered
<1>9. ASSUME NEW c \in Calls, SignIn(c) PROVE RemovalHolds'
  BY <1>9 DEF SignIn, Starts, Goes, Overlap
<1>10. ASSUME NEW c \in Calls, Ensure(c) PROVE RemovalHolds'
  BY <1>10 DEF Ensure
<1>11. ASSUME NEW c \in Calls, EnsureAny(c) PROVE RemovalHolds'
  BY <1>11 DEF EnsureAny
<1>12. ASSUME NEW c \in Calls, EnsureCreate(c) PROVE RemovalHolds'
  BY <1>12 DEF EnsureCreate, Goes, FreshLicense, SetCap
<1>13. ASSUME NEW c \in Calls, EnsureRevive(c) PROVE RemovalHolds'
  BY <1>13 DEF EnsureRevive, Goes, FreshLicense, SetCap
<1>14. ASSUME NEW c \in Calls, Join(c) PROVE RemovalHolds'
  BY <1>14 DEF Join, Goes
<1>15. ASSUME NEW c \in Calls, SignInFails(c) PROVE RemovalHolds'
  BY <1>15 DEF SignInFails
<1>16. ASSUME NEW c \in Calls, NEW s \in Sessions, CreateSession(c, s)
     PROVE  RemovalHolds'
  BY <1>16 DEF CreateSession, Goes
<1>17. ASSUME NEW c \in Calls, Grant(c) PROVE RemovalHolds'
  BY <1>17 DEF Grant, Starts, Goes, Overlap
<1>18. ASSUME NEW c \in Calls, GrantFind(c) PROVE RemovalHolds'
  BY <1>18 DEF GrantFind
<1>19. ASSUME NEW c \in Calls, NEW k \in Cap, GrantWrite(c, k)
     PROVE  RemovalHolds'
  BY <1>19 DEF GrantWrite, SetCap
<1>20. ASSUME NEW c \in Calls, Patch(c) PROVE RemovalHolds'
  BY <1>20 DEF Patch, Starts, Goes
<1>21. ASSUME NEW c \in Calls, NEW u \in BOOLEAN, NEW k \in Cap,
            PatchWrite(c, u, k)
     PROVE  RemovalHolds'
  BY <1>21 DEF PatchWrite, Goes, SetCap
<1>22. ASSUME NEW c \in Calls, Revoke(c) PROVE RemovalHolds'
  BY <1>22 DEF Revoke, Starts, Goes
<1>23. ASSUME NEW c \in Calls, NEW free \in BOOLEAN, RevokeWrite(c, free)
     PROVE  RemovalHolds'
  BY <1>23 DEF RevokeWrite, Goes
<1>24. ASSUME NEW c \in Calls, Remove(c) PROVE RemovalHolds'
  BY <1>24 DEF Remove, Starts, Goes
<1>25. ASSUME NEW c \in Calls, RemoveSeats(c) PROVE RemovalHolds'
  BY <1>25 DEF RemoveSeats
<1>26. ASSUME NEW c \in Calls, RemoveCommit(c) PROVE RemovalHolds'
  <2>1. /\ sessions' = sessions \ held[c]
        /\ Active' \subseteq Active \ held[c]
    BY <1>26 DEF RemoveCommit, DropHeld
  <2>2. \A o \in Calls : at'[o] # "idle" =>
           at'[o] = at[o] /\ dev'[o] = dev[o] /\ o # c
    BY <1>26 DEF RemoveCommit
  <2>3. CASE at[c] = "commit"
    <3>1. licence' = "deleted" /\ crossed' = seen[c]
      BY <1>26, <2>3 DEF RemoveCommit
    <3>2. /\ "signIn" \in seen[c] \/ sessions \subseteq held[c]
          /\ Active \subseteq held[c] \cup seen[c]
          /\ \A o \in Calls :
                /\ at[o] \in Activating => dev[o] \in seen[c]
                /\ at[o] \in SigningIn => "signIn" \in seen[c]
                /\ at[o] \in Granting => "grant" \in seen[c]
      BY <2>3 DEF RemovalNotes
    <3>3. QED
      BY <2>1, <2>2, <3>1, <3>2
  <2>4. CASE at[c] = "leave"
    <3>1. UNCHANGED <<licence, removed, crossed>>
      BY <1>26, <2>4 DEF RemoveCommit
    <3>2. QED
      BY <2>1, <2>2, <3>1
  <2>5. QED
    BY <1>26, <2>3, <2>4 DEF RemoveCommit
<1>27. ASSUME NEW c \in Calls, RemoveFails(c) PROVE RemovalHolds'
  BY <1>27 DEF RemoveFails
<1>28. CASE UNCHANGED seatsVars
  BY <1>28 DEF seatsVars, rowVars, callVars, capHistory, removalVars
<1> HIDE DEF SeatsTypeOK, RemovalHolds
<1>29. QED
  BY <1>1, <1>2, <1>3, <1>4, <1>5, <1>6, <1>7, <1>8, <1>9, <1>10, <1>11, <1>12,
     <1>13, <1>14, <1>15, <1>16, <1>17, <1>18, <1>19, <1>20, <1>21, <1>22,
     <1>23, <1>24, <1>25, <1>26, <1>27, <1>28
     DEF SeatsNext

-----------------------------------------------------------------------------
(* No seat is taken at first, and nothing was removed.                     *)
LEMMA SeatsBegin ==
    SeatsInit => SeatsInductive
<1> SUFFICES ASSUME SeatsInit PROVE SeatsInductive
  OBVIOUS
<1>1. SeatsTypeOK
  BY SeatsAssumption DEF SeatsInit, SeatsTypeOK, SeatsStage, Mark, Cap
<1>2. Staged /\ RemovalNotes /\ RemovalHolds
  BY DEF SeatsInit, Staged, RemovalNotes, RemovalHolds, Activating, Removing
<1>3. CapsFollow
  BY SeatsAssumption DEF SeatsInit, CapsFollow, Cap
<1>4. SeatsCounted
  <2>1. Active = {} /\ Inserting = {}
    BY DEF SeatsInit, Active, Inserting
  <2>2. Cardinality(Active) = 0 /\ Cardinality(Inserting) = 0
    BY <2>1, FS_EmptySet
  <2>3. topCap # Unlimited => topCap \in Nat \ {0}
    BY SeatsAssumption DEF SeatsInit, Cap
  <2>4. QED
    BY <2>2, <2>3 DEF SeatsCounted, SeatsInit
<1>5. QED
  BY <1>1, <1>2, <1>3, <1>4 DEF SeatsInductive

THEOREM SeatsInvariant == SeatsSpec => []SeatsInductive
<1>1. SeatsInductive /\ [SeatsNext]_seatsVars => SeatsInductive'
  BY SeatsTypeStep, StagedStep, CapsStep, CountStep, NotesStep, HoldsStep
     DEF SeatsInductive
<1>2. QED
  BY SeatsBegin, <1>1, PTL DEF SeatsSpec

(* The types of the license, its seats, the calls and the history.         *)
THEOREM SeatsTyped == SeatsSpec => []SeatsTypeOK
<1>1. SeatsInductive => SeatsTypeOK
  BY DEF SeatsInductive
<1>2. QED
  BY SeatsInvariant, <1>1, PTL

(* The maximum is overrun by no more than the activations that were        *)
(* between their count and their insert at one time.                       *)
THEOREM SeatLimit == SeatsSpec => []SeatsBounded
<1>1. SeatsInductive => SeatsBounded
  <2> SUFFICES ASSUME SeatsInductive, topCap # Unlimited
               PROVE  Cardinality(Active) <= topCap - 1 + peak
    BY DEF SeatsBounded
  <2>1. Cardinality(Active) + Cardinality(Inserting) <= topCap - 1 + peak
    BY DEF SeatsInductive, SeatsCounted
  <2>2. topCap \in Nat /\ peak \in Nat
    BY CapsAreNumbers DEF SeatsInductive
  <2>3. QED
    BY <2>1, <2>2, SeatSets
<1>2. QED
  BY SeatsInvariant, <1>1, PTL

(* A removed user keeps nothing, but for what overlapped the removal.      *)
THEOREM RemovalComplete == SeatsSpec => []RemovedLeavesNothing
<1>1. SeatsInductive => RemovedLeavesNothing
  BY DEF SeatsInductive, RemovalHolds, RemovedLeavesNothing
<1>2. QED
  BY SeatsInvariant, <1>1, PTL

(* A seat that was given back is never active again.                       *)
LEMMA OffStep ==
    ASSUME SeatsTypeOK, [SeatsNext]_seatsVars, NEW d \in Devices, seat[d] = "off"
    PROVE  seat'[d] = "off"
<1>1. CASE UNCHANGED seat
  BY <1>1
<1>2. ASSUME NEW c \in Calls, InsertActivation(dev[c]) PROVE seat'[d] = "off"
  BY <1>2 DEF InsertActivation, SeatsTypeOK
<1>3. ASSUME NEW c \in Calls, DeactivateDevice(c) PROVE seat'[d] = "off"
  BY <1>3 DEF DeactivateDevice, SeatsTypeOK
<1>4. ASSUME NEW c \in Calls, RemoveCommit(c) PROVE seat'[d] = "off"
  BY <1>4 DEF RemoveCommit, DropHeld, SeatsTypeOK
<1>5. CASE UNCHANGED seatsVars
  BY <1>5 DEF seatsVars
<1>6. QED
  BY <1>1, <1>2, <1>3, <1>4, <1>5
     DEF SeatsNext, Activate, Deactivate, ActivateLicense, ActivateDevice,
         ActivateCount, ActivateInsert, DeactivateLicense, SignIn, Ensure,
         EnsureAny, EnsureCreate, EnsureRevive, Join, SignInFails,
         CreateSession, Grant, GrantFind, GrantWrite, Patch, PatchWrite,
         Revoke, RevokeWrite, Remove, RemoveSeats, RemoveFails

THEOREM OffIsFinal == SeatsSpec => SeatGivenBack
<1>1. SeatsTypeOK /\ [SeatsNext]_seatsVars =>
          [\A d \in Devices : seat[d] = "off" => seat'[d] = "off"]_seatsVars
  BY OffStep
<1>2. QED
  BY SeatsTyped, <1>1, PTL DEF SeatsSpec, SeatGivenBack
=============================================================================
