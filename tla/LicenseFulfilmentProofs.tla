------------------------ MODULE LicenseFulfilmentProofs ------------------------
(* Theorems about LicenseFulfilment, for every value of its constants.     *)
EXTENDS LicenseFulfilment, FiniteSetTheorems, TLAPS

(* The type of a function updated with a truth value.                      *)
LEMMA BooleanExcept ==
    ASSUME NEW S, NEW f \in [S -> BOOLEAN], NEW x, NEW b \in BOOLEAN
    PROVE  [f EXCEPT ![x] = b] \in [S -> BOOLEAN]
OBVIOUS

(* Every step keeps the types; a handler that sets a status is not a      *)
(* payment's.                                                              *)
LEMMA TypeStep ==
    ASSUME TypeOK, StagesOfKind, [Next]_vars
    PROVE  TypeOK'
<1> USE ConstantsAssumption
    DEF TypeOK, LicenseStatus, Stage, OutboundName, Fault, Move, BuyerOf
<1> USE DEF purchaseVars, subVars, promoVars, historyVars, runVars, localVars,
            readVars, cacheVars
<1>1. ASSUME NEW p \in Purchases, OpenCheckout(p)
     PROVE  TypeOK'
  BY <1>1 DEF OpenCheckout
<1>2. ASSUME NEW p \in Purchases, RecordCheckout(p)
     PROVE  TypeOK'
  <2>1. promo' \in [Purchases -> BOOLEAN]
    <3>1. promo' = promo \/ promo' = [promo EXCEPT ![p] = p \in Discounted]
      BY <1>2 DEF RecordCheckout
    <3>2. promo \in [Purchases -> BOOLEAN]
      OBVIOUS
    <3>3. (p \in Discounted) \in BOOLEAN
      OBVIOUS
    <3>4. QED
      BY <3>1, <3>2, <3>3, BooleanExcept, Zenon
  <2>2. /\ checkout' \in [Purchases -> {"new", "session", "closed"}]
        /\ purchase' \in [Purchases -> {"none", "pending", "completed",
                                        "failed"}]
        /\ faults' \in Nat
    BY <1>2 DEF RecordCheckout
  <2>3. QED
    BY <1>2, <2>1, <2>2 DEF RecordCheckout
<1>3. ASSUME NEW e \in Events, Start(e)
     PROVE  TypeOK'
  BY <1>3 DEF Start, FirstStage
<1>4. ASSUME NEW some \in SUBSET Events, Fail(some)
     PROVE  TypeOK'
  <2>1. Cardinality(some) \in Nat
    BY FiniteAssumption, FS_Subset, FS_CardinalityType
  <2>2. faults' \in Nat /\ pc' \in [Events -> Stage]
    BY <1>4, <2>1 DEF Fail
  <2>3. QED
    BY <1>4, <2>2 DEF Fail
<1>5. ASSUME NEW e \in Events, WritePurchase(e)
     PROVE  TypeOK'
  BY <1>5 DEF WritePurchase
<1>6. ASSUME NEW e \in Events, FindLicense(e)
     PROVE  TypeOK'
  BY <1>6 DEF FindLicense
<1>7. ASSUME NEW e \in Events, WriteLicense(e)
     PROVE  TypeOK'
  BY <1>7 DEF WriteLicense
<1>8. ASSUME NEW e \in Events, RecordTransaction(e)
     PROVE  TypeOK'
  BY <1>8 DEF RecordTransaction
<1>9. ASSUME NEW e \in Events, LinkPurchase(e)
     PROVE  TypeOK'
  BY <1>9 DEF LinkPurchase
<1>10. ASSUME NEW e \in Events, Redeem(e)
     PROVE  TypeOK'
  BY <1>10 DEF Redeem
<1>11. ASSUME NEW e \in Events, IncrementUses(e)
     PROVE  TypeOK'
  BY <1>11 DEF IncrementUses
<1>12. ASSUME NEW e \in Events, IncrementRedemptions(e)
     PROVE  TypeOK'
  BY <1>12 DEF IncrementRedemptions
<1>13. ASSUME NEW e \in Events, RedemptionFails(e)
     PROVE  TypeOK'
  BY <1>13 DEF RedemptionFails
<1>14. ASSUME NEW e \in Events, FindSubscription(e)
     PROVE  TypeOK'
  <2> DEFINE known == sub[SubOf[e]] # "none"
  <2>1. seen' \in [Events -> BOOLEAN]
    <3>1. seen' = seen \/ seen' = [seen EXCEPT ![e] = known]
      BY <1>14 DEF FindSubscription
    <3>2. known \in BOOLEAN
      OBVIOUS
    <3> HIDE DEF known
    <3>3. [seen EXCEPT ![e] = known] \in [Events -> BOOLEAN]
      BY <3>2, BooleanExcept
    <3>4. QED
      BY <3>1, <3>3
  <2>2. pc' \in [Events -> Stage]
    <3>1. \/ pc' = [pc EXCEPT ![e] = "announce"]
          \/ pc' = [pc EXCEPT ![e] = "sub"]
      BY <1>14, Zenon DEF FindSubscription
    <3>2. QED
      BY <3>1
  <2>3. QED
    BY <1>14, <2>1, <2>2 DEF FindSubscription
<1>15. ASSUME NEW e \in Events, UpsertSubscription(e)
     PROVE  TypeOK'
  BY <1>15 DEF UpsertSubscription
<1>16. ASSUME NEW e \in Events, Announce(e)
     PROVE  TypeOK'
  BY <1>16 DEF Announce, Renewal, Licensing
<1>17. ASSUME NEW e \in Events, WriteHistory(e)
     PROVE  TypeOK'
  BY <1>17 DEF WriteHistory
<1>18. ASSUME NEW e \in Events, FinishPayment(e)
     PROVE  TypeOK'
  BY <1>18 DEF FinishPayment, Return, DropCache
<1>19. ASSUME NEW e \in Events, MarkPurchaseFailed(e)
     PROVE  TypeOK'
  <2>1. /\ purchase' \in [Purchases -> {"none", "pending", "completed",
                                        "failed"}]
        /\ faults' \in Nat
    BY <1>19 DEF MarkPurchaseFailed
  <2>2. pc' \in [Events -> Stage]
    BY <1>19 DEF MarkPurchaseFailed
  <2>3. QED
    BY <1>19, <2>1, <2>2 DEF MarkPurchaseFailed
<1>20. ASSUME NEW e \in Events, FindOwner(e)
     PROVE  TypeOK'
  <2>1. PICK u \in Users \cup {NoUser} :
          /\ target' = [target EXCEPT ![e] = u]
          /\ \/ Return(e, "find")
             \/ Move(e, "find", "set") /\ UNCHANGED handled
    BY <1>20, Zenon DEF FindOwner
  <2>2. target' \in [Events -> Users \cup {NoUser}]
    BY <2>1
  <2>3. pc' \in [Events -> Stage] /\ handled' \subseteq Events
    BY <2>1 DEF Return
  <2>4. faults' \in Nat
    BY <1>20 DEF FindOwner
  <2>5. QED
    BY <1>20, <2>2, <2>3, <2>4 DEF FindOwner
<1>21. ASSUME NEW e \in Events, SetStatus(e)
     PROVE  TypeOK'
  <2>1. NewStatus(e) \in LicenseStatus
    BY <1>21 DEF SetStatus, NewStatus, StagesOfKind, PayStages
  <2>2. QED
    BY <1>21, <2>1 DEF SetStatus
<1>22. ASSUME NEW e \in Events, NoteStatus(e)
     PROVE  TypeOK'
  <2>1. NewStatus(e) \in LicenseStatus
    BY <1>22 DEF NoteStatus, NewStatus, StagesOfKind, PayStages
  <2>2. QED
    BY <1>22, <2>1 DEF NoteStatus
<1>23. ASSUME NEW e \in Events, ForgetStatus(e)
     PROVE  TypeOK'
  <2>1. /\ cached' \in [Users -> LicenseStatus \cup {"empty"}]
        /\ faults' \in Nat
    <3>1. DropCache(target[e])
      BY <1>23 DEF ForgetStatus
    <3>2. QED
      BY <3>1 DEF DropCache
  <2>2. pc' \in [Events -> Stage] /\ handled' \subseteq Events
    <3>1. \/ Return(e, "forget")
          \/ Move(e, "forget", "tell") /\ UNCHANGED handled
      BY <1>23 DEF ForgetStatus
    <3>2. QED
      BY <3>1 DEF Return
  <2>3. QED
    BY <1>23, <2>1, <2>2 DEF ForgetStatus
<1>24. ASSUME NEW e \in Events, TellApp(e)
     PROVE  TypeOK'
  BY <1>24 DEF TellApp, News, Return
<1>25. ASSUME NEW s \in Subs, UserCancel(s)
     PROVE  TypeOK'
  BY <1>25 DEF UserCancel, Answer
<1>26. ASSUME NEW s \in Subs, UserResume(s)
     PROVE  TypeOK'
  BY <1>26 DEF UserResume, Answer
<1>27. ASSUME NEW u \in Users, AutoLicense(u)
     PROVE  TypeOK'
  BY <1>27 DEF AutoLicense, DropCache
<1>28. ASSUME NEW u \in Users, ReadLicense(u)
     PROVE  TypeOK'
  BY <1>28 DEF ReadLicense
<1>29. ASSUME NEW u \in Users, FillCache(u)
     PROVE  TypeOK'
  BY <1>29 DEF FillCache
<1>30. ASSUME NEW u \in Users, ExpireCache(u)
     PROVE  TypeOK'
  BY <1>30 DEF ExpireCache
<1>31. CASE UNCHANGED vars
  BY <1>31 DEF vars
<1>32. QED
  BY <1>1, <1>2, <1>3, <1>4, <1>5, <1>6, <1>7, <1>8, <1>9, <1>10, <1>11,
     <1>12, <1>13, <1>14, <1>15, <1>16, <1>17, <1>18, <1>19, <1>20, <1>21,
     <1>22, <1>23, <1>24, <1>25, <1>26, <1>27, <1>28, <1>29, <1>30, <1>31 DEF Next, Busy, Fulfil, Transition

(* A handler stays within the stages of its kind.                         *)
LEMMA StagesStep ==
    ASSUME TypeOK, StagesOfKind, [Next]_vars
    PROVE  StagesOfKind'
<1> USE ConstantsAssumption DEF TypeOK, StagesOfKind, PayStages, Stage, Move
<1> USE DEF runVars
<1>1. ASSUME NEW p \in Purchases, OpenCheckout(p) \/ RecordCheckout(p)
     PROVE  StagesOfKind'
  BY <1>1 DEF OpenCheckout, RecordCheckout
<1>2. ASSUME NEW e \in Events, Start(e)
     PROVE  StagesOfKind'
  BY <1>2 DEF Start, FirstStage
<1>3. ASSUME NEW some \in SUBSET Events, Fail(some)
     PROVE  StagesOfKind'
  BY <1>3 DEF Fail
<1>4. ASSUME NEW e \in Events, WritePurchase(e)
     PROVE  StagesOfKind'
  BY <1>4 DEF WritePurchase
<1>5. ASSUME NEW e \in Events, FindLicense(e)
     PROVE  StagesOfKind'
  BY <1>5 DEF FindLicense
<1>6. ASSUME NEW e \in Events, WriteLicense(e)
     PROVE  StagesOfKind'
  BY <1>6 DEF WriteLicense
<1>7. ASSUME NEW e \in Events, RecordTransaction(e)
     PROVE  StagesOfKind'
  BY <1>7 DEF RecordTransaction
<1>8. ASSUME NEW e \in Events, LinkPurchase(e)
     PROVE  StagesOfKind'
  BY <1>8 DEF LinkPurchase
<1>9. ASSUME NEW e \in Events, Redeem(e)
     PROVE  StagesOfKind'
  BY <1>9 DEF Redeem
<1>10. ASSUME NEW e \in Events, IncrementUses(e)
     PROVE  StagesOfKind'
  BY <1>10 DEF IncrementUses
<1>11. ASSUME NEW e \in Events, IncrementRedemptions(e)
     PROVE  StagesOfKind'
  BY <1>11 DEF IncrementRedemptions
<1>12. ASSUME NEW e \in Events, RedemptionFails(e)
     PROVE  StagesOfKind'
  BY <1>12 DEF RedemptionFails
<1>13. ASSUME NEW e \in Events, FindSubscription(e)
     PROVE  StagesOfKind'
  BY <1>13 DEF FindSubscription
<1>14. ASSUME NEW e \in Events, UpsertSubscription(e)
     PROVE  StagesOfKind'
  BY <1>14 DEF UpsertSubscription
<1>15. ASSUME NEW e \in Events, Announce(e)
     PROVE  StagesOfKind'
  BY <1>15 DEF Announce, Renewal, Licensing
<1>16. ASSUME NEW e \in Events, WriteHistory(e)
     PROVE  StagesOfKind'
  BY <1>16 DEF WriteHistory
<1>17. ASSUME NEW e \in Events, FinishPayment(e)
     PROVE  StagesOfKind'
  BY <1>17 DEF FinishPayment, Return, DropCache
<1>18. ASSUME NEW e \in Events, MarkPurchaseFailed(e)
     PROVE  StagesOfKind'
  BY <1>18 DEF MarkPurchaseFailed
<1>19. ASSUME NEW e \in Events, FindOwner(e)
     PROVE  StagesOfKind'
  BY <1>19 DEF FindOwner, OwnerById, OwnerByMail, Return, Move
<1>20. ASSUME NEW e \in Events, SetStatus(e)
     PROVE  StagesOfKind'
  BY <1>20 DEF SetStatus, NewStatus
<1>21. ASSUME NEW e \in Events, NoteStatus(e)
     PROVE  StagesOfKind'
  BY <1>21 DEF NoteStatus, NewStatus
<1>22. ASSUME NEW e \in Events, ForgetStatus(e)
     PROVE  StagesOfKind'
  BY <1>22 DEF ForgetStatus, DropCache, Return
<1>23. ASSUME NEW e \in Events, TellApp(e)
     PROVE  StagesOfKind'
  BY <1>23 DEF TellApp, News, Return
<1>24. ASSUME NEW s \in Subs, UserCancel(s) \/ UserResume(s)
     PROVE  StagesOfKind'
  BY <1>24 DEF UserCancel, Answer, UserResume
<1>25. ASSUME NEW u \in Users,
              \/ AutoLicense(u) \/ ReadLicense(u) \/ FillCache(u)
              \/ ExpireCache(u)
     PROVE  StagesOfKind'
  BY <1>25 DEF AutoLicense, DropCache, ReadLicense, FillCache, ExpireCache
<1>26. CASE UNCHANGED vars
  BY <1>26 DEF vars
<1>27. QED
  BY <1>1, <1>2, <1>3, <1>4, <1>5, <1>6, <1>7, <1>8, <1>9, <1>10, <1>11,
     <1>12, <1>13, <1>14, <1>15, <1>16, <1>17, <1>18, <1>19, <1>20, <1>21,
     <1>22, <1>23, <1>24, <1>25, <1>26 DEF Next, Busy, Fulfil, Transition

(* Rows are never removed and never change hands.                          *)
Grows ==
    /\ \A u \in Users : license[u] # "none" => license'[u] # "none"
    /\ \A p \in Purchases : purchase[p] \in {"completed", "failed"} =>
                              purchase'[p] \in {"completed", "failed"}
    /\ \A t \in Txns : txnUser[t] # NoUser => txnUser'[t] = txnUser[t]
    /\ \A p \in Purchases : linked[p] # NoTxn => linked'[p] # NoTxn
    /\ \A s \in Subs : subUser[s] # NoUser => subUser'[s] = subUser[s]

LEMMA GrowsStep ==
    ASSUME TypeOK, OwnersMatch, [Next]_vars
    PROVE  Grows
<1> USE ConstantsAssumption
    DEF TypeOK, LicenseStatus, OwnersMatch, Grows, Fault, Move, BuyerOf
<1> USE DEF purchaseVars, subVars
<1>1. ASSUME NEW p \in Purchases, OpenCheckout(p)
     PROVE  Grows
  BY <1>1 DEF OpenCheckout
<1>2. ASSUME NEW p \in Purchases, RecordCheckout(p)
     PROVE  Grows
  BY <1>2 DEF RecordCheckout
<1>3. ASSUME NEW e \in Events, Start(e) \/ FindLicense(e)
     PROVE  Grows
  BY <1>3 DEF Start, FirstStage, FindLicense
<1>fail. ASSUME NEW some \in SUBSET Events, Fail(some)
     PROVE  Grows
  BY <1>fail DEF Fail
<1>4. ASSUME NEW e \in Events, WritePurchase(e)
     PROVE  Grows
  BY <1>4 DEF WritePurchase
<1>5. ASSUME NEW e \in Events, WriteLicense(e)
     PROVE  Grows
  BY <1>5 DEF WriteLicense
<1>6. ASSUME NEW e \in Events, RecordTransaction(e)
     PROVE  Grows
  BY <1>6 DEF RecordTransaction
<1>7. ASSUME NEW e \in Events, LinkPurchase(e)
     PROVE  Grows
  BY <1>7 DEF LinkPurchase
<1>8. ASSUME NEW e \in Events, Redeem(e) \/ IncrementUses(e) \/ IncrementRedemptions(e)
     PROVE  Grows
  BY <1>8 DEF Redeem, IncrementUses, IncrementRedemptions
<1>9. ASSUME NEW e \in Events, RedemptionFails(e) \/ FindSubscription(e) \/ Announce(e)
     PROVE  Grows
  BY <1>9 DEF RedemptionFails, FindSubscription, Announce, Renewal, Licensing
<1>10. ASSUME NEW e \in Events, UpsertSubscription(e)
     PROVE  Grows
  BY <1>10 DEF UpsertSubscription
<1>11. ASSUME NEW e \in Events, WriteHistory(e) \/ FinishPayment(e) \/ NoteStatus(e)
     PROVE  Grows
  BY <1>11 DEF WriteHistory, FinishPayment, Return, DropCache, NoteStatus,
         NewStatus
<1>12. ASSUME NEW e \in Events, MarkPurchaseFailed(e)
     PROVE  Grows
  BY <1>12 DEF MarkPurchaseFailed
<1>13. ASSUME NEW e \in Events, FindOwner(e) \/ ForgetStatus(e) \/ TellApp(e)
     PROVE  Grows
  BY <1>13 DEF FindOwner, OwnerById, OwnerByMail, Return, Move, ForgetStatus,
         DropCache, TellApp, News
<1>14. ASSUME NEW e \in Events, SetStatus(e)
     PROVE  Grows
  <2>1. NewStatus(e) # "none"
    BY DEF NewStatus
  <2>2. QED
    BY <1>14, <2>1 DEF SetStatus
<1>15. ASSUME NEW s \in Subs, UserCancel(s) \/ UserResume(s)
     PROVE  Grows
  BY <1>15 DEF UserCancel, Answer, UserResume
<1>16. ASSUME NEW u \in Users, AutoLicense(u)
     PROVE  Grows
  BY <1>16 DEF AutoLicense, DropCache
<1>17. ASSUME NEW u \in Users, ReadLicense(u) \/ FillCache(u) \/ ExpireCache(u)
     PROVE  Grows
  BY <1>17 DEF ReadLicense, FillCache, ExpireCache
<1>18. CASE UNCHANGED vars
  BY <1>18 DEF vars
<1>19. QED
  BY <1>1, <1>2, <1>3, <1>4, <1>5, <1>6, <1>7, <1>8, <1>9, <1>10, <1>11,
     <1>12, <1>13, <1>14, <1>15, <1>16, <1>17, <1>18, <1>fail
     DEF Next, Busy, Fulfil, Transition

(* Rows are written for the buyer of their event, who has a license by     *)
(* then.                                                                   *)
LEMMA OwnersStep ==
    ASSUME TypeOK, RecordsOnTheWay, OwnersMatch, [Next]_vars
    PROVE  OwnersMatch'
<1>buyer. ASSUME NEW e \in Events
          PROVE  BuyerOf(e) \in Users /\ BuyerOf(e) # NoUser
  BY ConstantsAssumption DEF BuyerOf
<1>ids. /\ TxnOf \in [Events -> Txns]
        /\ \A e \in Events : SubOf[e] # NoSub => SubOf[e] \in Subs
  BY ConstantsAssumption
<1>types. /\ license \in [Users -> LicenseStatus]
          /\ txnUser \in [Txns -> Users \cup {NoUser}]
          /\ subUser \in [Subs -> Users \cup {NoUser}]
          /\ sub \in [Subs -> {"none", "active", "canceled"}]
  BY DEF TypeOK
<1>quiet. ASSUME UNCHANGED <<license, txnUser, sub, subUser>>
          PROVE  OwnersMatch'
  BY <1>quiet DEF OwnersMatch
<1>licensed. ASSUME NEW e \in Events,
                    pc[e] \in {"txn", "sub"}
             PROVE  license[BuyerOf(e)] # "none"
  BY <1>licensed DEF RecordsOnTheWay, OnTheWay, AfterLicense, PayStages
<1>kept. ASSUME \A u \in Users : license[u] # "none" => license'[u] # "none",
                UNCHANGED <<txnUser, sub, subUser>>
         PROVE  OwnersMatch'
  BY <1>types, <1>kept DEF OwnersMatch
<1>1. ASSUME NEW p \in Purchases, OpenCheckout(p) \/ RecordCheckout(p)
     PROVE  OwnersMatch'
  BY <1>1, <1>quiet DEF OpenCheckout, RecordCheckout, purchaseVars, subVars
<1>2. ASSUME NEW e \in Events,
              \/ Start(e) \/ WritePurchase(e)
              \/ FindLicense(e) \/ LinkPurchase(e) \/ Redeem(e)
              \/ IncrementUses(e) \/ IncrementRedemptions(e) \/ RedemptionFails(e)
              \/ FindSubscription(e)
     PROVE  OwnersMatch'
  BY <1>2, <1>quiet DEF Start, WritePurchase, FindLicense, LinkPurchase,
                      Redeem, IncrementUses, IncrementRedemptions,
                      RedemptionFails, FindSubscription, purchaseVars,
                      subVars
<1>fail. ASSUME NEW some \in SUBSET Events, Fail(some)
     PROVE  OwnersMatch'
  BY <1>fail, <1>quiet DEF Fail, purchaseVars, subVars
<1>3. ASSUME NEW e \in Events,
              \/ Announce(e) \/ WriteHistory(e) \/ FinishPayment(e)
              \/ MarkPurchaseFailed(e) \/ FindOwner(e) \/ NoteStatus(e)
              \/ ForgetStatus(e) \/ TellApp(e)
     PROVE  OwnersMatch'
  BY <1>3, <1>quiet DEF Announce, WriteHistory, FinishPayment,
                      MarkPurchaseFailed, FindOwner, NoteStatus,
                      ForgetStatus, TellApp, purchaseVars, subVars
<1>4. ASSUME NEW u \in Users, ReadLicense(u) \/ FillCache(u) \/ ExpireCache(u)
     PROVE  OwnersMatch'
  BY <1>4, <1>quiet DEF ReadLicense, FillCache, ExpireCache, purchaseVars,
                      subVars
<1>5. ASSUME NEW e \in Events, WriteLicense(e)
     PROVE  OwnersMatch'
  BY <1>5, <1>types, <1>kept, <1>buyer DEF WriteLicense, subVars
<1>6. ASSUME NEW e \in Events, RecordTransaction(e)
     PROVE  OwnersMatch'
  <2>1. license[BuyerOf(e)] # "none"
    BY <1>6, <1>licensed DEF RecordTransaction, Move
  <2>2. UNCHANGED <<license, sub, subUser>>
    BY <1>6 DEF RecordTransaction, subVars
  <2>3. ASSUME NEW t \in Txns
        PROVE  \/ txnUser'[t] = txnUser[t]
               \/ t = TxnOf[e] /\ txnUser'[t] = BuyerOf(e)
    BY <1>6, <1>types DEF RecordTransaction
  <2>4. ASSUME NEW f \in Events
        PROVE  txnUser'[TxnOf[f]] \in {NoUser, BuyerOf(f)}
    BY <2>3, <1>ids, OwnIdsAssumption DEF OwnersMatch
  <2>5. QED
    BY <2>1, <2>2, <2>3, <2>4 DEF OwnersMatch
<1>7. ASSUME NEW e \in Events, UpsertSubscription(e)
     PROVE  OwnersMatch'
  <2>1. license[BuyerOf(e)] # "none"
    BY <1>7, <1>licensed DEF UpsertSubscription, Move
  <2>2. UNCHANGED <<license, txnUser>>
    BY <1>7 DEF UpsertSubscription
  <2>3. ASSUME NEW s \in Subs
        PROVE  \/ subUser'[s] = subUser[s]
               \/ s = SubOf[e] /\ subUser'[s] = BuyerOf(e)
    BY <1>7, <1>types DEF UpsertSubscription
  <2>4. ASSUME NEW s \in Subs
        PROVE  sub'[s] = "none" <=> subUser'[s] = NoUser
    BY <1>7, <1>types, <1>buyer DEF UpsertSubscription, OwnersMatch
  <2>5. ASSUME NEW f \in Events, SubOf[f] # NoSub
        PROVE  subUser'[SubOf[f]] \in {NoUser, BuyerOf(f)}
    BY <2>3, <2>5, <1>ids, OwnIdsAssumption DEF OwnersMatch
  <2>6. QED
    BY <2>1, <2>2, <2>3, <2>4, <2>5 DEF OwnersMatch
<1>8. ASSUME NEW e \in Events, SetStatus(e)
     PROVE  OwnersMatch'
  <2>1. NewStatus(e) # "none"
    BY ConstantsAssumption DEF NewStatus
  <2>2. QED
    BY <1>8, <2>1, <1>types, <1>kept DEF SetStatus, subVars
<1>9. ASSUME NEW s \in Subs, UserCancel(s)
     PROVE  OwnersMatch'
  <2>1. /\ UNCHANGED <<license, txnUser, subUser>>
        /\ sub[s] # "none"
        /\ sub' = [sub EXCEPT ![s] = "canceled"]
    BY <1>9 DEF UserCancel
  <2>2. QED
    BY <2>1, <1>types DEF OwnersMatch
<1>10. ASSUME NEW s \in Subs, UserResume(s)
     PROVE  OwnersMatch'
  <2>1. /\ UNCHANGED <<license, txnUser, subUser>>
        /\ sub[s] # "none"
        /\ sub' = [sub EXCEPT ![s] = "active"]
    BY <1>10 DEF UserResume
  <2>2. QED
    BY <2>1, <1>types DEF OwnersMatch
<1>11. ASSUME NEW u \in Users, AutoLicense(u)
     PROVE  OwnersMatch'
  BY <1>11, <1>types, <1>kept DEF AutoLicense, subVars
<1>12. CASE UNCHANGED vars
  BY <1>12, <1>quiet DEF vars, subVars
<1>13. QED
  BY <1>1, <1>2, <1>3, <1>4, <1>5, <1>6, <1>7, <1>8, <1>9, <1>10, <1>11,
     <1>12, <1>fail
     DEF Next, Busy, Fulfil, Transition

(* What a paying handler has written stays written.                        *)
LEMMA RecordsStep ==
    ASSUME TypeOK, OwnersMatch, RecordsOnTheWay, [Next]_vars
    PROVE  RecordsOnTheWay'
<1>grows. Grows
  BY GrowsStep
<1>types. /\ pc \in [Events -> Stage]
          /\ license \in [Users -> LicenseStatus]
          /\ purchase \in [Purchases -> {"none", "pending", "completed",
                                        "failed"}]
          /\ linked \in [Purchases -> Txns \cup {NoTxn}]
          /\ txnUser \in [Txns -> Users \cup {NoUser}]
          /\ subUser \in [Subs -> Users \cup {NoUser}]
  BY DEF TypeOK
<1>consts. ASSUME NEW e \in Events
           PROVE  /\ BuyerOf(e) \in Users /\ BuyerOf(e) # NoUser
                  /\ PurchaseOf[e] \in Purchases
                  /\ TxnOf[e] \in Txns /\ TxnOf[e] # NoTxn
                  /\ SubOf[e] # NoSub => SubOf[e] \in Subs
  BY ConstantsAssumption DEF BuyerOf
<1>still. ASSUME NEW f \in Events, pc'[f] = pc[f]
          PROVE  OnTheWay(f)'
  BY <1>still, <1>grows, <1>consts DEF RecordsOnTheWay, OnTheWay, Grows
<1>idle. ASSUME NEW e \in Events, pc' = [pc EXCEPT ![e] = "idle"]
         PROVE  RecordsOnTheWay'
  <2>1. ASSUME NEW f \in Events, f # e
        PROVE  pc'[f] = pc[f]
    BY <1>idle, <1>types, <2>1
  <2>2. OnTheWay(e)'
    BY <1>idle, <1>types
       DEF OnTheWay, PayStages, AfterLicense, AfterTxn, AfterLink, AfterSub
  <2>3. QED
    BY <2>1, <2>2, <1>still DEF RecordsOnTheWay
<1>move. ASSUME NEW e \in Events, NEW to, pc' = [pc EXCEPT ![e] = to],
                OnTheWay(e)'
         PROVE  RecordsOnTheWay'
  BY <1>move, <1>types, <1>still DEF RecordsOnTheWay
<1>same. ASSUME UNCHANGED pc
         PROVE  RecordsOnTheWay'
  BY <1>same, <1>still DEF RecordsOnTheWay
<1>1. ASSUME NEW p \in Purchases, OpenCheckout(p) \/ RecordCheckout(p)
     PROVE  RecordsOnTheWay'
  BY <1>1, <1>same DEF OpenCheckout, RecordCheckout
<1>2. ASSUME NEW e \in Events, Start(e)
     PROVE  RecordsOnTheWay'
  <2>1. /\ pc'[e] = FirstStage(e) /\ pc' = [pc EXCEPT ![e] = FirstStage(e)]
    BY <1>2, <1>types DEF Start
  <2>2. OnTheWay(e)'
    BY <2>1 DEF OnTheWay, FirstStage, PayStages, AfterLicense, AfterTxn,
                AfterLink, AfterSub
  <2>3. QED
    BY <2>1, <2>2, <1>move
<1>3. ASSUME NEW some \in SUBSET Events, Fail(some)
     PROVE  RecordsOnTheWay'
  <2>1. ASSUME NEW f \in Events
        PROVE  OnTheWay(f)'
    <3>1. CASE f \in some
      BY <1>3, <2>1, <3>1
         DEF Fail, OnTheWay, PayStages, AfterLicense, AfterTxn, AfterLink,
             AfterSub
    <3>2. CASE f \notin some
      BY <1>3, <2>1, <3>2, <1>still DEF Fail
    <3>3. QED
      BY <3>1, <3>2
  <2>2. QED
    BY <2>1 DEF RecordsOnTheWay
<1>4. ASSUME NEW e \in Events, WritePurchase(e)
     PROVE  RecordsOnTheWay'
  <2>1. CASE pc' = [pc EXCEPT ![e] = "idle"]
    BY <2>1, <1>idle
  <2>2. CASE /\ pc' = [pc EXCEPT ![e] = "findLicense"]
             /\ purchase' = [purchase EXCEPT ![PurchaseOf[e]] = "completed"]
    <3>1. pc'[e] = "findLicense" /\ purchase'[PurchaseOf[e]] = "completed"
      BY <2>2, <1>types, <1>consts
    <3>2. OnTheWay(e)'
      BY <3>1 DEF OnTheWay, PayStages, AfterLicense, AfterTxn, AfterLink,
                  AfterSub
    <3>3. QED
      BY <2>2, <3>2, <1>move
  <2>3. QED
    BY <1>4, <2>1, <2>2 DEF WritePurchase
<1>5. ASSUME NEW e \in Events, FindLicense(e)
     PROVE  RecordsOnTheWay'
  <2>1. pc[e] = "findLicense" /\ pc'[e] = "license" /\ pc' = [pc EXCEPT ![e] = "license"]
    BY <1>5, <1>types DEF FindLicense, Move
  <2>2. OnTheWay(e)'
    BY <1>5, <2>1, <1>grows, <1>types, <1>consts
       DEF RecordsOnTheWay, OnTheWay, Grows, PayStages, AfterLicense,
           AfterTxn, AfterLink, AfterSub, FindLicense
  <2>3. QED
    BY <2>1, <2>2, <1>move
<1>6. ASSUME NEW e \in Events, WriteLicense(e)
     PROVE  RecordsOnTheWay'
  <2>1. pc[e] = "license" /\ pc'[e] = "txn" /\ pc' = [pc EXCEPT ![e] = "txn"]
    BY <1>6, <1>types DEF WriteLicense, Move
  <2>2. OnTheWay(e)'
    BY <1>6, <2>1, <1>grows, <1>types, <1>consts
       DEF RecordsOnTheWay, OnTheWay, Grows, PayStages, AfterLicense,
           AfterTxn, AfterLink, AfterSub, WriteLicense
  <2>3. QED
    BY <2>1, <2>2, <1>move
<1>7. ASSUME NEW e \in Events, RecordTransaction(e)
     PROVE  RecordsOnTheWay'
  <2>1. pc[e] = "txn" /\ pc'[e] = "link" /\ pc' = [pc EXCEPT ![e] = "link"]
    BY <1>7, <1>types DEF RecordTransaction, Move
  <2>2. OnTheWay(e)'
    BY <1>7, <2>1, <1>grows, <1>types, <1>consts
       DEF RecordsOnTheWay, OnTheWay, Grows, PayStages, AfterLicense,
           AfterTxn, AfterLink, AfterSub, OwnersMatch,
           RecordTransaction
  <2>3. QED
    BY <2>1, <2>2, <1>move
<1>8. ASSUME NEW e \in Events, LinkPurchase(e)
     PROVE  RecordsOnTheWay'
  <2>1. pc[e] = "link" /\ pc'[e] = (IF promo[PurchaseOf[e]] THEN "redeem" ELSE "findSub") /\ pc' = [pc EXCEPT ![e] = (IF promo[PurchaseOf[e]] THEN "redeem" ELSE "findSub")]
    BY <1>8, <1>types DEF LinkPurchase, Move
  <2>2. OnTheWay(e)'
    BY <1>8, <2>1, <1>grows, <1>types, <1>consts
       DEF RecordsOnTheWay, OnTheWay, Grows, PayStages, AfterLicense,
           AfterTxn, AfterLink, AfterSub, LinkPurchase
  <2>3. QED
    BY <2>1, <2>2, <1>move
<1>9. ASSUME NEW e \in Events, Redeem(e)
     PROVE  RecordsOnTheWay'
  <2>1. pc[e] = "redeem" /\ pc'[e] = "uses" /\ pc' = [pc EXCEPT ![e] = "uses"]
    BY <1>9, <1>types DEF Redeem, Move
  <2>2. OnTheWay(e)'
    BY <1>9, <2>1, <1>grows, <1>types, <1>consts
       DEF RecordsOnTheWay, OnTheWay, Grows, PayStages, AfterLicense,
           AfterTxn, AfterLink, AfterSub, Redeem
  <2>3. QED
    BY <2>1, <2>2, <1>move
<1>10. ASSUME NEW e \in Events, IncrementUses(e)
     PROVE  RecordsOnTheWay'
  <2>1. pc[e] = "uses" /\ pc'[e] = "total" /\ pc' = [pc EXCEPT ![e] = "total"]
    BY <1>10, <1>types DEF IncrementUses, Move
  <2>2. OnTheWay(e)'
    BY <1>10, <2>1, <1>grows, <1>types, <1>consts
       DEF RecordsOnTheWay, OnTheWay, Grows, PayStages, AfterLicense,
           AfterTxn, AfterLink, AfterSub, IncrementUses
  <2>3. QED
    BY <2>1, <2>2, <1>move
<1>11. ASSUME NEW e \in Events, IncrementRedemptions(e)
     PROVE  RecordsOnTheWay'
  <2>1. pc[e] = "total" /\ pc'[e] = "findSub" /\ pc' = [pc EXCEPT ![e] = "findSub"]
    BY <1>11, <1>types DEF IncrementRedemptions, Move
  <2>2. OnTheWay(e)'
    BY <1>11, <2>1, <1>grows, <1>types, <1>consts
       DEF RecordsOnTheWay, OnTheWay, Grows, PayStages, AfterLicense,
           AfterTxn, AfterLink, AfterSub, IncrementRedemptions
  <2>3. QED
    BY <2>1, <2>2, <1>move
<1>12. ASSUME NEW e \in Events, RedemptionFails(e)
     PROVE  RecordsOnTheWay'
  <2>1. /\ pc[e] \in {"redeem", "uses", "total"}
        /\ pc'[e] = "findSub" /\ pc' = [pc EXCEPT ![e] = "findSub"]
    BY <1>12, <1>types DEF RedemptionFails
  <2>2. OnTheWay(e)'
    BY <2>1, <1>grows, <1>consts
       DEF RecordsOnTheWay, OnTheWay, Grows, PayStages, AfterLicense,
           AfterTxn, AfterLink, AfterSub
  <2>3. QED
    BY <2>1, <2>2, <1>move
<1>13. ASSUME NEW e \in Events, FindSubscription(e)
     PROVE  RecordsOnTheWay'
  <2> DEFINE to == IF SubOf[e] = NoSub THEN "announce" ELSE "sub"
  <2>1. /\ pc[e] = "findSub"
        /\ pc'[e] = to /\ pc' = [pc EXCEPT ![e] = to]
    BY <1>13, <1>types DEF FindSubscription
  <2>2. OnTheWay(e)'
    BY <2>1, <1>grows, <1>consts
       DEF RecordsOnTheWay, OnTheWay, Grows, PayStages, AfterLicense,
           AfterTxn, AfterLink, AfterSub
  <2>3. QED
    BY <2>1, <2>2, <1>move
<1>14. ASSUME NEW e \in Events, UpsertSubscription(e)
     PROVE  RecordsOnTheWay'
  <2>1. pc[e] = "sub" /\ pc'[e] = "announce" /\ pc' = [pc EXCEPT ![e] = "announce"]
    BY <1>14, <1>types DEF UpsertSubscription, Move
  <2>2. OnTheWay(e)'
    BY <1>14, <2>1, <1>grows, <1>types, <1>consts
       DEF RecordsOnTheWay, OnTheWay, Grows, PayStages, AfterLicense,
           AfterTxn, AfterLink, AfterSub, OwnersMatch,
           UpsertSubscription
  <2>3. QED
    BY <2>1, <2>2, <1>move
<1>15. ASSUME NEW e \in Events, Announce(e)
     PROVE  RecordsOnTheWay'
  <2>1. pc[e] = "announce" /\ pc'[e] = (IF made[e] THEN "history" ELSE "drop") /\ pc' = [pc EXCEPT ![e] = (IF made[e] THEN "history" ELSE "drop")]
    BY <1>15, <1>types DEF Announce, Move
  <2>2. OnTheWay(e)'
    BY <1>15, <2>1, <1>grows, <1>types, <1>consts
       DEF RecordsOnTheWay, OnTheWay, Grows, PayStages, AfterLicense,
           AfterTxn, AfterLink, AfterSub, Announce
  <2>3. QED
    BY <2>1, <2>2, <1>move
<1>16. ASSUME NEW e \in Events, WriteHistory(e)
     PROVE  RecordsOnTheWay'
  <2>1. pc[e] = "history" /\ pc'[e] = "drop" /\ pc' = [pc EXCEPT ![e] = "drop"]
    BY <1>16, <1>types DEF WriteHistory, Move
  <2>2. OnTheWay(e)'
    BY <1>16, <2>1, <1>grows, <1>types, <1>consts
       DEF RecordsOnTheWay, OnTheWay, Grows, PayStages, AfterLicense,
           AfterTxn, AfterLink, AfterSub, WriteHistory
  <2>3. QED
    BY <2>1, <2>2, <1>move
<1>17. ASSUME NEW e \in Events, FinishPayment(e)
     PROVE  RecordsOnTheWay'
  BY <1>17, <1>idle DEF FinishPayment, Return, Move
<1>18. ASSUME NEW e \in Events, MarkPurchaseFailed(e)
     PROVE  RecordsOnTheWay'
  <2>1. pc[e] = "mark" /\ pc'[e] = "find" /\ pc' = [pc EXCEPT ![e] = "find"]
    BY <1>18, <1>types DEF MarkPurchaseFailed, Move
  <2>2. OnTheWay(e)'
    BY <1>18, <2>1, <1>grows, <1>types, <1>consts
       DEF RecordsOnTheWay, OnTheWay, Grows, PayStages, AfterLicense,
           AfterTxn, AfterLink, AfterSub, MarkPurchaseFailed
  <2>3. QED
    BY <2>1, <2>2, <1>move
<1>19. ASSUME NEW e \in Events, FindOwner(e)
     PROVE  RecordsOnTheWay'
  <2>1. CASE Return(e, "find")
    BY <2>1, <1>idle DEF Return, Move
  <2>2. CASE Move(e, "find", "set")
    <3>1. pc'[e] = "set" /\ pc' = [pc EXCEPT ![e] = "set"]
      BY <2>2, <1>types DEF Move
    <3>2. OnTheWay(e)'
      BY <3>1 DEF OnTheWay, PayStages, AfterLicense, AfterTxn, AfterLink,
                  AfterSub
    <3>3. QED
      BY <3>1, <3>2, <1>move
  <2>3. QED
    BY <1>19, <2>1, <2>2 DEF FindOwner
<1>20. ASSUME NEW e \in Events, SetStatus(e)
     PROVE  RecordsOnTheWay'
  <2>1. pc[e] = "set" /\ pc'[e] = "note" /\ pc' = [pc EXCEPT ![e] = "note"]
    BY <1>20, <1>types DEF SetStatus, Move
  <2>2. OnTheWay(e)'
    BY <1>20, <2>1, <1>grows, <1>types, <1>consts
       DEF RecordsOnTheWay, OnTheWay, Grows, PayStages, AfterLicense,
           AfterTxn, AfterLink, AfterSub, SetStatus
  <2>3. QED
    BY <2>1, <2>2, <1>move
<1>21. ASSUME NEW e \in Events, NoteStatus(e)
     PROVE  RecordsOnTheWay'
  <2>1. pc[e] = "note" /\ pc'[e] = "forget" /\ pc' = [pc EXCEPT ![e] = "forget"]
    BY <1>21, <1>types DEF NoteStatus, Move
  <2>2. OnTheWay(e)'
    BY <1>21, <2>1, <1>grows, <1>types, <1>consts
       DEF RecordsOnTheWay, OnTheWay, Grows, PayStages, AfterLicense,
           AfterTxn, AfterLink, AfterSub, NoteStatus
  <2>3. QED
    BY <2>1, <2>2, <1>move
<1>22. ASSUME NEW e \in Events, ForgetStatus(e)
     PROVE  RecordsOnTheWay'
  <2>1. CASE Return(e, "forget")
    BY <2>1, <1>idle DEF Return, Move
  <2>2. CASE Move(e, "forget", "tell")
    <3>1. pc'[e] = "tell" /\ pc' = [pc EXCEPT ![e] = "tell"]
      BY <2>2, <1>types DEF Move
    <3>2. OnTheWay(e)'
      BY <3>1 DEF OnTheWay, PayStages, AfterLicense, AfterTxn, AfterLink,
                  AfterSub
    <3>3. QED
      BY <3>1, <3>2, <1>move
  <2>3. QED
    BY <1>22, <2>1, <2>2 DEF ForgetStatus
<1>23. ASSUME NEW e \in Events, TellApp(e)
     PROVE  RecordsOnTheWay'
  BY <1>23, <1>idle DEF TellApp, Return, Move
<1>24. ASSUME NEW s \in Subs, UserCancel(s) \/ UserResume(s)
     PROVE  RecordsOnTheWay'
  BY <1>24, <1>same DEF UserCancel, UserResume
<1>25. ASSUME NEW u \in Users,
              \/ AutoLicense(u) \/ ReadLicense(u) \/ FillCache(u)
              \/ ExpireCache(u)
     PROVE  RecordsOnTheWay'
  BY <1>25, <1>same DEF AutoLicense, ReadLicense, FillCache, ExpireCache
<1>26. CASE UNCHANGED vars
  BY <1>26, <1>same DEF vars
<1>27. QED
  BY <1>1, <1>2, <1>3, <1>4, <1>5, <1>6, <1>7, <1>8, <1>9, <1>10, <1>11,
     <1>12, <1>13, <1>14, <1>15, <1>16, <1>17, <1>18, <1>19, <1>20, <1>21,
     <1>22, <1>23, <1>24, <1>25, <1>26 DEF Next, Busy, Fulfil, Transition

(* Only a handler that wrote every record ends as handled.                 *)
LEMMA CompleteStep ==
    ASSUME TypeOK, StagesOfKind, OwnersMatch, RecordsOnTheWay,
           FulfilledIsComplete, [Next]_vars
    PROVE  FulfilledIsComplete'
<1>grows. Grows
  BY GrowsStep
<1>consts. ASSUME NEW e \in Events
           PROVE  /\ BuyerOf(e) \in Users /\ BuyerOf(e) # NoUser
                  /\ PurchaseOf[e] \in Purchases
                  /\ TxnOf[e] \in Txns
                  /\ SubOf[e] # NoSub => SubOf[e] \in Subs
  BY ConstantsAssumption DEF BuyerOf
<1>kept. ASSUME NEW f \in Events, Complete(f)
         PROVE  Complete(f)'
  BY <1>kept, <1>grows, <1>consts DEF Complete, Grows
<1>within. handled \subseteq Events
  BY DEF TypeOK
<1>same. ASSUME UNCHANGED handled
         PROVE  FulfilledIsComplete'
  BY <1>same, <1>kept, <1>within DEF FulfilledIsComplete
<1>other. ASSUME NEW e \in Events, pc[e] \in {"find", "forget", "tell"},
                 handled' \in {handled, handled \cup {e}}
          PROVE  FulfilledIsComplete'
  <2>1. Kind[e] # "succeeded"
    BY <1>other DEF StagesOfKind, PayStages
  <2>2. QED
    BY <2>1, <1>other, <1>kept, <1>within DEF FulfilledIsComplete
<1>1. ASSUME NEW p \in Purchases, OpenCheckout(p) \/ RecordCheckout(p)
     PROVE  FulfilledIsComplete'
  BY <1>1, <1>same DEF OpenCheckout, RecordCheckout, runVars
<1>2. ASSUME NEW e \in Events,
              \/ Start(e) \/ WritePurchase(e)
              \/ FindLicense(e) \/ WriteLicense(e) \/ RecordTransaction(e)
              \/ LinkPurchase(e)
     PROVE  FulfilledIsComplete'
  BY <1>2, <1>same DEF Start, WritePurchase, FindLicense, WriteLicense,
                     RecordTransaction, LinkPurchase, runVars
<1>fail. ASSUME NEW some \in SUBSET Events, Fail(some)
     PROVE  FulfilledIsComplete'
  BY <1>fail, <1>same DEF Fail, runVars
<1>3. ASSUME NEW e \in Events,
              \/ Redeem(e) \/ IncrementUses(e) \/ IncrementRedemptions(e)
              \/ RedemptionFails(e) \/ FindSubscription(e) \/ UpsertSubscription(e)
              \/ Announce(e) \/ WriteHistory(e)
     PROVE  FulfilledIsComplete'
  BY <1>3, <1>same DEF Redeem, IncrementUses, IncrementRedemptions,
                     RedemptionFails, FindSubscription, UpsertSubscription,
                     Announce, WriteHistory, runVars
<1>4. ASSUME NEW e \in Events, FinishPayment(e)
     PROVE  FulfilledIsComplete'
  <2>1. pc[e] = "drop" /\ handled' = handled \cup {e}
    BY <1>4 DEF FinishPayment, Return, Move
  <2>2. Complete(e)
    BY <2>1, <1>consts
       DEF RecordsOnTheWay, OnTheWay, Complete, PayStages, AfterLicense,
           AfterTxn, AfterLink, AfterSub
  <2>3. QED
    BY <2>1, <2>2, <1>kept, <1>within DEF FulfilledIsComplete
<1>5. ASSUME NEW e \in Events, MarkPurchaseFailed(e) \/ SetStatus(e) \/ NoteStatus(e)
     PROVE  FulfilledIsComplete'
  BY <1>5, <1>same DEF MarkPurchaseFailed, SetStatus, NoteStatus, runVars
<1>6. ASSUME NEW e \in Events, FindOwner(e)
     PROVE  FulfilledIsComplete'
  BY <1>6, <1>other DEF FindOwner, Return, Move
<1>7. ASSUME NEW e \in Events, ForgetStatus(e)
     PROVE  FulfilledIsComplete'
  BY <1>7, <1>other DEF ForgetStatus, Return, Move
<1>8. ASSUME NEW e \in Events, TellApp(e)
     PROVE  FulfilledIsComplete'
  BY <1>8, <1>other DEF TellApp, Return, Move
<1>9. ASSUME NEW s \in Subs, UserCancel(s) \/ UserResume(s)
     PROVE  FulfilledIsComplete'
  BY <1>9, <1>same DEF UserCancel, UserResume, runVars
<1>10. ASSUME NEW u \in Users,
              \/ AutoLicense(u) \/ ReadLicense(u) \/ FillCache(u)
              \/ ExpireCache(u)
     PROVE  FulfilledIsComplete'
  BY <1>10, <1>same
     DEF AutoLicense, ReadLicense, FillCache, ExpireCache, runVars
<1>11. CASE UNCHANGED vars
  BY <1>11, <1>same DEF vars, runVars
<1>12. QED
  BY <1>1, <1>2, <1>3, <1>4, <1>5, <1>6, <1>7, <1>8, <1>9, <1>10, <1>11, <1>fail
     DEF Next, Busy, Fulfil, Transition

(* The license found is the buyer's, or that of the email's owner.          *)
LEMMA TargetStep ==
    ASSUME TypeOK, StagesOfKind, OwnersMatch, TargetOwn, [Next]_vars
    PROVE  TargetOwn'
<1>grows. Grows
  BY GrowsStep
<1>types. /\ pc \in [Events -> Stage]
          /\ target \in [Events -> Users \cup {NoUser}]
  BY DEF TypeOK
<1>payer. \A e \in Events : Concerned(e) \subseteq Users
  BY ConstantsAssumption DEF Concerned, BuyerOf
<1>same. ASSUME UNCHANGED target,
                \A e \in Events :
                    \/ pc'[e] = pc[e]
                    \/ pc'[e] \notin {"set", "note", "forget"}
                    \/ pc[e] \in {"set", "note"}
         PROVE  TargetOwn'
  BY <1>same, <1>grows, <1>types, <1>payer DEF TargetOwn, Grows
<1>1. ASSUME NEW p \in Purchases, OpenCheckout(p) \/ RecordCheckout(p)
     PROVE  TargetOwn'
  BY <1>1, <1>same DEF OpenCheckout, RecordCheckout, localVars
<1>2. ASSUME NEW e \in Events, Start(e)
     PROVE  TargetOwn'
  <2>1. pc'[e] \in {"purchase", "mark", "find"}
    BY <1>2, <1>types DEF Start, FirstStage
  <2>2. ASSUME NEW f \in Events, f # e
        PROVE  pc'[f] = pc[f] /\ target'[f] = target[f]
    BY <1>2, <1>types, <2>2 DEF Start
  <2>3. QED
    BY <2>1, <2>2, <1>grows, <1>types, <1>payer DEF TargetOwn, Grows
<1>3. ASSUME NEW e \in Events,
              \/ WritePurchase(e) \/ FindLicense(e)
              \/ WriteLicense(e) \/ RecordTransaction(e) \/ LinkPurchase(e)
     PROVE  TargetOwn'
  BY <1>3, <1>types, <1>same DEF WritePurchase, FindLicense,
                               WriteLicense, RecordTransaction,
                               LinkPurchase, Move, localVars
<1>fail. ASSUME NEW some \in SUBSET Events, Fail(some)
     PROVE  TargetOwn'
  BY <1>fail, <1>same DEF Fail, localVars
<1>4. ASSUME NEW e \in Events,
              \/ Redeem(e) \/ IncrementUses(e) \/ IncrementRedemptions(e)
              \/ RedemptionFails(e) \/ FindSubscription(e)
     PROVE  TargetOwn'
  BY <1>4, <1>types, <1>same DEF Redeem, IncrementUses, IncrementRedemptions,
                               RedemptionFails, FindSubscription, Move,
                               localVars
<1>5. ASSUME NEW e \in Events,
              \/ UpsertSubscription(e) \/ Announce(e) \/ WriteHistory(e)
              \/ FinishPayment(e)
     PROVE  TargetOwn'
  BY <1>5, <1>types, <1>same DEF UpsertSubscription, Announce, WriteHistory,
                               FinishPayment, Return, Move, localVars
<1>6. ASSUME NEW e \in Events,
              \/ MarkPurchaseFailed(e) \/ SetStatus(e) \/ NoteStatus(e)
              \/ ForgetStatus(e) \/ TellApp(e)
     PROVE  TargetOwn'
  BY <1>6, <1>types, <1>same DEF MarkPurchaseFailed, SetStatus, NoteStatus,
                               ForgetStatus, TellApp, Return, Move,
                               localVars
<1>7. ASSUME NEW e \in Events, FindOwner(e)
     PROVE  TargetOwn'
  <2>1. PICK u \in Users \cup {NoUser} :
            /\ u \in {OwnerById(e), OwnerByMail(e)}
            /\ target' = [target EXCEPT ![e] = u]
            /\ \/ u = NoUser /\ pc' = [pc EXCEPT ![e] = "idle"]
               \/ u # NoUser /\ pc' = [pc EXCEPT ![e] = "set"]
    BY <1>7 DEF FindOwner, Return, Move
  <2>2. UNCHANGED license
    BY <1>7 DEF FindOwner
  <2>3. ASSUME u # NoUser
        PROVE  u \in Concerned(e) /\ license[u] # "none"
    <3>1. CASE u = OwnerById(e)
      BY <2>3, <3>1, ConstantsAssumption DEF OwnerById, OwnersMatch, Concerned
    <3>2. CASE u = OwnerByMail(e)
      <4>1. /\ u = Payer[e] /\ e \in Tagged /\ Kind[e] # "canceled"
            /\ license[u] # "none"
        BY <2>3, <3>2 DEF OwnerByMail
      <4>2. Kind[e] \in {"failed", "refunded"}
        BY <1>7, <4>1, ConstantsAssumption DEF FindOwner, StagesOfKind, PayStages
      <4>3. QED
        BY <2>3, <4>1, <4>2 DEF Concerned
    <3>3. QED
      BY <2>1, <3>1, <3>2
  <2>4. ASSUME NEW f \in Events, f # e
        PROVE  pc'[f] = pc[f] /\ target'[f] = target[f]
    BY <2>1, <1>types, <2>4
  <2>5. target'[e] = u /\ (u = NoUser => pc'[e] = "idle")
    BY <2>1, <1>types
  <2>6. QED
    BY <2>2, <2>3, <2>4, <2>5, <1>types DEF TargetOwn
<1>8. ASSUME NEW s \in Subs, UserCancel(s) \/ UserResume(s)
     PROVE  TargetOwn'
  BY <1>8, <1>same DEF UserCancel, UserResume, localVars
<1>9. ASSUME NEW u \in Users,
              \/ AutoLicense(u) \/ ReadLicense(u) \/ FillCache(u)
              \/ ExpireCache(u)
     PROVE  TargetOwn'
  BY <1>9, <1>same
     DEF AutoLicense, ReadLicense, FillCache, ExpireCache, localVars
<1>10. CASE UNCHANGED vars
  BY <1>10, <1>same DEF vars, localVars
<1>11. QED
  BY <1>1, <1>2, <1>3, <1>4, <1>5, <1>6, <1>7, <1>8, <1>9, <1>10, <1>fail
     DEF Next, Busy, Fulfil, Transition

(* One handler creates a license, and announces and records it once.       *)
LEMMA MakerStep ==
    ASSUME TypeOK, OwnersMatch, RecordsOnTheWay, MakerAlone, OneCreation, [Next]_vars
    PROVE  MakerAlone' /\ OneCreation'
<1>grows. Grows
  BY GrowsStep
<1>types. /\ pc \in [Events -> Stage]
          /\ made \in [Events -> BOOLEAN]
          /\ created \in [Users -> Nat]
  BY DEF TypeOK
<1>buyer. ASSUME NEW e \in Events
          PROVE  BuyerOf(e) \in Users
  BY ConstantsAssumption DEF BuyerOf
<1>stages. AfterLicense \ {"drop"} = {"txn", "link", "redeem", "uses", "total",
                          "findSub", "sub", "announce", "history"}
  BY DEF AfterLicense, PayStages
<1>licensed. ASSUME NEW e \in Events, Making(e)
             PROVE  license[BuyerOf(e)] # "none"
  BY <1>licensed DEF Making, RecordsOnTheWay, OnTheWay
<1>fewer. ASSUME UNCHANGED created,
                 \A e \in Events : <<"license.created", e>> \in sent'
                                    => <<"license.created", e>> \in sent,
                 \A e \in Events : Making(e)' => Making(e),
                 \A e \in Events : pc'[e] = "history" => made'[e]
          PROVE  MakerAlone' /\ OneCreation'
  <2>1. ASSUME NEW u \in Users
        PROVE  Announced(u)' \subseteq Announced(u)
    BY <1>fewer DEF Announced
  <2>2. MakerAlone'
    <3>1. ASSUME NEW u \in Users, license'[u] = "none"
          PROVE  created'[u] = 0 /\ Announced(u)' = {}
      BY <2>1, <3>1, <1>grows, <1>fewer DEF MakerAlone, Grows
    <3>2. ASSUME NEW e \in Events, Making(e)'
          PROVE  /\ created'[BuyerOf(e)] = 0
                 /\ Announced(BuyerOf(e))' \subseteq {e}
      <4>1. Making(e)
        BY <3>2, <1>fewer
      <4>2. QED
        BY <4>1, <2>1, <1>fewer, <1>buyer DEF MakerAlone
    <3>3. ASSUME NEW e \in Events, NEW f \in Events, Making(e)', Making(f)',
                 BuyerOf(e) = BuyerOf(f)
          PROVE  e = f
      BY <3>3, <1>fewer DEF MakerAlone
    <3>4. QED
      BY <3>1, <3>2, <3>3, <1>fewer DEF MakerAlone
  <2>3. OneCreation'
    BY <1>fewer DEF OneCreation
  <2>4. QED
    BY <2>2, <2>3
<1>frame. ASSUME UNCHANGED <<created, sent, made>>,
                 \A e \in Events :
                     \/ pc'[e] = pc[e]
                     \/ pc'[e] \notin AfterLicense \ {"drop"}
                     \/ /\ pc[e] \in AfterLicense \ {"drop"}
                        /\ pc'[e] # "history"
          PROVE  MakerAlone' /\ OneCreation'
  <2>1. \A e \in Events : Making(e)' => Making(e)
    BY <1>frame DEF Making
  <2>2. \A e \in Events : pc'[e] = "history" => made'[e]
    BY <1>frame, <1>stages DEF MakerAlone
  <2>3. QED
    BY <2>1, <2>2, <1>fewer, <1>frame
<1>1. ASSUME NEW p \in Purchases, OpenCheckout(p) \/ RecordCheckout(p)
     PROVE  MakerAlone' /\ OneCreation'
  BY <1>1, <1>frame
     DEF OpenCheckout, RecordCheckout, localVars, historyVars
<1>2. ASSUME NEW e \in Events, Start(e)
     PROVE  MakerAlone' /\ OneCreation'
  <2>1. UNCHANGED <<created, sent>>
    BY <1>2 DEF Start, historyVars
  <2>2. pc'[e] \in {"purchase", "mark", "find"}
    BY <1>2, <1>types DEF Start, FirstStage
  <2>3. ASSUME NEW f \in Events, f # e
        PROVE  pc'[f] = pc[f] /\ made'[f] = made[f]
    BY <1>2, <1>types, <2>3 DEF Start
  <2>4. \A f \in Events : Making(f)' => Making(f)
    BY <2>2, <2>3, <1>stages DEF Making
  <2>5. \A f \in Events : pc'[f] = "history" => made'[f]
    BY <2>2, <2>3 DEF MakerAlone
  <2>6. QED
    BY <2>1, <2>4, <2>5, <1>fewer
<1>3. ASSUME NEW e \in Events, WritePurchase(e) \/ FindLicense(e)
     PROVE  MakerAlone' /\ OneCreation'
  BY <1>3, <1>types, <1>stages, <1>frame
     DEF WritePurchase, FindLicense, Move, localVars, historyVars
<1>fail. ASSUME NEW some \in SUBSET Events, Fail(some)
     PROVE  MakerAlone' /\ OneCreation'
  BY <1>fail, <1>stages, <1>frame DEF Fail, localVars, historyVars
<1>4. ASSUME NEW e \in Events, RecordTransaction(e) \/ LinkPurchase(e)
     PROVE  MakerAlone' /\ OneCreation'
  BY <1>4, <1>types, <1>stages, <1>frame
     DEF RecordTransaction, LinkPurchase, Move, localVars, historyVars
<1>5. ASSUME NEW e \in Events, Redeem(e) \/ IncrementUses(e) \/ IncrementRedemptions(e)
     PROVE  MakerAlone' /\ OneCreation'
  BY <1>5, <1>types, <1>stages, <1>frame
     DEF Redeem, IncrementUses, IncrementRedemptions, Move, localVars,
         historyVars
<1>6. ASSUME NEW e \in Events, RedemptionFails(e)
     PROVE  MakerAlone' /\ OneCreation'
  BY <1>6, <1>types, <1>stages, <1>frame
     DEF RedemptionFails, Move, localVars, historyVars
<1>7. ASSUME NEW e \in Events, FindSubscription(e) \/ UpsertSubscription(e)
     PROVE  MakerAlone' /\ OneCreation'
  BY <1>7, <1>types, <1>stages, <1>frame
     DEF FindSubscription, UpsertSubscription, Move, localVars, historyVars
<1>8. ASSUME NEW e \in Events, FinishPayment(e)
     PROVE  MakerAlone' /\ OneCreation'
  BY <1>8, <1>types, <1>stages, <1>frame
     DEF FinishPayment, Return, Move, localVars, historyVars
<1>9. ASSUME NEW e \in Events, MarkPurchaseFailed(e) \/ SetStatus(e) \/ NoteStatus(e)
     PROVE  MakerAlone' /\ OneCreation'
  BY <1>9, <1>types, <1>stages, <1>frame
     DEF MarkPurchaseFailed, SetStatus, NoteStatus, Move, localVars,
         historyVars
<1>10. ASSUME NEW e \in Events, FindOwner(e)
     PROVE  MakerAlone' /\ OneCreation'
  BY <1>10, <1>types, <1>stages, <1>frame
     DEF FindOwner, Return, Move, localVars, historyVars
<1>11. ASSUME NEW e \in Events, ForgetStatus(e)
     PROVE  MakerAlone' /\ OneCreation'
  BY <1>11, <1>types, <1>stages, <1>frame
     DEF ForgetStatus, Return, Move, localVars, historyVars
<1>12. ASSUME NEW e \in Events, WriteLicense(e)
     PROVE  MakerAlone' /\ OneCreation'
  <2> DEFINE u == BuyerOf(e)
             fresh == ~seen[e] /\ license[u] = "none"
  <2>1. UNCHANGED <<created, sent>>
    BY <1>12 DEF WriteLicense, historyVars
  <2>2. pc[e] = "license" /\ pc'[e] = "txn"
    BY <1>12, <1>types DEF WriteLicense, Move
  <2>3. made' = [made EXCEPT ![e] = fresh]
    BY <1>12 DEF WriteLicense
  <2>4. ASSUME NEW f \in Events, f # e
        PROVE  pc'[f] = pc[f] /\ made'[f] = made[f]
    BY <1>12, <1>types, <2>4 DEF WriteLicense, Move
  <2>5. made'[e] => license[u] = "none"
    <3>1. fresh => license[u] = "none"
      OBVIOUS
    <3> HIDE DEF fresh
    <3>2. made'[e] = fresh
      BY <2>3, <1>types
    <3>3. QED
      BY <3>1, <3>2
  <2>6. \A f \in Events : pc'[f] = "history" => made'[f]
    BY <2>2, <2>4 DEF MakerAlone
  <2>7. CASE ~Making(e)'
    <3>1. \A f \in Events : Making(f)' => Making(f)
      BY <2>4, <2>7 DEF Making
    <3>2. QED
      BY <2>1, <2>6, <3>1, <1>fewer
  <2>8. CASE Making(e)'
    <3>1. /\ license[u] = "none" /\ created[u] = 0 /\ Announced(u) = {}
      BY <2>5, <2>8, <1>buyer DEF Making, MakerAlone
    <3>2. \A v \in Users : Announced(v)' = Announced(v)
      BY <2>1 DEF Announced
    <3>3. \A f \in Events : Making(f)' /\ f # e =>
                            Making(f) /\ BuyerOf(f) # u
      BY <2>4, <3>1, <1>licensed DEF Making
    <3>4. ASSUME NEW v \in Users, license'[v] = "none"
          PROVE  created'[v] = 0 /\ Announced(v)' = {}
      BY <2>1, <3>2, <3>4, <1>grows DEF MakerAlone, Grows
    <3>5. ASSUME NEW f \in Events, Making(f)'
          PROVE  /\ created'[BuyerOf(f)] = 0
                 /\ Announced(BuyerOf(f))' \subseteq {f}
      BY <2>1, <3>1, <3>2, <3>3, <3>5, <1>buyer DEF MakerAlone
    <3>6. ASSUME NEW f \in Events, NEW g \in Events, Making(f)', Making(g)',
                 BuyerOf(f) = BuyerOf(g)
          PROVE  f = g
      BY <3>3, <3>6 DEF MakerAlone
    <3>7. MakerAlone'
      BY <2>6, <3>4, <3>5, <3>6 DEF MakerAlone
    <3>8. OneCreation'
      BY <2>1 DEF OneCreation
    <3>9. QED
      BY <3>7, <3>8
  <2>9. QED
    BY <2>7, <2>8
<1>13. ASSUME NEW e \in Events, Announce(e)
     PROVE  MakerAlone' /\ OneCreation'
  <2> DEFINE u == BuyerOf(e)
             to == IF made[e] THEN "history" ELSE "drop"
  <2>1. UNCHANGED <<created, made, license>>
    BY <1>13 DEF Announce, historyVars, localVars
  <2>2. pc[e] = "announce" /\ pc'[e] = to
    BY <1>13, <1>types DEF Announce, Move
  <2>3. ASSUME NEW f \in Events, f # e
        PROVE  pc'[f] = pc[f]
    BY <1>13, <1>types, <2>3 DEF Announce, Move
  <2>4. ASSUME NEW f \in Events, <<"license.created", f>> \in sent'
        PROVE  \/ <<"license.created", f>> \in sent
               \/ f = e /\ made[e]
    BY <1>13, <2>4 DEF Announce, Renewal, Licensing
  <2>5. \A f \in Events : Making(f)' => Making(f)
    BY <2>1, <2>2, <2>3, <1>stages DEF Making
  <2>6. \A f \in Events : pc'[f] = "history" => made'[f]
    BY <2>1, <2>2, <2>3 DEF MakerAlone
  <2>7. CASE ~made[e]
    BY <2>1, <2>4, <2>5, <2>6, <2>7, <1>fewer
  <2>8. CASE made[e]
    <3>1. Making(e)
      BY <2>2, <2>8, <1>stages DEF Making
    <3>2. /\ license[u] # "none" /\ created[u] = 0
          /\ Announced(u) \subseteq {e}
      BY <3>1, <1>licensed DEF MakerAlone
    <3>3. ASSUME NEW v \in Users
          PROVE  Announced(v)' \subseteq Announced(v) \cup
                     (IF v = u THEN {e} ELSE {})
      BY <2>4 DEF Announced
    <3>4. ASSUME NEW v \in Users, license'[v] = "none"
          PROVE  created'[v] = 0 /\ Announced(v)' = {}
      BY <2>1, <3>2, <3>3, <3>4 DEF MakerAlone
    <3>5. ASSUME NEW f \in Events, Making(f)'
          PROVE  /\ created'[BuyerOf(f)] = 0
                 /\ Announced(BuyerOf(f))' \subseteq {f}
      <4>1. Making(f) /\ (BuyerOf(f) = u => f = e)
        BY <2>5, <3>1, <3>5 DEF MakerAlone
      <4>2. created[BuyerOf(f)] = 0 /\ Announced(BuyerOf(f)) \subseteq {f}
        BY <4>1 DEF MakerAlone
      <4>3. QED
        BY <2>1, <3>3, <4>1, <4>2, <1>buyer
    <3>6. ASSUME NEW f \in Events, NEW g \in Events, Making(f)', Making(g)',
                 BuyerOf(f) = BuyerOf(g)
          PROVE  f = g
      BY <2>5, <3>6 DEF MakerAlone
    <3>7. MakerAlone'
      BY <2>6, <3>4, <3>5, <3>6 DEF MakerAlone
    <3>8. ASSUME NEW f \in Events, <<"license.created", f>> \in sent,
                 BuyerOf(f) = u
          PROVE  f = e
      BY <3>2, <3>8 DEF Announced
    <3>9. OneCreation'
      BY <2>1, <2>4, <3>8 DEF OneCreation
    <3>10. QED
      BY <3>7, <3>9
  <2>9. QED
    BY <2>7, <2>8
<1>14. ASSUME NEW e \in Events, WriteHistory(e)
     PROVE  MakerAlone' /\ OneCreation'
  <2> DEFINE u == BuyerOf(e)
  <2>1. /\ UNCHANGED <<made, sent, license>>
        /\ created' = [created EXCEPT ![u] = @ + 1]
    BY <1>14 DEF WriteHistory, localVars
  <2>2. pc[e] = "history" /\ pc'[e] = "drop"
    BY <1>14, <1>types DEF WriteHistory, Move
  <2>3. ASSUME NEW f \in Events, f # e
        PROVE  pc'[f] = pc[f]
    BY <1>14, <1>types, <2>3 DEF WriteHistory, Move
  <2>4. Making(e)
    BY <2>2, <1>stages DEF Making, MakerAlone
  <2>5. license[u] # "none" /\ created[u] = 0 /\ u \in Users
    BY <2>4, <1>licensed, <1>buyer DEF MakerAlone
  <2>6. created'[u] = 1 /\ \A v \in Users \ {u} : created'[v] = created[v]
    BY <2>1, <2>5, <1>types
  <2>7. ASSUME NEW f \in Events, Making(f)'
        PROVE  Making(f) /\ f # e /\ BuyerOf(f) # u
    <3>1. f # e
      BY <2>2, <2>7, <1>stages DEF Making
    <3>2. Making(f)
      BY <2>1, <2>3, <2>7, <3>1 DEF Making
    <3>3. QED
      BY <2>4, <3>1, <3>2 DEF MakerAlone
  <2>8. \A v \in Users : Announced(v)' = Announced(v)
    BY <2>1 DEF Announced
  <2>9. MakerAlone'
    <3>1. ASSUME NEW v \in Users, license'[v] = "none"
          PROVE  created'[v] = 0 /\ Announced(v)' = {}
      BY <2>1, <2>5, <2>6, <2>8, <3>1 DEF MakerAlone
    <3>2. ASSUME NEW f \in Events, Making(f)'
          PROVE  /\ created'[BuyerOf(f)] = 0
                 /\ Announced(BuyerOf(f))' \subseteq {f}
      BY <2>6, <2>7, <2>8, <3>2, <1>buyer DEF MakerAlone
    <3>3. ASSUME NEW f \in Events, NEW g \in Events, Making(f)', Making(g)',
                 BuyerOf(f) = BuyerOf(g)
          PROVE  f = g
      BY <2>7, <3>3 DEF MakerAlone
    <3>4. \A f \in Events : pc'[f] = "history" => made'[f]
      BY <2>1, <2>2, <2>3 DEF MakerAlone
    <3>5. QED
      BY <3>1, <3>2, <3>3, <3>4 DEF MakerAlone
  <2>10. OneCreation'
    BY <2>1, <2>6 DEF OneCreation
  <2>11. QED
    BY <2>9, <2>10
<1>15. ASSUME NEW e \in Events, TellApp(e)
     PROVE  MakerAlone' /\ OneCreation'
  <2>1. UNCHANGED <<created, made>>
    BY <1>15 DEF TellApp, historyVars, localVars
  <2>2. pc' = [pc EXCEPT ![e] = "idle"]
    BY <1>15 DEF TellApp, Return, Move
  <2>3. \A f \in Events : <<"license.created", f>> \in sent'
                          => <<"license.created", f>> \in sent
    BY <1>15 DEF TellApp, News
  <2>4. \A f \in Events : Making(f)' => Making(f)
    BY <2>1, <2>2, <1>types, <1>stages DEF Making
  <2>5. \A f \in Events : pc'[f] = "history" => made'[f]
    BY <2>1, <2>2, <1>types DEF MakerAlone
  <2>6. QED
    BY <2>1, <2>3, <2>4, <2>5, <1>fewer
<1>16. ASSUME NEW s \in Subs, UserCancel(s) \/ UserResume(s)
     PROVE  MakerAlone' /\ OneCreation'
  <2>1. UNCHANGED <<created, made, pc>>
    BY <1>16 DEF UserCancel, UserResume, historyVars, localVars
  <2>2. \A f \in Events : <<"license.created", f>> \in sent'
                          => <<"license.created", f>> \in sent
    BY <1>16 DEF UserCancel, UserResume, Answer
  <2>3. \A f \in Events : Making(f)' => Making(f)
    BY <2>1 DEF Making
  <2>4. \A f \in Events : pc'[f] = "history" => made'[f]
    BY <2>1 DEF MakerAlone
  <2>5. QED
    BY <2>1, <2>2, <2>3, <2>4, <1>fewer
<1>17. ASSUME NEW u \in Users,
              \/ AutoLicense(u) \/ ReadLicense(u) \/ FillCache(u)
              \/ ExpireCache(u)
     PROVE  MakerAlone' /\ OneCreation'
  BY <1>17, <1>frame
     DEF AutoLicense, ReadLicense, FillCache, ExpireCache, localVars,
         historyVars
<1>18. CASE UNCHANGED vars
  BY <1>18, <1>frame DEF vars, localVars, historyVars
<1>19. QED
  BY <1>1, <1>2, <1>3, <1>4, <1>5, <1>6, <1>7, <1>8, <1>9, <1>10, <1>11,
     <1>12, <1>13, <1>14, <1>15, <1>16, <1>17, <1>18, <1>fail
     DEF Next, Busy, Fulfil, Transition

(* The first run of a purchase's only payment event redeems first; a second *)
(* redemption needs a second run.                                          *)
LEMMA RedemptionStep ==
    ASSUME TypeOK, StagesOfKind, RedemptionsHaveRuns, DoubleCountHasCause, [Next]_vars
    PROVE  RedemptionsHaveRuns' /\ DoubleCountHasCause'
<1> DEFINE Early == {"purchase", "findLicense", "license", "txn", "link",
                     "redeem"}
<1>types. /\ pc \in [Events -> Stage]
          /\ runs \in [Events -> Nat]
          /\ redemptions \in [Purchases -> Nat]
  BY DEF TypeOK
<1>consts. ASSUME NEW e \in Events
           PROVE  PurchaseOf[e] \in Purchases
  BY ConstantsAssumption
<1>frame. ASSUME UNCHANGED redemptions,
                 \A e \in Events : runs'[e] \in Nat /\ runs'[e] >= runs[e],
                 \A e \in Events : pc'[e] \in Early =>
                     /\ pc[e] \in Early
                     /\ runs'[e] = runs[e]
          PROVE  RedemptionsHaveRuns' /\ DoubleCountHasCause'
  <2>1. ASSUME NEW p \in Purchases, redemptions'[p] > 0
        PROVE  \E e \in Paying(p) : runs'[e] > 0
    <3>1. PICK e \in Paying(p) : runs[e] > 0
      BY <2>1, <1>frame DEF RedemptionsHaveRuns
    <3>2. runs'[e] > 0
      BY <3>1, <1>frame, <1>types DEF Paying
    <3>3. QED
      BY <3>2
  <2>2. ASSUME NEW e \in Events, pc'[e] \in Early, OnlyRun(e)'
        PROVE  redemptions'[PurchaseOf[e]] = 0
    <3>1. pc[e] \in Early /\ runs[e] = 1
      BY <2>2, <1>frame DEF OnlyRun
    <3>2. ASSUME NEW f \in Paying(PurchaseOf[e])
          PROVE  f = e \/ runs[f] = 0
      BY <2>2, <3>2, <1>frame, <1>types DEF OnlyRun, Paying
    <3>3. QED
      BY <3>1, <3>2, <1>frame DEF OnlyRun, RedemptionsHaveRuns
  <2>3. ASSUME NEW p \in Purchases, redemptions'[p] > 1
        PROVE  \/ \E e \in Paying(p) : runs'[e] > 1
               \/ \E e, f \in Paying(p) :
                     e # f /\ runs'[e] > 0 /\ runs'[f] > 0
    <3>1. \A e \in Paying(p) : runs'[e] >= runs[e] /\ runs[e] \in Nat
                                /\ runs'[e] \in Nat
      BY <1>frame, <1>types DEF Paying
    <3>2. \/ \E e \in Paying(p) : runs[e] > 1
          \/ \E e, f \in Paying(p) : e # f /\ runs[e] > 0 /\ runs[f] > 0
      BY <2>3, <1>frame DEF DoubleCountHasCause
    <3>3. QED
      BY <3>1, <3>2
  <2>4. QED
    BY <2>1, <2>2, <2>3 DEF RedemptionsHaveRuns, DoubleCountHasCause, Paying
<1>same. ASSUME UNCHANGED <<redemptions, runs>>,
                \A e \in Events : pc'[e] \in Early => pc[e] \in Early
         PROVE  RedemptionsHaveRuns' /\ DoubleCountHasCause'
  BY <1>same, <1>frame, <1>types
<1>1. ASSUME NEW p \in Purchases, OpenCheckout(p) \/ RecordCheckout(p)
     PROVE  RedemptionsHaveRuns' /\ DoubleCountHasCause'
  BY <1>1, <1>same
     DEF OpenCheckout, RecordCheckout, promoVars, runVars
<1>2. ASSUME NEW e \in Events, Start(e)
     PROVE  RedemptionsHaveRuns' /\ DoubleCountHasCause'
  <2> DEFINE p == PurchaseOf[e]
  <2>1. UNCHANGED redemptions
    BY <1>2 DEF Start, promoVars
  <2>2. /\ runs'[e] = runs[e] + 1
        /\ pc'[e] \in Early => Kind[e] = "succeeded"
    BY <1>2, <1>types DEF Start, FirstStage
  <2>3. ASSUME NEW f \in Events, f # e
        PROVE  pc'[f] = pc[f] /\ runs'[f] = runs[f]
    BY <1>2, <1>types, <2>3 DEF Start
  <2>4. \A f \in Events : runs'[f] >= runs[f] /\ runs[f] \in Nat
                          /\ runs'[f] \in Nat
    BY <2>2, <2>3, <1>types
  <2>5. ASSUME NEW q \in Purchases, redemptions'[q] > 0
        PROVE  \E f \in Paying(q) : runs'[f] > 0
    <3>1. PICK f \in Paying(q) : runs[f] > 0
      BY <2>1, <2>5 DEF RedemptionsHaveRuns
    <3>2. runs'[f] > 0
      BY <3>1, <2>4 DEF Paying
    <3>3. QED
      BY <3>2
  <2>6. ASSUME NEW f \in Events, pc'[f] \in Early, OnlyRun(f)'
        PROVE  redemptions'[PurchaseOf[f]] = 0
    <3>1. \A g \in Paying(PurchaseOf[f]) : g = f \/ runs[g] = 0
      BY <2>4, <2>6 DEF OnlyRun, Paying
    <3>2. CASE f = e
      <4>1. \A g \in Paying(PurchaseOf[f]) : runs[g] = 0
        BY <2>2, <2>4, <2>6, <3>1, <3>2 DEF OnlyRun
      <4>2. ~(redemptions[PurchaseOf[f]] > 0)
        BY <4>1, <1>consts DEF RedemptionsHaveRuns
      <4>3. QED
        BY <4>2, <2>1, <1>consts, <1>types
    <3>3. CASE f # e
      BY <2>1, <2>3, <2>6, <3>1, <3>3 DEF OnlyRun, RedemptionsHaveRuns
    <3>4. QED
      BY <3>2, <3>3
  <2>7. ASSUME NEW q \in Purchases, redemptions'[q] > 1
        PROVE  \/ \E f \in Paying(q) : runs'[f] > 1
               \/ \E f, g \in Paying(q) :
                     f # g /\ runs'[f] > 0 /\ runs'[g] > 0
    <3>1. \/ \E f \in Paying(q) : runs[f] > 1
          \/ \E f, g \in Paying(q) : f # g /\ runs[f] > 0 /\ runs[g] > 0
      BY <2>1, <2>7 DEF DoubleCountHasCause
    <3>2. \A f \in Paying(q) : f \in Events
      BY DEF Paying
    <3>3. QED
      BY <2>4, <3>1, <3>2
  <2>8. QED
    BY <2>5, <2>6, <2>7 DEF RedemptionsHaveRuns, DoubleCountHasCause, Paying
<1>3. ASSUME NEW e \in Events, FindLicense(e) \/ WriteLicense(e)
     PROVE  RedemptionsHaveRuns' /\ DoubleCountHasCause'
  BY <1>3, <1>types, <1>same
     DEF FindLicense, WriteLicense, Move, promoVars, runVars
<1>fail. ASSUME NEW some \in SUBSET Events, Fail(some)
     PROVE  RedemptionsHaveRuns' /\ DoubleCountHasCause'
  BY <1>fail, <1>types, <1>same DEF Fail, promoVars, runVars
<1>4. ASSUME NEW e \in Events, WritePurchase(e)
     PROVE  RedemptionsHaveRuns' /\ DoubleCountHasCause'
  BY <1>4, <1>types, <1>same
     DEF WritePurchase, Move, promoVars, runVars
<1>5. ASSUME NEW e \in Events, RecordTransaction(e) \/ LinkPurchase(e)
     PROVE  RedemptionsHaveRuns' /\ DoubleCountHasCause'
  BY <1>5, <1>types, <1>same
     DEF RecordTransaction, LinkPurchase, Move, promoVars, runVars
<1>6. ASSUME NEW e \in Events, IncrementUses(e) \/ IncrementRedemptions(e)
     PROVE  RedemptionsHaveRuns' /\ DoubleCountHasCause'
  BY <1>6, <1>types, <1>same
     DEF IncrementUses, IncrementRedemptions, Move, promoVars, runVars
<1>7. ASSUME NEW e \in Events, RedemptionFails(e)
     PROVE  RedemptionsHaveRuns' /\ DoubleCountHasCause'
  BY <1>7, <1>types, <1>same
     DEF RedemptionFails, Move, promoVars, runVars
<1>8. ASSUME NEW e \in Events, FindSubscription(e) \/ UpsertSubscription(e)
     PROVE  RedemptionsHaveRuns' /\ DoubleCountHasCause'
  BY <1>8, <1>types, <1>same
     DEF FindSubscription, UpsertSubscription, Move, promoVars, runVars
<1>9. ASSUME NEW e \in Events, Announce(e) \/ WriteHistory(e)
     PROVE  RedemptionsHaveRuns' /\ DoubleCountHasCause'
  BY <1>9, <1>types, <1>same
     DEF Announce, WriteHistory, Move, promoVars, runVars
<1>10. ASSUME NEW e \in Events, FinishPayment(e)
     PROVE  RedemptionsHaveRuns' /\ DoubleCountHasCause'
  BY <1>10, <1>types, <1>same
     DEF FinishPayment, Return, Move, promoVars, runVars
<1>11. ASSUME NEW e \in Events, MarkPurchaseFailed(e) \/ SetStatus(e) \/ NoteStatus(e)
     PROVE  RedemptionsHaveRuns' /\ DoubleCountHasCause'
  BY <1>11, <1>types, <1>same
     DEF MarkPurchaseFailed, SetStatus, NoteStatus, Move, promoVars,
         runVars
<1>12. ASSUME NEW e \in Events, FindOwner(e)
     PROVE  RedemptionsHaveRuns' /\ DoubleCountHasCause'
  BY <1>12, <1>types, <1>same
     DEF FindOwner, Return, Move, promoVars, runVars
<1>13. ASSUME NEW e \in Events, ForgetStatus(e)
     PROVE  RedemptionsHaveRuns' /\ DoubleCountHasCause'
  BY <1>13, <1>types, <1>same
     DEF ForgetStatus, Return, Move, promoVars, runVars
<1>14. ASSUME NEW e \in Events, TellApp(e)
     PROVE  RedemptionsHaveRuns' /\ DoubleCountHasCause'
  BY <1>14, <1>types, <1>same
     DEF TellApp, Return, Move, promoVars, runVars
<1>15. ASSUME NEW e \in Events, Redeem(e)
     PROVE  RedemptionsHaveRuns' /\ DoubleCountHasCause'
  <2> DEFINE p == PurchaseOf[e]
  <2>1. /\ UNCHANGED runs
        /\ redemptions' = [redemptions EXCEPT ![p] = @ + 1]
    BY <1>15 DEF Redeem, runVars
  <2>2. pc[e] = "redeem" /\ pc'[e] = "uses"
    BY <1>15, <1>types DEF Redeem, Move
  <2>3. ASSUME NEW f \in Events, f # e
        PROVE  pc'[f] = pc[f]
    BY <1>15, <1>types, <2>3 DEF Redeem, Move
  <2>4. e \in Paying(p) /\ runs[e] > 0
    BY <2>2 DEF StagesOfKind, PayStages, Paying
  <2>5. /\ p \in Purchases /\ redemptions'[p] = redemptions[p] + 1
        /\ \A q \in Purchases \ {p} : redemptions'[q] = redemptions[q]
    BY <2>1, <1>types, <1>consts
  <2>6. ASSUME NEW q \in Purchases, redemptions'[q] > 0
        PROVE  \E f \in Paying(q) : runs'[f] > 0
    BY <2>1, <2>4, <2>5, <2>6 DEF RedemptionsHaveRuns
  <2>7. ASSUME NEW f \in Events, pc'[f] \in Early, OnlyRun(f)'
        PROVE  redemptions'[PurchaseOf[f]] = 0
    <3>1. f # e /\ pc[f] \in Early /\ OnlyRun(f)
      BY <2>1, <2>2, <2>3, <2>7 DEF OnlyRun
    <3>2. redemptions[PurchaseOf[f]] = 0
      BY <3>1 DEF RedemptionsHaveRuns
    <3>3. PurchaseOf[f] # p
      BY <2>4, <3>1 DEF OnlyRun
    <3>4. QED
      BY <2>5, <3>2, <3>3, <1>consts
  <2>8. ASSUME NEW q \in Purchases, redemptions'[q] > 1
        PROVE  \/ \E f \in Paying(q) : runs'[f] > 1
               \/ \E f, g \in Paying(q) :
                     f # g /\ runs'[f] > 0 /\ runs'[g] > 0
    <3>1. CASE q # p
      BY <2>1, <2>5, <2>8, <3>1 DEF DoubleCountHasCause
    <3>2. CASE q = p
      <4>1. ~OnlyRun(e)
        BY <2>2, <2>5, <2>8, <3>2, <1>types DEF RedemptionsHaveRuns
      <4>2. CASE runs[e] # 1
        BY <2>1, <2>4, <3>2, <4>2, <1>types
      <4>3. CASE \E f \in Paying(p) : f # e /\ runs[f] # 0
        <5>1. PICK f \in Paying(p) : f # e /\ runs[f] # 0
          BY <4>3
        <5>2. runs[f] > 0
          BY <5>1, <1>types DEF Paying
        <5>3. QED
          BY <2>1, <2>4, <3>2, <5>1, <5>2
      <4>4. QED
        BY <4>1, <4>2, <4>3 DEF OnlyRun
    <3>3. QED
      BY <3>1, <3>2
  <2>9. QED
    BY <2>6, <2>7, <2>8 DEF RedemptionsHaveRuns, DoubleCountHasCause, Paying
<1>16. ASSUME NEW s \in Subs, UserCancel(s) \/ UserResume(s)
     PROVE  RedemptionsHaveRuns' /\ DoubleCountHasCause'
  BY <1>16, <1>same DEF UserCancel, UserResume, promoVars, runVars
<1>17. ASSUME NEW u \in Users,
              \/ AutoLicense(u) \/ ReadLicense(u) \/ FillCache(u)
              \/ ExpireCache(u)
     PROVE  RedemptionsHaveRuns' /\ DoubleCountHasCause'
  BY <1>17, <1>same
     DEF AutoLicense, ReadLicense, FillCache, ExpireCache, promoVars, runVars
<1>18. CASE UNCHANGED vars
  BY <1>18, <1>same DEF vars, promoVars, runVars
<1>19. QED
  BY <1>1, <1>2, <1>3, <1>4, <1>5, <1>6, <1>7, <1>8, <1>9, <1>10, <1>11,
     <1>12, <1>13, <1>14, <1>15, <1>16, <1>17, <1>18, <1>fail
     DEF Next, Busy, Fulfil, Transition

(* Only a handler between the two increments, or a failure, sets the       *)
(* counters apart.                                                         *)
LEMMA CountersStep ==
    ASSUME TypeOK, CountersAgree, [Next]_vars
    PROVE  CountersAgree'
<1> DEFINE T == {e \in Events : pc[e] = "total"}
<1>types. /\ pc \in [Events -> Stage]
          /\ uses \in Nat /\ redeemed \in Nat /\ faults \in Nat
  BY DEF TypeOK
<1>finite. IsFiniteSet(T) /\ Cardinality(T) \in Nat
  BY FiniteAssumption, FS_Subset, FS_CardinalityType
<1>agree. /\ redeemed + Cardinality(T) <= uses
          /\ uses <= redeemed + Cardinality(T) + faults
  <2>1. T = {e \in Events : pc[e] \in {"total"}}
    OBVIOUS
  <2>2. QED
    BY <2>1 DEF CountersAgree, Redeemers
<1>goal. ASSUME NEW n \in Nat, Cardinality(T') = n,
                redeemed' + n <= uses', uses' <= redeemed' + n + faults'
         PROVE  CountersAgree'
  <2>1. T' = {e \in Events : pc'[e] \in {"total"}}
    OBVIOUS
  <2>2. QED
    BY <1>goal, <2>1 DEF CountersAgree, Redeemers
<1>in. ASSUME NEW e \in Events, pc[e] # "total",
              pc' = [pc EXCEPT ![e] = "total"]
       PROVE  Cardinality(T') = Cardinality(T) + 1
  <2>1. T' = T \cup {e} /\ e \notin T
    BY <1>in, <1>types
  <2>2. QED
    BY <2>1, <1>finite, FS_AddElement
<1>out. ASSUME NEW e \in Events, pc[e] = "total", pc'[e] # "total",
               \A f \in Events \ {e} : pc'[f] = pc[f]
        PROVE  Cardinality(T') = Cardinality(T) - 1
  <2>1. T' = T \ {e} /\ e \in T
    BY <1>out, <1>types
  <2>2. QED
    BY <2>1, <1>finite, FS_RemoveElement
<1>same. ASSUME UNCHANGED <<uses, redeemed>>, faults' \in Nat,
                faults' >= faults,
                \A e \in Events : pc'[e] = "total" <=> pc[e] = "total"
         PROVE  CountersAgree'
  <2>1. T' = T
    BY <1>same
  <2>2. Cardinality(T') = Cardinality(T)
    BY <2>1, Zenon
  <2>3. /\ redeemed' + Cardinality(T) <= uses'
        /\ uses' <= redeemed' + Cardinality(T) + faults'
    BY <1>finite, <1>agree, <1>same, <1>types
  <2>4. QED
    BY <2>2, <2>3, <1>goal, <1>finite, Zenon
<1>fault. ASSUME NEW e \in Events, UNCHANGED <<uses, redeemed>>, Fault,
                 pc'[e] # "total", \A f \in Events \ {e} : pc'[f] = pc[f]
          PROVE  CountersAgree'
  <2>1. faults' = faults + 1
    BY <1>fault DEF Fault
  <2>2. CASE pc[e] = "total"
    <3>1. Cardinality(T') = Cardinality(T) - 1 /\ e \in T
      BY <1>fault, <1>out, <2>2
    <3>2. Cardinality(T) - 1 \in Nat
      BY <3>1, <1>finite, FS_EmptySet
    <3>3. QED
      BY <1>goal, <1>finite, <1>agree, <1>fault, <1>types, <2>1, <3>1, <3>2
  <2>3. CASE pc[e] # "total"
    BY <2>1, <2>3, <1>same, <1>fault, <1>types
  <2>4. QED
    BY <2>2, <2>3
<1>1. ASSUME NEW p \in Purchases, OpenCheckout(p) \/ RecordCheckout(p)
     PROVE  CountersAgree'
  BY <1>1, <1>types, <1>same DEF OpenCheckout, RecordCheckout, Fault,
     promoVars
<1>2. ASSUME NEW e \in Events, Start(e)
     PROVE  CountersAgree'
  <2>1. pc[e] = "idle" /\ pc'[e] \in {"purchase", "mark", "find"}
    BY <1>2, <1>types DEF Start, FirstStage
  <2>2. ASSUME NEW f \in Events, f # e
        PROVE  pc'[f] = pc[f]
    BY <1>2, <1>types, <2>2 DEF Start
  <2>3. UNCHANGED <<uses, redeemed, faults>>
    BY <1>2 DEF Start, promoVars
  <2>4. QED
    BY <2>1, <2>2, <2>3, <1>types, <1>same
<1>3. ASSUME NEW some \in SUBSET Events, Fail(some)
     PROVE  CountersAgree'
  <2>1. T' = T \ some
    BY <1>3, <1>types DEF Fail
  <2>2. T \subseteq T' \cup some
    BY <2>1
  <2>3. /\ IsFiniteSet(T') /\ IsFiniteSet(some)
        /\ Cardinality(T') \in Nat /\ Cardinality(some) \in Nat
    BY <2>1, <1>finite, FiniteAssumption, FS_Subset, FS_CardinalityType
  <2>4. Cardinality(T') <= Cardinality(T)
    BY <2>1, <1>finite, FS_Subset
  <2>5. Cardinality(T) <= Cardinality(T') + Cardinality(some)
    <3>1. /\ IsFiniteSet(T' \cup some)
          /\ Cardinality(T' \cup some) =
                Cardinality(T') + Cardinality(some) - Cardinality(T' \cap some)
      BY <2>3, FS_Union
    <3>2. Cardinality(T' \cap some) = 0
      BY <2>1, FS_EmptySet
    <3>3. Cardinality(T) <= Cardinality(T' \cup some)
      BY <2>2, <3>1, FS_Subset
    <3>4. QED
      BY <2>3, <3>1, <3>2, <3>3
  <2>6. /\ faults' = faults + Cardinality(some)
        /\ UNCHANGED <<uses, redeemed>>
    BY <1>3 DEF Fail, promoVars
  <2>7. /\ redeemed' + Cardinality(T') <= uses'
        /\ uses' <= redeemed' + Cardinality(T') + faults'
    BY <1>agree, <1>types, <1>finite, <2>3, <2>4, <2>5, <2>6
  <2>8. QED
    BY <2>3, <2>7, <1>goal
<1>4. ASSUME NEW e \in Events, WritePurchase(e) \/ FindLicense(e) \/ WriteLicense(e)
     PROVE  CountersAgree'
  BY <1>4, <1>types, <1>same
     DEF WritePurchase, FindLicense, WriteLicense, Fault, Move, promoVars
<1>5. ASSUME NEW e \in Events, RecordTransaction(e) \/ LinkPurchase(e) \/ Redeem(e)
     PROVE  CountersAgree'
  BY <1>5, <1>types, <1>same
     DEF RecordTransaction, LinkPurchase, Redeem, Fault, Move, promoVars
<1>6. ASSUME NEW e \in Events, FindSubscription(e) \/ UpsertSubscription(e)
     PROVE  CountersAgree'
  BY <1>6, <1>types, <1>same
     DEF FindSubscription, UpsertSubscription, Fault, Move, promoVars
<1>7. ASSUME NEW e \in Events, Announce(e)
     PROVE  CountersAgree'
  BY <1>7, <1>types, <1>same
     DEF Announce, Fault, Move, promoVars
<1>8. ASSUME NEW e \in Events, WriteHistory(e)
     PROVE  CountersAgree'
  BY <1>8, <1>types, <1>same
     DEF WriteHistory, Fault, Move, promoVars
<1>9. ASSUME NEW e \in Events, FinishPayment(e)
     PROVE  CountersAgree'
  BY <1>9, <1>types, <1>same
     DEF FinishPayment, Return, DropCache, Fault, Move, promoVars
<1>10. ASSUME NEW e \in Events, MarkPurchaseFailed(e)
     PROVE  CountersAgree'
  BY <1>10, <1>types, <1>same
     DEF MarkPurchaseFailed, Fault, Move, promoVars
<1>11. ASSUME NEW e \in Events, SetStatus(e) \/ NoteStatus(e)
     PROVE  CountersAgree'
  BY <1>11, <1>types, <1>same
     DEF SetStatus, NoteStatus, Fault, Move, promoVars
<1>12. ASSUME NEW e \in Events, FindOwner(e)
     PROVE  CountersAgree'
  BY <1>12, <1>types, <1>same
     DEF FindOwner, Return, Fault, Move, promoVars
<1>13. ASSUME NEW e \in Events, ForgetStatus(e)
     PROVE  CountersAgree'
  BY <1>13, <1>types, <1>same
     DEF ForgetStatus, Return, DropCache, Fault, Move, promoVars
<1>14. ASSUME NEW e \in Events, TellApp(e)
     PROVE  CountersAgree'
  BY <1>14, <1>types, <1>same
     DEF TellApp, Return, Fault, Move, promoVars
<1>15. ASSUME NEW e \in Events, IncrementUses(e)
     PROVE  CountersAgree'
  <2>1. /\ pc[e] = "uses" /\ pc' = [pc EXCEPT ![e] = "total"]
        /\ uses' = uses + 1 /\ UNCHANGED <<redeemed, faults>>
    BY <1>15 DEF IncrementUses, Move
  <2>2. Cardinality(T') = Cardinality(T) + 1
    BY <2>1, <1>in
  <2>3. QED
    BY <2>1, <2>2, <1>goal, <1>finite, <1>agree, <1>types
<1>16. ASSUME NEW e \in Events, IncrementRedemptions(e)
     PROVE  CountersAgree'
  <2>1. /\ pc[e] = "total" /\ pc'[e] = "findSub"
        /\ \A f \in Events \ {e} : pc'[f] = pc[f]
        /\ redeemed' = redeemed + 1 /\ UNCHANGED <<uses, faults>>
    BY <1>16, <1>types DEF IncrementRedemptions, Move
  <2>2. Cardinality(T') = Cardinality(T) - 1 /\ e \in T
    BY <2>1, <1>out
  <2>3. Cardinality(T) - 1 \in Nat
    BY <2>2, <1>finite, FS_EmptySet
  <2>4. QED
    BY <2>1, <2>2, <2>3, <1>goal, <1>finite, <1>agree, <1>types
<1>17. ASSUME NEW e \in Events, RedemptionFails(e)
     PROVE  CountersAgree'
  <2>1. pc'[e] = "findSub" /\ \A f \in Events \ {e} : pc'[f] = pc[f]
    BY <1>17, <1>types DEF RedemptionFails
  <2>2. Fault /\ UNCHANGED <<uses, redeemed>>
    BY <1>17 DEF RedemptionFails, promoVars
  <2>3. QED
    BY <2>1, <2>2, <1>fault
<1>18. ASSUME NEW s \in Subs, UserCancel(s) \/ UserResume(s)
     PROVE  CountersAgree'
  BY <1>18, <1>types, <1>same DEF UserCancel, UserResume, Answer, Fault,
     promoVars
<1>19. ASSUME NEW u \in Users,
              \/ AutoLicense(u) \/ ReadLicense(u) \/ FillCache(u)
              \/ ExpireCache(u)
     PROVE  CountersAgree'
  BY <1>19, <1>types, <1>same
     DEF AutoLicense, ReadLicense, FillCache, ExpireCache, DropCache, Fault,
         promoVars
<1>20. CASE UNCHANGED vars
  BY <1>20, <1>types, <1>same DEF vars, promoVars
<1>21. QED
  BY <1>1, <1>2, <1>3, <1>4, <1>5, <1>6, <1>7, <1>8, <1>9, <1>10, <1>11,
     <1>12, <1>13, <1>14, <1>15, <1>16, <1>17, <1>18, <1>19, <1>20 DEF Next, Busy, Fulfil, Transition

(* A step changes a license only on its owner's behalf.                     *)
LEMMA OwnStep ==
    ASSUME TypeOK, TargetOwn, [Next]_vars
    PROVE  \A u \in Users : license'[u] # license[u] => ByItsOwner(u)
<1> DEFINE Goal == \A u \in Users : license'[u] # license[u] => ByItsOwner(u)
<1>type. license \in [Users -> LicenseStatus]
  BY DEF TypeOK
<1>same. ASSUME UNCHANGED license
         PROVE  Goal
  BY <1>same
<1>1. ASSUME NEW p \in Purchases, OpenCheckout(p) \/ RecordCheckout(p)
     PROVE  Goal
  BY <1>1, <1>same DEF OpenCheckout, RecordCheckout
<1>2. ASSUME NEW e \in Events,
              \/ Start(e) \/ WritePurchase(e)
              \/ FindLicense(e) \/ RecordTransaction(e) \/ LinkPurchase(e)
     PROVE  Goal
  BY <1>2, <1>same DEF Start, WritePurchase, FindLicense,
                     RecordTransaction, LinkPurchase
<1>fail. ASSUME NEW some \in SUBSET Events, Fail(some)
     PROVE  Goal
  BY <1>fail, <1>same DEF Fail
<1>3. ASSUME NEW e \in Events,
              \/ Redeem(e) \/ IncrementUses(e) \/ IncrementRedemptions(e)
              \/ RedemptionFails(e) \/ FindSubscription(e) \/ UpsertSubscription(e)
     PROVE  Goal
  BY <1>3, <1>same DEF Redeem, IncrementUses, IncrementRedemptions,
                     RedemptionFails, FindSubscription, UpsertSubscription
<1>4. ASSUME NEW e \in Events,
              \/ Announce(e) \/ WriteHistory(e) \/ FinishPayment(e)
              \/ MarkPurchaseFailed(e) \/ FindOwner(e)
     PROVE  Goal
  BY <1>4, <1>same DEF Announce, WriteHistory, FinishPayment,
                     MarkPurchaseFailed, FindOwner
<1>5. ASSUME NEW e \in Events, NoteStatus(e) \/ ForgetStatus(e) \/ TellApp(e)
     PROVE  Goal
  BY <1>5, <1>same DEF NoteStatus, ForgetStatus, TellApp
<1>6. ASSUME NEW s \in Subs, UserCancel(s) \/ UserResume(s)
     PROVE  Goal
  BY <1>6, <1>same DEF UserCancel, UserResume
<1>7. ASSUME NEW u \in Users, ReadLicense(u) \/ FillCache(u) \/ ExpireCache(u)
     PROVE  Goal
  BY <1>7, <1>same DEF ReadLicense, FillCache, ExpireCache
<1>8. ASSUME NEW e \in Events, WriteLicense(e)
     PROVE  Goal
  <2>1. \A u \in Users : license'[u] # license[u] => u = BuyerOf(e)
    BY <1>8, <1>type DEF WriteLicense
  <2>2. QED
    BY <1>8, <2>1 DEF ByItsOwner, Concerned
<1>9. ASSUME NEW e \in Events, SetStatus(e)
     PROVE  Goal
  <2>1. \A u \in Users : license'[u] # license[u] => u = target[e]
    BY <1>9, <1>type DEF SetStatus
  <2>2. target[e] \in Concerned(e)
    BY <1>9 DEF SetStatus, Move, TargetOwn
  <2>3. QED
    BY <1>9, <2>1, <2>2 DEF ByItsOwner
<1>10. ASSUME NEW u \in Users, AutoLicense(u)
     PROVE  Goal
  <2>1. \A v \in Users : license'[v] # license[v] => v = u
    BY <1>10, <1>type DEF AutoLicense
  <2>2. QED
    BY <1>10, <2>1 DEF ByItsOwner
<1>11. CASE UNCHANGED vars
  BY <1>11, <1>same DEF vars
<1>12. QED
  BY <1>1, <1>2, <1>3, <1>4, <1>5, <1>6, <1>7, <1>8, <1>9, <1>10, <1>11, <1>fail
     DEF Next, Busy, Fulfil, Transition

(* The inductive invariant holds at the start.                             *)
LEMMA InitIInv == Init => IInv /\ CountersAgree
<1> SUFFICES ASSUME Init PROVE IInv /\ CountersAgree
  OBVIOUS
<1> USE ConstantsAssumption DEF Init
<1>1. TypeOK
  BY DEF TypeOK, LicenseStatus, Stage, OutboundName
<1>2. StagesOfKind /\ RecordsOnTheWay /\ TargetOwn
  BY DEF StagesOfKind, RecordsOnTheWay, OnTheWay, TargetOwn, PayStages,
         AfterLicense, AfterTxn, AfterLink, AfterSub
<1>3. OwnersMatch
  BY DEF OwnersMatch
<1>4. FulfilledIsComplete
  BY DEF FulfilledIsComplete
<1>5. MakerAlone /\ OneCreation
  BY DEF MakerAlone, OneCreation, Making, Announced, BuyerOf, AfterLicense,
         PayStages
<1>6. RedemptionsHaveRuns /\ DoubleCountHasCause
  BY DEF RedemptionsHaveRuns, DoubleCountHasCause, OnlyRun
<1>7. CountersAgree
  <2>1. {e \in Events : pc[e] \in {"total"}} = {}
    OBVIOUS
  <2>2. Redeemers({"total"}) = 0
    BY <2>1, FS_EmptySet, Zenon DEF Redeemers
  <2>3. QED
    BY <2>2 DEF CountersAgree
<1>8. QED
  BY <1>1, <1>2, <1>3, <1>4, <1>5, <1>6, <1>7 DEF IInv

(* The inductive invariant of the module: IInv holds in every state, for   *)
(* any number of users, checkouts, events, runs and failures.              *)
THEOREM FulfilmentIInvHolds == Spec => [](IInv /\ CountersAgree)
<1>1. IInv /\ CountersAgree /\ [Next]_vars => (IInv /\ CountersAgree)'
  BY TypeStep, StagesStep, RecordsStep, OwnersStep, TargetStep, CompleteStep,
     MakerStep, RedemptionStep, CountersStep DEF IInv
<1>2. QED
  BY <1>1, InitIInv, PTL DEF Spec

(* Type correctness.                                                       *)
THEOREM FulfilmentTypes == Spec => []TypeOK
<1>1. IInv => TypeOK
  BY DEF IInv
<1>2. QED
  BY <1>1, FulfilmentIInvHolds, PTL

(* A payment event reported as handled has left its license, completed     *)
(* purchase, transaction, link and subscription rows, whatever failed or   *)
(* ran at the same time.                                                   *)
THEOREM HandledIsComplete == Spec => []FulfilledIsComplete
<1>1. IInv => FulfilledIsComplete
  BY DEF IInv
<1>2. QED
  BY <1>1, FulfilmentIInvHolds, PTL

(* A user's license is created, recorded and announced at most once.       *)
THEOREM CreatedOnce == Spec => []OneCreation
<1>1. IInv => OneCreation
  BY DEF IInv
<1>2. QED
  BY <1>1, FulfilmentIInvHolds, PTL

(* The two counters of a promotion differ only by the handlers between     *)
(* their increments and by the failures.                                   *)
THEOREM PromotionCounters == Spec => []CountersAgree
BY FulfilmentIInvHolds, PTL

(* A purchase that counts twice against a cap was processed twice.         *)
THEOREM DoubleCountExplained == Spec => []DoubleCountHasCause
<1>1. IInv => DoubleCountHasCause
  BY DEF IInv
<1>2. QED
  BY <1>1, FulfilmentIInvHolds, PTL

(* No event of one customer changes the license of another, except through *)
(* the email fallback.                                                     *)
THEOREM LicenseIsOwn == Spec => OnlyOwnLicense
<1>1. IInv /\ [Next]_vars =>
          [\A u \in Users : license'[u] # license[u] => ByItsOwner(u)]_vars
  BY OwnStep DEF IInv
<1>2. QED
  BY <1>1, FulfilmentIInvHolds, PTL DEF Spec, OnlyOwnLicense

=============================================================================
