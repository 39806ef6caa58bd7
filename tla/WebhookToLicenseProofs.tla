------------------------ MODULE WebhookToLicenseProofs ------------------------
(* Theorems about WebhookToLicense, for every value of its constants: the  *)
(* composed system implements both of its parts, so that what is proved of *)
(* either holds of it, and what holds only of the two together.            *)
EXTENDS WebhookToLicense, WebhookPipelineProofs, FiniteSetTheorems

(* The theorems about the fulfilment, read over handlings.                 *)
FP == INSTANCE LicenseFulfilmentProofs
       WITH Events <- Handlings,
            Kind <- [h \in Handlings |-> Kind[h[1]]],
            PurchaseOf <- [h \in Handlings |-> PurchaseOf[h[1]]],
            Tagged <- {h \in Handlings : h[1] \in Tagged},
            TxnOf <- [h \in Handlings |-> TxnOf[h[1]]],
            SubOf <- [h \in Handlings |-> SubOf[h[1]]],
            Payer <- [h \in Handlings |-> Payer[h[1]]],
            MaxRuns <- [h \in Handlings |-> MaxRuns],
            MaxFaults <- MaxFailures,
            pc <- stage, faults <- failures

-----------------------------------------------------------------------------
(* What one step of processWebhookEvent does to its own handling.          *)

Last == {"drop", "find", "forget", "tell"}

PastRedeem == {"uses", "total", "findSub", "sub", "announce", "history", "drop"}

(* A call of processWebhookEvent moves its own handling only, and has      *)
(* handled the event exactly when it returns from a last stage.  It counts *)
(* a redemption on its way from "redeem" to "uses", and once past them it  *)
(* stays past them until it returns.                                       *)
StepOf(h) ==
    /\ stage[h] # "idle"
    /\ stage'[h] \in F!Stage /\ stage' = [stage EXCEPT ![h] = stage'[h]]
    /\ handled' = IF stage[h] \in Last /\ stage'[h] = "idle"
                  THEN handled \cup {h} ELSE handled
    /\ failures' \in Nat /\ failures' >= failures
    /\ IF stage[h] = "redeem" /\ stage'[h] = "uses"
       THEN redemptions' = [redemptions EXCEPT ![PurchaseOf[h[1]]] = @ + 1]
       ELSE UNCHANGED redemptions
    /\ stage[h] \in PastRedeem =>
          stage'[h] \in PastRedeem \/ (stage[h] \in Last /\ stage'[h] = "idle")

(* Every statement of processWebhookEvent is such a step.                  *)
LEMMA WorkEffect ==
    ASSUME stage \in [Handlings -> F!Stage], failures \in Nat,
           NEW h \in Handlings, F!Fulfil(h) \/ F!Transition(h)
    PROVE  StepOf(h)
<1> USE DEF F!Stage, Last, PastRedeem, StepOf, F!Move, F!Return, F!Fault,
            F!runVars, F!promoVars
<1>1. CASE F!WritePurchase(h)
  BY <1>1 DEF F!WritePurchase
<1>2. CASE F!FindLicense(h)
  BY <1>2 DEF F!FindLicense
<1>3. CASE F!WriteLicense(h)
  BY <1>3 DEF F!WriteLicense
<1>4. CASE F!RecordTransaction(h)
  BY <1>4 DEF F!RecordTransaction
<1>5. CASE F!LinkPurchase(h)
  BY <1>5 DEF F!LinkPurchase
<1>6. CASE F!Redeem(h)
  BY <1>6 DEF F!Redeem
<1>7. CASE F!IncrementUses(h)
  BY <1>7 DEF F!IncrementUses
<1>8. CASE F!IncrementRedemptions(h)
  BY <1>8 DEF F!IncrementRedemptions
<1>9. CASE F!RedemptionFails(h)
  BY <1>9 DEF F!RedemptionFails
<1>10. CASE F!FindSubscription(h)
  BY <1>10 DEF F!FindSubscription
<1>11. CASE F!UpsertSubscription(h)
  BY <1>11 DEF F!UpsertSubscription
<1>12. CASE F!Announce(h)
  BY <1>12 DEF F!Announce
<1>13. CASE F!WriteHistory(h)
  BY <1>13 DEF F!WriteHistory
<1>14. CASE F!FinishPayment(h)
  BY <1>14 DEF F!FinishPayment, F!DropCache
<1>15. CASE F!MarkPurchaseFailed(h)
  BY <1>15 DEF F!MarkPurchaseFailed
<1>16. CASE F!FindOwner(h)
  BY <1>16 DEF F!FindOwner
<1>17. CASE F!SetStatus(h)
  BY <1>17 DEF F!SetStatus
<1>18. CASE F!NoteStatus(h)
  BY <1>18 DEF F!NoteStatus
<1>19. CASE F!ForgetStatus(h)
  BY <1>19 DEF F!ForgetStatus, F!DropCache
<1>20. CASE F!TellApp(h)
  BY <1>20 DEF F!TellApp
<1>21. QED
  BY <1>1, <1>2, <1>3, <1>4, <1>5, <1>6, <1>7, <1>8, <1>9, <1>10, <1>11,
     <1>12, <1>13, <1>14, <1>15, <1>16, <1>17, <1>18, <1>19, <1>20
     DEF F!Fulfil, F!Transition

(* A handling is a pair of an event and a job.                             *)
HandlingFacts ==
    /\ \A e \in Events, j \in JobIds : <<e, j>> \in Handlings
    /\ \A h \in Handlings : /\ h = <<h[1], h[2]>>
                            /\ h[1] \in Events /\ h[2] \in JobIds

(* Both directions of the pairing.                                         *)
LEMMA Pairs == HandlingFacts
BY DEF HandlingFacts, Handlings

-----------------------------------------------------------------------------
(* The composition implements the pipeline: a call of processWebhookEvent  *)
(* is invisible to it until it returns, and then it is Apply.              *)
LEMMA PipelineStep == [PathNext]_pathVars => [Next]_vars
<1>1. ASSUME Queue
      PROVE  Next
  BY <1>1 DEF Queue, Deliver, Outside, Next, Handle
<1>2. ASSUME NEW j \in JobIds, Enter(j) \/ Throw(j)
      PROVE  UNCHANGED vars
  BY <1>2 DEF Enter, Throw
<1>3. ASSUME NEW j \in JobIds, Work(j)
      PROVE  Apply(j) \/ UNCHANGED vars
  BY <1>3 DEF Work
<1>4. ASSUME NEW j \in JobIds, Catch(j)
      PROVE  ProcessFails(j)
  BY <1>4 DEF Catch
<1>5. ASSUME WorkerDies
      PROVE  Crash
  BY <1>5 DEF WorkerDies
<1>6. UNCHANGED pathVars => UNCHANGED vars
  BY DEF pathVars
<1>7. ASSUME NEW j \in JobIds, Apply(j) \/ ProcessFails(j)
      PROVE  Next
  BY <1>7 DEF Next, Handle
<1>8. Crash => Next
  BY DEF Next
<1>9. QED
  BY <1>1, <1>2, <1>3, <1>4, <1>5, <1>6, <1>7, <1>8 DEF PathNext

(* So everything proved of WebhookPipeline holds of the composition.       *)
THEOREM PathIsPipeline == PathSpec => Spec
<1>1. PathInit => Init
  BY DEF PathInit
<1>2. QED
  BY <1>1, PipelineStep, PTL DEF PathSpec, Spec

(* The invariant of the pipeline is one of the composition.                *)
THEOREM PathPipelineInv == PathSpec => []IInv
BY PathIsPipeline, IInvHolds, PTL

-----------------------------------------------------------------------------
(* The link between the two: a handling is under way only while its job's  *)
(* handler is in the call, and that job is the event's; an event that the  *)
(* pipeline counts as applied was handled by some job.                     *)
Link ==
    /\ stage \in [Handlings -> F!Stage]
    /\ failures \in Nat
    /\ \A j \in inside : j \in JobIds /\ pc[j] = "unique"
    /\ \A h \in Handlings : stage[h] # "idle" => h[2] \in inside /\ h = Of(h[2])
    /\ \A e \in Events : applied[e] > 0 =>
          \E j \in JobIds : <<e, j>> \in handled

(* A job that is in a call has an event, so its handling exists.           *)
LEMMA InsideHandling ==
    ASSUME IInv, Link, NEW j \in JobIds, pc[j] = "unique"
    PROVE  /\ jobEvent[j] \in Events /\ jobState[j] = "active"
           /\ Of(j) \in Handlings
<1>1. jobState[j] = "active"
  BY DEF IInv, JobsLinked
<1>2. jobEvent[j] \in Events
  BY <1>1 DEF IInv, JobsLinked
<1>3. QED
  BY <1>1, <1>2, Pairs DEF Of, HandlingFacts

(* No step of the queue moves a handler that is in a call, gives its job   *)
(* another event, or counts an effect.                                     *)
LEMMA QueueStep ==
    ASSUME IInv, Queue
    PROVE  /\ UNCHANGED applied
           /\ \A j \in JobIds : pc[j] = "unique" =>
                 pc'[j] = "unique" /\ jobEvent'[j] = jobEvent[j]
<1> DEFINE Kept == /\ UNCHANGED applied
                   /\ \A j \in JobIds : pc[j] = "unique" =>
                         pc'[j] = "unique" /\ jobEvent'[j] = jobEvent[j]
<1>types. pc \in [JobIds -> Stage] /\ jobEvent \in [JobIds -> Events \cup {NoEvent}]
  BY DEF IInv, TypeOK
<1>active. \A j \in JobIds : pc[j] = "unique" => jobState[j] = "active"
  BY DEF IInv, JobsLinked
<1>add. ASSUME NEW k, NEW e, NEW body, AddJob(k, e, body), UNCHANGED <<pc, applied>>
        PROVE  Kept
  BY <1>add, <1>types, <1>active DEF AddJob, jobVars
<1>move. ASSUME NEW k \in JobIds, pc[k] # "unique", NEW s, pc' = [pc EXCEPT ![k] = s],
                UNCHANGED <<jobEvent, applied>>
         PROVE  Kept
  BY <1>move, <1>types
<1>same. ASSUME UNCHANGED <<pc, jobEvent, applied>>
         PROVE  Kept
  BY <1>same
<1>1. ASSUME NEW e \in Events, Receive(e)
      PROVE  Kept
  BY <1>1, <1>same DEF Receive, jobVars
<1>2. ASSUME NEW r \in ingress, Enqueue(r)
      PROVE  Kept
  <2>1. UNCHANGED <<pc, applied>>
    BY <1>2 DEF Enqueue
  <2>2. \/ AddJob(r.log, r.event, "raw")
        \/ \E j \in Anon : AddJob(j, r.event, "raw")
    BY <1>2 DEF Enqueue
  <2>3. QED
    BY <2>1, <2>2, <1>add
<1>3. ASSUME NEW r \in ingress, EnqueueFails(r)
      PROVE  Kept
  BY <1>3, <1>same DEF EnqueueFails, jobVars
<1>4. ASSUME NEW j \in JobIds, Pick(j)
      PROVE  Kept
  <2>1. pc[j] # "unique"
    BY <1>4, <1>active DEF Pick
  <2>2. QED
    BY <1>4, <2>1, <1>move DEF Pick
<1>5. ASSUME NEW j \in JobIds,
             \/ VerifyWebhook(j) \/ VerifyFails(j) \/ SkipDuplicate(j)
             \/ SkipNoPayment(j) \/ PassDuplicateCheck(j) \/ MarkCompleted(j)
      PROVE  Kept
  BY <1>5, <1>move DEF VerifyWebhook, VerifyFails, SkipDuplicate,
     SkipNoPayment, PassDuplicateCheck, MarkCompleted, jobVars
<1>6. ASSUME NEW j \in JobIds, FinishOk(j) \/ FinishErr(j)
      PROVE  Kept
  BY <1>6, <1>move DEF FinishOk, FinishErr
<1>7. ASSUME NEW j \in JobIds, ExpireJob(j)
      PROVE  Kept
  BY <1>7, <1>same DEF ExpireJob
<1>8. ASSUME RescueScan \/ RescueFails
      PROVE  Kept
  BY <1>8, <1>same DEF RescueScan, RescueFails, jobVars
<1>9. ASSUME NEW l \in Logs, RescueAdd(l) \/ AdminEnqueue(l)
      PROVE  Kept
  BY <1>9, <1>add DEF RescueAdd, AdminEnqueue
<1>10. ASSUME NEW l \in Logs,
              RescueMark(l) \/ AdminCheck(l) \/ AdminMark(l) \/ AdminFails(l)
      PROVE  Kept
  BY <1>10, <1>same DEF RescueMark, AdminCheck, AdminMark, AdminFails, jobVars
<1>11. QED
  BY <1>1, <1>2, <1>3, <1>4, <1>5, <1>6, <1>7, <1>8, <1>9, <1>10
     DEF Queue, Deliver, Outside

(* Nothing a customer does moves a handling, and no failure disappears.    *)
LEMMA CustomerStep ==
    ASSUME Link, Customer
    PROVE  /\ UNCHANGED <<stage, handled, redemptions>>
           /\ failures' \in Nat /\ failures' >= failures
<1> USE DEF Link, F!Fault, F!runVars, F!promoVars
<1>1. ASSUME NEW p \in Purchases, F!OpenCheckout(p) \/ F!RecordCheckout(p)
      PROVE  /\ UNCHANGED <<stage, handled, redemptions>>
             /\ failures' \in Nat /\ failures' >= failures
  BY <1>1 DEF F!OpenCheckout, F!RecordCheckout
<1>2. ASSUME NEW s \in Subs, F!UserCancel(s) \/ F!UserResume(s)
      PROVE  /\ UNCHANGED <<stage, handled, redemptions>>
             /\ failures' \in Nat /\ failures' >= failures
  BY <1>2 DEF F!UserCancel, F!UserResume, F!Answer
<1>3. ASSUME NEW u \in Users,
             \/ F!AutoLicense(u) \/ F!ReadLicense(u)
             \/ F!FillCache(u) \/ F!ExpireCache(u)
      PROVE  /\ UNCHANGED <<stage, handled, redemptions>>
             /\ failures' \in Nat /\ failures' >= failures
  BY <1>3 DEF F!AutoLicense, F!ReadLicense, F!FillCache, F!ExpireCache,
              F!DropCache
<1>4. QED
  BY <1>1, <1>2, <1>3 DEF Customer

(* Finitely many jobs can work on finitely many events.                    *)
LEMMA HandlingsFinite == IsFiniteSet(Handlings)
BY PathFinite, FS_Product DEF Handlings

(* A failure ends the handlings it hits and counts each of them.           *)
LEMMA FailEffect ==
    ASSUME Link, NEW some \in SUBSET Handlings, F!Fail(some)
    PROVE  /\ stage' = [h \in Handlings |-> IF h \in some THEN "idle" ELSE stage[h]]
           /\ stage' \in [Handlings -> F!Stage]
           /\ UNCHANGED <<handled, redemptions>>
           /\ Cardinality(some) \in Nat
           /\ failures' = failures + Cardinality(some)
           /\ failures' \in Nat /\ failures' >= failures
<1>1. Cardinality(some) \in Nat
  BY HandlingsFinite, FS_Subset, FS_CardinalityType
<1>2. F!Cardinality(some) = Cardinality(some)
  BY DEF F!Cardinality, Cardinality
<1>3. failures' = failures + Cardinality(some)
  BY <1>2 DEF F!Fail
<1>4. stage' = [h \in Handlings |-> IF h \in some THEN "idle" ELSE stage[h]]
  BY DEF F!Fail
<1>5. UNCHANGED <<handled, redemptions>>
  BY DEF F!Fail, F!runVars, F!promoVars
<1>6. QED
  BY <1>1, <1>3, <1>4, <1>5 DEF Link, F!Stage

(* The link holds at the start, and every step keeps it.                   *)
LEMMA LinkInit == PathInit => Link
BY ConstantsAssumption, Pairs DEF PathInit, Init, F!Init, Link, F!Stage, HandlingFacts

(* Each step of the composition, one by one.                               *)
LEMMA LinkKept ==
    ASSUME IInv, Link, [PathNext]_pathVars
    PROVE  Link'
<1>types. /\ pc \in [JobIds -> Stage]
          /\ jobEvent \in [JobIds -> Events \cup {NoEvent}]
          /\ applied \in [Events -> Nat]
  BY DEF IInv, TypeOK
<1>1. CASE Queue /\ UNCHANGED <<recordVars, inside>>
  BY <1>1, QueueStep, Pairs DEF Link, recordVars, Of, HandlingFacts
<1>2. ASSUME NEW j \in JobIds, Enter(j)
      PROVE  Link'
  <2>1. Of(j) \in Handlings /\ Of(j)[2] = j
    BY <1>2, InsideHandling DEF Enter, Of
  <2>2. /\ stage' = [stage EXCEPT ![Of(j)] = F!FirstStage(Of(j))]
        /\ F!FirstStage(Of(j)) \in F!Stage
        /\ UNCHANGED <<handled, failures>>
    BY <1>2, <2>1 DEF Enter, F!Start, F!FirstStage, F!Stage
  <2>3. UNCHANGED vars /\ inside' = inside \cup {j} /\ pc[j] = "unique"
    BY <1>2 DEF Enter
  <2>4. QED
    BY <2>1, <2>2, <2>3 DEF Link, vars, jobVars, Of
<1>3. ASSUME NEW j \in JobIds, Work(j)
      PROVE  Link'
  <2>1. j \in inside /\ pc[j] = "unique"
    BY <1>3 DEF Work, Link
  <2>2. Of(j) \in Handlings /\ Of(j) = <<jobEvent[j], j>> /\ jobEvent[j] \in Events
    BY <2>1, InsideHandling DEF Of
  <2>3. StepOf(Of(j))
    BY <1>3, <2>2, WorkEffect DEF Work, Link
  <2>4. Returns(j) <=> stage[Of(j)] \in Last /\ stage'[Of(j)] = "idle"
    BY DEF Returns, Last
  <2>5. CASE Returns(j)
    <3>1. Apply(j) /\ inside' = inside \ {j}
      BY <1>3, <2>5 DEF Work
    <3>2. /\ UNCHANGED jobEvent
          /\ pc' = [pc EXCEPT ![j] = "applied"]
          /\ applied' = [applied EXCEPT ![jobEvent[j]] = @ + 1]
      BY <3>1 DEF Apply, jobVars
    <3>3. handled' = handled \cup {Of(j)}
      BY <2>3, <2>4, <2>5 DEF StepOf
    <3>4. \A e \in Events : applied'[e] > 0 => \E k \in JobIds : <<e, k>> \in handled'
      BY <2>2, <3>2, <3>3, <1>types DEF Link
    <3>5. \A k \in inside' : k \in JobIds /\ pc'[k] = "unique"
      BY <3>1, <3>2, <1>types DEF Link
    <3>6. \A h \in Handlings : stage'[h] # "idle" => h[2] \in inside' /\ h = Of(h[2])'
      BY <2>2, <2>3, <2>4, <2>5, <3>1, <3>2 DEF Link, StepOf, Of
    <3>7. QED
      BY <2>3, <3>4, <3>5, <3>6 DEF Link, StepOf
  <2>6. CASE ~Returns(j)
    <3>1. UNCHANGED <<vars, inside>>
      BY <1>3, <2>6 DEF Work
    <3>2. handled' = handled
      BY <2>3, <2>4, <2>6 DEF StepOf
    <3>3. \A h \in Handlings : stage'[h] # "idle" => h[2] \in inside' /\ h = Of(h[2])'
      BY <2>1, <2>2, <2>3, <3>1 DEF Link, StepOf, Of, vars, jobVars
    <3>4. QED
      BY <2>3, <3>1, <3>2, <3>3 DEF Link, StepOf, vars
  <2>7. QED
    BY <2>5, <2>6
<1>4. ASSUME NEW j \in JobIds, Throw(j)
      PROVE  Link'
  <2>1. {Of(j)} \in SUBSET Handlings
    BY <1>4, InsideHandling DEF Throw, Link
  <2>2. UNCHANGED <<vars, inside>> /\ F!Fail({Of(j)})
    BY <1>4 DEF Throw
  <2>3. /\ \A h \in Handlings : stage'[h] # "idle" => stage[h] # "idle"
        /\ stage' \in [Handlings -> F!Stage] /\ failures' \in Nat
        /\ UNCHANGED handled
    BY <2>1, <2>2, FailEffect
  <2>4. QED
    BY <2>2, <2>3 DEF Link, vars, jobVars, Of
<1>5. ASSUME NEW j \in JobIds, Catch(j)
      PROVE  Link'
  <2>1. /\ inside' = inside \ {j} /\ UNCHANGED recordVars
        /\ j \in inside => stage[Of(j)] = "idle"
        /\ pc' = [pc EXCEPT ![j] = "err"]
        /\ UNCHANGED <<jobEvent, applied>>
    BY <1>5 DEF Catch, ProcessFails, jobVars
  <2>2. \A h \in Handlings : stage[h] # "idle" => h[2] # j
    BY <2>1 DEF Link
  <2>3. QED
    BY <2>1, <2>2, <1>types DEF Link, recordVars, Of
<1>6. ASSUME WorkerDies
      PROVE  Link'
  <2>1. inside' = {} /\ UNCHANGED <<jobEvent, applied>>
    BY <1>6 DEF WorkerDies, Crash
  <2>2. Running \in SUBSET Handlings
    BY InsideHandling DEF Running, Link
  <2>3. \A h \in Handlings : stage[h] # "idle" => h \in Running
    BY DEF Running, Link
  <2>4. CASE Running = {}
    BY <1>6, <2>1, <2>3, <2>4 DEF WorkerDies, Link, recordVars
  <2>5. CASE Running # {}
    <3>1. F!Fail(Running)
      BY <1>6, <2>5 DEF WorkerDies
    <3>2. \A h \in Handlings : stage'[h] = "idle"
      BY <2>2, <2>3, <3>1, FailEffect
    <3>3. QED
      BY <2>1, <2>2, <3>1, <3>2, FailEffect DEF Link
  <2>6. QED
    BY <2>4, <2>5
<1>7. CASE Customer /\ UNCHANGED <<vars, inside>>
  BY <1>7, CustomerStep DEF Link, vars, jobVars, Of
<1>8. CASE UNCHANGED pathVars
  BY <1>8 DEF pathVars, vars, jobVars, recordVars, Link, Of
<1>9. QED
  BY <1>1, <1>2, <1>3, <1>4, <1>5, <1>6, <1>7, <1>8 DEF PathNext

(* The link is an invariant, beside that of the pipeline.                  *)
LEMMA LinkHolds == PathSpec => [](IInv /\ Link)
<1>1. PathInit => Link
  BY LinkInit
<1>2. IInv /\ Link /\ [PathNext]_pathVars => Link'
  BY LinkKept
<1>3. QED
  BY <1>1, <1>2, PathPipelineInv, PTL DEF PathSpec

-----------------------------------------------------------------------------
(* The composition implements the fulfilment, read over handlings: a call  *)
(* begins with Start, works with Fulfil or Transition, and ends with       *)
(* Return, an exception or the death of the worker.                        *)
LEMMA FulfilmentStep ==
    ASSUME IInv, Link, [PathNext]_pathVars
    PROVE  [F!Next]_F!vars
<1>same. ASSUME UNCHANGED recordVars
         PROVE  UNCHANGED F!vars
  BY <1>same DEF recordVars, F!vars, F!purchaseVars, F!subVars, F!promoVars,
     F!historyVars, F!localVars, F!runVars, F!cacheVars, F!readVars
<1>fail. ASSUME NEW some \in SUBSET Handlings, F!Fail(some)
         PROVE  F!Next
  <2>1. some \in SUBSET F!Busy
    BY <1>fail DEF F!Fail
  <2>2. QED
    BY <1>fail, <2>1 DEF F!Next
<1>1. CASE Queue /\ UNCHANGED <<recordVars, inside>>
  BY <1>1, <1>same
<1>2. ASSUME NEW j \in JobIds, Enter(j)
      PROVE  F!Next
  <2>1. Of(j) \in Handlings /\ F!Start(Of(j))
    BY <1>2, InsideHandling DEF Enter
  <2>2. QED
    BY <2>1 DEF F!Next
<1>3. ASSUME NEW j \in JobIds, Work(j)
      PROVE  F!Next
  <2>1. Of(j) \in Handlings
    BY <1>3, InsideHandling DEF Work, Link
  <2>2. F!Fulfil(Of(j)) \/ F!Transition(Of(j))
    BY <1>3 DEF Work
  <2>3. QED
    BY <2>1, <2>2 DEF F!Next
<1>4. ASSUME NEW j \in JobIds, Throw(j)
      PROVE  F!Next
  <2>1. {Of(j)} \in SUBSET Handlings
    BY <1>4, InsideHandling DEF Throw, Link
  <2>2. F!Fail({Of(j)})
    BY <1>4 DEF Throw
  <2>3. QED
    BY <2>1, <2>2, <1>fail
<1>5. ASSUME NEW j \in JobIds, Catch(j)
      PROVE  UNCHANGED F!vars
  BY <1>5, <1>same DEF Catch
<1>6. ASSUME WorkerDies
      PROVE  F!Next \/ UNCHANGED F!vars
  <2>1. Running \in SUBSET Handlings
    BY InsideHandling DEF Running, Link
  <2>2. F!Fail(Running) \/ UNCHANGED recordVars
    BY <1>6 DEF WorkerDies
  <2>3. QED
    BY <2>1, <2>2, <1>same, <1>fail
<1>7. CASE Customer /\ UNCHANGED <<vars, inside>>
  BY <1>7 DEF Customer, F!Next
<1>8. CASE UNCHANGED pathVars
  BY <1>8, <1>same DEF pathVars
<1>9. QED
  BY <1>1, <1>2, <1>3, <1>4, <1>5, <1>6, <1>7, <1>8 DEF PathNext

(* So everything proved of LicenseFulfilment holds of the composition: of  *)
(* every record, whatever rows, jobs and redeliveries run the handlers.    *)
THEOREM PathIsFulfilment == PathSpec => F!Spec
<1>1. PathInit => F!Init
  BY DEF PathInit
<1>2. IInv /\ Link /\ [PathNext]_pathVars => [F!Next]_F!vars
  BY FulfilmentStep
<1>3. QED
  BY <1>1, <1>2, LinkHolds, PTL DEF PathSpec, F!Spec

-----------------------------------------------------------------------------
(* F and FP are one specification: their definitions are the same, name by *)
(* name.                                                                   *)
LEMMA SameFail == \A some : F!Fail(some) <=> FP!Fail(some)
<1>1. \A S : F!Cardinality(S) = FP!Cardinality(S)
  BY DEF F!Cardinality, FP!Cardinality
<1>2. QED
  BY <1>1, Zenon
     DEF F!Fail, FP!Fail, F!Busy, FP!Busy, F!purchaseVars, FP!purchaseVars,
         F!subVars, FP!subVars, F!promoVars, FP!promoVars, F!historyVars,
         FP!historyVars, F!runVars, FP!runVars, F!localVars, FP!localVars,
         F!readVars, FP!readVars, F!cacheVars, FP!cacheVars

(* The actions, by expanding every definition on both sides.               *)
LEMMA SameNext == F!Next => FP!Next
BY SameFail, Zenon
   DEF F!BuyerOf, FP!BuyerOf, F!purchaseVars, FP!purchaseVars, F!subVars,
         FP!subVars, F!promoVars, FP!promoVars, F!historyVars, FP!historyVars,
         F!runVars, FP!runVars, F!localVars, FP!localVars, F!readVars,
         FP!readVars, F!cacheVars, FP!cacheVars, F!vars, FP!vars, F!Fault,
         FP!Fault, F!Move, FP!Move, F!Return, FP!Return, F!OpenCheckout,
         FP!OpenCheckout, F!RecordCheckout, FP!RecordCheckout, F!FirstStage,
         FP!FirstStage, F!Start, FP!Start, F!Busy, FP!Busy, F!WritePurchase,
         FP!WritePurchase, F!FindLicense, FP!FindLicense, F!WriteLicense,
         FP!WriteLicense, F!RecordTransaction, FP!RecordTransaction,
         F!LinkPurchase, FP!LinkPurchase, F!Redeem, FP!Redeem, F!IncrementUses,
         FP!IncrementUses, F!IncrementRedemptions, FP!IncrementRedemptions,
         F!RedemptionFails, FP!RedemptionFails, F!FindSubscription,
         FP!FindSubscription, F!UpsertSubscription, FP!UpsertSubscription,
         F!Renewal, FP!Renewal, F!Licensing, FP!Licensing, F!Announce,
         FP!Announce, F!WriteHistory, FP!WriteHistory, F!DropCache,
         FP!DropCache, F!FinishPayment, FP!FinishPayment, F!MarkPurchaseFailed,
         FP!MarkPurchaseFailed, F!OwnerById, FP!OwnerById, F!OwnerByMail,
         FP!OwnerByMail, F!FindOwner, FP!FindOwner, F!NewStatus, FP!NewStatus,
         F!SetStatus, FP!SetStatus, F!NoteStatus, FP!NoteStatus,
         F!ForgetStatus, FP!ForgetStatus, F!News, FP!News, F!TellApp,
         FP!TellApp, F!Answer, FP!Answer, F!UserCancel, FP!UserCancel,
         F!UserResume, FP!UserResume, F!AutoLicense, FP!AutoLicense,
         F!ReadLicense, FP!ReadLicense, F!FillCache, FP!FillCache,
         F!ExpireCache, FP!ExpireCache, F!Fulfil, FP!Fulfil, F!Transition,
         FP!Transition, F!Next, FP!Next

(* The specifications.                                                     *)
LEMMA SameSpec == F!Spec => FP!Spec
<1>1. F!Init => FP!Init
  BY DEF F!Init, FP!Init
<1>2. UNCHANGED F!vars => UNCHANGED FP!vars
  BY DEF F!purchaseVars, FP!purchaseVars, F!subVars, FP!subVars, F!promoVars,
         FP!promoVars, F!historyVars, FP!historyVars, F!runVars, FP!runVars,
         F!localVars, FP!localVars, F!readVars, FP!readVars, F!cacheVars,
         FP!cacheVars, F!vars, FP!vars
<1>3. [F!Next]_F!vars => [FP!Next]_FP!vars
  BY SameNext, <1>2
<1>4. QED
  BY <1>1, <1>3, PTL DEF F!Spec, FP!Spec

(* The inductive invariants.                                               *)
LEMMA SameIInv == FP!IInv => F!IInv
BY DEF F!BuyerOf, FP!BuyerOf, F!LicenseStatus, FP!LicenseStatus, F!Stage,
         FP!Stage, F!OutboundName, FP!OutboundName, F!TypeOK, FP!TypeOK,
         F!Paying, FP!Paying, F!Complete, FP!Complete, F!FulfilledIsComplete,
         FP!FulfilledIsComplete, F!OneCreation, FP!OneCreation,
         F!DoubleCountHasCause, FP!DoubleCountHasCause, F!PayStages,
         FP!PayStages, F!AfterLicense, FP!AfterLicense, F!AfterTxn,
         FP!AfterTxn, F!AfterLink, FP!AfterLink, F!AfterSub, FP!AfterSub,
         F!StagesOfKind, FP!StagesOfKind, F!OnTheWay, FP!OnTheWay,
         F!RecordsOnTheWay, FP!RecordsOnTheWay, F!OwnersMatch, FP!OwnersMatch,
         F!TargetOwn, FP!TargetOwn, F!Concerned, FP!Concerned, F!Making,
         FP!Making, F!Announced,
         FP!Announced, F!MakerAlone, FP!MakerAlone, F!OnlyRun, FP!OnlyRun,
         F!RedemptionsHaveRuns, FP!RedemptionsHaveRuns, F!IInv, FP!IInv

(* What LicenseFulfilment assumes of its constants holds of handlings.     *)
LEMMA HandlingConstants ==
    /\ NoUser \notin Users /\ NoTxn \notin Txns /\ NoSub \notin Subs
    /\ Buyer \in [Purchases -> Users]
    /\ Discounted \subseteq Purchases
    /\ [h \in Handlings |-> Kind[h[1]]]
          \in [Handlings -> {"succeeded", "canceled", "failed", "refunded"}]
    /\ [h \in Handlings |-> PurchaseOf[h[1]]] \in [Handlings -> Purchases]
    /\ {h \in Handlings : h[1] \in Tagged} \subseteq Handlings
    /\ [h \in Handlings |-> TxnOf[h[1]]] \in [Handlings -> Txns]
    /\ [h \in Handlings |-> SubOf[h[1]]] \in [Handlings -> Subs \cup {NoSub}]
    /\ [h \in Handlings |-> Payer[h[1]]] \in [Handlings -> Users \cup {NoUser}]
    /\ [h \in Handlings |-> MaxRuns] \in [Handlings -> Nat]
    /\ {MaxFailures, MaxReads} \subseteq Nat
BY PathConstants, Pairs DEF HandlingFacts

(* Two handlings with one transaction or subscription have one buyer.      *)
LEMMA HandlingIds ==
    \A e, f \in Handlings :
        \/ [h \in Handlings |-> TxnOf[h[1]]][e] = [h \in Handlings |-> TxnOf[h[1]]][f]
        \/ /\ [h \in Handlings |-> SubOf[h[1]]][e] = [h \in Handlings |-> SubOf[h[1]]][f]
           /\ [h \in Handlings |-> SubOf[h[1]]][e] # NoSub
        => FP!BuyerOf(e) = FP!BuyerOf(f)
BY PathConstants, PathOwnIds, Pairs DEF FP!BuyerOf, HandlingFacts

(* There are finitely many handlings, as the counters need.                *)
LEMMA HandlingsFew == FP!IsFiniteSet(Handlings)
<1>1. FP!IsFiniteSet(Handlings) <=> IsFiniteSet(Handlings)
  BY DEF FP!IsFiniteSet, IsFiniteSet
<1>2. QED
  BY <1>1, HandlingsFinite

(* The invariant of the fulfilment is one of the composition.              *)
LEMMA RecordsInv == PathSpec => []F!IInv
<1>1. FP!Spec => [](FP!IInv /\ FP!CountersAgree)
  BY FP!FulfilmentIInvHolds, HandlingConstants, HandlingIds, HandlingsFew, Zenon
<1>2. FP!IInv /\ FP!CountersAgree => F!IInv
  BY SameIInv
<1>3. QED
  BY <1>1, <1>2, SameSpec, PathIsFulfilment, PTL

-----------------------------------------------------------------------------
(* A completed or duplicate row has an event whose effects took place, so  *)
(* some job has handled it, and a handled payment is complete.             *)
THEOREM RowsLeaveRecords == PathSpec => []CompletedLeavesRecords
<1>1. IInv /\ Link /\ F!IInv => CompletedLeavesRecords
  <2>1. SUFFICES ASSUME IInv, Link, F!IInv, NEW l \in Logs,
                        status[l] \in {"completed", "duplicate"},
                        Kind[logEvent[l]] = "succeeded"
                 PROVE  F!Complete(<<logEvent[l], l>>)
    BY DEF CompletedLeavesRecords
  <2>2. logEvent[l] \in Events
    BY <2>1 DEF IInv, RowsLinked, TypeOK
  <2>3. applied[logEvent[l]] > 0
    BY <2>1 DEF IInv, CompletedMeansFulfilled, DuplicateMeansFulfilled
  <2>4. PICK j \in JobIds : <<logEvent[l], j>> \in handled
    BY <2>1, <2>2, <2>3 DEF Link
  <2>5. <<logEvent[l], l>> \in Handlings /\ <<logEvent[l], j>> \in Handlings
    BY <2>2, Pairs DEF HandlingFacts, JobIds
  <2>6. F!Complete(<<logEvent[l], j>>)
    BY <2>1, <2>4, <2>5 DEF F!IInv, F!FulfilledIsComplete
  <2>7. QED
    BY <2>5, <2>6 DEF F!Complete, F!BuyerOf
<1>2. QED
  BY <1>1, LinkHolds, RecordsInv, PTL

(* A customer's license is created and announced once by all the rows,     *)
(* redeliveries, rescues, retries and workers together.                    *)
THEOREM LicenseMadeOnce == PathSpec => []F!OneCreation
<1>1. F!IInv => F!OneCreation
  BY DEF F!IInv
<1>2. QED
  BY <1>1, RecordsInv, PTL

-----------------------------------------------------------------------------
(* Every event in the queue, the table or a request was reported.          *)
Reported ==
    /\ \A r \in ingress : deliveries[r.event] > 0
    /\ \A l \in Logs : logEvent[l] # NoEvent => deliveries[logEvent[l]] > 0
    /\ \A j \in JobIds : jobState[j] # "none" => deliveries[jobEvent[j]] > 0

(* No step enqueues, stores or requests what was never reported.           *)
LEMMA ReportedStep ==
    ASSUME IInv, Reported, [Next]_vars
    PROVE  /\ Reported'
           /\ \A e \in Events : deliveries'[e] >= deliveries[e]
<1> USE ConstantsAssumption
    DEF IInv, TypeOK, Reported, JobIds, JobState, Request, logVars, jobVars
<1> DEFINE Goal == /\ Reported'
                   /\ \A e \in Events : deliveries'[e] >= deliveries[e]
<1>same. ASSUME UNCHANGED <<logEvent, deliveries>>, ingress' \subseteq ingress,
                \A j \in JobIds : \/ jobState'[j] = "none"
                                  \/ /\ jobState[j] # "none"
                                     /\ jobEvent'[j] = jobEvent[j]
         PROVE  Goal
  BY <1>same
<1>add. ASSUME UNCHANGED <<logEvent, deliveries>>, ingress' \subseteq ingress,
               NEW k \in JobIds, NEW e \in Events, NEW body,
               AddJob(k, e, body), deliveries[e] > 0
        PROVE  Goal
  BY <1>add DEF AddJob
<1>1. ASSUME NEW e \in Events, Receive(e)
      PROVE  Goal
  <2>1. deliveries' = [deliveries EXCEPT ![e] = @ + 1] /\ UNCHANGED jobVars
    BY <1>1 DEF Receive
  <2>2. PICK l \in Logs \cup {NoLog} :
           /\ CreateWebhookLog(e, l)
           /\ ingress' = ingress \cup {[event |-> e, log |-> l]}
    BY <1>1 DEF Receive
  <2>3. \A k \in Logs : logEvent'[k] = logEvent[k] \/ logEvent'[k] = e
    BY <2>2 DEF CreateWebhookLog
  <2>4. \A f \in Events : deliveries'[f] >= deliveries[f] /\ deliveries'[f] \in Nat
    BY <2>1
  <2>5. deliveries'[e] > 0
    BY <2>1
  <2>6. \A r \in ingress' : deliveries'[r.event] > 0
    BY <2>2, <2>4, <2>5
  <2>7. \A k \in Logs : logEvent'[k] # NoEvent => deliveries'[logEvent'[k]] > 0
    BY <2>3, <2>4, <2>5
  <2>8. \A j \in JobIds : jobState'[j] # "none" => deliveries'[jobEvent'[j]] > 0
    BY <2>1, <2>4 DEF JobsLinked
  <2>9. QED
    BY <2>4, <2>6, <2>7, <2>8
<1>2. ASSUME NEW r \in ingress, Enqueue(r)
      PROVE  Goal
  <2>1. UNCHANGED <<logEvent, deliveries>> /\ ingress' \subseteq ingress
    BY <1>2 DEF Enqueue
  <2>2. PICK j \in JobIds : AddJob(j, r.event, "raw")
    BY <1>2 DEF Enqueue
  <2>3. r.event \in Events /\ deliveries[r.event] > 0
    OBVIOUS
  <2>4. QED
    BY <2>1, <2>2, <2>3, <1>add
<1>3. ASSUME NEW r \in ingress, EnqueueFails(r)
      PROVE  Goal
  BY <1>3, <1>same DEF EnqueueFails
<1>4. ASSUME NEW j \in JobIds, Pick(j)
      PROVE  Goal
  BY <1>4, <1>same DEF Pick
<1>5. ASSUME NEW j \in JobIds,
             \/ VerifyWebhook(j) \/ VerifyFails(j) \/ SkipDuplicate(j)
             \/ SkipNoPayment(j) \/ PassDuplicateCheck(j) \/ Apply(j)
             \/ MarkCompleted(j) \/ ProcessFails(j)
      PROVE  Goal
  <2>1. UNCHANGED <<logEvent, deliveries, ingress, jobVars>>
    BY <1>5 DEF VerifyWebhook, VerifyFails, SkipDuplicate, SkipNoPayment,
       PassDuplicateCheck, Apply, MarkCompleted, ProcessFails
  <2>2. QED
    BY <2>1, <1>same
<1>6. ASSUME NEW j \in JobIds, FinishOk(j) \/ FinishErr(j) \/ ExpireJob(j)
      PROVE  Goal
  <2>1. /\ UNCHANGED <<logEvent, deliveries, ingress, jobEvent>>
        /\ jobState[j] # "none" /\ \A k \in JobIds \ {j} : jobState'[k] = jobState[k]
    BY <1>6 DEF FinishOk, FinishErr, ExpireJob, JobsLinked
  <2>2. QED
    BY <2>1, <1>same
<1>7. ASSUME Crash
      PROVE  Goal
  BY <1>7, <1>same DEF Crash
<1>8. ASSUME RescueScan \/ RescueFails
      PROVE  Goal
  BY <1>8, <1>same DEF RescueScan, RescueFails
<1>9. ASSUME NEW l \in Logs, RescueAdd(l) \/ AdminEnqueue(l)
      PROVE  Goal
  <2>1. /\ UNCHANGED <<logEvent, deliveries, ingress>>
        /\ AddJob(l, logEvent[l], "stored")
    BY <1>9 DEF RescueAdd, AdminEnqueue
  <2>2. logEvent[l] \in Events /\ deliveries[logEvent[l]] > 0
    BY <1>9 DEF RescueAdd, AdminEnqueue, CallersLinked
  <2>3. QED
    BY <2>1, <2>2, <1>add
<1>10. ASSUME NEW l \in Logs,
              RescueMark(l) \/ AdminCheck(l) \/ AdminMark(l) \/ AdminFails(l)
      PROVE  Goal
  BY <1>10, <1>same DEF RescueMark, AdminCheck, AdminMark, AdminFails
<1>11. CASE UNCHANGED vars
  BY <1>11, <1>same DEF vars
<1>12. QED
  BY <1>1, <1>2, <1>3, <1>4, <1>5, <1>6, <1>7, <1>8, <1>9, <1>10, <1>11
     DEF Next, Handle

-----------------------------------------------------------------------------
(* The calls that have counted, or skipped, the redemption of their event  *)
(* and have not returned yet.                                              *)
PastCount(e) == {h \in Handlings : h[1] = e /\ stage[h] \in PastRedeem}

(* Each redemption of a purchase that a single event pays for belongs to a *)
(* call that has returned, is still past the count, or has failed.         *)
RedemptionsHaveCalls ==
    /\ redemptions \in [Purchases -> Nat]
    /\ \A e \in Events : SolePayment(e) =>
          redemptions[PurchaseOf[e]]
             <= applied[e] + Cardinality(PastCount(e)) + failures

(* The calls past the count can be counted.                                *)
LEMMA PastCountFinite ==
    ASSUME NEW e
    PROVE  IsFiniteSet(PastCount(e)) /\ Cardinality(PastCount(e)) \in Nat
<1>1. PastCount(e) \in SUBSET Handlings
  BY DEF PastCount
<1>2. QED
  BY <1>1, HandlingsFinite, FS_Subset, FS_CardinalityType

(* A set covered by two finite sets is no larger than both together.       *)
LEMMA CoveredByTwo ==
    ASSUME NEW R, NEW S, NEW T, IsFiniteSet(S), IsFiniteSet(T),
           R \subseteq S \cup T
    PROVE  Cardinality(R) <= Cardinality(S) + Cardinality(T)
<1>1. /\ IsFiniteSet(S \cup T)
      /\ Cardinality(S \cup T) =
            Cardinality(S) + Cardinality(T) - Cardinality(S \cap T)
  BY FS_Union
<1>2. IsFiniteSet(R) /\ Cardinality(R) <= Cardinality(S \cup T)
  BY <1>1, FS_Subset
<1>3. IsFiniteSet(S \cap T)
  BY FS_Subset
<1>4. /\ Cardinality(S) \in Nat /\ Cardinality(T) \in Nat
      /\ Cardinality(S \cap T) \in Nat /\ Cardinality(R) \in Nat
  BY <1>2, <1>3, FS_CardinalityType
<1>5. QED
  BY <1>1, <1>2, <1>4

(* A step that counts no redemption, and drops from the calls past the     *)
(* count only those it reports as failures, keeps the account.             *)
LEMMA NothingCounted ==
    ASSUME IInv, Link, RedemptionsHaveCalls, UNCHANGED <<redemptions, applied>>,
           \A e \in Events : SolePayment(e)' => SolePayment(e),
           NEW lost, IsFiniteSet(lost),
           failures' \in Nat, failures' >= failures + Cardinality(lost),
           \A h \in Handlings \ lost :
              stage[h] \in PastRedeem => stage'[h] \in PastRedeem
    PROVE  RedemptionsHaveCalls'
<1>1. SUFFICES ASSUME NEW e \in Events, SolePayment(e)'
               PROVE  redemptions'[PurchaseOf[e]]
                         <= applied'[e] + Cardinality(PastCount(e)') + failures'
  BY DEF RedemptionsHaveCalls
<1>2. PastCount(e)' \in SUBSET Handlings
  BY DEF PastCount
<1>3. IsFiniteSet(PastCount(e)') /\ Cardinality(PastCount(e)') \in Nat
  BY <1>2, HandlingsFinite, FS_Subset, FS_CardinalityType
<1>4. PastCount(e) \subseteq PastCount(e)' \cup lost
  BY DEF PastCount
<1>5. Cardinality(PastCount(e)) <= Cardinality(PastCount(e)') + Cardinality(lost)
  BY <1>3, <1>4, CoveredByTwo
<1>6. redemptions[PurchaseOf[e]]
         <= applied[e] + Cardinality(PastCount(e)) + failures
  BY <1>1 DEF RedemptionsHaveCalls
<1>7. /\ redemptions[PurchaseOf[e]] \in Nat /\ applied[e] \in Nat
      /\ Cardinality(lost) \in Nat /\ Cardinality(PastCount(e)) \in Nat
      /\ failures \in Nat
  BY FS_CardinalityType, PastCountFinite, PathConstants
     DEF RedemptionsHaveCalls, IInv, TypeOK, Link
<1>8. QED
  BY <1>3, <1>5, <1>6, <1>7

(* One statement of a call: it counts a redemption when it moves past the  *)
(* count, and leaves the count behind when it returns.                     *)
LEMMA WorkCounts ==
    ASSUME IInv, Link, Reported, F!IInv, RedemptionsHaveCalls,
           NEW j \in JobIds, Work(j)
    PROVE  RedemptionsHaveCalls'
<1> DEFINE h == Of(j)
           f == jobEvent[j]
<1>1. /\ j \in inside /\ pc[j] = "unique" /\ f \in Events
      /\ h \in Handlings /\ h[1] = f /\ jobState[j] = "active"
  BY InsideHandling DEF Work, Link, Of
<1>2. StepOf(h)
  BY <1>1, WorkEffect DEF Work, Link
<1>3. IF stage[h] \in Last /\ stage'[h] = "idle"
      THEN applied' = [applied EXCEPT ![f] = @ + 1] /\ UNCHANGED deliveries
      ELSE UNCHANGED <<applied, deliveries>>
  BY DEF Work, Returns, Last, Apply, vars
<1>4. \A e \in Events : SolePayment(e)' => SolePayment(e)
  BY <1>3 DEF SolePayment
<1>5. \A k \in Handlings \ {h} : stage'[k] = stage[k]
  BY <1>1, <1>2 DEF StepOf, Link
<1>6. failures' \in Nat /\ failures' >= failures /\ failures \in Nat
  BY <1>2 DEF StepOf, Link
<1>types. /\ applied \in [Events -> Nat] /\ redemptions \in [Purchases -> Nat]
          /\ stage' \in [Handlings -> F!Stage]
          /\ \A e \in Events : PurchaseOf[e] \in Purchases
  BY <1>1, <1>2, PathConstants
     DEF IInv, TypeOK, RedemptionsHaveCalls, StepOf, Link
(* A redemption is counted.                                                *)
<1>7. CASE stage[h] = "redeem" /\ stage'[h] = "uses"
  <2>1. /\ redemptions' = [redemptions EXCEPT ![PurchaseOf[f]] = @ + 1]
        /\ UNCHANGED <<applied, deliveries>>
    BY <1>1, <1>2, <1>3, <1>7 DEF StepOf, Last
  <2>2. Kind[f] = "succeeded"
    BY <1>1, <1>7 DEF F!IInv, F!StagesOfKind, F!PayStages
  <2>3. deliveries[f] > 0
    BY <1>1 DEF Reported
  <2>nat. redemptions' \in [Purchases -> Nat]
    <3>1. PurchaseOf[f] \in Purchases
      BY <1>1, PathConstants
    <3>2. redemptions[PurchaseOf[f]] + 1 \in Nat
      BY <3>1, <1>types
    <3>3. QED
      BY <2>1, <3>1, <3>2, <1>types
  <2>4. SUFFICES ASSUME NEW e \in Events, SolePayment(e)'
                 PROVE  redemptions'[PurchaseOf[e]]
                           <= applied'[e] + Cardinality(PastCount(e)') + failures'
    BY <2>nat DEF RedemptionsHaveCalls
  <2>5. redemptions[PurchaseOf[e]]
           <= applied[e] + Cardinality(PastCount(e)) + failures
    BY <2>4, <1>4 DEF RedemptionsHaveCalls
  <2>6. Cardinality(PastCount(e)) \in Nat
    BY PastCountFinite
  <2>7. CASE e = f
    <3>1. PastCount(e)' = PastCount(e) \cup {h} /\ h \notin PastCount(e)
      BY <1>1, <1>5, <1>7, <2>7 DEF PastCount, PastRedeem
    <3>2. Cardinality(PastCount(e)') = Cardinality(PastCount(e)) + 1
      BY <3>1, PastCountFinite, FS_AddElement
    <3>3. QED
      BY <2>1, <2>5, <2>6, <2>7, <3>2, <1>6, <1>types
  <2>8. CASE e # f
    <3>1. PurchaseOf[e] # PurchaseOf[f]
      BY <1>1, <2>2, <2>3, <2>4, <2>8, <1>4 DEF SolePayment
    <3>2. PastCount(e)' = PastCount(e)
      BY <1>1, <1>5, <2>8 DEF PastCount
    <3>3. QED
      BY <2>1, <2>5, <2>6, <3>1, <3>2, <1>6, <1>types
  <2>9. QED
    BY <2>7, <2>8
<1>8. CASE ~(stage[h] = "redeem" /\ stage'[h] = "uses")
  <2>1. UNCHANGED redemptions
    BY <1>2, <1>8 DEF StepOf
(* The call returns: one more effect, at most one call less.               *)
  <2>2. CASE stage[h] \in Last /\ stage'[h] = "idle"
    <3>1. applied' = [applied EXCEPT ![f] = @ + 1]
      BY <1>3, <2>2
    <3>2. SUFFICES ASSUME NEW e \in Events, SolePayment(e)'
                   PROVE  redemptions'[PurchaseOf[e]]
                             <= applied'[e] + Cardinality(PastCount(e)') + failures'
      BY <2>1, <1>types DEF RedemptionsHaveCalls
    <3>3. redemptions[PurchaseOf[e]]
             <= applied[e] + Cardinality(PastCount(e)) + failures
      BY <3>2, <1>4 DEF RedemptionsHaveCalls
    <3>4. Cardinality(PastCount(e)) \in Nat
      BY PastCountFinite
    <3>5. CASE e = f
      <4>1. PastCount(e)' = PastCount(e) \ {h}
        BY <1>1, <1>5, <2>2 DEF PastCount, PastRedeem
      <4>2. Cardinality(PastCount(e)') \in {Cardinality(PastCount(e)),
                                            Cardinality(PastCount(e)) - 1}
        BY <4>1, PastCountFinite, FS_RemoveElement
      <4>3. QED
        BY <2>1, <3>1, <3>3, <3>4, <3>5, <4>2, <1>6, <1>types
    <3>6. CASE e # f
      <4>1. PastCount(e)' = PastCount(e)
        BY <1>1, <1>5, <3>6 DEF PastCount
      <4>2. QED
        BY <2>1, <3>1, <3>3, <3>4, <3>6, <4>1, <1>6, <1>types
    <3>7. QED
      BY <3>5, <3>6
  <2>3. CASE ~(stage[h] \in Last /\ stage'[h] = "idle")
    <3>1. UNCHANGED applied
      BY <1>3, <2>3
    <3>2. \A k \in Handlings \ {} :
             stage[k] \in PastRedeem => stage'[k] \in PastRedeem
      BY <1>2, <1>5, <2>3 DEF StepOf
    <3>3. IsFiniteSet({}) /\ Cardinality({}) = 0
      BY FS_EmptySet
    <3>4. failures' >= failures + Cardinality({})
      BY <1>6, <3>3
    <3>5. QED
      BY <2>1, <3>1, <3>2, <3>3, <3>4, <1>4, <1>6, NothingCounted
  <2>4. QED
    BY <2>2, <2>3
<1>9. QED
  BY <1>7, <1>8

(* Each step of the composition keeps the account of redemptions.          *)
LEMMA RedemptionsKept ==
    ASSUME IInv, Link, Reported, F!IInv, RedemptionsHaveCalls,
           [PathNext]_pathVars
    PROVE  RedemptionsHaveCalls'
<1>sole. \A e \in Events : SolePayment(e)' => SolePayment(e)
  <2>1. \A e \in Events : deliveries'[e] >= deliveries[e]
    BY PipelineStep, ReportedStep
  <2>2. \A e \in Events : \/ deliveries[e] \in Nat /\ deliveries'[e] > 0
                         \/ ~(deliveries[e] > 0)
    BY <2>1, PipelineStep, TypeStep DEF IInv, TypeOK
  <2>3. QED
    BY <2>2 DEF SolePayment
<1>calm. ASSUME UNCHANGED <<redemptions, applied>>, failures' \in Nat,
                failures' >= failures,
                \A h \in Handlings :
                   stage[h] \in PastRedeem => stage'[h] \in PastRedeem
         PROVE  RedemptionsHaveCalls'
  <2>1. IsFiniteSet({}) /\ Cardinality({}) = 0
    BY FS_EmptySet
  <2>2. failures' >= failures + Cardinality({})
    BY <1>calm, <2>1 DEF Link
  <2>3. QED
    BY <1>calm, <1>sole, <2>1, <2>2, NothingCounted
<1>fail. ASSUME NEW some \in SUBSET Handlings, F!Fail(some), UNCHANGED applied
         PROVE  RedemptionsHaveCalls'
  <2>1. IsFiniteSet(some)
    BY HandlingsFinite, FS_Subset
  <2>2. /\ UNCHANGED redemptions /\ failures' \in Nat
        /\ failures' = failures + Cardinality(some)
        /\ \A h \in Handlings \ some : stage'[h] = stage[h]
    BY <1>fail, FailEffect
  <2>3. failures' >= failures + Cardinality(some)
    BY <2>2
  <2>4. QED
    BY <1>fail, <1>sole, <2>1, <2>2, <2>3, NothingCounted
<1>1. CASE Queue /\ UNCHANGED <<recordVars, inside>>
  BY <1>1, <1>calm, QueueStep DEF recordVars, Link
<1>2. ASSUME NEW j \in JobIds, Enter(j)
      PROVE  RedemptionsHaveCalls'
  <2>1. Of(j) \in Handlings
    BY <1>2, InsideHandling DEF Enter
  <2>2. /\ stage[Of(j)] = "idle"
        /\ stage' = [stage EXCEPT ![Of(j)] = F!FirstStage(Of(j))]
        /\ UNCHANGED <<redemptions, failures>>
    BY <1>2 DEF Enter, F!Start, F!promoVars
  <2>3. UNCHANGED applied
    BY <1>2 DEF Enter, vars
  <2>4. QED
    BY <2>1, <2>2, <2>3, <1>calm DEF Link, PastRedeem
<1>3. ASSUME NEW j \in JobIds, Work(j)
      PROVE  RedemptionsHaveCalls'
  BY <1>3, WorkCounts
<1>4. ASSUME NEW j \in JobIds, Throw(j)
      PROVE  RedemptionsHaveCalls'
  <2>1. {Of(j)} \in SUBSET Handlings
    BY <1>4, InsideHandling DEF Throw, Link
  <2>2. F!Fail({Of(j)}) /\ UNCHANGED applied
    BY <1>4 DEF Throw, vars
  <2>3. QED
    BY <2>1, <2>2, <1>fail
<1>5. ASSUME NEW j \in JobIds, Catch(j)
      PROVE  RedemptionsHaveCalls'
  BY <1>5, <1>calm DEF Catch, ProcessFails, recordVars, Link
<1>6. ASSUME WorkerDies
      PROVE  RedemptionsHaveCalls'
  <2>1. UNCHANGED applied
    BY <1>6 DEF WorkerDies, Crash
  <2>2. Running \in SUBSET Handlings
    BY InsideHandling DEF Running, Link
  <2>3. F!Fail(Running) \/ UNCHANGED recordVars
    BY <1>6 DEF WorkerDies
  <2>4. QED
    BY <2>1, <2>2, <2>3, <1>calm, <1>fail DEF recordVars, Link
<1>7. CASE Customer /\ UNCHANGED <<vars, inside>>
  BY <1>7, <1>calm, CustomerStep DEF vars
<1>8. CASE UNCHANGED pathVars
  BY <1>8, <1>calm DEF pathVars, vars, recordVars, Link
<1>9. QED
  BY <1>1, <1>2, <1>3, <1>4, <1>5, <1>6, <1>7, <1>8 DEF PathNext

(* The account is an invariant, beside all the others.                     *)
LEMMA AccountHolds ==
    PathSpec => [](IInv /\ Link /\ Reported /\ F!IInv /\ RedemptionsHaveCalls)
<1>1. PathInit => Reported /\ RedemptionsHaveCalls
  <2>1. SUFFICES ASSUME PathInit
                 PROVE  Reported /\ RedemptionsHaveCalls
    OBVIOUS
  <2>2. Reported
    BY <2>1, ConstantsAssumption DEF PathInit, Init, Reported
  <2>3. /\ redemptions = [p \in Purchases |-> 0] /\ failures = 0
        /\ applied = [e \in Events |-> 0]
    BY <2>1 DEF PathInit, Init, F!Init
  <2>4. SUFFICES ASSUME NEW e \in Events
                 PROVE  redemptions[PurchaseOf[e]]
                           <= applied[e] + Cardinality(PastCount(e)) + failures
    BY <2>2, <2>3 DEF RedemptionsHaveCalls
  <2>5. Cardinality(PastCount(e)) \in Nat /\ PurchaseOf[e] \in Purchases
    BY PastCountFinite, PathConstants
  <2>6. QED
    BY <2>3, <2>5
<1>2. IInv /\ Link /\ F!IInv /\ Reported /\ RedemptionsHaveCalls
         /\ [PathNext]_pathVars => (Reported /\ RedemptionsHaveCalls)'
  BY RedemptionsKept, PipelineStep, ReportedStep
<1>3. QED
  BY <1>1, <1>2, LinkHolds, RecordsInv, PTL DEF PathSpec

(* Without crashes and lost writes the job that holds a stable event is    *)
(* the only one in a call for it, and while it is in the call the event    *)
(* has no effect in the current window yet.                                *)
THEOREM RedemptionsInWindow == PathSpec => []CountedOncePerWindow
<1>1. IInv /\ Link /\ RedemptionsHaveCalls => CountedOncePerWindow
  <2>1. SUFFICES ASSUME IInv, Link, RedemptionsHaveCalls, Calm,
                        NEW e \in Keyed, SolePayment(e)
                 PROVE  redemptions[PurchaseOf[e]] <= 1 + forgotten[e] + failures
    BY DEF CountedOncePerWindow
  <2>2. e \in Events /\ StableId(e)
    BY ConstantsAssumption DEF Keyed
  <2>3. redemptions[PurchaseOf[e]]
           <= applied[e] + Cardinality(PastCount(e)) + failures
    BY <2>1, <2>2 DEF RedemptionsHaveCalls
  <2>4. /\ applied[e] \in Nat /\ forgotten[e] \in Nat /\ failures \in Nat
        /\ redemptions[PurchaseOf[e]] \in Nat
    BY <2>1, <2>2, PathConstants DEF IInv, TypeOK, Link, RedemptionsHaveCalls
  <2>5. /\ applied[e] <= 1 + forgotten[e]
        /\ applied[e] = 1 + forgotten[e] => \E l \in Logs : HeldBy(e, l)
    BY <2>1, <2>2 DEF IInv, EffectHeld
  <2>6. ASSUME NEW h \in PastCount(e)
        PROVE  /\ h = <<e, h[2]>> /\ h[2] \in Logs
               /\ pc[h[2]] = "unique" /\ jobState[h[2]] = "active"
               /\ logEvent[h[2]] = e
    <3>1. h \in Handlings /\ h[1] = e /\ stage[h] # "idle"
      BY DEF PastCount, PastRedeem
    <3>2. h[2] \in inside /\ h = Of(h[2])
      BY <2>1, <3>1 DEF Link
    <3>3. h[2] \in JobIds /\ pc[h[2]] = "unique"
      BY <2>1, <3>2 DEF Link
    <3>4. jobState[h[2]] = "active"
      BY <2>1, <3>3, InsideHandling
    <3>5. h[2] \in Logs
      BY <2>1, <3>3, <3>4 DEF IInv, NoAnonymousJobs, JobIds
    <3>6. h = <<h[1], h[2]>> /\ jobEvent[h[2]] = h[1]
      BY <3>1, <3>2, Pairs DEF HandlingFacts, Of
    <3>7. QED
      BY <2>1, <3>1, <3>3, <3>4, <3>5, <3>6 DEF IInv, JobsLinked
  <2>7. ASSUME NEW l \in Logs, NEW m \in Logs, logEvent[l] = e, logEvent[m] = e
        PROVE  l = m
    <3>1. eventId[l] = VerifiedId[e] /\ eventId[m] = VerifiedId[e]
      BY <2>1, <2>2, <2>7, ConstantsAssumption DEF IInv, RowsLinked, StableId
    <3>2. VerifiedId[e] # NoId
      BY <2>2, ConstantsAssumption
    <3>3. QED
      BY <2>1, <3>1, <3>2 DEF IInv, IdsUnique
  <2>8. CASE PastCount(e) = {}
    <3>1. Cardinality(PastCount(e)) = 0
      BY <2>8, FS_EmptySet
    <3>2. QED
      BY <2>3, <2>4, <2>5, <3>1
  <2>9. CASE PastCount(e) # {}
    <3>1. PICK h \in PastCount(e) : TRUE
      BY <2>9
    <3>2. PastCount(e) = {h}
      BY <2>6, <2>7, <3>1
    <3>3. Cardinality(PastCount(e)) = 1
      BY <3>2, FS_Singleton
    <3>4. ~ \E l \in Logs : HeldBy(e, l)
      BY <2>6, <2>7, <3>1 DEF HeldBy
    <3>5. applied[e] <= forgotten[e]
      BY <2>4, <2>5, <3>4
    <3>6. QED
      BY <2>3, <2>4, <3>3, <3>5
  <2>10. QED
    BY <2>8, <2>9
<1>2. QED
  BY <1>1, AccountHolds, PTL

(* The ownership of the changes of a license, read on both sides.          *)
LEMMA SameOwners == FP!OnlyOwnLicense => F!OnlyOwnLicense
<1>1. \A u : FP!ByItsOwner(u) => F!ByItsOwner(u)
  BY Zenon
     DEF F!ByItsOwner, FP!ByItsOwner, F!AutoLicense, FP!AutoLicense,
         F!WriteLicense, FP!WriteLicense, F!SetStatus, FP!SetStatus,
         F!NewStatus, FP!NewStatus, F!Move, FP!Move, F!Fault, FP!Fault,
         F!DropCache, FP!DropCache, F!BuyerOf, FP!BuyerOf,
         F!purchaseVars, FP!purchaseVars, F!promoVars, FP!promoVars,
         F!historyVars, FP!historyVars, F!runVars, FP!runVars,
         F!localVars, FP!localVars, F!readVars, FP!readVars,
         F!cacheVars, FP!cacheVars, F!subVars, FP!subVars,
         F!Concerned, FP!Concerned
<1>2. UNCHANGED FP!vars => UNCHANGED F!vars
  BY DEF F!purchaseVars, FP!purchaseVars, F!subVars, FP!subVars, F!promoVars,
         FP!promoVars, F!historyVars, FP!historyVars, F!runVars, FP!runVars,
         F!localVars, FP!localVars, F!readVars, FP!readVars, F!cacheVars,
         FP!cacheVars, F!vars, FP!vars
<1>3. [\A u \in Users : license'[u] # license[u] => FP!ByItsOwner(u)]_FP!vars
      => [\A u \in Users : license'[u] # license[u] => F!ByItsOwner(u)]_F!vars
  BY <1>1, <1>2
<1>4. QED
  BY <1>3, PTL DEF F!OnlyOwnLicense, FP!OnlyOwnLicense

(* No event of one customer changes the license of another, except through *)
(* the email fallback, whichever job of the queue runs it.                 *)
THEOREM OwnLicenseThroughQueue == PathSpec => F!OnlyOwnLicense
<1>1. FP!Spec => FP!OnlyOwnLicense
  BY FP!LicenseIsOwn, HandlingConstants, HandlingIds, HandlingsFew, Zenon
<1>2. QED
  BY <1>1, SameSpec, SameOwners, PathIsFulfilment, PTL

-----------------------------------------------------------------------------
(* A handler that has verified its job works on a genuine event, and in    *)
(* processWebhookEvent on a payment event.                                 *)
Vetted ==
    \A j \in JobIds :
        /\ pc[j] \in {"started", "unique"} => jobEvent[j] \in Genuine
        /\ pc[j] = "unique" => jobEvent[j] \in Payment

(* Between verification and the end of the call a job keeps its event.     *)
LEMMA VettedStep ==
    ASSUME IInv, Vetted, [Next]_vars
    PROVE  Vetted'
<1>types. /\ pc \in [JobIds -> Stage] /\ jobState \in [JobIds -> JobState]
          /\ jobEvent \in [JobIds -> Events \cup {NoEvent}]
          /\ \A j \in JobIds : pc[j] # "idle" => jobState[j] = "active"
  BY DEF IInv, TypeOK, JobsLinked
<1>same. ASSUME \A j \in JobIds :
                   \/ pc'[j] \notin {"started", "unique"}
                   \/ pc'[j] = pc[j] /\ jobEvent'[j] = jobEvent[j]
         PROVE  Vetted'
  BY <1>same DEF Vetted
<1>add. ASSUME NEW k, NEW e, NEW body, AddJob(k, e, body), UNCHANGED pc
        PROVE  Vetted'
  BY <1>add, <1>types, <1>same DEF AddJob, jobVars
<1>1. ASSUME NEW e \in Events, Receive(e)
      PROVE  Vetted'
  BY <1>1, <1>same DEF Receive, jobVars
<1>2. ASSUME NEW r \in ingress, Enqueue(r)
      PROVE  Vetted'
  BY <1>2, <1>add DEF Enqueue
<1>3. ASSUME NEW r \in ingress, EnqueueFails(r)
      PROVE  Vetted'
  BY <1>3, <1>same DEF EnqueueFails, jobVars
<1>4. ASSUME NEW j \in JobIds, Pick(j)
      PROVE  Vetted'
  BY <1>4, <1>types, <1>same DEF Pick
<1>5. ASSUME NEW j \in JobIds, VerifyWebhook(j)
      PROVE  Vetted'
  BY <1>5, <1>types DEF VerifyWebhook, Verifies, Vetted, jobVars
<1>6. ASSUME NEW j \in JobIds, PassDuplicateCheck(j)
      PROVE  Vetted'
  BY <1>6, <1>types DEF PassDuplicateCheck, Vetted, jobVars
<1>7. ASSUME NEW j \in JobIds,
             \/ VerifyFails(j) \/ SkipDuplicate(j) \/ SkipNoPayment(j)
             \/ Apply(j) \/ MarkCompleted(j) \/ ProcessFails(j)
      PROVE  Vetted'
  <2>1. PICK s \in {"ok", "err", "applied"} : pc' = [pc EXCEPT ![j] = s]
    BY <1>7 DEF VerifyFails, SkipDuplicate, SkipNoPayment, Apply,
       MarkCompleted, ProcessFails
  <2>2. UNCHANGED jobEvent
    BY <1>7 DEF VerifyFails, SkipDuplicate, SkipNoPayment, Apply,
       MarkCompleted, ProcessFails, jobVars
  <2>3. QED
    BY <2>1, <2>2, <1>types, <1>same
<1>8. ASSUME NEW j \in JobIds, FinishOk(j) \/ FinishErr(j) \/ ExpireJob(j)
      PROVE  Vetted'
  BY <1>8, <1>types, <1>same DEF FinishOk, FinishErr, ExpireJob
<1>9. ASSUME Crash
      PROVE  Vetted'
  BY <1>9, <1>same DEF Crash
<1>10. ASSUME RescueScan \/ RescueFails
       PROVE  Vetted'
  BY <1>10, <1>same DEF RescueScan, RescueFails, jobVars
<1>11. ASSUME NEW l \in Logs, RescueAdd(l) \/ AdminEnqueue(l)
       PROVE  Vetted'
  BY <1>11, <1>add DEF RescueAdd, AdminEnqueue
<1>12. ASSUME NEW l \in Logs,
              RescueMark(l) \/ AdminCheck(l) \/ AdminMark(l) \/ AdminFails(l)
       PROVE  Vetted'
  BY <1>12, <1>same DEF RescueMark, AdminCheck, AdminMark, AdminFails, jobVars
<1>13. CASE UNCHANGED vars
  BY <1>13, <1>same DEF vars, jobVars
<1>14. QED
  BY <1>1, <1>2, <1>3, <1>4, <1>5, <1>6, <1>7, <1>8, <1>9, <1>10, <1>11,
     <1>12, <1>13 DEF Next, Handle

(* Only three statements of processWebhookEvent write a license or a       *)
(* transaction.                                                            *)
LEMMA RecordEffect ==
    ASSUME NEW h, F!Fulfil(h) \/ F!Transition(h)
    PROVE  \/ UNCHANGED <<license, txnUser>>
           \/ F!WriteLicense(h) \/ F!RecordTransaction(h) \/ F!SetStatus(h)
<1>1. CASE F!WritePurchase(h) \/ F!FindLicense(h) \/ F!LinkPurchase(h)
  BY <1>1 DEF F!WritePurchase, F!FindLicense, F!LinkPurchase
<1>2. CASE \/ F!Redeem(h) \/ F!IncrementUses(h) \/ F!IncrementRedemptions(h)
           \/ F!RedemptionFails(h) \/ F!FindSubscription(h)
  BY <1>2 DEF F!Redeem, F!IncrementUses, F!IncrementRedemptions,
     F!RedemptionFails, F!FindSubscription
<1>3. CASE \/ F!UpsertSubscription(h) \/ F!Announce(h) \/ F!WriteHistory(h)
           \/ F!FinishPayment(h)
  BY <1>3 DEF F!UpsertSubscription, F!Announce, F!WriteHistory, F!FinishPayment
<1>4. CASE \/ F!MarkPurchaseFailed(h) \/ F!FindOwner(h) \/ F!NoteStatus(h)
           \/ F!ForgetStatus(h) \/ F!TellApp(h)
  BY <1>4 DEF F!MarkPurchaseFailed, F!FindOwner, F!NoteStatus, F!ForgetStatus,
     F!TellApp
<1>5. QED
  BY <1>1, <1>2, <1>3, <1>4 DEF F!Fulfil, F!Transition

(* No step but a delivery reports anything.                                *)
LEMMA ReportEffect ==
    ASSUME IInv, [Next]_vars
    PROVE  UNCHANGED Reports \/ \E e \in Genuine \cap Payment : Reports' = Reports \cup {e}
<1>types. deliveries \in [Events -> Nat] /\ Genuine \subseteq Events
  BY ConstantsAssumption DEF IInv, TypeOK
<1>1. ASSUME NEW e \in Events, Receive(e)
      PROVE  UNCHANGED Reports \/ \E f \in Genuine \cap Payment : Reports' = Reports \cup {f}
  <2>1. deliveries' = [deliveries EXCEPT ![e] = @ + 1]
    BY <1>1 DEF Receive
  <2>2. CASE e \in Genuine \cap Payment
    BY <2>1, <2>2, <1>types DEF Reports
  <2>3. CASE e \notin Genuine \cap Payment
    BY <2>1, <2>3, <1>types DEF Reports
  <2>4. QED
    BY <2>2, <2>3
<1>2. ASSUME UNCHANGED deliveries
      PROVE  UNCHANGED Reports
  BY <1>2 DEF Reports
<1>3. (\E e \in Events : Receive(e)) \/ UNCHANGED deliveries
  BY DEF Next, Handle, Enqueue, EnqueueFails, Pick, VerifyWebhook, VerifyFails,
     SkipDuplicate, SkipNoPayment, PassDuplicateCheck, Apply, MarkCompleted,
     ProcessFails, FinishOk, FinishErr, ExpireJob, Crash, RescueScan,
     RescueFails, RescueAdd, RescueMark, AdminCheck, AdminMark, AdminEnqueue,
     AdminFails, vars
<1>4. QED
  BY <1>1, <1>2, <1>3

(* One statement of a call, as a step of the promise.                      *)
LEMMA WorkKeepsPromise ==
    ASSUME IInv, Link, Reported, Vetted, F!IInv, NEW j \in JobIds, Work(j)
    PROVE  Promise!Next \/ UNCHANGED <<license, Paid, Reports>>
<1> DEFINE h == Of(j)
           e == jobEvent[j]
           u == Buyer[PurchaseOf[e]]
<1>1. /\ pc[j] = "unique" /\ e \in Events /\ jobState[j] = "active"
      /\ h \in Handlings /\ h[1] = e
  BY InsideHandling DEF Work, Link, Of
<1>2. e \in Genuine \cap Payment /\ deliveries[e] > 0 /\ e \in Reports
  BY <1>1 DEF Vetted, Reported, Reports
<1>3. UNCHANGED Reports
  BY DEF Work, Apply, Reports, vars
<1>4. u \in Users /\ NoUser \notin Users
  BY <1>1, PathConstants
<1>5. /\ F!BuyerOf(h) = u /\ F!Concerned(h) = Concerns[e]
      /\ u \in Concerns[e]
  BY <1>1, Zenon DEF F!BuyerOf, F!Concerned, Concerns
<1>6. license \in [Users -> F!LicenseStatus] /\ txnUser \in [Txns -> Users \cup {NoUser}]
  BY DEF F!IInv, F!TypeOK
<1>7. CASE UNCHANGED <<license, txnUser>>
  BY <1>3, <1>7 DEF Paid
<1>8. CASE F!WriteLicense(h)
  <2>1. Kind[e] = "succeeded"
    BY <1>1, <1>8 DEF F!WriteLicense, F!Move, F!IInv, F!StagesOfKind, F!PayStages
  <2>2. StatusAfter[e] = "active"
    BY <1>1, <2>1 DEF StatusAfter
  <2>3. license' = [license EXCEPT ![u] = StatusAfter[e]] /\ UNCHANGED txnUser
    BY <1>5, <1>8, <2>2 DEF F!WriteLicense
  <2>4. Promise!Take(e, u)
    BY <1>2, <1>3, <1>5, <2>2, <2>3 DEF Promise!Take, Paid
  <2>5. QED
    BY <1>2, <1>4, <2>4 DEF Promise!Next
<1>9. CASE F!SetStatus(h)
  <2>1. stage[h] = "set"
    BY <1>9 DEF F!SetStatus, F!Move
  <2>2. Kind[e] \in {"canceled", "failed", "refunded"}
    BY <1>1, <2>1, PathConstants DEF F!IInv, F!StagesOfKind, F!PayStages
  <2>3. F!NewStatus(h) = StatusAfter[e]
    BY <1>1, <2>2 DEF F!NewStatus, StatusAfter
  <2>4. target[h] \in Concerns[e] /\ license[target[h]] # "none"
    BY <1>1, <1>5, <2>1 DEF F!IInv, F!TargetOwn
  <2>5. target[h] \in Users
    BY <1>1, <1>4, <2>4, PathConstants DEF Concerns
  <2>6. license' = [license EXCEPT ![target[h]] = StatusAfter[e]] /\ UNCHANGED txnUser
    BY <1>9, <2>3 DEF F!SetStatus
  <2>7. Promise!Take(e, target[h])
    BY <1>2, <1>3, <2>4, <2>6 DEF Promise!Take, Paid
  <2>8. QED
    BY <1>2, <2>5, <2>7 DEF Promise!Next
<1>10. CASE F!RecordTransaction(h)
  <2>1. stage[h] = "txn"
    BY <1>10 DEF F!RecordTransaction, F!Move
  <2>2. Kind[e] = "succeeded"
    BY <1>1, <2>1 DEF F!IInv, F!StagesOfKind, F!PayStages
  <2>3. StatusAfter[e] = "active"
    BY <1>1, <2>2 DEF StatusAfter
  <2>4. license[u] # "none" /\ UNCHANGED license
    BY <1>1, <1>5, <1>10, <2>1
       DEF F!IInv, F!RecordsOnTheWay, F!OnTheWay, F!AfterLicense, F!PayStages,
           F!RecordTransaction
  <2>5. \/ UNCHANGED txnUser
        \/ \E t \in Txns : /\ txnUser[t] = NoUser
                           /\ txnUser' = [txnUser EXCEPT ![t] = u]
    <3>1. TxnOf[e] \in Txns
      BY <1>1, PathConstants
    <3>2. txnUser' = IF txnUser[TxnOf[e]] = NoUser
                     THEN [txnUser EXCEPT ![TxnOf[e]] = u] ELSE txnUser
      BY <1>1, <1>5, <1>10 DEF F!RecordTransaction
    <3>3. QED
      BY <3>1, <3>2
  <2>6. Paid' = Paid \/ Paid' = Paid \cup {u}
    BY <1>4, <1>6, <2>5 DEF Paid
  <2>7. CASE Paid' = Paid
    BY <1>3, <2>4, <2>7
  <2>8. CASE Paid' = Paid \cup {u}
    <3>1. Promise!Pay(e, u)
      BY <1>2, <1>3, <1>5, <2>3, <2>4, <2>8 DEF Promise!Pay
    <3>2. QED
      BY <1>2, <1>4, <3>1 DEF Promise!Next
  <2>9. QED
    BY <2>6, <2>7, <2>8
<1>11. F!Fulfil(h) \/ F!Transition(h)
  BY DEF Work
<1>12. QED
  BY <1>7, <1>8, <1>9, <1>10, <1>11, RecordEffect

(* Every step of the composition is one of the promise, or leaves it.      *)
LEMMA PromiseKept ==
    ASSUME IInv, Link, Reported, Vetted, F!IInv, [PathNext]_pathVars
    PROVE  [Promise!Next]_<<license, Paid, Reports>>
<1> DEFINE Kept == Promise!Next \/ UNCHANGED <<license, Paid, Reports>>
<1>calm. ASSUME UNCHANGED <<license, txnUser, deliveries>>
         PROVE  Kept
  BY <1>calm DEF Paid, Reports
<1>fail. ASSUME NEW some, F!Fail(some), UNCHANGED deliveries
         PROVE  Kept
  BY <1>fail, <1>calm DEF F!Fail
<1>1. CASE Queue /\ UNCHANGED <<recordVars, inside>>
  <2>1. UNCHANGED <<license, Paid>>
    BY <1>1 DEF recordVars, Paid
  <2>2. CASE UNCHANGED Reports
    BY <2>1, <2>2
  <2>3. ASSUME NEW e \in Genuine \cap Payment, Reports' = Reports \cup {e}
        PROVE  Kept
    <3>1. Promise!Report(e)
      BY <2>1, <2>3 DEF Promise!Report
    <3>2. QED
      BY <3>1 DEF Promise!Next
  <2>4. QED
    BY <2>2, <2>3, PipelineStep, ReportEffect
<1>2. ASSUME NEW j \in JobIds, Enter(j)
      PROVE  Kept
  BY <1>2, <1>calm DEF Enter, F!Start, vars
<1>3. ASSUME NEW j \in JobIds, Work(j)
      PROVE  Kept
  BY <1>3, WorkKeepsPromise
<1>4. ASSUME NEW j \in JobIds, Throw(j)
      PROVE  Kept
  BY <1>4, <1>fail DEF Throw, vars
<1>5. ASSUME NEW j \in JobIds, Catch(j)
      PROVE  Kept
  BY <1>5, <1>calm DEF Catch, ProcessFails, recordVars
<1>6. ASSUME WorkerDies
      PROVE  Kept
  <2>1. UNCHANGED deliveries /\ (UNCHANGED recordVars \/ F!Fail(Running))
    BY <1>6 DEF WorkerDies, Crash
  <2>2. QED
    BY <2>1, <1>calm, <1>fail DEF recordVars
<1>7. CASE Customer /\ UNCHANGED <<vars, inside>>
  <2>1. UNCHANGED deliveries
    BY <1>7 DEF vars
  <2>2. ASSUME NEW p \in Purchases, F!OpenCheckout(p) \/ F!RecordCheckout(p)
        PROVE  Kept
    BY <2>1, <2>2, <1>calm DEF F!OpenCheckout, F!RecordCheckout
  <2>3. ASSUME NEW s \in Subs, F!UserCancel(s) \/ F!UserResume(s)
        PROVE  Kept
    BY <2>1, <2>3, <1>calm DEF F!UserCancel, F!UserResume
  <2>4. ASSUME NEW u \in Users,
               F!ReadLicense(u) \/ F!FillCache(u) \/ F!ExpireCache(u)
        PROVE  Kept
    BY <2>1, <2>4, <1>calm DEF F!ReadLicense, F!FillCache, F!ExpireCache
  <2>5. ASSUME NEW u \in Users, F!AutoLicense(u)
        PROVE  Kept
    <3>1. UNCHANGED <<Paid, Reports>>
      BY <2>1, <2>5 DEF F!AutoLicense, Paid, Reports
    <3>2. Promise!Login(u)
      BY <2>5, <3>1 DEF F!AutoLicense, Promise!Login
    <3>3. QED
      BY <3>2 DEF Promise!Next
  <2>6. QED
    BY <1>7, <2>2, <2>3, <2>4, <2>5 DEF Customer
<1>8. CASE UNCHANGED pathVars
  BY <1>8, <1>calm DEF pathVars, vars, recordVars
<1>9. QED
  BY <1>1, <1>2, <1>3, <1>4, <1>5, <1>6, <1>7, <1>8 DEF PathNext

(* From a customer's login and the provider's signature to the license and *)
(* the transaction on record: the composed system implements PaidLicense.  *)
THEOREM PromiseHolds == PathSpec => ImplementsPromise
<1>1. PathInit => Promise!Init /\ Vetted
  <2>1. SUFFICES ASSUME PathInit
                 PROVE  Promise!Init /\ Vetted
    OBVIOUS
  <2>2. /\ deliveries = [e \in Events |-> 0] /\ pc = [j \in JobIds |-> "idle"]
        /\ license = [u \in Users |-> "none"]
        /\ txnUser = [t \in Txns |-> NoUser]
    BY <2>1 DEF PathInit, Init, F!Init
  <2>3. Reports = {} /\ Paid = {}
    BY <2>2, ConstantsAssumption DEF Reports, Paid
  <2>4. QED
    BY <2>2, <2>3 DEF Promise!Init, Vetted
<1>2. IInv /\ Vetted /\ [PathNext]_pathVars => Vetted'
  BY PipelineStep, VettedStep
<1>3. IInv /\ Link /\ F!IInv /\ Reported /\ Vetted /\ [PathNext]_pathVars
         => [Promise!Next]_<<license, Paid, Reports>>
  BY PromiseKept
<1>4. QED
  BY <1>1, <1>2, <1>3, AccountHolds, PTL DEF PathSpec, ImplementsPromise, Promise!Spec

=============================================================================
