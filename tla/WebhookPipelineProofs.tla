------------------------ MODULE WebhookPipelineProofs ------------------------
(* Theorems about WebhookPipeline, for every value of its constants.       *)
EXTENDS WebhookPipeline, TLAPS

(* queue.add changes at most the job it names, and only while Redis holds  *)
(* no job of that id.                                                      *)
LEMMA AddJobEffect ==
    ASSUME TypeOK, NEW j \in JobIds, NEW e \in Events \cup {NoEvent},
           NEW body \in {"raw", "stored"}, AddJob(j, e, body)
    PROVE  /\ jobState' \in [JobIds -> JobState]
           /\ jobEvent' \in [JobIds -> Events \cup {NoEvent}]
           /\ jobBody' \in [JobIds -> {"raw", "stored"}]
           /\ attempts' \in [JobIds -> Nat]
           /\ stalls' \in [JobIds -> Nat]
           /\ \A k \in JobIds :
                 \/ jobState'[k] = jobState[k] /\ jobEvent'[k] = jobEvent[k]
                 \/ /\ k = j /\ jobState[j] = "none"
                    /\ jobState'[j] = "waiting" /\ jobEvent'[j] = e
<1>1. CASE jobState[j] = "none"
  <2>1. /\ jobState' = [jobState EXCEPT ![j] = "waiting"]
        /\ jobEvent' = [jobEvent EXCEPT ![j] = e]
        /\ jobBody' = [jobBody EXCEPT ![j] = body]
        /\ attempts' = [attempts EXCEPT ![j] = 0]
        /\ stalls' = [stalls EXCEPT ![j] = 0]
    BY <1>1 DEF AddJob
  <2>2. QED
    BY <1>1, <2>1 DEF TypeOK, JobState
<1>2. CASE jobState[j] # "none"
  BY <1>2 DEF AddJob, jobVars, TypeOK
<1>3. QED
  BY <1>1, <1>2

(* Every step keeps the types; the job links tell which jobs carry events. *)
LEMMA TypeStep ==
    ASSUME IInv, [Next]_vars
    PROVE  TypeOK'
<1>a. TypeOK /\ JobsLinked
  BY DEF IInv
<1> USE <1>a, ConstantsAssumption
    DEF TypeOK, JobIds, Status, Stage, JobState, Request
<1> USE DEF logVars, jobVars, cronVars, Fault
<1>1. ASSUME NEW e \in Events, Receive(e) PROVE TypeOK'
  BY <1>1 DEF Receive, CreateWebhookLog
<1>2. ASSUME NEW r \in ingress, Enqueue(r) PROVE TypeOK'
  <2>1. PICK j \in JobIds : AddJob(j, r.event, "raw")
    BY <1>2 DEF Enqueue
  <2>2. r.event \in Events
    OBVIOUS
  <2>3. /\ jobState' \in [JobIds -> JobState]
        /\ jobEvent' \in [JobIds -> Events \cup {NoEvent}]
        /\ jobBody' \in [JobIds -> {"raw", "stored"}]
        /\ attempts' \in [JobIds -> Nat]
        /\ stalls' \in [JobIds -> Nat]
    BY <2>1, <2>2, AddJobEffect
  <2>4. QED
    BY <1>2, <2>2, <2>3 DEF Enqueue
<1>3. ASSUME NEW r \in ingress, EnqueueFails(r) PROVE TypeOK'
  BY <1>3 DEF EnqueueFails
<1>4. ASSUME NEW j \in JobIds, Pick(j) PROVE TypeOK'
  BY <1>4 DEF Pick, Mark
<1>5. ASSUME NEW j \in JobIds, Handle(j) PROVE TypeOK'
  <2>1. CASE VerifyWebhook(j)
    <3>1. VerifiedId[jobEvent[j]] \in Ids
      BY <2>1 DEF VerifyWebhook, Verifies
    <3>2. /\ status' \in [Logs -> Status]
          /\ eventId' \in [Logs -> Ids \cup {NoId}]
          /\ faults' \in Nat
      <4>1. MarkProcessingStarted(j)
        BY <2>1 DEF VerifyWebhook
      <4>2. QED
        BY <3>1, <4>1 DEF MarkProcessingStarted
    <3>3. pc' \in [JobIds -> Stage]
      BY <2>1 DEF VerifyWebhook
    <3>4. QED
      BY <2>1, <3>2, <3>3 DEF VerifyWebhook
  <2>2. CASE VerifyFails(j)
    BY <2>2 DEF VerifyFails, Mark
  <2>3. CASE SkipDuplicate(j) \/ SkipNoPayment(j) \/ PassDuplicateCheck(j)
    BY <2>3 DEF SkipDuplicate, SkipNoPayment, PassDuplicateCheck, Mark
  <2>4. CASE Apply(j)
    <3>1. applied' \in [Events -> Nat]
      <4>1. applied' = [applied EXCEPT ![jobEvent[j]] = @ + 1]
        BY <2>4 DEF Apply
      <4>2. CASE jobEvent[j] \in Events
        BY <4>1, <4>2
      <4>3. CASE jobEvent[j] \notin Events
        BY <4>1, <4>3
      <4>4. QED
        BY <4>2, <4>3
    <3>2. /\ pc' \in [JobIds -> Stage]
          /\ UNCHANGED <<logVars, jobVars, ingress, deliveries, acked,
                         forgotten, cronVars, admin, crashes, faults>>
      BY <2>4 DEF Apply
    <3>3. QED
      BY <3>1, <3>2
  <2>5. CASE MarkCompleted(j) \/ ProcessFails(j)
    BY <2>5 DEF MarkCompleted, ProcessFails, Mark
  <2>6. CASE FinishOk(j) \/ FinishErr(j)
    BY <2>6 DEF FinishOk, FinishErr
  <2>7. QED
    BY <1>5, <2>1, <2>2, <2>3, <2>4, <2>5, <2>6 DEF Handle
<1>6. ASSUME NEW j \in JobIds, ExpireJob(j) PROVE TypeOK'
  <2>1. jobEvent[j] \in Events
    BY <1>6 DEF ExpireJob, JobsLinked
  <2>2. QED
    BY <1>6, <2>1 DEF ExpireJob
<1>7. CASE Crash
  BY <1>7 DEF Crash
<1>8. CASE RescueScan \/ RescueFails
  BY <1>8 DEF RescueScan, RescueFails
<1>9. ASSUME NEW l \in Logs, RescueAdd(l) \/ RescueMark(l) PROVE TypeOK'
  <2>1. CASE RescueAdd(l)
    <3>1. AddJob(l, logEvent[l], "stored")
      BY <2>1 DEF RescueAdd
    <3>2. /\ jobState' \in [JobIds -> JobState]
          /\ jobEvent' \in [JobIds -> Events \cup {NoEvent}]
          /\ jobBody' \in [JobIds -> {"raw", "stored"}]
          /\ attempts' \in [JobIds -> Nat]
          /\ stalls' \in [JobIds -> Nat]
      BY <3>1, AddJobEffect
    <3>3. QED
      BY <2>1, <3>2 DEF RescueAdd
  <2>2. CASE RescueMark(l)
    BY <2>2 DEF RescueMark
  <2>3. QED
    BY <1>9, <2>1, <2>2
<1>10. ASSUME NEW l \in Logs,
              AdminCheck(l) \/ AdminMark(l) \/ AdminEnqueue(l) \/ AdminFails(l)
       PROVE TypeOK'
  <2>1. CASE AdminCheck(l) \/ AdminMark(l) \/ AdminFails(l)
    BY <2>1 DEF AdminCheck, AdminMark, AdminFails
  <2>2. CASE AdminEnqueue(l)
    <3>1. AddJob(l, logEvent[l], "stored")
      BY <2>2 DEF AdminEnqueue
    <3>2. /\ jobState' \in [JobIds -> JobState]
          /\ jobEvent' \in [JobIds -> Events \cup {NoEvent}]
          /\ jobBody' \in [JobIds -> {"raw", "stored"}]
          /\ attempts' \in [JobIds -> Nat]
          /\ stalls' \in [JobIds -> Nat]
      BY <3>1, AddJobEffect
    <3>3. QED
      BY <2>2, <3>2 DEF AdminEnqueue
  <2>3. QED
    BY <1>10, <2>1, <2>2
<1>11. CASE UNCHANGED vars
  BY <1>11 DEF vars
<1>12. QED
  BY <1>1, <1>2, <1>3, <1>4, <1>5, <1>6, <1>7, <1>8, <1>9, <1>10, <1>11
  DEF Next

(* Every step keeps what the unique key of webhook_logs and the job ids    *)
(* tie together: rows and their ids, jobs and their rows, and the rows     *)
(* that requests, rescues and operators hold.                              *)
LEMMA LinkStep ==
    ASSUME IInv, [Next]_vars
    PROVE  /\ RowsLinked' /\ IdsUnique'
           /\ JobsLinked' /\ CallersLinked'
<1> DEFINE Links == RowsLinked /\ IdsUnique /\ JobsLinked /\ CallersLinked
<1>a. TypeOK /\ Links
  BY DEF IInv
<1> USE <1>a, ConstantsAssumption, IdsAssumption
    DEF TypeOK, JobIds, Status, Stage, JobState, Request,
        RowsLinked, IdsUnique, JobsLinked, CallersLinked,
        logVars, jobVars, cronVars
<1>1. ASSUME NEW e \in Events, Receive(e) PROVE Links'
  <2>1. PICK l \in Logs \cup {NoLog} :
           /\ CreateWebhookLog(e, l)
           /\ ingress' = ingress \cup {[event |-> e, log |-> l]}
    BY <1>1 DEF Receive
  <2>2. UNCHANGED <<jobVars, pc, cronVars, admin>>
    BY <1>1 DEF Receive
  <2>3. CASE /\ RowsWithId(IngressId[e]) = {}
             /\ l \in Logs
             /\ logEvent[l] = NoEvent
             /\ logEvent' = [logEvent EXCEPT ![l] = e]
             /\ eventId' = [eventId EXCEPT ![l] = IngressId[e]]
             /\ status' = [status EXCEPT ![l] = "not_started"]
    BY <2>1, <2>2, <2>3 DEF RowsWithId
  <2>4. CASE l \in RowsWithId(IngressId[e]) /\ UNCHANGED logVars
    <3>1. logEvent[l] = e
      BY <2>4 DEF RowsWithId
    <3>2. QED
      BY <2>1, <2>2, <2>4, <3>1 DEF RowsWithId
  <2>5. CASE l = NoLog /\ UNCHANGED logVars
    BY <2>1, <2>2, <2>5
  <2>6. QED
    BY <2>1, <2>3, <2>4, <2>5 DEF CreateWebhookLog
<1>2. ASSUME NEW r \in ingress, Enqueue(r) PROVE Links'
  <2>1. r.event \in Events /\ r.log \in Logs \cup {NoLog}
    OBVIOUS
  <2>2. ingress' \subseteq ingress /\ UNCHANGED <<logVars, pc, cronVars, admin>>
    BY <1>2 DEF Enqueue
  <2>3. PICK j \in JobIds : /\ AddJob(j, r.event, "raw")
                            /\ j \in Logs => logEvent[j] = r.event
    BY <1>2, <2>1 DEF Enqueue
  <2>4. \A k \in JobIds :
           \/ jobState'[k] = jobState[k] /\ jobEvent'[k] = jobEvent[k]
           \/ /\ k = j /\ jobState[j] = "none"
              /\ jobState'[j] = "waiting" /\ jobEvent'[j] = r.event
    BY <2>1, <2>3, AddJobEffect
  <2>5. RowsLinked'
    BY <2>1, <2>2, <2>3, <2>4
  <2>6. JobsLinked'
    <3>1. SUFFICES ASSUME NEW k \in JobIds
                   PROVE  /\ jobState'[k] # "none" =>
                                /\ jobEvent'[k] \in Events
                                /\ k \in Logs => jobEvent'[k] = logEvent'[k]
                          /\ pc'[k] # "idle" <=> jobState'[k] = "active"
      OBVIOUS
    <3>2. CASE jobState'[k] = jobState[k] /\ jobEvent'[k] = jobEvent[k]
      BY <2>2, <3>2
    <3>3. CASE /\ k = j /\ jobState[j] = "none"
               /\ jobState'[j] = "waiting" /\ jobEvent'[j] = r.event
      BY <2>1, <2>2, <2>3, <3>3
    <3>4. QED
      BY <2>4, <3>2, <3>3
  <2>7. QED
    BY <2>2, <2>5, <2>6
<1>3. ASSUME NEW r \in ingress, EnqueueFails(r) PROVE Links'
  BY <1>3 DEF EnqueueFails
<1>4. ASSUME NEW j \in JobIds, Pick(j) PROVE Links'
  BY <1>4 DEF Pick, Mark
<1>5. ASSUME NEW j \in JobIds, Handle(j) PROVE Links'
  <2>1. CASE VerifyWebhook(j)
    <3>1. /\ UNCHANGED <<logEvent, retries, jobVars, ingress, cronVars, admin>>
          /\ pc' = [pc EXCEPT ![j] = "started"]
          /\ pc[j] = "picked"
      BY <2>1 DEF VerifyWebhook
    <3>2. MarkProcessingStarted(j) /\ jobEvent[j] \in Events
      BY <2>1 DEF VerifyWebhook, Verifies
    <3>3. CASE UNCHANGED <<status, eventId>>
      BY <3>1, <3>3
    <3>4. CASE /\ j \in Logs
               /\ RowsWithId(VerifiedId[jobEvent[j]]) \subseteq {j}
               /\ status' = [status EXCEPT ![j] = "processing"]
               /\ eventId' = [eventId EXCEPT ![j] = VerifiedId[jobEvent[j]]]
      <4>1. logEvent[j] = jobEvent[j]
        BY <3>1, <3>4
      <4>2. IdsUnique'
        BY <3>2, <3>4 DEF RowsWithId
      <4>3. RowsLinked'
        BY <3>1, <3>2, <3>4, <4>1
      <4>4. QED
        BY <3>1, <4>2, <4>3
    <3>5. QED
      BY <3>2, <3>3, <3>4 DEF MarkProcessingStarted
  <2>2. CASE VerifyFails(j)
    BY <2>2 DEF VerifyFails, Mark
  <2>3. CASE SkipDuplicate(j) \/ SkipNoPayment(j) \/ PassDuplicateCheck(j)
    BY <2>3 DEF SkipDuplicate, SkipNoPayment, PassDuplicateCheck, Mark
  <2>4. CASE Apply(j)
    BY <2>4 DEF Apply
  <2>5. CASE MarkCompleted(j) \/ ProcessFails(j)
    BY <2>5 DEF MarkCompleted, ProcessFails, Mark
  <2>6. CASE FinishOk(j) \/ FinishErr(j)
    BY <2>6 DEF FinishOk, FinishErr
  <2>7. QED
    BY <1>5, <2>1, <2>2, <2>3, <2>4, <2>5, <2>6 DEF Handle
<1>6. ASSUME NEW j \in JobIds, ExpireJob(j) PROVE Links'
  BY <1>6 DEF ExpireJob
<1>7. CASE Crash
  BY <1>7 DEF Crash
<1>8. CASE RescueScan \/ RescueFails
  BY <1>8 DEF RescueScan, RescueFails, Retryable
<1>9. ASSUME NEW l \in Logs, RescueAdd(l) \/ RescueMark(l) PROVE Links'
  <2>1. CASE RescueAdd(l)
    <3>1. /\ UNCHANGED <<logVars, pc, ingress, admin>>
          /\ rescue' = rescue \ {l} /\ rescued' = l
          /\ AddJob(l, logEvent[l], "stored")
          /\ logEvent[l] # NoEvent
      BY <2>1 DEF RescueAdd
    <3>2. \A k \in JobIds :
             \/ jobState'[k] = jobState[k] /\ jobEvent'[k] = jobEvent[k]
             \/ /\ k = l /\ jobState[l] = "none"
                /\ jobState'[l] = "waiting" /\ jobEvent'[l] = logEvent[l]
      BY <3>1, AddJobEffect
    <3>3. QED
      BY <3>1, <3>2
  <2>2. CASE RescueMark(l)
    BY <2>2 DEF RescueMark
  <2>3. QED
    BY <1>9, <2>1, <2>2
<1>10. ASSUME NEW l \in Logs,
              AdminCheck(l) \/ AdminMark(l) \/ AdminEnqueue(l) \/ AdminFails(l)
       PROVE Links'
  <2>1. CASE AdminCheck(l)
    BY <2>1 DEF AdminCheck
  <2>2. CASE AdminMark(l)
    BY <2>2 DEF AdminMark
  <2>3. CASE AdminEnqueue(l)
    <3>1. /\ UNCHANGED <<logVars, pc, ingress, cronVars>>
          /\ admin' = [admin EXCEPT ![l] = "idle"]
          /\ AddJob(l, logEvent[l], "stored")
          /\ logEvent[l] # NoEvent
      BY <2>3 DEF AdminEnqueue
    <3>2. \A k \in JobIds :
             \/ jobState'[k] = jobState[k] /\ jobEvent'[k] = jobEvent[k]
             \/ /\ k = l /\ jobState[l] = "none"
                /\ jobState'[l] = "waiting" /\ jobEvent'[l] = logEvent[l]
      BY <3>1, AddJobEffect
    <3>3. QED
      BY <3>1, <3>2
  <2>4. CASE AdminFails(l)
    BY <2>4 DEF AdminFails
  <2>5. QED
    BY <1>10, <2>1, <2>2, <2>3, <2>4
<1>11. CASE UNCHANGED vars
  BY <1>11 DEF vars
<1>12. QED
  BY <1>1, <1>2, <1>3, <1>4, <1>5, <1>6, <1>7, <1>8, <1>9, <1>10, <1>11
  DEF Next

(* The marks of a row agree with the effects that took place.              *)
LEMMA EffectStep ==
    ASSUME IInv, [Next]_vars
    PROVE  AppliedOnTheWay' /\ CompletedMeansFulfilled'
           /\ DuplicateMeansFulfilled'
<1> DEFINE Effects == /\ AppliedOnTheWay
                      /\ CompletedMeansFulfilled /\ DuplicateMeansFulfilled
<1> USE ConstantsAssumption, IdsAssumption
    DEF IInv, TypeOK, JobIds, Status, Stage, JobState, Request,
        RowsLinked, JobsLinked, CallersLinked,
        AppliedOnTheWay, CompletedMeansFulfilled, DuplicateMeansFulfilled,
        logVars, jobVars, cronVars
<1>1. ASSUME NEW e \in Events, Receive(e) PROVE Effects'
  <2>1. PICK l \in Logs \cup {NoLog} : CreateWebhookLog(e, l)
    BY <1>1 DEF Receive
  <2>2. \A k \in Logs :
           \/ logEvent'[k] = logEvent[k] /\ status'[k] = status[k]
           \/ status'[k] = "not_started"
    BY <2>1 DEF CreateWebhookLog
  <2>3. UNCHANGED <<pc, jobEvent, applied>>
    BY <1>1 DEF Receive
  <2>4. QED
    BY <2>2, <2>3
<1>2. ASSUME NEW r \in ingress, Enqueue(r) PROVE Effects'
  <2>1. \A j \in JobIds : jobEvent'[j] = jobEvent[j] \/ jobState[j] = "none"
    BY <1>2 DEF Enqueue, AddJob
  <2>2. UNCHANGED <<logVars, pc, applied>>
    BY <1>2 DEF Enqueue
  <2>3. QED
    BY <2>1, <2>2
<1>3. ASSUME NEW r \in ingress, EnqueueFails(r) PROVE Effects'
  BY <1>3 DEF EnqueueFails
<1>4. ASSUME NEW j \in JobIds, Pick(j) PROVE Effects'
  BY <1>4 DEF Pick, Mark
<1>5. ASSUME NEW j \in JobIds, Handle(j) PROVE Effects'
  <2>1. CASE VerifyWebhook(j)
    BY <2>1 DEF VerifyWebhook, MarkProcessingStarted
  <2>2. CASE VerifyFails(j)
    BY <2>2 DEF VerifyFails, Mark
  <2>3. CASE SkipDuplicate(j)
    <3>1. jobEvent[j] \in Events /\ (j \in Logs => jobEvent[j] = logEvent[j])
      BY <2>3 DEF SkipDuplicate
    <3>2. applied[jobEvent[j]] > 0
      BY <2>3, <3>1 DEF SkipDuplicate, IsEventProcessed, RowsWithId
    <3>3. QED
      BY <2>3, <3>1, <3>2 DEF SkipDuplicate, Mark
  <2>4. CASE SkipNoPayment(j) \/ PassDuplicateCheck(j)
    BY <2>4 DEF SkipNoPayment, PassDuplicateCheck, Mark
  <2>5. CASE Apply(j)
    <3>1. \A e \in Events : applied'[e] = applied[e] \/ applied'[e] = applied[e] + 1
      BY <2>5 DEF Apply
    <3>2. applied'[jobEvent[j]] > 0
      BY <2>5 DEF Apply
    <3>3. QED
      BY <2>5, <3>1, <3>2 DEF Apply
  <2>6. CASE MarkCompleted(j) \/ ProcessFails(j)
    BY <2>6 DEF MarkCompleted, ProcessFails, Mark
  <2>7. CASE FinishOk(j) \/ FinishErr(j)
    BY <2>7 DEF FinishOk, FinishErr
  <2>8. QED
    BY <1>5, <2>1, <2>2, <2>3, <2>4, <2>5, <2>6, <2>7 DEF Handle
<1>6. ASSUME NEW j \in JobIds, ExpireJob(j) PROVE Effects'
  BY <1>6 DEF ExpireJob
<1>7. CASE Crash
  BY <1>7 DEF Crash
<1>8. CASE RescueScan \/ RescueFails
  BY <1>8 DEF RescueScan, RescueFails
<1>9. ASSUME NEW l \in Logs, RescueAdd(l) \/ RescueMark(l) PROVE Effects'
  <2>1. CASE RescueAdd(l)
    <3>1. \A j \in JobIds : jobEvent'[j] = jobEvent[j] \/ jobState[j] = "none"
      BY <2>1 DEF RescueAdd, AddJob
    <3>2. UNCHANGED <<logVars, pc, applied>>
      BY <2>1 DEF RescueAdd
    <3>3. QED
      BY <3>1, <3>2
  <2>2. CASE RescueMark(l)
    BY <2>2 DEF RescueMark
  <2>3. QED
    BY <1>9, <2>1, <2>2
<1>10. ASSUME NEW l \in Logs,
              AdminCheck(l) \/ AdminMark(l) \/ AdminEnqueue(l) \/ AdminFails(l)
       PROVE Effects'
  BY <1>10 DEF AdminCheck, AdminMark, AdminEnqueue, AdminFails, AddJob
<1>11. CASE UNCHANGED vars
  BY <1>11 DEF vars
<1>12. QED
  BY <1>1, <1>2, <1>3, <1>4, <1>5, <1>6, <1>7, <1>8, <1>9, <1>10, <1>11
  DEF Next

(* Until something goes wrong a stable event has at most one effect, held  *)
(* by the row whose job Redis keeps: the unique key leaves no second row   *)
(* whose handler could reach processWebhookEvent.                          *)
LEMMA WindowStep ==
    ASSUME IInv, [Next]_vars
    PROVE  NoAnonymousJobs' /\ EffectHeld'
<1> DEFINE Kept == NoAnonymousJobs /\ EffectHeld
<1> USE ConstantsAssumption
    DEF IInv, TypeOK, JobIds, Stage, JobState, Request, Calm,
        logVars, jobVars, cronVars
(* A step that only adds a cause, or keeps every holder, is harmless. *)
<1>a. ASSUME Calm' => Calm,
             \A j \in Anon : jobState[j] = "none" => jobState'[j] = "none",
             \A r \in ingress' : r \in ingress \/ r.log # NoLog \/ ~Calm',
             UNCHANGED <<applied, forgotten>>,
             \A e \in Events, l \in Logs :
                HeldBy(e, l) /\ StableId(e) /\ Calm' => HeldBy(e, l)'
      PROVE  Kept'
  <2>1. NoAnonymousJobs'
    BY <1>a DEF NoAnonymousJobs
  <2>2. ASSUME NEW e \in Events, Calm', StableId(e)
        PROVE  /\ applied'[e] <= 1 + forgotten'[e]
               /\ applied'[e] = 1 + forgotten'[e]
                    => \E l \in Logs : HeldBy(e, l)'
    BY <1>a, <2>2 DEF EffectHeld
  <2>3. EffectHeld'
    BY <2>2 DEF EffectHeld, StableId
  <2>4. QED
    BY <2>1, <2>3
<1>1. ASSUME NEW e \in Events, Receive(e) PROVE Kept'
  <2>1. PICK l \in Logs \cup {NoLog} :
           /\ CreateWebhookLog(e, l)
           /\ ingress' = ingress \cup {[event |-> e, log |-> l]}
    BY <1>1 DEF Receive
  <2>2. UNCHANGED <<jobVars, pc, applied, forgotten, crashes>>
    BY <1>1 DEF Receive
  <2>3. /\ Calm' => Calm
        /\ l = NoLog => ~Calm'
        /\ \A k \in Logs : logEvent[k] # NoEvent => logEvent'[k] = logEvent[k]
    BY <2>1, <2>2 DEF CreateWebhookLog, Fault, RowsWithId
  <2>4. QED
    BY <2>1, <2>2, <2>3, <1>a DEF HeldBy
<1>2. ASSUME NEW r \in ingress, Enqueue(r) PROVE Kept'
  <2>1. UNCHANGED <<logVars, pc, applied, forgotten, crashes, faults>>
        /\ ingress' \subseteq ingress
    BY <1>2 DEF Enqueue
  <2>2. CASE r.log \in Logs /\ AddJob(r.log, r.event, "raw")
    <3>1. \A j \in JobIds :
             /\ j \in Anon => jobState'[j] = jobState[j]
             /\ jobState[j] = "completed" => jobState'[j] = "completed"
      BY <2>2 DEF AddJob
    <3>2. QED
      BY <2>1, <3>1, <1>a DEF HeldBy
  <2>3. CASE r.log = NoLog
    BY <2>1, <2>3 DEF NoAnonymousJobs, EffectHeld
  <2>4. QED
    BY <1>2, <2>2, <2>3 DEF Enqueue
<1>3. ASSUME NEW r \in ingress, EnqueueFails(r) PROVE Kept'
  <2>1. UNCHANGED <<logVars, jobVars, pc, applied, forgotten, crashes, faults>>
        /\ ingress' \subseteq ingress
    BY <1>3 DEF EnqueueFails
  <2>2. QED
    BY <2>1, <1>a DEF HeldBy
<1>4. ASSUME NEW j \in JobIds, Pick(j) PROVE Kept'
  <2>1. UNCHANGED <<logEvent, applied, forgotten, crashes, ingress>>
        /\ (Calm' => Calm)
    BY <1>4 DEF Pick, Mark, Fault
  <2>2. \A k \in JobIds : /\ jobState[k] # "waiting" => jobState'[k] = jobState[k]
                          /\ pc'[k] = pc[k] \/ pc[k] = "idle"
    BY <1>4 DEF Pick, JobsLinked
  <2>3. QED
    BY <2>1, <2>2, <1>a DEF HeldBy
<1>5. ASSUME NEW j \in JobIds, Handle(j) PROVE Kept'
  <2>1. CASE VerifyWebhook(j)
    BY <2>1, <1>a DEF VerifyWebhook, MarkProcessingStarted, Fault, HeldBy
  <2>2. CASE VerifyFails(j) \/ ProcessFails(j)
    BY <2>2, <1>a DEF VerifyFails, ProcessFails, Mark, Fault, HeldBy
  <2>3. CASE SkipDuplicate(j) \/ SkipNoPayment(j) \/ PassDuplicateCheck(j)
    BY <2>3, <1>a
    DEF SkipDuplicate, SkipNoPayment, PassDuplicateCheck, Mark, Fault, HeldBy
  <2>4. CASE Apply(j)
    <3>1. /\ applied' = [applied EXCEPT ![jobEvent[j]] = @ + 1]
          /\ pc' = [pc EXCEPT ![j] = "applied"]
          /\ UNCHANGED <<logVars, jobVars, ingress, forgotten, crashes, faults>>
          /\ pc[j] = "unique"
      BY <2>4 DEF Apply
    <3>2. NoAnonymousJobs'
      BY <3>1 DEF NoAnonymousJobs
    <3>3. ASSUME NEW e \in Events, Calm, StableId(e)
          PROVE  /\ applied'[e] <= 1 + forgotten[e]
                 /\ applied'[e] = 1 + forgotten[e]
                      => \E l \in Logs : HeldBy(e, l)'
      <4>1. CASE e # jobEvent[j]
        <5>1. applied'[e] = applied[e]
          BY <3>1, <4>1
        <5>2. \A l \in Logs : HeldBy(e, l) => HeldBy(e, l)'
          BY <3>1 DEF HeldBy
        <5>3. QED
          BY <3>3, <5>1, <5>2 DEF EffectHeld
      <4>2. CASE e = jobEvent[j]
        <5>1. j \in Logs /\ logEvent[j] = e
          BY <3>1, <3>3, <4>2 DEF NoAnonymousJobs, JobsLinked
        <5>2. applied[e] # 1 + forgotten[e]
          <6>1. SUFFICES ASSUME NEW l \in Logs, HeldBy(e, l) PROVE FALSE
            BY <3>3 DEF EffectHeld
          <6>2. eventId[j] = VerifiedId[e] /\ eventId[l] = VerifiedId[e]
            BY <3>3, <5>1, <6>1 DEF RowsLinked, StableId, HeldBy
          <6>3. j = l
            BY <5>1, <6>2 DEF IdsUnique
          <6>4. QED
            BY <3>1, <6>1, <6>3 DEF HeldBy, JobsLinked
        <5>3. applied'[e] <= 1 + forgotten[e]
          <6>1. /\ applied[e] \in Nat /\ forgotten[e] \in Nat
                /\ applied[e] <= 1 + forgotten[e]
            BY <3>3 DEF EffectHeld
          <6>2. applied'[e] = applied[e] + 1
            BY <3>1, <4>2
          <6>3. QED
            BY <5>2, <6>1, <6>2
        <5>4. HeldBy(e, j)'
          BY <3>1, <5>1 DEF HeldBy
        <5>5. QED
          BY <5>1, <5>3, <5>4
      <4>3. QED
        BY <4>1, <4>2
    <3>4. EffectHeld'
      BY <3>1, <3>3 DEF EffectHeld, StableId
    <3>5. QED
      BY <3>2, <3>4
  <2>5. CASE MarkCompleted(j)
    BY <2>5, <1>a DEF MarkCompleted, Mark, Fault, HeldBy
  <2>6. CASE FinishOk(j)
    <3>1. /\ UNCHANGED <<logVars, ingress, applied, forgotten, crashes, faults>>
          /\ pc' = [pc EXCEPT ![j] = "idle"]
          /\ jobState' = [jobState EXCEPT ![j] = "completed"]
          /\ pc[j] = "ok" /\ jobState[j] = "active"
      BY <2>6 DEF FinishOk, JobsLinked
    <3>2. \A e \in Events, l \in Logs : HeldBy(e, l) => HeldBy(e, l)'
      BY <3>1 DEF HeldBy
    <3>3. \A k \in Anon : jobState[k] = "none" => jobState'[k] = "none"
      BY <3>1
    <3>4. QED
      BY <3>1, <3>2, <3>3, <1>a
  <2>7. CASE FinishErr(j)
    BY <2>7, <1>a DEF FinishErr, HeldBy, JobsLinked
  <2>8. QED
    BY <1>5, <2>1, <2>2, <2>3, <2>4, <2>5, <2>6, <2>7 DEF Handle
<1>6. ASSUME NEW j \in JobIds, ExpireJob(j) PROVE Kept'
  <2>1. /\ UNCHANGED <<logVars, ingress, pc, applied, crashes, faults>>
        /\ jobState' = [jobState EXCEPT ![j] = "none"]
        /\ jobState[j] \in {"completed", "failed"} /\ pc[j] = "idle"
        /\ jobEvent[j] \in Events
        /\ j \in Logs => jobEvent[j] = logEvent[j]
    BY <1>6 DEF ExpireJob, JobsLinked
  <2>2. NoAnonymousJobs'
    BY <2>1 DEF NoAnonymousJobs
  <2>3. CASE jobState[j] = "failed"
    BY <1>6, <2>1, <2>3, <1>a DEF ExpireJob, HeldBy
  <2>4. CASE jobState[j] = "completed"
    <3>1. forgotten' = [forgotten EXCEPT ![jobEvent[j]] = @ + 1]
      BY <1>6, <2>4 DEF ExpireJob
    <3>2. ASSUME NEW e \in Events, Calm, StableId(e)
          PROVE  /\ applied[e] <= 1 + forgotten'[e]
                 /\ applied[e] = 1 + forgotten'[e]
                      => \E l \in Logs : HeldBy(e, l)'
      <4>1. /\ applied[e] \in Nat /\ forgotten[e] \in Nat
            /\ applied[e] <= 1 + forgotten[e]
        BY <3>2 DEF EffectHeld
      <4>2. CASE e = jobEvent[j]
        <5>1. forgotten'[e] = forgotten[e] + 1
          BY <3>1, <4>2
        <5>2. QED
          BY <4>1, <5>1
      <4>3. CASE e # jobEvent[j]
        <5>1. forgotten'[e] = forgotten[e]
          BY <3>1, <4>3
        <5>2. \A l \in Logs : HeldBy(e, l) => HeldBy(e, l)'
          BY <2>1, <4>3 DEF HeldBy
        <5>3. QED
          BY <3>2, <4>1, <5>1, <5>2 DEF EffectHeld
      <4>4. QED
        BY <4>2, <4>3
    <3>3. EffectHeld'
      BY <2>1, <3>2 DEF EffectHeld, StableId
    <3>4. QED
      BY <2>2, <3>3
  <2>5. QED
    BY <2>1, <2>3, <2>4
<1>7. CASE Crash
  BY <1>7 DEF Crash, NoAnonymousJobs, EffectHeld
<1>8. CASE RescueScan \/ RescueFails
  BY <1>8, <1>a DEF RescueScan, RescueFails, Fault, HeldBy
<1>9. ASSUME NEW l \in Logs, RescueAdd(l) \/ RescueMark(l) PROVE Kept'
  BY <1>9, <1>a DEF RescueAdd, RescueMark, AddJob, HeldBy
<1>10. ASSUME NEW l \in Logs,
              AdminCheck(l) \/ AdminMark(l) \/ AdminEnqueue(l) \/ AdminFails(l)
       PROVE Kept'
  BY <1>10, <1>a DEF AdminCheck, AdminMark, AdminEnqueue, AdminFails, AddJob, HeldBy
<1>11. CASE UNCHANGED vars
  BY <1>11, <1>a DEF vars, HeldBy
<1>12. QED
  BY <1>1, <1>2, <1>3, <1>4, <1>5, <1>6, <1>7, <1>8, <1>9, <1>10, <1>11
  DEF Next

(* A row shown as in flight keeps a job that will move it, until a write   *)
(* is lost or the worker crashes more often than BullMQ forgives.          *)
LEMMA InFlightStep ==
    ASSUME IInv, [Next]_vars
    PROVE  StallsCounted' /\ InFlightHeld'
<1> DEFINE Flying == StallsCounted /\ InFlightHeld
<1> USE ConstantsAssumption
    DEF IInv, TypeOK, JobIds, Stage, JobState, Status, StallsCounted, InFlightHeld,
        logVars, jobVars, cronVars
<1>1. ASSUME NEW e \in Events, Receive(e) PROVE Flying'
  <2>1. PICK l \in Logs \cup {NoLog} : CreateWebhookLog(e, l)
    BY <1>1 DEF Receive
  <2>2. UNCHANGED <<jobVars, pc, crashes>>
    BY <1>1 DEF Receive
  <2>3. /\ faults' = 0 => faults = 0
        /\ \A k \in Logs : status'[k] = status[k] \/ status'[k] = "not_started"
    BY <2>1 DEF CreateWebhookLog, Fault
  <2>4. QED
    BY <2>2, <2>3
<1>2. ASSUME NEW r \in ingress, Enqueue(r) PROVE Flying'
  <2>1. \A j \in JobIds : /\ jobState[j] = "waiting" => jobState'[j] = "waiting"
                          /\ stalls'[j] = stalls[j] \/ stalls'[j] = 0
    BY <1>2 DEF Enqueue, AddJob
  <2>2. UNCHANGED <<logVars, pc, crashes, faults>>
    BY <1>2 DEF Enqueue
  <2>3. QED
    BY <2>1, <2>2
<1>3. ASSUME NEW r \in ingress, EnqueueFails(r) PROVE Flying'
  BY <1>3 DEF EnqueueFails
<1>4. ASSUME NEW j \in JobIds, Pick(j) PROVE Flying'
  BY <1>4 DEF Pick, Mark, Fault
<1>5. ASSUME NEW j \in JobIds, Handle(j) PROVE Flying'
  <2>1. CASE VerifyWebhook(j)
    BY <2>1 DEF VerifyWebhook, MarkProcessingStarted, Fault
  <2>2. CASE VerifyFails(j) \/ ProcessFails(j)
    BY <2>2 DEF VerifyFails, ProcessFails, Mark, Fault
  <2>3. CASE SkipDuplicate(j) \/ SkipNoPayment(j) \/ PassDuplicateCheck(j)
    BY <2>3 DEF SkipDuplicate, SkipNoPayment, PassDuplicateCheck, Mark, Fault
  <2>4. CASE Apply(j) \/ MarkCompleted(j)
    BY <2>4 DEF Apply, MarkCompleted, Mark, Fault
  <2>5. CASE FinishOk(j) \/ FinishErr(j)
    BY <2>5 DEF FinishOk, FinishErr, JobsLinked
  <2>6. QED
    BY <1>5, <2>1, <2>2, <2>3, <2>4, <2>5 DEF Handle
<1>6. ASSUME NEW j \in JobIds, ExpireJob(j) PROVE Flying'
  BY <1>6 DEF ExpireJob
<1>7. CASE Crash
  BY <1>7 DEF Crash, JobsLinked
<1>8. CASE RescueScan \/ RescueFails
  BY <1>8 DEF RescueScan, RescueFails, Fault
<1>9. ASSUME NEW l \in Logs, RescueAdd(l) \/ RescueMark(l) PROVE Flying'
  BY <1>9 DEF RescueAdd, RescueMark, AddJob
<1>10. ASSUME NEW l \in Logs,
              AdminCheck(l) \/ AdminMark(l) \/ AdminEnqueue(l) \/ AdminFails(l)
       PROVE Flying'
  BY <1>10 DEF AdminCheck, AdminMark, AdminEnqueue, AdminFails, AddJob
<1>11. CASE UNCHANGED vars
  BY <1>11 DEF vars
<1>12. QED
  BY <1>1, <1>2, <1>3, <1>4, <1>5, <1>6, <1>7, <1>8, <1>9, <1>10, <1>11
  DEF Next

(* No step completes the row of a stable event between the verification    *)
(* and the duplicate check of its own handler.                             *)
LEMMA OwnRowStep ==
    ASSUME IInv, [Next]_vars
    PROVE  OwnRowNotCompleted'
<1> USE ConstantsAssumption
    DEF IInv, TypeOK, JobIds, Stage, JobState, Status, Calm, OwnRowNotCompleted,
        StableId, logVars, jobVars, cronVars
<1>1. ASSUME NEW e \in Events, Receive(e) PROVE OwnRowNotCompleted'
  <2>1. PICK l \in Logs \cup {NoLog} : CreateWebhookLog(e, l)
    BY <1>1 DEF Receive
  <2>2. UNCHANGED <<jobVars, pc, crashes>>
    BY <1>1 DEF Receive
  <2>3. /\ faults' = 0 => faults = 0
        /\ \A k \in Logs : status'[k] = status[k] \/ status'[k] = "not_started"
    BY <2>1 DEF CreateWebhookLog, Fault
  <2>4. QED
    BY <2>2, <2>3
<1>2. ASSUME NEW r \in ingress, Enqueue(r) PROVE OwnRowNotCompleted'
  <2>1. \A j \in JobIds : jobEvent'[j] = jobEvent[j] \/ pc[j] = "idle"
    BY <1>2 DEF Enqueue, AddJob, JobsLinked
  <2>2. UNCHANGED <<logVars, pc, crashes, faults>>
    BY <1>2 DEF Enqueue
  <2>3. QED
    BY <2>1, <2>2
<1>3. ASSUME NEW r \in ingress, EnqueueFails(r) PROVE OwnRowNotCompleted'
  BY <1>3 DEF EnqueueFails
<1>4. ASSUME NEW j \in JobIds, Pick(j) PROVE OwnRowNotCompleted'
  BY <1>4 DEF Pick, Mark, Fault
<1>5. ASSUME NEW j \in JobIds, Handle(j) PROVE OwnRowNotCompleted'
  <2>1. CASE VerifyWebhook(j)
    <3>1. /\ pc' = [pc EXCEPT ![j] = "started"]
          /\ UNCHANGED <<jobVars, crashes>>
          /\ pc[j] = "picked"
      BY <2>1 DEF VerifyWebhook
    <3>2. MarkProcessingStarted(j)
      BY <2>1 DEF VerifyWebhook
    <3>3. CASE /\ j \in Logs
               /\ status' = [status EXCEPT ![j] = "processing"]
               /\ UNCHANGED faults
      BY <3>1, <3>3
    <3>4. CASE /\ j \in Anon \/ ~(RowsWithId(VerifiedId[jobEvent[j]]) \subseteq {j})
               /\ UNCHANGED <<status, eventId, faults>>
      <4>1. SUFFICES ASSUME j \in Logs, StableId(jobEvent[j]) PROVE FALSE
        BY <3>1, <3>4
      <4>2. eventId[j] = VerifiedId[jobEvent[j]]
        BY <3>1, <4>1 DEF JobsLinked, RowsLinked
      <4>3. RowsWithId(VerifiedId[jobEvent[j]]) \subseteq {j}
        BY <4>1, <4>2 DEF RowsWithId, IdsUnique
      <4>4. QED
        BY <3>4, <4>1, <4>3
    <3>5. CASE Fault
      BY <3>5 DEF Fault
    <3>6. QED
      BY <3>2, <3>3, <3>4, <3>5 DEF MarkProcessingStarted
  <2>2. CASE VerifyFails(j) \/ ProcessFails(j)
    BY <2>2 DEF VerifyFails, ProcessFails, Mark, Fault
  <2>3. CASE SkipDuplicate(j) \/ SkipNoPayment(j) \/ PassDuplicateCheck(j)
    BY <2>3 DEF SkipDuplicate, SkipNoPayment, PassDuplicateCheck, Mark, Fault
  <2>4. CASE Apply(j) \/ MarkCompleted(j)
    BY <2>4 DEF Apply, MarkCompleted, Mark, Fault
  <2>5. CASE FinishOk(j) \/ FinishErr(j)
    BY <2>5 DEF FinishOk, FinishErr
  <2>6. QED
    BY <1>5, <2>1, <2>2, <2>3, <2>4, <2>5 DEF Handle
<1>6. ASSUME NEW j \in JobIds, ExpireJob(j) PROVE OwnRowNotCompleted'
  BY <1>6 DEF ExpireJob
<1>7. CASE Crash
  BY <1>7 DEF Crash
<1>8. CASE RescueScan \/ RescueFails
  BY <1>8 DEF RescueScan, RescueFails, Fault
<1>9. ASSUME NEW l \in Logs, RescueAdd(l) \/ RescueMark(l)
      PROVE  OwnRowNotCompleted'
  BY <1>9 DEF RescueAdd, RescueMark, AddJob, JobsLinked
<1>10. ASSUME NEW l \in Logs,
              AdminCheck(l) \/ AdminMark(l) \/ AdminEnqueue(l) \/ AdminFails(l)
       PROVE OwnRowNotCompleted'
  BY <1>10 DEF AdminCheck, AdminMark, AdminEnqueue, AdminFails, AddJob, JobsLinked
<1>11. CASE UNCHANGED vars
  BY <1>11 DEF vars
<1>12. QED
  BY <1>1, <1>2, <1>3, <1>4, <1>5, <1>6, <1>7, <1>8, <1>9, <1>10, <1>11
  DEF Next

-----------------------------------------------------------------------------
(* The inductive invariant holds in every reachable state.                 *)
THEOREM IInvHolds == Spec => []IInv
<1>1. Init => IInv
  <2> SUFFICES ASSUME Init PROVE IInv
    OBVIOUS
  <2> USE ConstantsAssumption DEF Init
  <2>1. TypeOK
    BY DEF TypeOK, JobIds, Status, Stage, JobState, Request
  <2>2. RowsLinked /\ IdsUnique /\ JobsLinked /\ CallersLinked
    BY DEF RowsLinked, IdsUnique, JobsLinked, CallersLinked, JobIds
  <2>3. AppliedOnTheWay /\ CompletedMeansFulfilled /\ DuplicateMeansFulfilled
    BY DEF AppliedOnTheWay, CompletedMeansFulfilled, DuplicateMeansFulfilled, JobIds
  <2>4. NoAnonymousJobs /\ EffectHeld
    BY DEF NoAnonymousJobs, EffectHeld, JobIds
  <2>5. StallsCounted /\ InFlightHeld
    BY DEF StallsCounted, InFlightHeld
  <2>6. OwnRowNotCompleted
    BY DEF OwnRowNotCompleted, JobIds
  <2>7. QED
    BY <2>1, <2>2, <2>3, <2>4, <2>5, <2>6 DEF IInv
<1>2. IInv /\ [Next]_vars => IInv'
  BY TypeStep, LinkStep, EffectStep, WindowStep, InFlightStep, OwnRowStep DEF IInv
<1>3. QED
  BY <1>1, <1>2, PTL DEF Spec

(* Every variable keeps its type: rows, jobs, requests and callers only    *)
(* ever hold what handleIncomingWebhook and the worker put there.          *)
THEOREM TypeCorrect == Spec => []TypeOK
<1>1. IInv => TypeOK
  BY DEF IInv
<1>2. QED
  BY <1>1, IInvHolds, PTL

(* A row is marked completed only after processWebhookEvent ran for its    *)
(* event, whatever crashes, lost writes, rescues and retries come between. *)
THEOREM CompletedIsFulfilled == Spec => []CompletedMeansFulfilled
<1>1. IInv => CompletedMeansFulfilled
  BY DEF IInv
<1>2. QED
  BY <1>1, IInvHolds, PTL

(* A delivery is skipped as a duplicate only when the event took effect:   *)
(* isEventProcessed never loses a payment.                                 *)
THEOREM DuplicateIsFulfilled == Spec => []DuplicateMeansFulfilled
<1>1. IInv => DuplicateMeansFulfilled
  BY DEF IInv
<1>2. QED
  BY <1>1, IInvHolds, PTL

(* The unique key and the job id made of the log id let one handler at a   *)
(* time work on a logged event whose id verification does not change.      *)
THEOREM OneHandler == Spec => []OneHandlerPerEvent
<1>1. IInv => OneHandlerPerEvent
  <2> SUFFICES ASSUME IInv, NEW j \in Logs, NEW k \in Logs,
                      pc[j] # "idle", pc[k] # "idle",
                      jobEvent[j] = jobEvent[k], StableId(jobEvent[j])
               PROVE  j = k
    BY DEF OneHandlerPerEvent
  <2>1. /\ jobEvent[j] \in Events
        /\ logEvent[j] = jobEvent[j] /\ logEvent[k] = jobEvent[j]
    BY DEF IInv, JobsLinked, JobIds
  <2>2. eventId[j] = VerifiedId[jobEvent[j]] /\ eventId[k] = VerifiedId[jobEvent[j]]
    BY <2>1, ConstantsAssumption DEF IInv, RowsLinked, StableId
  <2>3. VerifiedId[jobEvent[j]] # NoId
    BY <2>1, ConstantsAssumption
  <2>4. QED
    BY <2>2, <2>3 DEF IInv, IdsUnique
<1>2. QED
  BY <1>1, IInvHolds, PTL

(* The effects of such an event repeat only after a worker crash, a lost   *)
(* database write, or, once for each time, Redis dropping the completed    *)
(* job.                                                                    *)
THEOREM OnceInWindow == Spec => []EffectsOnceInWindow
<1>1. IInv => EffectsOnceInWindow
  <2> SUFFICES ASSUME IInv, NEW e \in Events, StableId(e),
                      ~(crashes > 0), ~(faults > 0)
               PROVE  applied[e] <= 1 + forgotten[e]
    BY DEF EffectsOnceInWindow
  <2>1. Calm
    BY DEF IInv, TypeOK, Calm
  <2>2. QED
    BY <2>1 DEF IInv, EffectHeld
<1>2. QED
  BY <1>1, IInvHolds, PTL

(* With no lost write and no more crashes than BullMQ forgives, a row      *)
(* shown as picked or processing is never without a job that will move it. *)
THEOREM InFlightHasJob == Spec => []InFlightRowHasJob
<1>1. IInv => InFlightRowHasJob
  <2> SUFFICES ASSUME IInv, faults = 0, crashes <= MaxStalls, NEW l \in Logs,
                      status[l] \in {"picked", "processing"}
               PROVE  jobState[l] \in {"waiting", "active"}
    BY DEF InFlightRowHasJob
  <2>1. jobState[l] = "waiting" \/ pc[l] # "idle"
    BY DEF IInv, InFlightHeld
  <2>2. QED
    BY <2>1 DEF IInv, JobsLinked, JobIds
<1>2. QED
  BY <1>1, IInvHolds, PTL

-----------------------------------------------------------------------------
(* Every step of the pipeline is a step of IdempotencyWindow or a stutter. *)
LEMMA WindowRefined ==
    ASSUME IInv, [Next]_vars
    PROVE  [Window!Next]_<<Done, Closed, Held, Loose>>
<1> DEFINE Goal == [Window!Next]_<<Done, Closed, Held, Loose>>
           Same == \A e \in Keyed, l \in Logs : HeldBy(e, l)' <=> HeldBy(e, l)
<1> USE ConstantsAssumption
    DEF IInv, TypeOK, JobIds, Stage, JobState, Calm,
        logVars, jobVars, cronVars
(* A step without effects ends the promise, or is a stutter when it keeps  *)
(* the holders.                                                            *)
<1>a. ASSUME UNCHANGED <<applied, forgotten>>, Calm' => Calm, Calm' => Same
      PROVE  Goal
  <2>1. Done' = Done /\ Closed' = Closed
    BY <1>a DEF Done, Closed, Keyed, StableId
  <2>2. CASE ~Calm
    BY <1>a, <2>1, <2>2 DEF Held, Loose
  <2>3. CASE Calm /\ ~Calm'
    BY <2>1, <2>3 DEF Held, Loose, Window!Next, Window!EndPromise
  <2>4. CASE Calm /\ Calm'
    <3>1. Held' = Held
      BY <1>a, <2>4 DEF Held, Keyed, StableId
    <3>2. QED
      BY <2>1, <2>4, <3>1 DEF Loose
  <2>5. QED
    BY <2>2, <2>3, <2>4
<1>1. ASSUME NEW e \in Events, Receive(e) PROVE Goal
  <2>1. PICK l \in Logs \cup {NoLog} : CreateWebhookLog(e, l)
    BY <1>1 DEF Receive
  <2>2. UNCHANGED <<jobVars, pc, applied, forgotten, crashes>>
    BY <1>1 DEF Receive
  <2>3. /\ Calm' => Calm
        /\ \A k \in Logs : logEvent'[k] = logEvent[k]
                           \/ (jobState[k] = "none" /\ pc[k] = "idle")
    BY <2>1, <2>2 DEF CreateWebhookLog, Fault, RowsLinked, JobsLinked
  <2>4. QED
    BY <2>2, <2>3, <1>a DEF HeldBy
<1>2. ASSUME NEW r \in ingress, Enqueue(r) PROVE Goal
  <2>1. \A j \in JobIds : jobState'[j] = "completed" <=> jobState[j] = "completed"
    BY <1>2 DEF Enqueue, AddJob
  <2>2. UNCHANGED <<logVars, pc, applied, forgotten, crashes, faults>>
    BY <1>2 DEF Enqueue
  <2>3. QED
    BY <2>1, <2>2, <1>a DEF HeldBy
<1>3. ASSUME NEW r \in ingress, EnqueueFails(r) PROVE Goal
  BY <1>3, <1>a DEF EnqueueFails, HeldBy
<1>4. ASSUME NEW j \in JobIds, Pick(j) PROVE Goal
  <2>1. /\ UNCHANGED <<logEvent, applied, forgotten, crashes>>
        /\ Calm' => Calm
    BY <1>4 DEF Pick, Mark, Fault
  <2>2. \A k \in JobIds :
           /\ jobState'[k] = "completed" <=> jobState[k] = "completed"
           /\ pc'[k] \in {"applied", "ok"} <=> pc[k] \in {"applied", "ok"}
    BY <1>4 DEF Pick, JobsLinked
  <2>3. QED
    BY <2>1, <2>2, <1>a DEF HeldBy
<1>5. ASSUME NEW j \in JobIds, Handle(j) PROVE Goal
  <2>1. CASE VerifyWebhook(j)
    BY <2>1, <1>a DEF VerifyWebhook, MarkProcessingStarted, Fault, HeldBy
  <2>2. CASE VerifyFails(j) \/ ProcessFails(j)
    BY <2>2, <1>a DEF VerifyFails, ProcessFails, Mark, Fault, HeldBy
  <2>3. CASE SkipDuplicate(j)
    <3>1. /\ UNCHANGED <<logEvent, eventId, jobVars, applied, forgotten, crashes>>
          /\ pc' = [pc EXCEPT ![j] = "ok"]
          /\ pc[j] = "started" /\ IsEventProcessed(jobEvent[j])
          /\ Calm' => Calm
      BY <2>3 DEF SkipDuplicate, Mark, Fault
    <3>2. ASSUME Calm', j \in Logs, logEvent[j] \in Keyed PROVE FALSE
      <4>1. jobEvent[j] = logEvent[j] /\ StableId(jobEvent[j])
        BY <3>1, <3>2 DEF JobsLinked, Keyed
      <4>2. PICK l \in Logs : /\ eventId[l] = VerifiedId[jobEvent[j]]
                              /\ status[l] = "completed"
        BY <3>1 DEF IsEventProcessed, RowsWithId
      <4>3. eventId[j] = VerifiedId[jobEvent[j]] /\ eventId[j] # NoId
        BY <3>2, <4>1 DEF RowsLinked, StableId, Keyed
      <4>4. j = l
        BY <3>2, <4>2, <4>3 DEF IdsUnique
      <4>5. QED
        BY <3>1, <3>2, <4>1, <4>2, <4>4 DEF OwnRowNotCompleted
    <3>3. Calm' => Same
      BY <3>1, <3>2 DEF HeldBy
    <3>4. QED
      BY <3>1, <3>3, <1>a
  <2>4. CASE SkipNoPayment(j)
    <3>1. /\ UNCHANGED <<logEvent, jobVars, applied, forgotten, crashes>>
          /\ pc' = [pc EXCEPT ![j] = "ok"]
          /\ pc[j] = "started" /\ jobEvent[j] \notin Payment
          /\ Calm' => Calm
      BY <2>4 DEF SkipNoPayment, Mark, Fault
    <3>2. j \in Logs => logEvent[j] \notin Keyed
      BY <3>1 DEF JobsLinked, Keyed
    <3>3. Calm' => Same
      BY <3>1, <3>2 DEF HeldBy
    <3>4. QED
      BY <3>1, <3>3, <1>a
  <2>5. CASE PassDuplicateCheck(j)
    BY <2>5, <1>a DEF PassDuplicateCheck, Fault, HeldBy
  <2>6. CASE Apply(j)
    <3>1. /\ applied' = [applied EXCEPT ![jobEvent[j]] = @ + 1]
          /\ pc' = [pc EXCEPT ![j] = "applied"]
          /\ UNCHANGED <<logVars, jobVars, forgotten, crashes, faults>>
          /\ pc[j] = "unique"
      BY <2>6 DEF Apply
    <3>2. CASE jobEvent[j] \notin Keyed
      <4>1. Done' = Done /\ Closed' = Closed
        BY <3>1, <3>2 DEF Done, Closed, Keyed, StableId
      <4>2. Same
        BY <3>1, <3>2 DEF HeldBy, JobsLinked
      <4>3. Held' = Held
        BY <3>1, <4>2 DEF Held, Keyed, StableId
      <4>4. QED
        BY <3>1, <4>1, <4>3 DEF Loose
    <3>3. CASE jobEvent[j] \in Keyed
      <4> DEFINE e == jobEvent[j]
      <4>1. Done' = [Done EXCEPT ![e] = @ + 1] /\ Closed' = Closed
        BY <3>1, <3>3 DEF Done, Closed, Keyed, StableId
      <4>2. CASE ~Calm
        BY <3>1, <3>3, <4>1, <4>2
        DEF Held, Loose, Window!Next, Window!TakeEffect
      <4>3. CASE Calm
        <5>1. j \in Logs /\ logEvent[j] = e
          BY <3>1, <4>3 DEF NoAnonymousJobs, JobsLinked
        <5>2. \A l \in Logs : ~HeldBy(e, l)
          <6>1. SUFFICES ASSUME NEW l \in Logs, HeldBy(e, l) PROVE FALSE
            OBVIOUS
          <6>2. eventId[j] = VerifiedId[e] /\ eventId[l] = VerifiedId[e]
            BY <3>3, <5>1, <6>1 DEF RowsLinked, StableId, HeldBy, Keyed
          <6>3. j = l
            BY <3>3, <5>1, <6>2 DEF IdsUnique, Keyed
          <6>4. QED
            BY <3>1, <6>1, <6>3 DEF HeldBy, JobsLinked
        <5>3. \A f \in Keyed, l \in Logs :
                 HeldBy(f, l)' <=> HeldBy(f, l) \/ (f = e /\ l = j)
          BY <3>1, <5>1 DEF HeldBy
        <5>4. Held' = Held \cup {e}
          BY <3>1, <3>3, <4>3, <5>1, <5>3 DEF Held, Keyed, StableId
        <5>5. e \notin Held
          BY <4>3, <5>2 DEF Held
        <5>6. Window!TakeEffect(e)
          BY <3>1, <4>1, <4>3, <5>4, <5>5 DEF Loose, Window!TakeEffect
        <5>7. QED
          BY <3>3, <5>6 DEF Window!Next
      <4>4. QED
        BY <4>2, <4>3
    <3>4. QED
      BY <3>2, <3>3
  <2>7. CASE MarkCompleted(j)
    BY <2>7, <1>a DEF MarkCompleted, Mark, Fault, HeldBy
  <2>8. CASE FinishOk(j)
    <3>1. /\ UNCHANGED <<logVars, applied, forgotten, crashes, faults>>
          /\ pc' = [pc EXCEPT ![j] = "idle"]
          /\ jobState' = [jobState EXCEPT ![j] = "completed"]
          /\ pc[j] = "ok"
      BY <2>8 DEF FinishOk
    <3>2. Same
      BY <3>1 DEF HeldBy
    <3>3. QED
      BY <3>1, <3>2, <1>a
  <2>9. CASE FinishErr(j)
    <3>1. /\ UNCHANGED <<logVars, applied, forgotten, crashes, faults>>
          /\ pc' = [pc EXCEPT ![j] = "idle"]
          /\ pc[j] = "err" /\ jobState[j] = "active"
          /\ \A k \in JobIds :
                jobState'[k] = "completed" <=> jobState[k] = "completed"
      BY <2>9 DEF FinishErr, JobsLinked
    <3>2. Same
      BY <3>1 DEF HeldBy
    <3>3. QED
      BY <3>1, <3>2, <1>a
  <2>10. QED
    BY <1>5, <2>1, <2>2, <2>3, <2>4, <2>5, <2>6, <2>7, <2>8, <2>9 DEF Handle
<1>6. ASSUME NEW j \in JobIds, ExpireJob(j) PROVE Goal
  <2>1. /\ UNCHANGED <<logVars, pc, jobEvent, applied, crashes, faults>>
        /\ jobState' = [jobState EXCEPT ![j] = "none"]
        /\ jobState[j] \in {"completed", "failed"} /\ pc[j] = "idle"
    BY <1>6 DEF ExpireJob, JobsLinked
  <2>2. CASE Calm /\ j \in Logs /\ logEvent[j] \in Keyed /\ jobState[j] = "completed"
    <3> DEFINE e == logEvent[j]
    <3>a. e = jobEvent[j]
      BY <2>2 DEF JobsLinked
    <3>1. ASSUME NEW l \in Logs, HeldBy(e, l) PROVE l = j
      <4>1. eventId[j] = VerifiedId[e] /\ eventId[l] = VerifiedId[e]
        BY <2>2, <3>1 DEF RowsLinked, StableId, HeldBy, Keyed
      <4>2. QED
        BY <2>2, <4>1 DEF IdsUnique, Keyed
    <3>2. \A f \in Keyed, l \in Logs :
             HeldBy(f, l)' <=> HeldBy(f, l) /\ l # j
      BY <2>1, <2>2 DEF HeldBy
    <3>3. Held' = Held \ {e}
      BY <2>1, <2>2, <3>1, <3>2 DEF Held, Keyed, StableId, HeldBy
    <3>4. e \in Held
      BY <2>2 DEF Held, HeldBy
    <3>5. Done' = Done /\ Closed' = [Closed EXCEPT ![e] = @ + 1]
      <4>1. forgotten' = [forgotten EXCEPT ![e] = @ + 1]
        BY <1>6, <2>2, <3>a DEF ExpireJob
      <4>2. e \in Keyed
        BY <2>2
      <4> HIDE DEF e
      <4>3. QED
        BY <2>1, <4>1, <4>2 DEF Done, Closed, Keyed, StableId
    <3>6. Window!CloseWindow(e)
      BY <2>1, <3>3, <3>4, <3>5 DEF Loose, Window!CloseWindow
    <3>7. QED
      BY <2>2, <3>6 DEF Window!Next
  <2>3. CASE jobState[j] = "failed"
    <3>1. Same /\ UNCHANGED forgotten
      BY <1>6, <2>1, <2>3 DEF HeldBy, ExpireJob
    <3>2. QED
      BY <2>1, <3>1, <1>a
  <2>4. CASE jobState[j] = "completed" /\ jobEvent[j] \notin Keyed
    <3>1. Same
      BY <2>1, <2>4 DEF HeldBy, JobsLinked
    <3>2. Done' = Done /\ Closed' = Closed
      BY <1>6, <2>1, <2>4 DEF ExpireJob, Done, Closed, Keyed, StableId
    <3>3. Held' = Held /\ Loose' = Loose
      BY <2>1, <3>1 DEF Held, Loose, Keyed, StableId
    <3>4. QED
      BY <3>2, <3>3
  <2>5. CASE jobState[j] = "completed" /\ jobEvent[j] \in Keyed /\ ~Calm
    <3> DEFINE e == jobEvent[j]
    <3>1. Done' = Done /\ Closed' = [Closed EXCEPT ![e] = @ + 1]
      <4>1. forgotten' = [forgotten EXCEPT ![jobEvent[j]] = @ + 1]
        BY <1>6, <2>5 DEF ExpireJob
      <4>2. QED
        BY <2>1, <2>5, <4>1 DEF Done, Closed, Keyed, StableId
    <3>2. Window!CloseWindow(e)
      BY <2>1, <2>5, <3>1 DEF Held, Loose, Window!CloseWindow
    <3>3. QED
      BY <2>5, <3>2 DEF Window!Next
  <2>6. jobState[j] = "completed" /\ Calm
           => j \in Logs /\ logEvent[j] = jobEvent[j]
    BY DEF NoAnonymousJobs, JobsLinked
  <2>7. QED
    BY <2>1, <2>2, <2>3, <2>4, <2>5, <2>6
<1>7. CASE Crash
  BY <1>7, <1>a DEF Crash
<1>8. CASE RescueScan \/ RescueFails
  BY <1>8, <1>a DEF RescueScan, RescueFails, Fault, HeldBy
<1>9. ASSUME NEW l \in Logs, RescueAdd(l) \/ RescueMark(l) PROVE Goal
  <2>1. \A j \in JobIds : jobState'[j] = "completed" <=> jobState[j] = "completed"
    BY <1>9 DEF RescueAdd, RescueMark, AddJob
  <2>2. UNCHANGED <<logEvent, pc, applied, forgotten, crashes, faults>>
    BY <1>9 DEF RescueAdd, RescueMark
  <2>3. QED
    BY <2>1, <2>2, <1>a DEF HeldBy
<1>10. ASSUME NEW l \in Logs,
              AdminCheck(l) \/ AdminMark(l) \/ AdminEnqueue(l) \/ AdminFails(l)
       PROVE Goal
  <2>1. \A j \in JobIds : jobState'[j] = "completed" <=> jobState[j] = "completed"
    BY <1>10 DEF AdminCheck, AdminMark, AdminEnqueue, AdminFails, AddJob
  <2>2. UNCHANGED <<logEvent, pc, applied, forgotten, crashes, faults>>
    BY <1>10 DEF AdminCheck, AdminMark, AdminEnqueue, AdminFails
  <2>3. QED
    BY <2>1, <2>2, <1>a DEF HeldBy
<1>11. CASE UNCHANGED vars
  BY <1>11, <1>a DEF vars, HeldBy
<1>12. QED
  BY <1>1, <1>2, <1>3, <1>4, <1>5, <1>6, <1>7, <1>8, <1>9, <1>10, <1>11
  DEF Next

(* The pipeline implements the window of idempotency.                      *)
THEOREM ImplementsIdempotency == Spec => ImplementsWindow
<1>1. Init => Window!Init
  BY ConstantsAssumption
  DEF Init, Window!Init, Done, Closed, Held, Loose, Calm, HeldBy, Keyed, JobIds
<1>2. IInv /\ [Next]_vars => [Window!Next]_<<Done, Closed, Held, Loose>>
  BY WindowRefined
<1>3. QED
  BY <1>1, <1>2, IInvHolds, PTL DEF Spec, ImplementsWindow, Window!Spec

=============================================================================
