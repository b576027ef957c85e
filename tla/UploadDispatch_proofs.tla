--------------------------- MODULE UploadDispatch_proofs ---------------------------
(***************************************************************************)
(* Proofs about the upload confirmation Lambda: it uses the store only      *)
(* through its operations, so the store's theorems hold of it too; the      *)
(* dispatch lease excludes; what is shown as running exists; and verdicts   *)
(* written from stale reads are true.                                       *)
(***************************************************************************)
EXTENDS UploadDispatch, PipelineTaskStore_proofs

\* The workflow's work on a task leaves the dispatch columns and the Lambda alone.
LEMMA EvaluateKeepsDispatch ==
    ASSUME NEW t \in Task, Evaluate(t)
    PROVE  UNCHANGED <<dispatchVars, reviewVars, handlerVars>>
BY DEF Evaluate, StartAudioProcessing, CompleteAudioProcessing, StartCallbackStep,
   CompleteCallbackStep, RecordCallbackFailure, FailStep, FinishWorkflow

\* The workflow's work on a task is one transaction of the store.
LEMMA EvaluateIsStoreStep ==
    ASSUME NEW t \in Task, Evaluate(t)
    PROVE  Next
<1>1. CASE \/ StartAudioProcessing(t)
           \/ \E uri \in Value : CompleteAudioProcessing(t, uri)
           \/ \E s \in CallbackStep, token \in Token : StartCallbackStep(t, s, token)
  BY <1>1 DEF Next
<1>2. CASE \E s \in CallbackStep, token \in Token, id \in ExternalId, value \in Value :
              CompleteCallbackStep(t, s, token, id, value)
  BY <1>2 DEF Next
<1>3. CASE \E a \in callbackAttempts : a.task = t /\ RecordCallbackFailure(a, NoValue)
  BY <1>3 DEF Next
<1>4. CASE \E s \in Step, error \in ErrorCode : FailStep(t, s, error)
  BY <1>4 DEF Next
<1>5. CASE \E result \in Outcome : FinishWorkflow(t, result, NoValue)
  BY <1>5 DEF Next
<1> QED
  BY <1>1, <1>2, <1>3, <1>4, <1>5 DEF Evaluate

\* Every call the Lambda makes is one transaction of the store, or none.
LEMMA UploadStepsAreStoreSteps ==
    ASSUME UploadTypeOK, [UploadNext]_uploadVars
    PROVE  [Next]_storeVars
<1> USE UploadAssumption
<1>1. ASSUME NEW n \in Notification, Deliver(n) \/ Crash(n) PROVE UNCHANGED storeVars
  BY <1>1 DEF Deliver, Crash
<1>2. ASSUME NEW n \in Notification, HandlerStep(n) PROVE [Next]_storeVars
  <2>1. TaskOf[n] \in Task /\ ArnOf[TaskOf[n]] \in Arn
    OBVIOUS
  <2>2. CASE Claim(n)
    BY <2>1, <2>2 DEF Claim, Next
  <2>3. CASE RecordStarted(n)
    BY <2>1, <2>3 DEF RecordStarted, Next
  <2>4. CASE RecordNotStarted(n)
    BY <2>1, <2>4 DEF RecordNotStarted, Next
  <2>5. CASE ~ (Claim(n) \/ RecordStarted(n) \/ RecordNotStarted(n))
    BY <1>2, <2>5 DEF HandlerStep, ReadRow, ReadStatus, MarkUploadComplete, EmitUploadReceived,
       ClaimRefused, DescribeExecution, StartExecution, CloseReview, Settle
  <2> QED
    BY <2>2, <2>3, <2>4, <2>5
<1>3. ASSUME NEW t \in Task, Submit(t) \/ Expire(t) PROVE Next
  BY <1>3 DEF Submit, Expire, Next
<1>4. ASSUME NEW t \in Task, Evaluate(t) PROVE Next
  BY <1>4, EvaluateIsStoreStep
<1>5. ASSUME NEW t \in Task, EndExecution(t) PROVE UNCHANGED storeVars
  BY <1>5 DEF EndExecution
<1>6. CASE UNCHANGED uploadVars
  BY <1>6 DEF uploadVars
<1> QED
  BY <1>1, <1>2, <1>3, <1>4, <1>5, <1>6 DEF UploadNext

\* Whatever its rows hold, a task's status is one of the ten statuses.
LEMMA StatusType ==
    ASSUME TypeOK, NEW t \in Task
    PROVE  Status(t) \in Outcome \cup {"PENDING",
              "STARTED_AUDIO_PROCESSING", "AUDIO_PROCESSING_FINISHED", "STARTED_ASR",
              "ASR_FINISHED", "STARTED_MODERATION_PROCESSING", "MODERATION_PROCESSING_FINISHED"}
<1>1. outcome[t] \in Outcome \cup {NoValue}
  BY DEF TypeOK
<1> QED
  BY <1>1 DEF Status, OpenStatus, Outcome

-----------------------------------------------------------------------------
(* Types                                                                   *)

\* The Lambda's own variables keep their types when it makes a step.
LEMMA HandlerTypeStep ==
    ASSUME UploadTypeOK, TypeOK', NEW n \in Notification, HandlerStep(n)
    PROVE  UploadTypeOK'
<1> USE UploadAssumption
<1>0. TaskOf[n] \in Task
  OBVIOUS
<1>1. CASE ReadRow(n)
  <2>1. executionArn[TaskOf[n]] \in Arn \cup {NoValue}
    BY <1>0 DEF UploadTypeOK, TypeOK
  <2> QED
    BY <1>1, <2>1 DEF UploadTypeOK, ReadRow, GoTo, reviewVars, Stage, Running
<1>2. CASE ReadStatus(n)
  <2>1. TypeOK
    BY DEF UploadTypeOK
  <2>2. Status(TaskOf[n]) \in Outcome \cup {"PENDING",
              "STARTED_AUDIO_PROCESSING", "AUDIO_PROCESSING_FINISHED", "STARTED_ASR",
              "ASR_FINISHED", "STARTED_MODERATION_PROCESSING", "MODERATION_PROCESSING_FINISHED"}
    BY <1>0, <2>1, StatusType
  <2> QED
    BY <1>2, <2>2 DEF UploadTypeOK, ReadStatus, GoTo, reviewVars, Stage, Running
<1>3. CASE MarkUploadComplete(n)
  BY <1>0, <1>3 DEF UploadTypeOK, MarkUploadComplete, GoTo, Stage, Running, ReviewStatus
<1>4. CASE EmitUploadReceived(n)
  BY <1>4 DEF UploadTypeOK, EmitUploadReceived, GoTo, reviewVars, Stage, Running
<1>5. CASE Claim(n)
  <2>1. attemptCount'[TaskOf[n]] \in 0 .. DispatchLimit
    BY <1>0 DEF TypeOK
  <2> QED
    BY <1>5, <2>1 DEF UploadTypeOK, Claim, GoTo, reviewVars, Stage, Running, Dispatching
<1>6. CASE ClaimRefused(n)
  BY <1>6 DEF UploadTypeOK, ClaimRefused, Return, GoTo, reviewVars, Stage
<1>7. CASE DescribeExecution(n)
  BY <1>7 DEF UploadTypeOK, DescribeExecution, Fault, GoTo, reviewVars, Stage, Running, Dispatching
<1>8. CASE StartExecution(n)
  <2>1. execution' \in [Task -> ExecutionStatus]
    BY <1>0, <1>8 DEF UploadTypeOK, StartExecution, Start, RefuseStart, ExecutionStatus
  <2>2. faults' \in 0 .. MaxFaults
    BY <1>8 DEF UploadTypeOK, StartExecution, RefuseStart, Fault
  <2>3. stage' \in [Notification -> Stage]
    BY <1>8 DEF UploadTypeOK, StartExecution, RefuseStart, GoTo, Stage, Running, Dispatching
  <2> QED
    BY <1>8, <2>1, <2>2, <2>3 DEF UploadTypeOK, StartExecution
<1>9. CASE RecordStarted(n)
  BY <1>9 DEF UploadTypeOK, RecordStarted, Return, GoTo, reviewVars, Stage, Running
<1>10. CASE RecordNotStarted(n)
  BY <1>10 DEF UploadTypeOK, RecordNotStarted, Return, GoTo, reviewVars, Stage, Running
<1>11. CASE CloseReview(n)
  BY <1>11 DEF UploadTypeOK, CloseReview, UpdateReview, Return, GoTo, Stage, ReviewStatus
<1>12. CASE Settle(n)
  BY <1>12 DEF UploadTypeOK, Settle, UpdateReview, Verdict, GoTo, Stage, ReviewStatus
<1> QED
  BY <1>1, <1>2, <1>3, <1>4, <1>5, <1>6, <1>7, <1>8, <1>9, <1>10, <1>11, <1>12 DEF HandlerStep

\* Every step keeps every variable's type.
LEMMA UploadTypeStep ==
    ASSUME UploadTypeOK, [UploadNext]_uploadVars
    PROVE  UploadTypeOK'
<1> USE UploadAssumption
<1>1. TypeOK'
  BY UploadStepsAreStoreSteps, TypeStep DEF UploadTypeOK
<1>2. ASSUME NEW n \in Notification, HandlerStep(n) PROVE UploadTypeOK'
  BY <1>1, <1>2, HandlerTypeStep
<1>3. ASSUME NEW n \in Notification, Deliver(n) PROVE UploadTypeOK'
  BY <1>1, <1>3 DEF UploadTypeOK, Deliver, CanDeliver, GoTo, reviewVars, Stage, Running, DispatchLimit
<1>4. ASSUME NEW n \in Notification, Crash(n) PROVE UploadTypeOK'
  BY <1>1, <1>4 DEF UploadTypeOK, Crash, Fault, Return, GoTo, reviewVars, Stage
<1>5. ASSUME UNCHANGED <<reviewVars, handlerVars>> PROVE UploadTypeOK'
  BY <1>1, <1>5 DEF UploadTypeOK, reviewVars, handlerVars
<1>6. ASSUME NEW t \in Task, Submit(t) \/ Expire(t) \/ Evaluate(t) PROVE UploadTypeOK'
  BY <1>5, <1>6, EvaluateKeepsDispatch DEF Submit, Expire
<1>7. ASSUME NEW t \in Task, EndExecution(t) PROVE UploadTypeOK'
  BY <1>1, <1>7 DEF UploadTypeOK, EndExecution, ExecutionStatus, handlerVars
<1> QED
  BY <1>2, <1>3, <1>4, <1>5, <1>6, <1>7 DEF UploadNext, uploadVars

\* The Lambda's state is well typed, whatever is delivered and whatever fails.
THEOREM UploadTypeCorrect == UploadSpec => []UploadTypeOK
<1>1. UploadInit => UploadTypeOK
  <2>1. Init => TypeOK
    BY DEF Init, TypeOK, Lease, StepStatus, Error, DispatchLimit
  <2> QED
    BY <2>1, UploadAssumption DEF UploadInit, UploadTypeOK, ReviewStatus, ExecutionStatus, Stage,
       DispatchLimit
<1>2. UploadTypeOK /\ [UploadNext]_uploadVars => UploadTypeOK'
  BY UploadTypeStep
<1> QED
  BY <1>1, <1>2, PTL DEF UploadSpec

\* The Lambda and the workflow it starts behave as callers of the store may.
THEOREM UploadUsesStore == UploadSpec => Spec
<1>1. UploadInit => Init
  BY DEF UploadInit
<1>2. UploadTypeOK /\ [UploadNext]_uploadVars => [Next]_storeVars
  BY UploadStepsAreStoreSteps
<1> QED
  BY <1>1, <1>2, UploadTypeCorrect, PTL DEF UploadSpec, Spec

\* Whoever reads the evaluations while uploads are confirmed sees them go
\* through the lifecycle.
THEOREM UploadImplementsLifecycle == UploadSpec => ImplementsLifecycle
BY UploadUsesStore, StoreImplementsLifecycle, PTL

-----------------------------------------------------------------------------
(* The dispatch lease                                                      *)

\* What makes the lease exclude: an invocation between claim and release holds
\* it, and its attempt is the last one that was claimed.
OwnsLease(n) ==
    dispatchLease[TaskOf[n]] = "held" /\ attempt[n] = attemptCount[TaskOf[n]]

LeaseInv ==
    /\ DispatchersExclude
    /\ \A n \in Notification : stage[n] \in Dispatching => OwnsLease(n)

\* An invocation that moves on without touching the lease keeps what it owns.
LEMMA LeaseUntouched ==
    ASSUME UploadTypeOK, LeaseInv, NEW n \in Notification, NEW s \in Stage,
           stage' = [stage EXCEPT ![n] = s],
           s \in Dispatching => stage[n] \in Dispatching,
           UNCHANGED <<dispatchLease, attemptCount>>,
           \A m \in Notification : m # n \/ s \in Dispatching => attempt'[m] = attempt[m]
    PROVE  LeaseInv'
<1>1. \A m \in Notification : stage'[m] \in Dispatching => stage[m] \in Dispatching
  BY DEF UploadTypeOK
<1>2. DispatchersExclude'
  BY <1>1 DEF LeaseInv, DispatchersExclude
<1>3. ASSUME NEW m \in Notification, stage'[m] \in Dispatching PROVE OwnsLease(m)'
  <2>1. OwnsLease(m)
    BY <1>1, <1>3 DEF LeaseInv
  <2>2. attempt'[m] = attempt[m]
    BY <1>3 DEF UploadTypeOK
  <2> QED
    BY <2>1, <2>2 DEF OwnsLease
<1> QED
  BY <1>2, <1>3 DEF LeaseInv

\* Only the dispatcher of a task releases its lease, and then it stops being one.
LEMMA LeaseReleased ==
    ASSUME UploadTypeOK, LeaseInv, NEW n \in Notification, stage[n] \in Dispatching,
           NEW s \in Stage \ Dispatching, stage' = [stage EXCEPT ![n] = s],
           \A t \in Task \ {TaskOf[n]} : dispatchLease'[t] = dispatchLease[t],
           UNCHANGED <<attempt, attemptCount>>
    PROVE  LeaseInv'
<1> USE UploadAssumption
<1>1. ASSUME NEW m \in Notification, stage'[m] \in Dispatching
      PROVE  m # n /\ stage[m] \in Dispatching
  BY <1>1 DEF UploadTypeOK
<1>2. DispatchersExclude'
  BY <1>1 DEF LeaseInv, DispatchersExclude
<1>3. ASSUME NEW m \in Notification, stage'[m] \in Dispatching PROVE OwnsLease(m)'
  <2>1. OwnsLease(m) /\ TaskOf[m] # TaskOf[n]
    BY <1>1, <1>3 DEF LeaseInv, DispatchersExclude
  <2>2. dispatchLease'[TaskOf[m]] = dispatchLease[TaskOf[m]]
    BY <2>1
  <2> QED
    BY <2>1, <2>2 DEF OwnsLease
<1> QED
  BY <1>2, <1>3 DEF LeaseInv

\* A claim finds the lease free, so nobody dispatches the task yet.
LEMMA LeaseClaimed ==
    ASSUME UploadTypeOK, LeaseInv, NEW n \in Notification, Claim(n)
    PROVE  LeaseInv'
<1> USE UploadAssumption
<1>1. /\ dispatchLease[TaskOf[n]] # "held"
      /\ dispatchLease' = [dispatchLease EXCEPT ![TaskOf[n]] = "held"]
      /\ attemptCount' = [attemptCount EXCEPT ![TaskOf[n]] = @ + 1]
      /\ attempt' = [attempt EXCEPT ![n] = attemptCount'[TaskOf[n]]]
  BY DEF Claim, ClaimDispatch, CanClaimDispatch
<1>2. stage'[n] \in Dispatching /\ \A m \in Notification \ {n} : stage'[m] = stage[m]
  BY DEF Claim, GoTo, Dispatching, UploadTypeOK
<1>3. \A m \in Notification \ {n} : stage'[m] \in Dispatching => TaskOf[m] # TaskOf[n]
  BY <1>1, <1>2 DEF LeaseInv, OwnsLease
<1>4. DispatchersExclude'
  BY <1>2, <1>3 DEF LeaseInv, DispatchersExclude
<1>5. OwnsLease(n)'
  BY <1>1 DEF OwnsLease, UploadTypeOK, TypeOK
<1>6. ASSUME NEW m \in Notification \ {n}, stage'[m] \in Dispatching PROVE OwnsLease(m)'
  <2>1. OwnsLease(m)
    BY <1>2, <1>6 DEF LeaseInv
  <2>2. /\ dispatchLease'[TaskOf[m]] = dispatchLease[TaskOf[m]]
        /\ attemptCount'[TaskOf[m]] = attemptCount[TaskOf[m]]
        /\ attempt'[m] = attempt[m]
    BY <1>1, <1>3, <1>6 DEF UploadTypeOK, TypeOK
  <2> QED
    BY <2>1, <2>2 DEF OwnsLease
<1> QED
  BY <1>4, <1>5, <1>6 DEF LeaseInv

\* Every step of an invocation keeps the lease's invariant.
LEMMA HandlerKeepsLease ==
    ASSUME UploadTypeOK, LeaseInv, NEW n \in Notification, HandlerStep(n)
    PROVE  LeaseInv'
<1> USE UploadAssumption
<1>1. ASSUME NEW s \in Stage \ Dispatching, GoTo(n, s),
             UNCHANGED <<dispatchLease, attemptCount, attempt>>
      PROVE  LeaseInv'
  BY <1>1, LeaseUntouched DEF GoTo
<1>2. CASE \/ ReadRow(n) \/ ReadStatus(n) \/ MarkUploadComplete(n) \/ EmitUploadReceived(n)
           \/ ClaimRefused(n) \/ CloseReview(n) \/ Settle(n)
  <2>1. \E s \in Stage \ Dispatching : GoTo(n, s)
    BY <1>2 DEF ReadRow, ReadStatus, MarkUploadComplete, EmitUploadReceived, ClaimRefused,
       CloseReview, Settle, Return, Stage, Running, Dispatching
  <2>2. UNCHANGED <<dispatchLease, attemptCount, attempt>>
    BY <1>2 DEF ReadRow, ReadStatus, MarkUploadComplete, EmitUploadReceived, ClaimRefused,
       CloseReview, Settle, storeVars
  <2> QED
    BY <1>1, <2>1, <2>2
<1>3. CASE Claim(n)
  BY <1>3, LeaseClaimed
<1>4. CASE DescribeExecution(n) \/ StartExecution(n)
  <2>1. \E s \in Dispatching : GoTo(n, s)
    BY <1>4 DEF DescribeExecution, StartExecution, RefuseStart, Dispatching
  <2>2. UNCHANGED <<dispatchLease, attemptCount, attempt>> /\ stage[n] \in Dispatching
    BY <1>4 DEF DescribeExecution, StartExecution, At, storeVars, Dispatching
  <2>3. Dispatching \subseteq Stage
    BY DEF Stage, Running
  <2> QED
    BY <2>1, <2>2, <2>3, LeaseUntouched DEF GoTo
<1>5. CASE RecordStarted(n) \/ RecordNotStarted(n)
  <2>1. \E s \in Stage \ Dispatching : GoTo(n, s)
    BY <1>5 DEF RecordStarted, RecordNotStarted, Return, Stage, Running, Dispatching
  <2>2. stage[n] \in Dispatching /\ UNCHANGED <<attempt, attemptCount>>
    BY <1>5 DEF RecordStarted, RecordNotStarted, RecordExecution, RecordDispatchFailure, At,
       storeVars, Dispatching
  <2>3. \A t \in Task \ {TaskOf[n]} : dispatchLease'[t] = dispatchLease[t]
    BY <1>5 DEF RecordStarted, RecordNotStarted, RecordExecution, RecordDispatchFailure,
       storeVars, UploadTypeOK, TypeOK
  <2> QED
    BY <2>1, <2>2, <2>3, LeaseReleased DEF GoTo
<1> QED
  BY <1>2, <1>3, <1>4, <1>5 DEF HandlerStep

\* Every step keeps the lease's invariant.
LEMMA LeaseStep ==
    ASSUME UploadTypeOK, LeaseInv, [UploadNext]_uploadVars
    PROVE  LeaseInv'
<1> USE UploadAssumption
<1>1. ASSUME NEW n \in Notification, HandlerStep(n) PROVE LeaseInv'
  BY <1>1, HandlerKeepsLease
<1>2. ASSUME NEW n \in Notification, Deliver(n) \/ Crash(n) PROVE LeaseInv'
  <2>1. \E s \in Stage \ Dispatching : GoTo(n, s)
    BY <1>2 DEF Deliver, Crash, Return, Stage, Running, Dispatching
  <2>2. /\ UNCHANGED <<dispatchLease, attemptCount>>
        /\ \A m \in Notification \ {n} : attempt'[m] = attempt[m]
    BY <1>2 DEF Deliver, Crash, storeVars, UploadTypeOK
  <2> QED
    BY <2>1, <2>2, LeaseUntouched DEF GoTo
<1>3. ASSUME NEW t \in Task, Expire(t) PROVE LeaseInv'
  <2>1. /\ dispatchLease' = [dispatchLease EXCEPT ![t] = "expired"]
        /\ UNCHANGED <<attemptCount, handlerVars>>
        /\ CanExpire(t)
    BY <1>3 DEF Expire, LeaseExpires
  <2>2. \A n \in Notification : stage[n] \in Dispatching => TaskOf[n] # t
    BY <2>1 DEF LeaseInv, OwnsLease, CanExpire
  <2>3. \A n \in Notification :
           TaskOf[n] # t => dispatchLease'[TaskOf[n]] = dispatchLease[TaskOf[n]]
    BY <2>1 DEF UploadTypeOK, TypeOK
  <2> QED
    BY <2>1, <2>2, <2>3 DEF LeaseInv, OwnsLease, DispatchersExclude, handlerVars
<1>4. ASSUME UNCHANGED <<dispatchVars, stage, attempt>> PROVE LeaseInv'
  BY <1>4 DEF LeaseInv, OwnsLease, DispatchersExclude, dispatchVars
<1>5. ASSUME NEW t \in Task, Submit(t) \/ Evaluate(t) \/ EndExecution(t) PROVE LeaseInv'
  BY <1>4, <1>5, EvaluateKeepsDispatch DEF Submit, CreateTask, EndExecution, handlerVars,
     dispatchVars, storeVars
<1> QED
  BY <1>1, <1>2, <1>3, <1>4, <1>5 DEF UploadNext, uploadVars, storeVars, handlerVars, dispatchVars

\* However many notifications of however many uploads overlap, one invocation
\* at a time talks to Step Functions about a task.
THEOREM DispatchersExcludeAlways == UploadSpec => []DispatchersExclude
<1>1. UploadInit => LeaseInv
  BY DEF UploadInit, LeaseInv, DispatchersExclude, Dispatching
<1>2. UploadTypeOK /\ LeaseInv /\ [UploadNext]_uploadVars => LeaseInv'
  BY LeaseStep
<1>3. LeaseInv => DispatchersExclude
  BY DEF LeaseInv
<1> QED
  BY <1>1, <1>2, <1>3, UploadTypeCorrect, PTL DEF UploadSpec

-----------------------------------------------------------------------------
(* What is recorded, read or shown as running exists                       *)

ExecutionInv ==
    /\ ShownExecutionsExist
    /\ \A n \in Notification :
          /\ stage[n] = "recording" \/ seenArn[n] # NoValue => execution[TaskOf[n]] # "none"
          /\ stage[n] = "settling" => seenStatus[n] \in Outcome \/ execution[TaskOf[n]] # "none"

\* An execution does not go away: it ends and keeps its name.
LEMMA ExecutionStays ==
    ASSUME UploadTypeOK, [UploadNext]_uploadVars, NEW t \in Task, execution[t] # "none"
    PROVE  execution'[t] # "none"
<1> USE UploadAssumption
<1>1. ASSUME NEW n \in Notification, HandlerStep(n) PROVE execution'[t] # "none"
  <2>1. CASE StartExecution(n)
    BY <2>1 DEF StartExecution, Start, RefuseStart, UploadTypeOK
  <2>2. CASE ~ StartExecution(n)
    <3>1. execution' = execution
      BY <1>1, <2>2 DEF HandlerStep, ReadRow, ReadStatus, MarkUploadComplete, EmitUploadReceived,
         Claim, ClaimRefused, DescribeExecution, RecordStarted, RecordNotStarted, CloseReview,
         Settle, reviewVars
    <3> QED
      BY <3>1
  <2> QED
    BY <2>1, <2>2
<1>2. ASSUME NEW u \in Task, EndExecution(u) PROVE execution'[t] # "none"
  BY <1>2 DEF EndExecution, UploadTypeOK
<1>3. ASSUME UNCHANGED execution PROVE execution'[t] # "none"
  BY <1>3
<1>4. ASSUME NEW n \in Notification, Deliver(n) \/ Crash(n) PROVE UNCHANGED execution
  BY <1>4 DEF Deliver, Crash, reviewVars
<1>5. ASSUME NEW u \in Task, Submit(u) \/ Expire(u) \/ Evaluate(u) PROVE UNCHANGED execution
  BY <1>5, EvaluateKeepsDispatch DEF Submit, Expire, reviewVars
<1> QED
  BY <1>1, <1>2, <1>3, <1>4, <1>5 DEF UploadNext, uploadVars, reviewVars

\* A step that shows, records and reads nothing new of an execution.
LEMMA NothingNewShown ==
    ASSUME UploadTypeOK, ExecutionInv,
           \A t \in Task : execution[t] # "none" => execution'[t] # "none",
           UNCHANGED <<executionArn, seenArn, seenStatus>>,
           \A t \in Task : reviewStatus'[t] = "PROCESSING" =>
                              reviewStatus[t] = "PROCESSING" \/ execution[t] # "none",
           \A n \in Notification :
              /\ stage'[n] = "recording" =>
                    stage[n] = "recording" \/ execution'[TaskOf[n]] # "none"
              /\ stage'[n] = "settling" =>
                    \/ stage[n] = "settling"
                    \/ seenStatus[n] \in Outcome
                    \/ execution[TaskOf[n]] # "none"
    PROVE  ExecutionInv'
BY UploadAssumption DEF ExecutionInv, ShownExecutionsExist

\* Every step of an invocation keeps the invariant.
LEMMA HandlerKeepsExecutions ==
    ASSUME UploadTypeOK, ExecutionInv, NEW n \in Notification, HandlerStep(n),
           \A t \in Task : execution[t] # "none" => execution'[t] # "none"
    PROVE  ExecutionInv'
<1> USE UploadAssumption
<1>1. TaskOf[n] \in Task
  OBVIOUS
<1>2. CASE ReadRow(n)
  BY <1>1, <1>2 DEF ReadRow, At, GoTo, ExecutionInv, ShownExecutionsExist, UploadTypeOK, storeVars,
     reviewVars
<1>3. CASE ReadStatus(n)
  BY <1>1, <1>3 DEF ReadStatus, At, GoTo, ExecutionInv, ShownExecutionsExist, UploadTypeOK,
     storeVars, reviewVars
<1>4. CASE MarkUploadComplete(n)
  <2>1. UNCHANGED <<executionArn, seenArn, seenStatus>>
    BY <1>4 DEF MarkUploadComplete, storeVars
  <2>2. \A t \in Task : reviewStatus'[t] = "PROCESSING" => reviewStatus[t] = "PROCESSING"
    BY <1>1, <1>4 DEF MarkUploadComplete, UploadTypeOK
  <2>3. \A m \in Notification :
           stage'[m] \in {"recording", "settling"} => stage'[m] = stage[m]
    BY <1>4 DEF MarkUploadComplete, GoTo, UploadTypeOK
  <2> QED
    BY <2>1, <2>2, <2>3, NothingNewShown
<1>5. CASE EmitUploadReceived(n)
  <2>1. UNCHANGED <<executionArn, seenArn, seenStatus, reviewStatus>>
    BY <1>5 DEF EmitUploadReceived, storeVars, reviewVars
  <2>2. \A m \in Notification \ {n} : stage'[m] = stage[m]
    BY <1>5 DEF EmitUploadReceived, GoTo, UploadTypeOK
  <2>3. /\ stage'[n] # "recording"
        /\ stage'[n] = "settling" => seenStatus[n] \in Outcome \/ seenArn[n] # NoValue
    BY <1>5 DEF EmitUploadReceived, GoTo, UploadTypeOK
  <2>4. stage'[n] = "settling" => seenStatus[n] \in Outcome \/ execution[TaskOf[n]] # "none"
    BY <2>3 DEF ExecutionInv
  <2> QED
    BY <2>1, <2>2, <2>3, <2>4, NothingNewShown
<1>6. CASE Claim(n) \/ ClaimRefused(n) \/ RecordNotStarted(n)
  <2>1. UNCHANGED <<executionArn, seenArn, seenStatus, reviewStatus>>
    BY <1>6 DEF Claim, ClaimDispatch, ClaimRefused, RecordNotStarted, RecordDispatchFailure,
       storeVars, reviewVars
  <2>2. \A m \in Notification :
           stage'[m] \in {"recording", "settling"} => stage'[m] = stage[m]
    BY <1>6 DEF Claim, ClaimRefused, RecordNotStarted, Return, GoTo, UploadTypeOK
  <2> QED
    BY <2>1, <2>2, NothingNewShown
<1>7. CASE DescribeExecution(n) \/ StartExecution(n)
  <2>1. UNCHANGED <<executionArn, seenArn, seenStatus, reviewStatus>>
    BY <1>7 DEF DescribeExecution, StartExecution, storeVars, reviewVars
  <2>2. \A m \in Notification \ {n} : stage'[m] = stage[m]
    BY <1>7 DEF DescribeExecution, StartExecution, RefuseStart, GoTo, UploadTypeOK
  <2>3. stage'[n] # "settling"
    BY <1>7 DEF DescribeExecution, StartExecution, RefuseStart, GoTo, UploadTypeOK
  <2>4. stage'[n] = "recording" => execution'[TaskOf[n]] # "none"
    BY <1>1, <1>7 DEF DescribeExecution, StartExecution, Start, RefuseStart, GoTo, reviewVars,
       UploadTypeOK
  <2> QED
    BY <2>1, <2>2, <2>3, <2>4, NothingNewShown
<1>8. CASE RecordStarted(n)
  <2>1. execution[TaskOf[n]] # "none" /\ UNCHANGED <<execution, reviewStatus, seenArn, seenStatus>>
    BY <1>8 DEF RecordStarted, At, ExecutionInv, reviewVars
  <2>2. \A t \in Task \ {TaskOf[n]} : executionArn'[t] = executionArn[t]
    BY <1>8 DEF RecordStarted, RecordExecution, storeVars, UploadTypeOK, TypeOK
  <2>3. /\ \A m \in Notification \ {n} : stage'[m] = stage[m]
        /\ stage'[n] # "recording"
    BY <1>8 DEF RecordStarted, Return, GoTo, UploadTypeOK
  <2>4. ShownExecutionsExist'
    BY <2>1, <2>2 DEF ExecutionInv, ShownExecutionsExist
  <2> QED
    BY <2>1, <2>3, <2>4 DEF ExecutionInv
<1>9. CASE CloseReview(n) \/ Settle(n)
  <2>1. UNCHANGED <<executionArn, seenArn, seenStatus, execution>>
    BY <1>9 DEF CloseReview, Settle, storeVars
  <2>2. \A m \in Notification :
           stage'[m] \in {"recording", "settling"} => stage'[m] = stage[m]
    BY <1>9 DEF CloseReview, Settle, Return, GoTo, UploadTypeOK
  <2>3. ASSUME Settle(n), Verdict(seenStatus[n]) = "PROCESSING"
        PROVE  execution[TaskOf[n]] # "none"
    BY <2>3 DEF Settle, At, Verdict, ExecutionInv, Outcome, Failing
  <2>4. \A t \in Task : reviewStatus'[t] = "PROCESSING" =>
                           reviewStatus[t] = "PROCESSING" \/ execution[t] # "none"
    BY <1>9, <2>3 DEF CloseReview, Settle, UpdateReview, UploadTypeOK
  <2> QED
    BY <2>1, <2>2, <2>4, NothingNewShown
<1> QED
  BY <1>2, <1>3, <1>4, <1>5, <1>6, <1>7, <1>8, <1>9 DEF HandlerStep

\* Every step keeps the invariant.
LEMMA ExecutionStep ==
    ASSUME UploadTypeOK, ExecutionInv, [UploadNext]_uploadVars
    PROVE  ExecutionInv'
<1>1. \A t \in Task : execution[t] # "none" => execution'[t] # "none"
  BY ExecutionStays
<1>2. ASSUME NEW n \in Notification, HandlerStep(n) PROVE ExecutionInv'
  BY <1>1, <1>2, HandlerKeepsExecutions
<1>3. ASSUME UNCHANGED <<executionArn, seenArn, seenStatus, reviewStatus>>,
             \A n \in Notification : stage'[n] \in {"recording", "settling"} => stage'[n] = stage[n]
      PROVE  ExecutionInv'
  BY <1>1, <1>3, NothingNewShown
<1>4. ASSUME NEW n \in Notification, Deliver(n) \/ Crash(n) PROVE ExecutionInv'
  BY <1>3, <1>4 DEF Deliver, Crash, Return, GoTo, storeVars, reviewVars, UploadTypeOK
<1>5. ASSUME NEW t \in Task, Submit(t) \/ Expire(t) \/ Evaluate(t) \/ EndExecution(t)
      PROVE  ExecutionInv'
  BY <1>3, <1>5, EvaluateKeepsDispatch DEF Submit, CreateTask, Expire, LeaseExpires, EndExecution,
     storeVars, dispatchVars, reviewVars, handlerVars
<1>6. CASE UNCHANGED uploadVars
  BY <1>3, <1>6 DEF uploadVars, storeVars, reviewVars, handlerVars
<1> QED
  BY <1>2, <1>4, <1>5, <1>6 DEF UploadNext

\* Whatever answers of Step Functions fail or are lost, an execution that is
\* recorded or a review that is shown as PROCESSING was started.
THEOREM ShownExecutionsExistAlways == UploadSpec => []ShownExecutionsExist
<1>1. UploadInit => ExecutionInv
  BY UploadAssumption DEF UploadInit, Init, ExecutionInv, ShownExecutionsExist
<1>2. UploadTypeOK /\ ExecutionInv /\ [UploadNext]_uploadVars => ExecutionInv'
  BY ExecutionStep
<1>3. ExecutionInv => ShownExecutionsExist
  BY DEF ExecutionInv
<1> QED
  BY <1>1, <1>2, <1>3, UploadTypeCorrect, PTL DEF UploadSpec

-----------------------------------------------------------------------------
(* Verdicts written from what was read earlier                             *)

VerdictInv ==
    /\ VerdictsAreTrue
    /\ \A n \in Notification :
          /\ seenStatus[n] = "SUCCEEDED" => outcome[TaskOf[n]] = "SUCCEEDED"
          /\ seenStatus[n] \in Failing => Status(TaskOf[n]) \in Failing
          /\ stage[n] = "closing" => outcome[TaskOf[n]] = "FAILED"

\* A task that has failed for its readers never recovers, although its outcome
\* may still be open.
LEMMA FailingStays ==
    ASSUME Inv, Inv', [Next]_storeVars, NEW t \in Task, Status(t) \in Failing
    PROVE  Status(t)' \in Failing
<1>1. ViewStep
  BY TransactionsAreLifecycleSteps
<1>2. Status(t) = shownStatus[t] /\ Status(t)' = shownStatus'[t]
  BY DEF shownStatus
<1>3. CASE UNCHANGED <<shownStatus, closedTasks, output>>
  BY <1>2, <1>3
<1>4. CASE Lifecycle!Next
  <2>1. PICK u \in Task :
           \/ \E s \in Lifecycle!Step :
                 \/ Lifecycle!Begin(u, s)
                 \/ \E value \in Value : Lifecycle!End(u, s, value)
                 \/ Lifecycle!BreakOff(u, s)
           \/ Lifecycle!Succeed(u)
           \/ \E o \in {"FAILED", "TIMED_OUT", "CANCELLED"} : Lifecycle!Fail(u, o)
    BY <1>4 DEF Lifecycle!Next
  <2>2. ASSUME NEW from, NEW to, Lifecycle!Show(u, from, to), from \notin Failing
        PROVE  Status(t)' \in Failing
    <3>1. shownStatus[u] = from /\ shownStatus' = [shownStatus EXCEPT ![u] = to]
      BY <2>2 DEF Lifecycle!Show, shownStatus
    <3>2. u # t
      BY <1>2, <2>2, <3>1
    <3> QED
      BY <1>2, <3>1, <3>2 DEF shownStatus
  <2>3. \A s \in Lifecycle!Step : Lifecycle!Before[s] \notin Failing /\ Lifecycle!During[s] \notin Failing
    BY DEF Lifecycle!Step, Lifecycle!Before, Lifecycle!During, Failing
  <2>4. CASE \E s \in Lifecycle!Step :
                \/ Lifecycle!Begin(u, s)
                \/ \E value \in Value : Lifecycle!End(u, s, value)
                \/ Lifecycle!BreakOff(u, s)
    BY <2>2, <2>3, <2>4 DEF Lifecycle!Begin, Lifecycle!End, Lifecycle!BreakOff
  <2>5. CASE Lifecycle!Succeed(u)
    <3>1. /\ shownStatus[u] \notin Failing
          /\ shownStatus' = [shownStatus EXCEPT ![u] = "SUCCEEDED"]
      BY <2>5 DEF Lifecycle!Succeed, Lifecycle!After, shownStatus, Failing
    <3> QED
      BY <1>2, <3>1 DEF shownStatus
  <2>6. CASE \E o \in {"FAILED", "TIMED_OUT", "CANCELLED"} : Lifecycle!Fail(u, o)
    <3>1. PICK o \in Failing : shownStatus' = [shownStatus EXCEPT ![u] = o]
      BY <2>6 DEF Lifecycle!Fail, shownStatus, Failing
    <3> QED
      BY <1>2, <3>1 DEF shownStatus
  <2> QED
    BY <2>1, <2>4, <2>5, <2>6
<1> QED
  BY <1>1, <1>3, <1>4 DEF ViewStep

\* Verdicts stay true: an outcome stays, and a failed task does not recover.
LEMMA VerdictsStay ==
    ASSUME UploadTypeOK, VerdictInv, Inv, Inv', [Next]_storeVars,
           \A t \in Task :
              \/ reviewStatus'[t] = reviewStatus[t]
              \/ reviewStatus'[t] \notin {"COMPLETED", "ERROR"}
              \/ reviewStatus'[t] = "COMPLETED" /\ outcome[t] = "SUCCEEDED"
              \/ reviewStatus'[t] = "ERROR" /\ Status(t) \in Failing,
           \A n \in Notification :
              /\ \/ seenStatus'[n] = seenStatus[n]
                 \/ seenStatus'[n] = Status(TaskOf[n])
              /\ stage'[n] = "closing" =>
                    stage[n] = "closing" \/ outcome'[TaskOf[n]] = "FAILED"
    PROVE  VerdictInv'
<1> USE UploadAssumption
<1>1. \A t \in Task : outcome[t] # NoValue => outcome'[t] = outcome[t]
  BY OutcomeMoves DEF OutcomeMove, Inv
<1>2. \A t \in Task : Status(t) \in Failing => Status(t)' \in Failing
  BY FailingStays
<1>3. NoValue \notin Outcome
  BY NoValueAssumption DEF Outcome
<1>4. VerdictsAreTrue'
  BY <1>1, <1>2, <1>3 DEF VerdictInv, VerdictsAreTrue, Outcome
<1>5. ASSUME NEW t \in Task, Status(t) = "SUCCEEDED" PROVE outcome[t] = "SUCCEEDED"
  BY <1>5 DEF Status, OpenStatus
<1>6. ASSUME NEW n \in Notification
      PROVE  /\ seenStatus'[n] = "SUCCEEDED" => outcome'[TaskOf[n]] = "SUCCEEDED"
             /\ seenStatus'[n] \in Failing => Status(TaskOf[n])' \in Failing
             /\ stage'[n] = "closing" => outcome'[TaskOf[n]] = "FAILED"
  <2>1. TaskOf[n] \in Task
    OBVIOUS
  <2>2. seenStatus'[n] = "SUCCEEDED" => outcome[TaskOf[n]] = "SUCCEEDED"
    BY <1>5, <2>1 DEF VerdictInv
  <2>3. seenStatus'[n] \in Failing => Status(TaskOf[n]) \in Failing
    BY <2>1 DEF VerdictInv
  <2>4. outcome[TaskOf[n]] \in {"SUCCEEDED", "FAILED"} => outcome'[TaskOf[n]] = outcome[TaskOf[n]]
    BY <1>1, <1>3, <2>1 DEF Outcome
  <2>5. stage'[n] = "closing" => outcome'[TaskOf[n]] = "FAILED"
    BY <2>4 DEF VerdictInv
  <2>6. seenStatus'[n] \in Failing => Status(TaskOf[n])' \in Failing
    BY <1>2, <2>1, <2>3
  <2> QED
    BY <2>2, <2>4, <2>5, <2>6
<1> QED
  BY <1>4, <1>6 DEF VerdictInv

\* What a step of an invocation writes to the review agrees with the task.
LEMMA HandlerWritesTruth ==
    ASSUME UploadTypeOK, Inv, VerdictInv, NEW n \in Notification, HandlerStep(n), NEW t \in Task
    PROVE  \/ reviewStatus'[t] = reviewStatus[t]
           \/ reviewStatus'[t] \notin {"COMPLETED", "ERROR"}
           \/ reviewStatus'[t] = "COMPLETED" /\ outcome[t] = "SUCCEEDED"
           \/ reviewStatus'[t] = "ERROR" /\ Status(t) \in Failing
<1> USE UploadAssumption
<1>1. CASE MarkUploadComplete(n)
  BY <1>1 DEF MarkUploadComplete, UploadTypeOK
<1>2. CASE CloseReview(n)
  <2>1. outcome[TaskOf[n]] = "FAILED"
    BY <1>2 DEF CloseReview, At, VerdictInv
  <2>2. Status(TaskOf[n]) \in Failing
    BY <2>1, NoValueAssumption DEF Status, Failing
  <2> QED
    BY <1>2, <2>2 DEF CloseReview, UpdateReview, UploadTypeOK
<1>3. CASE Settle(n)
  BY <1>3 DEF Settle, UpdateReview, Verdict, VerdictInv, UploadTypeOK
<1>4. CASE ~ (MarkUploadComplete(n) \/ CloseReview(n) \/ Settle(n))
  <2>1. reviewStatus' = reviewStatus
    BY <1>4 DEF HandlerStep, ReadRow, ReadStatus, EmitUploadReceived, Claim, ClaimRefused,
       DescribeExecution, StartExecution, RecordStarted, RecordNotStarted, reviewVars
  <2> QED
    BY <2>1
<1> QED
  BY <1>1, <1>2, <1>3, <1>4

\* Every step keeps the invariant.
LEMMA VerdictStep ==
    ASSUME UploadTypeOK, Inv, Inv', VerdictInv, [UploadNext]_uploadVars
    PROVE  VerdictInv'
<1>1. [Next]_storeVars
  BY UploadStepsAreStoreSteps
<1>2. ASSUME NEW n \in Notification, HandlerStep(n) PROVE VerdictInv'
  <2>1. \A m \in Notification :
           \/ seenStatus'[m] = seenStatus[m]
           \/ seenStatus'[m] = Status(TaskOf[m])
    BY <1>2 DEF HandlerStep, ReadRow, ReadStatus, MarkUploadComplete, EmitUploadReceived, Claim,
       ClaimRefused, DescribeExecution, StartExecution, RecordStarted, RecordNotStarted,
       CloseReview, Settle, UploadTypeOK
  <2>2. ASSUME NEW m \in Notification, stage'[m] = "closing", stage[m] # "closing"
        PROVE  outcome'[TaskOf[m]] = "FAILED"
    <3>1. stage' # stage /\ (m # n => stage'[m] = stage[m])
      BY <1>2, <2>2 DEF HandlerStep, ReadRow, ReadStatus, MarkUploadComplete, EmitUploadReceived,
         Claim, ClaimRefused, DescribeExecution, StartExecution, RefuseStart, RecordStarted,
         RecordNotStarted, CloseReview, Settle, Return, GoTo, UploadTypeOK
    <3>2. CASE RecordNotStarted(n)
      BY <2>2, <3>1, <3>2 DEF RecordNotStarted, Return, GoTo, UploadTypeOK
    <3>3. CASE ~ RecordNotStarted(n)
      BY <1>2, <2>2, <3>1, <3>3 DEF HandlerStep, ReadRow, ReadStatus, MarkUploadComplete,
         EmitUploadReceived, Claim, ClaimRefused, DescribeExecution, StartExecution, RefuseStart,
         RecordStarted, CloseReview, Settle, Return, GoTo, UploadTypeOK
    <3> QED
      BY <3>2, <3>3
  <2> QED
    BY <1>1, <1>2, <2>1, <2>2, HandlerWritesTruth, VerdictsStay
<1>3. ASSUME UNCHANGED <<reviewStatus, seenStatus>>,
             \A n \in Notification : stage'[n] = "closing" => stage[n] = "closing"
      PROVE  VerdictInv'
  BY <1>1, <1>3, VerdictsStay
<1>4. ASSUME NEW n \in Notification, Deliver(n) \/ Crash(n) PROVE VerdictInv'
  BY <1>3, <1>4 DEF Deliver, Crash, Return, GoTo, reviewVars, UploadTypeOK
<1>5. ASSUME NEW t \in Task, Submit(t) \/ Expire(t) \/ Evaluate(t) \/ EndExecution(t)
      PROVE  VerdictInv'
  BY <1>3, <1>5, EvaluateKeepsDispatch DEF Submit, Expire, EndExecution, reviewVars, handlerVars
<1>6. CASE UNCHANGED uploadVars
  BY <1>3, <1>6 DEF uploadVars, reviewVars, handlerVars
<1> QED
  BY <1>2, <1>4, <1>5, <1>6 DEF UploadNext

\* A review is COMPLETED or ERROR only if its task succeeded or can no longer
\* succeed, although the verdict is written from a status read long before.
THEOREM VerdictsAreTrueAlways == UploadSpec => []VerdictsAreTrue
<1>1. UploadInit => VerdictInv
  BY DEF UploadInit, VerdictInv, VerdictsAreTrue, Failing
<1>2. UploadTypeOK /\ Inv /\ Inv' /\ VerdictInv /\ [UploadNext]_uploadVars => VerdictInv'
  BY VerdictStep
<1>3. VerdictInv => VerdictsAreTrue
  BY DEF VerdictInv
<1> QED
  BY <1>1, <1>2, <1>3, UploadTypeCorrect, UploadUsesStore, InvInductive, PTL DEF UploadSpec

=============================================================================
