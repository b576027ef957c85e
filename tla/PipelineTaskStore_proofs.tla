------------------------- MODULE PipelineTaskStore_proofs -------------------------
(***************************************************************************)
(* Theorems about the task store, for every set of tasks, tokens, ids,     *)
(* values, errors and ARNs; and that it implements TaskLifecycle.          *)
(***************************************************************************)
EXTENDS PipelineTaskStore, TLAPS

\* Assigning one step's column of one task keeps the column's type.
LEMMA SetField ==
    ASSUME NEW T, NEW S, NEW V, NEW f \in [T -> [S -> V]],
           NEW t \in T, NEW s \in S, NEW v \in V
    PROVE  [f EXCEPT ![t][s] = v] \in [T -> [S -> V]]
  OBVIOUS

-----------------------------------------------------------------------------
(* Type correctness                                                        *)

\* Every transaction writes values of the columns' types.
LEMMA TypeStep ==
    ASSUME TypeOK, [Next]_storeVars
    PROVE  TypeOK'
<1> USE DEF TypeOK
<1>1. ASSUME NEW t \in Task, CreateTask(t) PROVE TypeOK'
  BY <1>1 DEF CreateTask, dispatchVars, stepVars
<1>2. ASSUME NEW t \in Task, ClaimDispatch(t) PROVE TypeOK'
  <2>1. attemptCount[t] \in 0 .. 3 /\ attemptCount[t] < 3
    BY <1>2 DEF ClaimDispatch, CanClaimDispatch, DispatchLimit
  <2>2. attemptCount[t] + 1 \in 0 .. DispatchLimit
    BY <2>1 DEF DispatchLimit
  <2> QED
    BY <2>2, <1>2 DEF ClaimDispatch, stepVars, Lease
<1>3. ASSUME NEW t \in Task, LeaseExpires(t) PROVE TypeOK'
  BY <1>3 DEF LeaseExpires, stepVars, Lease
<1>4. ASSUME NEW t \in Task, RecordDispatchFailure(t) PROVE TypeOK'
  BY <1>4 DEF RecordDispatchFailure, stepVars, Lease, Outcome
<1>5. ASSUME NEW t \in Task, NEW arn \in Arn, RecordExecution(t, arn) PROVE TypeOK'
  BY <1>5 DEF RecordExecution, stepVars, Lease
<1>6. ASSUME NEW t \in Task, StartAudioProcessing(t) PROVE TypeOK'
  BY <1>6 DEF StartAudioProcessing, dispatchVars, StepStatus, Step
<1>7. ASSUME NEW t \in Task, NEW uri \in Value, CompleteAudioProcessing(t, uri) PROVE TypeOK'
  BY <1>7 DEF CompleteAudioProcessing, dispatchVars, StepStatus, Step
<1>8. ASSUME NEW t \in Task, NEW s \in CallbackStep, NEW token \in Token,
             StartCallbackStep(t, s, token)
      PROVE TypeOK'
  <2>1. step' \in [Task -> [Step -> StepStatus]]
    BY <1>8, SetField DEF StartCallbackStep, StepStatus, Step
  <2>2. callbackAttempts' \in SUBSET CallbackAttempt
    BY <1>8 DEF StartCallbackStep, CallbackAttempt
  <2> QED
    BY <2>1, <2>2, <1>8 DEF StartCallbackStep, dispatchVars
<1>9. ASSUME NEW t \in Task, NEW s \in CallbackStep, NEW id \in ExternalId,
             RecordExternalId(t, s, id)
      PROVE TypeOK'
  BY <1>9 DEF RecordExternalId, dispatchVars
<1>10. ASSUME NEW t \in Task, NEW s \in CallbackStep, NEW token \in Token,
              NEW id \in ExternalId, NEW value \in Value,
              CompleteCallbackStep(t, s, token, id, value)
       PROVE TypeOK'
  <2>1. CASE output[t][s] = value
    BY <2>1, <1>10 DEF CompleteCallbackStep, dispatchVars
  <2>2. CASE output[t][s] # value
    <3>1. s \in Step /\ "COMPLETED" \in StepStatus
      BY DEF Step, StepStatus
    <3>2. step' = [step EXCEPT ![t][s] = "COMPLETED"]
      BY <2>2, <1>10 DEF CompleteCallbackStep
    <3>3. step' \in [Task -> [Step -> StepStatus]]
      BY <3>1, <3>2, SetField
    <3>4. output' = [output EXCEPT ![t][s] = value]
      BY <2>2, <1>10 DEF CompleteCallbackStep
    <3>5. output' \in [Task -> [Step -> Value \cup {NoValue}]]
      BY <3>1, <3>4, SetField
    <3>6. externalId' = [externalId EXCEPT ![t][s] = id]
      BY <2>2, <1>10 DEF CompleteCallbackStep
    <3>7. externalId' \in [Task -> [CallbackStep -> ExternalId \cup {NoValue}]]
      BY <3>6, SetField
    <3> QED
      BY <3>3, <3>5, <3>7, <1>10 DEF CompleteCallbackStep, dispatchVars
  <2> QED
    BY <2>1, <2>2
<1>11. ASSUME NEW t \in Task, NEW s \in Step, NEW error \in ErrorCode, FailStep(t, s, error)
       PROVE TypeOK'
  <2>1. CASE Status(t) = "FAILED"
    BY <2>1, <1>11 DEF FailStep, dispatchVars
  <2>2. CASE Status(t) # "FAILED"
    <3>1. step' = [step EXCEPT ![t][s] = "FAILED"] /\ "FAILED" \in StepStatus
      BY <2>2, <1>11 DEF FailStep, StepStatus
    <3>2. step' \in [Task -> [Step -> StepStatus]]
      BY <3>1, SetField
    <3>3. stepError' = [stepError EXCEPT ![t][s] = error] /\ error \in Error
      BY <2>2, <1>11 DEF FailStep, Error
    <3>4. stepError' \in [Task -> [Step -> Error]]
      BY <3>3, SetField
    <3>5. outcome' = [outcome EXCEPT ![t] = "FAILED"]
      BY <2>2, <1>11 DEF FailStep
    <3> QED
      BY <3>2, <3>4, <3>5, <1>11 DEF FailStep, dispatchVars, Outcome
  <2> QED
    BY <2>1, <2>2
<1>12. ASSUME NEW t \in Task, NEW result \in Outcome,
              NEW error \in ErrorCode \cup {NoValue}, FinishWorkflow(t, result, error)
       PROVE TypeOK'
  <2>1. step' \in [Task -> [Step -> StepStatus]]
    BY <1>12 DEF FinishWorkflow, StepStatus
  <2>2. stepError' \in [Task -> [Step -> Error]]
    BY <1>12 DEF FinishWorkflow, Error
  <2> QED
    BY <2>1, <2>2, <1>12 DEF FinishWorkflow, dispatchVars, Outcome
<1>13. ASSUME NEW a \in callbackAttempts, NEW error \in ErrorCode \cup {NoValue},
              RecordCallbackFailure(a, error)
       PROVE TypeOK'
  <2>1. a.task \in Task /\ a.step \in Step
    BY DEF CallbackAttempt, Step
  <2>2. CASE Status(a.task) = "FAILED"
    BY <2>2, <1>13 DEF RecordCallbackFailure, dispatchVars
  <2>3. CASE Status(a.task) # "FAILED"
    <3>1. step' = [step EXCEPT ![a.task][a.step] = "FAILED"] /\ "FAILED" \in StepStatus
      BY <2>3, <1>13 DEF RecordCallbackFailure, StepStatus
    <3>2. step' \in [Task -> [Step -> StepStatus]]
      BY <2>1, <3>1, SetField
    <3>3. stepError' = [stepError EXCEPT ![a.task][a.step] = error] /\ error \in Error
      BY <2>3, <1>13 DEF RecordCallbackFailure, Error
    <3>4. stepError' \in [Task -> [Step -> Error]]
      BY <2>1, <3>3, SetField
    <3> QED
      BY <3>2, <3>4, <1>13 DEF RecordCallbackFailure, dispatchVars
  <2> QED
    BY <2>2, <2>3
<1>14. ASSUME NEW a \in callbackAttempts, NEW result \in {"SUCCEEDED", "FAILED"},
              FinalizeCallback(a, result)
       PROVE TypeOK'
  BY <1>12, <1>14 DEF FinalizeCallback, CallbackAttempt, Outcome
<1>15. CASE UNCHANGED storeVars
  BY <1>15 DEF storeVars
<1> QED
  BY <1>1, <1>2, <1>3, <1>4, <1>5, <1>6, <1>7, <1>8, <1>9, <1>10, <1>11, <1>12, <1>13,
     <1>14, <1>15 DEF Next

\* Every transaction of the store writes values of the columns' types, and
\* claim_dispatch never takes attempt_count past the limit.
THEOREM TypeCorrect == Spec => []TypeOK
<1>1. Init => TypeOK
  BY DEF Init, TypeOK, Lease, StepStatus, Error, DispatchLimit
<1>2. TypeOK /\ [Next]_storeVars => TypeOK'
  BY TypeStep
<1> QED
  BY <1>1, <1>2, PTL DEF Spec

-----------------------------------------------------------------------------
(* What the derived status says about the rows                             *)

Prior == [transcription |-> "audio", moderation |-> "transcription"]

\* The outcome and the step rows of one task have their types.
LEMMA TaskTypes ==
    ASSUME TypeOK, NEW t \in Task
    PROVE  /\ outcome[t] \in Outcome \cup {NoValue}
           /\ NoValue \notin Outcome
           /\ \A s \in Step : step[t][s] \in StepStatus
<1>1. NoValue \notin Outcome
  BY NoValueAssumption DEF Outcome
<1> QED
  BY <1>1 DEF TypeOK

\* An outcome is the status; any other status means that there is none and
\* that no step has failed.
LEMMA StatusAndOutcome ==
    ASSUME TypeOK, NEW t \in Task
    PROVE  /\ outcome[t] # NoValue => Status(t) = outcome[t]
           /\ Status(t) \notin Outcome =>
                 outcome[t] = NoValue /\ \A s \in Step : step[t][s] # "FAILED"
<1>1. outcome[t] # NoValue => Status(t) = outcome[t]
  BY DEF Status
<1>2. outcome[t] = NoValue /\ (\E s \in Step : step[t][s] = "FAILED") => Status(t) = "FAILED"
  BY DEF Status
<1> QED
  BY <1>1, <1>2, TaskTypes DEF Outcome

\* The status of a task in progress names the step that is running.
LEMMA StatusStarted ==
    ASSUME TypeOK, NEW t \in Task, NEW s \in Step, Status(t) = Started[s]
    PROVE  outcome[t] = NoValue /\ step[t][s] = "PROCESSING"
<1>1. Status(t) \notin Outcome
  BY DEF Started, Outcome, Step, CallbackStep
<1>2. outcome[t] = NoValue /\ Status(t) = OpenStatus(t)
  BY <1>1, StatusAndOutcome DEF Status
<1> QED
  BY <1>2 DEF OpenStatus, Started, Step, CallbackStep

\* The status a step can begin from means that the previous one is complete
\* and that this one is PENDING.
LEMMA StatusReady ==
    ASSUME TypeOK, NEW t \in Task, NEW s \in CallbackStep, Status(t) = Ready[s]
    PROVE  /\ outcome[t] = NoValue
           /\ step[t][s] = "PENDING"
           /\ step[t][Prior[s]] = "COMPLETED"
<1>1. Status(t) \notin Outcome
  BY DEF Ready, Outcome, CallbackStep
<1>2. outcome[t] = NoValue /\ Status(t) = OpenStatus(t)
  BY <1>1, StatusAndOutcome DEF Status
<1>3. /\ step[t]["audio"] \in StepStatus \ {"FAILED"}
      /\ step[t]["transcription"] \in StepStatus \ {"FAILED"}
      /\ step[t]["moderation"] \in StepStatus \ {"FAILED"}
  BY <1>1, StatusAndOutcome, TaskTypes DEF Step, CallbackStep
<1>4. CASE s = "transcription"
  BY <1>2, <1>3, <1>4 DEF OpenStatus, Ready, StepStatus, Prior
<1>5. CASE s = "moderation"
  BY <1>2, <1>3, <1>5 DEF OpenStatus, Ready, StepStatus, Prior
<1> QED
  BY <1>4, <1>5 DEF CallbackStep

\* A task that reads PENDING has no outcome and has not begun its audio.
LEMMA StatusPending ==
    ASSUME TypeOK, NEW t \in Task, Status(t) = "PENDING"
    PROVE  outcome[t] = NoValue /\ step[t]["audio"] = "PENDING"
<1>1. Status(t) \notin Outcome
  BY DEF Outcome
<1>2. outcome[t] = NoValue /\ Status(t) = OpenStatus(t)
  BY <1>1, StatusAndOutcome DEF Status
<1>3. "audio" \in Step
  BY DEF Step
<1>4. step[t]["audio"] \in StepStatus /\ step[t]["audio"] # "FAILED"
  BY <1>1, <1>3, StatusAndOutcome, TaskTypes
<1> QED
  BY <1>2, <1>4 DEF OpenStatus, StepStatus

\* A task that can succeed has its transcript and nothing running or failed.
LEMMA StatusFinished ==
    ASSUME TypeOK, StepsInOrder, NEW t \in Task,
           Status(t) \in {"ASR_FINISHED", "MODERATION_PROCESSING_FINISHED"}
    PROVE  /\ step[t]["transcription"] = "COMPLETED"
           /\ step[t]["moderation"] \in {"PENDING", "COMPLETED"}
<1>1. Status(t) \notin Outcome
  BY DEF Outcome
<1>2. Status(t) = OpenStatus(t)
  BY <1>1, StatusAndOutcome DEF Status
<1>3. /\ step[t]["transcription"] \in StepStatus \ {"FAILED"}
      /\ step[t]["moderation"] \in StepStatus \ {"FAILED"}
  BY <1>1, StatusAndOutcome, TaskTypes DEF Step, CallbackStep
<1> QED
  BY <1>2, <1>3 DEF OpenStatus, StepStatus, StepsInOrder

-----------------------------------------------------------------------------
(* What one transaction can do to the rows of a task                       *)

\* Assigning one step's column of one task changes that column only.
LEMMA GetField ==
    ASSUME NEW T, NEW S, NEW V, NEW f \in [T -> [S -> V]],
           NEW t \in T, NEW s \in S, NEW v, NEW u \in T, NEW r \in S
    PROVE  [f EXCEPT ![t][s] = v][u][r] = IF u = t /\ r = s THEN v ELSE f[u][r]
  OBVIOUS

StepKept(t, s) == step'[t][s] = step[t][s] /\ output'[t][s] = output[t][s]

StepBegins(t, s) ==
    /\ step[t][s] = "PENDING" /\ step'[t][s] = "PROCESSING"
    /\ output'[t][s] = output[t][s]
    /\ s \in CallbackStep => step[t][Prior[s]] = "COMPLETED"

StepCompletes(t, s) ==
    /\ step[t][s] = "PROCESSING" /\ step'[t][s] = "COMPLETED"
    /\ output'[t][s] \in Value

StepBreaks(t, s) ==
    /\ step[t][s] = "PROCESSING" /\ step'[t][s] = "FAILED"
    /\ output'[t][s] = output[t][s]

\* A step's row is only moved along while the task is open, and only from one
\* status to the next.
StepMove(t, s) ==
    \/ StepKept(t, s)
    \/ outcome[t] = NoValue /\ (StepBegins(t, s) \/ StepCompletes(t, s) \/ StepBreaks(t, s))

\* A transaction keeps, begins, completes or breaks off a step; of a closed task it
\* keeps every step.
LEMMA StepMoves ==
    ASSUME TypeOK, OutputsMatchSteps, [Next]_storeVars, NEW u \in Task, NEW r \in Step
    PROVE  StepMove(u, r)
<1> USE DEF StepMove
<1>1. ASSUME NEW t \in Task, StartAudioProcessing(t) PROVE StepMove(u, r)
  <2>1. output' = output
    BY <1>1 DEF StartAudioProcessing
  <2>2. CASE Status(t) = "PENDING"
    <3>1. step' = [step EXCEPT ![t]["audio"] = "PROCESSING"] /\ "audio" \in Step
      BY <1>1, <2>2 DEF StartAudioProcessing, Step
    <3>2. step'[u][r] = IF u = t /\ r = "audio" THEN "PROCESSING" ELSE step[u][r]
      BY <3>1, GetField DEF TypeOK
    <3> QED
      BY <2>1, <2>2, <3>2, StatusPending DEF StepKept, StepBegins, CallbackStep
  <2>3. CASE Status(t) # "PENDING"
    <3>1. step' = [step EXCEPT ![t]["audio"] = step[t]["audio"]] /\ "audio" \in Step
      BY <1>1, <2>3 DEF StartAudioProcessing, Step
    <3>2. step'[u][r] = step[u][r]
      BY <3>1 DEF TypeOK
    <3> QED
      BY <2>1, <3>2 DEF StepKept
  <2> QED
    BY <2>2, <2>3
<1>2. ASSUME NEW t \in Task, NEW uri \in Value, CompleteAudioProcessing(t, uri)
      PROVE  StepMove(u, r)
  <2>1. /\ step' = [step EXCEPT ![t]["audio"] = "COMPLETED"]
        /\ output' = [output EXCEPT ![t]["audio"] = uri]
        /\ "audio" \in Step
    BY <1>2 DEF CompleteAudioProcessing, Step
  <2>2. /\ step'[u][r] = IF u = t /\ r = "audio" THEN "COMPLETED" ELSE step[u][r]
        /\ output'[u][r] = IF u = t /\ r = "audio" THEN uri ELSE output[u][r]
    BY <2>1, GetField DEF TypeOK
  <2>3. CASE output[t]["audio"] = uri
    <3>1. step[t]["audio"] = "COMPLETED"
      BY <2>1, <2>3, NoValueAssumption DEF OutputsMatchSteps
    <3> QED
      BY <2>2, <2>3, <3>1 DEF StepKept
  <2>4. CASE output[t]["audio"] # uri
    <3>1. Status(t) = Started["audio"]
      BY <1>2, <2>4 DEF CompleteAudioProcessing, CanCompleteAudioProcessing, Started
    <3>2. outcome[t] = NoValue /\ step[t]["audio"] = "PROCESSING"
      BY <2>1, <3>1, StatusStarted
    <3> QED
      BY <2>2, <3>2 DEF StepKept, StepCompletes
  <2> QED
    BY <2>3, <2>4
<1>3. ASSUME NEW t \in Task, NEW s \in CallbackStep, NEW token \in Token,
             StartCallbackStep(t, s, token)
      PROVE  StepMove(u, r)
  <2>1. /\ step' = [step EXCEPT ![t][s] = "PROCESSING"] /\ output' = output
        /\ s \in Step
    BY <1>3 DEF StartCallbackStep, Step
  <2>2. step'[u][r] = IF u = t /\ r = s THEN "PROCESSING" ELSE step[u][r]
    BY <2>1, GetField DEF TypeOK
  <2>3. CASE Status(t) = Started[s]
    BY <2>1, <2>2, <2>3, StatusStarted DEF StepKept
  <2>4. CASE Status(t) = Ready[s]
    BY <2>1, <2>2, <2>4, StatusReady DEF StepKept, StepBegins
  <2> QED
    BY <1>3, <2>3, <2>4 DEF StartCallbackStep, CanStartCallbackStep
<1>4. ASSUME NEW t \in Task, NEW s \in CallbackStep, NEW token \in Token,
             NEW id \in ExternalId, NEW value \in Value,
             CompleteCallbackStep(t, s, token, id, value)
      PROVE  StepMove(u, r)
  <2>1. CASE output[t][s] = value
    BY <1>4, <2>1 DEF CompleteCallbackStep, StepKept
  <2>2. CASE output[t][s] # value
    <3>1. /\ step' = [step EXCEPT ![t][s] = "COMPLETED"]
          /\ output' = [output EXCEPT ![t][s] = value]
          /\ Status(t) = Started[s]
      BY <1>4, <2>2 DEF CompleteCallbackStep, CanCompleteCallbackStep
    <3>2. s \in Step
      BY DEF Step
    <3>3. /\ step'[u][r] = IF u = t /\ r = s THEN "COMPLETED" ELSE step[u][r]
          /\ output'[u][r] = IF u = t /\ r = s THEN value ELSE output[u][r]
      BY <3>1, <3>2, GetField DEF TypeOK
    <3> QED
      BY <3>1, <3>2, <3>3, StatusStarted DEF StepKept, StepCompletes
  <2> QED
    BY <2>1, <2>2
<1>5. ASSUME NEW t \in Task, NEW s \in Step, NEW error \in ErrorCode, FailStep(t, s, error)
      PROVE  StepMove(u, r)
  <2>1. output' = output
    BY <1>5 DEF FailStep
  <2>2. CASE Status(t) = "FAILED"
    BY <1>5, <2>1, <2>2 DEF FailStep, StepKept
  <2>3. CASE Status(t) # "FAILED"
    <3>1. /\ step' = [step EXCEPT ![t][s] = "FAILED"]
          /\ Status(t) = Started[s]
      BY <1>5, <2>3 DEF FailStep, CanFailStep
    <3>2. step'[u][r] = IF u = t /\ r = s THEN "FAILED" ELSE step[u][r]
      BY <3>1, GetField DEF TypeOK
    <3> QED
      BY <2>1, <3>1, <3>2, StatusStarted DEF StepKept, StepBreaks
  <2> QED
    BY <2>2, <2>3
<1>6. ASSUME NEW t \in Task, NEW result \in Outcome,
             NEW error \in ErrorCode \cup {NoValue}, FinishWorkflow(t, result, error)
      PROVE  StepMove(u, r)
  <2>1. output' = output
    BY <1>6 DEF FinishWorkflow
  <2>2. \/ step'[u][r] = step[u][r]
        \/ outcome[u] = NoValue /\ step[u][r] = "PROCESSING" /\ step'[u][r] = "FAILED"
    BY <1>6 DEF FinishWorkflow, Interrupted, TypeOK
  <2> QED
    BY <2>1, <2>2 DEF StepKept, StepBreaks
<1>7. ASSUME NEW a \in callbackAttempts, NEW error \in ErrorCode \cup {NoValue},
             RecordCallbackFailure(a, error)
      PROVE  StepMove(u, r)
  <2>1. a.task \in Task /\ a.step \in Step /\ output' = output
    BY <1>7 DEF RecordCallbackFailure, TypeOK, CallbackAttempt, Step
  <2>2. CASE Status(a.task) = "FAILED"
    BY <1>7, <2>1, <2>2 DEF RecordCallbackFailure, StepKept
  <2>3. CASE Status(a.task) # "FAILED"
    <3>1. /\ step' = [step EXCEPT ![a.task][a.step] = "FAILED"]
          /\ Status(a.task) = Started[a.step]
      BY <1>7, <2>3 DEF RecordCallbackFailure, CanRecordCallbackFailure
    <3>2. step'[u][r] = IF u = a.task /\ r = a.step THEN "FAILED" ELSE step[u][r]
      BY <2>1, <3>1, GetField DEF TypeOK
    <3> QED
      BY <2>1, <3>1, <3>2, StatusStarted DEF StepKept, StepBreaks
  <2> QED
    BY <2>2, <2>3
<1>8. ASSUME NEW a \in callbackAttempts, NEW result \in {"SUCCEEDED", "FAILED"},
             FinalizeCallback(a, result)
      PROVE  StepMove(u, r)
  BY <1>6, <1>8 DEF FinalizeCallback, TypeOK, CallbackAttempt, Outcome
<1>9. ASSUME UNCHANGED <<step, output>> PROVE StepMove(u, r)
  BY <1>9 DEF StepKept
<1>10. ASSUME NEW t \in Task,
              \/ CreateTask(t) \/ ClaimDispatch(t) \/ LeaseExpires(t) \/ RecordDispatchFailure(t)
              \/ \E arn \in Arn : RecordExecution(t, arn)
              \/ \E s \in CallbackStep, id \in ExternalId : RecordExternalId(t, s, id)
       PROVE  UNCHANGED <<step, output>>
  BY <1>10 DEF CreateTask, ClaimDispatch, LeaseExpires, RecordDispatchFailure, RecordExecution,
     RecordExternalId, stepVars
<1> QED
  BY <1>1, <1>2, <1>3, <1>4, <1>5, <1>6, <1>7, <1>8, <1>9, <1>10 DEF Next, storeVars

\* A task is closed once: with success only when its work is done, without it
\* only with no step left running - or by the dispatcher that gave up on it.
OutcomeMove(t) ==
    \/ outcome'[t] = outcome[t]
    \/ /\ outcome[t] = NoValue /\ outcome'[t] = "SUCCEEDED"
       /\ \A s \in Step : StepKept(t, s)
       /\ Status(t) \in {"ASR_FINISHED", "MODERATION_PROCESSING_FINISHED"}
    \/ /\ outcome[t] = NoValue /\ outcome'[t] \in Outcome \ {"SUCCEEDED"}
       /\ \A s \in Step : step'[t][s] # "PROCESSING"
    \/ /\ outcome[t] = NoValue /\ outcome'[t] = "FAILED"
       /\ executionArn[t] = NoValue /\ attemptCount[t] = DispatchLimit
       /\ UNCHANGED <<executionArn, attemptCount>>
       /\ \A s \in Step : StepKept(t, s)

\* At most one step of a task is running.
LEMMA OneStepRuns ==
    ASSUME TypeOK, StepsInOrder, NEW t \in Task, NEW s \in Step, step[t][s] = "PROCESSING"
    PROVE  \A r \in Step \ {s} : step[t][r] # "PROCESSING"
  BY DEF StepsInOrder, Step, CallbackStep

\* A transaction keeps the outcome of a task or sets it as OutcomeMove says.
LEMMA OutcomeMoves ==
    ASSUME TypeOK, StepsInOrder, [Next]_storeVars, NEW u \in Task
    PROVE  OutcomeMove(u)
<1> USE DEF OutcomeMove
<1>1. ASSUME NEW t \in Task, RecordDispatchFailure(t) PROVE OutcomeMove(u)
  <2>1. /\ outcome' = [outcome EXCEPT ![t] =
                          IF attemptCount[t] >= DispatchLimit THEN "FAILED" ELSE outcome[t]]
        /\ outcome[t] = NoValue /\ executionArn[t] = NoValue
        /\ UNCHANGED <<executionArn, attemptCount, step, output>>
    BY <1>1 DEF RecordDispatchFailure, CanRecordDispatchFailure, stepVars
  <2>2. attemptCount[t] >= DispatchLimit => attemptCount[t] = DispatchLimit
    <3>1. attemptCount[t] \in 0 .. 3
      BY DEF TypeOK, DispatchLimit
    <3> QED
      BY <3>1 DEF DispatchLimit
  <2>3. \/ outcome'[u] = outcome[u]
        \/ u = t /\ outcome'[u] = "FAILED" /\ attemptCount[u] = DispatchLimit
    BY <2>1, <2>2 DEF TypeOK
  <2>4. \A s \in Step : StepKept(u, s)
    BY <2>1 DEF StepKept
  <2>5. CASE outcome'[u] = outcome[u]
    BY <2>5
  <2>6. CASE u = t /\ outcome'[u] = "FAILED" /\ attemptCount[u] = DispatchLimit
    BY <2>1, <2>4, <2>6
  <2> QED
    BY <2>3, <2>5, <2>6
<1>2. ASSUME NEW t \in Task, NEW s \in Step, NEW error \in ErrorCode, FailStep(t, s, error)
      PROVE  OutcomeMove(u)
  <2>1. CASE Status(t) = "FAILED"
    BY <1>2, <2>1 DEF FailStep
  <2>2. CASE Status(t) # "FAILED"
    <3>1. /\ step' = [step EXCEPT ![t][s] = "FAILED"]
          /\ outcome' = [outcome EXCEPT ![t] = "FAILED"]
          /\ Status(t) = Started[s]
      BY <1>2, <2>2 DEF FailStep, CanFailStep
    <3>2. outcome[t] = NoValue /\ step[t][s] = "PROCESSING"
      BY <3>1, StatusStarted
    <3>3. \A r \in Step : step'[t][r] # "PROCESSING"
      BY <3>1, <3>2, OneStepRuns, GetField DEF TypeOK
    <3>4. outcome'[u] = IF u = t THEN "FAILED" ELSE outcome[u]
      BY <3>1 DEF TypeOK
    <3> QED
      BY <3>2, <3>3, <3>4 DEF Outcome
  <2> QED
    BY <2>1, <2>2
<1>3. ASSUME NEW t \in Task, NEW result \in Outcome,
             NEW error \in ErrorCode \cup {NoValue}, FinishWorkflow(t, result, error)
      PROVE  OutcomeMove(u)
  <2>1. outcome'[u] = IF u = t THEN result ELSE outcome[u]
    BY <1>3 DEF FinishWorkflow, TypeOK
  <2>2. outcome[t] = result \/ outcome[t] = NoValue
    BY <1>3 DEF FinishWorkflow, CanFinishWorkflow
  <2>3. CASE outcome[t] = NoValue /\ result = "SUCCEEDED"
    <3>1. Status(t) \in {"ASR_FINISHED", "MODERATION_PROCESSING_FINISHED"}
      BY <1>3, <2>3, NoValueAssumption DEF FinishWorkflow, CanFinishWorkflow
    <3>2. \A s \in Step : StepKept(t, s)
      BY <1>3, <2>3 DEF FinishWorkflow, StepKept, TypeOK
    <3> QED
      BY <2>1, <2>3, <3>1, <3>2
  <2>4. CASE outcome[t] = NoValue /\ result # "SUCCEEDED"
    <3>1. \A s \in Step : step'[t][s] # "PROCESSING"
      BY <1>3, <2>4 DEF FinishWorkflow, Interrupted, TypeOK
    <3> QED
      BY <2>1, <2>4, <3>1
  <2> QED
    BY <2>1, <2>2, <2>3, <2>4
<1>4. ASSUME NEW a \in callbackAttempts, NEW result \in {"SUCCEEDED", "FAILED"},
             FinalizeCallback(a, result)
      PROVE  OutcomeMove(u)
  BY <1>3, <1>4 DEF FinalizeCallback, TypeOK, CallbackAttempt, Outcome
<1>5. ASSUME outcome' = outcome PROVE OutcomeMove(u)
  BY <1>5
<1>6. ASSUME NEW t \in Task,
             \/ CreateTask(t) \/ ClaimDispatch(t) \/ LeaseExpires(t) \/ StartAudioProcessing(t)
             \/ \E arn \in Arn : RecordExecution(t, arn)
             \/ \E uri \in Value : CompleteAudioProcessing(t, uri)
             \/ \E s \in CallbackStep, token \in Token : StartCallbackStep(t, s, token)
             \/ \E s \in CallbackStep, id \in ExternalId : RecordExternalId(t, s, id)
             \/ \E s \in CallbackStep, token \in Token, id \in ExternalId, value \in Value :
                   CompleteCallbackStep(t, s, token, id, value)
      PROVE  outcome' = outcome
  BY <1>6 DEF CreateTask, ClaimDispatch, LeaseExpires, RecordExecution, StartAudioProcessing,
     CompleteAudioProcessing, StartCallbackStep, RecordExternalId, CompleteCallbackStep
<1>7. ASSUME NEW a \in callbackAttempts, NEW error \in ErrorCode \cup {NoValue},
             RecordCallbackFailure(a, error)
      PROVE  outcome' = outcome
  BY <1>7 DEF RecordCallbackFailure
<1> QED
  BY <1>1, <1>2, <1>3, <1>4, <1>5, <1>6, <1>7 DEF Next, storeVars

\* The dispatch columns of a task with an execution, and of a closed one, stay.
DispatchMove(t) ==
    /\ executionArn[t] # NoValue => executionArn'[t] = executionArn[t]
    /\ outcome[t] # NoValue => executionArn'[t] = executionArn[t] /\ attemptCount'[t] = attemptCount[t]

\* A transaction never takes back a recorded execution, and leaves the dispatch
\* of a closed task alone.
LEMMA DispatchMoves ==
    ASSUME TypeOK, [Next]_storeVars, NEW u \in Task
    PROVE  DispatchMove(u)
<1> USE DEF DispatchMove
<1>1. ASSUME NEW t \in Task, ClaimDispatch(t) PROVE DispatchMove(u)
  BY <1>1 DEF ClaimDispatch, CanClaimDispatch, TypeOK
<1>2. ASSUME NEW t \in Task, NEW arn \in Arn, RecordExecution(t, arn) PROVE DispatchMove(u)
  BY <1>2, NoValueAssumption DEF RecordExecution, CanRecordExecution, TypeOK
<1>3. ASSUME UNCHANGED <<executionArn, attemptCount>> PROVE DispatchMove(u)
  BY <1>3
<1>4. ASSUME NEW t \in Task,
             \/ CreateTask(t) \/ LeaseExpires(t) \/ RecordDispatchFailure(t)
             \/ StartAudioProcessing(t)
             \/ \E uri \in Value : CompleteAudioProcessing(t, uri)
             \/ \E s \in CallbackStep, token \in Token : StartCallbackStep(t, s, token)
             \/ \E s \in CallbackStep, id \in ExternalId : RecordExternalId(t, s, id)
             \/ \E s \in CallbackStep, token \in Token, id \in ExternalId, value \in Value :
                   CompleteCallbackStep(t, s, token, id, value)
             \/ \E s \in Step, error \in ErrorCode : FailStep(t, s, error)
             \/ \E result \in Outcome, error \in ErrorCode \cup {NoValue} :
                   FinishWorkflow(t, result, error)
      PROVE  UNCHANGED <<executionArn, attemptCount>>
  BY <1>4 DEF CreateTask, LeaseExpires, RecordDispatchFailure, StartAudioProcessing,
     CompleteAudioProcessing, StartCallbackStep, RecordExternalId, CompleteCallbackStep,
     FailStep, FinishWorkflow, dispatchVars
<1>5. ASSUME NEW a \in callbackAttempts,
             \/ \E error \in ErrorCode \cup {NoValue} : RecordCallbackFailure(a, error)
             \/ \E result \in {"SUCCEEDED", "FAILED"} : FinalizeCallback(a, result)
      PROVE  UNCHANGED <<executionArn, attemptCount>>
  BY <1>5 DEF RecordCallbackFailure, FinalizeCallback, FinishWorkflow, dispatchVars
<1> QED
  BY <1>1, <1>2, <1>3, <1>4, <1>5 DEF Next, storeVars

\* A callback step begins together with the token that will be accepted for it,
\* and tokens are recorded at no other time.
TokensKept ==
    /\ callbackAttempts' = callbackAttempts
    /\ \A t \in Task, s \in CallbackStep :
          step'[t][s] = "PROCESSING" => step[t][s] = "PROCESSING"

TokenRecorded(t, s, token) ==
    /\ callbackAttempts' = callbackAttempts \cup {[task |-> t, step |-> s, token |-> token]}
    /\ TokenIsFree(t, s, token)
    /\ outcome[t] = NoValue
    /\ step' = [step EXCEPT ![t][s] = "PROCESSING"]

\* Failing one step starts no other.
LEMMA FailingKeepsRunning ==
    ASSUME TypeOK, NEW t \in Task, NEW s \in Step,
           step' = step \/ step' = [step EXCEPT ![t][s] = "FAILED"],
           NEW u \in Task, NEW r \in CallbackStep, step'[u][r] = "PROCESSING"
    PROVE  step[u][r] = "PROCESSING"
<1>1. r \in Step
  BY DEF Step
<1>2. CASE step' = [step EXCEPT ![t][s] = "FAILED"]
  <2>1. step'[u][r] = IF u = t /\ r = s THEN "FAILED" ELSE step[u][r]
    BY <1>1, <1>2, GetField DEF TypeOK
  <2> QED
    BY <2>1
<1> QED
  BY <1>2

\* Tokens are only ever added, together with the start of their step.
LEMMA TokenMoves ==
    ASSUME TypeOK, [Next]_storeVars
    PROVE  \/ TokensKept
           \/ \E t \in Task, s \in CallbackStep, token \in Token : TokenRecorded(t, s, token)
<1>1. ASSUME NEW t \in Task, NEW s \in CallbackStep, NEW token \in Token,
             StartCallbackStep(t, s, token)
      PROVE  TokenRecorded(t, s, token)
  <2>1. Status(t) = Started[s] \/ Status(t) = Ready[s]
    BY <1>1 DEF StartCallbackStep, CanStartCallbackStep
  <2>2. outcome[t] = NoValue
    BY <2>1, StatusStarted, StatusReady DEF Step
  <2> QED
    BY <1>1, <2>2 DEF StartCallbackStep, CanStartCallbackStep, TokenRecorded
<1>2. ASSUME NEW t \in Task, StartAudioProcessing(t) PROVE TokensKept
  BY <1>2, GetField DEF StartAudioProcessing, TokensKept, TypeOK, Step, CallbackStep
<1>3. ASSUME NEW t \in Task, NEW uri \in Value, CompleteAudioProcessing(t, uri) PROVE TokensKept
  BY <1>3, GetField DEF CompleteAudioProcessing, TokensKept, TypeOK, Step, CallbackStep
<1>4. ASSUME NEW t \in Task, NEW s \in CallbackStep, NEW token \in Token,
             NEW id \in ExternalId, NEW value \in Value,
             CompleteCallbackStep(t, s, token, id, value)
      PROVE  TokensKept
  <2>1. callbackAttempts' = callbackAttempts
    BY <1>4 DEF CompleteCallbackStep
  <2>2. CASE output[t][s] = value
    BY <1>4, <2>1, <2>2 DEF CompleteCallbackStep, TokensKept
  <2>3. CASE output[t][s] # value
    <3>1. step' = [step EXCEPT ![t][s] = "COMPLETED"] /\ s \in Step
      BY <1>4, <2>3 DEF CompleteCallbackStep, Step
    <3> QED
      BY <2>1, <3>1, GetField DEF TokensKept, TypeOK, Step
  <2> QED
    BY <2>2, <2>3
<1>5. ASSUME NEW t \in Task, NEW s \in Step, NEW error \in ErrorCode, FailStep(t, s, error)
      PROVE  TokensKept
  <2>1. callbackAttempts' = callbackAttempts
    BY <1>5 DEF FailStep
  <2>2. step' = step \/ step' = [step EXCEPT ![t][s] = "FAILED"]
    BY <1>5 DEF FailStep
  <2> QED
    BY <1>5, <2>1, <2>2, FailingKeepsRunning DEF TokensKept
<1>6. ASSUME NEW t \in Task, NEW result \in Outcome,
             NEW error \in ErrorCode \cup {NoValue}, FinishWorkflow(t, result, error)
      PROVE  TokensKept
  BY <1>6 DEF FinishWorkflow, TokensKept, TypeOK, Step
<1>7. ASSUME NEW a \in callbackAttempts, NEW error \in ErrorCode \cup {NoValue},
             RecordCallbackFailure(a, error)
      PROVE  TokensKept
  <2>1. a.task \in Task /\ a.step \in Step /\ callbackAttempts' = callbackAttempts
    BY <1>7 DEF RecordCallbackFailure, TypeOK, CallbackAttempt, Step
  <2>2. step' = step \/ step' = [step EXCEPT ![a.task][a.step] = "FAILED"]
    BY <1>7 DEF RecordCallbackFailure
  <2> QED
    BY <2>1, <2>2, FailingKeepsRunning DEF TokensKept
<1>8. ASSUME NEW a \in callbackAttempts, NEW result \in {"SUCCEEDED", "FAILED"},
             FinalizeCallback(a, result)
      PROVE  TokensKept
  BY <1>6, <1>8 DEF FinalizeCallback, TypeOK, CallbackAttempt, Outcome
<1>9. ASSUME UNCHANGED <<step, callbackAttempts>> PROVE TokensKept
  BY <1>9 DEF TokensKept
<1>10. ASSUME NEW t \in Task,
              \/ CreateTask(t) \/ ClaimDispatch(t) \/ LeaseExpires(t) \/ RecordDispatchFailure(t)
              \/ \E arn \in Arn : RecordExecution(t, arn)
              \/ \E s \in CallbackStep, id \in ExternalId : RecordExternalId(t, s, id)
       PROVE  UNCHANGED <<step, callbackAttempts>>
  BY <1>10 DEF CreateTask, ClaimDispatch, LeaseExpires, RecordDispatchFailure, RecordExecution,
     RecordExternalId, stepVars
<1> QED
  BY <1>1, <1>2, <1>3, <1>4, <1>5, <1>6, <1>7, <1>8, <1>9, <1>10 DEF Next, storeVars

-----------------------------------------------------------------------------
(* The inductive invariant.  SuccessIsComplete and ClosedTasksAreIdle are   *)
(* not inductive alone: what a status says of the rows rests on             *)
(* StepsInOrder, and that a replayed result changes nothing rests on        *)
(* OutputsMatchSteps.                                                       *)

Inv ==
    /\ TypeOK
    /\ StepsInOrder
    /\ OutputsMatchSteps
    /\ TokenNamesOneStep
    /\ BegunStepsHaveToken
    /\ SuccessIsComplete
    /\ ClosedTasksAreIdle

\* All the safety properties of the store hold in every reachable state.
THEOREM InvInductive == Spec => []Inv
<1>1. Init => Inv
  <2> SUFFICES ASSUME Init PROVE Inv
    OBVIOUS
  <2>1. TypeOK
    BY DEF Init, TypeOK, Lease, StepStatus, Error, DispatchLimit
  <2>2. \A t \in Task : outcome[t] = NoValue
    BY DEF Init
  <2>3. \A t \in Task, s \in Step : step[t][s] = "PENDING" /\ output[t][s] = NoValue
    BY DEF Init
  <2>4. StepsInOrder /\ OutputsMatchSteps /\ BegunStepsHaveToken
    BY <2>3 DEF StepsInOrder, OutputsMatchSteps, BegunStepsHaveToken, Step, CallbackStep
  <2>5. SuccessIsComplete /\ ClosedTasksAreIdle
    <3>1. NoValue # "SUCCEEDED"
      BY NoValueAssumption
    <3> QED
      BY <2>2, <3>1 DEF SuccessIsComplete, ClosedTasksAreIdle
  <2>6. TokenNamesOneStep
    BY DEF Init, TokenNamesOneStep
  <2> QED
    BY <2>1, <2>4, <2>5, <2>6 DEF Inv
<1>2. Inv /\ [Next]_storeVars => Inv'
  <2> SUFFICES ASSUME Inv, [Next]_storeVars PROVE Inv'
    OBVIOUS
  <2> USE DEF Inv
  <2>1. TypeOK /\ TypeOK'
    BY TypeStep
  <2>2. \A t \in Task, s \in Step : StepMove(t, s)
    BY StepMoves
  <2>3. StepsInOrder'
    BY <2>1, <2>2 DEF StepsInOrder, StepMove, StepKept, StepBegins, StepCompletes, StepBreaks,
       Step, CallbackStep, Prior
  <2>4. OutputsMatchSteps'
    BY <2>2, NoValueAssumption DEF OutputsMatchSteps, StepMove, StepKept, StepBegins,
       StepCompletes, StepBreaks
  <2>5. TokenNamesOneStep'
    <3>1. CASE TokensKept
      BY <3>1 DEF TokenNamesOneStep, TokensKept
    <3>2. ASSUME NEW t \in Task, NEW s \in CallbackStep, NEW token \in Token,
                 TokenRecorded(t, s, token)
          PROVE  TokenNamesOneStep'
      <4> DEFINE new == [task |-> t, step |-> s, token |-> token]
      <4>1. \A a \in callbackAttempts : a.token = token => a = new
        BY <3>2 DEF TokenRecorded, TokenIsFree, TypeOK, CallbackAttempt
      <4>2. callbackAttempts' = callbackAttempts \cup {new} /\ new.token = token
        BY <3>2 DEF TokenRecorded
      <4> HIDE DEF new
      <4> QED
        BY <4>1, <4>2 DEF TokenNamesOneStep
    <3> QED
      BY <3>1, <3>2, TokenMoves
  <2>6. BegunStepsHaveToken'
    <3> SUFFICES ASSUME NEW t \in Task, NEW s \in CallbackStep, step'[t][s] # "PENDING"
                 PROVE  \E token \in Token : TokenIsFor(t, s, token)'
      BY DEF BegunStepsHaveToken
    <3>1. s \in Step
      BY DEF Step
    <3>2. CASE step[t][s] # "PENDING"
      <4>1. callbackAttempts \subseteq callbackAttempts'
        BY TokenMoves DEF TokensKept, TokenRecorded
      <4> QED
        BY <3>2, <4>1 DEF BegunStepsHaveToken, TokenIsFor
    <3>3. CASE step[t][s] = "PENDING"
      <4>1. step'[t][s] = "PROCESSING"
        BY <2>2, <3>1, <3>3 DEF StepMove, StepKept, StepBegins, StepCompletes, StepBreaks
      <4>2. PICK u \in Task, r \in CallbackStep, token \in Token : TokenRecorded(u, r, token)
        BY <3>3, <4>1, TokenMoves DEF TokensKept
      <4>3. step'[t][s] = IF t = u /\ s = r THEN "PROCESSING" ELSE step[t][s]
        BY <3>1, <4>2, GetField DEF TokenRecorded, TypeOK, Step
      <4>4. t = u /\ s = r
        BY <3>3, <4>1, <4>3
      <4> QED
        BY <4>2, <4>4 DEF TokenRecorded, TokenIsFor
    <3> QED
      BY <3>2, <3>3
  <2>7. SuccessIsComplete'
    <3> SUFFICES ASSUME NEW t \in Task, outcome'[t] = "SUCCEEDED"
                 PROVE  /\ step'[t]["transcription"] = "COMPLETED"
                        /\ step'[t]["moderation"] \in {"PENDING", "COMPLETED"}
      BY DEF SuccessIsComplete
    <3>1. "transcription" \in Step /\ "moderation" \in Step /\ NoValue # "SUCCEEDED"
      BY NoValueAssumption DEF Step, CallbackStep
    <3>2. CASE outcome[t] = "SUCCEEDED"
      BY <2>2, <3>1, <3>2 DEF SuccessIsComplete, StepMove, StepKept
    <3>3. CASE outcome[t] # "SUCCEEDED"
      <4>1. /\ \A s \in Step : StepKept(t, s)
            /\ Status(t) \in {"ASR_FINISHED", "MODERATION_PROCESSING_FINISHED"}
        BY <3>3, OutcomeMoves DEF OutcomeMove
      <4> QED
        BY <3>1, <4>1, StatusFinished DEF StepKept
    <3> QED
      BY <3>2, <3>3
  <2>8. ClosedTasksAreIdle'
    <3> SUFFICES ASSUME NEW t \in Task, outcome'[t] # NoValue,
                        NEW s \in Step, step'[t][s] = "PROCESSING"
                 PROVE  /\ outcome'[t] = "FAILED"
                        /\ executionArn'[t] = NoValue
                        /\ attemptCount'[t] = DispatchLimit
      BY DEF ClosedTasksAreIdle, Interrupted
    <3>1. CASE outcome[t] # NoValue
      <4>1. step[t][s] = "PROCESSING"
        BY <2>2, <3>1 DEF StepMove, StepKept
      <4>2. outcome'[t] = outcome[t]
        BY <3>1, OutcomeMoves DEF OutcomeMove
      <4>3. executionArn'[t] = executionArn[t] /\ attemptCount'[t] = attemptCount[t]
        BY <3>1, DispatchMoves DEF DispatchMove
      <4> QED
        BY <3>1, <4>1, <4>2, <4>3 DEF ClosedTasksAreIdle, Interrupted
    <3>2. CASE outcome[t] = NoValue
      <4>1. CASE outcome'[t] = "SUCCEEDED"
        <5>1. step[t][s] = "PROCESSING"
          BY <3>2, <4>1, NoValueAssumption, OutcomeMoves DEF OutcomeMove, StepKept
        <5>2. /\ step[t]["transcription"] = "COMPLETED"
              /\ step[t]["moderation"] \in {"PENDING", "COMPLETED"}
          BY <3>2, <4>1, NoValueAssumption, OutcomeMoves, StatusFinished DEF OutcomeMove
        <5> QED
          BY <5>1, <5>2 DEF StepsInOrder, Step, CallbackStep
      <4>2. CASE outcome'[t] # "SUCCEEDED"
        BY <3>2, <4>2, OutcomeMoves DEF OutcomeMove
      <4> QED
        BY <4>1, <4>2
    <3> QED
      BY <3>1, <3>2
  <2> QED
    BY <2>1, <2>3, <2>4, <2>5, <2>6, <2>7, <2>8
<1> QED
  BY <1>1, <1>2, PTL DEF Spec

\* Steps are only begun on a finished predecessor.
THEOREM StepsInOrderAlways == Spec => []StepsInOrder
<1>1. Inv => StepsInOrder
  BY DEF Inv
<1> QED
  BY <1>1, InvInductive, PTL

\* A result is there exactly when its step completed.
THEOREM OutputsMatchStepsAlways == Spec => []OutputsMatchSteps
<1>1. Inv => OutputsMatchSteps
  BY DEF Inv
<1> QED
  BY <1>1, InvInductive, PTL

\* Every step a model service works on, or has worked on, has a token recorded
\* by which its callback is resolved, and a token is resolved to one task and
\* step.
THEOREM CallbacksResolveAlways == Spec => []CallbacksResolve
<1>1. Inv => CallbacksResolve
  BY DEF Inv, CallbacksResolve
<1> QED
  BY <1>1, InvInductive, PTL

\* A successful task has its transcript and nothing running or failed.
THEOREM SuccessIsCompleteAlways == Spec => []SuccessIsComplete
<1>1. Inv => SuccessIsComplete
  BY DEF Inv
<1> QED
  BY <1>1, InvInductive, PTL

\* A closed task has no running step unless the dispatcher gave up on it.
THEOREM ClosedTasksAreIdleAlways == Spec => []ClosedTasksAreIdle
<1>1. Inv => ClosedTasksAreIdle
  BY DEF Inv
<1> QED
  BY <1>1, InvInductive, PTL

-----------------------------------------------------------------------------
(* Action properties                                                       *)

\* An external id stays once it is there; the recorded error of a closed task
\* stays.
ReportMove(t) ==
    /\ \A s \in CallbackStep : externalId[t][s] # NoValue => externalId'[t][s] = externalId[t][s]
    /\ outcome[t] # NoValue => stepError'[t] = stepError[t]

\* A transaction moves external ids and errors only as ReportMove says.
LEMMA ReportMoves ==
    ASSUME TypeOK, [Next]_storeVars, NEW u \in Task
    PROVE  ReportMove(u)
<1> USE DEF ReportMove
<1>1. ASSUME NEW t \in Task, NEW s \in CallbackStep, NEW id \in ExternalId,
             \/ RecordExternalId(t, s, id)
             \/ \E token \in Token, value \in Value : CompleteCallbackStep(t, s, token, id, value)
      PROVE  ReportMove(u)
  <2>1. stepError' = stepError
    BY <1>1 DEF RecordExternalId, CompleteCallbackStep
  <2>2. \/ externalId' = externalId
        \/ externalId' = [externalId EXCEPT ![t][s] = id] /\ externalId[t][s] \in {NoValue, id}
    BY <1>1 DEF RecordExternalId, CompleteCallbackStep, CanCompleteCallbackStep, ExternalIdIsFree
  <2>3. ASSUME NEW r \in CallbackStep, externalId[u][r] # NoValue,
               externalId' = [externalId EXCEPT ![t][s] = id],
               externalId[t][s] \in {NoValue, id}
        PROVE  externalId'[u][r] = externalId[u][r]
    <3>1. externalId'[u][r] = IF u = t /\ r = s THEN id ELSE externalId[u][r]
      BY <2>3, GetField DEF TypeOK
    <3> QED
      BY <2>3, <3>1
  <2> QED
    BY <2>1, <2>2, <2>3
<1>2. ASSUME NEW t \in Task, NEW s \in Step, NEW error \in ErrorCode, FailStep(t, s, error)
      PROVE  ReportMove(u)
  <2>1. externalId' = externalId
    BY <1>2 DEF FailStep
  <2>2. CASE Status(t) = "FAILED"
    BY <1>2, <2>1, <2>2 DEF FailStep
  <2>3. CASE Status(t) # "FAILED"
    <3>1. stepError' = [stepError EXCEPT ![t][s] = error] /\ Status(t) = Started[s]
      BY <1>2, <2>3 DEF FailStep, CanFailStep
    <3>2. outcome[t] = NoValue
      BY <3>1, StatusStarted
    <3> QED
      BY <2>1, <3>1, <3>2 DEF TypeOK
  <2> QED
    BY <2>2, <2>3
<1>3. ASSUME NEW t \in Task, NEW result \in Outcome,
             NEW error \in ErrorCode \cup {NoValue}, FinishWorkflow(t, result, error)
      PROVE  ReportMove(u)
  <2>1. externalId' = externalId
    BY <1>3 DEF FinishWorkflow
  <2>2. ASSUME outcome[u] # NoValue PROVE stepError'[u] = stepError[u]
    <3>1. CASE u = t
      <4>1. stepError'[u] = [s \in Step |-> stepError[u][s]]
        BY <1>3, <2>2, <3>1 DEF FinishWorkflow, TypeOK
      <4>2. stepError[u] \in [Step -> Error]
        BY DEF TypeOK
      <4> QED
        BY <4>1, <4>2
    <3>2. CASE u # t
      BY <1>3, <3>2 DEF FinishWorkflow, TypeOK
    <3> QED
      BY <3>1, <3>2
  <2> QED
    BY <2>1, <2>2
<1>4. ASSUME NEW a \in callbackAttempts, NEW error \in ErrorCode \cup {NoValue},
             RecordCallbackFailure(a, error)
      PROVE  ReportMove(u)
  <2>1. a.task \in Task /\ a.step \in Step /\ externalId' = externalId
    BY <1>4 DEF RecordCallbackFailure, TypeOK, CallbackAttempt, Step
  <2>2. CASE Status(a.task) = "FAILED"
    BY <1>4, <2>1, <2>2 DEF RecordCallbackFailure
  <2>3. CASE Status(a.task) # "FAILED"
    <3>1. /\ stepError' = [stepError EXCEPT ![a.task][a.step] = error]
          /\ Status(a.task) = Started[a.step]
      BY <1>4, <2>3 DEF RecordCallbackFailure, CanRecordCallbackFailure
    <3>2. outcome[a.task] = NoValue
      BY <2>1, <3>1, StatusStarted
    <3> QED
      BY <2>1, <3>1, <3>2 DEF TypeOK
  <2> QED
    BY <2>2, <2>3
<1>5. ASSUME NEW a \in callbackAttempts, NEW result \in {"SUCCEEDED", "FAILED"},
             FinalizeCallback(a, result)
      PROVE  ReportMove(u)
  BY <1>3, <1>5 DEF FinalizeCallback, TypeOK, CallbackAttempt, Outcome
<1>6. ASSUME UNCHANGED <<externalId, stepError>> PROVE ReportMove(u)
  BY <1>6
<1>7. ASSUME NEW t \in Task,
             \/ CreateTask(t) \/ ClaimDispatch(t) \/ LeaseExpires(t) \/ RecordDispatchFailure(t)
             \/ StartAudioProcessing(t)
             \/ \E arn \in Arn : RecordExecution(t, arn)
             \/ \E uri \in Value : CompleteAudioProcessing(t, uri)
             \/ \E s \in CallbackStep, token \in Token : StartCallbackStep(t, s, token)
      PROVE  UNCHANGED <<externalId, stepError>>
  BY <1>7 DEF CreateTask, ClaimDispatch, LeaseExpires, RecordDispatchFailure, RecordExecution,
     StartAudioProcessing, CompleteAudioProcessing, StartCallbackStep, stepVars
<1> QED
  BY <1>1, <1>2, <1>3, <1>4, <1>5, <1>6, <1>7 DEF Next, storeVars

\* The first outcome, execution, result and external id of a task stay.
THEOREM FirstWriteWinsAlways == Spec => FirstWriteWins
<1>1. Inv /\ [Next]_storeVars =>
         [\A t \in Task :
            /\ outcome[t] # NoValue => outcome'[t] = outcome[t]
            /\ executionArn[t] # NoValue => executionArn'[t] = executionArn[t]
            /\ \A s \in Step : output[t][s] # NoValue => output'[t][s] = output[t][s]
            /\ \A s \in CallbackStep :
                  externalId[t][s] # NoValue => externalId'[t][s] = externalId[t][s]]_storeVars
  <2> SUFFICES ASSUME Inv, [Next]_storeVars, NEW t \in Task
               PROVE  /\ outcome[t] # NoValue => outcome'[t] = outcome[t]
                      /\ executionArn[t] # NoValue => executionArn'[t] = executionArn[t]
                      /\ \A s \in Step : output[t][s] # NoValue => output'[t][s] = output[t][s]
                      /\ \A s \in CallbackStep :
                            externalId[t][s] # NoValue => externalId'[t][s] = externalId[t][s]
    OBVIOUS
  <2> USE DEF Inv
  <2>1. outcome[t] # NoValue => outcome'[t] = outcome[t]
    BY OutcomeMoves DEF OutcomeMove
  <2>2. executionArn[t] # NoValue => executionArn'[t] = executionArn[t]
    BY DispatchMoves DEF DispatchMove
  <2>3. ASSUME NEW s \in Step, output[t][s] # NoValue PROVE output'[t][s] = output[t][s]
    BY <2>3, StepMoves DEF OutputsMatchSteps, StepMove, StepKept, StepBegins, StepCompletes,
       StepBreaks
  <2>4. ASSUME NEW s \in CallbackStep, externalId[t][s] # NoValue
        PROVE  externalId'[t][s] = externalId[t][s]
    BY <2>4, ReportMoves DEF ReportMove
  <2> QED
    BY <2>1, <2>2, <2>3, <2>4
<1> QED
  BY <1>1, InvInductive, PTL DEF Spec, FirstWriteWins

\* Nothing a reader can see of a closed task changes.
THEOREM ClosedTasksAreFrozenAlways == Spec => ClosedTasksAreFrozen
<1>1. Inv /\ [Next]_storeVars =>
         [\A t \in Task :
            outcome[t] # NoValue =>
               /\ UNCHANGED <<step[t], output[t], stepError[t], executionArn[t], attemptCount[t]>>
               /\ \A a \in callbackAttempts' \ callbackAttempts : a.task # t]_storeVars
  <2> SUFFICES ASSUME Inv, [Next]_storeVars, NEW t \in Task, outcome[t] # NoValue
               PROVE  /\ step'[t] = step[t] /\ output'[t] = output[t]
                      /\ stepError'[t] = stepError[t]
                      /\ executionArn'[t] = executionArn[t] /\ attemptCount'[t] = attemptCount[t]
                      /\ \A a \in callbackAttempts' \ callbackAttempts : a.task # t
    OBVIOUS
  <2> USE DEF Inv
  <2>1. \A s \in Step : StepKept(t, s)
    BY StepMoves DEF StepMove
  <2>2. /\ step[t] \in [Step -> StepStatus] /\ step'[t] \in [Step -> StepStatus]
        /\ output[t] \in [Step -> Value \cup {NoValue}]
        /\ output'[t] \in [Step -> Value \cup {NoValue}]
    BY TypeStep DEF TypeOK
  <2>3. step'[t] = step[t] /\ output'[t] = output[t]
    BY <2>1, <2>2 DEF StepKept
  <2>4. stepError'[t] = stepError[t]
    BY ReportMoves DEF ReportMove
  <2>5. executionArn'[t] = executionArn[t] /\ attemptCount'[t] = attemptCount[t]
    BY DispatchMoves DEF DispatchMove
  <2>6. \A a \in callbackAttempts' \ callbackAttempts : a.task # t
    BY TokenMoves DEF TokensKept, TokenRecorded
  <2> QED
    BY <2>3, <2>4, <2>5, <2>6
<1> QED
  BY <1>1, InvInductive, PTL DEF Spec, ClosedTasksAreFrozen

-----------------------------------------------------------------------------
(***************************************************************************)
(* The store implements TaskLifecycle: every transaction is one step of    *)
(* the lifecycle, or shows a reader nothing new.                           *)
(***************************************************************************)

shownStatus == [t \in Task |-> Status(t)]

closedTasks == {t \in Task : outcome[t] # NoValue}

-----------------------------------------------------------------------------
(* The status in terms of the rows                                         *)

\* The furthest begun step decides the status of an open task.
StatusFollowsSteps ==
    \A t \in Task, s \in Step :
       outcome[t] = NoValue =>
          /\ step[t][s] = "PROCESSING" => Status(t) = Started[s]
          /\ step[t][s] = "FAILED" => Status(t) = "FAILED"
          /\ /\ step[t][s] = "COMPLETED"
             /\ \A r \in CallbackStep : Prior[r] = s => step[t][r] = "PENDING"
             => Status(t) = Lifecycle!After[s]

\* The status names the step that runs or the last one that completed.
LEMMA StatusFromSteps == TypeOK /\ StepsInOrder => StatusFollowsSteps
<1> SUFFICES ASSUME TypeOK, StepsInOrder, NEW t \in Task, NEW s \in Step, outcome[t] = NoValue
             PROVE  /\ step[t][s] = "PROCESSING" => Status(t) = Started[s]
                    /\ step[t][s] = "FAILED" => Status(t) = "FAILED"
                    /\ /\ step[t][s] = "COMPLETED"
                       /\ \A r \in CallbackStep : Prior[r] = s => step[t][r] = "PENDING"
                       => Status(t) = Lifecycle!After[s]
  BY DEF StatusFollowsSteps
<1>1. /\ step[t]["transcription"] # "PENDING" => step[t]["audio"] = "COMPLETED"
      /\ step[t]["moderation"] # "PENDING" => step[t]["transcription"] = "COMPLETED"
  BY DEF StepsInOrder
<1>2. ASSUME step[t][s] = "PROCESSING" PROVE Status(t) = Started[s]
  <2>1. \A r \in Step : step[t][r] # "FAILED"
    BY <1>1, <1>2 DEF Step, CallbackStep
  <2>2. Status(t) = OpenStatus(t)
    BY <2>1 DEF Status
  <2> QED
    BY <1>1, <1>2, <2>2 DEF OpenStatus, Started, Step, CallbackStep
<1>3. ASSUME step[t][s] = "FAILED" PROVE Status(t) = "FAILED"
  BY <1>3 DEF Status
<1>4. ASSUME step[t][s] = "COMPLETED",
             \A r \in CallbackStep : Prior[r] = s => step[t][r] = "PENDING"
      PROVE  Status(t) = Lifecycle!After[s]
  <2>1. \A r \in Step : step[t][r] # "FAILED"
    BY <1>1, <1>4 DEF Step, CallbackStep, Prior
  <2>2. Status(t) = OpenStatus(t)
    BY <2>1 DEF Status
  <2> QED
    BY <1>1, <1>4, <2>2 DEF OpenStatus, Step, CallbackStep, Prior, Lifecycle!After
<1> QED
  BY <1>2, <1>3, <1>4

\* Only the rows and the outcome of a task decide its status.
LEMMA StatusOfUntouched ==
    ASSUME NEW u \in Task, step'[u] = step[u], outcome'[u] = outcome[u]
    PROVE  Status(u)' = Status(u)
  BY DEF Status, OpenStatus

\* A transaction on one task changes what is shown of that task only.
LEMMA ShownOfOne ==
    ASSUME NEW t \in Task,
           \A u \in Task \ {t} : step'[u] = step[u] /\ outcome'[u] = outcome[u]
    PROVE  shownStatus' = [shownStatus EXCEPT ![t] = Status(t)']
  BY StatusOfUntouched DEF shownStatus

\* The same after a step.
LEMMA StatusFromStepsNext == (TypeOK /\ StepsInOrder)' => StatusFollowsSteps'
  BY StatusFromSteps, PTL

\* Without a new outcome no task is closed.
LEMMA NothingClosed ==
    ASSUME outcome' = outcome PROVE closedTasks' = closedTasks
  BY DEF closedTasks

\* A new outcome closes its task and is what is shown of it.
LEMMA OneClosed ==
    ASSUME TypeOK, NEW t \in Task, NEW o \in Outcome, outcome' = [outcome EXCEPT ![t] = o]
    PROVE  closedTasks' = closedTasks \cup {t} /\ Status(t)' = o
<1>1. o # NoValue
  BY NoValueAssumption DEF Outcome
<1>2. outcome'[t] = o
  BY DEF TypeOK
<1> QED
  BY <1>1, <1>2 DEF closedTasks, TypeOK, Status

-----------------------------------------------------------------------------
(* Each transaction as a step of the lifecycle                             *)

ViewStep == Lifecycle!Next \/ UNCHANGED <<shownStatus, closedTasks, output>>

\* A PENDING row becomes PROCESSING from the status that step can begin from.
LEMMA BeginStep ==
    ASSUME Inv, Inv', NEW t \in Task, NEW s \in Step,
           Status(t) = Ready[s],
           step' = [step EXCEPT ![t][s] = "PROCESSING"], UNCHANGED <<outcome, output>>
    PROVE  ViewStep
<1> USE DEF Inv
<1>1. outcome[t] = NoValue
  <2>1. Ready[s] \notin Outcome
    BY DEF Ready, Outcome, Step, CallbackStep
  <2> QED
    BY <2>1, StatusAndOutcome
<1>2. step'[t][s] = "PROCESSING"
  BY GetField DEF TypeOK
<1>3. Status(t)' = Started[s]
  BY <1>1, <1>2, StatusFromStepsNext DEF StatusFollowsSteps
<1>4. shownStatus' = [shownStatus EXCEPT ![t] = Started[s]]
  BY <1>3, ShownOfOne DEF TypeOK
<1>5. shownStatus[t] = Ready[s]
  BY DEF shownStatus
<1>6. Lifecycle!Before = Ready /\ Lifecycle!During = Started /\ Lifecycle!Step = Step
  BY DEF Lifecycle!Before, Lifecycle!During, Lifecycle!Step, Ready, Started, Step, CallbackStep
<1>7. t \notin closedTasks /\ closedTasks' = closedTasks
  BY <1>1, NothingClosed DEF closedTasks
<1>8. Lifecycle!Begin(t, s)
  BY <1>4, <1>5, <1>6, <1>7 DEF Lifecycle!Begin, Lifecycle!Show, shownStatus, closedTasks
<1> QED
  BY <1>6, <1>8 DEF ViewStep, Lifecycle!Next

\* A PROCESSING row becomes COMPLETED with its result.
LEMMA EndStep ==
    ASSUME Inv, Inv', NEW t \in Task, NEW s \in Step, NEW value \in Value,
           Status(t) = Started[s], output[t][s] = NoValue,
           step' = [step EXCEPT ![t][s] = "COMPLETED"],
           output' = [output EXCEPT ![t][s] = value], UNCHANGED outcome
    PROVE  ViewStep
<1> USE DEF Inv
<1>1. outcome[t] = NoValue /\ step[t][s] = "PROCESSING"
  BY StatusStarted
<1>2. \A r \in Step : step'[t][r] = IF r = s THEN "COMPLETED" ELSE step[t][r]
  BY GetField DEF TypeOK
<1>3. \A r \in CallbackStep : Prior[r] = s => step'[t][r] = "PENDING"
  BY <1>1, <1>2 DEF StepsInOrder, Prior, Step, CallbackStep
<1>4. Status(t)' = Lifecycle!After[s]
  BY <1>1, <1>2, <1>3, StatusFromStepsNext DEF StatusFollowsSteps
<1>5. shownStatus' = [shownStatus EXCEPT ![t] = Lifecycle!After[s]]
  BY <1>4, ShownOfOne DEF TypeOK
<1>6. shownStatus[t] = Started[s]
  BY DEF shownStatus
<1>7. Lifecycle!During = Started /\ Lifecycle!Step = Step
  BY DEF Lifecycle!During, Lifecycle!Step, Started, Step, CallbackStep
<1>8. t \notin closedTasks /\ closedTasks' = closedTasks
  BY <1>1, NothingClosed DEF closedTasks
<1>9. Lifecycle!End(t, s, value)
  BY <1>5, <1>6, <1>7, <1>8 DEF Lifecycle!End, Lifecycle!Show, shownStatus, closedTasks
<1> QED
  BY <1>7, <1>9 DEF ViewStep, Lifecycle!Next

\* A failure callback makes the running step FAILED and leaves the task open.
LEMMA BreakStep ==
    ASSUME Inv, Inv', NEW t \in Task, NEW s \in Step,
           Status(t) = Started[s],
           step' = [step EXCEPT ![t][s] = "FAILED"], UNCHANGED <<outcome, output>>
    PROVE  ViewStep
<1> USE DEF Inv
<1>1. outcome[t] = NoValue
  BY StatusStarted
<1>2. step'[t][s] = "FAILED"
  BY GetField DEF TypeOK
<1>3. Status(t)' = "FAILED"
  BY <1>1, <1>2, StatusFromStepsNext DEF StatusFollowsSteps
<1>4. shownStatus' = [shownStatus EXCEPT ![t] = "FAILED"]
  BY <1>3, ShownOfOne DEF TypeOK
<1>5. shownStatus[t] = Started[s]
  BY DEF shownStatus
<1>6. Lifecycle!During = Started /\ Lifecycle!Step = Step
  BY DEF Lifecycle!During, Lifecycle!Step, Started, Step, CallbackStep
<1>7. t \notin closedTasks /\ closedTasks' = closedTasks
  BY <1>1, NothingClosed DEF closedTasks
<1>8. Lifecycle!BreakOff(t, s)
  BY <1>4, <1>5, <1>6, <1>7 DEF Lifecycle!BreakOff, Lifecycle!Show, shownStatus, closedTasks
<1> QED
  BY <1>6, <1>8 DEF ViewStep, Lifecycle!Next

\* An open task gets an outcome; success only from a finished status.
LEMMA CloseTask ==
    ASSUME Inv, NEW t \in Task, NEW o \in Outcome,
           outcome[t] = NoValue, outcome' = [outcome EXCEPT ![t] = o],
           o = "SUCCEEDED" => Status(t) \in {"ASR_FINISHED", "MODERATION_PROCESSING_FINISHED"},
           \A u \in Task \ {t} : step'[u] = step[u], UNCHANGED output
    PROVE  ViewStep
<1> USE DEF Inv
<1>1. closedTasks' = closedTasks \cup {t} /\ Status(t)' = o
  BY OneClosed
<1>2. \A u \in Task \ {t} : step'[u] = step[u] /\ outcome'[u] = outcome[u]
  BY DEF TypeOK
<1>3. shownStatus' = [shownStatus EXCEPT ![t] = o]
  BY <1>1, <1>2, ShownOfOne
<1>4. t \notin closedTasks
  BY DEF closedTasks
<1>5. CASE o = "SUCCEEDED"
  <2>1. shownStatus[t] \in {Lifecycle!After["transcription"], Lifecycle!After["moderation"]}
    BY <1>5 DEF shownStatus, Lifecycle!After
  <2>2. Lifecycle!Succeed(t)
    BY <1>1, <1>3, <1>4, <1>5, <2>1 DEF Lifecycle!Succeed, shownStatus, closedTasks
  <2> QED
    BY <2>2 DEF ViewStep, Lifecycle!Next
<1>6. CASE o # "SUCCEEDED"
  <2>1. Lifecycle!Fail(t, o)
    BY <1>1, <1>3, <1>4 DEF Lifecycle!Fail, shownStatus, closedTasks
  <2> QED
    BY <1>6, <2>1 DEF ViewStep, Lifecycle!Next, Outcome
<1> QED
  BY <1>5, <1>6

\* A transaction that touches neither steps, outcome nor results shows nothing.
LEMMA NothingShown ==
    ASSUME UNCHANGED <<step, outcome, output>> PROVE ViewStep
<1>1. closedTasks' = closedTasks
  BY NothingClosed
<1>2. shownStatus' = shownStatus
  BY StatusOfUntouched DEF shownStatus
<1> QED
  BY <1>1, <1>2 DEF ViewStep

\* Every transaction of the store is a step of the lifecycle, or shows nothing.
LEMMA TransactionsAreLifecycleSteps ==
    ASSUME Inv, Inv', [Next]_storeVars
    PROVE  ViewStep
<1> USE DEF Inv
<1>1. ASSUME NEW t \in Task, StartAudioProcessing(t) PROVE ViewStep
  <2>1. "audio" \in Step /\ Ready["audio"] = "PENDING" /\ UNCHANGED <<outcome, output>>
    BY <1>1 DEF StartAudioProcessing, Step, Ready
  <2>2. CASE Status(t) = "PENDING"
    BY <1>1, <2>1, <2>2, BeginStep DEF StartAudioProcessing
  <2>3. CASE Status(t) # "PENDING"
    <3>1. step' = step
      BY <1>1, <2>3 DEF StartAudioProcessing, TypeOK
    <3> QED
      BY <2>1, <3>1, NothingShown
  <2> QED
    BY <2>2, <2>3
<1>2. ASSUME NEW t \in Task, NEW uri \in Value, CompleteAudioProcessing(t, uri) PROVE ViewStep
  <2>1. /\ step' = [step EXCEPT ![t]["audio"] = "COMPLETED"]
        /\ output' = [output EXCEPT ![t]["audio"] = uri]
        /\ outcome' = outcome /\ "audio" \in Step
    BY <1>2 DEF CompleteAudioProcessing, Step
  <2>2. CASE output[t]["audio"] = uri
    <3>1. step[t]["audio"] = "COMPLETED"
      BY <2>1, <2>2, NoValueAssumption DEF OutputsMatchSteps
    <3>2. step' = step /\ output' = output
      BY <2>1, <2>2, <3>1 DEF TypeOK
    <3> QED
      BY <2>1, <3>2, NothingShown
  <2>3. CASE output[t]["audio"] # uri
    <3>1. output[t]["audio"] = NoValue /\ Status(t) = Started["audio"]
      BY <1>2, <2>3 DEF CompleteAudioProcessing, CanCompleteAudioProcessing, Started
    <3> QED
      BY <2>1, <3>1, EndStep
  <2> QED
    BY <2>2, <2>3
<1>3. ASSUME NEW t \in Task, NEW s \in CallbackStep, NEW token \in Token,
             StartCallbackStep(t, s, token)
      PROVE  ViewStep
  <2>1. /\ step' = [step EXCEPT ![t][s] = "PROCESSING"] /\ UNCHANGED <<outcome, output>>
        /\ s \in Step /\ Status(t) \in {Ready[s], Started[s]}
    BY <1>3 DEF StartCallbackStep, CanStartCallbackStep, Step
  <2>2. CASE Status(t) = Ready[s]
    BY <2>1, <2>2, BeginStep
  <2>3. CASE Status(t) = Started[s]
    <3>1. step[t][s] = "PROCESSING"
      BY <2>1, <2>3, StatusStarted
    <3>2. step' = step
      BY <2>1, <3>1 DEF TypeOK
    <3> QED
      BY <2>1, <3>2, NothingShown
  <2> QED
    BY <2>1, <2>2, <2>3
<1>4. ASSUME NEW t \in Task, NEW s \in CallbackStep, NEW token \in Token,
             NEW id \in ExternalId, NEW value \in Value,
             CompleteCallbackStep(t, s, token, id, value)
      PROVE  ViewStep
  <2>1. outcome' = outcome /\ s \in Step
    BY <1>4 DEF CompleteCallbackStep, Step
  <2>2. CASE output[t][s] = value
    BY <1>4, <2>1, <2>2, NothingShown DEF CompleteCallbackStep
  <2>3. CASE output[t][s] # value
    <3>1. /\ step' = [step EXCEPT ![t][s] = "COMPLETED"]
          /\ output' = [output EXCEPT ![t][s] = value]
          /\ output[t][s] = NoValue /\ Status(t) = Started[s]
      BY <1>4, <2>3 DEF CompleteCallbackStep, CanCompleteCallbackStep
    <3> QED
      BY <2>1, <3>1, EndStep
  <2> QED
    BY <2>2, <2>3
<1>5. ASSUME NEW a \in callbackAttempts, NEW error \in ErrorCode \cup {NoValue},
             RecordCallbackFailure(a, error)
      PROVE  ViewStep
  <2>1. a.task \in Task /\ a.step \in Step /\ UNCHANGED <<outcome, output>>
    BY <1>5 DEF RecordCallbackFailure, TypeOK, CallbackAttempt, Step
  <2>2. CASE Status(a.task) = "FAILED"
    BY <1>5, <2>1, <2>2, NothingShown DEF RecordCallbackFailure
  <2>3. CASE Status(a.task) # "FAILED"
    <3>1. /\ step' = [step EXCEPT ![a.task][a.step] = "FAILED"]
          /\ Status(a.task) = Started[a.step]
      BY <1>5, <2>3 DEF RecordCallbackFailure, CanRecordCallbackFailure
    <3> QED
      BY <2>1, <3>1, BreakStep
  <2> QED
    BY <2>2, <2>3
<1>6. ASSUME NEW t \in Task, NEW s \in Step, NEW error \in ErrorCode, FailStep(t, s, error)
      PROVE  ViewStep
  <2>1. CASE Status(t) = "FAILED"
    BY <1>6, <2>1, NothingShown DEF FailStep
  <2>2. CASE Status(t) # "FAILED"
    <3>1. /\ step' = [step EXCEPT ![t][s] = "FAILED"] /\ output' = output
          /\ outcome' = [outcome EXCEPT ![t] = "FAILED"] /\ Status(t) = Started[s]
      BY <1>6, <2>2 DEF FailStep, CanFailStep
    <3>2. outcome[t] = NoValue
      BY <3>1, StatusStarted
    <3>3. "FAILED" \in Outcome /\ \A u \in Task \ {t} : step'[u] = step[u]
      BY <3>1 DEF Outcome, TypeOK
    <3> QED
      BY <3>1, <3>2, <3>3, CloseTask
  <2> QED
    BY <2>1, <2>2
<1>7. ASSUME NEW t \in Task, NEW result \in Outcome,
             NEW error \in ErrorCode \cup {NoValue}, FinishWorkflow(t, result, error)
      PROVE  ViewStep
  <2>1. output' = output /\ outcome' = [outcome EXCEPT ![t] = result]
    BY <1>7 DEF FinishWorkflow
  <2>2. CASE outcome[t] = result
    <3>1. outcome' = outcome
      BY <2>1, <2>2 DEF TypeOK
    <3>2. outcome[t] # NoValue
      BY <2>2, NoValueAssumption DEF Outcome
    <3>3. step' = [step EXCEPT ![t] = [s \in Step |-> step[t][s]]]
      BY <1>7, <3>2 DEF FinishWorkflow
    <3>4. step' = step
      BY <3>3 DEF TypeOK
    <3> QED
      BY <2>1, <3>1, <3>4, NothingShown
  <2>3. CASE outcome[t] # result
    <3>1. /\ outcome[t] = NoValue
          /\ result = "SUCCEEDED"
                => Status(t) \in {"ASR_FINISHED", "MODERATION_PROCESSING_FINISHED"}
      BY <1>7, <2>3 DEF FinishWorkflow, CanFinishWorkflow
    <3>2. \A u \in Task \ {t} : step'[u] = step[u]
      BY <1>7 DEF FinishWorkflow, TypeOK
    <3> QED
      BY <2>1, <3>1, <3>2, CloseTask
  <2> QED
    BY <2>2, <2>3
<1>8. ASSUME NEW a \in callbackAttempts, NEW result \in {"SUCCEEDED", "FAILED"},
             FinalizeCallback(a, result)
      PROVE  ViewStep
  BY <1>7, <1>8 DEF FinalizeCallback, TypeOK, CallbackAttempt, Outcome
<1>9. ASSUME NEW t \in Task, RecordDispatchFailure(t) PROVE ViewStep
  <2>1. UNCHANGED <<step, output>> /\ outcome[t] = NoValue
    BY <1>9 DEF RecordDispatchFailure, CanRecordDispatchFailure, stepVars
  <2>2. CASE attemptCount[t] >= DispatchLimit
    <3>1. outcome' = [outcome EXCEPT ![t] = "FAILED"] /\ "FAILED" \in Outcome
      BY <1>9, <2>2 DEF RecordDispatchFailure, Outcome
    <3> QED
      BY <2>1, <3>1, CloseTask
  <2>3. CASE ~(attemptCount[t] >= DispatchLimit)
    <3>1. outcome' = outcome
      BY <1>9, <2>3 DEF RecordDispatchFailure, TypeOK
    <3> QED
      BY <2>1, <3>1, NothingShown
  <2> QED
    BY <2>2, <2>3
<1>10. ASSUME NEW t \in Task,
              \/ CreateTask(t) \/ ClaimDispatch(t) \/ LeaseExpires(t)
              \/ \E arn \in Arn : RecordExecution(t, arn)
              \/ \E s \in CallbackStep, id \in ExternalId : RecordExternalId(t, s, id)
       PROVE  UNCHANGED <<step, outcome, output>>
  BY <1>10 DEF CreateTask, ClaimDispatch, LeaseExpires, RecordExecution, RecordExternalId, stepVars
<1> QED
  BY <1>1, <1>2, <1>3, <1>4, <1>5, <1>6, <1>7, <1>8, <1>9, <1>10, NothingShown
     DEF Next, storeVars

-----------------------------------------------------------------------------
\* The store implements the lifecycle its readers rely on, whoever calls it in
\* whatever order.
THEOREM StoreImplementsLifecycle == Spec => ImplementsLifecycle
<1>1. Init => Lifecycle!Init
  <2> SUFFICES ASSUME Init PROVE Lifecycle!Init
    OBVIOUS
  <2>1. \A t \in Task : outcome[t] = NoValue /\ \A s \in Step : step[t][s] = "PENDING"
    BY DEF Init
  <2>2. \A t \in Task : Status(t) = "PENDING"
    BY <2>1 DEF Status, OpenStatus, Step, CallbackStep
  <2>3. output = [t \in Task |-> [s \in Lifecycle!Step |-> NoValue]]
    BY DEF Init, Step, CallbackStep, Lifecycle!Step
  <2> QED
    BY <2>1, <2>2, <2>3 DEF Lifecycle!Init
<1>2. Inv /\ Inv' /\ [Next]_storeVars => [Lifecycle!Next]_(Lifecycle!view)
  BY TransactionsAreLifecycleSteps DEF ViewStep, Lifecycle!view, shownStatus, closedTasks
<1> QED
  BY <1>1, <1>2, InvInductive, PTL DEF Spec, ImplementsLifecycle, Lifecycle!Spec

=============================================================================
