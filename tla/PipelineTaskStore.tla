---------------------------- MODULE PipelineTaskStore ----------------------------
(***************************************************************************)
(* The PostgreSQL store of pipeline tasks (database crate,                 *)
(* pipeline_task_store.rs).  A task is one evaluation: a row with an       *)
(* outcome and the dispatch lease, one row per processing step, and the    *)
(* callback tokens issued for it.                                          *)
(*                                                                         *)
(* Every public operation of the store is one transaction that locks the   *)
(* task row first, so it is one action here.  An operation that returns    *)
(* Ok is an action Op, guarded by the state predicate CanOp; where CanOp   *)
(* is false the operation returns an error and changes nothing.  Any       *)
(* caller may call any operation at any time: the modules that compose     *)
(* the store with its callers restrict this.                               *)
(***************************************************************************)
EXTENDS Naturals

CONSTANTS
    Task,         \* pipeline task ids
    Token,        \* Step Functions task tokens (the store keeps their digests)
    ExternalId,   \* ids the model services give to their jobs
    Value,        \* outputs: artifact URI, transcript, moderation scores
    ErrorCode,    \* (code, message) pairs a failure is recorded with
    Arn,          \* Step Functions execution ARNs
    NoValue       \* SQL NULL

ASSUME NoValueAssumption ==
    /\ NoValue \notin Value \cup ExternalId \cup Arn
    /\ NoValue \notin ErrorCode \cup {"WORKFLOW_TERMINATED"}
    /\ NoValue \notin {"SUCCEEDED", "FAILED", "TIMED_OUT", "CANCELLED"}

VARIABLES
    created,           \* tasks whose rows exist
    outcome,           \* pipeline_tasks.outcome
    executionArn,      \* pipeline_tasks.execution_arn
    dispatchLease,     \* pipeline_tasks.dispatch_started_at against the clock
    attemptCount,      \* pipeline_tasks.attempt_count
    step,              \* status of the audio, transcription, moderation rows
    output,            \* the step rows' results
    externalId,        \* the step rows' external_task_id
    stepError,         \* the step rows' error_code and error_message
    callbackAttempts   \* pipeline_callback_attempts

dispatchVars == <<executionArn, dispatchLease, attemptCount>>
stepVars == <<step, output, externalId, stepError>>
storeVars == <<created, outcome, executionArn, dispatchLease, attemptCount,
               step, output, externalId, stepError, callbackAttempts>>

-----------------------------------------------------------------------------
(* Enumerations                                                            *)

Outcome == {"SUCCEEDED", "FAILED", "TIMED_OUT", "CANCELLED"}

CallbackStep == {"transcription", "moderation"}

Step == {"audio"} \cup CallbackStep

StepStatus == {"PENDING", "PROCESSING", "COMPLETED", "FAILED"}

Lease == {"free", "held", "expired"}

\* The dispatch limit in claim_dispatch and record_dispatch_failure.
DispatchLimit == 3

Error == ErrorCode \cup {"WORKFLOW_TERMINATED", NoValue}

CallbackAttempt == [task : Task, step : CallbackStep, token : Token]

\* The status of a task whose step s is in progress, and of one that can begin s.
Started == [audio         |-> "STARTED_AUDIO_PROCESSING",
            transcription |-> "STARTED_ASR",
            moderation    |-> "STARTED_MODERATION_PROCESSING"]

Ready == [audio         |-> "PENDING",
          transcription |-> "AUDIO_PROCESSING_FINISHED",
          moderation    |-> "ASR_FINISHED"]

-----------------------------------------------------------------------------
(* The status callers see: the outcome if there is one, FAILED if a step   *)
(* failed, and otherwise how far the furthest begun step has come.         *)

OpenStatus(t) ==
    IF step[t]["moderation"] = "COMPLETED" THEN "MODERATION_PROCESSING_FINISHED"
    ELSE IF step[t]["moderation"] = "PROCESSING" THEN "STARTED_MODERATION_PROCESSING"
    ELSE IF step[t]["transcription"] = "COMPLETED" THEN "ASR_FINISHED"
    ELSE IF step[t]["transcription"] = "PROCESSING" THEN "STARTED_ASR"
    ELSE IF step[t]["audio"] = "COMPLETED" THEN "AUDIO_PROCESSING_FINISHED"
    ELSE IF step[t]["audio"] = "PROCESSING" THEN "STARTED_AUDIO_PROCESSING"
    ELSE "PENDING"

\* Fault: a failed step is not reported, the furthest other step is.
StatusIgnoringFailedSteps(t) ==
    IF outcome[t] # NoValue THEN outcome[t] ELSE OpenStatus(t)

Status(t) ==
    IF outcome[t] # NoValue THEN outcome[t]
    ELSE IF \E s \in Step : step[t][s] = "FAILED" THEN "FAILED"
    ELSE OpenStatus(t)

TokenIsFor(t, s, token) == [task |-> t, step |-> s, token |-> token] \in callbackAttempts

-----------------------------------------------------------------------------
Init ==
    /\ created = {}
    /\ outcome = [t \in Task |-> NoValue]
    /\ executionArn = [t \in Task |-> NoValue]
    /\ dispatchLease = [t \in Task |-> "free"]
    /\ attemptCount = [t \in Task |-> 0]
    /\ step = [t \in Task |-> [s \in Step |-> "PENDING"]]
    /\ output = [t \in Task |-> [s \in Step |-> NoValue]]
    /\ externalId = [t \in Task |-> [s \in CallbackStep |-> NoValue]]
    /\ stepError = [t \in Task |-> [s \in Step |-> NoValue]]
    /\ callbackAttempts = {}

\* create_or_get_review: the task row and its three step rows, all PENDING.
\* Called again for the same review it returns the rows it finds.
CreateTask(t) ==
    /\ created' = created \cup {t}
    /\ UNCHANGED <<outcome, dispatchVars, stepVars, callbackAttempts>>

-----------------------------------------------------------------------------
(* Dispatch                                                                *)

\* Fault: the retry limit is not part of the UPDATE's condition.
CanClaimWithoutLimit(t) ==
    /\ t \in created
    /\ executionArn[t] = NoValue
    /\ outcome[t] = NoValue
    /\ dispatchLease[t] # "held"

CanClaimDispatch(t) ==
    /\ t \in created
    /\ executionArn[t] = NoValue
    /\ outcome[t] = NoValue
    /\ attemptCount[t] < DispatchLimit
    /\ dispatchLease[t] # "held"

\* The attempt number returned is the new attempt_count.
ClaimDispatch(t) ==
    /\ CanClaimDispatch(t)
    /\ dispatchLease' = [dispatchLease EXCEPT ![t] = "held"]
    /\ attemptCount' = [attemptCount EXCEPT ![t] = @ + 1]
    /\ UNCHANGED <<created, outcome, executionArn, stepVars, callbackAttempts>>

\* The lease duration passes.
LeaseExpires(t) ==
    /\ dispatchLease[t] = "held"
    /\ dispatchLease' = [dispatchLease EXCEPT ![t] = "expired"]
    /\ UNCHANGED <<created, outcome, executionArn, attemptCount, stepVars, callbackAttempts>>

CanRecordDispatchFailure(t) ==
    t \in created /\ executionArn[t] = NoValue /\ outcome[t] = NoValue

\* Releases the lease.  The third failed attempt closes the task; the step
\* rows are left as they are.
RecordDispatchFailure(t) ==
    /\ CanRecordDispatchFailure(t)
    /\ dispatchLease' = [dispatchLease EXCEPT ![t] = "free"]
    /\ outcome' = [outcome EXCEPT ![t] =
                      IF attemptCount[t] >= DispatchLimit THEN "FAILED" ELSE @]
    /\ UNCHANGED <<created, executionArn, attemptCount, stepVars, callbackAttempts>>

CanRecordExecution(t, arn) ==
    /\ t \in created
    /\ \/ executionArn[t] = NoValue /\ outcome[t] = NoValue
       \/ executionArn[t] = arn

RecordExecution(t, arn) ==
    /\ CanRecordExecution(t, arn)
    /\ executionArn' = [executionArn EXCEPT ![t] = arn]
    /\ dispatchLease' = [dispatchLease EXCEPT ![t] =
                            IF executionArn[t] = NoValue THEN "free" ELSE @]
    /\ UNCHANGED <<created, outcome, attemptCount, stepVars, callbackAttempts>>

-----------------------------------------------------------------------------
(* The audio step, run by the audio worker itself                          *)

CanStartAudioProcessing(t) ==
    t \in created /\ Status(t) \notin Outcome

\* Only a PENDING task changes; a later, unfinished one accepts the replay.
StartAudioProcessing(t) ==
    /\ CanStartAudioProcessing(t)
    /\ step' = [step EXCEPT ![t]["audio"] =
                   IF Status(t) = "PENDING" THEN "PROCESSING" ELSE @]
    /\ UNCHANGED <<created, outcome, dispatchVars, output, externalId, stepError,
                   callbackAttempts>>

CanCompleteAudioProcessing(t, uri) ==
    /\ t \in created
    /\ \/ output[t]["audio"] = uri
       \/ output[t]["audio"] = NoValue /\ Status(t) = "STARTED_AUDIO_PROCESSING"

CompleteAudioProcessing(t, uri) ==
    /\ CanCompleteAudioProcessing(t, uri)
    /\ step' = [step EXCEPT ![t]["audio"] = "COMPLETED"]
    /\ output' = [output EXCEPT ![t]["audio"] = uri]
    /\ UNCHANGED <<created, outcome, dispatchVars, externalId, stepError, callbackAttempts>>

-----------------------------------------------------------------------------
(* The transcription and moderation steps, run by a model service that     *)
(* calls back with the step's task token                                   *)

\* The UNIQUE constraint on task_token_hash: a digest belongs to one attempt.
TokenIsFree(t, s, token) ==
    \A a \in callbackAttempts : a.token = token => a.task = t /\ a.step = s

\* Fault: moderation may begin while transcription is still running.
CanStartCallbackStepEarly(t, s, token) ==
    /\ t \in created
    /\ Status(t) \in {Ready[s], Started[s]} \cup (IF s = "moderation" THEN {"STARTED_ASR"} ELSE {})
    /\ TokenIsFree(t, s, token)

CanStartCallbackStep(t, s, token) ==
    /\ t \in created
    /\ Status(t) \in {Ready[s], Started[s]}
    /\ TokenIsFree(t, s, token)

\* Fault: the step begins and its token is not recorded.
StartCallbackStepWithoutToken(t, s, token) ==
    /\ CanStartCallbackStep(t, s, token)
    /\ step' = [step EXCEPT ![t][s] = "PROCESSING"]
    /\ UNCHANGED <<created, outcome, dispatchVars, output, externalId, stepError,
                   callbackAttempts>>

\* start_asr and start_moderation.  A retried start adds its own token.
StartCallbackStep(t, s, token) ==
    /\ CanStartCallbackStep(t, s, token)
    /\ step' = [step EXCEPT ![t][s] = "PROCESSING"]
    /\ callbackAttempts' = callbackAttempts \cup {[task |-> t, step |-> s, token |-> token]}
    /\ UNCHANGED <<created, outcome, dispatchVars, output, externalId, stepError>>

\* external_task_id is UNIQUE in each step table.
ExternalIdIsFree(t, s, id) ==
    /\ externalId[t][s] \in {NoValue, id}
    /\ \A u \in Task \ {t} : externalId[u][s] # id

\* record_asr_task and record_moderation_task: whatever the task's status.
RecordExternalId(t, s, id) ==
    /\ t \in created
    /\ ExternalIdIsFree(t, s, id)
    /\ externalId' = [externalId EXCEPT ![t][s] = id]
    /\ UNCHANGED <<created, outcome, dispatchVars, step, output, stepError, callbackAttempts>>

\* Fault: the status is not looked at, only the step row.
CanCompleteClosedStep(t, s, token, id, value) ==
    /\ t \in created
    /\ TokenIsFor(t, s, token)
    /\ ExternalIdIsFree(t, s, id)
    /\ \/ output[t][s] = value
       \/ output[t][s] = NoValue /\ step[t][s] # "PENDING"

CanCompleteCallbackStep(t, s, token, id, value) ==
    /\ t \in created
    /\ TokenIsFor(t, s, token)
    /\ ExternalIdIsFree(t, s, id)
    /\ \/ output[t][s] = value
       \/ output[t][s] = NoValue /\ Status(t) = Started[s]

\* complete_asr and complete_moderation.  The replay of a recorded result
\* is accepted and changes nothing, in whatever state the task is.
CompleteCallbackStep(t, s, token, id, value) ==
    /\ CanCompleteCallbackStep(t, s, token, id, value)
    /\ IF output[t][s] = value
          THEN UNCHANGED <<step, output, externalId>>
          ELSE /\ step' = [step EXCEPT ![t][s] = "COMPLETED"]
               /\ output' = [output EXCEPT ![t][s] = value]
               /\ externalId' = [externalId EXCEPT ![t][s] = id]
    /\ UNCHANGED <<created, outcome, dispatchVars, stepError, callbackAttempts>>

-----------------------------------------------------------------------------
(* Failures                                                                *)

\* Fault: a failure callback is accepted in any open status, so also after the
\* step's result.
CanRecordLateCallbackFailure(a, error) ==
    /\ a \in callbackAttempts
    /\ a.task \in created
    /\ \/ outcome[a.task] = NoValue
       \/ Status(a.task) = "FAILED" /\ stepError[a.task][a.step] = error

\* record_callback_failure: the task and the step come from the token.  The
\* failure of a failed task is accepted again only if it is the same one.
CanRecordCallbackFailure(a, error) ==
    /\ a \in callbackAttempts
    /\ a.task \in created
    /\ \/ Status(a.task) = Started[a.step]
       \/ Status(a.task) = "FAILED" /\ stepError[a.task][a.step] = error

\* The outcome stays open: the workflow still has to accept the failure.
RecordCallbackFailure(a, error) ==
    /\ CanRecordCallbackFailure(a, error)
    /\ IF Status(a.task) = "FAILED"
          THEN UNCHANGED <<step, stepError>>
          ELSE /\ step' = [step EXCEPT ![a.task][a.step] = "FAILED"]
               /\ stepError' = [stepError EXCEPT ![a.task][a.step] = error]
    /\ UNCHANGED <<created, outcome, dispatchVars, output, externalId, callbackAttempts>>

\* Fault: any open task may be failed, also one whose step has completed.
CanFailOpenTask(t, s) ==
    t \in created /\ (outcome[t] = NoValue \/ Status(t) = "FAILED")

CanFailStep(t, s) ==
    t \in created /\ Status(t) \in {Started[s], "FAILED"}

\* fail_audio_processing, fail_asr_request, fail_moderation_request: closes
\* the task with its step.  On a failed task it is accepted and does nothing.
FailStep(t, s, error) ==
    /\ CanFailStep(t, s)
    /\ IF Status(t) = "FAILED"
          THEN UNCHANGED <<step, stepError, outcome>>
          ELSE /\ step' = [step EXCEPT ![t][s] = "FAILED"]
               /\ stepError' = [stepError EXCEPT ![t][s] = error]
               /\ outcome' = [outcome EXCEPT ![t] = "FAILED"]
    /\ UNCHANGED <<created, dispatchVars, output, externalId, callbackAttempts>>

-----------------------------------------------------------------------------
(* Finishing                                                               *)

\* Fault: the workflow may report success from any status.
CanFinishAnyhow(t, result) ==
    /\ t \in created
    /\ outcome[t] \in {NoValue, result}

\* Fault: an outcome that is there is replaced.
CanFinishAgain(t, result) ==
    /\ t \in created
    /\ result = "SUCCEEDED"
           => OpenStatus(t) \in {"ASR_FINISHED", "MODERATION_PROCESSING_FINISHED"}

CanFinishWorkflow(t, result) ==
    /\ t \in created
    /\ \/ outcome[t] = result
       \/ /\ outcome[t] = NoValue
          /\ result = "SUCCEEDED"
                 => Status(t) \in {"ASR_FINISHED", "MODERATION_PROCESSING_FINISHED"}

Interrupted(t) == {s \in Step : step[t][s] = "PROCESSING"}

\* Fault: the running steps of a task that ends without success are left running.
FinishWorkflowLeavingSteps(t, result, error) ==
    /\ CanFinishWorkflow(t, result)
    /\ outcome' = [outcome EXCEPT ![t] = result]
    /\ UNCHANGED <<created, dispatchVars, stepVars, callbackAttempts>>

\* finish_workflow_with_callback: the first outcome stays; anything but
\* success also fails the steps that are running.
FinishWorkflow(t, result, error) ==
    /\ CanFinishWorkflow(t, result)
    /\ LET failing == IF outcome[t] = NoValue /\ result # "SUCCEEDED"
                         THEN Interrupted(t) ELSE {}
           code == IF error = NoValue THEN "WORKFLOW_TERMINATED" ELSE error
       IN  /\ step' = [step EXCEPT ![t] =
                          [s \in Step |-> IF s \in failing THEN "FAILED" ELSE step[t][s]]]
           /\ stepError' = [stepError EXCEPT ![t] =
                          [s \in Step |-> IF s \in failing THEN code ELSE stepError[t][s]]]
    /\ outcome' = [outcome EXCEPT ![t] = result]
    /\ UNCHANGED <<created, dispatchVars, output, externalId, callbackAttempts>>

\* finalize_callback_failure, finalize_asr_success and finalize_asr_failure:
\* the caller must hold a token issued for the task, and only a transcription
\* token can report success.
FinalizeCallback(a, result) ==
    /\ a \in callbackAttempts
    /\ result = "SUCCEEDED" => a.step = "transcription"
    /\ FinishWorkflow(a.task, result, NoValue)

-----------------------------------------------------------------------------
Next ==
    \/ \E t \in Task :
          \/ CreateTask(t)
          \/ ClaimDispatch(t)
          \/ LeaseExpires(t)
          \/ RecordDispatchFailure(t)
          \/ \E arn \in Arn : RecordExecution(t, arn)
          \/ StartAudioProcessing(t)
          \/ \E uri \in Value : CompleteAudioProcessing(t, uri)
          \/ \E s \in CallbackStep, token \in Token : StartCallbackStep(t, s, token)
          \/ \E s \in CallbackStep, id \in ExternalId : RecordExternalId(t, s, id)
          \/ \E s \in CallbackStep, token \in Token, id \in ExternalId, value \in Value :
                CompleteCallbackStep(t, s, token, id, value)
          \/ \E s \in Step, error \in ErrorCode : FailStep(t, s, error)
          \/ \E result \in Outcome, error \in ErrorCode \cup {NoValue} :
                FinishWorkflow(t, result, error)
    \/ \E a \in callbackAttempts :
          \/ \E error \in ErrorCode \cup {NoValue} : RecordCallbackFailure(a, error)
          \/ \E result \in {"SUCCEEDED", "FAILED"} : FinalizeCallback(a, result)

Spec == Init /\ [][Next]_storeVars

-----------------------------------------------------------------------------
(* Properties                                                              *)

\* Every column holds a value of its type, and attempt_count stays within
\* the dispatch limit.
TypeOK ==
    /\ created \in SUBSET Task
    /\ outcome \in [Task -> Outcome \cup {NoValue}]
    /\ executionArn \in [Task -> Arn \cup {NoValue}]
    /\ dispatchLease \in [Task -> Lease]
    /\ attemptCount \in [Task -> 0 .. DispatchLimit]
    /\ step \in [Task -> [Step -> StepStatus]]
    /\ output \in [Task -> [Step -> Value \cup {NoValue}]]
    /\ externalId \in [Task -> [CallbackStep -> ExternalId \cup {NoValue}]]
    /\ stepError \in [Task -> [Step -> Error]]
    /\ callbackAttempts \in SUBSET CallbackAttempt

\* A step is only ever begun on a finished predecessor, through every order of
\* starts, late callbacks, failures and terminations: so at most one step of a
\* task is running or failed.
StepsInOrder ==
    \A t \in Task :
       /\ step[t]["transcription"] # "PENDING" => step[t]["audio"] = "COMPLETED"
       /\ step[t]["moderation"] # "PENDING" => step[t]["transcription"] = "COMPLETED"

\* A step has its result exactly when it completed: nobody reads the result
\* of a step that later failed, and no replayed callback completes a step
\* without one (the *_completed_output_present constraints, and their converse).
OutputsMatchSteps ==
    \A t \in Task, s \in Step : step[t][s] = "COMPLETED" <=> output[t][s] # NoValue

\* A token digest names one task and one step, so a callback that is resolved
\* by its token alone cannot land on another evaluation.
TokenNamesOneStep ==
    \A a, b \in callbackAttempts : a.token = b.token => a = b

\* No model service works on a step whose callback would be refused: a step
\* that is past PENDING has a recorded token.
BegunStepsHaveToken ==
    \A t \in Task, s \in CallbackStep :
       step[t][s] # "PENDING" => \E token \in Token : TokenIsFor(t, s, token)

\* A callback finds the one step it is for: however starts are retried, the
\* token that a model service was given leads to it and nowhere else.
CallbacksResolve == TokenNamesOneStep /\ BegunStepsHaveToken

\* The outcome agrees with the steps: a task is SUCCEEDED only with its
\* transcript and with nothing left running or failed.
SuccessIsComplete ==
    \A t \in Task :
       outcome[t] = "SUCCEEDED" =>
          /\ step[t]["transcription"] = "COMPLETED"
          /\ step[t]["moderation"] \in {"PENDING", "COMPLETED"}

\* A closed task has no running step, whichever of the workflow's catch, its
\* reconciliation or a callback closed it.  The dispatcher is the exception:
\* it gives up on an unrecorded execution without looking at the steps.
ClosedTasksAreIdle ==
    \A t \in Task :
       outcome[t] # NoValue /\ Interrupted(t) # {} =>
          /\ outcome[t] = "FAILED"
          /\ executionArn[t] = NoValue
          /\ attemptCount[t] = DispatchLimit

\* Whoever writes the outcome, the execution, a result or an external id first
\* wins: later calls find it and leave it.
FirstWriteWins ==
    [][\A t \in Task :
          /\ outcome[t] # NoValue => outcome'[t] = outcome[t]
          /\ executionArn[t] # NoValue => executionArn'[t] = executionArn[t]
          /\ \A s \in Step : output[t][s] # NoValue => output'[t][s] = output[t][s]
          /\ \A s \in CallbackStep :
                externalId[t][s] # NoValue => externalId'[t][s] = externalId[t][s]]_storeVars

\* After the outcome nothing a reader can see changes: late starts, callbacks
\* and dispatches of a closed task are refused or do nothing.
ClosedTasksAreFrozen ==
    [][\A t \in Task :
          outcome[t] # NoValue =>
             /\ UNCHANGED <<step[t], output[t], stepError[t], executionArn[t], attemptCount[t]>>
             /\ \A a \in callbackAttempts' \ callbackAttempts : a.task # t]_storeVars

\* The detailed store implements the lifecycle its readers rely on.
Lifecycle == INSTANCE TaskLifecycle WITH
    status <- [t \in Task |-> Status(t)],
    closed <- {t \in Task : outcome[t] # NoValue},
    result <- output

ImplementsLifecycle == Lifecycle!Spec

=============================================================================
