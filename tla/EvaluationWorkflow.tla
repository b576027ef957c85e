---------------------------- MODULE EvaluationWorkflow ----------------------------
(***************************************************************************)
(* One evaluation's Step Functions execution (evaluation-workflow.tf) with *)
(* the Lambdas it invokes over the task store: the audio worker, the       *)
(* transcription and moderation callers, the callback Lambda that resumes  *)
(* it, and the reconciliation of its end by EventBridge.                   *)
(*                                                                         *)
(* The execution retries an invocation that Lambda reports a service error *)
(* for, under a new task token, while the earlier invocation may still     *)
(* run.  So an invocation is named by its step and the attempt it belongs  *)
(* to, and each model job carries the token of one request.  Every call of *)
(* a Lambda that changes state is a step of its own, and any call may      *)
(* fail, time out or lose its answer.                                      *)
(*                                                                         *)
(* Outside the program, and modelled from how it is used: Step Functions,  *)
(* Lambda, EventBridge and the model service's jobs.  Dispatch, which ends *)
(* where the execution begins, is the subject of UploadDispatch.           *)
(***************************************************************************)
EXTENDS PipelineTaskStore

CONSTANTS
    Evaluation,       \* the task that is evaluated
    AudioUri,         \* where the execution's input has the stitched audio go
    JobId,            \* the id a model service gives the step's job
    MaxRetries,       \* Retry MaxAttempts of a state: 3 in the definition
    TokenOf,          \* the task token of a step's attempt
    MaxServiceErrors, \* bound: Lambda service errors the execution sees
    MaxFaults         \* bound: crashes, failed calls, lost answers, long delays, stops

Attempt == 0 .. MaxRetries

Invocation == Step \X Attempt

Request == CallbackStep \X Attempt

ASSUME WorkflowAssumption ==
    /\ Evaluation \in Task
    /\ AudioUri \in Value
    /\ JobId \in [CallbackStep -> ExternalId]
    /\ MaxRetries \in Nat /\ MaxServiceErrors \in Nat /\ MaxFaults \in Nat
    /\ TokenOf \in [Request -> Token]
    /\ \A q, r \in Request : TokenOf[q] = TokenOf[r] => q = r

VARIABLES
    state,          \* the execution's state; a Task state is named by its step
    attempt,        \* retries made in it
    handed,         \* $.transcriptionResult, which moderation is requested with
    invocation,     \* where each Lambda invocation of a step is
    finalizer,      \* the audio worker invoked by FinalizeSuccess, FinalizeFailure
    job,            \* the model service's job for a request's token
    result,         \* what the job came to: a value, or NoValue for a failure
    callback,       \* the callback Lambda's invocations for a job, post by post
    reconciler,     \* the audio worker invoked by EventBridge
    deliveries,     \* its deliveries
    logged,         \* names of the events in the evaluation's log
    serviceErrors,
    faults

executionVars == <<state, attempt, handed>>
jobVars == <<job, result, callback>>
endVars == <<finalizer, reconciler, deliveries>>
budgetVars == <<serviceErrors, faults>>
workflowVars == <<storeVars, executionVars, invocation, jobVars, endVars, logged, budgetVars>>

-----------------------------------------------------------------------------
(* Enumerations                                                            *)

Terminal == {"SUCCEEDED", "FAILED", "ABORTED"}

ExecutionState == {"none", "FinalizeSuccess", "FinalizeFailure"} \cup Step \cup Terminal

Busy == {"starting", "announcing", "working", "completing", "announcingResult",
         "failing", "announcingFailure"}

InvocationStage == {"idle", "ok", "error"} \cup Busy

WorkerStage == {"idle", "finishing", "announcing", "ok", "error"}

JobState == {"none", "queued", "done"}

\* CALLBACK_MAX_ATTEMPTS.
Post == 1 .. 3

Answering == {"storing", "announcing", "resuming", "recordingFailure", "reportingFailure",
              "finalizing", "announcingFailure"}

\* The client tries again after "unavailable" (500, 502, 503, a lost answer)
\* and gives up after "refused" (409, a function error).
CallbackStage == {"unsent", "accepted", "refused", "unavailable"} \cup Answering

MaxReconciliations == 3

StartEvent == [audio         |-> "AUDIO_PROCESSING_STARTED",
               transcription |-> "ASR_STARTED",
               moderation    |-> "MODERATION_PROCESSING_STARTED"]

FinishEvent == [audio         |-> "AUDIO_PROCESSING_FINISHED",
                transcription |-> "ASR_FINISHED",
                moderation    |-> "MODERATION_PROCESSING_FINISHED"]

StepEvents == {StartEvent[s] : s \in Step} \cup {FinishEvent[s] : s \in Step}

\* The outcome an execution's end is reconciled with.
OutcomeOf == [SUCCEEDED |-> "SUCCEEDED", FAILED |-> "FAILED", ABORTED |-> "CANCELLED"]

-----------------------------------------------------------------------------
WorkflowInit ==
    /\ Init
    /\ state = "none"
    /\ attempt = 0
    /\ handed = NoValue
    /\ invocation = [i \in Invocation |-> "idle"]
    /\ finalizer = [verdict \in {"SUCCEEDED", "FAILED"} |-> "idle"]
    /\ job = [r \in Request |-> "none"]
    /\ result = [r \in Request |-> NoValue]
    /\ callback = [r \in Request |-> [p \in Post |-> "unsent"]]
    /\ reconciler = "idle"
    /\ deliveries = 0
    /\ logged = {}
    /\ serviceErrors = 0
    /\ faults = 0

Fault ==
    /\ faults < MaxFaults
    /\ faults' = faults + 1

\* TaskEventEmitter::emit writes the log before it posts to any connection.
Emit(event) ==
    /\ logged' = logged \cup {event}
    /\ UNCHANGED faults

EmitFails(event) ==
    /\ Fault
    /\ logged' \in {logged, logged \cup {event}}

-----------------------------------------------------------------------------
(* The execution                                                           *)

Current == <<state, attempt>>

\* The state is entered, or its Lambda invoked again.
Invoke(s, a) ==
    /\ state' = s
    /\ attempt' = a
    /\ invocation' = [invocation EXCEPT ![<<s, a>>] = "starting"]
    /\ UNCHANGED finalizer

Finalize(final, verdict) ==
    /\ state' = final
    /\ finalizer' = [finalizer EXCEPT ![verdict] = "finishing"]
    /\ UNCHANGED <<attempt, invocation>>

\* Catch States.ALL.
Catch == Finalize("FinalizeFailure", "FAILED")

Submit ==
    /\ CreateTask(Evaluation)
    /\ UNCHANGED <<executionVars, invocation, jobVars, endVars, logged, budgetVars>>

StartExecution ==
    /\ state = "none"
    /\ Evaluation \in created
    /\ Invoke("audio", 0)
    /\ UNCHANGED <<storeVars, handed, jobVars, reconciler, deliveries, logged, budgetVars>>

\* ConvertAudio goes on; the answer of a caller is not looked at any further.
AudioConverted ==
    /\ state = "audio"
    /\ invocation[Current] = "ok"
    /\ Invoke("transcription", 0)
    /\ UNCHANGED <<storeVars, handed, jobVars, reconciler, deliveries, logged, budgetVars>>

\* An error of the function itself is not retried.
FunctionError ==
    /\ state \in Step
    /\ invocation[Current] = "error"
    /\ Catch
    /\ UNCHANGED <<storeVars, handed, jobVars, reconciler, deliveries, logged, budgetVars>>

RetryOrCatch ==
    IF attempt < MaxRetries THEN Invoke(state, attempt + 1) ELSE Catch

\* Lambda reports one of the retried errors: the function never ran, or it
\* still runs and the execution no longer listens.
ServiceError ==
    /\ state \in Step
    /\ invocation[Current] \in Busy
    /\ serviceErrors < MaxServiceErrors
    /\ serviceErrors' = serviceErrors + 1
    /\ RetryOrCatch
    /\ UNCHANGED <<storeVars, handed, jobVars, reconciler, deliveries, logged, faults>>

\* Nothing is left that could call back for step s.
Quiet(s) ==
    \A r \in Request : r[1] = s =>
       /\ invocation[r] \notin Busy
       /\ job[r] # "queued"
       /\ \A p \in Post :
             /\ callback[r][p] \notin Answering
             /\ callback[r][p] = "unavailable" /\ p < 3 => callback[r][p + 1] # "unsent"

\* TimeoutSeconds = 3600, far longer than any other timeout: it passes when
\* everything else has come to an end, or because something takes an hour.
TimeOut ==
    /\ state \in CallbackStep
    /\ Quiet(state)
    /\ Catch
    /\ UNCHANGED <<storeVars, handed, jobVars, reconciler, deliveries, logged, budgetVars>>

TimeOutEarly ==
    /\ state \in CallbackStep
    /\ Fault
    /\ Catch
    /\ UNCHANGED <<storeVars, handed, jobVars, reconciler, deliveries, logged, serviceErrors>>

\* SendTaskSuccess and SendTaskFailure find the task waiting on the token.
Awaited(r) == Current = r

\* Fault: a finished transcription ends the evaluation.
ResumeSkippingModeration(r) ==
    IF r[1] = "transcription"
       THEN Finalize("FinalizeSuccess", "SUCCEEDED") /\ handed' = result[r]
       ELSE Finalize("FinalizeSuccess", "SUCCEEDED") /\ UNCHANGED handed

\* The transcript comes with the callback; moderation's output is discarded.
Resume(r) ==
    IF r[1] = "transcription"
       THEN Invoke("moderation", 0) /\ handed' = result[r]
       ELSE Finalize("FinalizeSuccess", "SUCCEEDED") /\ UNCHANGED handed

\* A final state has no Retry and no Catch, and it ends the execution.
FinalizerReturned ==
    /\ \/ /\ state = "FinalizeSuccess" /\ finalizer["SUCCEEDED"] = "ok"
          /\ state' = "SUCCEEDED"
       \/ /\ state = "FinalizeFailure" /\ finalizer["FAILED"] = "ok"
          /\ state' = "SUCCEEDED"
       \/ /\ state = "FinalizeSuccess" /\ finalizer["SUCCEEDED"] = "error"
          /\ state' = "FAILED"
       \/ /\ state = "FinalizeFailure" /\ finalizer["FAILED"] = "error"
          /\ state' = "FAILED"
    /\ UNCHANGED <<storeVars, attempt, handed, invocation, jobVars, endVars, logged, budgetVars>>

FinalizerServiceError ==
    /\ state \in {"FinalizeSuccess", "FinalizeFailure"}
    /\ serviceErrors < MaxServiceErrors
    /\ serviceErrors' = serviceErrors + 1
    /\ state' = "FAILED"
    /\ UNCHANGED <<storeVars, attempt, handed, invocation, jobVars, endVars, logged, faults>>

\* An operator stops the execution.
Abort ==
    /\ state \notin {"none"} \cup Terminal
    /\ state' = "ABORTED"
    /\ Fault
    /\ UNCHANGED <<storeVars, attempt, handed, invocation, jobVars, endVars, logged, serviceErrors>>

Execution ==
    \/ StartExecution \/ AudioConverted \/ FunctionError \/ TimeOut \/ FinalizerReturned

-----------------------------------------------------------------------------
(* The Lambdas it invokes: the audio worker and the two callers            *)

At(i, stage) == invocation[i] = stage

GoTo(i, stage) == invocation' = [invocation EXCEPT ![i] = stage]

Begin(i) ==
    IF i[1] = "audio" THEN StartAudioProcessing(Evaluation)
                      ELSE StartCallbackStep(Evaluation, i[1], TokenOf[i])

CanBegin(i) ==
    IF i[1] = "audio" THEN CanStartAudioProcessing(Evaluation)
                      ELSE CanStartCallbackStep(Evaluation, i[1], TokenOf[i])

StartStep(i) ==
    /\ At(i, "starting")
    /\ \/ Begin(i) /\ GoTo(i, "announcing")
       \/ ~ CanBegin(i) /\ GoTo(i, "error") /\ UNCHANGED storeVars
    /\ UNCHANGED <<executionVars, jobVars, endVars, logged, budgetVars>>

\* Fault: the event is only tried after the work is under way.
AnnounceStartUnchecked(i) ==
    /\ At(i, "announcing")
    /\ \/ Emit(StartEvent[i[1]]) \/ EmitFails(StartEvent[i[1]])
    /\ GoTo(i, "working")
    /\ UNCHANGED <<storeVars, executionVars, jobVars, endVars, serviceErrors>>

AnnounceStart(i) ==
    /\ At(i, "announcing")
    /\ \/ Emit(StartEvent[i[1]]) /\ GoTo(i, "working")
       \/ EmitFails(StartEvent[i[1]]) /\ GoTo(i, "error")
    /\ UNCHANGED <<storeVars, executionVars, jobVars, endVars, serviceErrors>>

\* The audio is downloaded, stitched and uploaded, or something of it fails.
Convert(i) ==
    /\ At(i, "working")
    /\ i[1] = "audio"
    /\ GoTo(i, "completing") \/ GoTo(i, "failing")
    /\ UNCHANGED <<storeVars, executionVars, jobVars, endVars, logged, budgetVars>>

\* The model service keeps one job per idempotency key, which names the task
\* and the step and not the token: it runs for the request that came first.
Accept(r) ==
    job' = [job EXCEPT ![r] =
               IF \E q \in Request : q[1] = r[1] /\ job[q] # "none" THEN @ ELSE "queued"]

\* An acceptance the service could not record: the job runs again, for r.
AcceptAgain(r) == job' = [job EXCEPT ![r] = "queued"]

\* The request fails before it has an effect, or its answer is lost.
PostRequest(r) ==
    /\ At(r, "working")
    /\ \/ Accept(r) /\ GoTo(r, "completing") /\ UNCHANGED faults
       \/ AcceptAgain(r) /\ GoTo(r, "completing") /\ Fault
       \/ (Accept(r) \/ UNCHANGED job) /\ Fault /\ GoTo(r, "failing")
    /\ UNCHANGED <<storeVars, executionVars, result, callback, endVars, logged, serviceErrors>>

\* complete_audio_processing.
StoreAudio(i) ==
    /\ At(i, "completing")
    /\ i[1] = "audio"
    /\ \/ CompleteAudioProcessing(Evaluation, AudioUri) /\ GoTo(i, "announcingResult")
       \/ /\ ~ CanCompleteAudioProcessing(Evaluation, AudioUri)
          /\ GoTo(i, "error")
          /\ UNCHANGED storeVars
    /\ UNCHANGED <<executionVars, jobVars, endVars, logged, budgetVars>>

AnnounceAudio(i) ==
    /\ At(i, "announcingResult")
    /\ \/ Emit(FinishEvent["audio"]) /\ GoTo(i, "ok")
       \/ EmitFails(FinishEvent["audio"]) /\ GoTo(i, "error")
    /\ UNCHANGED <<storeVars, executionVars, jobVars, endVars, serviceErrors>>

\* record_asr_task and record_moderation_task: perhaps after the callback.
RecordJob(r) ==
    /\ At(r, "completing")
    /\ \/ RecordExternalId(Evaluation, r[1], JobId[r[1]]) /\ GoTo(r, "ok")
       \/ /\ ~ ExternalIdIsFree(Evaluation, r[1], JobId[r[1]])
          /\ GoTo(r, "error")
          /\ UNCHANGED storeVars
    /\ UNCHANGED <<executionVars, jobVars, endVars, logged, budgetVars>>

\* The worker swallows what goes wrong while it records its failure, a caller
\* returns it: either way the invocation ends with an error.
RecordFailure(i) ==
    /\ At(i, "failing")
    /\ \/ /\ \E error \in ErrorCode : FailStep(Evaluation, i[1], error)
          /\ GoTo(i, "announcingFailure")
       \/ ~ CanFailStep(Evaluation, i[1]) /\ GoTo(i, "error") /\ UNCHANGED storeVars
    /\ UNCHANGED <<executionVars, jobVars, endVars, logged, budgetVars>>

AnnounceFailure(i) ==
    /\ At(i, "announcingFailure")
    /\ Emit("FAILED") \/ EmitFails("FAILED")
    /\ GoTo(i, "error")
    /\ UNCHANGED <<storeVars, executionVars, jobVars, endVars, serviceErrors>>

\* A call to the store fails, the function times out or its process ends.
Crash(i) ==
    /\ invocation[i] \in Busy
    /\ Fault
    /\ GoTo(i, "error")
    /\ UNCHANGED <<storeVars, executionVars, jobVars, endVars, logged, serviceErrors>>

\* An invocation the execution has given up on was never run.
NeverRan(i) ==
    /\ At(i, "starting")
    /\ Current # i
    /\ GoTo(i, "error")
    /\ UNCHANGED <<storeVars, executionVars, jobVars, endVars, logged, budgetVars>>

InvocationStep(i) ==
    \/ StartStep(i) \/ AnnounceStart(i) \/ RecordFailure(i) \/ AnnounceFailure(i)
    \/ Convert(i) \/ StoreAudio(i) \/ AnnounceAudio(i)
    \/ i \in Request /\ (PostRequest(i) \/ RecordJob(i))

-----------------------------------------------------------------------------
(* The model service's job and the callback Lambda                         *)

PostAt(r, p, stage) == callback[r][p] = stage

Answer(r, p, stage) == callback' = [callback EXCEPT ![r][p] = stage]

FirstStage(value) == IF value = NoValue THEN "recordingFailure" ELSE "storing"

\* process_model: the model's result or failure, and the first post of it.
RunModel(r) ==
    /\ job[r] = "queued"
    /\ job' = [job EXCEPT ![r] = "done"]
    /\ \E value \in Value \cup {NoValue} :
          /\ result' = [result EXCEPT ![r] = value]
          /\ Answer(r, 1, FirstStage(value))
    /\ UNCHANGED <<storeVars, executionVars, invocation, endVars, logged, budgetVars>>

\* The function is not retried.
LoseJob(r) ==
    /\ job[r] = "queued"
    /\ job' = [job EXCEPT ![r] = "done"]
    /\ Fault
    /\ UNCHANGED <<storeVars, executionVars, invocation, result, callback, endVars, logged,
                   serviceErrors>>

NextPost(r, p) ==
    /\ p < 3
    /\ PostAt(r, p + 1, "unsent")
    /\ Answer(r, p + 1, FirstStage(result[r]))
    /\ UNCHANGED <<storeVars, executionVars, invocation, job, result, endVars, logged,
                   serviceErrors>>

\* post_callback tries again.
PostAgain(r, p) == PostAt(r, p, "unavailable") /\ NextPost(r, p) /\ UNCHANGED faults

\* It waited ten seconds in vain, and the earlier invocation is still running.
PostInParallel(r, p) == callback[r][p] \in Answering /\ NextPost(r, p) /\ Fault

\* Fault: a result that is refused resumes the execution all the same.
StoreResultUnchecked(r, p) ==
    /\ PostAt(r, p, "storing")
    /\ Answer(r, p, "announcing")
    /\ \/ CompleteCallbackStep(Evaluation, r[1], TokenOf[r], JobId[r[1]], result[r])
       \/ /\ ~ CanCompleteCallbackStep(Evaluation, r[1], TokenOf[r], JobId[r[1]], result[r])
          /\ UNCHANGED storeVars
    /\ UNCHANGED <<executionVars, invocation, job, result, endVars, logged, budgetVars>>

\* complete_asr and complete_moderation.
StoreResult(r, p) ==
    /\ PostAt(r, p, "storing")
    /\ \/ /\ CompleteCallbackStep(Evaluation, r[1], TokenOf[r], JobId[r[1]], result[r])
          /\ Answer(r, p, "announcing")
       \/ /\ ~ CanCompleteCallbackStep(Evaluation, r[1], TokenOf[r], JobId[r[1]], result[r])
          /\ Answer(r, p, "refused")
          /\ UNCHANGED storeVars
    /\ UNCHANGED <<executionVars, invocation, job, result, endVars, logged, budgetVars>>

AnnounceResult(r, p) ==
    /\ PostAt(r, p, "announcing")
    /\ \/ Emit(FinishEvent[r[1]]) /\ Answer(r, p, "resuming")
       \/ EmitFails(FinishEvent[r[1]]) /\ Answer(r, p, "unavailable")
    /\ UNCHANGED <<storeVars, executionVars, invocation, job, result, endVars, serviceErrors>>

\* SendTaskSuccess, whose answer may be lost.
SendTaskSuccess(r, p) ==
    /\ PostAt(r, p, "resuming")
    /\ \/ /\ Awaited(r)
          /\ Resume(r)
          /\ \/ Answer(r, p, "accepted") /\ UNCHANGED faults
             \/ Answer(r, p, "unavailable") /\ Fault
       \/ /\ ~ Awaited(r)
          /\ Answer(r, p, "refused")
          /\ UNCHANGED <<executionVars, invocation, finalizer, faults>>
    /\ UNCHANGED <<storeVars, job, result, reconciler, deliveries, logged, serviceErrors>>

RecordModelFailure(r, p) ==
    /\ PostAt(r, p, "recordingFailure")
    /\ LET a == [task |-> Evaluation, step |-> r[1], token |-> TokenOf[r]]
       IN  \/ \E error \in ErrorCode :
                 RecordCallbackFailure(a, error) /\ Answer(r, p, "reportingFailure")
           \/ /\ \A error \in ErrorCode : ~ CanRecordCallbackFailure(a, error)
              /\ Answer(r, p, "refused")
              /\ UNCHANGED storeVars
    /\ UNCHANGED <<executionVars, invocation, job, result, endVars, logged, budgetVars>>

\* SendTaskFailure: the outcome stays open unless the execution took it.
SendTaskFailure(r, p) ==
    /\ PostAt(r, p, "reportingFailure")
    /\ \/ /\ Awaited(r)
          /\ Catch
          /\ \/ Answer(r, p, "finalizing") /\ UNCHANGED faults
             \/ Answer(r, p, "unavailable") /\ Fault
       \/ /\ ~ Awaited(r)
          /\ Answer(r, p, "refused")
          /\ UNCHANGED <<state, attempt, invocation, finalizer, faults>>
    /\ UNCHANGED <<storeVars, handed, job, result, reconciler, deliveries, logged, serviceErrors>>

FinalizeFailedCallback(r, p) ==
    /\ PostAt(r, p, "finalizing")
    /\ LET a == [task |-> Evaluation, step |-> r[1], token |-> TokenOf[r]]
       IN  \/ FinalizeCallback(a, "FAILED") /\ Answer(r, p, "announcingFailure")
           \/ /\ ~ CanFinishWorkflow(Evaluation, "FAILED")
              /\ Answer(r, p, "refused")
              /\ UNCHANGED storeVars
    /\ UNCHANGED <<executionVars, invocation, job, result, endVars, logged, budgetVars>>

AnnounceModelFailure(r, p) ==
    /\ PostAt(r, p, "announcingFailure")
    /\ \/ Emit("FAILED") /\ Answer(r, p, "accepted")
       \/ EmitFails("FAILED") /\ Answer(r, p, "unavailable")
    /\ UNCHANGED <<storeVars, executionVars, invocation, job, result, endVars, serviceErrors>>

\* A failed call is answered with a server error, the function's own end with
\* a function error.
CallbackFails(r, p) ==
    /\ callback[r][p] \in Answering
    /\ Fault
    /\ Answer(r, p, "unavailable") \/ Answer(r, p, "refused")
    /\ UNCHANGED <<storeVars, executionVars, invocation, job, result, endVars, logged,
                   serviceErrors>>

CallbackStepOf(r, p) ==
    \/ StoreResult(r, p) \/ AnnounceResult(r, p) \/ SendTaskSuccess(r, p)
    \/ RecordModelFailure(r, p) \/ SendTaskFailure(r, p)
    \/ FinalizeFailedCallback(r, p) \/ AnnounceModelFailure(r, p)

-----------------------------------------------------------------------------
(* The end: FinalizeSuccess, FinalizeFailure, and the reconciliation       *)

\* The error that is recorded with an end: only success has none.
ErrorOf(verdict) == IF verdict = "SUCCEEDED" THEN {NoValue} ELSE ErrorCode \cup {NoValue}

FinishEvaluation(verdict) ==
    /\ finalizer[verdict] = "finishing"
    /\ \/ /\ \E error \in ErrorOf(verdict) : FinishWorkflow(Evaluation, verdict, error)
          /\ finalizer' = [finalizer EXCEPT ![verdict] = "announcing"]
       \/ /\ ~ CanFinishWorkflow(Evaluation, verdict)
          /\ finalizer' = [finalizer EXCEPT ![verdict] = "error"]
          /\ UNCHANGED storeVars
    /\ UNCHANGED <<executionVars, invocation, jobVars, reconciler, deliveries, logged, budgetVars>>

AnnounceEnd(verdict) ==
    /\ finalizer[verdict] = "announcing"
    /\ \/ Emit(verdict) /\ finalizer' = [finalizer EXCEPT ![verdict] = "ok"]
       \/ EmitFails(verdict) /\ finalizer' = [finalizer EXCEPT ![verdict] = "error"]
    /\ UNCHANGED <<storeVars, executionVars, invocation, jobVars, reconciler, deliveries,
                   serviceErrors>>

FinalizerCrash(verdict) ==
    /\ finalizer[verdict] \in {"finishing", "announcing"}
    /\ Fault
    /\ finalizer' = [finalizer EXCEPT ![verdict] = "error"]
    /\ UNCHANGED <<storeVars, executionVars, invocation, jobVars, reconciler, deliveries,
                   logged, serviceErrors>>

\* Fault: the pattern lists only the states an execution reaches by itself.
ReconciledUnlessAborted == {"SUCCEEDED", "FAILED"}

\* The statuses in the rule's pattern.
Reconciled == Terminal

\* EventBridge invokes the worker asynchronously: three times, until it succeeds.
Reconcile ==
    /\ state \in Reconciled
    /\ reconciler = "idle"
    /\ deliveries < MaxReconciliations
    /\ deliveries' = deliveries + 1
    /\ reconciler' = "finishing"
    /\ UNCHANGED <<storeVars, executionVars, invocation, jobVars, finalizer, logged, budgetVars>>

\* Fault: the end is announced although another outcome is recorded.
ReconcileUnchecked ==
    /\ reconciler = "finishing"
    /\ \/ \E error \in ErrorOf(OutcomeOf[state]) :
             FinishWorkflow(Evaluation, OutcomeOf[state], error)
       \/ ~ CanFinishWorkflow(Evaluation, OutcomeOf[state]) /\ UNCHANGED storeVars
    /\ reconciler' = "announcing"
    /\ UNCHANGED <<executionVars, invocation, jobVars, finalizer, deliveries, logged, budgetVars>>

ReconcileOutcome ==
    /\ reconciler = "finishing"
    /\ \/ /\ \E error \in ErrorOf(OutcomeOf[state]) :
                FinishWorkflow(Evaluation, OutcomeOf[state], error)
          /\ reconciler' = "announcing"
       \/ /\ ~ CanFinishWorkflow(Evaluation, OutcomeOf[state])
          /\ reconciler' = "idle"
          /\ UNCHANGED storeVars
    /\ UNCHANGED <<executionVars, invocation, jobVars, finalizer, deliveries, logged, budgetVars>>

AnnounceReconciled ==
    /\ reconciler = "announcing"
    /\ \/ Emit(OutcomeOf[state]) /\ reconciler' = "ok"
       \/ EmitFails(OutcomeOf[state]) /\ reconciler' = "idle"
    /\ UNCHANGED <<storeVars, executionVars, invocation, jobVars, finalizer, deliveries,
                   serviceErrors>>

ReconcilerCrash ==
    /\ reconciler \in {"finishing", "announcing"}
    /\ Fault
    /\ reconciler' = "idle"
    /\ UNCHANGED <<storeVars, executionVars, invocation, jobVars, finalizer, deliveries, logged,
                   serviceErrors>>

FinalizerStep(verdict) == FinishEvaluation(verdict) \/ AnnounceEnd(verdict)

ReconcilerStep == Reconcile \/ ReconcileOutcome \/ AnnounceReconciled

-----------------------------------------------------------------------------
WorkflowNext ==
    \/ Submit \/ Execution \/ TimeOutEarly \/ ServiceError \/ FinalizerServiceError \/ Abort
    \/ \E i \in Invocation : InvocationStep(i) \/ NeverRan(i) \/ Crash(i)
    \/ \E r \in Request : RunModel(r) \/ LoseJob(r)
    \/ \E r \in Request, p \in Post :
          \/ PostAgain(r, p) \/ PostInParallel(r, p)
          \/ CallbackStepOf(r, p) \/ CallbackFails(r, p)
    \/ \E verdict \in {"SUCCEEDED", "FAILED"} : FinalizerStep(verdict) \/ FinalizerCrash(verdict)
    \/ ReconcilerStep \/ ReconcilerCrash

WorkflowSpec == WorkflowInit /\ [][WorkflowNext]_workflowVars

\* Step Functions goes on, its timers run out, Lambda runs what it was invoked
\* with, the model service runs and delivers its jobs.
WorkflowFairness ==
    /\ WF_workflowVars(Execution)
    /\ \A i \in Invocation : WF_workflowVars(InvocationStep(i))
    /\ \A r \in Request : WF_workflowVars(RunModel(r))
    /\ \A r \in Request, p \in Post :
          WF_workflowVars(CallbackStepOf(r, p)) /\ WF_workflowVars(PostAgain(r, p))
    /\ \A verdict \in {"SUCCEEDED", "FAILED"} : WF_workflowVars(FinalizerStep(verdict))
    /\ WF_workflowVars(ReconcilerStep)

FairWorkflowSpec == WorkflowSpec /\ WorkflowFairness

-----------------------------------------------------------------------------
(* Properties                                                              *)

\* Every variable of the workflow holds a value of its type.
WorkflowTypeOK ==
    /\ TypeOK
    /\ state \in ExecutionState
    /\ attempt \in Attempt
    /\ handed \in Value \cup {NoValue}
    /\ invocation \in [Invocation -> InvocationStage]
    /\ finalizer \in [{"SUCCEEDED", "FAILED"} -> WorkerStage]
    /\ job \in [Request -> JobState]
    /\ result \in [Request -> Value \cup {NoValue}]
    /\ callback \in [Request -> [Post -> CallbackStage]]
    /\ reconciler \in WorkerStage
    /\ deliveries \in 0 .. MaxReconciliations
    /\ logged \subseteq StepEvents \cup Outcome
    /\ serviceErrors \in 0 .. MaxServiceErrors
    /\ faults \in 0 .. MaxFaults

\* What the callback Lambda's comment promises of the state machine: it goes on
\* only after the step's result is stored, and what it hands to moderation is
\* the transcript that readers see, whichever attempt's callback got there
\* first and whatever the other attempts' jobs came to.
AdvancedOnStoredResults ==
    /\ state = "transcription" => output[Evaluation]["audio"] # NoValue
    /\ state = "moderation" => handed # NoValue
    /\ handed # NoValue => output[Evaluation]["transcription"] = handed
    /\ finalizer["SUCCEEDED"] # "idle" =>
          handed # NoValue /\ output[Evaluation]["moderation"] # NoValue

\* Nobody closes an evaluation that is about to succeed: superseded invocations
\* that fail late, failure callbacks and duplicated posts come to nothing once
\* moderation is stored.
SuccessIsNotRefused ==
    state = "FinalizeSuccess" => outcome[Evaluation] \in {NoValue, "SUCCEEDED"}

\* The store accepts success from a transcript alone; the workflow does not use
\* that: no order of retries, callbacks and reconciliations reports success for
\* an evaluation that was not moderated.
SuccessIsModerated ==
    outcome[Evaluation] = "SUCCEEDED" => step[Evaluation]["moderation"] = "COMPLETED"

\* Subscribers take a terminal event as final: none is told of success and of
\* another end, and success is announced only when it is recorded.
VerdictsExclude ==
    "SUCCEEDED" \in logged =>
       /\ outcome[Evaluation] = "SUCCEEDED"
       /\ logged \cap {"FAILED", "TIMED_OUT", "CANCELLED"} = {}

\* The log of a success is complete: a client that replays it sees every stage,
\* however many emissions failed and were repeated on the way.
SuccessIsFullyAnnounced == "SUCCEEDED" \in logged => StepEvents \subseteq logged

\* An execution that was started ends with an outcome: by its own final states,
\* or else by the reconciliation, also when an operator stops it.
ExecutionsAreSettled == state # "none" ~> outcome[Evaluation] # NoValue

=============================================================================
