----------------------- MODULE EvaluationWorkflow_proofs -----------------------
(***************************************************************************)
(* Proofs about the execution of an evaluation, for any number of retries, *)
(* service errors and faults: it uses the task store as a caller may; it   *)
(* goes on only with stored results; and its verdicts exclude each other.  *)
(*                                                                         *)
(* Of the bookkeeping, what matters is that an attempt's invocation is     *)
(* made once, so that its request is sent, its job run and its result      *)
(* fixed once.  What matters of the store is that nothing recorded is      *)
(* taken back.                                                             *)
(***************************************************************************)
EXTENDS EvaluationWorkflow, PipelineTaskStore_proofs

Order == [audio |-> 1, transcription |-> 2, moderation |-> 3]

\* An attempt the execution has not come to yet.
IsAhead(i) ==
    \/ Order[i[1]] > Order[state]
    \/ i[1] = state /\ i[2] > attempt

FutureIsIdle ==
    /\ state = "none" => \A i \in Invocation : At(i, "idle")
    /\ state \in Step => \A i \in Invocation : IsAhead(i) => At(i, "idle")

\* A request's job is run once, after the request was sent, and posts follow it.
JobsRunOnce ==
    \A r \in Request :
       /\ invocation[r] \in {"idle", "starting", "announcing", "working"} => job[r] = "none"
       /\ job[r] # "done" => \A p \in Post : callback[r][p] = "unsent"

\* Only a result is stored and resumes the execution.
PostsHaveResults ==
    \A r \in Request, p \in Post :
       callback[r][p] \in {"storing", "announcing", "resuming"} => result[r] # NoValue

ReconcilesAnEnd == reconciler # "idle" => state \in Terminal

Bookkeeping ==
    /\ WorkflowTypeOK
    /\ FutureIsIdle
    /\ JobsRunOnce
    /\ PostsHaveResults
    /\ ReconcilesAnEnd

\* What a Lambda says it has stored is stored.
ResultsAreStored ==
    /\ \A a \in Attempt :
          invocation[<<"audio", a>>] \in {"announcingResult", "ok"} =>
              output[Evaluation]["audio"] # NoValue
    /\ \A r \in Request, p \in Post :
          callback[r][p] \in {"announcing", "resuming"} =>
              output[Evaluation][r[1]] = result[r]

Failing == {"FAILED", "TIMED_OUT", "CANCELLED"}

HasFailedStep == \E s \in Step : step[Evaluation][s] = "FAILED"

\* Success is out of reach.
Doomed ==
    \/ outcome[Evaluation] \in Failing
    \/ outcome[Evaluation] = NoValue /\ HasFailedStep

\* Whoever announces an end has recorded it, and an execution that succeeded
\* has left an outcome behind.
EndsAreRecorded ==
    /\ finalizer["SUCCEEDED"] \in {"announcing", "ok"} => outcome[Evaluation] = "SUCCEEDED"
    /\ finalizer["FAILED"] \in {"announcing", "ok"} => outcome[Evaluation] = "FAILED"
    /\ reconciler \in {"announcing", "ok"} => outcome[Evaluation] = OutcomeOf[state]
    /\ state = "SUCCEEDED" => outcome[Evaluation] # NoValue
    /\ state = "FinalizeSuccess" => finalizer["SUCCEEDED"] # "idle"
    /\ outcome[Evaluation] = "SUCCEEDED" => finalizer["SUCCEEDED"] # "idle"
    /\ \A i \in Invocation : invocation[i] = "announcingFailure" => Doomed
    /\ \A r \in Request, p \in Post : callback[r][p] = "announcingFailure" => Doomed
    /\ "SUCCEEDED" \in logged => outcome[Evaluation] = "SUCCEEDED"
    /\ logged \cap Failing # {} => Doomed

\* While the execution may still succeed, only a failed step closes the task.
NothingElseFails ==
    state \in {"none", "FinalizeSuccess"} \cup Step =>
       /\ finalizer["FAILED"] = "idle"
       /\ \A r \in Request, p \in Post :
             callback[r][p] \notin {"finalizing", "announcingFailure"}
       /\ outcome[Evaluation] \in Failing => HasFailedStep

EventsOf(s) == {StartEvent[s], FinishEvent[s]}

\* The execution leaves a step behind its events.
StepsAreAnnounced ==
    /\ \A i \in Invocation :
          invocation[i] \in {"working", "completing", "announcingResult", "ok"} =>
              StartEvent[i[1]] \in logged
    /\ \A a \in Attempt : invocation[<<"audio", a>>] = "ok" => FinishEvent["audio"] \in logged
    /\ \A r \in Request : job[r] # "none" => StartEvent[r[1]] \in logged
    /\ \A r \in Request, p \in Post : callback[r][p] = "resuming" => FinishEvent[r[1]] \in logged
    /\ state \in CallbackStep => EventsOf("audio") \subseteq logged
    /\ handed # NoValue => EventsOf("audio") \cup EventsOf("transcription") \subseteq logged
    /\ finalizer["SUCCEEDED"] # "idle" => StepEvents \subseteq logged

WorkflowInv ==
    /\ ResultsAreStored
    /\ AdvancedOnStoredResults
    /\ EndsAreRecorded
    /\ NothingElseFails
    /\ StepsAreAnnounced

-----------------------------------------------------------------------------
(* The workflow uses the store                                             *)

LEMMA InputFacts ==
    /\ Evaluation \in Task /\ AudioUri \in Value
    /\ \A s \in CallbackStep : JobId[s] \in ExternalId
    /\ \A r \in Request : TokenOf[r] \in Token
    /\ \A r \in Request : r \in Invocation /\ r[1] \in CallbackStep /\ r[1] \in Step
                          /\ r[1] # "audio" /\ r[2] \in Attempt
    /\ \A i \in Invocation : i[1] \in Step /\ i[2] \in Attempt /\ i = <<i[1], i[2]>>
                             /\ (i[1] # "audio" => i \in Request)
    /\ NoValue \notin Value /\ NoValue \notin Outcome
    /\ 0 \in Attempt /\ MaxRetries \in Nat
    /\ \A s \in Step, a \in Attempt : <<s, a>> \in Invocation
    /\ \A s \in CallbackStep, a \in Attempt : <<s, a>> \in Request
BY WorkflowAssumption, NoValueAssumption
   DEF Request, Invocation, Step, CallbackStep, Attempt, Outcome

LEMMA InvocationUsesStore ==
    ASSUME NEW i \in Invocation, InvocationStep(i)
    PROVE  [Next]_storeVars
<1> USE InputFacts
<1>1. CASE StartStep(i)
  <2>1. CASE Begin(i) /\ i[1] = "audio"
    BY <2>1 DEF Begin, Next
  <2>2. CASE Begin(i) /\ i[1] # "audio"
    BY <2>2 DEF Begin, Next
  <2> QED
    BY <1>1, <2>1, <2>2 DEF StartStep
<1>2. CASE RecordFailure(i)
  BY <1>2 DEF RecordFailure, Next
<1>3. CASE StoreAudio(i)
  BY <1>3 DEF StoreAudio, Next
<1>4. CASE i \in Request /\ RecordJob(i)
  BY <1>4 DEF RecordJob, Next
<1>5. CASE \/ AnnounceStart(i) \/ AnnounceFailure(i) \/ Convert(i) \/ AnnounceAudio(i)
           \/ PostRequest(i)
  BY <1>5 DEF AnnounceStart, AnnounceFailure, Convert, AnnounceAudio, PostRequest
<1> QED
  BY <1>1, <1>2, <1>3, <1>4, <1>5 DEF InvocationStep

LEMMA CallbackUsesStore ==
    ASSUME WorkflowTypeOK, PostsHaveResults, NEW r \in Request, NEW p \in Post,
           CallbackStepOf(r, p)
    PROVE  [Next]_storeVars
<1> USE InputFacts
<1>1. CASE StoreResult(r, p)
  <2>1. result[r] \in Value
    BY <1>1 DEF StoreResult, PostAt, PostsHaveResults, WorkflowTypeOK
  <2> QED
    BY <1>1, <2>1 DEF StoreResult, Next
<1>2. CASE RecordModelFailure(r, p)
  <2>1. CASE UNCHANGED storeVars
    BY <2>1
  <2>2. ASSUME NEW error \in ErrorCode,
               RecordCallbackFailure([task |-> Evaluation, step |-> r[1], token |-> TokenOf[r]], error)
        PROVE  Next
    BY <2>2 DEF Next, RecordCallbackFailure, CanRecordCallbackFailure
  <2> QED
    BY <1>2, <2>1, <2>2 DEF RecordModelFailure
<1>3. CASE FinalizeFailedCallback(r, p)
  <2>1. CASE UNCHANGED storeVars
    BY <2>1
  <2>2. CASE FinalizeCallback([task |-> Evaluation, step |-> r[1], token |-> TokenOf[r]], "FAILED")
    BY <2>2 DEF Next, FinalizeCallback
  <2> QED
    BY <1>3, <2>1, <2>2 DEF FinalizeFailedCallback
<1>4. CASE \/ AnnounceResult(r, p) \/ SendTaskSuccess(r, p) \/ SendTaskFailure(r, p)
           \/ AnnounceModelFailure(r, p)
  BY <1>4 DEF AnnounceResult, SendTaskSuccess, SendTaskFailure, AnnounceModelFailure
<1> QED
  BY <1>1, <1>2, <1>3, <1>4 DEF CallbackStepOf

LEMMA EndUsesStore ==
    ASSUME ReconcilesAnEnd,
           \/ \E verdict \in {"SUCCEEDED", "FAILED"} : FinalizerStep(verdict)
           \/ ReconcilerStep
    PROVE  [Next]_storeVars
<1> USE InputFacts
<1>1. ASSUME NEW verdict \in Outcome, NEW error \in ErrorOf(verdict),
             FinishWorkflow(Evaluation, verdict, error)
      PROVE  Next
  BY <1>1 DEF Next, ErrorOf
<1>2. ASSUME NEW verdict \in {"SUCCEEDED", "FAILED"}, FinalizerStep(verdict)
      PROVE  [Next]_storeVars
  BY <1>1, <1>2 DEF FinalizerStep, FinishEvaluation, AnnounceEnd, Outcome
<1>3. CASE ReconcileOutcome
  <2>1. OutcomeOf[state] \in Outcome
    BY <1>3 DEF ReconcileOutcome, ReconcilesAnEnd, OutcomeOf, Outcome, Terminal
  <2> QED
    BY <1>1, <1>3, <2>1 DEF ReconcileOutcome
<1>4. CASE Reconcile \/ AnnounceReconciled
  BY <1>4 DEF Reconcile, AnnounceReconciled
<1> QED
  BY <1>2, <1>3, <1>4 DEF ReconcilerStep

\* Every call a Lambda makes is one transaction of the store, or none.
LEMMA WorkflowStepsAreStoreSteps ==
    ASSUME Bookkeeping, [WorkflowNext]_workflowVars
    PROVE  [Next]_storeVars
<1> USE DEF Bookkeeping
<1>1. CASE Submit
  BY <1>1, InputFacts DEF Submit, Next
<1>2. ASSUME NEW i \in Invocation, NeverRan(i) \/ Crash(i) PROVE UNCHANGED storeVars
  BY <1>2 DEF NeverRan, Crash
<1>3. ASSUME NEW r \in Request, RunModel(r) \/ LoseJob(r) PROVE UNCHANGED storeVars
  BY <1>3 DEF RunModel, LoseJob
<1>4. ASSUME NEW r \in Request, NEW p \in Post,
             PostAgain(r, p) \/ PostInParallel(r, p) \/ CallbackFails(r, p)
      PROVE  UNCHANGED storeVars
  BY <1>4 DEF PostAgain, PostInParallel, NextPost, CallbackFails
<1>5. CASE Execution \/ TimeOutEarly \/ ServiceError \/ FinalizerServiceError \/ Abort
  BY <1>5 DEF Execution, StartExecution, AudioConverted, FunctionError, TimeOut,
     FinalizerReturned, TimeOutEarly, ServiceError, FinalizerServiceError, Abort
<1>6. ASSUME NEW verdict \in {"SUCCEEDED", "FAILED"}, FinalizerCrash(verdict)
      PROVE  UNCHANGED storeVars
  BY <1>6 DEF FinalizerCrash
<1>7. CASE ReconcilerCrash
  BY <1>7 DEF ReconcilerCrash
<1>8. CASE UNCHANGED workflowVars
  BY <1>8 DEF workflowVars
<1> QED
  BY <1>1, <1>2, <1>3, <1>4, <1>5, <1>6, <1>7, <1>8, InvocationUsesStore, CallbackUsesStore,
     EndUsesStore DEF WorkflowNext

-----------------------------------------------------------------------------
(* Types                                                                   *)

\* The execution's own variables after a transition.
LEMMA TransitionTypes ==
    ASSUME WorkflowTypeOK
    PROVE  /\ \A s \in Step, a \in Attempt : Invoke(s, a) =>
                 /\ state' \in ExecutionState /\ attempt' \in Attempt
                 /\ invocation' \in [Invocation -> InvocationStage]
                 /\ finalizer' \in [{"SUCCEEDED", "FAILED"} -> WorkerStage]
           /\ \A verdict \in {"SUCCEEDED", "FAILED"}, final \in {"FinalizeSuccess", "FinalizeFailure"} :
                 Finalize(final, verdict) =>
                    /\ state' \in ExecutionState /\ attempt' \in Attempt
                    /\ invocation' \in [Invocation -> InvocationStage]
                    /\ finalizer' \in [{"SUCCEEDED", "FAILED"} -> WorkerStage]
<1>1. ASSUME NEW s \in Step, NEW a \in Attempt, Invoke(s, a)
      PROVE  /\ state' \in ExecutionState /\ attempt' \in Attempt
             /\ invocation' \in [Invocation -> InvocationStage]
             /\ finalizer' \in [{"SUCCEEDED", "FAILED"} -> WorkerStage]
  BY <1>1, InputFacts DEF Invoke, WorkflowTypeOK, ExecutionState, InvocationStage, Busy
<1>2. ASSUME NEW verdict \in {"SUCCEEDED", "FAILED"},
             NEW final \in {"FinalizeSuccess", "FinalizeFailure"}, Finalize(final, verdict)
      PROVE  /\ state' \in ExecutionState /\ attempt' \in Attempt
             /\ invocation' \in [Invocation -> InvocationStage]
             /\ finalizer' \in [{"SUCCEEDED", "FAILED"} -> WorkerStage]
  BY <1>2 DEF Finalize, WorkflowTypeOK, ExecutionState, WorkerStage
<1> QED
  BY <1>1, <1>2

ExecutionTypeOK ==
    /\ state \in ExecutionState
    /\ attempt \in Attempt
    /\ handed \in Value \cup {NoValue}
    /\ invocation \in [Invocation -> InvocationStage]
    /\ finalizer \in [{"SUCCEEDED", "FAILED"} -> WorkerStage]

JobTypeOK ==
    /\ job \in [Request -> JobState]
    /\ result \in [Request -> Value \cup {NoValue}]
    /\ callback \in [Request -> [Post -> CallbackStage]]

EndTypeOK ==
    /\ reconciler \in WorkerStage
    /\ deliveries \in 0 .. MaxReconciliations
    /\ logged \subseteq StepEvents \cup Outcome
    /\ serviceErrors \in 0 .. MaxServiceErrors
    /\ faults \in 0 .. MaxFaults

LEMMA FaultType == WorkflowTypeOK /\ Fault => faults' \in 0 .. MaxFaults
BY WorkflowAssumption DEF WorkflowTypeOK, Fault

\* An emission logs one of the events, or fails.
LEMMA EmitTypes ==
    ASSUME WorkflowTypeOK, NEW event \in StepEvents \cup Outcome, Emit(event) \/ EmitFails(event)
    PROVE  /\ logged' \subseteq StepEvents \cup Outcome
           /\ faults' \in 0 .. MaxFaults
BY FaultType DEF Emit, EmitFails, WorkflowTypeOK

LEMMA ExecutionTypeStep ==
    ASSUME Bookkeeping, [WorkflowNext]_workflowVars
    PROVE  ExecutionTypeOK'
<1> USE InputFacts DEF Bookkeeping, ExecutionTypeOK
<1>0. WorkflowTypeOK
  OBVIOUS
<1>1. CASE Execution
  <2>1. CASE StartExecution
    BY <2>1, TransitionTypes DEF StartExecution, WorkflowTypeOK, Step
  <2>2. CASE AudioConverted
    BY <2>2, TransitionTypes DEF AudioConverted, WorkflowTypeOK, Step, CallbackStep
  <2>3. CASE FunctionError \/ TimeOut
    BY <2>3, TransitionTypes DEF FunctionError, TimeOut, Catch, WorkflowTypeOK
  <2>4. CASE FinalizerReturned
    BY <2>4 DEF FinalizerReturned, endVars, WorkflowTypeOK, ExecutionState, Terminal
  <2> QED
    BY <1>1, <2>1, <2>2, <2>3, <2>4 DEF Execution
<1>2. CASE TimeOutEarly
  BY <1>2, TransitionTypes DEF TimeOutEarly, Catch, WorkflowTypeOK
<1>3. CASE ServiceError
  <2>1. CASE attempt < MaxRetries
    <3>1. attempt + 1 \in Attempt
      BY <2>1 DEF WorkflowTypeOK, Attempt
    <3> QED
      BY <1>3, <2>1, <3>1, TransitionTypes DEF ServiceError, RetryOrCatch, WorkflowTypeOK
  <2>2. CASE ~ (attempt < MaxRetries)
    BY <1>3, <2>2, TransitionTypes DEF ServiceError, RetryOrCatch, Catch, WorkflowTypeOK
  <2> QED
    BY <2>1, <2>2
<1>4. CASE FinalizerServiceError \/ Abort
  BY <1>4 DEF FinalizerServiceError, Abort, endVars, WorkflowTypeOK, ExecutionState, Terminal
<1>5. ASSUME NEW i \in Invocation, NEW where \in InvocationStage, GoTo(i, where),
             UNCHANGED <<executionVars, endVars>>
      PROVE  ExecutionTypeOK'
  BY <1>5 DEF GoTo, executionVars, endVars, WorkflowTypeOK
<1>6. ASSUME NEW i \in Invocation, InvocationStep(i) \/ NeverRan(i) \/ Crash(i)
      PROVE  ExecutionTypeOK'
  <2>1. PICK where \in InvocationStage : GoTo(i, where) /\ UNCHANGED <<executionVars, endVars>>
    BY <1>6 DEF InvocationStep, StartStep, AnnounceStart, RecordFailure, AnnounceFailure, Convert,
       StoreAudio, AnnounceAudio, PostRequest, RecordJob, NeverRan, Crash, InvocationStage, Busy
  <2> QED
    BY <1>5, <2>1
<1>7. ASSUME NEW r \in Request, NEW p \in Post, SendTaskSuccess(r, p) PROVE ExecutionTypeOK'
  <2>1. CASE Resume(r) /\ r[1] = "transcription"
    BY <1>7, <2>1, TransitionTypes DEF SendTaskSuccess, Resume, WorkflowTypeOK, Step, CallbackStep
  <2>2. CASE Resume(r) /\ r[1] # "transcription"
    BY <1>7, <2>2, TransitionTypes DEF SendTaskSuccess, Resume, WorkflowTypeOK
  <2>3. CASE UNCHANGED <<executionVars, invocation, finalizer>>
    BY <2>3 DEF executionVars, WorkflowTypeOK
  <2> QED
    BY <1>7, <2>1, <2>2, <2>3 DEF SendTaskSuccess
<1>8. ASSUME NEW r \in Request, NEW p \in Post, SendTaskFailure(r, p) PROVE ExecutionTypeOK'
  BY <1>8, TransitionTypes DEF SendTaskFailure, Catch, WorkflowTypeOK
<1>9. ASSUME NEW verdict \in {"SUCCEEDED", "FAILED"}, FinalizerStep(verdict) \/ FinalizerCrash(verdict)
      PROVE  ExecutionTypeOK'
  BY <1>9 DEF FinalizerStep, FinishEvaluation, AnnounceEnd, FinalizerCrash, executionVars,
     WorkflowTypeOK, WorkerStage
<1>10. CASE UNCHANGED <<executionVars, invocation, finalizer>>
  BY <1>10 DEF executionVars, WorkflowTypeOK
<1>11. ASSUME NEW r \in Request,
              \/ RunModel(r) \/ LoseJob(r)
              \/ \E p \in Post :
                    \/ PostAgain(r, p) \/ PostInParallel(r, p) \/ CallbackFails(r, p)
                    \/ StoreResult(r, p) \/ AnnounceResult(r, p) \/ RecordModelFailure(r, p)
                    \/ FinalizeFailedCallback(r, p) \/ AnnounceModelFailure(r, p)
       PROVE  UNCHANGED <<executionVars, invocation, finalizer>>
  BY <1>11 DEF RunModel, LoseJob, PostAgain, PostInParallel, NextPost, CallbackFails, StoreResult,
     AnnounceResult, RecordModelFailure, FinalizeFailedCallback, AnnounceModelFailure, endVars
<1>12. CASE Submit \/ ReconcilerStep \/ ReconcilerCrash \/ UNCHANGED workflowVars
  BY <1>10, <1>12 DEF Submit, ReconcilerStep, Reconcile, ReconcileOutcome, AnnounceReconciled,
     ReconcilerCrash, endVars, workflowVars
<1> QED
  BY <1>1, <1>2, <1>3, <1>4, <1>6, <1>7, <1>8, <1>9, <1>10, <1>11, <1>12
     DEF WorkflowNext, CallbackStepOf

LEMMA JobTypeStep ==
    ASSUME Bookkeeping, [WorkflowNext]_workflowVars
    PROVE  JobTypeOK'
<1> USE DEF Bookkeeping, JobTypeOK
<1>1. CASE UNCHANGED jobVars
  BY <1>1 DEF jobVars, WorkflowTypeOK
<1>2. ASSUME NEW r \in Request, PostRequest(r) PROVE JobTypeOK'
  BY <1>2 DEF PostRequest, Accept, AcceptAgain, JobState, WorkflowTypeOK
<1>3. ASSUME NEW r \in Request, RunModel(r) PROVE JobTypeOK'
  BY <1>3 DEF RunModel, Answer, FirstStage, JobState, CallbackStage, Answering, Post, WorkflowTypeOK
<1>4. ASSUME NEW r \in Request, LoseJob(r) PROVE JobTypeOK'
  BY <1>4 DEF LoseJob, JobState, WorkflowTypeOK
<1>5. ASSUME NEW r \in Request, NEW p \in Post, NEW where \in CallbackStage, Answer(r, p, where),
             UNCHANGED <<job, result>>
      PROVE  JobTypeOK'
  BY <1>5 DEF Answer, WorkflowTypeOK
<1>6. ASSUME NEW r \in Request, NEW p \in Post, PostAgain(r, p) \/ PostInParallel(r, p)
      PROVE  JobTypeOK'
  <2>1. p + 1 \in Post /\ FirstStage(result[r]) \in CallbackStage
    BY <1>6 DEF PostAgain, PostInParallel, NextPost, Post, FirstStage, CallbackStage, Answering
  <2> QED
    BY <1>5, <1>6, <2>1 DEF PostAgain, PostInParallel, NextPost
<1>7. ASSUME NEW r \in Request, NEW p \in Post, CallbackStepOf(r, p) \/ CallbackFails(r, p)
      PROVE  JobTypeOK'
  <2>1. PICK where \in CallbackStage : Answer(r, p, where) /\ UNCHANGED <<job, result>>
    BY <1>7 DEF CallbackStepOf, StoreResult, AnnounceResult, SendTaskSuccess, RecordModelFailure,
       SendTaskFailure, FinalizeFailedCallback, AnnounceModelFailure, CallbackFails,
       CallbackStage, Answering
  <2> QED
    BY <1>5, <2>1
<1>8. ASSUME NEW i \in Invocation, InvocationStep(i) \/ NeverRan(i) \/ Crash(i)
      PROVE  JobTypeOK'
  BY <1>1, <1>2, <1>8 DEF InvocationStep, StartStep, AnnounceStart, RecordFailure,
     AnnounceFailure, Convert, StoreAudio, AnnounceAudio, RecordJob, NeverRan, Crash
<1> QED
  BY <1>1, <1>3, <1>4, <1>6, <1>7, <1>8
     DEF WorkflowNext, Submit, Execution, StartExecution, AudioConverted, FunctionError, TimeOut,
         FinalizerReturned, TimeOutEarly, ServiceError, FinalizerServiceError, Abort,
         FinalizerStep, FinishEvaluation, AnnounceEnd, FinalizerCrash, ReconcilerStep, Reconcile,
         ReconcileOutcome, AnnounceReconciled, ReconcilerCrash, workflowVars

LEMMA EndTypeStep ==
    ASSUME Bookkeeping, [WorkflowNext]_workflowVars
    PROVE  EndTypeOK'
<1> USE FaultType, WorkflowAssumption DEF Bookkeeping, EndTypeOK
<1>0. \A s \in Step : StartEvent[s] \in StepEvents /\ FinishEvent[s] \in StepEvents
  BY DEF StepEvents
<1>1. ASSUME NEW event \in StepEvents \cup Outcome, Emit(event) \/ EmitFails(event),
             UNCHANGED <<reconciler, deliveries, serviceErrors>>
      PROVE  EndTypeOK'
  BY <1>1, EmitTypes DEF WorkflowTypeOK
<1>2. CASE /\ Fault \/ UNCHANGED faults
           /\ UNCHANGED <<reconciler, deliveries, logged, serviceErrors>>
  BY <1>2 DEF WorkflowTypeOK
<1>3. CASE ServiceError \/ FinalizerServiceError
  BY <1>3 DEF ServiceError, FinalizerServiceError, endVars, WorkflowTypeOK
<1>4. ASSUME NEW i \in Invocation, InvocationStep(i) \/ NeverRan(i) \/ Crash(i)
      PROVE  EndTypeOK'
  <2>1. "FAILED" \in Outcome /\ i[1] \in Step /\ "audio" \in Step
    BY InputFacts DEF Outcome, Step
  <2>2. CASE AnnounceStart(i)
    BY <1>0, <1>1, <2>1, <2>2 DEF AnnounceStart, endVars
  <2>3. CASE AnnounceFailure(i)
    BY <1>1, <2>1, <2>3 DEF AnnounceFailure, endVars
  <2>4. CASE AnnounceAudio(i)
    BY <1>0, <1>1, <2>1, <2>4 DEF AnnounceAudio, endVars
  <2> QED
    BY <1>2, <1>4, <2>2, <2>3, <2>4
       DEF InvocationStep, StartStep, Convert, PostRequest, StoreAudio, RecordJob, RecordFailure,
           NeverRan, Crash, endVars, budgetVars
<1>5. ASSUME NEW r \in Request, NEW p \in Post,
             \/ PostAgain(r, p) \/ PostInParallel(r, p)
             \/ CallbackStepOf(r, p) \/ CallbackFails(r, p)
      PROVE  EndTypeOK'
  <2>1. "FAILED" \in Outcome /\ r[1] \in Step
    BY InputFacts DEF Outcome
  <2>2. CASE AnnounceResult(r, p)
    BY <1>0, <1>1, <2>1, <2>2 DEF AnnounceResult, endVars
  <2>3. CASE AnnounceModelFailure(r, p)
    BY <1>1, <2>1, <2>3 DEF AnnounceModelFailure, endVars
  <2> QED
    BY <1>2, <1>5, <2>2, <2>3
       DEF PostAgain, PostInParallel, NextPost, CallbackStepOf, StoreResult, SendTaskSuccess,
           RecordModelFailure, SendTaskFailure, FinalizeFailedCallback, CallbackFails, endVars,
           budgetVars
<1>6. ASSUME NEW verdict \in {"SUCCEEDED", "FAILED"}, FinalizerStep(verdict) \/ FinalizerCrash(verdict)
      PROVE  EndTypeOK'
  <2>1. verdict \in Outcome
    BY DEF Outcome
  <2> QED
    BY <1>1, <1>2, <1>6, <2>1 DEF FinalizerStep, FinishEvaluation, AnnounceEnd, FinalizerCrash,
       budgetVars
<1>7. CASE ReconcilerStep \/ ReconcilerCrash
  <2>1. reconciler # "idle" => OutcomeOf[state] \in Outcome
    BY DEF ReconcilesAnEnd, OutcomeOf, Outcome, Terminal
  <2>2. CASE AnnounceReconciled
    <3>1. /\ logged' \subseteq StepEvents \cup Outcome
          /\ faults' \in 0 .. MaxFaults
      BY <2>1, <2>2, EmitTypes DEF AnnounceReconciled
    <3> QED
      BY <2>2, <3>1 DEF AnnounceReconciled, WorkerStage, WorkflowTypeOK
  <2>3. CASE Reconcile
    BY <2>3 DEF Reconcile, WorkerStage, MaxReconciliations, budgetVars, WorkflowTypeOK
  <2>4. CASE ReconcileOutcome
    BY <2>4 DEF ReconcileOutcome, WorkerStage, budgetVars, WorkflowTypeOK
  <2>5. CASE ReconcilerCrash
    BY <2>5 DEF ReconcilerCrash, WorkerStage, WorkflowTypeOK
  <2> QED
    BY <1>7, <2>2, <2>3, <2>4, <2>5 DEF ReconcilerStep
<1>8. ASSUME NEW r \in Request, RunModel(r) \/ LoseJob(r) PROVE EndTypeOK'
  BY <1>2, <1>8 DEF RunModel, LoseJob, endVars, budgetVars
<1>9. CASE Submit \/ Execution \/ TimeOutEarly \/ Abort
  BY <1>2, <1>9 DEF Submit, Execution, StartExecution, AudioConverted, FunctionError, TimeOut,
     FinalizerReturned, TimeOutEarly, Abort, endVars, budgetVars
<1>10. CASE UNCHANGED workflowVars
  BY <1>2, <1>10 DEF workflowVars, endVars, budgetVars
<1> QED
  BY <1>3, <1>4, <1>5, <1>6, <1>7, <1>8, <1>9, <1>10 DEF WorkflowNext

LEMMA WorkflowTypeStep ==
    ASSUME Bookkeeping, [WorkflowNext]_workflowVars
    PROVE  WorkflowTypeOK'
<1>1. TypeOK'
  BY WorkflowStepsAreStoreSteps, TypeStep DEF Bookkeeping, WorkflowTypeOK
<1>2. (TypeOK /\ ExecutionTypeOK /\ JobTypeOK /\ EndTypeOK)' => WorkflowTypeOK'
  BY DEF WorkflowTypeOK, ExecutionTypeOK, JobTypeOK, EndTypeOK
<1> QED
  BY <1>1, <1>2, ExecutionTypeStep, JobTypeStep, EndTypeStep

-----------------------------------------------------------------------------
(* What a step may change                                                  *)

IsCatch == FunctionError \/ TimeOut \/ TimeOutEarly

Resumes(r, p) == SendTaskSuccess(r, p) /\ Awaited(r)

Fails(r, p) == SendTaskFailure(r, p) /\ Awaited(r)

\* The execution moves by itself, or is resumed or failed through a token.
LEMMA ExecutionMoves ==
    ASSUME [WorkflowNext]_workflowVars
    PROVE  \/ UNCHANGED <<executionVars, finalizer>>
           \/ UNCHANGED <<executionVars, invocation>>
           \/ StartExecution \/ AudioConverted \/ IsCatch \/ ServiceError
           \/ FinalizerReturned \/ FinalizerServiceError \/ Abort
           \/ \E r \in Request, p \in Post : Resumes(r, p) \/ Fails(r, p)
<1> DEFINE Stays == UNCHANGED <<executionVars, finalizer>>
           Ends == UNCHANGED <<executionVars, invocation>>
<1>1. ASSUME NEW i \in Invocation, InvocationStep(i) \/ NeverRan(i) \/ Crash(i) PROVE Stays
  BY <1>1 DEF InvocationStep, StartStep, AnnounceStart, RecordFailure, AnnounceFailure, Convert,
     StoreAudio, AnnounceAudio, PostRequest, RecordJob, NeverRan, Crash, endVars
<1>2. ASSUME NEW r \in Request, RunModel(r) \/ LoseJob(r) PROVE Stays
  BY <1>2 DEF RunModel, LoseJob, endVars
<1>3. ASSUME NEW r \in Request, NEW p \in Post,
             \/ PostAgain(r, p) \/ PostInParallel(r, p) \/ CallbackFails(r, p)
             \/ CallbackStepOf(r, p)
      PROVE  Stays \/ Resumes(r, p) \/ Fails(r, p)
  BY <1>3 DEF PostAgain, PostInParallel, NextPost, CallbackFails, CallbackStepOf, StoreResult,
     AnnounceResult, SendTaskSuccess, RecordModelFailure, SendTaskFailure,
     FinalizeFailedCallback, AnnounceModelFailure, Resumes, Fails, executionVars, endVars
<1>4. ASSUME NEW verdict \in {"SUCCEEDED", "FAILED"}, FinalizerStep(verdict) \/ FinalizerCrash(verdict)
      PROVE  Ends
  BY <1>4 DEF FinalizerStep, FinishEvaluation, AnnounceEnd, FinalizerCrash
<1>5. CASE ReconcilerStep \/ ReconcilerCrash
  BY <1>5 DEF ReconcilerStep, Reconcile, ReconcileOutcome, AnnounceReconciled, ReconcilerCrash
<1>6. CASE Submit \/ UNCHANGED workflowVars
  BY <1>6 DEF Submit, endVars, workflowVars
<1> QED
  BY <1>1, <1>2, <1>3, <1>4, <1>5, <1>6 DEF WorkflowNext, Execution, IsCatch

\* The execution enters an attempt.
Enters(i) ==
    /\ Invoke(i[1], i[2])
    /\ \/ StartExecution \/ AudioConverted \/ ServiceError
       \/ \E r \in Request, p \in Post : Resumes(r, p) /\ r[1] = "transcription"

\* An invocation is made by the execution and goes on by itself.
LEMMA InvocationMoves ==
    ASSUME Bookkeeping, [WorkflowNext]_workflowVars, NEW i \in Invocation,
           invocation'[i] # invocation[i]
    PROVE  \/ InvocationStep(i) /\ UNCHANGED <<result, callback>>
           \/ (NeverRan(i) \/ Crash(i)) /\ invocation'[i] = "error"
           \/ Enters(i) /\ invocation'[i] = "starting" /\ UNCHANGED <<job, result, logged>>
<1> USE InputFacts DEF Bookkeeping, WorkflowTypeOK
<1> DEFINE Entered == Enters(i) /\ invocation'[i] = "starting" /\ UNCHANGED <<job, result, logged>>
<1>1. ASSUME NEW j \in Invocation, InvocationStep(j) \/ NeverRan(j) \/ Crash(j)
      PROVE  j = i
  BY <1>1 DEF InvocationStep, StartStep, AnnounceStart, RecordFailure, AnnounceFailure, Convert,
     StoreAudio, AnnounceAudio, PostRequest, RecordJob, NeverRan, Crash, GoTo
<1>2. NeverRan(i) \/ Crash(i) => invocation'[i] = "error"
  BY DEF NeverRan, Crash, GoTo
<1>3. InvocationStep(i) => UNCHANGED <<result, callback>>
  BY DEF InvocationStep, StartStep, AnnounceStart, RecordFailure, AnnounceFailure, Convert,
     StoreAudio, AnnounceAudio, PostRequest, RecordJob, jobVars
<1>4. ASSUME NEW s \in Step, NEW a \in Attempt, Invoke(s, a)
      PROVE  i = <<s, a>> /\ invocation'[i] = "starting" /\ Invoke(i[1], i[2])
  BY <1>4 DEF Invoke
<1>5. CASE StartExecution \/ AudioConverted
  <2>1. Invoke("audio", 0) \/ Invoke("transcription", 0)
    BY <1>5 DEF StartExecution, AudioConverted
  <2>2. "audio" \in Step /\ "transcription" \in Step
    BY DEF Step, CallbackStep
  <2> QED
    BY <1>4, <1>5, <2>1, <2>2 DEF StartExecution, AudioConverted, Enters, jobVars
<1>6. CASE ServiceError
  <2>1. attempt < MaxRetries /\ Invoke(state, attempt + 1)
    BY <1>6 DEF ServiceError, RetryOrCatch, Catch, Finalize
  <2>2. attempt + 1 \in Attempt /\ state \in Step
    BY <1>6, <2>1 DEF ServiceError, Attempt
  <2> QED
    BY <1>4, <1>6, <2>1, <2>2 DEF ServiceError, Enters, jobVars
<1>7. ASSUME NEW r \in Request, NEW p \in Post, Resumes(r, p) PROVE Entered
  <2>1. r[1] = "transcription" /\ Invoke("moderation", 0)
    BY <1>7 DEF Resumes, SendTaskSuccess, Resume, Finalize
  <2>2. "moderation" \in Step
    BY DEF Step, CallbackStep
  <2> QED
    BY <1>4, <1>7, <2>1, <2>2 DEF Resumes, SendTaskSuccess, Enters
<1>8. ASSUME NEW r \in Request, NEW p \in Post, Fails(r, p) PROVE FALSE
  BY <1>8 DEF Fails, SendTaskFailure, Catch, Finalize
<1>9. CASE IsCatch \/ FinalizerReturned \/ FinalizerServiceError \/ Abort
  BY <1>9 DEF IsCatch, FunctionError, TimeOut, TimeOutEarly, Catch, Finalize, FinalizerReturned,
     FinalizerServiceError, Abort
<1>10. CASE UNCHANGED <<executionVars, finalizer>> \/ UNCHANGED <<executionVars, invocation>>
  <2>1. ASSUME NEW r \in Request, RunModel(r) \/ LoseJob(r) PROVE FALSE
    BY <2>1 DEF RunModel, LoseJob
  <2>2. ASSUME NEW r \in Request, NEW p \in Post,
               \/ PostAgain(r, p) \/ PostInParallel(r, p) \/ CallbackFails(r, p)
               \/ CallbackStepOf(r, p)
        PROVE  Resumes(r, p)
    BY <1>8, <2>2 DEF PostAgain, PostInParallel, NextPost, CallbackFails, CallbackStepOf,
       StoreResult, AnnounceResult, SendTaskSuccess, RecordModelFailure, SendTaskFailure,
       FinalizeFailedCallback, AnnounceModelFailure, Resumes, Fails
  <2>3. ASSUME NEW verdict \in {"SUCCEEDED", "FAILED"},
               FinalizerStep(verdict) \/ FinalizerCrash(verdict)
        PROVE  FALSE
    BY <2>3 DEF FinalizerStep, FinishEvaluation, AnnounceEnd, FinalizerCrash
  <2>4. ~ (Submit \/ ReconcilerStep \/ ReconcilerCrash \/ UNCHANGED workflowVars)
    BY DEF Submit, ReconcilerStep, Reconcile, ReconcileOutcome, AnnounceReconciled,
       ReconcilerCrash, workflowVars
  <2> QED
    BY <1>1, <1>2, <1>3, <1>5, <1>6, <1>7, <1>9, <2>1, <2>2, <2>3, <2>4
       DEF WorkflowNext, Execution, IsCatch
<1> QED
  BY <1>5, <1>6, <1>7, <1>8, <1>9, <1>10, ExecutionMoves

\* A job is asked for by its request, and run once.
LEMMA JobMoves ==
    ASSUME Bookkeeping, [WorkflowNext]_workflowVars, NEW r \in Request
    PROVE  /\ job'[r] # job[r] => PostRequest(r) \/ RunModel(r) \/ LoseJob(r)
           /\ result'[r] # result[r] => RunModel(r)
<1> USE DEF Bookkeeping, WorkflowTypeOK
<1> DEFINE Goal == /\ job'[r] # job[r] => PostRequest(r) \/ RunModel(r) \/ LoseJob(r)
                   /\ result'[r] # result[r] => RunModel(r)
<1>1. CASE UNCHANGED <<job, result>>
  BY <1>1
<1>2. ASSUME NEW i \in Invocation, InvocationStep(i) PROVE Goal
  <2>1. CASE i \in Request /\ PostRequest(i)
    BY <2>1 DEF PostRequest, Accept, AcceptAgain
  <2>2. CASE ~ (i \in Request /\ PostRequest(i))
    BY <1>1, <1>2, <2>2 DEF InvocationStep, StartStep, AnnounceStart, RecordFailure,
       AnnounceFailure, Convert, StoreAudio, AnnounceAudio, RecordJob, jobVars
  <2> QED
    BY <2>1, <2>2
<1>3. ASSUME NEW q \in Request, RunModel(q) \/ LoseJob(q) PROVE Goal
  BY <1>3 DEF RunModel, LoseJob
<1>4. ASSUME NEW q \in Request, NEW p \in Post,
             \/ PostAgain(q, p) \/ PostInParallel(q, p) \/ CallbackFails(q, p)
             \/ CallbackStepOf(q, p)
      PROVE  UNCHANGED <<job, result>>
  BY <1>4 DEF PostAgain, PostInParallel, NextPost, CallbackFails, CallbackStepOf, StoreResult,
     AnnounceResult, SendTaskSuccess, RecordModelFailure, SendTaskFailure,
     FinalizeFailedCallback, AnnounceModelFailure
<1>5. CASE ~ \E i \in Invocation : InvocationStep(i)
  BY <1>1, <1>3, <1>4, <1>5
     DEF WorkflowNext, NeverRan, Crash, Submit, Execution, StartExecution, AudioConverted,
         FunctionError, TimeOut, FinalizerReturned, TimeOutEarly, ServiceError,
         FinalizerServiceError, Abort, FinalizerStep, FinishEvaluation, AnnounceEnd,
         FinalizerCrash, ReconcilerStep, Reconcile, ReconcileOutcome, AnnounceReconciled,
         ReconcilerCrash, jobVars, workflowVars
<1> QED
  BY <1>2, <1>5

\* A post is made by its job or after an earlier one, and answered by itself.
LEMMA CallbackMoves ==
    ASSUME Bookkeeping, [WorkflowNext]_workflowVars, NEW r \in Request, NEW p \in Post,
           callback'[r][p] # callback[r][p]
    PROVE  \/ RunModel(r) /\ callback'[r][p] = FirstStage(result'[r])
           \/ /\ callback'[r][p] = FirstStage(result[r])
              /\ \E q \in Post : callback[r][q] # "unsent"
              /\ UNCHANGED <<storeVars, executionVars, finalizer, job, result, logged>>
           \/ CallbackStepOf(r, p)
           \/ CallbackFails(r, p) /\ callback'[r][p] \in {"unavailable", "refused"}
<1> USE DEF Bookkeeping, WorkflowTypeOK
<1> DEFINE Goal == \/ RunModel(r) /\ callback'[r][p] = FirstStage(result'[r])
                   \/ /\ callback'[r][p] = FirstStage(result[r])
                      /\ \E q \in Post : callback[r][q] # "unsent"
                      /\ UNCHANGED <<storeVars, executionVars, finalizer, job, result, logged>>
                   \/ CallbackStepOf(r, p)
                   \/ CallbackFails(r, p) /\ callback'[r][p] \in {"unavailable", "refused"}
<1>1. ASSUME NEW q \in Request, NEW n \in Post, NEW where, Answer(q, n, where)
      PROVE  q = r /\ n = p /\ callback'[r][p] = where
  BY <1>1 DEF Answer
<1>2. ASSUME NEW q \in Request, RunModel(q) PROVE Goal
  <2>1. q = r /\ p = 1
    BY <1>1, <1>2 DEF RunModel, Post
  <2>2. PICK value \in Value \cup {NoValue} :
           result' = [result EXCEPT ![r] = value] /\ Answer(r, 1, FirstStage(value))
    BY <1>2, <2>1 DEF RunModel
  <2> QED
    BY <1>1, <1>2, <2>1, <2>2
<1>3. ASSUME NEW q \in Request, NEW n \in Post, PostAgain(q, n) \/ PostInParallel(q, n)
      PROVE  Goal
  <2>1. n + 1 \in Post /\ Answer(q, n + 1, FirstStage(result[q]))
    BY <1>3 DEF PostAgain, PostInParallel, NextPost, Post
  <2>2. callback[q][n] # "unsent"
    BY <1>3 DEF PostAgain, PostInParallel, PostAt, Answering
  <2>3. UNCHANGED <<storeVars, executionVars, finalizer, job, result, logged>>
    BY <1>3 DEF PostAgain, PostInParallel, NextPost, endVars
  <2> QED
    BY <1>1, <2>1, <2>2, <2>3
<1>4. ASSUME NEW q \in Request, NEW n \in Post, CallbackFails(q, n) PROVE Goal
  BY <1>1, <1>4 DEF CallbackFails
<1>5. ASSUME NEW q \in Request, NEW n \in Post, CallbackStepOf(q, n) PROVE Goal
  <2>1. PICK where : Answer(q, n, where)
    BY <1>5 DEF CallbackStepOf, StoreResult, AnnounceResult, SendTaskSuccess, RecordModelFailure,
       SendTaskFailure, FinalizeFailedCallback, AnnounceModelFailure
  <2> QED
    BY <1>1, <1>5, <2>1
<1>6. ASSUME NEW i \in Invocation, InvocationStep(i) \/ NeverRan(i) \/ Crash(i)
      PROVE  UNCHANGED callback
  BY <1>6 DEF InvocationStep, StartStep, AnnounceStart, RecordFailure, AnnounceFailure, Convert,
     StoreAudio, AnnounceAudio, PostRequest, RecordJob, NeverRan, Crash, jobVars
<1>7. ~ UNCHANGED callback
  OBVIOUS
<1> QED
  BY <1>2, <1>3, <1>4, <1>5, <1>6, <1>7
     DEF WorkflowNext, LoseJob, Submit, Execution, StartExecution, AudioConverted,
         FunctionError, TimeOut, FinalizerReturned, TimeOutEarly, ServiceError,
         FinalizerServiceError, Abort, FinalizerStep, FinishEvaluation, AnnounceEnd,
         FinalizerCrash, ReconcilerStep, Reconcile, ReconcileOutcome, AnnounceReconciled,
         ReconcilerCrash, jobVars, workflowVars

-----------------------------------------------------------------------------
(* The bookkeeping is inductive                                            *)

LEMMA OrderFacts ==
    /\ \A s \in Step : Order[s] \in 1 .. 3
    /\ \A s \in Terminal \cup {"none", "FinalizeSuccess", "FinalizeFailure"} : s \notin Step
    /\ CallbackStep \subseteq Step
    /\ Order["audio"] = 1 /\ Order["transcription"] = 2 /\ Order["moderation"] = 3
    /\ "audio" \in Step /\ "transcription" \in Step /\ "moderation" \in Step
BY DEF Order, Step, CallbackStep, Terminal

\* The execution is past what it entered, and enters only what was ahead of it.
LEMMA EntersAhead ==
    ASSUME Bookkeeping, [WorkflowNext]_workflowVars, state' \in Step,
           ~ UNCHANGED <<state, attempt>>
    PROVE  /\ \E i \in Invocation : Invoke(i[1], i[2]) /\ Enters(i)
                                    /\ (state = "none" \/ (state \in Step /\ IsAhead(i)))
           /\ \A i \in Invocation : IsAhead(i)' => state = "none" \/ (state \in Step /\ IsAhead(i))
<1> USE InputFacts, OrderFacts DEF Bookkeeping, WorkflowTypeOK
<1> DEFINE Goal == /\ \E i \in Invocation : Invoke(i[1], i[2]) /\ Enters(i)
                                    /\ (state = "none" \/ (state \in Step /\ IsAhead(i)))
                   /\ \A i \in Invocation :
                         IsAhead(i)' => state = "none" \/ (state \in Step /\ IsAhead(i))
<1>1. CASE StartExecution
  <2>1. state = "none" /\ Invoke("audio", 0) /\ <<"audio", 0>> \in Invocation
    BY <1>1 DEF StartExecution
  <2> QED
    BY <1>1, <2>1 DEF Enters
<1>2. CASE AudioConverted
  <2>1. state = "audio" /\ Invoke("transcription", 0) /\ <<"transcription", 0>> \in Invocation
    BY <1>2 DEF AudioConverted
  <2>2. ASSUME NEW i \in Invocation, IsAhead(i)' PROVE IsAhead(i)
    <3>1. state' = "transcription"
      BY <2>1 DEF Invoke
    <3>2. Order[i[1]] \in 1 .. 3 /\ Order[i[1]] >= Order["transcription"]
      BY <2>2, <3>1 DEF IsAhead
    <3> QED
      BY <2>1, <3>2 DEF IsAhead
  <2>3. IsAhead(<<"transcription", 0>>)
    BY <2>1 DEF IsAhead
  <2> QED
    BY <1>2, <2>1, <2>2, <2>3 DEF Enters
<1>3. CASE ServiceError
  <2>1. attempt < MaxRetries /\ Invoke(state, attempt + 1) /\ state \in Step
    BY <1>3 DEF ServiceError, RetryOrCatch, Catch, Finalize
  <2>2. attempt + 1 \in Attempt /\ attempt \in Nat
    BY <2>1 DEF Attempt
  <2>3. \A i \in Invocation : IsAhead(i)' => IsAhead(i)
    BY <2>1, <2>2 DEF Invoke, IsAhead, Attempt
  <2>4. IsAhead(<<state, attempt + 1>>)
    BY <2>2 DEF IsAhead
  <2> QED
    BY <1>3, <2>1, <2>2, <2>3, <2>4 DEF Enters
<1>4. ASSUME NEW r \in Request, NEW p \in Post, Resumes(r, p) PROVE Goal
  <2>1. r[1] = "transcription" /\ state = "transcription" /\ Invoke("moderation", 0)
        /\ <<"moderation", 0>> \in Invocation
    BY <1>4 DEF Resumes, Awaited, Current, SendTaskSuccess, Resume, Finalize
  <2>2. ASSUME NEW i \in Invocation, IsAhead(i)' PROVE IsAhead(i)
    <3>1. state' = "moderation"
      BY <2>1 DEF Invoke
    <3>2. Order[i[1]] \in 1 .. 3 /\ Order[i[1]] >= Order["moderation"]
      BY <2>2, <3>1 DEF IsAhead
    <3> QED
      BY <2>1, <3>2 DEF IsAhead
  <2>3. IsAhead(<<"moderation", 0>>)
    BY <2>1 DEF IsAhead
  <2> QED
    BY <1>4, <2>1, <2>2, <2>3 DEF Enters
<1>5. ASSUME NEW r \in Request, NEW p \in Post, Fails(r, p) PROVE FALSE
  BY <1>5 DEF Fails, SendTaskFailure, Catch, Finalize
<1>6. ~ (IsCatch \/ FinalizerReturned \/ FinalizerServiceError \/ Abort)
  BY DEF IsCatch, FunctionError, TimeOut, TimeOutEarly, Catch, Finalize, FinalizerReturned,
     FinalizerServiceError, Abort, Terminal
<1> QED
  BY <1>1, <1>2, <1>3, <1>4, <1>5, <1>6, ExecutionMoves DEF executionVars

\* Nothing comes back to the start, or out of a terminal state.
LEMMA StatesPass ==
    ASSUME Bookkeeping, [WorkflowNext]_workflowVars
    PROVE  /\ state' = "none" => state = "none" /\ UNCHANGED <<attempt, handed>>
           /\ state \in Terminal => UNCHANGED <<state, handed>>
<1> USE InputFacts, OrderFacts DEF Bookkeeping, WorkflowTypeOK
<1> DEFINE Goal == /\ state' = "none" => state = "none" /\ UNCHANGED <<attempt, handed>>
                   /\ state \in Terminal => UNCHANGED <<state, handed>>
<1>1. CASE StartExecution \/ AudioConverted \/ ServiceError
  BY <1>1 DEF StartExecution, AudioConverted, ServiceError, RetryOrCatch, Invoke, Catch, Finalize,
     Terminal, Step, CallbackStep
<1>2. CASE IsCatch \/ FinalizerReturned \/ FinalizerServiceError \/ Abort
  BY <1>2 DEF IsCatch, FunctionError, TimeOut, TimeOutEarly, Catch, Finalize, FinalizerReturned,
     FinalizerServiceError, Abort, Terminal
<1>3. ASSUME NEW r \in Request, NEW p \in Post, Resumes(r, p) \/ Fails(r, p) PROVE Goal
  <2>1. state \in Step
    BY <1>3 DEF Resumes, Fails, Awaited, Current
  <2> QED
    BY <1>3, <2>1 DEF Resumes, Fails, SendTaskSuccess, SendTaskFailure, Resume, Invoke, Catch,
       Finalize, Terminal
<1> QED
  BY <1>1, <1>2, <1>3, ExecutionMoves DEF executionVars

LEMMA FutureIsIdleStep ==
    ASSUME Bookkeeping, WorkflowTypeOK', [WorkflowNext]_workflowVars
    PROVE  FutureIsIdle'
<1> USE InputFacts, OrderFacts DEF Bookkeeping
<1>1. ASSUME NEW i \in Invocation, At(i, "idle"), ~ At(i, "idle")' PROVE Enters(i)
  BY <1>1, InvocationMoves
     DEF At, InvocationStep, StartStep, AnnounceStart, RecordFailure, AnnounceFailure, Convert,
         StoreAudio, AnnounceAudio, PostRequest, RecordJob, NeverRan, Crash, Busy
<1>2. ASSUME state' = "none" PROVE \A i \in Invocation : At(i, "idle")'
  <2>1. state = "none"
    BY <1>2, StatesPass
  <2>2. \A i \in Invocation : ~ Enters(i)
    BY <1>2 DEF Enters, Invoke
  <2> QED
    BY <1>1, <2>1, <2>2 DEF FutureIsIdle
<1>3. ASSUME state' \in Step, NEW i \in Invocation, IsAhead(i)' PROVE At(i, "idle")'
  <2>1. ~ Enters(i)
    BY <1>3 DEF Enters, Invoke, IsAhead, Attempt
  <2>2. CASE UNCHANGED <<state, attempt>>
    BY <1>1, <1>3, <2>1, <2>2 DEF FutureIsIdle, IsAhead
  <2>3. CASE ~ UNCHANGED <<state, attempt>>
    BY <1>1, <1>3, <2>1, <2>3, EntersAhead DEF FutureIsIdle
  <2> QED
    BY <2>2, <2>3
<1> QED
  BY <1>2, <1>3 DEF FutureIsIdle

\* Whatever is entered was idle.
LEMMA EntersIdle ==
    ASSUME Bookkeeping, [WorkflowNext]_workflowVars, NEW i \in Invocation, Enters(i),
           invocation'[i] # invocation[i]
    PROVE  At(i, "idle")
<1> USE InputFacts, OrderFacts DEF Bookkeeping
<1>1. state' \in Step /\ i = <<state', attempt'>>
  BY DEF Enters, Invoke
<1>2. CASE ~ UNCHANGED <<state, attempt>>
  <2>1. PICK j \in Invocation : Invoke(j[1], j[2]) /\ (state = "none" \/ (state \in Step /\ IsAhead(j)))
    BY <1>1, <1>2, EntersAhead
  <2>2. j = i
    BY <1>1, <2>1 DEF Invoke
  <2> QED
    BY <2>1, <2>2 DEF FutureIsIdle
<1>3. CASE UNCHANGED <<state, attempt>>
  <2>1. StartExecution => state' # state
    BY DEF StartExecution, Invoke
  <2>2. AudioConverted => state' # state
    BY DEF AudioConverted, Invoke
  <2>3. ServiceError => attempt' # attempt
    BY <1>1 DEF ServiceError, RetryOrCatch, Invoke, Catch, Finalize, WorkflowTypeOK, Attempt
  <2>4. ASSUME NEW r \in Request, NEW p \in Post, Resumes(r, p), r[1] = "transcription"
        PROVE  state' # state
    BY <2>4 DEF Resumes, Awaited, Current, SendTaskSuccess, Resume, Invoke
  <2> QED
    BY <1>3, <2>1, <2>2, <2>3, <2>4 DEF Enters
<1> QED
  BY <1>2, <1>3

LEMMA JobsRunOnceStep ==
    ASSUME Bookkeeping, WorkflowTypeOK', [WorkflowNext]_workflowVars
    PROVE  JobsRunOnce'
<1> USE InputFacts DEF Bookkeeping, WorkflowTypeOK
<1> DEFINE Early == {"idle", "starting", "announcing", "working"}
<1> SUFFICES ASSUME NEW r \in Request
             PROVE  /\ invocation'[r] \in Early => job'[r] = "none"
                    /\ job'[r] # "done" => \A p \in Post : callback'[r][p] = "unsent"
  BY DEF JobsRunOnce
<1>1. ASSUME invocation'[r] \in Early PROVE invocation[r] \in Early
  BY <1>1, InvocationMoves, EntersIdle
     DEF At, GoTo, InvocationStep, StartStep, AnnounceStart, RecordFailure, AnnounceFailure,
         Convert, StoreAudio, AnnounceAudio, PostRequest, RecordJob
<1>2. ASSUME invocation'[r] \in Early PROVE job'[r] = "none"
  <2>1. job[r] = "none"
    BY <1>1, <1>2 DEF JobsRunOnce
  <2>2. ~ PostRequest(r)
    BY <1>2 DEF PostRequest, GoTo
  <2> QED
    BY <2>1, <2>2, JobMoves DEF RunModel, LoseJob
<1>3. ASSUME job'[r] # "done", NEW p \in Post PROVE callback'[r][p] = "unsent"
  <2>1. job[r] # "done"
    <3>1. PostRequest(r) => job[r] = "none"
      BY DEF PostRequest, At, JobsRunOnce
    <3>2. RunModel(r) \/ LoseJob(r) => job[r] = "queued"
      BY DEF RunModel, LoseJob
    <3> QED
      BY <1>3, <3>1, <3>2, JobMoves
  <2>2. \A q \in Post : callback[r][q] = "unsent"
    BY <2>1 DEF JobsRunOnce
  <2>3. ~ RunModel(r)
    BY <1>3 DEF RunModel
  <2>4. ~ CallbackStepOf(r, p)
    BY <2>2 DEF CallbackStepOf, StoreResult, AnnounceResult, SendTaskSuccess, RecordModelFailure,
       SendTaskFailure, FinalizeFailedCallback, AnnounceModelFailure, PostAt
  <2>5. ~ CallbackFails(r, p)
    BY <2>2 DEF CallbackFails, Answering
  <2> QED
    BY <2>2, <2>3, <2>4, <2>5, CallbackMoves
<1> QED
  BY <1>2, <1>3

\* A result stays from the first post on.
LEMMA ResultsStay ==
    ASSUME Bookkeeping, [WorkflowNext]_workflowVars, NEW r \in Request, NEW p \in Post,
           callback[r][p] # "unsent"
    PROVE  result'[r] = result[r]
<1>1. job[r] = "done"
  BY DEF Bookkeeping, JobsRunOnce
<1> QED
  BY <1>1, JobMoves DEF RunModel

LEMMA PostsHaveResultsStep ==
    ASSUME Bookkeeping, [WorkflowNext]_workflowVars
    PROVE  PostsHaveResults'
<1> USE DEF Bookkeeping
<1> DEFINE Resulting == {"storing", "announcing", "resuming"}
<1> SUFFICES ASSUME NEW r \in Request, NEW p \in Post, callback'[r][p] \in Resulting
             PROVE  result'[r] # NoValue
  BY DEF PostsHaveResults
<1>1. CASE callback[r][p] \in Resulting
  BY <1>1, ResultsStay DEF PostsHaveResults
<1>2. CASE RunModel(r) /\ callback'[r][p] = FirstStage(result'[r])
  BY <1>2 DEF FirstStage
<1>3. CASE callback'[r][p] = FirstStage(result[r]) /\ UNCHANGED result
  BY <1>3 DEF FirstStage
<1>4. CASE CallbackStepOf(r, p) /\ callback[r][p] \notin Resulting
  <2>1. PICK where : Answer(r, p, where) /\ where \notin Resulting
    BY <1>4 DEF CallbackStepOf, StoreResult, AnnounceResult, SendTaskSuccess, RecordModelFailure,
       SendTaskFailure, FinalizeFailedCallback, AnnounceModelFailure, PostAt
  <2> QED
    BY <2>1 DEF Answer, WorkflowTypeOK
<1> QED
  BY <1>1, <1>2, <1>3, <1>4, CallbackMoves

LEMMA ReconcilesAnEndStep ==
    ASSUME Bookkeeping, [WorkflowNext]_workflowVars
    PROVE  ReconcilesAnEnd'
<1> SUFFICES ASSUME reconciler' # "idle" PROVE state' \in Terminal
  BY DEF ReconcilesAnEnd
<1>1. CASE reconciler # "idle"
  BY <1>1, StatesPass DEF Bookkeeping, ReconcilesAnEnd
<1>2. CASE reconciler' # reconciler
  <2>1. ASSUME NEW i \in Invocation, InvocationStep(i) \/ NeverRan(i) \/ Crash(i)
        PROVE  FALSE
    BY <1>2, <2>1 DEF InvocationStep, StartStep, AnnounceStart, RecordFailure, AnnounceFailure,
       Convert, StoreAudio, AnnounceAudio, PostRequest, RecordJob, NeverRan, Crash, endVars
  <2>2. ASSUME NEW r \in Request,
               \/ RunModel(r) \/ LoseJob(r)
               \/ \E p \in Post :
                     \/ PostAgain(r, p) \/ PostInParallel(r, p) \/ CallbackFails(r, p)
                     \/ CallbackStepOf(r, p)
        PROVE  FALSE
    BY <1>2, <2>2 DEF RunModel, LoseJob, PostAgain, PostInParallel, NextPost, CallbackFails,
       CallbackStepOf, StoreResult, AnnounceResult, SendTaskSuccess, RecordModelFailure,
       SendTaskFailure, FinalizeFailedCallback, AnnounceModelFailure, endVars
  <2>3. ~ (Submit \/ Execution \/ TimeOutEarly \/ ServiceError \/ FinalizerServiceError \/ Abort
           \/ UNCHANGED workflowVars)
    BY <1>2 DEF Submit, Execution, StartExecution, AudioConverted, FunctionError, TimeOut,
       FinalizerReturned, TimeOutEarly, ServiceError, FinalizerServiceError, Abort, endVars,
       workflowVars
  <2>4. ASSUME NEW verdict \in {"SUCCEEDED", "FAILED"},
               FinalizerStep(verdict) \/ FinalizerCrash(verdict)
        PROVE  FALSE
    BY <1>2, <2>4 DEF FinalizerStep, FinishEvaluation, AnnounceEnd, FinalizerCrash
  <2>5. CASE ReconcilerStep \/ ReconcilerCrash
    <3>1. CASE Reconcile
      BY <3>1 DEF Reconcile, Reconciled, executionVars
    <3>2. CASE ReconcileOutcome \/ AnnounceReconciled \/ ReconcilerCrash
      BY <1>1, <3>2 DEF ReconcileOutcome, AnnounceReconciled, ReconcilerCrash
    <3> QED
      BY <2>5, <3>1, <3>2 DEF ReconcilerStep
  <2> QED
    BY <2>1, <2>2, <2>3, <2>4, <2>5 DEF WorkflowNext
<1> QED
  BY <1>1, <1>2

LEMMA BookkeepingInductive ==
    /\ WorkflowInit => Bookkeeping
    /\ Bookkeeping /\ [WorkflowNext]_workflowVars => Bookkeeping'
<1>1. WorkflowInit => Bookkeeping
  <2> SUFFICES ASSUME WorkflowInit PROVE Bookkeeping
    OBVIOUS
  <2>1. TypeOK
    BY DEF WorkflowInit, Init, TypeOK, Lease, StepStatus, Error, DispatchLimit
  <2>2. WorkflowTypeOK
    BY <2>1, InputFacts, WorkflowAssumption DEF WorkflowInit, WorkflowTypeOK, ExecutionState,
       InvocationStage, WorkerStage, JobState, CallbackStage, MaxReconciliations
  <2>3. FutureIsIdle /\ JobsRunOnce /\ PostsHaveResults /\ ReconcilesAnEnd
    BY InputFacts, OrderFacts DEF WorkflowInit, FutureIsIdle, JobsRunOnce, PostsHaveResults,
       ReconcilesAnEnd, At
  <2> QED
    BY <2>2, <2>3 DEF Bookkeeping
<1>2. ASSUME Bookkeeping, [WorkflowNext]_workflowVars PROVE Bookkeeping'
  BY <1>2, WorkflowTypeStep, FutureIsIdleStep, JobsRunOnceStep, PostsHaveResultsStep,
     ReconcilesAnEndStep DEF Bookkeeping
<1> QED
  BY <1>1, <1>2

THEOREM BookkeepingAlways == WorkflowSpec => []Bookkeeping
BY BookkeepingInductive, PTL DEF WorkflowSpec

\* Every variable of the workflow always holds a value of its type, for any
\* number of retries, service errors and faults.
THEOREM WorkflowTypeCorrect == WorkflowSpec => []WorkflowTypeOK
<1>1. Bookkeeping => WorkflowTypeOK
  BY DEF Bookkeeping
<1> QED
  BY <1>1, BookkeepingAlways, PTL

\* An execution with its Lambdas, retries and callbacks is a use of the task
\* store: its behaviours are behaviours of the store's specification, so that
\* everything proved of the store holds of them.
THEOREM WorkflowUsesStore == WorkflowSpec => Spec
<1>1. WorkflowInit => Init
  BY DEF WorkflowInit
<1> QED
  BY <1>1, WorkflowStepsAreStoreSteps, BookkeepingAlways, PTL DEF WorkflowSpec, Spec

\* Whoever reads the evaluation while it is executed, retried and called back
\* sees it go through the lifecycle.
THEOREM WorkflowImplementsLifecycle == WorkflowSpec => ImplementsLifecycle
BY WorkflowUsesStore, StoreImplementsLifecycle, PTL

-----------------------------------------------------------------------------
(* What the store keeps, and who closes the task                           *)

\* Nothing recorded of the evaluation is taken back.
LEMMA StoreKeeps ==
    ASSUME Inv, Inv', [Next]_storeVars
    PROVE  /\ outcome[Evaluation] # NoValue => outcome'[Evaluation] = outcome[Evaluation]
           /\ \A s \in Step : output[Evaluation][s] # NoValue =>
                 output'[Evaluation][s] = output[Evaluation][s]
           /\ HasFailedStep => HasFailedStep'
           /\ outcome'[Evaluation] = "SUCCEEDED" => ~ HasFailedStep'
           /\ Doomed => Doomed'
<1> USE InputFacts DEF Inv
<1>1. OutcomeMove(Evaluation) /\ \A s \in Step : StepMove(Evaluation, s)
  BY OutcomeMoves, StepMoves
<1>2. outcome[Evaluation] # NoValue => outcome'[Evaluation] = outcome[Evaluation]
  BY <1>1 DEF OutcomeMove
<1>3. ASSUME NEW s \in Step, output[Evaluation][s] # NoValue
      PROVE  output'[Evaluation][s] = output[Evaluation][s]
  <2>1. step[Evaluation][s] = "COMPLETED"
    BY <1>3 DEF OutputsMatchSteps
  <2> QED
    BY <1>1, <2>1 DEF StepMove, StepKept, StepBegins, StepCompletes, StepBreaks
<1>4. HasFailedStep => HasFailedStep'
  <2>1. ASSUME NEW s \in Step, step[Evaluation][s] = "FAILED" PROVE step'[Evaluation][s] = "FAILED"
    BY <1>1, <2>1 DEF StepMove, StepKept, StepBegins, StepCompletes, StepBreaks
  <2> QED
    BY <2>1 DEF HasFailedStep
<1>5. outcome'[Evaluation] = "SUCCEEDED" => ~ HasFailedStep'
  <2> SUFFICES ASSUME outcome'[Evaluation] = "SUCCEEDED", NEW s \in Step
               PROVE  step'[Evaluation][s] # "FAILED"
    BY DEF HasFailedStep
  <2>1. /\ step'[Evaluation]["transcription"] = "COMPLETED"
        /\ step'[Evaluation]["moderation"] \in {"PENDING", "COMPLETED"}
    BY DEF SuccessIsComplete
  <2>2. step'[Evaluation]["audio"] = "COMPLETED"
    BY <2>1 DEF StepsInOrder
  <2> QED
    BY <2>1, <2>2 DEF Step, CallbackStep
<1>6. ASSUME outcome[Evaluation] = NoValue, HasFailedStep PROVE Doomed'
  <2>1. outcome'[Evaluation] # "SUCCEEDED"
    BY <1>4, <1>5, <1>6
  <2>2. outcome'[Evaluation] \in Outcome \cup {NoValue}
    BY DEF TypeOK
  <2> QED
    BY <1>4, <1>6, <2>1, <2>2 DEF Doomed, Outcome, Failing
<1>7. outcome[Evaluation] \in Failing => outcome'[Evaluation] \in Failing
  BY <1>2 DEF Failing, Outcome
<1> QED
  BY <1>2, <1>3, <1>4, <1>5, <1>6, <1>7 DEF Doomed

\* A step's failure that is accepted leaves the evaluation without success.
LEMMA FailStepDooms ==
    ASSUME Inv, NEW s \in Step, NEW error, FailStep(Evaluation, s, error)
    PROVE  /\ Doomed'
           /\ outcome'[Evaluation] # outcome[Evaluation] =>
                 outcome'[Evaluation] = "FAILED" /\ HasFailedStep'
<1> USE InputFacts DEF Inv, TypeOK
<1>1. CASE Status(Evaluation) = "FAILED"
  <2>1. UNCHANGED <<step, outcome>>
    BY <1>1 DEF FailStep
  <2>2. Doomed
    BY <1>1, StatusAndOutcome DEF Status, Doomed, Failing, HasFailedStep, OpenStatus
  <2> QED
    BY <2>1, <2>2 DEF Doomed, HasFailedStep
<1>2. CASE Status(Evaluation) # "FAILED"
  <2>1. outcome' = [outcome EXCEPT ![Evaluation] = "FAILED"]
        /\ step' = [step EXCEPT ![Evaluation][s] = "FAILED"]
    BY <1>2 DEF FailStep
  <2>2. outcome'[Evaluation] = "FAILED" /\ step'[Evaluation][s] = "FAILED"
    BY <2>1
  <2> QED
    BY <2>2 DEF Doomed, HasFailedStep, Failing
<1> QED
  BY <1>1, <1>2

\* Finishing leaves the outcome it reports.
LEMMA FinishRecords ==
    ASSUME TypeOK, NEW verdict, NEW error, FinishWorkflow(Evaluation, verdict, error)
    PROVE  /\ outcome'[Evaluation] = verdict
           /\ verdict # outcome[Evaluation] => outcome[Evaluation] = NoValue
BY InputFacts DEF FinishWorkflow, CanFinishWorkflow, TypeOK

\* The invocations that may close the evaluation.
LEMMA ClosersAre ==
    ASSUME Bookkeeping, Inv, [WorkflowNext]_workflowVars,
           outcome'[Evaluation] # outcome[Evaluation]
    PROVE  \/ outcome'[Evaluation] = "FAILED" /\ HasFailedStep'
           \/ /\ outcome'[Evaluation] = "FAILED"
              /\ \E r \in Request, p \in Post : callback[r][p] = "finalizing"
           \/ \E verdict \in {"SUCCEEDED", "FAILED"} :
                 outcome'[Evaluation] = verdict /\ finalizer[verdict] = "finishing"
           \/ /\ state \in Terminal /\ outcome'[Evaluation] = OutcomeOf[state]
              /\ outcome[Evaluation] = NoValue
<1> USE InputFacts DEF Bookkeeping, Inv
<1> DEFINE Goal == \/ outcome'[Evaluation] = "FAILED" /\ HasFailedStep'
                   \/ /\ outcome'[Evaluation] = "FAILED"
                      /\ \E r \in Request, p \in Post : callback[r][p] = "finalizing"
                   \/ \E verdict \in {"SUCCEEDED", "FAILED"} :
                         outcome'[Evaluation] = verdict /\ finalizer[verdict] = "finishing"
                   \/ /\ state \in Terminal /\ outcome'[Evaluation] = OutcomeOf[state]
                      /\ outcome[Evaluation] = NoValue
<1>1. ASSUME NEW i \in Invocation, InvocationStep(i) PROVE Goal
  <2>1. CASE RecordFailure(i)
    BY <2>1, FailStepDooms DEF RecordFailure, storeVars
  <2>2. CASE StartStep(i)
    BY <2>2 DEF StartStep, Begin, StartAudioProcessing, StartCallbackStep, storeVars
  <2>3. CASE StoreAudio(i)
    BY <2>3 DEF StoreAudio, CompleteAudioProcessing, storeVars
  <2>4. CASE RecordJob(i)
    BY <2>4 DEF RecordJob, RecordExternalId, storeVars
  <2>5. CASE \/ AnnounceStart(i) \/ AnnounceFailure(i) \/ Convert(i) \/ AnnounceAudio(i)
             \/ PostRequest(i)
    BY <2>5 DEF AnnounceStart, AnnounceFailure, Convert, AnnounceAudio, PostRequest, storeVars
  <2> QED
    BY <1>1, <2>1, <2>2, <2>3, <2>4, <2>5 DEF InvocationStep
<1>2. ASSUME NEW r \in Request, NEW p \in Post, CallbackStepOf(r, p) PROVE Goal
  <2>1. CASE FinalizeFailedCallback(r, p)
    BY <2>1, FinishRecords DEF FinalizeFailedCallback, FinalizeCallback, PostAt, storeVars
  <2>2. CASE StoreResult(r, p)
    BY <2>2 DEF StoreResult, CompleteCallbackStep, storeVars
  <2>3. CASE RecordModelFailure(r, p)
    BY <2>3 DEF RecordModelFailure, RecordCallbackFailure, storeVars
  <2>4. CASE \/ AnnounceResult(r, p) \/ SendTaskSuccess(r, p) \/ SendTaskFailure(r, p)
             \/ AnnounceModelFailure(r, p)
    BY <2>4 DEF AnnounceResult, SendTaskSuccess, SendTaskFailure, AnnounceModelFailure, storeVars
  <2> QED
    BY <1>2, <2>1, <2>2, <2>3, <2>4 DEF CallbackStepOf
<1>3. ASSUME NEW verdict \in {"SUCCEEDED", "FAILED"}, FinalizerStep(verdict) PROVE Goal
  BY <1>3, FinishRecords DEF FinalizerStep, FinishEvaluation, AnnounceEnd, storeVars
<1>4. CASE ReconcilerStep
  <2>1. CASE ReconcileOutcome
    <3>1. state \in Terminal
      BY <2>1 DEF ReconcileOutcome, ReconcilesAnEnd
    <3> QED
      BY <2>1, <3>1, FinishRecords DEF ReconcileOutcome, storeVars
  <2> QED
    BY <1>4, <2>1 DEF ReconcilerStep, Reconcile, AnnounceReconciled, storeVars
<1>5. ASSUME NEW i \in Invocation, NeverRan(i) \/ Crash(i) PROVE FALSE
  BY <1>5 DEF NeverRan, Crash, storeVars
<1>6. ASSUME NEW r \in Request, RunModel(r) \/ LoseJob(r) PROVE FALSE
  BY <1>6 DEF RunModel, LoseJob, storeVars
<1>7. ASSUME NEW r \in Request, NEW p \in Post,
             PostAgain(r, p) \/ PostInParallel(r, p) \/ CallbackFails(r, p)
      PROVE  FALSE
  BY <1>7 DEF PostAgain, PostInParallel, NextPost, CallbackFails, storeVars
<1>8. ~ (Execution \/ TimeOutEarly \/ ServiceError \/ FinalizerServiceError \/ Abort
         \/ ReconcilerCrash \/ UNCHANGED workflowVars)
  BY DEF Execution, StartExecution, AudioConverted, FunctionError, TimeOut, FinalizerReturned,
     TimeOutEarly, ServiceError, FinalizerServiceError, Abort, ReconcilerCrash, workflowVars,
     storeVars
<1>9. ASSUME NEW verdict \in {"SUCCEEDED", "FAILED"}, FinalizerCrash(verdict) PROVE FALSE
  BY <1>9 DEF FinalizerCrash, storeVars
<1>10. ~ Submit
  BY DEF Submit, CreateTask
<1> QED
  BY <1>1, <1>2, <1>3, <1>4, <1>5, <1>6, <1>7, <1>8, <1>9, <1>10 DEF WorkflowNext

-----------------------------------------------------------------------------
(* Who moves the rest                                                      *)

\* Every action but those of the model service's callbacks leaves the
\* transcript that moderation is requested with.
LEMMA HandedMoves ==
    ASSUME Bookkeeping, [WorkflowNext]_workflowVars, handed' # handed
    PROVE  \E r \in Request, p \in Post :
              Resumes(r, p) /\ r[1] = "transcription" /\ handed' = result[r]
<1>1. ~ \/ StartExecution \/ AudioConverted \/ IsCatch \/ ServiceError
        \/ FinalizerReturned \/ FinalizerServiceError \/ Abort
        \/ UNCHANGED executionVars
  BY DEF StartExecution, AudioConverted, IsCatch, FunctionError, TimeOut, TimeOutEarly,
     ServiceError, FinalizerReturned, FinalizerServiceError, Abort, executionVars
<1>2. ASSUME NEW r \in Request, NEW p \in Post, Resumes(r, p) \/ Fails(r, p)
      PROVE  Resumes(r, p) /\ r[1] = "transcription" /\ handed' = result[r]
  BY <1>2 DEF Resumes, Fails, SendTaskSuccess, SendTaskFailure, Resume
<1> QED
  BY <1>1, <1>2, ExecutionMoves

\* A final state's worker is invoked by success of moderation or by a Catch,
\* and goes on by itself.
LEMMA FinalizerMoves ==
    ASSUME Bookkeeping, [WorkflowNext]_workflowVars, NEW verdict \in {"SUCCEEDED", "FAILED"},
           finalizer'[verdict] # finalizer[verdict]
    PROVE  \/ FinalizerStep(verdict)
           \/ FinalizerCrash(verdict) /\ finalizer'[verdict] = "error"
           \/ /\ finalizer'[verdict] = "finishing"
              /\ verdict = "FAILED" => state' = "FinalizeFailure"
              /\ verdict = "SUCCEEDED" =>
                    \E r \in Request, p \in Post : Resumes(r, p) /\ r[1] = "moderation"
<1> USE DEF Bookkeeping, WorkflowTypeOK
<1> DEFINE Goal == \/ FinalizerStep(verdict)
                   \/ FinalizerCrash(verdict) /\ finalizer'[verdict] = "error"
                   \/ /\ finalizer'[verdict] = "finishing"
                      /\ verdict = "FAILED" => state' = "FinalizeFailure"
                      /\ verdict = "SUCCEEDED" =>
                            \E r \in Request, p \in Post : Resumes(r, p) /\ r[1] = "moderation"
<1>1. ASSUME NEW v \in {"SUCCEEDED", "FAILED"}, FinalizerStep(v) \/ FinalizerCrash(v)
      PROVE  v = verdict /\ (FinalizerCrash(v) => finalizer'[verdict] = "error")
  BY <1>1 DEF FinalizerStep, FinishEvaluation, AnnounceEnd, FinalizerCrash
<1>2. ASSUME NEW v \in {"SUCCEEDED", "FAILED"}, NEW final, Finalize(final, v)
      PROVE  v = verdict /\ finalizer'[verdict] = "finishing" /\ state' = final
  BY <1>2 DEF Finalize
<1>3. CASE Catch
  BY <1>2, <1>3 DEF Catch
<1>4. CASE IsCatch
  BY <1>3, <1>4 DEF IsCatch, FunctionError, TimeOut, TimeOutEarly
<1>5. CASE ServiceError
  BY <1>3, <1>5 DEF ServiceError, RetryOrCatch, Invoke
<1>6. ASSUME NEW r \in Request, NEW p \in Post, Fails(r, p) PROVE Goal
  BY <1>3, <1>6 DEF Fails, SendTaskFailure
<1>7. ASSUME NEW r \in Request, NEW p \in Post, Resumes(r, p) PROVE Goal
  <2>1. Finalize("FinalizeSuccess", "SUCCEEDED") /\ r[1] # "transcription"
    BY <1>7 DEF Resumes, SendTaskSuccess, Resume, Invoke
  <2>2. verdict = "SUCCEEDED" /\ finalizer'[verdict] = "finishing"
    BY <1>2, <2>1
  <2>3. r[1] = "moderation"
    BY <2>1 DEF Request, CallbackStep
  <2> QED
    BY <1>7, <2>2, <2>3
<1>8. CASE StartExecution \/ AudioConverted \/ FinalizerReturned \/ FinalizerServiceError \/ Abort
           \/ UNCHANGED <<executionVars, finalizer>>
  BY <1>8 DEF StartExecution, AudioConverted, Invoke, FinalizerReturned, FinalizerServiceError,
     Abort, endVars
<1>9. CASE UNCHANGED <<executionVars, invocation>>
  <2>1. ASSUME NEW i \in Invocation, InvocationStep(i) \/ NeverRan(i) \/ Crash(i)
        PROVE  FALSE
    BY <2>1 DEF InvocationStep, StartStep, AnnounceStart, RecordFailure, AnnounceFailure,
       Convert, StoreAudio, AnnounceAudio, PostRequest, RecordJob, NeverRan, Crash, endVars
  <2>2. ASSUME NEW r \in Request,
               \/ RunModel(r) \/ LoseJob(r)
               \/ \E p \in Post :
                     \/ PostAgain(r, p) \/ PostInParallel(r, p) \/ CallbackFails(r, p)
                     \/ CallbackStepOf(r, p)
        PROVE  Goal
    BY <1>6, <1>7, <2>2 DEF RunModel, LoseJob, PostAgain, PostInParallel, NextPost,
       CallbackFails, CallbackStepOf, StoreResult, AnnounceResult, SendTaskSuccess,
       RecordModelFailure, SendTaskFailure, FinalizeFailedCallback, AnnounceModelFailure,
       Resumes, Fails, endVars
  <2>3. ~ (Submit \/ ReconcilerStep \/ ReconcilerCrash \/ UNCHANGED workflowVars)
    BY DEF Submit, ReconcilerStep, Reconcile, ReconcileOutcome, AnnounceReconciled,
       ReconcilerCrash, endVars, workflowVars
  <2> QED
    BY <1>1, <1>4, <1>5, <1>8, <2>1, <2>2, <2>3 DEF WorkflowNext, Execution, IsCatch
<1> QED
  BY <1>4, <1>5, <1>6, <1>7, <1>8, <1>9, ExecutionMoves

\* The events a step tells.
Told(event) ==
    \/ \E i \in Invocation :
          \/ AnnounceStart(i) /\ event = StartEvent[i[1]]
          \/ AnnounceAudio(i) /\ event = FinishEvent["audio"]
          \/ AnnounceFailure(i) /\ event = "FAILED"
    \/ \E r \in Request, p \in Post :
          \/ AnnounceResult(r, p) /\ event = FinishEvent[r[1]]
          \/ AnnounceModelFailure(r, p) /\ event = "FAILED"
    \/ \E verdict \in {"SUCCEEDED", "FAILED"} : AnnounceEnd(verdict) /\ event = verdict
    \/ AnnounceReconciled /\ event = OutcomeOf[state]

\* An event is logged by the Lambda that tells it, and stays.
LEMMA LoggedMoves ==
    ASSUME [WorkflowNext]_workflowVars
    PROVE  logged \subseteq logged' /\ \A event \in logged' \ logged : Told(event)
<1> DEFINE Goal == logged \subseteq logged' /\ \A event \in logged' \ logged : Told(event)
<1>1. CASE UNCHANGED logged
  BY <1>1
<1>2. ASSUME NEW event, Emit(event) \/ EmitFails(event), Told(event) PROVE Goal
  <2>1. logged' = logged \/ logged' = logged \cup {event}
    BY <1>2 DEF Emit, EmitFails
  <2> QED
    BY <1>2, <2>1
<1>3. ASSUME NEW i \in Invocation, InvocationStep(i) \/ NeverRan(i) \/ Crash(i) PROVE Goal
  <2>1. CASE AnnounceStart(i)
    <3>1. Told(StartEvent[i[1]])
      BY <2>1 DEF Told
    <3>2. Emit(StartEvent[i[1]]) \/ EmitFails(StartEvent[i[1]])
      BY <2>1 DEF AnnounceStart
    <3> QED
      BY <1>2, <3>1, <3>2
  <2>2. CASE AnnounceFailure(i)
    <3>1. Told("FAILED")
      BY <2>2 DEF Told
    <3>2. Emit("FAILED") \/ EmitFails("FAILED")
      BY <2>2 DEF AnnounceFailure
    <3> QED
      BY <1>2, <3>1, <3>2
  <2>3. CASE AnnounceAudio(i)
    <3>1. Told(FinishEvent["audio"])
      BY <2>3 DEF Told
    <3>2. Emit(FinishEvent["audio"]) \/ EmitFails(FinishEvent["audio"])
      BY <2>3 DEF AnnounceAudio
    <3> QED
      BY <1>2, <3>1, <3>2
  <2>4. CASE \/ StartStep(i) \/ Convert(i) \/ PostRequest(i) \/ StoreAudio(i) \/ RecordJob(i)
             \/ RecordFailure(i) \/ NeverRan(i) \/ Crash(i)
    <3>1. UNCHANGED logged
      BY <2>4 DEF StartStep, Convert, PostRequest, StoreAudio, RecordJob, RecordFailure, NeverRan,
         Crash
    <3> QED
      BY <1>1, <3>1
  <2> QED
    BY <1>3, <2>1, <2>2, <2>3, <2>4 DEF InvocationStep
<1>4. ASSUME NEW r \in Request, NEW p \in Post, CallbackStepOf(r, p) PROVE Goal
  <2>1. CASE AnnounceResult(r, p)
    <3>1. Told(FinishEvent[r[1]])
      BY <2>1 DEF Told
    <3>2. Emit(FinishEvent[r[1]]) \/ EmitFails(FinishEvent[r[1]])
      BY <2>1 DEF AnnounceResult
    <3> QED
      BY <1>2, <3>1, <3>2
  <2>2. CASE AnnounceModelFailure(r, p)
    <3>1. Told("FAILED")
      BY <2>2 DEF Told
    <3>2. Emit("FAILED") \/ EmitFails("FAILED")
      BY <2>2 DEF AnnounceModelFailure
    <3> QED
      BY <1>2, <3>1, <3>2
  <2>3. CASE \/ StoreResult(r, p) \/ SendTaskSuccess(r, p) \/ RecordModelFailure(r, p)
             \/ SendTaskFailure(r, p) \/ FinalizeFailedCallback(r, p)
    <3>1. UNCHANGED logged
      BY <2>3 DEF StoreResult, SendTaskSuccess, RecordModelFailure, SendTaskFailure,
         FinalizeFailedCallback
    <3> QED
      BY <1>1, <3>1
  <2> QED
    BY <1>4, <2>1, <2>2, <2>3 DEF CallbackStepOf
<1>5. ASSUME NEW verdict \in {"SUCCEEDED", "FAILED"}, FinalizerStep(verdict) \/ FinalizerCrash(verdict)
      PROVE  Goal
  <2>1. CASE AnnounceEnd(verdict)
    <3>1. Told(verdict)
      BY <2>1 DEF Told
    <3>2. Emit(verdict) \/ EmitFails(verdict)
      BY <2>1 DEF AnnounceEnd
    <3> QED
      BY <1>2, <3>1, <3>2
  <2>2. CASE FinishEvaluation(verdict) \/ FinalizerCrash(verdict)
    BY <1>1, <2>2 DEF FinishEvaluation, FinalizerCrash
  <2> QED
    BY <1>5, <2>1, <2>2 DEF FinalizerStep
<1>6. CASE ReconcilerStep \/ ReconcilerCrash
  <2>1. CASE AnnounceReconciled
    <3> SUFFICES ASSUME NEW event, event = OutcomeOf[state] PROVE Goal
      OBVIOUS
    <3>1. Told(event)
      BY <2>1 DEF Told
    <3>2. Emit(event) \/ EmitFails(event)
      BY <2>1 DEF AnnounceReconciled
    <3> QED
      BY <1>2, <3>1, <3>2
  <2>2. CASE Reconcile \/ ReconcileOutcome \/ ReconcilerCrash
    BY <1>1, <2>2 DEF Reconcile, ReconcileOutcome, ReconcilerCrash
  <2> QED
    BY <1>6, <2>1, <2>2 DEF ReconcilerStep
<1>7. ASSUME NEW r \in Request,
             \/ RunModel(r) \/ LoseJob(r)
             \/ \E p \in Post : PostAgain(r, p) \/ PostInParallel(r, p) \/ CallbackFails(r, p)
      PROVE  Goal
  BY <1>1, <1>7 DEF RunModel, LoseJob, PostAgain, PostInParallel, NextPost, CallbackFails
<1>8. CASE \/ Submit \/ Execution \/ TimeOutEarly \/ ServiceError \/ FinalizerServiceError
           \/ Abort \/ UNCHANGED workflowVars
  BY <1>1, <1>8 DEF Submit, Execution, StartExecution, AudioConverted, FunctionError, TimeOut,
     FinalizerReturned, TimeOutEarly, ServiceError, FinalizerServiceError, Abort, workflowVars
<1> QED
  BY <1>1, <1>3, <1>4, <1>5, <1>6, <1>7, <1>8 DEF WorkflowNext

-----------------------------------------------------------------------------
(* The workflow's invariant is inductive on the store's                    *)

WorkflowStep ==
    /\ Bookkeeping /\ Bookkeeping'
    /\ Inv /\ Inv'
    /\ WorkflowInv
    /\ [WorkflowNext]_workflowVars

LEMMA WorkflowStepKeeps ==
    ASSUME WorkflowStep
    PROVE  /\ outcome[Evaluation] # NoValue => outcome'[Evaluation] = outcome[Evaluation]
           /\ \A s \in Step : output[Evaluation][s] # NoValue =>
                 output'[Evaluation][s] = output[Evaluation][s]
           /\ HasFailedStep => HasFailedStep'
           /\ outcome'[Evaluation] = "SUCCEEDED" => ~ HasFailedStep'
           /\ Doomed => Doomed'
           /\ logged \subseteq logged'
BY WorkflowStepsAreStoreSteps, StoreKeeps, LoggedMoves DEF WorkflowStep

\* Where a post's stage comes from.
LEMMA PostStages ==
    ASSUME WorkflowStep, NEW r \in Request, NEW p \in Post
    PROVE  /\ callback'[r][p] \in {"announcing", "resuming"} /\ callback[r][p] # callback'[r][p] =>
                 \/ StoreResult(r, p) /\ callback'[r][p] = "announcing"
                 \/ AnnounceResult(r, p) /\ callback'[r][p] = "resuming"
           /\ callback'[r][p] = "finalizing" /\ callback[r][p] # "finalizing" => Fails(r, p)
           /\ callback'[r][p] = "announcingFailure" /\ callback[r][p] # "announcingFailure" =>
                 FinalizeFailedCallback(r, p)
<1> USE DEF WorkflowStep, Bookkeeping, WorkflowTypeOK
<1> DEFINE Late == {"announcing", "resuming", "finalizing", "announcingFailure"}
<1> SUFFICES ASSUME callback'[r][p] # callback[r][p], callback'[r][p] \in Late
             PROVE  \/ StoreResult(r, p) /\ callback'[r][p] = "announcing"
                    \/ AnnounceResult(r, p) /\ callback'[r][p] = "resuming"
                    \/ Fails(r, p) /\ callback'[r][p] = "finalizing"
                    \/ FinalizeFailedCallback(r, p) /\ callback'[r][p] = "announcingFailure"
  OBVIOUS
<1>1. CallbackStepOf(r, p)
  BY CallbackMoves DEF FirstStage
<1>2. ASSUME NEW where, Answer(r, p, where) PROVE callback'[r][p] = where
  BY <1>2 DEF Answer
<1>3. CASE StoreResult(r, p)
  BY <1>2, <1>3 DEF StoreResult
<1>4. CASE AnnounceResult(r, p)
  BY <1>2, <1>4 DEF AnnounceResult
<1>5. CASE SendTaskSuccess(r, p) \/ RecordModelFailure(r, p) \/ AnnounceModelFailure(r, p)
  BY <1>2, <1>5 DEF SendTaskSuccess, RecordModelFailure, AnnounceModelFailure
<1>6. CASE SendTaskFailure(r, p)
  BY <1>2, <1>6 DEF SendTaskFailure, Fails
<1>7. CASE FinalizeFailedCallback(r, p)
  BY <1>2, <1>7 DEF FinalizeFailedCallback
<1> QED
  BY <1>1, <1>3, <1>4, <1>5, <1>6, <1>7 DEF CallbackStepOf

\* Where an invocation's stage comes from.
LEMMA InvocationStages ==
    ASSUME WorkflowStep, NEW i \in Invocation, invocation'[i] # invocation[i]
    PROVE  /\ invocation'[i] = "working" => AnnounceStart(i) /\ Emit(StartEvent[i[1]])
           /\ invocation'[i] = "completing" => invocation[i] = "working"
           /\ invocation'[i] = "announcingResult" => StoreAudio(i) /\ invocation[i] = "completing"
           /\ invocation'[i] = "ok" =>
                 \/ AnnounceAudio(i) /\ Emit(FinishEvent["audio"])
                    /\ invocation[i] = "announcingResult"
                 \/ RecordJob(i) /\ i \in Request /\ invocation[i] = "completing"
           /\ invocation'[i] = "announcingFailure" => RecordFailure(i)
<1> USE DEF WorkflowStep, Bookkeeping, WorkflowTypeOK
<1> DEFINE Goal ==
           /\ invocation'[i] = "working" => AnnounceStart(i) /\ Emit(StartEvent[i[1]])
           /\ invocation'[i] = "completing" => invocation[i] = "working"
           /\ invocation'[i] = "announcingResult" => StoreAudio(i) /\ invocation[i] = "completing"
           /\ invocation'[i] = "ok" =>
                 \/ AnnounceAudio(i) /\ Emit(FinishEvent["audio"])
                    /\ invocation[i] = "announcingResult"
                 \/ RecordJob(i) /\ i \in Request /\ invocation[i] = "completing"
           /\ invocation'[i] = "announcingFailure" => RecordFailure(i)
<1>1. CASE invocation'[i] \in {"error", "starting"}
  BY <1>1
<1>2. ASSUME NEW where, GoTo(i, where) PROVE invocation'[i] = where
  BY <1>2 DEF GoTo
<1>3. CASE StartStep(i)
  BY <1>2, <1>3 DEF StartStep
<1>4. CASE AnnounceStart(i)
  BY <1>2, <1>4 DEF AnnounceStart
<1>5. CASE RecordFailure(i) \/ AnnounceFailure(i)
  BY <1>2, <1>5 DEF RecordFailure, AnnounceFailure
<1>6. CASE Convert(i) \/ PostRequest(i)
  BY <1>2, <1>6 DEF Convert, PostRequest, At
<1>7. CASE StoreAudio(i)
  BY <1>2, <1>7 DEF StoreAudio, At
<1>8. CASE AnnounceAudio(i)
  BY <1>2, <1>8 DEF AnnounceAudio, At
<1>9. CASE i \in Request /\ RecordJob(i)
  BY <1>2, <1>9 DEF RecordJob, At
<1> QED
  BY <1>1, <1>3, <1>4, <1>5, <1>6, <1>7, <1>8, <1>9, InvocationMoves DEF InvocationStep

LEMMA ResultsAreStoredStep ==
    ASSUME WorkflowStep
    PROVE  ResultsAreStored'
<1> USE InputFacts DEF WorkflowStep, Bookkeeping, WorkflowInv
<1>1. ASSUME NEW a \in Attempt, invocation'[<<"audio", a>>] \in {"announcingResult", "ok"}
      PROVE  output'[Evaluation]["audio"] # NoValue
  <2>1. <<"audio", a>> \in Invocation /\ <<"audio", a>> \notin Request /\ "audio" \in Step
    BY DEF Step, Request, CallbackStep
  <2>2. CASE invocation[<<"audio", a>>] \in {"announcingResult", "ok"}
    BY <2>1, <2>2, WorkflowStepKeeps DEF ResultsAreStored
  <2>3. CASE StoreAudio(<<"audio", a>>) /\ invocation'[<<"audio", a>>] = "announcingResult"
    <3>1. CompleteAudioProcessing(Evaluation, AudioUri)
      BY <2>1, <2>3 DEF StoreAudio, GoTo, WorkflowTypeOK
    <3> QED
      BY <2>1, <3>1 DEF CompleteAudioProcessing, WorkflowTypeOK, TypeOK
  <2> QED
    BY <1>1, <2>1, <2>2, <2>3, InvocationStages
<1>2. ASSUME NEW r \in Request, NEW p \in Post, callback'[r][p] \in {"announcing", "resuming"}
      PROVE  output'[Evaluation][r[1]] = result'[r]
  <2>1. CASE callback[r][p] \in {"announcing", "resuming"}
    <3>1. output[Evaluation][r[1]] = result[r] /\ result[r] # NoValue /\ result'[r] = result[r]
      BY <2>1, ResultsStay DEF ResultsAreStored, PostsHaveResults
    <3> QED
      BY <3>1, WorkflowStepKeeps
  <2>2. CASE StoreResult(r, p) /\ callback'[r][p] = "announcing"
    <3>1. CompleteCallbackStep(Evaluation, r[1], TokenOf[r], JobId[r[1]], result[r])
          /\ result' = result
      BY <2>2 DEF StoreResult, Answer, WorkflowTypeOK
    <3> QED
      BY <3>1 DEF CompleteCallbackStep, WorkflowTypeOK, TypeOK
  <2> QED
    BY <1>2, <2>1, <2>2, PostStages DEF AnnounceResult, PostAt
<1> QED
  BY <1>1, <1>2 DEF ResultsAreStored

\* What a callback that resumes the execution carries.
LEMMA ResumingFacts ==
    ASSUME WorkflowStep, NEW r \in Request, NEW p \in Post, Resumes(r, p)
    PROVE  /\ callback[r][p] = "resuming" /\ state = r[1]
           /\ result[r] # NoValue /\ output[Evaluation][r[1]] = result[r]
           /\ output'[Evaluation][r[1]] = result[r]
           /\ EventsOf(r[1]) \subseteq logged
           /\ UNCHANGED logged
<1> USE InputFacts DEF WorkflowStep, Bookkeeping, WorkflowInv
<1>1. callback[r][p] = "resuming" /\ state = r[1] /\ UNCHANGED logged
  BY DEF Resumes, SendTaskSuccess, PostAt, Awaited, Current
<1>2. result[r] # NoValue /\ output[Evaluation][r[1]] = result[r]
  BY <1>1 DEF PostsHaveResults, ResultsAreStored
<1>3. job[r] = "done"
  BY <1>1 DEF JobsRunOnce
<1>4. EventsOf(r[1]) \subseteq logged
  BY <1>1, <1>3 DEF StepsAreAnnounced, EventsOf
<1> QED
  BY <1>1, <1>2, <1>4, WorkflowStepKeeps

\* Where the execution comes to a callback's step from.
LEMMA EntersCallbackStep ==
    ASSUME WorkflowStep, state' \in CallbackStep, state' # state
    PROVE  \/ /\ state' = "transcription" /\ state = "audio" /\ invocation[Current] = "ok"
              /\ UNCHANGED <<storeVars, logged, handed>>
           \/ /\ state' = "moderation"
              /\ \E r \in Request, p \in Post :
                    Resumes(r, p) /\ r[1] = "transcription" /\ handed' = result[r]
<1> USE OrderFacts DEF WorkflowStep, Bookkeeping
<1>1. AudioConverted \/ \E r \in Request, p \in Post : Resumes(r, p)
  <2>1. ~ (StartExecution \/ IsCatch \/ FinalizerReturned \/ FinalizerServiceError \/ Abort)
    BY DEF StartExecution, Invoke, IsCatch, FunctionError, TimeOut, TimeOutEarly, Catch, Finalize,
       FinalizerReturned, FinalizerServiceError, Abort, CallbackStep
  <2>2. ~ ServiceError
    BY DEF ServiceError, RetryOrCatch, Invoke, Catch, Finalize, CallbackStep
  <2>3. ASSUME NEW r \in Request, NEW p \in Post, Fails(r, p) PROVE FALSE
    BY <2>3 DEF Fails, SendTaskFailure, Catch, Finalize, CallbackStep
  <2> QED
    BY <2>1, <2>2, <2>3, ExecutionMoves DEF executionVars
<1>2. CASE AudioConverted
  BY <1>2 DEF AudioConverted, Invoke
<1>3. ASSUME NEW r \in Request, NEW p \in Post, Resumes(r, p)
      PROVE  state' = "moderation" /\ r[1] = "transcription" /\ handed' = result[r]
  BY <1>3 DEF Resumes, SendTaskSuccess, Resume, Invoke, Finalize, CallbackStep
<1> QED
  BY <1>1, <1>2, <1>3

LEMMA AdvancedStep ==
    ASSUME WorkflowStep
    PROVE  AdvancedOnStoredResults'
<1> USE InputFacts, OrderFacts DEF WorkflowStep, WorkflowInv
<1>1. ASSUME handed' # NoValue PROVE output'[Evaluation]["transcription"] = handed'
  <2>1. CASE handed' = handed
    BY <1>1, <2>1, WorkflowStepKeeps DEF AdvancedOnStoredResults
  <2>2. CASE handed' # handed
    BY <2>2, HandedMoves, ResumingFacts
  <2> QED
    BY <2>1, <2>2
<1>2. handed # NoValue => handed' # NoValue
  BY HandedMoves, ResumingFacts
<1>3. state' = "transcription" => output'[Evaluation]["audio"] # NoValue
  <2>1. CASE state = "transcription"
    BY <2>1, WorkflowStepKeeps DEF AdvancedOnStoredResults
  <2>2. CASE state = "audio" /\ invocation[Current] = "ok"
    <3>1. attempt \in Attempt
      BY DEF Bookkeeping, WorkflowTypeOK
    <3> QED
      BY <2>2, <3>1, WorkflowStepKeeps DEF Current, ResultsAreStored
  <2> QED
    BY <2>1, <2>2, EntersCallbackStep DEF CallbackStep
<1>4. state' = "moderation" => handed' # NoValue
  <2>1. CASE state = "moderation"
    BY <1>2, <2>1 DEF AdvancedOnStoredResults
  <2>2. CASE \E r \in Request, p \in Post : Resumes(r, p) /\ handed' = result[r]
    BY <2>2, ResumingFacts
  <2> QED
    BY <2>1, <2>2, EntersCallbackStep DEF CallbackStep
<1>5. ASSUME finalizer'["SUCCEEDED"] # "idle"
      PROVE  handed' # NoValue /\ output'[Evaluation]["moderation"] # NoValue
  <2>1. CASE finalizer["SUCCEEDED"] # "idle"
    BY <1>2, <2>1, WorkflowStepKeeps DEF AdvancedOnStoredResults
  <2>2. CASE finalizer["SUCCEEDED"] = "idle"
    <3>1. PICK r \in Request, p \in Post : Resumes(r, p) /\ r[1] = "moderation"
      BY <1>5, <2>2, FinalizerMoves
         DEF FinalizerStep, FinishEvaluation, AnnounceEnd, FinalizerCrash
    <3>2. handed # NoValue
      BY <3>1, ResumingFacts DEF AdvancedOnStoredResults
    <3> QED
      BY <1>2, <3>1, <3>2, ResumingFacts
  <2> QED
    BY <2>1, <2>2
<1> QED
  BY <1>1, <1>3, <1>4, <1>5 DEF AdvancedOnStoredResults

LEMMA FinalizerRecordsStep ==
    ASSUME WorkflowStep, NEW verdict \in {"SUCCEEDED", "FAILED"},
           finalizer'[verdict] \in {"announcing", "ok"}
    PROVE  outcome'[Evaluation] = verdict
<1> USE DEF WorkflowStep, Bookkeeping, WorkflowTypeOK, WorkflowInv, Inv
<1>1. CASE finalizer[verdict] \in {"announcing", "ok"}
  <2>1. outcome[Evaluation] = verdict /\ verdict # NoValue
    BY <1>1, NoValueAssumption DEF EndsAreRecorded
  <2> QED
    BY <2>1, WorkflowStepKeeps
<1>2. CASE finalizer[verdict] \notin {"announcing", "ok"}
  <2>1. FinishEvaluation(verdict) /\ finalizer'[verdict] # "error"
    BY <1>2, FinalizerMoves DEF FinalizerStep, AnnounceEnd
  <2> QED
    BY <2>1, FinishRecords DEF FinishEvaluation
<1> QED
  BY <1>1, <1>2

LEMMA ReconcilerRecordsStep ==
    ASSUME WorkflowStep, reconciler' \in {"announcing", "ok"}
    PROVE  outcome'[Evaluation] = OutcomeOf[state']
<1> USE InputFacts DEF WorkflowStep, Bookkeeping, WorkflowInv, Inv
<1>1. CASE reconciler \in {"announcing", "ok"}
  <2>1. outcome[Evaluation] = OutcomeOf[state] /\ OutcomeOf[state] \in Outcome /\ state' = state
    BY <1>1, StatesPass DEF EndsAreRecorded, ReconcilesAnEnd, OutcomeOf, Outcome, Terminal
  <2> QED
    BY <2>1, WorkflowStepKeeps
<1>2. CASE reconciler \notin {"announcing", "ok"}
  <2>1. ReconcileOutcome
    <3>1. ~ (Reconcile \/ AnnounceReconciled \/ ReconcilerCrash)
      BY <1>2 DEF Reconcile, AnnounceReconciled, ReconcilerCrash
    <3>2. reconciler' # reconciler
      BY <1>2
    <3>3. ASSUME NEW i \in Invocation, InvocationStep(i) \/ NeverRan(i) \/ Crash(i)
          PROVE  FALSE
      BY <3>2, <3>3 DEF InvocationStep, StartStep, AnnounceStart, RecordFailure, AnnounceFailure,
         Convert, StoreAudio, AnnounceAudio, PostRequest, RecordJob, NeverRan, Crash, endVars
    <3>4. ASSUME NEW r \in Request,
                 \/ RunModel(r) \/ LoseJob(r)
                 \/ \E p \in Post :
                       \/ PostAgain(r, p) \/ PostInParallel(r, p) \/ CallbackFails(r, p)
                       \/ CallbackStepOf(r, p)
          PROVE  FALSE
      BY <3>2, <3>4 DEF RunModel, LoseJob, PostAgain, PostInParallel, NextPost, CallbackFails,
         CallbackStepOf, StoreResult, AnnounceResult, SendTaskSuccess, RecordModelFailure,
         SendTaskFailure, FinalizeFailedCallback, AnnounceModelFailure, endVars
    <3>5. ~ (Submit \/ Execution \/ TimeOutEarly \/ ServiceError \/ FinalizerServiceError
             \/ Abort \/ UNCHANGED workflowVars)
      BY <3>2 DEF Submit, Execution, StartExecution, AudioConverted, FunctionError, TimeOut,
         FinalizerReturned, TimeOutEarly, ServiceError, FinalizerServiceError, Abort, endVars,
         workflowVars
    <3>6. ASSUME NEW verdict \in {"SUCCEEDED", "FAILED"},
                 FinalizerStep(verdict) \/ FinalizerCrash(verdict)
          PROVE  FALSE
      BY <3>2, <3>6 DEF FinalizerStep, FinishEvaluation, AnnounceEnd, FinalizerCrash
    <3> QED
      BY <3>1, <3>3, <3>4, <3>5, <3>6 DEF WorkflowNext, ReconcilerStep
  <2>2. state' = state
    BY <2>1 DEF ReconcileOutcome, executionVars
  <2> QED
    BY <2>1, <2>2, FinishRecords DEF ReconcileOutcome
<1> QED
  BY <1>1, <1>2

\* Once success is under way its worker has been invoked.
LEMMA SuccessIsFinalized ==
    ASSUME WorkflowStep
    PROVE  /\ finalizer["SUCCEEDED"] # "idle" => finalizer'["SUCCEEDED"] # "idle"
           /\ state' = "SUCCEEDED" => outcome'[Evaluation] # NoValue
           /\ state' = "FinalizeSuccess" => finalizer'["SUCCEEDED"] # "idle"
           /\ outcome'[Evaluation] = "SUCCEEDED" => finalizer'["SUCCEEDED"] # "idle"
<1> USE InputFacts, OrderFacts DEF WorkflowStep, Bookkeeping, WorkflowTypeOK, WorkflowInv
<1>1. finalizer["SUCCEEDED"] # "idle" => finalizer'["SUCCEEDED"] # "idle"
  <2>1. FinalizerStep("SUCCEEDED") => finalizer'["SUCCEEDED"] # "idle"
    BY DEF FinalizerStep, FinishEvaluation, AnnounceEnd
  <2> QED
    BY <2>1, FinalizerMoves
<1>2. state' = "SUCCEEDED" /\ state # "SUCCEEDED" => FinalizerReturned
  <2>1. ~ (StartExecution \/ AudioConverted \/ IsCatch \/ ServiceError)
        \/ state' \in Step \cup {"FinalizeFailure"}
    BY DEF StartExecution, AudioConverted, Invoke, IsCatch, FunctionError, TimeOut, TimeOutEarly,
       ServiceError, RetryOrCatch, Catch, Finalize
  <2>2. FinalizerServiceError \/ Abort => state' \in {"FAILED", "ABORTED"}
    BY DEF FinalizerServiceError, Abort
  <2>3. ASSUME NEW r \in Request, NEW p \in Post, Resumes(r, p) \/ Fails(r, p)
        PROVE  state' # "SUCCEEDED"
    BY <2>3 DEF Resumes, Fails, SendTaskSuccess, SendTaskFailure, Resume, Invoke, Catch, Finalize
  <2> QED
    BY <2>1, <2>2, <2>3, ExecutionMoves DEF executionVars, Terminal
<1>3. state' = "SUCCEEDED" => outcome'[Evaluation] # NoValue
  <2>1. CASE state = "SUCCEEDED"
    BY <2>1, WorkflowStepKeeps DEF EndsAreRecorded
  <2>2. CASE FinalizerReturned /\ state' = "SUCCEEDED"
    <3>1. outcome[Evaluation] \in {"SUCCEEDED", "FAILED"}
      BY <2>2 DEF FinalizerReturned, EndsAreRecorded
    <3> QED
      BY <3>1, NoValueAssumption, WorkflowStepKeeps
  <2> QED
    BY <1>2, <2>1, <2>2
<1>4. ASSUME state' = "FinalizeSuccess" PROVE finalizer'["SUCCEEDED"] # "idle"
  <2>1. CASE state = "FinalizeSuccess"
    BY <1>1, <2>1 DEF EndsAreRecorded
  <2>2. CASE state # "FinalizeSuccess"
    <3>1. ~ (StartExecution \/ AudioConverted \/ IsCatch \/ ServiceError)
          \/ state' \in Step \cup {"FinalizeFailure"}
      BY DEF StartExecution, AudioConverted, Invoke, IsCatch, FunctionError, TimeOut,
         TimeOutEarly, ServiceError, RetryOrCatch, Catch, Finalize
    <3>2. FinalizerServiceError \/ Abort \/ FinalizerReturned => state' # "FinalizeSuccess"
      BY DEF FinalizerServiceError, Abort, FinalizerReturned
    <3>3. ASSUME NEW r \in Request, NEW p \in Post, Resumes(r, p) \/ Fails(r, p)
          PROVE  finalizer'["SUCCEEDED"] # "idle"
      BY <1>4, <3>3 DEF Resumes, Fails, SendTaskSuccess, SendTaskFailure, Resume, Invoke, Catch,
         Finalize
    <3> QED
      BY <1>4, <2>2, <3>1, <3>2, <3>3, ExecutionMoves DEF executionVars
  <2> QED
    BY <2>1, <2>2
<1>5. ASSUME outcome'[Evaluation] = "SUCCEEDED" PROVE finalizer'["SUCCEEDED"] # "idle"
  <2>1. CASE outcome[Evaluation] = "SUCCEEDED"
    BY <1>1, <2>1 DEF EndsAreRecorded
  <2>2. CASE finalizer["SUCCEEDED"] = "finishing"
    BY <1>1, <2>2
  <2>3. CASE state = "SUCCEEDED" /\ outcome[Evaluation] = NoValue
    BY <2>3 DEF EndsAreRecorded
  <2>4. state \in Terminal /\ OutcomeOf[state] = "SUCCEEDED" => state = "SUCCEEDED"
    BY DEF Terminal, OutcomeOf
  <2> QED
    BY <1>5, <2>1, <2>2, <2>3, <2>4, ClosersAre
<1> QED
  BY <1>1, <1>3, <1>4, <1>5

LEMMA EndsAreRecordedStep ==
    ASSUME WorkflowStep
    PROVE  EndsAreRecorded'
<1> USE InputFacts, WorkflowStepKeeps
        DEF WorkflowStep, Bookkeeping, WorkflowTypeOK, WorkflowInv, Inv
<1>1. ASSUME NEW i \in Invocation, invocation'[i] = "announcingFailure" PROVE Doomed'
  <2>1. CASE invocation[i] = "announcingFailure"
    BY <2>1 DEF EndsAreRecorded
  <2>2. CASE RecordFailure(i)
    BY <1>1, <2>2, FailStepDooms DEF RecordFailure, GoTo
  <2> QED
    BY <1>1, <2>1, <2>2, InvocationStages
<1>2. ASSUME NEW r \in Request, NEW p \in Post, callback'[r][p] = "announcingFailure"
      PROVE  Doomed'
  <2>1. CASE callback[r][p] = "announcingFailure"
    BY <2>1 DEF EndsAreRecorded
  <2>2. CASE FinalizeFailedCallback(r, p)
    <3>1. outcome'[Evaluation] = "FAILED"
      BY <1>2, <2>2, FinishRecords DEF FinalizeFailedCallback, FinalizeCallback, Answer
    <3> QED
      BY <3>1 DEF Doomed, Failing
  <2> QED
    BY <1>2, <2>1, <2>2, PostStages
<1>3. ASSUME NEW event \in logged' \ logged, event \in Outcome
      PROVE  /\ event = "SUCCEEDED" => outcome'[Evaluation] = "SUCCEEDED"
             /\ event \in Failing => Doomed'
  <2>1. Told(event)
    BY <1>3, LoggedMoves
  <2>2. \A s \in Step : StartEvent[s] \notin Outcome /\ FinishEvent[s] \notin Outcome
    BY DEF StartEvent, FinishEvent, Outcome, Step, CallbackStep
  <2>3. ASSUME NEW i \in Invocation, AnnounceFailure(i) PROVE Doomed'
    BY <2>3 DEF AnnounceFailure, At, EndsAreRecorded
  <2>4. ASSUME NEW r \in Request, NEW p \in Post, AnnounceModelFailure(r, p) PROVE Doomed'
    BY <2>4 DEF AnnounceModelFailure, PostAt, EndsAreRecorded
  <2>5. ASSUME NEW verdict \in {"SUCCEEDED", "FAILED"}, AnnounceEnd(verdict)
        PROVE  outcome'[Evaluation] = verdict
    BY <2>5, NoValueAssumption DEF AnnounceEnd, EndsAreRecorded
  <2>6. AnnounceReconciled => outcome'[Evaluation] = OutcomeOf[state]
    <3>1. AnnounceReconciled => outcome[Evaluation] = OutcomeOf[state] /\ OutcomeOf[state] \in Outcome
      BY DEF AnnounceReconciled, EndsAreRecorded, ReconcilesAnEnd, OutcomeOf, Outcome, Terminal
    <3> QED
      BY <3>1
  <2>7. outcome'[Evaluation] \in Failing => Doomed'
    BY DEF Doomed
  <2>8. "audio" \in Step
    BY DEF Step
  <2> QED
    BY <1>3, <2>1, <2>2, <2>3, <2>4, <2>5, <2>6, <2>7, <2>8 DEF Told, Failing
<1>4. "SUCCEEDED" \in logged' => outcome'[Evaluation] = "SUCCEEDED"
  BY <1>3, NoValueAssumption DEF EndsAreRecorded, Outcome
<1>5. logged' \cap Failing # {} => Doomed'
  BY <1>3 DEF EndsAreRecorded, Outcome, Failing
<1> QED
  BY <1>1, <1>2, <1>4, <1>5, FinalizerRecordsStep, ReconcilerRecordsStep, SuccessIsFinalized
     DEF EndsAreRecorded

LEMMA NothingElseFailsStep ==
    ASSUME WorkflowStep
    PROVE  NothingElseFails'
<1> USE InputFacts, OrderFacts DEF WorkflowStep, Bookkeeping, WorkflowTypeOK, WorkflowInv
<1> DEFINE Hopeful == {"none", "FinalizeSuccess"} \cup Step
<1> SUFFICES ASSUME state' \in Hopeful
             PROVE  /\ finalizer'["FAILED"] = "idle"
                    /\ \A r \in Request, p \in Post :
                          callback'[r][p] \notin {"finalizing", "announcingFailure"}
                    /\ outcome'[Evaluation] \in Failing => HasFailedStep'
  BY DEF NothingElseFails
<1>1. state \in Hopeful
  <2>1. CASE UNCHANGED state
    BY <2>1
  <2>2. StartExecution \/ AudioConverted \/ IsCatch \/ ServiceError => state \in Hopeful
    BY DEF StartExecution, AudioConverted, IsCatch, FunctionError, TimeOut, TimeOutEarly,
       ServiceError
  <2>3. ~ (FinalizerReturned \/ FinalizerServiceError \/ Abort)
    BY DEF FinalizerReturned, FinalizerServiceError, Abort, Terminal
  <2>4. ASSUME NEW r \in Request, NEW p \in Post, Resumes(r, p) \/ Fails(r, p)
        PROVE  state \in Hopeful
    BY <2>4 DEF Resumes, Fails, Awaited, Current
  <2> QED
    BY <2>1, <2>2, <2>3, <2>4, ExecutionMoves DEF executionVars
<1>2. state' # "FinalizeFailure" /\ state \notin Terminal
  BY <1>1 DEF Terminal
<1>3. finalizer'["FAILED"] = "idle"
  BY <1>1, <1>2, FinalizerMoves
     DEF NothingElseFails, FinalizerStep, FinishEvaluation, AnnounceEnd, FinalizerCrash
<1>4. ASSUME NEW r \in Request, NEW p \in Post,
             callback'[r][p] \in {"finalizing", "announcingFailure"}
      PROVE  FALSE
  <2>1. callback[r][p] \notin {"finalizing", "announcingFailure"}
    BY <1>1 DEF NothingElseFails
  <2>2. ~ Fails(r, p)
    BY <1>2 DEF Fails, SendTaskFailure, Catch, Finalize
  <2>3. ~ FinalizeFailedCallback(r, p)
    BY <2>1 DEF FinalizeFailedCallback, PostAt
  <2> QED
    BY <1>4, <2>1, <2>2, <2>3, PostStages
<1>5. ASSUME outcome'[Evaluation] \in Failing PROVE HasFailedStep'
  <2>1. CASE outcome[Evaluation] \in Failing
    BY <1>1, <2>1, WorkflowStepKeeps DEF NothingElseFails
  <2>2. CASE outcome[Evaluation] \notin Failing
    <3>1. outcome'[Evaluation] # outcome[Evaluation]
      BY <1>5, <2>2
    <3>2. finalizer["FAILED"] = "idle" /\ \A r \in Request, p \in Post : callback[r][p] # "finalizing"
      BY <1>1 DEF NothingElseFails
    <3> QED
      BY <1>2, <1>5, <3>1, <3>2, ClosersAre DEF Failing
  <2> QED
    BY <2>1, <2>2
<1> QED
  BY <1>3, <1>4, <1>5

LEMMA InvocationsAreAnnounced ==
    ASSUME WorkflowStep
    PROVE  /\ \A i \in Invocation :
                 invocation'[i] \in {"working", "completing", "announcingResult", "ok"} =>
                     StartEvent[i[1]] \in logged'
           /\ \A a \in Attempt :
                 invocation'[<<"audio", a>>] = "ok" => FinishEvent["audio"] \in logged'
<1> USE InputFacts, WorkflowStepKeeps DEF WorkflowStep, WorkflowInv
<1>1. ASSUME NEW i \in Invocation,
             invocation'[i] \in {"working", "completing", "announcingResult", "ok"}
      PROVE  StartEvent[i[1]] \in logged'
  <2>1. CASE invocation[i] \in {"working", "completing", "announcingResult", "ok"}
    BY <2>1 DEF StepsAreAnnounced
  <2>2. CASE Emit(StartEvent[i[1]])
    BY <2>2 DEF Emit
  <2> QED
    BY <1>1, <2>1, <2>2, InvocationStages
<1>2. ASSUME NEW a \in Attempt, invocation'[<<"audio", a>>] = "ok"
      PROVE  FinishEvent["audio"] \in logged'
  <2>1. <<"audio", a>> \in Invocation /\ <<"audio", a>> \notin Request
    BY DEF Step, Request, CallbackStep
  <2>2. CASE invocation[<<"audio", a>>] = "ok"
    BY <2>2 DEF StepsAreAnnounced
  <2>3. CASE Emit(FinishEvent["audio"])
    BY <2>3 DEF Emit
  <2> QED
    BY <1>2, <2>1, <2>2, <2>3, InvocationStages
<1> QED
  BY <1>1, <1>2

LEMMA JobsAreAnnounced ==
    ASSUME WorkflowStep
    PROVE  /\ \A r \in Request : job'[r] # "none" => StartEvent[r[1]] \in logged'
           /\ \A r \in Request, p \in Post :
                 callback'[r][p] = "resuming" => FinishEvent[r[1]] \in logged'
<1> USE InputFacts, WorkflowStepKeeps DEF WorkflowStep, WorkflowInv
<1>1. ASSUME NEW r \in Request, job'[r] # "none" PROVE StartEvent[r[1]] \in logged'
  <2>1. CASE job[r] # "none"
    BY <2>1 DEF StepsAreAnnounced
  <2>2. CASE PostRequest(r)
    BY <2>2 DEF PostRequest, At, StepsAreAnnounced
  <2>3. CASE RunModel(r) \/ LoseJob(r)
    BY <2>1, <2>3 DEF RunModel, LoseJob
  <2> QED
    BY <1>1, <2>1, <2>2, <2>3, JobMoves
<1>2. ASSUME NEW r \in Request, NEW p \in Post, callback'[r][p] = "resuming"
      PROVE  FinishEvent[r[1]] \in logged'
  <2>1. CASE callback[r][p] = "resuming"
    BY <2>1 DEF StepsAreAnnounced
  <2>2. CASE AnnounceResult(r, p)
    <3>1. Emit(FinishEvent[r[1]])
      BY <1>2, <2>2 DEF AnnounceResult, Answer, Bookkeeping, WorkflowTypeOK
    <3> QED
      BY <3>1 DEF Emit
  <2> QED
    BY <1>2, <2>1, <2>2, PostStages
<1> QED
  BY <1>1, <1>2

LEMMA StepsAreAnnouncedStep ==
    ASSUME WorkflowStep
    PROVE  StepsAreAnnounced'
<1> USE InputFacts, OrderFacts, WorkflowStepKeeps DEF WorkflowStep, WorkflowInv
<1>1. state' \in CallbackStep => EventsOf("audio") \subseteq logged'
  <2>1. CASE state \in CallbackStep
    BY <2>1 DEF StepsAreAnnounced
  <2>2. CASE state = "audio" /\ invocation[Current] = "ok"
    <3>1. attempt \in Attempt
      BY DEF Bookkeeping, WorkflowTypeOK
    <3> QED
      BY <2>2, <3>1 DEF Current, StepsAreAnnounced, EventsOf
  <2>3. CASE \E r \in Request, p \in Post : Resumes(r, p)
    BY <2>1, <2>3, ResumingFacts
  <2> QED
    BY <2>1, <2>2, <2>3, EntersCallbackStep
<1>2. handed' # NoValue => EventsOf("audio") \cup EventsOf("transcription") \subseteq logged'
  <2>1. CASE handed # NoValue
    BY <2>1 DEF StepsAreAnnounced
  <2>2. ASSUME NEW r \in Request, NEW p \in Post, Resumes(r, p), r[1] = "transcription"
        PROVE  EventsOf("audio") \cup EventsOf("transcription") \subseteq logged'
    BY <2>2, ResumingFacts DEF StepsAreAnnounced
  <2> QED
    BY <2>1, <2>2, HandedMoves
<1>3. finalizer'["SUCCEEDED"] # "idle" => StepEvents \subseteq logged'
  <2>1. CASE finalizer["SUCCEEDED"] # "idle"
    BY <2>1 DEF StepsAreAnnounced
  <2>2. ASSUME NEW r \in Request, NEW p \in Post, Resumes(r, p), r[1] = "moderation"
        PROVE  StepEvents \subseteq logged'
    <3>1. EventsOf("moderation") \subseteq logged /\ state = "moderation"
      BY <2>2, ResumingFacts
    <3>2. handed # NoValue
      BY <3>1 DEF AdvancedOnStoredResults
    <3>3. EventsOf("audio") \cup EventsOf("transcription") \subseteq logged
      BY <3>2 DEF StepsAreAnnounced
    <3> QED
      BY <3>1, <3>3 DEF StepEvents, EventsOf, Step, CallbackStep
  <2> QED
    BY <2>1, <2>2, FinalizerMoves DEF FinalizerStep, FinishEvaluation, AnnounceEnd, FinalizerCrash
<1> QED
  BY <1>1, <1>2, <1>3, InvocationsAreAnnounced, JobsAreAnnounced DEF StepsAreAnnounced

LEMMA WorkflowInvInit == WorkflowInit => WorkflowInv
<1> SUFFICES ASSUME WorkflowInit PROVE WorkflowInv
  OBVIOUS
<1> USE InputFacts, OrderFacts DEF WorkflowInit
<1>1. outcome[Evaluation] = NoValue /\ step[Evaluation] = [s \in Step |-> "PENDING"]
  BY DEF Init
<1>2. ResultsAreStored /\ AdvancedOnStoredResults /\ StepsAreAnnounced
  BY DEF ResultsAreStored, AdvancedOnStoredResults, StepsAreAnnounced, CallbackStep
<1>3. EndsAreRecorded /\ NothingElseFails
  BY <1>1, NoValueAssumption DEF EndsAreRecorded, NothingElseFails, Failing
<1> QED
  BY <1>2, <1>3 DEF WorkflowInv

THEOREM WorkflowInvAlways == WorkflowSpec => []WorkflowInv
<1>1. WorkflowInv /\ [WorkflowNext]_workflowVars /\ Bookkeeping /\ Bookkeeping' /\ Inv /\ Inv'
          => WorkflowInv'
  <2> SUFFICES ASSUME WorkflowStep PROVE WorkflowInv'
    BY DEF WorkflowStep
  <2> QED
    BY ResultsAreStoredStep, AdvancedStep, EndsAreRecordedStep, NothingElseFailsStep,
       StepsAreAnnouncedStep DEF WorkflowInv
<1>2. WorkflowSpec => []Inv
  BY WorkflowUsesStore, InvInductive, PTL
<1> QED
  BY <1>1, <1>2, WorkflowInvInit, BookkeepingAlways, PTL DEF WorkflowSpec

-----------------------------------------------------------------------------
(* The properties                                                          *)

\* The execution leaves a step only when the step's result is stored, and
\* hands moderation the transcript that readers see.
THEOREM AdvancedOnStoredResultsAlways == WorkflowSpec => []AdvancedOnStoredResults
<1>1. WorkflowInv => AdvancedOnStoredResults
  BY DEF WorkflowInv
<1> QED
  BY <1>1, WorkflowInvAlways, PTL

\* An evaluation whose moderation is done: all its steps are complete.
LEMMA ModeratedMeansComplete ==
    ASSUME Inv, WorkflowInv, finalizer["SUCCEEDED"] # "idle"
    PROVE  step[Evaluation]["moderation"] = "COMPLETED" /\ ~ HasFailedStep
<1> USE InputFacts, OrderFacts DEF Inv, WorkflowInv
<1>1. step[Evaluation]["moderation"] = "COMPLETED"
  BY DEF AdvancedOnStoredResults, OutputsMatchSteps
<1>2. step[Evaluation]["transcription"] = "COMPLETED" /\ step[Evaluation]["audio"] = "COMPLETED"
  BY <1>1 DEF StepsInOrder
<1> QED
  BY <1>1, <1>2 DEF HasFailedStep, Step, CallbackStep

\* An evaluation that is about to succeed has not been closed by anybody else:
\* not by an invocation that failed late, nor by a callback.
THEOREM SuccessIsNotRefusedAlways == WorkflowSpec => []SuccessIsNotRefused
<1>1. Inv /\ WorkflowInv => SuccessIsNotRefused
  <2> SUFFICES ASSUME Inv, WorkflowInv, state = "FinalizeSuccess"
               PROVE  outcome[Evaluation] \in {NoValue, "SUCCEEDED"}
    BY DEF SuccessIsNotRefused
  <2>1. finalizer["SUCCEEDED"] # "idle"
    BY DEF WorkflowInv, EndsAreRecorded
  <2>2. outcome[Evaluation] \notin Failing
    BY <2>1, ModeratedMeansComplete DEF WorkflowInv, NothingElseFails
  <2>3. outcome[Evaluation] \in Outcome \cup {NoValue}
    BY InputFacts DEF Inv, TypeOK
  <2> QED
    BY <2>2, <2>3 DEF Outcome, Failing
<1> QED
  BY <1>1, WorkflowInvAlways, WorkflowUsesStore, InvInductive, PTL

\* No evaluation is recorded as a success without its moderation.
THEOREM SuccessIsModeratedAlways == WorkflowSpec => []SuccessIsModerated
<1>1. Inv /\ WorkflowInv => SuccessIsModerated
  BY ModeratedMeansComplete DEF WorkflowInv, EndsAreRecorded, SuccessIsModerated
<1> QED
  BY <1>1, WorkflowInvAlways, WorkflowUsesStore, InvInductive, PTL

\* No subscriber is told of success and of another end, and success is told
\* only when it is recorded.
THEOREM VerdictsExcludeAlways == WorkflowSpec => []VerdictsExclude
<1>1. WorkflowInv /\ Inv => VerdictsExclude
  <2> SUFFICES ASSUME WorkflowInv, "SUCCEEDED" \in logged
               PROVE  outcome[Evaluation] = "SUCCEEDED" /\ logged \cap Failing = {}
    BY DEF VerdictsExclude, Failing
  <2>1. outcome[Evaluation] = "SUCCEEDED"
    BY DEF WorkflowInv, EndsAreRecorded
  <2>2. ~ Doomed
    BY <2>1, NoValueAssumption DEF Doomed, Failing
  <2> QED
    BY <2>1, <2>2 DEF WorkflowInv, EndsAreRecorded
<1> QED
  BY <1>1, WorkflowInvAlways, WorkflowUsesStore, InvInductive, PTL

\* Who replays the log of a success finds every stage in it.
THEOREM SuccessIsFullyAnnouncedAlways == WorkflowSpec => []SuccessIsFullyAnnounced
<1>1. WorkflowInv => SuccessIsFullyAnnounced
  BY DEF WorkflowInv, EndsAreRecorded, StepsAreAnnounced, SuccessIsFullyAnnounced
<1> QED
  BY <1>1, WorkflowInvAlways, PTL

=============================================================================
