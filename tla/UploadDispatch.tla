------------------------------ MODULE UploadDispatch ------------------------------
(***************************************************************************)
(* The upload confirmation Lambda (confirm-upload-lambda) over the task     *)
(* store: each S3 notification of an uploaded object is delivered to one    *)
(* invocation after the other until one returns Ok, and starts the          *)
(* evaluation's Step Functions execution.  Notifications may be duplicated, *)
(* their invocations overlap, and an invocation may end between any two of  *)
(* its calls.                                                               *)
(*                                                                          *)
(* Outside the Lambda, and modelled from how it is used: Step Functions     *)
(* (StartExecution is idempotent by name while the execution runs), S3 and  *)
(* Lambda's asynchronous retries, and the running workflow, which may move  *)
(* the task in any way the store allows once its execution exists.          *)
(***************************************************************************)
EXTENDS PipelineTaskStore

CONSTANTS
    Notification,   \* S3 notifications, duplicates included
    TaskOf,         \* the task that was created for a notification's object
    ArnOf,          \* the execution ARN derived from a task's evaluation id
    MaxDeliveries,  \* invocations Lambda makes for one notification
    MaxFaults       \* bound: faults, failed requests and lost answers in all

ASSUME UploadAssumption ==
    /\ TaskOf \in [Notification -> Task]
    /\ ArnOf \in [Task -> Arn]
    /\ MaxDeliveries \in Nat
    /\ MaxFaults \in Nat

VARIABLES
    reviewStatus,   \* review_jobs.status of the task's review
    execution,      \* the task's Step Functions execution
    stage,          \* where the notification's invocation is
    deliveries,     \* invocations made for the notification
    seenArn,        \* the execution_arn the invocation read
    seenStatus,     \* the task status it read
    attempt,        \* the dispatch attempt it claimed last
    faults

reviewVars == <<reviewStatus, execution>>
handlerVars == <<stage, deliveries, seenArn, seenStatus, attempt, faults>>
uploadVars == <<storeVars, reviewVars, handlerVars>>

ReviewStatus == {"AWAITING_UPLOAD", "PENDING_PROCESSING", "PROCESSING", "COMPLETED", "ERROR"}

ExecutionStatus == {"none", "running", "ended"}

\* The stages between claim_dispatch and the release of the lease.
Dispatching == {"describing", "starting", "recording", "dispatchFailed"}

Running == {"readingRow", "readingStatus", "marking", "emitting", "claiming", "closing",
            "settling"} \cup Dispatching

Stage == {"waiting", "done"} \cup Running

Failing == {"FAILED", "TIMED_OUT", "CANCELLED"}

UploadInit ==
    /\ Init
    /\ reviewStatus = [t \in Task |-> "AWAITING_UPLOAD"]
    /\ execution = [t \in Task |-> "none"]
    /\ stage = [n \in Notification |-> "waiting"]
    /\ deliveries = [n \in Notification |-> 0]
    /\ seenArn = [n \in Notification |-> NoValue]
    /\ seenStatus = [n \in Notification |-> "PENDING"]
    /\ attempt = [n \in Notification |-> 0]
    /\ faults = 0

At(n, s) == stage[n] = s

GoTo(n, s) == stage' = [stage EXCEPT ![n] = s]

\* The invocation ends with an error: Lambda delivers the notification again.
Return(n) == GoTo(n, "waiting")

-----------------------------------------------------------------------------
(* The notification's invocations                                          *)

\* Fault: a retry may come while its own lease is still held.
CanDeliverEarly(n) ==
    /\ At(n, "waiting")
    /\ deliveries[n] < MaxDeliveries
    /\ TaskOf[n] \in created

\* An object can only be uploaded to the URL that create_or_get_review led to.
\* A retry comes a minute later: the lease this notification took has expired.
CanDeliver(n) ==
    /\ At(n, "waiting")
    /\ deliveries[n] < MaxDeliveries
    /\ TaskOf[n] \in created
    /\ dispatchLease[TaskOf[n]] = "held" => attempt[n] # attemptCount[TaskOf[n]]

Deliver(n) ==
    /\ CanDeliver(n)
    /\ deliveries' = [deliveries EXCEPT ![n] = @ + 1]
    /\ attempt' = [attempt EXCEPT ![n] = 0]
    /\ GoTo(n, "readingRow")
    /\ UNCHANGED <<storeVars, reviewVars, seenArn, seenStatus, faults>>

Fault ==
    /\ faults < MaxFaults
    /\ faults' = faults + 1

\* A call to the store fails, the ten second timeout passes, or the process ends.
Crash(n) ==
    /\ stage[n] \in Running
    /\ Fault
    /\ Return(n)
    /\ UNCHANGED <<storeVars, reviewVars, deliveries, seenArn, seenStatus, attempt>>

\* get_by_review_job reads the row, and only then locks it for the status.
ReadRow(n) ==
    /\ At(n, "readingRow")
    /\ seenArn' = [seenArn EXCEPT ![n] = executionArn[TaskOf[n]]]
    /\ GoTo(n, "readingStatus")
    /\ UNCHANGED <<storeVars, reviewVars, deliveries, seenStatus, attempt, faults>>

ReadStatus(n) ==
    /\ At(n, "readingStatus")
    /\ seenStatus' = [seenStatus EXCEPT ![n] = Status(TaskOf[n])]
    /\ GoTo(n, "marking")
    /\ UNCHANGED <<storeVars, reviewVars, deliveries, seenArn, attempt, faults>>

MarkUploadComplete(n) ==
    /\ At(n, "marking")
    /\ reviewStatus' = [reviewStatus EXCEPT ![TaskOf[n]] =
                           IF @ = "AWAITING_UPLOAD" THEN "PENDING_PROCESSING" ELSE @]
    /\ GoTo(n, "emitting")
    /\ UNCHANGED <<storeVars, execution, deliveries, seenArn, seenStatus, attempt, faults>>

\* UPLOAD_RECEIVED is recorded; from here on the invocation goes by what it read.
EmitUploadReceived(n) ==
    /\ At(n, "emitting")
    /\ GoTo(n, IF seenStatus[n] \in Outcome \/ seenArn[n] # NoValue
               THEN "settling" ELSE "claiming")
    /\ UNCHANGED <<storeVars, reviewVars, deliveries, seenArn, seenStatus, attempt, faults>>

\* The first attempt starts the execution, a later one looks for it first.
Claim(n) ==
    /\ At(n, "claiming")
    /\ ClaimDispatch(TaskOf[n])
    /\ attempt' = [attempt EXCEPT ![n] = attemptCount'[TaskOf[n]]]
    /\ GoTo(n, IF attempt'[n] > 1 THEN "describing" ELSE "starting")
    /\ UNCHANGED <<reviewVars, deliveries, seenArn, seenStatus, faults>>

\* DispatchNotReady.
ClaimRefused(n) ==
    /\ At(n, "claiming")
    /\ ~ CanClaimDispatch(TaskOf[n])
    /\ Return(n)
    /\ UNCHANGED <<storeVars, reviewVars, deliveries, seenArn, seenStatus, attempt, faults>>

\* Fault: any answer of DescribeExecution counts as the execution being there.
DescribeAssumingFound(n) ==
    /\ At(n, "describing")
    /\ GoTo(n, "recording")
    /\ UNCHANGED <<storeVars, reviewVars, deliveries, seenArn, seenStatus, attempt, faults>>

DescribeExecution(n) ==
    /\ At(n, "describing")
    /\ \/ /\ GoTo(n, IF execution[TaskOf[n]] # "none" THEN "recording" ELSE "starting")
          /\ UNCHANGED faults
       \/ Fault /\ GoTo(n, "dispatchFailed")
    /\ UNCHANGED <<storeVars, reviewVars, deliveries, seenArn, seenStatus, attempt>>

\* An execution that has ended keeps its name and is not started again.
RefuseStart(n) ==
    /\ execution[TaskOf[n]] = "ended"
    /\ GoTo(n, "dispatchFailed")
    /\ UNCHANGED <<execution, faults>>

Start(n) ==
    /\ execution[TaskOf[n]] # "ended"
    /\ execution' = [execution EXCEPT ![TaskOf[n]] = "running"]

\* The request may fail before it has an effect, or its answer may be lost.
StartExecution(n) ==
    /\ At(n, "starting")
    /\ \/ Start(n) /\ GoTo(n, "recording") /\ UNCHANGED faults
       \/ (Start(n) \/ UNCHANGED execution) /\ Fault /\ GoTo(n, "dispatchFailed")
       \/ RefuseStart(n)
    /\ UNCHANGED <<storeVars, reviewStatus, deliveries, seenArn, seenStatus, attempt>>

RecordStarted(n) ==
    /\ At(n, "recording")
    /\ \/ /\ RecordExecution(TaskOf[n], ArnOf[TaskOf[n]])
          /\ GoTo(n, "settling")
       \/ /\ ~ CanRecordExecution(TaskOf[n], ArnOf[TaskOf[n]])
          /\ Return(n)
          /\ UNCHANGED storeVars
    /\ UNCHANGED <<reviewVars, deliveries, seenArn, seenStatus, attempt, faults>>

\* The invocation returns DispatchFailed; the third time it first closes the review.
RecordNotStarted(n) ==
    /\ At(n, "dispatchFailed")
    /\ \/ /\ RecordDispatchFailure(TaskOf[n])
          /\ GoTo(n, IF outcome'[TaskOf[n]] = "FAILED" THEN "closing" ELSE "waiting")
       \/ /\ ~ CanRecordDispatchFailure(TaskOf[n])
          /\ Return(n)
          /\ UNCHANGED storeVars
    /\ UNCHANGED <<reviewVars, deliveries, seenArn, seenStatus, attempt, faults>>

UpdateReview(n, status) == reviewStatus' = [reviewStatus EXCEPT ![TaskOf[n]] = status]

CloseReview(n) ==
    /\ At(n, "closing")
    /\ UpdateReview(n, "ERROR")
    /\ Return(n)
    /\ UNCHANGED <<storeVars, execution, deliveries, seenArn, seenStatus, attempt, faults>>

\* Fault: any outcome that was read counts as success.
VerdictOnAnyOutcome(status) == IF status \in Outcome THEN "COMPLETED" ELSE "PROCESSING"

Verdict(status) ==
    IF status \in Failing THEN "ERROR"
    ELSE IF status = "SUCCEEDED" THEN "COMPLETED"
    ELSE "PROCESSING"

\* update_status writes whatever the row holds by now.
Settle(n) ==
    /\ At(n, "settling")
    /\ UpdateReview(n, Verdict(seenStatus[n]))
    /\ GoTo(n, "done")
    /\ UNCHANGED <<storeVars, execution, deliveries, seenArn, seenStatus, attempt, faults>>

HandlerStep(n) ==
    \/ ReadRow(n) \/ ReadStatus(n) \/ MarkUploadComplete(n) \/ EmitUploadReceived(n)
    \/ Claim(n) \/ ClaimRefused(n) \/ DescribeExecution(n) \/ StartExecution(n)
    \/ RecordStarted(n) \/ RecordNotStarted(n) \/ CloseReview(n) \/ Settle(n)

-----------------------------------------------------------------------------
(* Around the Lambda                                                       *)

\* Fault: the lease is shorter than an invocation may take.
CanExpireEarly(t) == dispatchLease[t] = "held"

\* An invocation has ten seconds, the lease lasts thirty.
CanExpire(t) ==
    \A n \in Notification :
       TaskOf[n] = t /\ stage[n] \in Dispatching => attempt[n] # attemptCount[t]

Expire(t) ==
    /\ CanExpire(t)
    /\ LeaseExpires(t)
    /\ UNCHANGED <<reviewVars, handlerVars>>

Submit(t) ==
    /\ CreateTask(t)
    /\ UNCHANGED <<reviewVars, handlerVars>>

\* The workflow, its workers and callbacks work on the task.
Evaluate(t) ==
    /\ execution[t] # "none"
    /\ \/ StartAudioProcessing(t)
       \/ \E uri \in Value : CompleteAudioProcessing(t, uri)
       \/ \E s \in CallbackStep, token \in Token : StartCallbackStep(t, s, token)
       \/ \E s \in CallbackStep, token \in Token, id \in ExternalId, value \in Value :
             CompleteCallbackStep(t, s, token, id, value)
       \/ \E a \in callbackAttempts : a.task = t /\ RecordCallbackFailure(a, NoValue)
       \/ \E s \in Step, error \in ErrorCode : FailStep(t, s, error)
       \/ \E result \in Outcome : FinishWorkflow(t, result, NoValue)
    /\ UNCHANGED <<reviewVars, handlerVars>>

EndExecution(t) ==
    /\ execution[t] = "running"
    /\ execution' = [execution EXCEPT ![t] = "ended"]
    /\ UNCHANGED <<storeVars, reviewStatus, handlerVars>>

UploadNext ==
    \/ \E n \in Notification : Deliver(n) \/ Crash(n) \/ HandlerStep(n)
    \/ \E t \in Task : Submit(t) \/ Expire(t) \/ Evaluate(t) \/ EndExecution(t)

UploadSpec == UploadInit /\ [][UploadNext]_uploadVars

\* Lambda delivers what it accepted, an invocation that does not crash goes on,
\* and time passes.
UploadFairness ==
    /\ \A n \in Notification : WF_uploadVars(Deliver(n)) /\ WF_uploadVars(HandlerStep(n))
    /\ \A t \in Task : WF_uploadVars(Expire(t))

FairUploadSpec == UploadSpec /\ UploadFairness

-----------------------------------------------------------------------------
(* Properties                                                              *)

\* Every variable of the Lambda holds a value of its type.
UploadTypeOK ==
    /\ TypeOK
    /\ reviewStatus \in [Task -> ReviewStatus]
    /\ execution \in [Task -> ExecutionStatus]
    /\ stage \in [Notification -> Stage]
    /\ deliveries \in [Notification -> 0 .. MaxDeliveries]
    /\ seenArn \in [Notification -> Arn \cup {NoValue}]
    /\ seenStatus \in [Notification -> Outcome \cup {"PENDING",
                          "STARTED_AUDIO_PROCESSING", "AUDIO_PROCESSING_FINISHED",
                          "STARTED_ASR", "ASR_FINISHED",
                          "STARTED_MODERATION_PROCESSING", "MODERATION_PROCESSING_FINISHED"}]
    /\ attempt \in [Notification -> 0 .. DispatchLimit]
    /\ faults \in 0 .. MaxFaults

\* The lease is a mutual exclusion between overlapping invocations: whoever is
\* between claim_dispatch and the release of its lease owns the last attempt.
DispatchersExclude ==
    \A n, m \in Notification :
       /\ stage[n] \in Dispatching /\ stage[m] \in Dispatching
       /\ TaskOf[n] = TaskOf[m]
       => n = m

\* What is recorded or shown as running was started: no lost, failed or
\* misread answer of Step Functions passes for an execution.
ShownExecutionsExist ==
    \A t \in Task :
       executionArn[t] # NoValue \/ reviewStatus[t] = "PROCESSING" => execution[t] # "none"

\* The review's verdict, written from what an invocation read earlier, is the
\* task's: COMPLETED only after success, ERROR only for a task that can no
\* longer succeed.
VerdictsAreTrue ==
    \A t \in Task :
       /\ reviewStatus[t] = "COMPLETED" => outcome[t] = "SUCCEEDED"
       /\ reviewStatus[t] = "ERROR" => Status(t) \in Failing

Rank == [AWAITING_UPLOAD |-> 0, PENDING_PROCESSING |-> 1, PROCESSING |-> 2,
         COMPLETED |-> 3, ERROR |-> 3]

\* What the doc of mark_upload_complete says of repeated notifications: the
\* review's status does not move backwards.
ReviewNeverMovesBack ==
    [][\A t \in Task : Rank[reviewStatus'[t]] >= Rank[reviewStatus[t]]]_uploadVars

\* As long as no more than two things go wrong on the way, an uploaded object's
\* evaluation is started and recorded, or over: the last delivery finds a free
\* lease, an attempt left, and the execution its predecessors may have started.
UploadsAreSettled ==
    \A t \in Task :
       (t \in created /\ \E n \in Notification : TaskOf[n] = t)
          ~> (executionArn[t] # NoValue \/ Status(t) \in Outcome)

=============================================================================
