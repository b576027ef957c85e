# Formal models of the audio moderation backend

This directory holds TLA+ models of the program in the repository: what its
components keep, what every operation does to it, how their steps interleave,
and what must hold throughout. TLC checks the models on small instances; TLAPS
proves the most important properties for every value of the constants.

    tlc -workers 2 -config PipelineTaskStore_one.cfg MCPipelineTaskStore.tla
    tlapm UploadDispatch_proofs.tla

`PROJECT.json` lists the components, runs, theorems, the source lines every
definition stands for, the hazards of the code, and for each property a faulty
variant of a definition that the property catches. The faulty variants stand
next to the definition they vary, under a comment that begins with "Fault:".

## The system

A browser submits a review, uploads an audio file to S3, and watches the
evaluation. S3 notifies the upload confirmation Lambda, which starts a Step
Functions execution. The workflow stitches the audio in a Lambda, then asks the
transcription and the moderation service for their results. Both answer by a
callback that carries a task token. PostgreSQL is the shared state of all of
them, and event names are sent to subscribed WebSockets.

| Component | State | Operations | Works with |
|---|---|---|---|
| Pipeline task store (`database/src/pipeline_task_store.rs`) | task row (outcome, execution ARN, dispatch lease, attempt count), three step rows, callback tokens | about twenty transactions, each locking the task row first | every Lambda below |
| Review job store (`review_job_store.rs`) | `review_jobs.status`, access token hash | create, mark_upload_complete, update_status, reads | submission, upload confirmation |
| Upload confirmation (`confirm-upload-lambda`) | none between invocations | handle one S3 notification | both stores, Step Functions, events |
| Audio stitching (`audio-processing-lambda/src/lib.rs`, `stitcher.rs`) | temporary files of an invocation, the artifact in S3 | download, stitch with ffmpeg, upload, record | S3, task store |
| Evaluation workflow (`terraform/evaluation-workflow.tf`, `audio-processing-lambda`, `transcription-caller-lambda`, `moderation-caller-lambda`) | the state of the execution | convert, request transcription, request moderation, finalize; retries and catches; reconciliation by EventBridge | task store, model services, events |
| Task callbacks (`task-callback-lambda`) | none | success of either step, failure | task store, Step Functions, events |
| Task events (`task-event-emitter`, `task-events-lambda`, the event, ticket and connection stores) | event log, connections, single-use tickets | emit, subscribe and replay, disconnect | all of the above, browsers |
| Model services (`models/src/socialguard_models`) | schedule per job id with a lease, running jobs | accept a job once, dispatch, call back with retries | callers, callbacks |
| Submission (`submit-audio-lambda`) | none | submit, read, hand out tickets | both stores, Turnstile, S3 |
| Start evaluation (`start-evaluation-lambda`) | none | read an evaluation, hand out a ticket | task store, ticket store |
| Browser client (`ui/src`) | reducer state, stored submissions | start, resume, frames, polling | submission, events |

What is hard about it:

* **Concurrency.** Duplicate notifications, Lambda's and Step Functions'
  retries, callbacks and the terminal reconciliation work on one task without
  coordination other than row locks and conditional updates.
* **Failure.** A Lambda may end between any two calls, so each handler must be
  repeatable from the start, with what its predecessor left behind.
* **Ordering.** Answers of the model services race the caller that asked;
  results, failures and the end of the workflow arrive in any order.
* **Stale reads.** The upload handler decides by what it read at its start; the
  callers of the services hold tokens of attempts that may be over.
* **Time.** The dispatch lease (30 s), an invocation (10 s) and Lambda's retry
  (1 min and more) only work together in this order.

What makes each part correct: the store never contradicts itself whatever is
called (`PipelineTaskStore`); readers see a lifecycle that only moves forward
(`TaskLifecycle`); an upload leads to one execution that is recorded in the end,
and to a true verdict (`UploadDispatch`); the workflow goes on only with stored
results, and it and the task end alike (`EvaluationWorkflow`); the artifact they
are computed from plays the uploads in order, whichever invocation made it
(`AudioConversion`); no event slips
between a subscription and its replay, and a ticket admits once (`TaskEvents`); a
job id is worked on once per lease and answered (`ModelScheduling`); a submission
creates one paid review whatever is retried, and shows it to its bearer only
(`SubmitReview`); the page says of an evaluation only what is true of it
(`EvaluationClient`).

## Modules

### PipelineTaskStore

The store with all its operations. Every public operation is a transaction that
begins with a lock of the task row, so it is one action. An operation that
returns `Ok` is the action `Op`, guarded by `CanOp`; where `CanOp` is false the
operation returns an error and changes nothing. Any caller may call any
operation at any time, which is more than the program does and makes what holds
here hold for every composition with callers.

| Model | Code |
|---|---|
| `created`, `outcome`, `executionArn`, `dispatchLease`, `attemptCount` | the row of `pipeline_tasks`; the lease is `dispatch_started_at` against the clock: free (NULL), held, expired |
| `step`, `output`, `stepError`, `externalId` | the rows of the three step tables |
| `callbackAttempts` | `pipeline_callback_attempts`; a token stands for its digest |
| `Status` | `PipelineStepState::status` |
| `ClaimDispatch`, `RecordDispatchFailure`, `RecordExecution`, `LeaseExpires` | `claim_dispatch`, `record_dispatch_failure`, `record_execution`, the passing of the lease |
| `StartAudioProcessing`, `CompleteAudioProcessing` | the functions of these names |
| `StartCallbackStep` | `start_asr`, `start_moderation` |
| `RecordExternalId`, `CompleteCallbackStep` | `record_asr_task`, `complete_asr` and their moderation counterparts |
| `RecordCallbackFailure`, `FailStep` | `record_callback_failure`; `fail_audio_processing`, `fail_asr_request`, `fail_moderation_request` |
| `FinishWorkflow`, `FinalizeCallback` | `finish_workflow`, `finalize_*` |

Where transcription and moderation do the same to their rows, one action with
the step as its parameter stands for both. Timestamps, the inputs of a task,
tenants and the fixture operations are left out. A result is one value: the
artifact's URI, the transcript, or the five scores.

### TaskLifecycle

What the store promises its readers, in terms of the status, the results and
whether the outcome is final: `Begin`, `End`, `BreakOff`, `Succeed`, `Fail`. The
store implements it under `status <- Status`, `closed <-` the tasks with an
outcome, `result <- output`. It shows that the derived status moves along the
pipeline, one stage at a time. It also shows what a reader may be surprised by:
`BreakOff` shows FAILED while the outcome is open, and `Fail` may then turn it
into TIMED_OUT or CANCELLED.

### UploadDispatch

The confirmation Lambda over the store: one or more notifications, each
delivered until an invocation returns `Ok`, at most `MaxDeliveries` times. An
invocation's position is `stage`; every call to a store or to Step Functions is
a step. `Crash` may end it before any of them (a timeout, a failed call, the end
of the process). What the invocation has read is kept in `seenArn` and
`seenStatus`, since it goes by that to its end. `get_by_review_job` is two steps:
it reads the row before it locks it for the status.

Outside the Lambda: `execution` is the execution whose name is derived from the
evaluation id. StartExecution is idempotent while it runs and refused once it
has ended. A request may fail before it has an effect, or its answer may be
lost. `Evaluate` lets the workflow and its workers make any transition of the
store once the execution exists. `Expire` is the lease's end: not while its
owner runs (`CanExpire`: 10 s against 30 s), and before the owner's own retry
(`CanDeliver`: Lambda waits a minute).

Left out: `head_object`, the check of columns that never change, and
notifications with several records (the handler treats them one after the other;
an error ends the invocation and all of them are delivered again).

### EvaluationWorkflow

One execution over the store: the state machine of `evaluation-workflow.tf`, the
audio worker, the two callers, the model services' jobs, the callback Lambda, and
the reconciliation by EventBridge. Every call that changes state is a step, and
`Crash`, `CallbackFails`, `FinalizerCrash` and `ReconcilerCrash` may end a Lambda
before any of them.

| Model | Code |
|---|---|
| `state`, `attempt`, `handed` | the execution's state, its retry count, `$.transcriptionResult` |
| `invocation` (by step and attempt) | where a Lambda invocation is: an attempt the execution has given up on may still run |
| `StartStep`, `AnnounceStart`, `Convert`, `StoreAudio`, `AnnounceAudio`, `RecordFailure`, `AnnounceFailure` | the audio worker (`audio-processing-lambda/src/lib.rs`); `PostRequest`, `RecordJob` and the shared ones: the callers |
| `job`, `result`, `RunModel`, `LoseJob`, `NextPost` | `process_model` and `post_callback` of the model services; the token of a request goes with its job |
| `callback` (by request and post), `StoreResult` ... `AnnounceModelFailure` | an invocation of the callback Lambda for each post; the answers "unavailable" and "refused" decide whether the service posts again |
| `ServiceError`, `FunctionError`, `TimeOut`, `TimeOutEarly`, `Abort` | Retry, Catch, TimeoutSeconds, an operator |
| `finalizer`, `FinishEvaluation`, `AnnounceEnd` | the worker in FinalizeSuccess and FinalizeFailure |
| `reconciler`, `ReconcileOutcome`, `AnnounceReconciled` | the worker invoked by the terminal rule |
| `logged` | the names of the events in the evaluation's log |

`TimeOut` is guarded by `Quiet`: an hour is longer than everything that could
still call back. `TimeOutEarly` is the same without the guard, and a fault. The
fan-out of an event to sockets is the subject of `TaskEvents`, dispatch that of
`UploadDispatch`; here an execution starts once.

### AudioConversion

The audio worker between its transactions, for the files of one execution input:
`Valid` is `validate_input`, `Download` the loop over the files in the order they are
listed, `Stitch` the sort by (sequence, segment id), `concat_filter` and ffmpeg with
`-xerror`, `Upload` the put under the output key, `Record` the transaction. Several
invocations overlap: Step Functions retries one whose answer is lost, and Lambda may
still be running it. A caller may put another file under an upload URL, as long as the URL
lasts (`Put`). Any call may fail, before or after it had an effect; `Killed` is the
Lambda's timeout. An audio file is the content it holds, a WAV the sequence of the
contents it plays. An input that names no S3 location, for a file or for the artifact,
is an error like a job id that is no number or a transaction that is refused (`Begin`).
`confirm-upload-lambda` sends one file, number 0; that several are played in the order
of their numbers is the worker's own contract. `EvaluationWorkflow` has all of this as the step `Convert`, and the
transactions that are only allowed or refused here.

### EventStream and TaskEvents

`TaskEvents` is the log, the tickets, the connection rows, `emit`, `subscribe` with
its replay, and `$disconnect`, each query and each post a step. `socket` is the
WebSocket itself, `received` what it was sent. A repeated emission is another
member of `Emission`. `SharedTicket` lets two connections present one ticket and
one connection two.

`EventStream` is what a socket promises its client: attached to one task's stream
until it is closed, and every frame from there. A frame carries a name and no
task, so a client could not tell two streams apart. `ShowsOneStream` is the
refinement.

### JobSchedule and ModelScheduling

`ModelScheduling` is `schedule_idempotently` for the requests of one key: the claim
lock, the reads and writes of the Dict, the spawn, the record of it, the rounds of
waiting for another's claim. A lease is named by the round that took it, and
`lapsed` is the set of those that are over; a dispatch that outlasts its own lease
is a fault. A record may be new, legacy (a plain id) or unreadable. One key is
enough, since keys share nothing. The API runs in one container
(`max_containers=1`), so there is one lock; two containers that overlap during a
deployment and the Dict's own expiry of old entries are not modelled.

`JobSchedule` is the promise: the key's id never changes, whoever is told that the
job is queued is told that id, and not before it was handed to a worker.

### SubmitReview

`submit_review` for concurrent requests: the lookup of the key in its two queries,
the Turnstile verification, the transaction that makes review and task, the
lookup after a lost race, the head of the object, the URL. Every call may fail;
uploads and their confirmation happen in between. `before` and `creator` are
history variables that no guard reads.

### EvaluationClient

The page: the hook `useEvaluation` with the reducer of its stage tracker, App's
effects, the socket client and the stored history. `start` and `resume` take a run
token; every promise and every frame carries the token of its run and is dropped
when another run has taken over. React's effects run in `Render`, a step of their
own. `Reload` empties the page and keeps the storage. The server side is an
evaluation that goes through `Work` and ends, and whose events reach an open socket
in any order.

Seen while modelling, and no property of the code's docs: a terminal frame that
overtakes replayed ones makes the later ones ignored until the page is loaded
again; nobody opens a closed socket again; after a restart `result` may for a
moment hold the previous run's artifacts.

### Proof modules

The modules named `*_proofs` hold the theorems about the module they are named
for; the `MC` modules hold the symmetry sets and constant functions of the small
instances.

## Runs

| Run | Instance | Shows |
|---|---|---|
| `task_store` | 1 task; 2 tokens, external ids, values, ARNs; 1 error | types and limits; `StepsInOrder`, `OutputsMatchSteps`, `CallbacksResolve`, `SuccessIsComplete`, `ClosedTasksAreIdle`; `FirstWriteWins`, `ClosedTasksAreFrozen`; the refinement of `TaskLifecycle` |
| `upload_two` | 2 notifications of one upload, 2 deliveries each, 3 faults | `DispatchersExclude`, `ShownExecutionsExist`, `VerdictsAreTrue` |
| `upload_live` | 1 notification, Lambda's 3 deliveries, 2 faults | `UploadsAreSettled` |
| `upload_back` | as `upload_two` | `ReviewNeverMovesBack` is **violated**, see below |
| `workflow_retry` | 1 retry, 1 service error, 1 fault, 2 results | `AdvancedOnStoredResults`, `SuccessIsNotRefused`, `SuccessIsModerated` |
| `workflow_faults` | no retry, no service error, 2 faults | `VerdictsExclude`, `SuccessIsFullyAnnounced`; `ExecutionsAreSettled` |
| `audio_conversion` | 2 invocations, requests of up to 3 files, 3 contents of which one cannot be decoded, 1 replaced file, 1 fault | `PlaysInOrder`, `RetriesAgree` |
| `events_two` | 2 tasks with a ticket each, an emission to one of them, 2 connections that share its ticket, one of which presents the other ticket too; 1 fault | `NothingSlipsThrough`, `TicketsAdmitOnce`; the refinement of `EventStream`; `SubscribersAreServed`, `GoneConnectionsAreForgotten` |
| `scheduling` | 3 requests with one key, 3 rounds each, 3 faults | `RunsAreLeased`; the refinement of `JobSchedule`; `KeyIsNotBlocked` |
| `submit_race` | 3 requests, 2 keys, 2 tokens, 2 Turnstile answers | `RepliesGoToTheBearer`, `ReviewsArePaidFor`, `ReviewsHaveTheirTask`, `NoUrlMeansUploaded`, `ReplaysAreFree`, `BearersAreNotRefused` |
| `client_runs` | 2 evaluations of one stage, 3 runs, 1 fault, frames in any order | `TrackerIsTrue`, `OneSubscription`, `TrackerCatchesUp`; `OutcomesAreRecorded` |
| `client_follow` | 2 evaluations without stages, 5 runs, no fault | `SubmissionsAreFollowed` is **violated** |

Types are a run's concern in `task_store` only, where they contain the dispatch limit. The
type invariants of the other modules, and `UrlsPrecedeUploads`, are theorems for every
instance (`*TypeCorrect`, `UrlsPrecedeUploadsAlways`), and no run repeats them.

**Bounds.** Operations of the store touch one task, so one task with two
different values of everything that can conflict shows every conflict. Rows of
different tasks meet only in the UNIQUE constraints on tokens and external ids; in the
instance it is the two steps of a task that may be given one token, and
`CallbacksResolveAlways` is for any tasks. Two notifications are the smallest overlap, and
`DispatchersExclude` speaks of two. Three faults on four deliveries are what it
takes to reach the third dispatch failure, which closes the task and the review.
`MaxDeliveries = 3` in `upload_live` is Lambda's default for asynchronous
invocations (no `event_invoke_config` overrides it). `MaxFaults` bounds crashes,
failed requests and lost answers together: with three of them the three
deliveries may be spent with attempts left, and no claim is made. The bounds are
in the guards; no state constraint is used. Symmetry is used in safety runs only.

In the workflow one retry is what makes two invocations, two tokens and two jobs of
a step; more retries (`MaxRetries`, 3 in the definition) repeat the case, and the
proofs are for any number. `MaxFaults` bounds crashes, failed calls, lost answers,
early timeouts and an operator's stop together; `MaxServiceErrors` bounds the errors
Lambda reports. A callback is posted three times, a reconciliation delivered three
times, as in the code. In `ModelScheduling` three requests are one that holds the
claim, one that takes it over and one that waits; `Attempts` is 20 in the code, and a
round of waiting is like the next, so three of them are enough to claim, wait and
claim again. In `SubmitReview` two keys and two tokens are the smallest instance in
which a key can be another's; each request can fail at every call, without a
bound. In `EvaluationClient` `MaxRuns` bounds the starts and resumes between two loads
of the page; an evaluation has one stage, with its start and its finish, before its
end: what races are run tokens and frames, and further stages are like the first.
In `AudioConversion` two invocations are one and its retry, and three files are the
least whose numbers are neither ascending nor descending; S3 holds anything at first, so
that one `Put` is a file that was replaced, or one that came late.
In `TaskEvents` one ticket that two connections present is the race for a ticket;
an emission then finds one open subscriber of its task at most. That the fan-out to
several of them forgets none is `NothingSlipsThrough`, proved for any number.

**Fairness** is part of the specification where a run checks a liveness property.
`UploadFairness` (`upload_live`): Lambda delivers what it has
accepted (`Deliver`), an invocation that does not crash goes on (`HandlerStep`),
and time passes (`Expire`). Nothing is assumed of the workflow, of crashes or of
Step Functions' answers. `WorkflowFairness`: Step Functions goes on, an invocation
that does not crash goes on, the model service runs its jobs and posts again, timers
run out, EventBridge delivers. `EventsFairness`: emissions, subscriptions and the
handling of `$disconnect` that do not fail go on; nothing is assumed of clients.
`SchedulingFairness`: a request that is in the loop goes on, and leases end.
`ClientFairness`: React renders, and the promises and effects of the page are settled;
nothing is assumed of the server's evaluation or of the socket. All of it is weak fairness of single callers; no
fault is ever assumed to happen or to stop happening, faults are bounded.

**Disagreements.** Each is shown by a run that expects a violation, and quoted in
`PROJECT.json` under "findings".

*A submission that is not followed (`client_follow`).* The effect that restores a
processing job of the history runs again when `start` empties the tracker; its run
token makes the page drop the answer to the submission, and `submitting` stays set.

*A review that moves back (`upload_back`).* The doc of `mark_upload_complete` (`review_job_store.rs:254`)
says that repeated notifications do not move the job's status backwards. The
function itself keeps this, the handler around it does not: its last call writes
PROCESSING by what it read at its start. In `upload_back` the first invocation
has recorded its execution and stands before that call; the workflow fails; a
repeated notification reads FAILED and writes ERROR; the first writes PROCESSING
over it. `get_details` hides this by preferring the outcome, but the reply to a
replayed submission shows the row. `VerdictsAreTrue` says what does hold: a
COMPLETED or ERROR that is shown is true.

**What surprised.** No run is kept for these, and no property says that they do not
happen. A retried request: the idempotency key names the step and the task, not the
token. When Step Functions retries a caller whose first invocation still runs, the
model service keeps the job of the request that came first; its callback is stored,
then refused by Step Functions, and the execution times out with its result stored.
What does hold is `AdvancedOnStoredResults`, and that the evaluation ends
(`ExecutionsAreSettled`). A success that is not announced: when FinalizeSuccess has
recorded SUCCEEDED and its event cannot be sent, the execution ends as FAILED, and its
reconciliation is refused before its own event, so the log never gets an end. What
does hold is `VerdictsExclude`. An event that is not delivered: an emission that wrote
the log, failed and is not repeated leaves open subscribers without the frame until
they subscribe again; `NothingSlipsThrough` says that nothing else loses one. In the
store, `ClosedTasksAreIdle` needs its exception: when the answers to
three attempts are lost, the dispatcher closes the task as FAILED while the
execution it started may be running, and the step that runs stays PROCESSING for
ever, because every later end of the workflow finds the outcome. And the limit
counts claims: when the third invocation crashes instead of reporting its
failure, the task keeps no attempt, no execution and no outcome; this is why
`UploadsAreSettled` bounds the faults.

## Proofs

Every theorem holds for arbitrary sets of tasks, tokens, ids, values and
notifications, requests, connections and tickets, finite or not, and for any number
of retries, rounds and faults. They rest on `NoValueAssumption` (NULL is no value, id,
ARN, error code or outcome) and on the `*Assumption` of each module (the types of its
constants; that task tokens of different attempts differ).

* **Store.** `TypeCorrect` first. The safety properties are then proved together:
  `Inv` is the conjunction of the type invariant, `StepsInOrder`,
  `OutputsMatchSteps`, `TokenNamesOneStep` and `BegunStepsHaveToken` (`CallbacksResolve`),
  `SuccessIsComplete` and `ClosedTasksAreIdle`. None but the first is inductive
  alone: that a success leaves nothing running needs `StepsInOrder`, which needs
  the meaning of the status (`StatusStarted`, `StatusReady`, `StatusFinished`).
  Instead of one case per action and conjunct, the lemmas `StepMoves`,
  `OutcomeMoves`, `DispatchMoves`, `TokenMoves` and `ReportMoves` say once what a
  transaction can do to one column; the invariants and the action properties
  `FirstWriteWins` and `ClosedTasksAreFrozen` follow from these.
* **Refinement.** `StoreImplementsLifecycle`: a transaction begins, ends or breaks
  off a step, closes the task, or shows nothing (`TransactionsAreLifecycleSteps`),
  from `Inv` before and after. `UploadImplementsLifecycle` and
  `WorkflowImplementsLifecycle` carry it over to the store's two compositions.
* **Workflow.** `Bookkeeping` comes first, and is inductive by itself: an attempt that
  the execution has not come to is idle (`FutureIsIdle`), so that each attempt is
  invoked once, its request sent once, its job run once (`JobsRunOnce`) and its result
  fixed from the first post on. From it follow the types, and that every step is one
  transaction of the store or none (`WorkflowUsesStore`), which carries `Inv` over.
  `WorkflowInv` is then proved on top of `Bookkeeping` and `Inv`: results that a Lambda says
  are stored are (`ResultsAreStored`), ends that are announced are recorded
  (`EndsAreRecorded`), nobody but a failed step closes a task whose execution may still
  succeed (`NothingElseFails`), the execution leaves a step behind its events
  (`StepsAreAnnounced`). The five properties follow. What the argument rests on is that
  the store takes nothing back (`StoreKeeps`): outcome, results and failed steps stay, and
  a task with a failed step never succeeds (`Doomed`). The lemmas named `*Moves` say
  once who changes a variable, so that no conjunct needs a case per action.
* **Events.** `EventsInv` adds to the types where an event is on its way: listed by an
  emission, listed by a replay, or about to be listed by either. `NothingSlipsThrough`
  is proved with it, for any number of emissions, subscriptions and faults; `TaskEventsRefine` is the
  refinement of `EventStream`.
* **Scheduling.** `SchedulingTypeOK` says who is inside the claim lock; `RunsAreLeased` needs
  that a claim that has handed over holds the last lease of the record.
  `ModelSchedulingRefines` is the refinement of `JobSchedule`.
* **Submission.** `SubmitInv`: what a request goes by is still true of the row, a review
  under a key is made once and keeps its token, and an upload is never undone. The
  seven properties follow, among them the action property `BearersAreNotRefused`.
* **Upload.** `UploadUsesStore` (`UploadSpec => Spec`) carries every theorem of the
  store over. `DispatchersExcludeAlways` needs `LeaseInv`: whoever dispatches holds
  the lease, and its attempt is the last one claimed; so a claim, which needs a
  lease that is not held, finds no dispatcher. `ShownExecutionsExistAlways` needs
  what invocations hold in `ExecutionInv` (an ARN that was read, a position after
  the answer). `VerdictsAreTrueAlways` needs that what was read stays true:
  `FailingStays`, from the refinement, says that a status that has failed never
  recovers, even before its outcome is final.

* **Client.** `ClientInv` adds to the types and to the properties what run tokens are for.
  `OneRun`: the latest run has an unresolved promise, or a subscription, or neither, and no
  other run may touch the tracker; alone, `OneSubscription` would not survive the
  answer of a promise. `StatusesAreReal` and `CallsAreReal`: what a promise has read was
  true (`Past`), and an evaluation only moves on, so that it may be shown late.
  `StagesAreLogged`: while a run is on, each stage stands where some event of the log
  puts it and no less far than any frame that came; `advanceState` keeps this because
  `Rank` orders a stage's events.
  The end is kept out of it: after an outcome `TrackerIsTrue` alone says what a stage
  may be, since `applyTerminal` writes stages that no event names. `TrackerCatchesUpAlways`
  follows: when every frame has come, a stage is at its last event, as no event of the log
  goes further (`CatchesUp`, from `StageEvents` and `StagesOf`). The reducer is taken one
  frame at a time, so no induction over sequences of frames is needed. All of it is for
  any stages, in any number.
* **Conversion.** `PositionsAreOnes`: the ranks of the sort key are a bijection onto the
  places, by the cardinalities of initial segments (`FiniteSetTheorems`); so
  `Sorted`, which chooses by rank, loses and repeats nothing. `ConversionInv` then says
  that a local output, and the artifact, was stitched from a complete download of the
  request (`IsReal`), each file as some upload of it was; `held` only grows, which keeps it
  true under replacement (`RealStays`). `RetriesAgreeAlways`: two complete downloads of
  files that were never replaced are equal (`DownloadsAgree`).

Only model-checked: liveness (`UploadsAreSettled`, `ExecutionsAreSettled`,
`SubscribersAreServed`, `GoneConnectionsAreForgotten`, `KeyIsNotBlocked`,
`OutcomesAreRecorded`), which is out of the prover's reach; the violation runs. Every
invariant, action property and refinement that a passing run checks is a theorem.

## Plan

Done, in this order: the store and its lifecycle, the upload confirmation, the
workflow with its callbacks, the events, the model services' scheduling, the
submission, the client, the conversion of the audio; and the proofs of all of them.

Left: a composition of `EvaluationWorkflow` with `ModelScheduling`, in place of the summary
`Accept` gives of it; the client's retry of a failed submission against `SubmitReview`.

## Not modelled

* Inference and score arithmetic (numeric code), and what ffmpeg does to samples: an
  output is the sequence of the inputs it plays.
* Operations that only read: `get_review`, `get_review_audio`, `get_evaluation`,
  `get_details`; the parsing and validation of requests and headers; presigned
  downloads; authentication other than the ownership of tokens.
* Of the client: what is rendered, the audio player and the samples, the Turnstile
  widget, the retry of a failed submission with its stored key (the server's side of
  it is `SubmitReview`), and a browser without storage.
* Expiry in S3: uploads and artifacts are removed some days after they were made
  (`src/terraform/uploads.tf:53`, `artifacts.tf:42`), so that a download URL a reply
  carries may find nothing by then.
* A moderation callback whose job id is not that of its token's task
  (`ModerationJobConflict`, `pipeline_task_store.rs:1529`): the services answer with the
  id they were given.
* Logging, configuration, generated code, and the test-only operations of the
  stores.
