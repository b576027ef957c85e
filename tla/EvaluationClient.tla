------------------------------ MODULE EvaluationClient ------------------------------
(***************************************************************************)
(* The browser's page: the hook useEvaluation with the reducer of its      *)
(* stage tracker, the effects of App that drive it, the WebSocket client   *)
(* and the history the page keeps of its submissions.                      *)
(*                                                                         *)
(* A callback (of the user, a promise, the socket) is a step.  React       *)
(* renders after it and runs the effects whose dependencies have changed:  *)
(* Render is a step of its own, since other callbacks may come before it.  *)
(* Each start and each resume has a run token; `runToken` is the last one. *)
(*                                                                         *)
(* Outside: an evaluation goes through its work, step by step, and ends.   *)
(* Its events reach an open socket at least once and in any order, see     *)
(* TaskEvents.                                                             *)
(***************************************************************************)
EXTENDS Naturals, Sequences, FiniteSetsExt

CONSTANTS
    Work,        \* the stages between "submitted" and "result", in their order
    Artifacts,   \* those of them that leave a transcript or scores
    MaxEvaluations,
    Stored,      \* how many evaluations the history holds when the page is first opened
    MaxRuns,     \* bound: starts and resumes between two loads of the page
    MaxFaults,   \* bound: failed requests, closed sockets, reloads
    None

\* Evaluations are numbered in the order of their submission.
Evaluation == 1 .. MaxEvaluations

Run == 1 .. MaxRuns

WorkStage == {Work[i] : i \in DOMAIN Work}

Stage == {"submitted", "result"} \cup WorkStage

StageState == {"pending", "processing", "complete", "failed", "skipped"}

Outcome == {"SUCCEEDED", "FAILED"}

\* An event says that a stage has got to a state; "result" stands for the end.
Event == [stage : Stage, to : {"processing", "complete", "failed"}]

EventAt(i) ==
    IF i = 1
    THEN [stage |-> "submitted", to |-> "complete"]
    ELSE [stage |-> Work[i \div 2], to |-> IF i % 2 = 0 THEN "processing" ELSE "complete"]

LastEvent == 2 * Len(Work) + 1

\* How far an evaluation is: the number of its events, and its outcome.
Status == [reached : 0 .. LastEvent, outcome : Outcome \cup {None}]

JobStatus == {"processing", "complete", "failed"}

\* An unresolved startEvaluation or resumeEvaluation; the latter has read a
\* status, or has not.
Call == [kind : {"start", "resume"}, evaluation : Evaluation \cup {None}, seen : Status \cup {None}]

\* The stages are distinct, and None is nothing else.
ASSUME ClientAssumption ==
    /\ Work \in Seq(WorkStage)
    /\ \A i, j \in DOMAIN Work : Work[i] = Work[j] => i = j
    /\ WorkStage \cap {"submitted", "result"} = {}
    /\ Artifacts \subseteq WorkStage
    /\ MaxEvaluations \in Nat /\ MaxRuns \in Nat /\ MaxFaults \in Nat
    /\ Stored \in 0 .. MaxEvaluations
    /\ None \notin Evaluation /\ None \notin Run
    /\ None \notin Outcome /\ None \notin JobStatus /\ None \notin Call

Terminal(outcome) ==
    [stage |-> "result", to |-> IF outcome = "SUCCEEDED" THEN "complete" ELSE "failed"]

-----------------------------------------------------------------------------
(* The reducer *)

NoStages == [s \in Stage |-> "pending"]

Tracker == [evaluation : Evaluation \cup {None}, stages : [Stage -> StageState],
            outcome : Outcome \cup {None}, events : SUBSET Event]

InitialState == [evaluation |-> None, stages |-> NoStages, outcome |-> None, events |-> {}]

Progress == <<"pending", "processing", "complete", "failed">>

Rank(st) == CHOOSE i \in DOMAIN Progress : Progress[i] = st

\* Fault: a stage is what the last frame says of it.
AdvanceToAnything(current, next) == next

\* advanceState
Advance(current, next) ==
    IF current \notin {"failed", "skipped"} /\ (next = "failed" \/ Rank(next) > Rank(current))
    THEN next
    ELSE current

ApplyStage(stages, s, next) == [stages EXCEPT ![s] = Advance(@, next)]

\* applyTerminal: a failure is put on the stage at work, or else on the
\* submission, and what has not begun is skipped.
ApplyFailure(stages) ==
    LET active == {s \in Stage : stages[s] = "processing"}
        first == CHOOSE s \in active :
                    \A i, j \in DOMAIN Work : Work[i] = s /\ Work[j] \in active => i <= j
        blamed == IF active # {} THEN {first}
                  ELSE {s \in {"submitted"} : stages[s] = "complete"}
    IN  [s \in Stage |->
            CASE s = "result" \/ s \in blamed -> "failed"
              [] s \notin blamed \cup {"result"} /\ stages[s] = "pending" -> "skipped"
              [] OTHER -> stages[s]]

ApplyTerminal(st, ev) ==
    IF ev.to = "complete"
    THEN [st EXCEPT !.stages = ApplyStage(@, "result", "complete"), !.outcome = "SUCCEEDED"]
    ELSE [st EXCEPT !.stages = ApplyFailure(@), !.outcome = "FAILED"]

\* A repeated frame says nothing new, and an outcome is final.
ApplyFrame(st, ev) ==
    LET next == [st EXCEPT !.events = @ \cup {ev}]
    IN  IF ev \in st.events \/ st.outcome # None
        THEN next
        ELSE IF ev.stage = "result"
             THEN ApplyTerminal(next, ev)
             ELSE [next EXCEPT !.stages = ApplyStage(@, ev.stage, ev.to)]

\* The stages after the first i events, in their order.
StagesAt(i) ==
    [s \in Stage |->
        LET said == {j \in 1 .. i : EventAt(j).stage = s}
        IN  IF said = {} THEN "pending" ELSE EventAt(Max(said)).to]

\* What a status says of the stages; a status is the number of events, and the
\* outcome.  PENDING and the failures say nothing.
SeedStages(seen) ==
    CASE seen.outcome = "SUCCEEDED" -> [s \in Stage |-> "complete"]
      [] seen.outcome = None /\ seen.reached > 1 -> StagesAt(seen.reached)
      [] OTHER -> NoStages

Seed(st, e, seen) ==
    [st EXCEPT !.evaluation = e, !.stages = SeedStages(seen), !.outcome = seen.outcome]

-----------------------------------------------------------------------------

VARIABLES
    status,      \* outside: how far every evaluation is; 0 when there is none
    jobs,        \* local storage: BrowserEvaluationStore
    access,      \* session storage: the evaluations whose token this tab has
    state,       \* the reducer's
    runToken,
    submitting,  \* submittingRef, and the state of that name
    call,        \* the unresolved promise of each run
    socket,      \* the subscription of each run
    followed,    \* the run whose subscription unsubscribeRef ends
    asked,       \* a file is chosen, its challenge is open
    artifacts,   \* whether the page holds artifacts (result)
    fetching,    \* the getEvaluationResult that is not cancelled
    late,        \* the cancelled ones that are under way
    listed,      \* previousJobs, those it shows as processing
    listChanged, \* they were read again since the last render
    rendered,    \* what the effects depend on, as of the last render
    faults

storage == <<jobs, access>>
hook == <<state, runToken, submitting, call, socket, followed, artifacts>>
fetches == <<fetching, late>>
effects == <<listed, listChanged, rendered>>

clientVars == <<status, jobs, access, state, runToken, submitting, call, socket, followed, asked,
                artifacts, fetching, late, listed, listChanged, rendered, faults>>

Log(e) ==
    {EventAt(i) : i \in 1 .. status[e].reached}
        \cup {Terminal(o) : o \in {status[e].outcome} \ {None}}

HasRun == state.evaluation # None

Running == HasRun /\ state.outcome = None

\* Of the dependencies of the effects, what can change.
Dependencies ==
    [evaluation |-> state.evaluation, outcome |-> state.outcome,
     complete |-> {s \in Artifacts : state.stages[s] = "complete"}, artifacts |-> artifacts]

FirstRender == [evaluation |-> None, outcome |-> None, complete |-> {}, artifacts |-> FALSE]

Unused == {e \in Evaluation : status[e].reached = 0}

Processing == {e \in Evaluation : jobs[e] = "processing"}

ClientInit ==
    /\ status = [e \in Evaluation |->
                    [reached |-> IF e <= Stored THEN 1 ELSE 0, outcome |-> None]]
    /\ jobs = [e \in Evaluation |-> IF e <= Stored THEN "processing" ELSE None]
    /\ access \in SUBSET (1 .. Stored)
    /\ state = InitialState
    /\ runToken = 0
    /\ submitting = FALSE
    /\ call = [t \in Run |-> None]
    /\ socket = [t \in Run |-> None]
    /\ followed = None
    /\ asked = FALSE
    /\ artifacts = FALSE
    /\ fetching = None
    /\ late = {}
    /\ listed = Processing
    /\ listChanged = TRUE
    /\ rendered = FirstRender
    /\ faults = 0

Fault ==
    /\ faults < MaxFaults
    /\ faults' = faults + 1

-----------------------------------------------------------------------------
(* Outside *)

Proceed(e) ==
    /\ status[e].reached > 0
    /\ status[e].outcome = None
    /\ \/ status[e].reached < LastEvent /\ status' = [status EXCEPT ![e].reached = @ + 1]
       \/ status[e].reached = LastEvent /\ status' = [status EXCEPT ![e].outcome = "SUCCEEDED"]
       \/ status' = [status EXCEPT ![e].outcome = "FAILED"]
    /\ UNCHANGED <<storage, hook, asked, fetches, effects, faults>>

-----------------------------------------------------------------------------
(* The hook *)

\* Fault: the reference is dropped and the socket stays open.
TeardownKeepingSocket == socket' = socket

\* teardown
Teardown == socket' = [t \in Run |-> IF t = followed THEN None ELSE socket[t]]

\* follow, for an answer that is not late.
Follow(t, e, seen) ==
    /\ state' = Seed(state, e, seen)
    /\ socket' = [socket EXCEPT ![t] = e]
    /\ followed' = t

\* reset
Reset ==
    /\ runToken < MaxRuns
    /\ runToken' = runToken + 1
    /\ submitting' = FALSE
    /\ Teardown
    /\ followed' = None
    /\ artifacts' = FALSE
    /\ state' = InitialState
    /\ UNCHANGED <<status, storage, call, fetches, effects, faults>>

\* The user acts on a page that is up to date: React renders what a click
\* changes at once.
UpToDate == ~listChanged /\ Dependencies = rendered

\* A file is chosen in a picker that is disabled while a run is on: what is
\* shown is reset, the challenge opens.
ChooseFile ==
    /\ UpToDate
    /\ ~Running
    /\ ~submitting
    /\ ~asked
    /\ asked' = TRUE
    /\ Reset

CancelChallenge ==
    /\ asked
    /\ asked' = FALSE
    /\ UNCHANGED <<status, storage, hook, fetches, effects, faults>>

\* handleChallengeToken, start; by then the choice of the file has been rendered.
Start ==
    /\ asked
    /\ HasRun \/ rendered.evaluation = None
    /\ ~submitting
    /\ runToken < MaxRuns
    /\ Unused # {}
    /\ asked' = FALSE
    /\ submitting' = TRUE
    /\ runToken' = runToken + 1
    /\ call' = [call EXCEPT ![runToken + 1] = [kind |-> "start", evaluation |-> None, seen |-> None]]
    /\ Teardown
    /\ followed' = None
    /\ artifacts' = FALSE
    /\ state' = InitialState
    /\ UNCHANGED <<status, storage, fetches, effects, faults>>

\* Fault: the answer to a restore is followed whatever has begun since.
IsLatestOrResume(t) == call[t].kind = "resume" \/ runToken = t

IsLatest(t) == runToken = t

\* startEvaluation has uploaded the audio, keeps the token and the job, and
\* its promise resolves.
StartResolves(t) ==
    /\ call[t] # None
    /\ call[t].kind = "start"
    /\ \E e \in Unused :
        LET pending == [reached |-> 1, outcome |-> None]
        IN /\ \A d \in Unused : e <= d
           /\ status' = [status EXCEPT ![e] = pending]
           /\ jobs' = [jobs EXCEPT ![e] = "processing"]
           /\ access' = access \cup {e}
           /\ IF IsLatest(t)
              THEN Follow(t, e, pending) /\ submitting' = FALSE
              ELSE UNCHANGED <<state, socket, followed, submitting>>
    /\ call' = [call EXCEPT ![t] = None]
    /\ UNCHANGED <<runToken, artifacts, asked, fetches, effects, faults>>

StartRejects(t) ==
    /\ call[t] # None
    /\ call[t].kind = "start"
    /\ Fault
    /\ submitting' = (submitting /\ ~IsLatest(t))
    /\ call' = [call EXCEPT ![t] = None]
    /\ UNCHANGED <<status, storage, state, runToken, socket, followed, artifacts, asked, fetches, effects>>

\* resume; unlike start it leaves the tracker as it is, and submittingRef.
Resume(e) ==
    /\ runToken' = runToken + 1
    /\ call' = [call EXCEPT ![runToken + 1] = [kind |-> "resume", evaluation |-> e, seen |-> None]]
    /\ Teardown
    /\ followed' = None
    /\ artifacts' = FALSE
    /\ UNCHANGED <<state, submitting>>

\* GetEvaluation reads the status; the answer takes its time.
ResumeReads(t) ==
    /\ call[t] # None
    /\ call[t].kind = "resume"
    /\ call[t].seen = None
    /\ call[t].evaluation \in access
    /\ call' = [call EXCEPT ![t].seen = status[call[t].evaluation]]
    /\ UNCHANGED <<status, storage, state, runToken, submitting, socket, followed, artifacts, asked, fetches,
                   effects, faults>>

ResumeResolves(t) ==
    /\ call[t] # None
    /\ call[t].seen # None
    /\ IF IsLatest(t)
       THEN Follow(t, call[t].evaluation, call[t].seen)
       ELSE UNCHANGED <<state, socket, followed>>
    /\ call' = [call EXCEPT ![t] = None]
    /\ UNCHANGED <<status, storage, runToken, submitting, artifacts, asked, fetches, effects, faults>>

\* requireAccess throws in a tab that has no token; or the request fails.
ResumeRejects(t) ==
    /\ call[t] # None
    /\ call[t].kind = "resume"
    /\ IF call[t].evaluation \in access THEN Fault ELSE UNCHANGED faults
    /\ state' = IF IsLatest(t) THEN InitialState ELSE state
    /\ call' = [call EXCEPT ![t] = None]
    /\ UNCHANGED <<status, storage, runToken, submitting, socket, followed, artifacts, asked, fetches, effects>>

\* handleRemoveAudio, of a run that has ended.
RemoveAudio ==
    /\ UpToDate
    /\ HasRun /\ ~Running
    /\ asked' = FALSE
    /\ Reset

\* onFrame, of any socket that is open.
Frame(t, ev) ==
    /\ socket[t] # None
    /\ ev \in Log(socket[t])
    /\ state' = ApplyFrame(state, ev)
    /\ UNCHANGED <<status, storage, runToken, submitting, call, socket, followed, artifacts, asked, fetches,
                   effects, faults>>

\* The ticket is refused or the socket closes; nobody opens another one.
SocketCloses(t) ==
    /\ socket[t] # None
    /\ Fault
    /\ socket' = [socket EXCEPT ![t] = None]
    /\ UNCHANGED <<status, storage, state, runToken, submitting, call, followed, artifacts, asked, fetches,
                   effects>>

-----------------------------------------------------------------------------
(* The effects *)

\* Fault: artifacts are fetched when their stage completes, and not at the end.
FetchDependsOnStages(d) == <<d.evaluation, d.complete>>

FetchDependsOn(d) == <<d.evaluation, d.outcome, d.complete>>

\* The fetch effect of the hook; what it asked for before is cancelled.
FetchEffect ==
    IF FetchDependsOn(Dependencies) = FetchDependsOn(rendered)
    THEN UNCHANGED fetches
    ELSE /\ late' = late \cup ({fetching} \ {None})
         /\ fetching' = IF Dependencies.outcome # None \/ Dependencies.complete # {}
                        THEN state.evaluation
                        ELSE None

\* App resumes the newest job it believes to be processing when nothing is shown.
ResumeEffect ==
    IF /\ listChanged \/ HasRun # (rendered.evaluation # None)
       /\ ~HasRun
       /\ listed # {}
       /\ runToken < MaxRuns
    THEN \E e \in listed : (\A d \in listed : d <= e) /\ Resume(e)
    ELSE UNCHANGED hook

HistoryDependsOn(d) == <<d.evaluation, d.outcome, d.artifacts>>

\* App reads its history again when the run, its outcome or its result changes.
RefreshEffect ==
    IF HasRun /\ HistoryDependsOn(Dependencies) # HistoryDependsOn(rendered)
    THEN listed' = Processing /\ listChanged' = TRUE
    ELSE listChanged' = FALSE /\ UNCHANGED listed

Render ==
    /\ listChanged \/ Dependencies # rendered
    /\ rendered' = Dependencies
    /\ FetchEffect
    /\ ResumeEffect
    /\ RefreshEffect
    /\ UNCHANGED <<status, storage, asked, faults>>

\* recordFinished, with the status the answer brings; also when the effect that
\* asked is cancelled.
RecordFinished(e) ==
    jobs' = CASE jobs[e] # None /\ status[e].outcome = "SUCCEEDED" -> [jobs EXCEPT ![e] = "complete"]
              [] jobs[e] # None /\ status[e].outcome = "FAILED" -> [jobs EXCEPT ![e] = "failed"]
              [] OTHER -> jobs

HasArtifacts(e) ==
    \E i \in 1 .. status[e].reached : EventAt(i).stage \in Artifacts /\ EventAt(i).to = "complete"

FetchResolves ==
    /\ fetching # None
    /\ RecordFinished(fetching)
    /\ artifacts' = (artifacts \/ HasArtifacts(fetching))
    /\ fetching' = None
    /\ UNCHANGED <<status, access, state, runToken, submitting, call, socket, followed, asked, late,
                   effects, faults>>

LateFetchResolves(e) ==
    /\ e \in late
    /\ RecordFinished(e)
    /\ late' = late \ {e}
    /\ UNCHANGED <<status, access, hook, asked, fetching, effects, faults>>

FetchFails ==
    /\ fetching # None
    /\ Fault
    /\ fetching' = None
    /\ UNCHANGED <<status, storage, hook, asked, late, effects>>

LateFetchFails(e) ==
    /\ e \in late
    /\ Fault
    /\ late' = late \ {e}
    /\ UNCHANGED <<status, storage, hook, asked, fetching, effects>>

\* The page is loaded again in its tab, and forgets all but its storage.
Reload ==
    /\ Fault
    /\ state' = InitialState
    /\ runToken' = 0
    /\ submitting' = FALSE
    /\ call' = [t \in Run |-> None]
    /\ socket' = [t \in Run |-> None]
    /\ followed' = None
    /\ asked' = FALSE
    /\ artifacts' = FALSE
    /\ fetching' = None
    /\ late' = {}
    /\ listed' = Processing
    /\ listChanged' = TRUE
    /\ rendered' = FirstRender
    /\ UNCHANGED <<status, storage>>

-----------------------------------------------------------------------------

RunStep(t) ==
    \/ StartResolves(t) \/ StartRejects(t)
    \/ ResumeReads(t) \/ ResumeResolves(t) \/ ResumeRejects(t)

ClientNext ==
    \/ \E e \in Evaluation : Proceed(e) \/ LateFetchResolves(e) \/ LateFetchFails(e)
    \/ \E t \in Run, ev \in Event : Frame(t, ev)
    \/ \E t \in Run : SocketCloses(t)
    \/ ChooseFile \/ CancelChallenge \/ Start \/ RemoveAudio \/ Reload
    \/ Render \/ FetchResolves \/ FetchFails
    \/ \E t \in Run : RunStep(t)

\* Promises settle and effects run.
ClientFairness ==
    /\ WF_clientVars(Render)
    /\ WF_clientVars(FetchResolves \/ FetchFails)
    /\ \A e \in Evaluation : WF_clientVars(LateFetchResolves(e) \/ LateFetchFails(e))
    /\ \A t \in Run : WF_clientVars(RunStep(t))

ClientSpec == ClientInit /\ [][ClientNext]_clientVars

ClientLiveSpec == ClientSpec /\ ClientFairness

(***************************************************************************)
(* Properties                                                              *)
(***************************************************************************)
ClientTypeOK ==
    /\ status \in [Evaluation -> Status]
    /\ jobs \in [Evaluation -> JobStatus \cup {None}]
    /\ access \subseteq Evaluation
    /\ state \in Tracker
    /\ runToken \in 0 .. MaxRuns
    /\ submitting \in BOOLEAN
    /\ call \in [Run -> Call \cup {None}]
    /\ \A t \in Run : call[t] # None => t <= runToken
    /\ socket \in [Run -> Evaluation \cup {None}]
    /\ followed \in Run \cup {None}
    /\ artifacts \in BOOLEAN /\ asked \in BOOLEAN /\ listChanged \in BOOLEAN
    /\ fetching \in Evaluation \cup {None}
    /\ late \subseteq Evaluation
    /\ listed \subseteq Evaluation
    /\ rendered \in [evaluation : Evaluation \cup {None}, outcome : Outcome \cup {None},
                    complete : SUBSET Artifacts, artifacts : BOOLEAN]
    /\ faults \in 0 .. MaxFaults

\* The tracker says of an evaluation what is true of this one: nothing of a run
\* that was left reaches it through an old socket or a late answer.
TrackerIsTrue ==
    HasRun =>
        LET e == state.evaluation
        IN  /\ state.events \subseteq Log(e)
            /\ state.outcome # None => state.outcome = status[e].outcome
            /\ \A s \in WorkStage :
                \/ state.stages[s] \notin {"processing", "complete"}
                \/ [stage |-> s, to |-> state.stages[s]] \in Log(e)

\* Replayed and live frames in any order, on any snapshot, come to the same:
\* when all have come, the tracker shows what the status says.
TrackerCatchesUp ==
    (Running /\ state.events = Log(state.evaluation)) =>
        state.stages = StagesAt(status[state.evaluation].reached)

\* An open socket is the one of the latest run, and of the evaluation shown.
OneSubscription ==
    \A t \in Run :
        socket[t] # None => t = runToken /\ followed = t /\ socket[t] = state.evaluation

\* An outcome that is shown gets into the history, which decides what is resumed
\* when the page is opened next, though its answer may come when the page has
\* gone on to another run.
OutcomesAreRecorded ==
    \A e \in Evaluation :
        (rendered.evaluation = e /\ rendered.outcome # None)
            ~> (jobs[e] # "processing" \/ faults > 0)

\* "Drives one evaluation: upload the audio, seed the stage tracker from the
\* ingress status, then follow the evaluation's task-event stream."
SubmissionsAreFollowed == submitting ~> ~submitting

=============================================================================
