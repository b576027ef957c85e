------------------------------- MODULE JobSchedule -------------------------------
(***************************************************************************)
(* What the model services promise of an idempotency key: it is assigned   *)
(* one task id for ever, whoever is told that the task is queued is told   *)
(* that id, and nobody is told so before it was handed to a worker.        *)
(***************************************************************************)
CONSTANTS
    TaskId,
    Run,        \* hand-overs of a task to a worker
    Caller,
    NoId

VARIABLES
    assigned,   \* the id of the key's task
    runs,       \* what was handed to workers, as <<run, id>> pairs
    recorded,   \* a hand-over is on record: there will be no other claim
    told        \* the id a caller was told

scheduleVars == <<assigned, runs, recorded, told>>

ScheduleInit ==
    /\ assigned \in TaskId \cup {NoId}
    /\ recorded \in BOOLEAN
    /\ runs \subseteq Run \X {assigned}
    /\ recorded => assigned # NoId /\ runs # {}
    /\ told = [c \in Caller |-> NoId]

Assign(id) ==
    /\ assigned = NoId
    /\ assigned' = id
    /\ UNCHANGED <<runs, recorded, told>>

HandOver(run) ==
    /\ assigned # NoId
    /\ \A p \in runs : p[1] # run
    /\ runs' = runs \cup {<<run, assigned>>}
    /\ UNCHANGED <<assigned, recorded, told>>

RecordRun ==
    /\ runs # {}
    /\ recorded' = TRUE
    /\ UNCHANGED <<assigned, runs, told>>

\* The caller whose hand-over is recorded is told in the same breath.
RecordAndTell(c) ==
    /\ runs # {}
    /\ recorded' = TRUE
    /\ told' = [told EXCEPT ![c] = assigned]
    /\ UNCHANGED <<assigned, runs>>

ScheduleNext ==
    \/ \E id \in TaskId : Assign(id)
    \/ \E run \in Run : HandOver(run)
    \/ RecordRun
    \/ \E c \in Caller : RecordAndTell(c)

ScheduleSpec == ScheduleInit /\ [][ScheduleNext]_scheduleVars

=============================================================================
