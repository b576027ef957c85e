------------------------------ MODULE ModelScheduling ------------------------------
(***************************************************************************)
(* How the model services accept a job once: schedule_idempotently, for    *)
(* the requests that carry one idempotency key.  A request claims the key  *)
(* in the shared Modal Dict for the length of a lease, hands the job to a  *)
(* worker and records that it did.  Requests that find another's claim     *)
(* wait for it; a claim whose lease is over is taken over, with its id.    *)
(*                                                                         *)
(* The API runs in one container, so one lock guards the key.  Reads and   *)
(* writes of the Dict are calls over the network, each a step.  The ids    *)
(* are random: a request makes one of its own.                             *)
(***************************************************************************)
EXTENDS Naturals, FiniteSets

CONSTANTS
    Request,
    LegacyId,     \* the id of a record written by an earlier version
    None,         \* no record, no holder of the lock, no lease, no answer
    Unreadable,   \* a value in the Dict that is no schedule
    Attempts,     \* SCHEDULING_RESOLUTION_ATTEMPTS: 20 in the code
    MaxFaults     \* bound: failed calls, a dispatch longer than the lease, ends of the process

TaskId == Request \cup {LegacyId}

Attempt == 0 .. Attempts - 1

\* A lease is named by the attempt that took it: no two end at the same time.
Lease == Request \X Attempt

\* TaskSchedule; a recorded schedule and a legacy one have no lease.
Schedule == [status : {"pending", "scheduled"}, id : TaskId, lease : Lease \cup {None}]

Pending(id, lease) == [status |-> "pending", id |-> id, lease |-> lease]

Scheduled(id) == [status |-> "scheduled", id |-> id, lease |-> None]

ASSUME SchedulingAssumption ==
    /\ LegacyId \notin Request
    /\ None \notin TaskId \cup Lease \cup Schedule
    /\ Unreadable \notin Schedule \cup {None}
    /\ Attempts \in Nat \ {0}
    /\ MaxFaults \in Nat

VARIABLES
    record,   \* task_ids[key]
    lapsed,   \* the leases that are over
    lock,     \* who is inside the claim lock
    stage,    \* where each request is
    attempt,  \* which round of the loop it is in
    stored,   \* what it read before it claims
    claim,    \* the schedule it has claimed
    spawned,  \* process_model.spawn calls, as <<lease, id>> pairs
    answer,   \* the id of a 202 response
    faults

schedulingVars ==
    <<record, lapsed, lock, stage, attempt, stored, claim, spawned, answer, faults>>

Stage == {"idle", "reading", "claiming", "dispatching", "checking", "recording",
          "accepted", "unavailable", "error"}

\* The key is new, or an earlier version left a record.
SchedulingInit ==
    /\ record \in {None, Unreadable, Pending(LegacyId, None), Scheduled(LegacyId)}
    /\ lapsed = {}
    /\ lock = None
    /\ stage = [r \in Request |-> "idle"]
    /\ attempt = [r \in Request |-> 0]
    /\ stored = [r \in Request |-> None]
    /\ claim = [r \in Request |-> None]
    /\ spawned = IF record = Scheduled(LegacyId) THEN {<<None, LegacyId>>} ELSE {}
    /\ answer = [r \in Request |-> None]
    /\ faults = 0

At(r, where) == stage[r] = where

GoTo(r, where) == stage' = [stage EXCEPT ![r] = where]

Fault ==
    /\ faults < MaxFaults
    /\ faults' = faults + 1

-----------------------------------------------------------------------------
(* _claim_or_read                                                          *)

IsScheduled(value) == value \notin {None, Unreadable} /\ value.status = "scheduled"

\* Fault: a pending schedule is somebody's for ever.
IsPending(value) == value \notin {None, Unreadable} /\ value.status = "pending"

\* A pending schedule whose lease is not over.
IsHeld(value) ==
    /\ value \notin {None, Unreadable}
    /\ value.status = "pending"
    /\ value.lease # None
    /\ value.lease \notin lapsed

\* _wait_before_retry, or the end of the loop.
NextRound(r) ==
    IF attempt[r] < Attempts - 1
       THEN attempt' = [attempt EXCEPT ![r] = @ + 1] /\ GoTo(r, "reading")
       ELSE GoTo(r, "unavailable") /\ UNCHANGED attempt

Receive(r) ==
    /\ At(r, "idle")
    /\ GoTo(r, "reading")
    /\ UNCHANGED <<record, lapsed, lock, attempt, stored, claim, spawned, answer, faults>>

\* Fault: the record is read outside the lock.
Unlocked == TRUE

Free == lock = None

\* It is held from the read to the write.
Keep(r) == lock' = r

Read(r) ==
    /\ At(r, "reading")
    /\ Free
    /\ \/ /\ IsScheduled(record)
          /\ answer' = [answer EXCEPT ![r] = record.id]
          /\ GoTo(r, "accepted")
          /\ UNCHANGED <<lock, attempt, stored>>
       \/ /\ IsHeld(record) \/ record = Unreadable
          /\ NextRound(r)
          /\ UNCHANGED <<lock, stored, answer>>
       \/ /\ ~ IsScheduled(record) /\ ~ IsHeld(record) /\ record # Unreadable
          /\ Keep(r)
          /\ stored' = [stored EXCEPT ![r] = record]
          /\ GoTo(r, "claiming")
          /\ UNCHANGED <<attempt, answer>>
    /\ UNCHANGED <<record, lapsed, claim, spawned, faults>>

\* A new id for a new key; a claim that is taken over keeps its id.
NewClaim(r) ==
    Pending(IF stored[r] = None THEN r ELSE stored[r].id, <<r, attempt[r]>>)

\* put, with skip_if_exists for a new key.
PutClaim(r) ==
    /\ At(r, "claiming")
    /\ \/ /\ stored[r] # None \/ record = None
          /\ record' = NewClaim(r)
          /\ claim' = [claim EXCEPT ![r] = NewClaim(r)]
          /\ GoTo(r, "dispatching")
          /\ UNCHANGED attempt
       \/ /\ stored[r] = None /\ record # None
          /\ NextRound(r)
          /\ UNCHANGED <<record, claim>>
    /\ lock' = None
    /\ UNCHANGED <<lapsed, stored, spawned, answer, faults>>

\* An error of the Dict here is no SchedulingUnavailableError.
ClaimFails(r) ==
    /\ stage[r] \in {"reading", "claiming"}
    /\ Fault
    /\ \/ At(r, "claiming") /\ record = stored[r] /\ record' = NewClaim(r)
       \/ UNCHANGED record
    /\ lock' = IF lock = r THEN None ELSE lock
    /\ GoTo(r, "error")
    /\ UNCHANGED <<lapsed, attempt, stored, claim, spawned, answer>>

-----------------------------------------------------------------------------
(* dispatch and _finalize_if_owned                                         *)

\* Fault: the schedule is recorded first and handed over afterwards.
RecordThenDispatch(r) ==
    /\ At(r, "dispatching")
    /\ \/ /\ record = claim[r]
          /\ record' = Scheduled(claim[r].id)
          /\ UNCHANGED <<stage, spawned>>
       \/ /\ record # claim[r]
          /\ spawned' = spawned \cup {<<claim[r].lease, claim[r].id>>}
          /\ GoTo(r, "checking")
          /\ UNCHANGED record
    /\ UNCHANGED <<lapsed, lock, attempt, stored, claim, answer, faults>>

Dispatch(r) ==
    /\ At(r, "dispatching")
    /\ spawned' = spawned \cup {<<claim[r].lease, claim[r].id>>}
    /\ GoTo(r, "checking")
    /\ UNCHANGED <<record, lapsed, lock, attempt, stored, claim, answer, faults>>

CheckOwner(r) ==
    /\ At(r, "checking")
    /\ Free
    /\ \/ /\ record = claim[r]
          /\ Keep(r)
          /\ GoTo(r, "recording")
          /\ UNCHANGED attempt
       \/ /\ record # claim[r]
          /\ NextRound(r)
          /\ UNCHANGED lock
    /\ UNCHANGED <<record, lapsed, stored, claim, spawned, answer, faults>>

RecordSchedule(r) ==
    /\ At(r, "recording")
    /\ record' = Scheduled(claim[r].id)
    /\ answer' = [answer EXCEPT ![r] = claim[r].id]
    /\ lock' = None
    /\ GoTo(r, "accepted")
    /\ UNCHANGED <<lapsed, attempt, stored, claim, spawned, faults>>

\* SchedulingUnavailableError from an error, whether or not the call had its
\* effect.
SchedulingFails(r) ==
    /\ stage[r] \in {"dispatching", "checking", "recording"}
    /\ Fault
    /\ \/ /\ At(r, "dispatching")
          /\ spawned' = spawned \cup {<<claim[r].lease, claim[r].id>>}
          /\ UNCHANGED record
       \/ /\ At(r, "recording")
          /\ record' = Scheduled(claim[r].id)
          /\ UNCHANGED spawned
       \/ UNCHANGED <<record, spawned>>
    /\ lock' = IF lock = r THEN None ELSE lock
    /\ GoTo(r, "unavailable")
    /\ UNCHANGED <<lapsed, attempt, stored, claim, answer>>

\* The container ends with every request in it.
ContainerEnds ==
    /\ Fault
    /\ lock' = None
    /\ stage' = [r \in Request |->
                    IF stage[r] \in {"idle", "accepted", "unavailable"} THEN stage[r] ELSE "error"]
    /\ UNCHANGED <<record, lapsed, attempt, stored, claim, spawned, answer>>

Owner(r) ==
    /\ stage[r] \in {"dispatching", "checking", "recording"}
    /\ record = claim[r]

\* SCHEDULING_LEASE_SECONDS after the claim; while its owner is still at work
\* that is a fault.
LeaseLapses ==
    /\ IsHeld(record)
    /\ lapsed' = lapsed \cup {record.lease}
    /\ IF \E r \in Request : Owner(r) THEN Fault ELSE UNCHANGED faults
    /\ UNCHANGED <<record, lock, stage, attempt, stored, claim, spawned, answer>>

RequestStep(r) ==
    Read(r) \/ PutClaim(r) \/ Dispatch(r) \/ CheckOwner(r) \/ RecordSchedule(r)

SchedulingNext ==
    \/ \E r \in Request : Receive(r) \/ RequestStep(r) \/ ClaimFails(r) \/ SchedulingFails(r)
    \/ ContainerEnds
    \/ LeaseLapses

SchedulingSpec == SchedulingInit /\ [][SchedulingNext]_schedulingVars

\* A request that was received goes on, and time passes.
SchedulingFairness ==
    /\ \A r \in Request : WF_schedulingVars(RequestStep(r))
    /\ WF_schedulingVars(LeaseLapses)

FairSchedulingSpec == SchedulingSpec /\ SchedulingFairness

-----------------------------------------------------------------------------
(* Properties                                                              *)

\* Every variable holds a value of its type, and whoever is between a read and
\* a write of the record is inside the lock.
SchedulingTypeOK ==
    /\ record \in Schedule \cup {None, Unreadable}
    /\ lapsed \subseteq Lease
    /\ lock \in Request \cup {None}
    /\ stage \in [Request -> Stage]
    /\ attempt \in [Request -> Attempt]
    /\ stored \in [Request -> Schedule \cup {None}]
    /\ claim \in [Request -> Schedule \cup {None}]
    /\ spawned \subseteq (Lease \cup {None}) \X TaskId
    /\ answer \in [Request -> TaskId \cup {None}]
    /\ faults \in 0 .. MaxFaults
    /\ \A r \in Request : stage[r] \in {"claiming", "recording"} => lock = r

\* The job is handed over again only after a lease has passed without a record
\* of it: of all the hand-overs at most one belongs to a lease that is not
\* over.  Otherwise the GPUs do the work twice, and two callbacks race.
RunsAreLeased ==
    \A p, q \in spawned : p[1] \notin lapsed /\ q[1] \notin lapsed => p = q

Known == record \notin {None, Unreadable}

Abstract == INSTANCE JobSchedule WITH
    TaskId <- TaskId, Run <- Lease \cup {None}, Caller <- Request, NoId <- None,
    assigned <- IF Known THEN record.id ELSE None,
    runs <- spawned,
    recorded <- IsScheduled(record),
    told <- answer

\* The promises of the README: claims are never deleted and keep their id, a
\* recorded schedule stays, and no caller is told that an unscheduled task is
\* queued, whichever calls fail and whoever takes a claim over.
ImplementsJobSchedule == Abstract!ScheduleSpec

\* The README again: neither the end of the process nor a failed write blocks
\* the key.  Once faults have ceased, a request that comes when the claim has
\* lapsed gets the job scheduled.
KeyIsNotBlocked ==
    \A r \in Request :
       (/\ At(r, "reading")
        /\ faults = MaxFaults
        /\ Known /\ record.status = "pending" /\ record.lease \in lapsed \cup {None})
          ~> IsScheduled(record)

=============================================================================
