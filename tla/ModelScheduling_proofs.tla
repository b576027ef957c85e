-------------------------- MODULE ModelScheduling_proofs --------------------------
(***************************************************************************)
(* Proofs about schedule_idempotently, for any number of requests and      *)
(* rounds: the hand-overs of a job are covered by leases, and the shared   *)
(* record keeps the promises of JobSchedule.                               *)
(***************************************************************************)
EXTENDS ModelScheduling, TLAPS

Claimed(r) == stage[r] \in {"dispatching", "checking", "recording"}

LEMMA ScheduleFields ==
    /\ \A id \in TaskId, l \in Lease :
          /\ Pending(id, l) \in Schedule
          /\ Pending(id, l).status = "pending"
          /\ Pending(id, l).id = id
          /\ Pending(id, l).lease = l
    /\ \A id \in TaskId :
          /\ Scheduled(id) \in Schedule
          /\ Scheduled(id).status = "scheduled"
          /\ Scheduled(id).id = id
          /\ Scheduled(id).lease = None
          /\ Pending(id, None) \in Schedule
          /\ Pending(id, None).status = "pending"
          /\ Pending(id, None).id = id
          /\ Pending(id, None).lease = None
    /\ \A v \in Schedule :
          /\ v \notin {None, Unreadable}
          /\ v.status \in {"pending", "scheduled"}
          /\ v.id \in TaskId
          /\ v.lease \in Lease \cup {None}
BY SchedulingAssumption DEF Pending, Scheduled, Schedule

LEMMA AttemptFacts ==
    /\ 0 \in Attempt
    /\ \A a \in Attempt : a \in Nat
    /\ \A a \in Attempt : a < Attempts - 1 => a + 1 \in Attempt
BY SchedulingAssumption DEF Attempt

-----------------------------------------------------------------------------
(* Types                                                                   *)

\* What a request has claimed is pending under a lease of its own.
ClaimsAreOwn ==
    \A r \in Request : Claimed(r) =>
        \E id \in TaskId : claim[r] = Pending(id, <<r, attempt[r]>>)

TypeInv == SchedulingTypeOK /\ ClaimsAreOwn

LEMMA ClaimFields ==
    ASSUME TypeInv, NEW r \in Request, Claimed(r)
    PROVE  /\ claim[r] \in Schedule
           /\ claim[r] \notin {None, Unreadable}
           /\ claim[r].status = "pending"
           /\ claim[r].id \in TaskId
           /\ claim[r].lease = <<r, attempt[r]>>
           /\ claim[r].lease \in Lease
<1>1. PICK id \in TaskId : claim[r] = Pending(id, <<r, attempt[r]>>)
  BY DEF TypeInv, ClaimsAreOwn
<1>2. <<r, attempt[r]>> \in Lease
  BY DEF TypeInv, SchedulingTypeOK, Lease
<1> QED
  BY <1>1, <1>2, ScheduleFields

LEMMA NewClaimFields ==
    ASSUME TypeInv, NEW r \in Request
    PROVE  /\ <<r, attempt[r]>> \in Lease
           /\ \E id \in TaskId : NewClaim(r) = Pending(id, <<r, attempt[r]>>)
           /\ NewClaim(r) \in Schedule
           /\ NewClaim(r) \notin {None, Unreadable}
           /\ NewClaim(r).status = "pending"
           /\ NewClaim(r).lease = <<r, attempt[r]>>
           /\ NewClaim(r).id = IF stored[r] = None THEN r ELSE stored[r].id
<1>1. <<r, attempt[r]>> \in Lease
  BY DEF TypeInv, SchedulingTypeOK, Lease
<1>2. (IF stored[r] = None THEN r ELSE stored[r].id) \in TaskId
  BY ScheduleFields DEF TypeInv, SchedulingTypeOK, TaskId
<1> QED
  BY <1>1, <1>2, ScheduleFields DEF NewClaim

\* The lock is given back by whoever holds it.
LEMMA LockGivenBack ==
    ASSUME TypeInv, NEW r \in Request, NEW where \in Stage \ {"claiming", "recording"},
           lock' = IF lock = r THEN None ELSE lock,
           stage' = [stage EXCEPT ![r] = where]
    PROVE  /\ lock' \in Request \cup {None}
           /\ \A q \in Request : stage'[q] \in {"claiming", "recording"} => lock' = q
BY SchedulingAssumption DEF TypeInv, SchedulingTypeOK

\* Whoever finds the lock free may take it.
LEMMA LockTaken ==
    ASSUME TypeInv, Free, NEW r \in Request, NEW where \in Stage, Keep(r),
           stage' = [stage EXCEPT ![r] = where]
    PROVE  /\ lock' \in Request \cup {None}
           /\ \A q \in Request : stage'[q] \in {"claiming", "recording"} => lock' = q
BY SchedulingAssumption DEF TypeInv, SchedulingTypeOK, Free, Keep, TaskId

LEMMA TypeInit == SchedulingInit => TypeInv
<1> SUFFICES ASSUME SchedulingInit PROVE TypeInv
  OBVIOUS
<1>1. SchedulingTypeOK
  BY ScheduleFields, AttemptFacts, SchedulingAssumption
     DEF SchedulingInit, SchedulingTypeOK, Stage, TaskId
<1>2. ClaimsAreOwn
  BY DEF SchedulingInit, ClaimsAreOwn, Claimed
<1> QED
  BY <1>1, <1>2 DEF TypeInv

LEMMA NextRoundType ==
    ASSUME TypeInv, NEW r \in Request, NextRound(r)
    PROVE  /\ attempt' \in [Request -> Attempt]
           /\ stage' \in [Request -> Stage]
           /\ stage'[r] \in {"reading", "unavailable"}
           /\ \A q \in Request \ {r} : stage'[q] = stage[q] /\ attempt'[q] = attempt[q]
BY AttemptFacts DEF NextRound, GoTo, TypeInv, SchedulingTypeOK, Stage

LEMMA TypeStep ==
    ASSUME TypeInv, [SchedulingNext]_schedulingVars
    PROVE  TypeInv'
<1> USE DEF TypeInv
<1>1. ASSUME NEW r \in Request, Receive(r) PROVE TypeInv'
  BY <1>1 DEF Receive, At, GoTo, SchedulingTypeOK, Stage, ClaimsAreOwn, Claimed
<1>2. ASSUME NEW r \in Request, Read(r) PROVE TypeInv'
  <2>1. CASE IsScheduled(record) /\ answer' = [answer EXCEPT ![r] = record.id]
             /\ GoTo(r, "accepted") /\ UNCHANGED <<lock, attempt, stored>>
    <3>1. record.id \in TaskId
      BY <2>1, ScheduleFields DEF SchedulingTypeOK, IsScheduled
    <3> QED
      BY <1>2, <2>1, <3>1 DEF Read, At, GoTo, SchedulingTypeOK, Stage, ClaimsAreOwn, Claimed
  <2>2. CASE NextRound(r) /\ UNCHANGED <<lock, stored, answer>>
    <3>1. SchedulingTypeOK'
      BY <1>2, <2>2, NextRoundType DEF Read, At, SchedulingTypeOK
    <3>2. ClaimsAreOwn'
      BY <1>2, <2>2, NextRoundType DEF Read, ClaimsAreOwn, Claimed
    <3> QED
      BY <3>1, <3>2
  <2>3. CASE /\ record # Unreadable /\ Keep(r)
             /\ stored' = [stored EXCEPT ![r] = record] /\ GoTo(r, "claiming")
             /\ UNCHANGED <<attempt, answer>>
    <3>1. SchedulingTypeOK'
      BY <1>2, <2>3, LockTaken DEF Read, GoTo, SchedulingTypeOK, Stage
    <3>2. ClaimsAreOwn'
      BY <1>2, <2>3 DEF Read, GoTo, SchedulingTypeOK, ClaimsAreOwn, Claimed
    <3> QED
      BY <3>1, <3>2
  <2> QED
    BY <1>2, <2>1, <2>2, <2>3 DEF Read
<1>3. ASSUME NEW r \in Request, PutClaim(r) PROVE TypeInv'
  <2>1. CASE /\ record' = NewClaim(r) /\ claim' = [claim EXCEPT ![r] = NewClaim(r)]
             /\ GoTo(r, "dispatching") /\ UNCHANGED attempt
    <3>1. SchedulingTypeOK'
      <4>1. NewClaim(r) \in Schedule
        BY NewClaimFields
      <4> QED
        BY <1>3, <2>1, <4>1, SchedulingAssumption
           DEF PutClaim, At, GoTo, SchedulingTypeOK, Stage
    <3>2. ClaimsAreOwn'
      BY <1>3, <2>1, NewClaimFields
         DEF PutClaim, At, GoTo, SchedulingTypeOK, ClaimsAreOwn, Claimed
    <3> QED
      BY <3>1, <3>2
  <2>2. CASE NextRound(r) /\ UNCHANGED <<record, claim>>
    <3>1. SchedulingTypeOK'
      BY <1>3, <2>2, NextRoundType DEF PutClaim, At, SchedulingTypeOK
    <3>2. ClaimsAreOwn'
      BY <1>3, <2>2, NextRoundType DEF PutClaim, ClaimsAreOwn, Claimed
    <3> QED
      BY <3>1, <3>2
  <2> QED
    BY <1>3, <2>1, <2>2 DEF PutClaim
<1>4. ASSUME NEW r \in Request, ClaimFails(r) PROVE TypeInv'
  <2>1. SchedulingTypeOK'
    <3>1. record' \in Schedule \cup {None, Unreadable} /\ faults' \in 0 .. MaxFaults
      <4>1. NewClaim(r) \in Schedule
        BY NewClaimFields
      <4> QED
        BY <1>4, <4>1, SchedulingAssumption DEF ClaimFails, Fault, SchedulingTypeOK
    <3> QED
      BY <1>4, <3>1, LockGivenBack DEF ClaimFails, GoTo, SchedulingTypeOK, Stage
  <2>2. ClaimsAreOwn'
    BY <1>4 DEF ClaimFails, GoTo, SchedulingTypeOK, ClaimsAreOwn, Claimed
  <2> QED
    BY <2>1, <2>2
<1>5. ASSUME NEW r \in Request, Dispatch(r) PROVE TypeInv'
  <2>1. claim[r].lease \in Lease /\ claim[r].id \in TaskId
    BY <1>5, ClaimFields DEF Dispatch, At, Claimed
  <2> QED
    BY <1>5, <2>1 DEF Dispatch, At, GoTo, SchedulingTypeOK, Stage, ClaimsAreOwn, Claimed
<1>6. ASSUME NEW r \in Request, CheckOwner(r) PROVE TypeInv'
  <2>1. CASE Keep(r) /\ GoTo(r, "recording") /\ UNCHANGED attempt
    <3>1. SchedulingTypeOK'
      BY <1>6, <2>1, LockTaken DEF CheckOwner, GoTo, SchedulingTypeOK, Stage
    <3>2. ClaimsAreOwn'
      BY <1>6, <2>1 DEF CheckOwner, At, GoTo, SchedulingTypeOK, ClaimsAreOwn, Claimed
    <3> QED
      BY <3>1, <3>2
  <2>2. CASE NextRound(r) /\ UNCHANGED lock
    <3>1. SchedulingTypeOK'
      BY <1>6, <2>2, NextRoundType DEF CheckOwner, At, SchedulingTypeOK
    <3>2. ClaimsAreOwn'
      BY <1>6, <2>2, NextRoundType DEF CheckOwner, ClaimsAreOwn, Claimed
    <3> QED
      BY <3>1, <3>2
  <2> QED
    BY <1>6, <2>1, <2>2 DEF CheckOwner
<1>7. ASSUME NEW r \in Request, RecordSchedule(r) PROVE TypeInv'
  <2>1. claim[r].id \in TaskId /\ Scheduled(claim[r].id) \in Schedule
    BY <1>7, ClaimFields, ScheduleFields DEF RecordSchedule, At, Claimed
  <2> QED
    BY <1>7, <2>1, SchedulingAssumption
       DEF RecordSchedule, At, GoTo, SchedulingTypeOK, Stage, ClaimsAreOwn, Claimed
<1>8. ASSUME NEW r \in Request, SchedulingFails(r) PROVE TypeInv'
  <2>1. claim[r].id \in TaskId /\ claim[r].lease \in Lease /\ Scheduled(claim[r].id) \in Schedule
    BY <1>8, ClaimFields, ScheduleFields DEF SchedulingFails, Claimed
  <2>2. SchedulingTypeOK'
    <3>1. /\ record' \in Schedule \cup {None, Unreadable}
          /\ spawned' \subseteq (Lease \cup {None}) \X TaskId
          /\ faults' \in 0 .. MaxFaults
      BY <1>8, <2>1, SchedulingAssumption DEF SchedulingFails, Fault, At, SchedulingTypeOK
    <3>2. /\ stage' = [stage EXCEPT ![r] = "unavailable"]
          /\ lock' = IF lock = r THEN None ELSE lock
          /\ UNCHANGED <<lapsed, attempt, stored, claim, answer>>
      BY <1>8 DEF SchedulingFails, GoTo
    <3> QED
      BY <3>1, <3>2, SchedulingAssumption DEF SchedulingTypeOK, Stage
  <2>3. ClaimsAreOwn'
    BY <1>8 DEF SchedulingFails, GoTo, SchedulingTypeOK, ClaimsAreOwn, Claimed
  <2> QED
    BY <2>2, <2>3
<1>9. CASE ContainerEnds
  BY <1>9, SchedulingAssumption DEF ContainerEnds, Fault, SchedulingTypeOK, Stage, ClaimsAreOwn, Claimed
<1>10. CASE LeaseLapses
  <2>1. record.lease \in Lease
    BY <1>10, ScheduleFields DEF LeaseLapses, IsHeld, SchedulingTypeOK
  <2> QED
    BY <1>10, <2>1, SchedulingAssumption
       DEF LeaseLapses, Fault, SchedulingTypeOK, ClaimsAreOwn, Claimed
<1>11. CASE UNCHANGED schedulingVars
  BY <1>11 DEF schedulingVars, SchedulingTypeOK, ClaimsAreOwn, Claimed
<1> QED
  BY <1>1, <1>2, <1>3, <1>4, <1>5, <1>6, <1>7, <1>8, <1>9, <1>10, <1>11
     DEF SchedulingNext, RequestStep

\* Every variable keeps its type, and a request between a read and a write of
\* the record is inside the lock.
THEOREM SchedulingTypeCorrect == SchedulingSpec => []SchedulingTypeOK
<1>1. SchedulingSpec => []TypeInv
  BY TypeInit, TypeStep, PTL DEF SchedulingSpec
<1> QED
  BY <1>1, PTL DEF TypeInv

-----------------------------------------------------------------------------
(* Leases                                                                  *)

\* Inside the lock the record is what was read there.
LockedReads ==
    \A r \in Request :
        /\ stage[r] = "claiming" =>
              /\ record = stored[r]
              /\ record # Unreadable
              /\ ~ IsScheduled(record)
              /\ ~ IsHeld(record)
        /\ stage[r] = "recording" => record = claim[r]

\* A claim is the record, or its lease is over; its id is the record's.
ClaimsLapse ==
    \A r \in Request : Claimed(r) =>
        /\ record = claim[r] \/ claim[r].lease \in lapsed
        /\ Known
        /\ record.id = claim[r].id

\* The lease of a hand-over was taken in a round that is past its dispatch.
LeasesArePast ==
    \A p \in spawned, r \in Request, a \in Attempt :
        p[1] = <<r, a>> =>
            /\ a <= attempt[r]
            /\ a = attempt[r] => stage[r] \notin {"idle", "reading", "claiming", "dispatching"}

\* While nothing is recorded, the hand-overs whose lease is not over are the
\* record's.
HandOversLapse ==
    /\ ~ IsScheduled(record) =>
          \A p \in spawned :
             /\ p[1] # None
             /\ p[1] \in lapsed \/ (Known /\ p = <<record.lease, record.id>>)
    /\ RunsAreLeased

\* All hand-overs are of one task, and a recorded schedule had one.
HandOversAgree ==
    /\ \A p \in spawned : Known /\ p[2] = record.id
    /\ IsScheduled(record) => spawned # {}
    /\ \A r \in Request : stage[r] \in {"checking", "recording"} => spawned # {}

LeaseInv ==
    TypeInv /\ LockedReads /\ ClaimsLapse /\ LeasesArePast /\ HandOversLapse /\ HandOversAgree

LEMMA LeaseInit == SchedulingInit => LeaseInv
<1> SUFFICES ASSUME SchedulingInit PROVE LeaseInv
  OBVIOUS
<1>1. TypeInv
  BY TypeInit
<1>2. LockedReads /\ ClaimsLapse
  BY DEF SchedulingInit, LockedReads, ClaimsLapse, Claimed
<1>3. \/ spawned = {} /\ ~ IsScheduled(record)
      \/ spawned = {<<None, LegacyId>>} /\ record = Scheduled(LegacyId)
  BY ScheduleFields, SchedulingAssumption DEF SchedulingInit, IsScheduled, TaskId
<1>4. LegacyId \in TaskId /\ None \notin Lease
  BY SchedulingAssumption DEF TaskId
<1>5. LeasesArePast
  BY <1>3, <1>4 DEF LeasesArePast, Lease
<1>6. HandOversLapse
  BY <1>3, <1>4, ScheduleFields DEF HandOversLapse, IsScheduled, RunsAreLeased
<1>7. Scheduled(LegacyId) \notin {None, Unreadable} /\ Scheduled(LegacyId).id = LegacyId
  BY <1>4, ScheduleFields
<1>8. HandOversAgree
  <2>1. \A r \in Request : stage[r] \notin {"checking", "recording"}
    BY DEF SchedulingInit
  <2>2. CASE spawned = {} /\ ~ IsScheduled(record)
    BY <2>1, <2>2 DEF HandOversAgree
  <2>3. CASE spawned = {<<None, LegacyId>>} /\ record = Scheduled(LegacyId)
    BY <1>7, <2>1, <2>3 DEF HandOversAgree, Known
  <2> QED
    BY <1>3, <2>2, <2>3
<1> QED
  BY <1>1, <1>2, <1>5, <1>6, <1>8 DEF LeaseInv

\* A step that changes neither the record nor the claims and hands nothing over.
LEMMA QuietStep ==
    ASSUME LeaseInv, TypeInv', UNCHANGED <<record, claim, spawned>>,
           lapsed \subseteq lapsed',
           \A r \in Request :
              /\ Claimed(r)' => Claimed(r)
              /\ attempt'[r] = attempt[r] \/ (attempt'[r] = attempt[r] + 1 /\ ~ Claimed(r)')
              /\ attempt'[r] = attempt[r] /\ stage'[r] \in {"reading", "claiming", "dispatching"}
                    => stage[r] \in {"idle", "reading", "claiming", "dispatching"}
              /\ stage'[r] = "idle" => stage[r] = "idle"
              /\ stage'[r] \in {"checking", "recording"} => stage[r] \in {"checking", "recording"}
              /\ stage'[r] = "claiming" =>
                    \/ stage[r] = "claiming" /\ stored'[r] = stored[r]
                    \/ /\ stored'[r] = record /\ record # Unreadable
                       /\ ~ IsScheduled(record) /\ ~ IsHeld(record)
              /\ stage'[r] = "recording" => stage[r] = "recording" \/ record = claim[r]
    PROVE  LeaseInv'
<1>1. LockedReads'
  BY DEF LeaseInv, LockedReads, IsScheduled, IsHeld
<1>2. ClaimsLapse'
  BY DEF LeaseInv, ClaimsLapse, Known
<1>3. LeasesArePast'
  <2> SUFFICES ASSUME NEW p \in spawned, NEW r \in Request, NEW a \in Attempt, p[1] = <<r, a>>
               PROVE  /\ a <= attempt'[r]
                      /\ a = attempt'[r] =>
                            stage'[r] \notin {"idle", "reading", "claiming", "dispatching"}
    BY DEF LeasesArePast
  <2>1. /\ a <= attempt[r]
        /\ a = attempt[r] => stage[r] \notin {"idle", "reading", "claiming", "dispatching"}
    BY DEF LeaseInv, LeasesArePast
  <2>2. a \in Nat /\ attempt[r] \in Nat
    BY AttemptFacts DEF LeaseInv, TypeInv, SchedulingTypeOK
  <2> QED
    BY <2>1, <2>2
<1>4. HandOversLapse'
  BY DEF LeaseInv, HandOversLapse, RunsAreLeased, Known, IsScheduled
<1>5. HandOversAgree'
  BY DEF LeaseInv, HandOversAgree, Known, IsScheduled
<1> QED
  BY <1>1, <1>2, <1>3, <1>4, <1>5 DEF LeaseInv

\* A claim that has lapsed, or a new key, is claimed.
LEMMA ClaimStep ==
    ASSUME LeaseInv, TypeInv', NEW r \in Request, stage[r] = "claiming", record' = NewClaim(r),
           UNCHANGED <<lapsed, spawned, attempt, stored>>,
           \/ /\ claim' = [claim EXCEPT ![r] = NewClaim(r)]
              /\ stage' = [stage EXCEPT ![r] = "dispatching"]
           \/ claim' = claim /\ stage' = [stage EXCEPT ![r] = "error"]
    PROVE  LeaseInv'
<1> USE DEF LeaseInv
<1>1. /\ record = stored[r] /\ record # Unreadable
      /\ ~ IsScheduled(record) /\ ~ IsHeld(record)
  BY DEF LockedReads
<1>2. /\ NewClaim(r) \notin {None, Unreadable}
      /\ NewClaim(r).lease = <<r, attempt[r]>>
      /\ NewClaim(r).status = "pending"
      /\ Known => NewClaim(r).id = record.id
  BY <1>1, NewClaimFields DEF Known
<1>3. Known => record.status = "pending" /\ record.lease \in lapsed \cup {None}
  BY <1>1, ScheduleFields DEF Known, IsScheduled, IsHeld, TypeInv, SchedulingTypeOK
<1>4. \A q \in Request : Claimed(q) => claim[q].lease \in lapsed
  BY <1>3, ClaimFields, SchedulingAssumption DEF ClaimsLapse
<1>5. \A q \in Request \ {r} : stage'[q] = stage[q] /\ claim'[q] = claim[q]
  BY DEF TypeInv, SchedulingTypeOK
<1>6. stage'[r] \in {"dispatching", "error"} /\ (stage'[r] = "dispatching" => claim'[r] = NewClaim(r))
  BY DEF TypeInv, SchedulingTypeOK
<1>7. \A q \in Request \ {r} : stage[q] \notin {"claiming", "recording"}
  BY DEF TypeInv, SchedulingTypeOK
<1>8. LockedReads'
  BY <1>5, <1>6, <1>7 DEF LockedReads
<1>9. ClaimsLapse'
  BY <1>2, <1>4, <1>5, <1>6 DEF ClaimsLapse, Claimed, Known
<1>10. LeasesArePast'
  BY <1>5, <1>6 DEF LeasesArePast
<1>11. \A p \in spawned : p[1] # None /\ p[1] \in lapsed
  BY <1>1, <1>3 DEF HandOversLapse
<1>12. HandOversLapse'
  BY <1>11 DEF HandOversLapse, RunsAreLeased
<1>13. HandOversAgree'
  BY <1>2, <1>5, <1>6 DEF HandOversAgree, Known, IsScheduled
<1> QED
  BY <1>8, <1>9, <1>10, <1>12, <1>13

\* What was claimed is handed over.
LEMMA HandOverStep ==
    ASSUME LeaseInv, TypeInv', NEW r \in Request, stage[r] = "dispatching",
           spawned' = spawned \cup {<<claim[r].lease, claim[r].id>>},
           UNCHANGED <<record, lapsed, attempt, stored, claim>>,
           \/ stage' = [stage EXCEPT ![r] = "checking"]
           \/ stage' = [stage EXCEPT ![r] = "unavailable"]
    PROVE  LeaseInv'
<1> USE DEF LeaseInv
<1>1. /\ Claimed(r)
      /\ claim[r].lease = <<r, attempt[r]>> /\ claim[r].lease \in Lease
      /\ claim[r].id = record.id
      /\ Known
      /\ record = claim[r] \/ claim[r].lease \in lapsed
      /\ claim[r].status = "pending"
  BY ClaimFields DEF Claimed, ClaimsLapse
<1>2. \A q \in Request \ {r} : stage'[q] = stage[q]
  BY DEF TypeInv, SchedulingTypeOK
<1>3. stage'[r] \in {"checking", "unavailable"}
  BY DEF TypeInv, SchedulingTypeOK
<1>4. LockedReads'
  BY <1>2, <1>3 DEF LockedReads, IsScheduled, IsHeld
<1>5. ClaimsLapse'
  BY <1>1, <1>2, <1>3 DEF ClaimsLapse, Claimed, Known
<1>6. LeasesArePast'
  <2> SUFFICES ASSUME NEW p \in spawned', NEW q \in Request, NEW a \in Attempt, p[1] = <<q, a>>
               PROVE  /\ a <= attempt[q]
                      /\ a = attempt[q] =>
                            stage'[q] \notin {"idle", "reading", "claiming", "dispatching"}
    BY DEF LeasesArePast
  <2>1. CASE p \in spawned
    BY <1>2, <1>3, <2>1 DEF LeasesArePast
  <2>2. CASE p = <<claim[r].lease, claim[r].id>>
    <3>1. q = r /\ a = attempt[r]
      BY <1>1, <2>2
    <3> QED
      BY <1>3, <3>1, AttemptFacts
  <2> QED
    BY <2>1, <2>2
<1>7. IsScheduled(record) => claim[r].lease \in lapsed
  BY <1>1 DEF IsScheduled
<1>8. HandOversLapse'
  BY <1>1, <1>7, SchedulingAssumption DEF HandOversLapse, RunsAreLeased, Known, IsScheduled
<1>9. HandOversAgree'
  <2>1. \A p \in spawned' : p[2] = record.id
    BY <1>1 DEF HandOversAgree
  <2>2. spawned' # {} /\ Known'
    BY <1>1 DEF Known
  <2> QED
    BY <2>1, <2>2 DEF HandOversAgree
<1> QED
  BY <1>4, <1>5, <1>6, <1>8, <1>9

\* The owner records its schedule.
LEMMA RecordStep ==
    ASSUME LeaseInv, TypeInv', NEW r \in Request, stage[r] = "recording",
           record' = Scheduled(claim[r].id),
           UNCHANGED <<lapsed, attempt, stored, claim, spawned>>,
           \/ stage' = [stage EXCEPT ![r] = "accepted"]
           \/ stage' = [stage EXCEPT ![r] = "unavailable"]
    PROVE  LeaseInv'
<1> USE DEF LeaseInv
<1>1. Claimed(r) /\ record = claim[r] /\ Known /\ spawned # {}
  BY DEF Claimed, LockedReads, ClaimsLapse, HandOversAgree
<1>2. /\ record'.id = record.id
      /\ record' \notin {None, Unreadable}
      /\ record'.status = "scheduled"
  BY <1>1, ClaimFields, ScheduleFields
<1>3. \A q \in Request \ {r} : Claimed(q) => claim[q].lease \in lapsed
  BY <1>1, ClaimFields DEF ClaimsLapse
<1>4. \A q \in Request \ {r} : stage'[q] = stage[q] /\ stage[q] \notin {"claiming", "recording"}
  BY DEF TypeInv, SchedulingTypeOK
<1>5. stage'[r] \in {"accepted", "unavailable"}
  BY DEF TypeInv, SchedulingTypeOK
<1>6. LockedReads'
  BY <1>4, <1>5 DEF LockedReads
<1>7. ClaimsLapse'
  BY <1>2, <1>3, <1>4, <1>5 DEF ClaimsLapse, Claimed, Known
<1>8. LeasesArePast'
  BY <1>4, <1>5 DEF LeasesArePast
<1>9. HandOversLapse'
  BY <1>2 DEF HandOversLapse, RunsAreLeased, IsScheduled
<1>10. HandOversAgree'
  BY <1>1, <1>2 DEF HandOversAgree, Known, IsScheduled
<1> QED
  BY <1>6, <1>7, <1>8, <1>9, <1>10

LEMMA LeaseStep ==
    ASSUME LeaseInv, [SchedulingNext]_schedulingVars
    PROVE  LeaseInv'
<1>1. TypeInv'
  BY TypeStep DEF LeaseInv
<1> USE DEF LeaseInv, TypeInv, SchedulingTypeOK
<1>2. ASSUME NEW r \in Request, Receive(r) PROVE LeaseInv'
  BY <1>1, <1>2, QuietStep DEF Receive, At, GoTo, Claimed
<1>3. ASSUME NEW r \in Request, Read(r) PROVE LeaseInv'
  BY <1>1, <1>3, QuietStep DEF Read, At, GoTo, NextRound, Claimed
<1>4. ASSUME NEW r \in Request, PutClaim(r) PROVE LeaseInv'
  <2>1. CASE /\ record' = NewClaim(r) /\ claim' = [claim EXCEPT ![r] = NewClaim(r)]
             /\ GoTo(r, "dispatching") /\ UNCHANGED attempt
    BY <1>1, <1>4, <2>1, ClaimStep DEF PutClaim, At, GoTo
  <2>2. CASE NextRound(r) /\ UNCHANGED <<record, claim>>
    BY <1>1, <1>4, <2>2, QuietStep DEF PutClaim, At, GoTo, NextRound, Claimed
  <2> QED
    BY <1>4, <2>1, <2>2 DEF PutClaim
<1>5. ASSUME NEW r \in Request, ClaimFails(r) PROVE LeaseInv'
  <2>1. CASE stage[r] = "claiming" /\ record' = NewClaim(r)
    BY <1>1, <1>5, <2>1, ClaimStep DEF ClaimFails, GoTo
  <2>2. CASE UNCHANGED record
    BY <1>1, <1>5, <2>2, QuietStep DEF ClaimFails, GoTo, Claimed
  <2> QED
    BY <1>5, <2>1, <2>2 DEF ClaimFails, At
<1>6. ASSUME NEW r \in Request, Dispatch(r) PROVE LeaseInv'
  BY <1>1, <1>6, HandOverStep DEF Dispatch, At, GoTo
<1>7. ASSUME NEW r \in Request, CheckOwner(r) PROVE LeaseInv'
  <2>1. CASE record = claim[r] /\ GoTo(r, "recording") /\ UNCHANGED attempt
    BY <1>1, <1>7, <2>1, QuietStep DEF CheckOwner, At, GoTo, Claimed
  <2>2. CASE GoTo(r, "reading") /\ attempt' = [attempt EXCEPT ![r] = @ + 1]
    <3>1. \A q \in Request \ {r} : stage'[q] = stage[q] /\ attempt'[q] = attempt[q]
      BY <2>2 DEF GoTo
    <3>2. stage'[r] = "reading" /\ attempt'[r] = attempt[r] + 1
      BY <2>2 DEF GoTo
    <3>3. \A q \in Request : attempt'[q] = attempt[q] => q # r
      BY <3>2, AttemptFacts
    <3>4. UNCHANGED <<record, claim, spawned, lapsed, stored>>
      BY <1>7 DEF CheckOwner
    <3>5. UNCHANGED <<record, claim, spawned>> /\ lapsed \subseteq lapsed'
      BY <3>4
    <3> QED
      BY ONLY LeaseInv, <1>1, <3>1, <3>2, <3>3, <3>4, <3>5, QuietStep DEF Claimed
  <2>3. CASE GoTo(r, "unavailable") /\ UNCHANGED attempt
    BY <1>1, <1>7, <2>3, QuietStep DEF CheckOwner, At, GoTo, Claimed
  <2> QED
    BY <1>7, <2>1, <2>2, <2>3 DEF CheckOwner, NextRound
<1>8. ASSUME NEW r \in Request, RecordSchedule(r) PROVE LeaseInv'
  BY <1>1, <1>8, RecordStep DEF RecordSchedule, At, GoTo
<1>9. ASSUME NEW r \in Request, SchedulingFails(r) PROVE LeaseInv'
  <2>1. CASE stage[r] = "dispatching" /\ spawned' # spawned
    BY <1>1, <1>9, <2>1, HandOverStep DEF SchedulingFails, At, GoTo
  <2>2. CASE stage[r] = "recording" /\ record' # record
    BY <1>1, <1>9, <2>2, RecordStep DEF SchedulingFails, At, GoTo
  <2>3. CASE UNCHANGED <<record, spawned>>
    BY <1>1, <1>9, <2>3, QuietStep DEF SchedulingFails, At, GoTo, Claimed
  <2> QED
    BY <1>9, <2>1, <2>2, <2>3 DEF SchedulingFails, At
<1>10. CASE ContainerEnds
  BY <1>1, <1>10, QuietStep DEF ContainerEnds, Claimed
<1>11. CASE LeaseLapses
  BY <1>1, <1>11, QuietStep DEF LeaseLapses, Claimed
<1>12. CASE UNCHANGED schedulingVars
  BY <1>1, <1>12, QuietStep DEF schedulingVars, Claimed
<1> QED
  BY <1>2, <1>3, <1>4, <1>5, <1>6, <1>7, <1>8, <1>9, <1>10, <1>11, <1>12
     DEF SchedulingNext, RequestStep

LEMMA LeaseInvariant == SchedulingSpec => []LeaseInv
BY LeaseInit, LeaseStep, PTL DEF SchedulingSpec

\* A job is handed over again only after the lease of the earlier hand-over has
\* passed: of all its hand-overs at most one is under a lease that is not over.
THEOREM RunsAreLeasedAlways == SchedulingSpec => []RunsAreLeased
<1>1. LeaseInv => RunsAreLeased
  BY DEF LeaseInv, HandOversLapse
<1> QED
  BY <1>1, LeaseInvariant, PTL

-----------------------------------------------------------------------------
(* The abstract schedule                                                   *)

LEMMA ScheduleStarts == SchedulingInit => Abstract!ScheduleInit
<1> SUFFICES ASSUME SchedulingInit PROVE Abstract!ScheduleInit
  OBVIOUS
<1>1. CASE record \in {None, Unreadable}
  BY <1>1, ScheduleFields DEF SchedulingInit, Abstract!ScheduleInit, Known, IsScheduled, TaskId
<1>2. CASE record = Pending(LegacyId, None)
  BY <1>2, ScheduleFields DEF SchedulingInit, Abstract!ScheduleInit, Known, IsScheduled, TaskId
<1>3. CASE record = Scheduled(LegacyId)
  BY <1>3, ScheduleFields, SchedulingAssumption
     DEF SchedulingInit, Abstract!ScheduleInit, Known, IsScheduled, TaskId
<1> QED
  BY <1>1, <1>2, <1>3 DEF SchedulingInit

LEMMA ScheduleSteps ==
    ASSUME LeaseInv, [SchedulingNext]_schedulingVars
    PROVE  [Abstract!ScheduleNext]_(Abstract!scheduleVars)
<1> USE DEF LeaseInv
<1> DEFINE Still == Known' = Known /\ (Known => record'.id = record.id)
                       /\ IsScheduled(record)' = IsScheduled(record)
<1>1. Still /\ UNCHANGED <<spawned, answer>> => UNCHANGED Abstract!scheduleVars
  BY DEF Abstract!scheduleVars
<1>2. UNCHANGED record => Still
  BY DEF Known, IsScheduled
<1>3. ASSUME NEW r \in Request, stage[r] = "claiming", record' = NewClaim(r),
             UNCHANGED <<spawned, answer>>
      PROVE  [Abstract!ScheduleNext]_(Abstract!scheduleVars)
  <2>1. record = stored[r] /\ record # Unreadable /\ ~ IsScheduled(record)
    BY <1>3 DEF LockedReads
  <2>2. Known' /\ ~ IsScheduled(record)'
    BY <1>3, NewClaimFields DEF Known, IsScheduled
  <2>3. CASE Known
    <3>1. stored[r] # None /\ record'.id = record.id
      BY <1>3, <2>1, <2>3, NewClaimFields DEF Known
    <3>2. Still
      BY <2>1, <2>2, <2>3, <3>1 DEF Known, IsScheduled
    <3> QED
      BY <1>1, <1>3, <3>2
  <2>4. CASE ~ Known
    <3>1. record = None /\ record'.id = r
      BY <1>3, <2>1, <2>4, NewClaimFields DEF Known
    <3> QED
      <4>1. IsScheduled(record)' = IsScheduled(record)
        BY <2>1, <2>2 DEF IsScheduled
      <4>2. Abstract!Assign(r)
        BY <1>3, <2>2, <2>4, <3>1, <4>1 DEF Abstract!Assign
      <4> QED
        BY <4>2 DEF Abstract!ScheduleNext, TaskId
  <2> QED
    BY <2>3, <2>4
<1>4. ASSUME NEW r \in Request, stage[r] = "dispatching",
             spawned' = spawned \cup {<<claim[r].lease, claim[r].id>>},
             UNCHANGED <<record, answer>>
      PROVE  Abstract!ScheduleNext
  <2>1. /\ claim[r].lease = <<r, attempt[r]>> /\ claim[r].lease \in Lease
        /\ Known /\ record.id = claim[r].id /\ claim[r].id # None
    BY <1>4, ClaimFields, SchedulingAssumption DEF Claimed, ClaimsLapse
  <2>2. \A p \in spawned : p[1] # claim[r].lease
    BY <1>4, <2>1 DEF LeasesArePast, TypeInv, SchedulingTypeOK
  <2> QED
    BY <1>2, <1>4, <2>1, <2>2 DEF Abstract!ScheduleNext, Abstract!HandOver
<1>5. ASSUME NEW r \in Request, stage[r] = "recording", record' = Scheduled(claim[r].id),
             UNCHANGED spawned,
             answer' = answer \/ answer' = [answer EXCEPT ![r] = claim[r].id]
      PROVE  Abstract!ScheduleNext
  <2>1. Known /\ record.id = claim[r].id /\ spawned # {}
    BY <1>5 DEF Claimed, ClaimsLapse, HandOversAgree
  <2>2. Known' /\ record'.id = record.id /\ IsScheduled(record)'
    BY <1>5, <2>1, ClaimFields, ScheduleFields DEF Claimed, Known, IsScheduled
  <2>3. CASE answer' = answer
    BY <1>5, <2>1, <2>2, <2>3 DEF Abstract!ScheduleNext, Abstract!RecordRun
  <2>4. CASE answer' = [answer EXCEPT ![r] = claim[r].id]
    BY <1>5, <2>1, <2>2, <2>4 DEF Abstract!ScheduleNext, Abstract!RecordAndTell
  <2> QED
    BY <1>5, <2>3, <2>4
<1>6. ASSUME NEW r \in Request, Read(r), answer' # answer PROVE Abstract!ScheduleNext
  <2>1. /\ IsScheduled(record) /\ spawned # {} /\ Known
        /\ answer' = [answer EXCEPT ![r] = record.id]
        /\ UNCHANGED <<record, spawned>>
    BY <1>6 DEF Read, HandOversAgree, IsScheduled, Known
  <2> QED
    BY <1>2, <2>1 DEF Abstract!ScheduleNext, Abstract!RecordAndTell
<1>7. ASSUME NEW r \in Request, RequestStep(r)
      PROVE  [Abstract!ScheduleNext]_(Abstract!scheduleVars)
  <2>1. CASE Read(r)
    BY <1>1, <1>2, <1>6, <2>1 DEF Read
  <2>2. CASE PutClaim(r)
    BY <1>1, <1>2, <1>3, <2>2 DEF PutClaim, At
  <2>3. CASE Dispatch(r)
    BY <1>4, <2>3 DEF Dispatch, At
  <2>4. CASE CheckOwner(r)
    BY <1>1, <1>2, <2>4 DEF CheckOwner
  <2>5. CASE RecordSchedule(r)
    BY <1>5, <2>5 DEF RecordSchedule, At
  <2> QED
    BY <1>7, <2>1, <2>2, <2>3, <2>4, <2>5 DEF RequestStep
<1>8. ASSUME NEW r \in Request, ClaimFails(r) \/ SchedulingFails(r) \/ Receive(r)
      PROVE  [Abstract!ScheduleNext]_(Abstract!scheduleVars)
  <2>1. CASE Receive(r)
    BY <1>1, <1>2, <2>1 DEF Receive
  <2>2. CASE ClaimFails(r)
    BY <1>1, <1>2, <1>3, <2>2 DEF ClaimFails, At
  <2>3. CASE SchedulingFails(r)
    BY <1>1, <1>2, <1>4, <1>5, <2>3 DEF SchedulingFails, At
  <2> QED
    BY <1>8, <2>1, <2>2, <2>3
<1>9. CASE ContainerEnds \/ LeaseLapses \/ UNCHANGED schedulingVars
  BY <1>1, <1>2, <1>9 DEF ContainerEnds, LeaseLapses, schedulingVars
<1> QED
  BY <1>7, <1>8, <1>9 DEF SchedulingNext

\* Claims keep their id, a recorded schedule stays, and a caller is told of a
\* task only after it was handed over: the shared record, under failing calls,
\* lapsing leases and ends of the process, is a JobSchedule.
THEOREM ModelSchedulingRefines == SchedulingSpec => ImplementsJobSchedule
BY ScheduleStarts, ScheduleSteps, LeaseInvariant, PTL
   DEF SchedulingSpec, ImplementsJobSchedule, Abstract!ScheduleSpec

=============================================================================
