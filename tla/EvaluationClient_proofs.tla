-------------------------- MODULE EvaluationClient_proofs --------------------------
(***************************************************************************)
(* Proofs about the browser's page, for any stages, any number of          *)
(* evaluations, runs and faults.  The inductive invariant says that there  *)
(* is one run at a time which may touch the tracker, by its promise or by  *)
(* its socket, and that whatever such a run brings was true when it was    *)
(* read: an evaluation only moves on.                                      *)
(***************************************************************************)
EXTENDS EvaluationClient, TLAPS

\* What was once read of a status: it may have moved on since.
Past(old, new) ==
    /\ old.reached \in 1 .. new.reached
    /\ old.outcome # None => old.outcome = new.outcome
    /\ old.outcome = "SUCCEEDED" => old.reached = LastEvent

\* A success has all its events, and what the page knows of has been submitted.
StatusesAreReal ==
    \A e \in Evaluation :
        /\ status[e].outcome = "SUCCEEDED" => status[e].reached = LastEvent
        /\ (status[e].outcome # None \/ jobs[e] # None \/ e \in access \/ e \in listed)
               => status[e].reached >= 1

\* What the unresolved promises are about.
CallsAreReal ==
    \A t \in Run :
        call[t] # None =>
            /\ call[t].kind = "start" => call[t].seen = None
            /\ call[t].kind = "resume" =>
                  call[t].evaluation # None /\ status[call[t].evaluation].reached >= 1
            /\ call[t].seen # None => Past(call[t].seen, status[call[t].evaluation])

\* The latest run has an unresolved promise, a subscription, or neither; while
\* nothing is shown the tracker is the initial one.
OneRun ==
    /\ OneSubscription
    /\ followed # None => followed = runToken /\ call[followed] = None
    /\ \A t \in Run : call[t] # None /\ t = runToken => ~ HasRun
    /\ ~ HasRun => state = InitialState

\* While a run is on, a stage is as far as some event of the log says, and no
\* less far than any frame that has come.
StagesAreLogged ==
    Running =>
        /\ \A s \in Stage :
              \/ state.stages[s] = "pending"
              \/ [stage |-> s, to |-> state.stages[s]] \in Log(state.evaluation)
        /\ \A ev \in state.events :
              /\ ev.stage # "result"
              /\ state.stages[ev.stage] \in {ev.to, "complete"}

ClientInv ==
    /\ ClientTypeOK
    /\ StatusesAreReal
    /\ CallsAreReal
    /\ OneRun
    /\ HasRun => status[state.evaluation].reached >= 1
    /\ TrackerIsTrue
    /\ StagesAreLogged

-----------------------------------------------------------------------------
(* The stages and their events                                             *)

LEMMA ClientConstants ==
    /\ MaxEvaluations \in Nat /\ MaxRuns \in Nat /\ MaxFaults \in Nat
    /\ Len(Work) \in Nat /\ DOMAIN Work = 1 .. Len(Work)
    /\ LastEvent \in Nat /\ LastEvent >= 1
    /\ None \notin Evaluation /\ None \notin Run /\ None \notin Outcome
    /\ None \notin JobStatus /\ None \notin Call
    /\ "submitted" \notin WorkStage /\ "result" \notin WorkStage
    /\ \A k \in DOMAIN Work : Work[k] \in WorkStage
<1>1. Work \in Seq(WorkStage)
  BY ClientAssumption
<1>2. Len(Work) \in Nat /\ DOMAIN Work = 1 .. Len(Work) /\ \A k \in DOMAIN Work : Work[k] \in WorkStage
  BY <1>1
<1>3. LastEvent \in Nat /\ LastEvent >= 1
  BY <1>2 DEF LastEvent
<1> QED
  BY <1>2, <1>3, ClientAssumption

LEMMA FirstEvent == EventAt(1) = [stage |-> "submitted", to |-> "complete"]
BY DEF EventAt

\* Every stage of the work has two events, one after the other.
LEMMA WorkEvents ==
    ASSUME NEW k \in DOMAIN Work
    PROVE  /\ 2 * k \in 2 .. LastEvent /\ 2 * k + 1 \in 2 .. LastEvent
           /\ EventAt(2 * k) = [stage |-> Work[k], to |-> "processing"]
           /\ EventAt(2 * k + 1) = [stage |-> Work[k], to |-> "complete"]
<1>1. k \in Nat /\ k >= 1 /\ k <= Len(Work)
  BY ClientConstants
<1>2. /\ (2 * k) % 2 = 0 /\ (2 * k) \div 2 = k
      /\ (2 * k + 1) % 2 = 1 /\ (2 * k + 1) \div 2 = k
  BY <1>1
<1>3. 2 * k \in 2 .. LastEvent /\ 2 * k + 1 \in 2 .. LastEvent
  BY <1>1, ClientConstants DEF LastEvent
<1>4. ASSUME NEW i \in Nat, i # 1, i \div 2 = k
      PROVE  EventAt(i) = [stage |-> Work[k], to |-> IF i % 2 = 0 THEN "processing" ELSE "complete"]
  BY <1>4 DEF EventAt
<1>5. EventAt(2 * k) = [stage |-> Work[k], to |-> "processing"]
  BY <1>1, <1>2, <1>4
<1>6. EventAt(2 * k + 1) = [stage |-> Work[k], to |-> "complete"]
  <2>1. 2 * k + 1 \in Nat /\ 2 * k + 1 # 1
    BY <1>1
  <2>2. EventAt(2 * k + 1)
            = [stage |-> Work[k], to |-> IF (2 * k + 1) % 2 = 0 THEN "processing" ELSE "complete"]
    BY <1>2, <1>4, <2>1
  <2> QED
    BY <1>2, <2>2
<1> QED
  BY <1>3, <1>5, <1>6

\* There are no others.
LEMMA EventCases ==
    ASSUME NEW i \in 1 .. LastEvent
    PROVE  i = 1 \/ \E k \in DOMAIN Work : i = 2 * k \/ i = 2 * k + 1
<1>1. CASE i > 1
  <2> DEFINE k == i \div 2
  <2>1. k \in Nat /\ (i = 2 * k \/ i = 2 * k + 1)
    BY <1>1
  <2>2. k >= 1 /\ k <= Len(Work)
    BY <1>1, <2>1, ClientConstants DEF LastEvent
  <2> HIDE DEF k
  <2> QED
    BY <2>1, <2>2, ClientConstants
<1> QED
  BY <1>1

LEMMA EventTypes ==
    ASSUME NEW i \in 1 .. LastEvent
    PROVE  /\ EventAt(i) \in Event
           /\ EventAt(i).stage # "result"
           /\ EventAt(i).to \in {"processing", "complete"}
<1>1. CASE i = 1
  BY <1>1, FirstEvent DEF Event, Stage
<1>2. ASSUME NEW k \in DOMAIN Work, i = 2 * k \/ i = 2 * k + 1
      PROVE  /\ EventAt(i) \in Event
             /\ EventAt(i).stage # "result"
             /\ EventAt(i).to \in {"processing", "complete"}
  <2>1. Work[k] \in Stage /\ Work[k] # "result"
    BY ClientConstants DEF Stage
  <2>2. \/ EventAt(i) = [stage |-> Work[k], to |-> "processing"]
        \/ EventAt(i) = [stage |-> Work[k], to |-> "complete"]
    BY <1>2, WorkEvents
  <2> QED
    BY <2>1, <2>2 DEF Event
<1> QED
  BY <1>1, <1>2, EventCases

LEMMA StageEvents ==
    ASSUME NEW i \in 1 .. LastEvent
    PROVE  /\ EventAt(i).stage = "submitted" <=> i = 1
           /\ \A k \in DOMAIN Work : EventAt(i).stage = Work[k] <=> i = 2 * k \/ i = 2 * k + 1
<1>1. CASE i = 1
  <2>1. EventAt(i).stage = "submitted"
    BY <1>1, FirstEvent
  <2>2. \A k \in DOMAIN Work : Work[k] # "submitted" /\ 2 * k # 1 /\ 2 * k + 1 # 1
    BY ClientConstants
  <2> QED
    BY <1>1, <2>1, <2>2
<1>2. ASSUME NEW m \in DOMAIN Work, i = 2 * m \/ i = 2 * m + 1
      PROVE  /\ EventAt(i).stage = "submitted" <=> i = 1
             /\ \A k \in DOMAIN Work : EventAt(i).stage = Work[k] <=> i = 2 * k \/ i = 2 * k + 1
  <2>1. EventAt(i).stage = Work[m] /\ i # 1
    <3>1. 2 * m \in 2 .. LastEvent /\ 2 * m + 1 \in 2 .. LastEvent
      BY WorkEvents
    <3>2. CASE i = 2 * m
      <4>1. EventAt(i) = [stage |-> Work[m], to |-> "processing"]
        BY <3>2, WorkEvents
      <4> QED
        BY <3>1, <3>2, <4>1
    <3>3. CASE i = 2 * m + 1
      <4>1. EventAt(i) = [stage |-> Work[m], to |-> "complete"]
        BY <3>3, WorkEvents
      <4> QED
        BY <3>1, <3>3, <4>1
    <3> QED
      BY <1>2, <3>2, <3>3
  <2>2. Work[m] # "submitted"
    BY ClientConstants
  <2>3. \A k \in DOMAIN Work : Work[m] = Work[k] <=> m = k
    BY ClientAssumption
  <2>4. \A k \in DOMAIN Work : (i = 2 * k \/ i = 2 * k + 1) <=> m = k
    BY <1>2, ClientConstants
  <2>5. EventAt(i).stage = "submitted" <=> i = 1
    BY <2>1, <2>2
  <2>6. ASSUME NEW k \in DOMAIN Work
        PROVE  EventAt(i).stage = Work[k] <=> i = 2 * k \/ i = 2 * k + 1
    BY <2>1, <2>3, <2>4
  <2> QED
    BY <2>5, <2>6
<1> QED
  BY <1>1, <1>2, EventCases

LEMMA MaxIs ==
    ASSUME NEW S \in SUBSET Int, NEW x \in S, \A y \in S : x >= y
    PROVE  Max(S) = x
<1>1. Max(S) \in S /\ \A y \in S : Max(S) >= y
  BY DEF Max
<1>2. Max(S) \in Int /\ x \in Int /\ Max(S) >= x /\ x >= Max(S)
  BY <1>1
<1> QED
  BY <1>2

LEMMA StageCases ==
    ASSUME NEW s \in Stage
    PROVE  s = "submitted" \/ s = "result" \/ \E k \in DOMAIN Work : s = Work[k]
<1>1. CASE s \in WorkStage
  BY <1>1 DEF WorkStage
<1> QED
  BY <1>1 DEF Stage

\* The stages after i events, without the events.
LEMMA StagesOf ==
    ASSUME NEW i \in 1 .. LastEvent
    PROVE  /\ StagesAt(i)["submitted"] = "complete"
           /\ StagesAt(i)["result"] = "pending"
           /\ \A k \in DOMAIN Work :
                 StagesAt(i)[Work[k]] = IF 2 * k + 1 <= i THEN "complete"
                                        ELSE IF 2 * k <= i THEN "processing" ELSE "pending"
<1> DEFINE Said(s) == {j \in 1 .. i : EventAt(j).stage = s}
<1>1. \A s \in Stage : StagesAt(i)[s] = IF Said(s) = {} THEN "pending" ELSE EventAt(Max(Said(s))).to
  BY DEF StagesAt
<1>2. \A s : Said(s) \in SUBSET Int
  OBVIOUS
<1>3. 1 .. i \subseteq 1 .. LastEvent
  BY ClientConstants
<1>4. Said("result") = {} /\ Said("submitted") = {1}
  BY <1>3, EventTypes, StageEvents
<1>5. Max(Said("submitted")) = 1
  BY <1>4, MaxIs
<1>6. "submitted" \in Stage /\ "result" \in Stage
  BY DEF Stage
<1>7. ASSUME NEW k \in DOMAIN Work
      PROVE  StagesAt(i)[Work[k]] = IF 2 * k + 1 <= i THEN "complete"
                                    ELSE IF 2 * k <= i THEN "processing" ELSE "pending"
  <2>1. Work[k] \in Stage /\ k \in Nat /\ k >= 1
    BY ClientConstants DEF Stage
  <2>2. \A j \in 1 .. i : j \in Said(Work[k]) <=> j = 2 * k \/ j = 2 * k + 1
    BY <1>3, StageEvents
  <2>3. Said(Work[k]) \subseteq 1 .. i
    OBVIOUS
  <2> HIDE DEF Said
  <2>4. CASE 2 * k + 1 <= i
    <3>1. 2 * k + 1 \in Said(Work[k]) /\ \A j \in Said(Work[k]) : 2 * k + 1 >= j
      BY <2>1, <2>2, <2>3, <2>4
    <3>2. Max(Said(Work[k])) = 2 * k + 1
      BY <1>2, <3>1, MaxIs
    <3>3. StagesAt(i)[Work[k]] = EventAt(2 * k + 1).to
      BY <1>1, <2>1, <3>1, <3>2
    <3>4. EventAt(2 * k + 1) = [stage |-> Work[k], to |-> "complete"]
      BY WorkEvents
    <3> QED
      BY <2>4, <3>3, <3>4
  <2>5. CASE ~ (2 * k + 1 <= i) /\ 2 * k <= i
    <3>1. 2 * k \in Said(Work[k]) /\ \A j \in Said(Work[k]) : 2 * k >= j
      BY <2>1, <2>2, <2>3, <2>5
    <3>2. Max(Said(Work[k])) = 2 * k
      BY <1>2, <3>1, MaxIs
    <3>3. StagesAt(i)[Work[k]] = EventAt(2 * k).to
      BY <1>1, <2>1, <3>1, <3>2
    <3>4. EventAt(2 * k) = [stage |-> Work[k], to |-> "processing"]
      BY WorkEvents
    <3> QED
      BY <2>5, <3>3, <3>4
  <2>6. CASE ~ (2 * k <= i)
    <3>1. Said(Work[k]) = {}
      BY <2>1, <2>2, <2>3, <2>6
    <3> QED
      BY <1>1, <2>1, <2>6, <3>1
  <2> QED
    BY <2>4, <2>5, <2>6
<1>8. StagesAt(i)["result"] = "pending"
  BY <1>1, <1>4, <1>6
<1>9. StagesAt(i)["submitted"] = EventAt(1).to
  <2>1. Said("submitted") # {}
    BY <1>4
  <2> QED
    BY <1>1, <1>5, <1>6, <2>1
<1>10. EventAt(1).to = "complete"
  BY FirstEvent
<1> QED
  BY <1>7, <1>8, <1>9, <1>10

\* They are what the events say.
LEMMA StagesAreSaid ==
    ASSUME NEW i \in 1 .. LastEvent
    PROVE  /\ StagesAt(i) \in [Stage -> {"pending", "processing", "complete"}]
           /\ \A s \in Stage :
                 \/ StagesAt(i)[s] = "pending"
                 \/ \E j \in 1 .. i : [stage |-> s, to |-> StagesAt(i)[s]] = EventAt(j)
<1> SUFFICES ASSUME NEW s \in Stage
             PROVE  /\ StagesAt(i)[s] \in {"pending", "processing", "complete"}
                    /\ \/ StagesAt(i)[s] = "pending"
                       \/ \E j \in 1 .. i : [stage |-> s, to |-> StagesAt(i)[s]] = EventAt(j)
  BY DEF StagesAt
<1>1. CASE s = "submitted" \/ s = "result"
  BY <1>1, StagesOf, FirstEvent
<1>2. ASSUME NEW k \in DOMAIN Work, s = Work[k]
      PROVE  /\ StagesAt(i)[s] \in {"pending", "processing", "complete"}
             /\ \/ StagesAt(i)[s] = "pending"
                \/ \E j \in 1 .. i : [stage |-> s, to |-> StagesAt(i)[s]] = EventAt(j)
  <2>1. StagesAt(i)[s] = IF 2 * k + 1 <= i THEN "complete"
                         ELSE IF 2 * k <= i THEN "processing" ELSE "pending"
    BY <1>2, StagesOf
  <2>2. 2 * k >= 1 /\ 2 * k + 1 >= 1 /\ 2 * k \in Int /\ 2 * k + 1 \in Int
    BY ClientConstants
  <2>3. CASE 2 * k + 1 <= i
    <3>1. StagesAt(i)[s] = "complete"
      BY <2>1, <2>3
    <3>2. EventAt(2 * k + 1) = [stage |-> s, to |-> "complete"]
      BY <1>2, WorkEvents
    <3>3. 2 * k + 1 \in 1 .. i
      BY <2>2, <2>3
    <3> QED
      BY <3>1, <3>2, <3>3
  <2>4. CASE ~ (2 * k + 1 <= i) /\ 2 * k <= i
    <3>1. StagesAt(i)[s] = "processing"
      BY <2>1, <2>4
    <3>2. EventAt(2 * k) = [stage |-> s, to |-> "processing"]
      BY <1>2, WorkEvents
    <3>3. 2 * k \in 1 .. i
      BY <2>2, <2>4
    <3> QED
      BY <3>1, <3>2, <3>3
  <2>5. CASE ~ (2 * k + 1 <= i) /\ ~ (2 * k <= i)
    BY <2>1, <2>5
  <2> QED
    BY <2>3, <2>4, <2>5
<1> QED
  BY <1>1, <1>2, StageCases

-----------------------------------------------------------------------------
(* The reducer                                                             *)

Progressing == {"pending", "processing", "complete"}

LEMMA Ranks ==
    Rank("pending") = 1 /\ Rank("processing") = 2 /\ Rank("complete") = 3 /\ Rank("failed") = 4
<1>1. /\ DOMAIN Progress = 1 .. 4
      /\ Progress[1] = "pending" /\ Progress[2] = "processing"
      /\ Progress[3] = "complete" /\ Progress[4] = "failed"
  BY DEF Progress
<1>2. ASSUME NEW n \in 1 .. 4 PROVE Rank(Progress[n]) = n
  <2>1. \A i \in 1 .. 4 : Progress[i] = Progress[n] <=> i = n
    BY <1>1
  <2> QED
    BY <1>1, <2>1 DEF Rank
<1> QED
  BY <1>1, <1>2

\* A stage only goes on.
LEMMA Advances ==
    ASSUME NEW current \in StageState, NEW next \in {"processing", "complete"}
    PROVE  /\ Advance(current, next) \in {current, next}
           /\ current \in Progressing =>
                 /\ Advance(current, next) \in {next, "complete"}
                 /\ current = "complete" => Advance(current, next) = "complete"
                 /\ current = "processing" => Advance(current, next) \in {"processing", "complete"}
BY Ranks DEF Advance, StageState, Progressing

LEMMA TrackerFields ==
    ASSUME NEW st \in Tracker
    PROVE  /\ st.evaluation \in Evaluation \cup {None}
           /\ st.stages \in [Stage -> StageState]
           /\ st.outcome \in Outcome \cup {None}
           /\ st.events \in SUBSET Event
BY DEF Tracker

LEMMA StatusFields ==
    ASSUME NEW seen \in Status
    PROVE  seen.reached \in 0 .. LastEvent /\ seen.outcome \in Outcome \cup {None}
BY DEF Status

LEMMA InitialTracker ==
    /\ InitialState \in Tracker
    /\ InitialState.evaluation = None /\ InitialState.outcome = None /\ InitialState.events = {}
    /\ \A s \in Stage : InitialState.stages[s] = "pending"
BY DEF InitialState, Tracker, NoStages, StageState

LEMMA SeedStagesType ==
    ASSUME NEW seen \in Status
    PROVE  SeedStages(seen) \in [Stage -> Progressing]
<1>1. CASE seen.outcome = "SUCCEEDED"
  BY <1>1, ClientConstants DEF SeedStages, Progressing, Outcome
<1>2. CASE seen.outcome = None /\ seen.reached > 1
  <2>1. seen.reached \in 1 .. LastEvent
    BY <1>2, StatusFields
  <2>2. SeedStages(seen) = StagesAt(seen.reached)
    BY <1>2, ClientConstants DEF SeedStages, Outcome
  <2> QED
    BY <2>1, <2>2, StagesAreSaid DEF Progressing
<1>3. CASE seen.outcome # "SUCCEEDED" /\ ~ (seen.outcome = None /\ seen.reached > 1)
  BY <1>3 DEF SeedStages, NoStages, Progressing
<1> QED
  BY <1>1, <1>2, <1>3

\* What a snapshot makes of the tracker.
LEMMA Seeds ==
    ASSUME NEW st \in Tracker, NEW e \in Evaluation, NEW seen \in Status
    PROVE  /\ Seed(st, e, seen) \in Tracker
           /\ Seed(st, e, seen).evaluation = e
           /\ Seed(st, e, seen).stages = SeedStages(seen)
           /\ Seed(st, e, seen).outcome = seen.outcome
           /\ Seed(st, e, seen).events = st.events
<1>1. SeedStages(seen) \in [Stage -> StageState]
  BY SeedStagesType DEF Progressing, StageState
<1> QED
  BY <1>1, StatusFields DEF Seed, Tracker

\* A stage that a snapshot seeds was logged by then.
LEMMA SeedsAreLogged ==
    ASSUME NEW seen \in Status, seen.reached >= 1, NEW s \in Stage,
           seen.outcome = "SUCCEEDED" => seen.reached = LastEvent /\ s \in WorkStage
    PROVE  \/ SeedStages(seen)[s] = "pending"
           \/ \E j \in 1 .. seen.reached : [stage |-> s, to |-> SeedStages(seen)[s]] = EventAt(j)
<1>1. CASE seen.outcome = "SUCCEEDED"
  <2>1. SeedStages(seen)[s] = "complete"
    BY <1>1, ClientConstants DEF SeedStages, Outcome
  <2>2. PICK k \in DOMAIN Work : s = Work[k]
    BY <1>1 DEF WorkStage
  <2>3. seen.reached = LastEvent
    BY <1>1
  <2>4. 2 * k + 1 \in 1 .. LastEvent
    <3>1. k \in Nat
      BY ClientConstants
    <3>2. 2 * k + 1 \in 2 .. LastEvent
      BY WorkEvents
    <3> QED
      BY <3>1, <3>2
  <2>5. EventAt(2 * k + 1) = [stage |-> s, to |-> "complete"]
    BY <2>2, WorkEvents
  <2> QED
    BY <2>1, <2>3, <2>4, <2>5
<1>2. CASE seen.outcome = None /\ seen.reached > 1
  <2>1. seen.reached \in 1 .. LastEvent
    BY <1>2, StatusFields
  <2>2. SeedStages(seen) = StagesAt(seen.reached)
    BY <1>2, ClientConstants DEF SeedStages, Outcome
  <2> QED
    BY <2>1, <2>2, StagesAreSaid
<1>3. CASE seen.outcome # "SUCCEEDED" /\ ~ (seen.outcome = None /\ seen.reached > 1)
  BY <1>3 DEF SeedStages, NoStages
<1> QED
  BY <1>1, <1>2, <1>3

\* What a frame makes of it: nothing new, a stage that goes on, or the end.
LEMMA Frames ==
    ASSUME NEW st \in Tracker, NEW ev \in Event
    PROVE  LET next == ApplyFrame(st, ev)
           IN  /\ next \in Tracker
               /\ next.evaluation = st.evaluation
               /\ next.events = st.events \cup {ev}
               /\ (ev \in st.events \/ st.outcome # None) =>
                     next.stages = st.stages /\ next.outcome = st.outcome
               /\ (ev \notin st.events /\ st.outcome = None /\ ev.stage = "result") =>
                     /\ next.outcome = IF ev.to = "complete" THEN "SUCCEEDED" ELSE "FAILED"
                     /\ \A s \in Stage \ {"result"} : next.stages[s] \in {st.stages[s], "failed", "skipped"}
               /\ (ev \notin st.events /\ st.outcome = None /\ ev.stage # "result") =>
                     /\ next.outcome = None
                     /\ next.stages = [st.stages EXCEPT ![ev.stage] = Advance(@, ev.to)]
<1> DEFINE more == [st EXCEPT !.events = @ \cup {ev}]
<1>1. /\ more \in Tracker /\ more.events = st.events \cup {ev} /\ more.stages = st.stages
      /\ more.outcome = st.outcome /\ more.evaluation = st.evaluation
  BY DEF Tracker
<1>2. ev.stage \in Stage /\ ev.to \in {"processing", "complete", "failed"}
  BY DEF Event
<1>3. ASSUME NEW current \in StageState, NEW to \in {"processing", "complete", "failed"}
      PROVE  Advance(current, to) \in StageState
  BY <1>3 DEF Advance, StageState
<1> HIDE DEF more
<1>4. CASE ev \in st.events \/ st.outcome # None
  <2>1. ApplyFrame(st, ev) = more
    BY <1>4 DEF ApplyFrame, more
  <2> QED
    BY <1>1, <1>4, <2>1
<1>5. CASE ev \notin st.events /\ st.outcome = None /\ ev.stage # "result"
  <2> DEFINE stages == ApplyStage(more.stages, ev.stage, ev.to)
  <2>1. ApplyFrame(st, ev) = [more EXCEPT !.stages = ApplyStage(@, ev.stage, ev.to)]
    BY <1>5 DEF ApplyFrame, more
  <2>2. stages = [st.stages EXCEPT ![ev.stage] = Advance(@, ev.to)]
    BY <1>1 DEF ApplyStage
  <2>3. stages \in [Stage -> StageState]
    BY <1>2, <1>3, <2>2, TrackerFields
  <2>4. ApplyFrame(st, ev) = [more EXCEPT !.stages = stages]
    BY <1>1, <2>1 DEF Tracker
  <2> HIDE DEF stages
  <2> QED
    BY <1>1, <1>5, <2>2, <2>3, <2>4 DEF Tracker
<1>6. CASE ev \notin st.events /\ st.outcome = None /\ ev.stage = "result"
  <2>1. ApplyFrame(st, ev) = ApplyTerminal(more, ev)
    BY <1>6 DEF ApplyFrame, more
  <2>2. CASE ev.to = "complete"
    <3> DEFINE stages == ApplyStage(more.stages, "result", "complete")
    <3>1. /\ stages \in [Stage -> StageState]
          /\ \A s \in Stage \ {"result"} : stages[s] = st.stages[s]
      BY <1>1, <1>3, TrackerFields DEF ApplyStage, Stage
    <3>2. ApplyFrame(st, ev) = [more EXCEPT !.stages = stages, !.outcome = "SUCCEEDED"]
      BY <1>1, <2>1, <2>2 DEF ApplyTerminal, Tracker
    <3> HIDE DEF stages
    <3> QED
      BY <1>1, <1>6, <2>2, <3>1, <3>2 DEF Tracker, Outcome
  <2>3. CASE ev.to # "complete"
    <3> DEFINE stages == ApplyFailure(more.stages)
    <3>1. /\ stages \in [Stage -> StageState]
          /\ \A s \in Stage : stages[s] \in {st.stages[s], "failed", "skipped"}
      BY <1>1, TrackerFields DEF ApplyFailure, StageState
    <3>2. ApplyFrame(st, ev) = [more EXCEPT !.stages = stages, !.outcome = "FAILED"]
      BY <1>1, <2>1, <2>3 DEF ApplyTerminal, Tracker
    <3> HIDE DEF stages
    <3> QED
      BY <1>1, <1>6, <2>3, <3>1, <3>2 DEF Tracker, Outcome
  <2> QED
    BY <2>2, <2>3
<1> QED
  BY <1>4, <1>5, <1>6

-----------------------------------------------------------------------------
(* The type invariant *)

LEMMA DependenciesType ==
    ASSUME ClientTypeOK
    PROVE  Dependencies \in [evaluation : Evaluation \cup {None}, outcome : Outcome \cup {None},
                             complete : SUBSET Artifacts, artifacts : BOOLEAN]
<1>1. state \in Tracker /\ artifacts \in BOOLEAN
  BY DEF ClientTypeOK
<1>2. state.evaluation \in Evaluation \cup {None} /\ state.outcome \in Outcome \cup {None}
  BY <1>1, TrackerFields
<1> QED
  BY <1>1, <1>2 DEF Dependencies

LEMMA TypeInit == ASSUME ClientInit PROVE ClientTypeOK
<1>1. InitialState \in Tracker
  BY InitialTracker
<1>2. status \in [Evaluation -> Status]
  BY ClientConstants DEF ClientInit, Status
<1>3. jobs \in [Evaluation -> JobStatus \cup {None}]
  BY DEF ClientInit, JobStatus
<1>4. access \subseteq Evaluation
  BY ClientAssumption DEF ClientInit, Evaluation
<1>5. /\ runToken \in 0 .. MaxRuns /\ faults \in 0 .. MaxFaults
      /\ call \in [Run -> Call \cup {None}] /\ \A t \in Run : call[t] = None
      /\ socket \in [Run -> Evaluation \cup {None}]
  BY ClientConstants DEF ClientInit
<1>6. listed \subseteq Evaluation
  BY DEF ClientInit, Processing
<1>7. rendered \in [evaluation : Evaluation \cup {None}, outcome : Outcome \cup {None},
                    complete : SUBSET Artifacts, artifacts : BOOLEAN]
  BY DEF ClientInit, FirstRender
<1> QED
  BY <1>1, <1>2, <1>3, <1>4, <1>5, <1>6, <1>7 DEF ClientInit, ClientTypeOK

\* A call that begins.
LEMMA NewCalls ==
    ASSUME ClientTypeOK, runToken < MaxRuns, NEW c \in Call,
           call' = [call EXCEPT ![runToken + 1] = c], runToken' = runToken + 1
    PROVE  /\ runToken' \in Run /\ runToken' \in 0 .. MaxRuns
           /\ call' \in [Run -> Call \cup {None}]
           /\ \A t \in Run : call'[t] # None => t <= runToken'
<1>1. runToken \in 0 .. MaxRuns /\ MaxRuns \in Nat
  BY ClientConstants DEF ClientTypeOK
<1>2. runToken' \in Run /\ runToken' \in 0 .. MaxRuns
  BY <1>1 DEF Run
<1>3. ASSUME NEW t \in Run, call'[t] # None
      PROVE  t <= runToken'
  <2>1. t \in Int /\ (t = runToken' \/ call[t] # None)
    BY <1>3 DEF ClientTypeOK, Run
  <2> QED
    BY <1>1, <2>1 DEF ClientTypeOK
<1> QED
  BY <1>2, <1>3 DEF ClientTypeOK

LEMMA TypeOutside ==
    ASSUME ClientTypeOK, NEW e \in Evaluation, Proceed(e)
    PROVE  ClientTypeOK'
<1>1. status[e] \in Status /\ LastEvent \in Nat
  BY ClientConstants DEF ClientTypeOK
<1>2. status' \in [Evaluation -> Status]
  BY <1>1 DEF Proceed, ClientTypeOK, Status, Outcome
<1> QED
  BY <1>2 DEF Proceed, ClientTypeOK, storage, hook, fetches, effects

LEMMA TypeUser ==
    ASSUME ClientTypeOK, ChooseFile \/ CancelChallenge \/ RemoveAudio \/ Start
    PROVE  ClientTypeOK'
<1>1. InitialState \in Tracker
  BY InitialTracker
<1>2. CASE CancelChallenge
  BY <1>2 DEF CancelChallenge, ClientTypeOK, storage, hook, fetches, effects
<1>3. ASSUME Teardown
      PROVE  socket' \in [Run -> Evaluation \cup {None}]
  BY <1>3 DEF Teardown, ClientTypeOK
<1>4. CASE ChooseFile \/ RemoveAudio
  <2>1. Reset /\ asked' \in BOOLEAN
    BY <1>4 DEF ChooseFile, RemoveAudio
  <2>2. runToken \in 0 .. MaxRuns /\ runToken < MaxRuns /\ runToken' = runToken + 1
    BY <2>1 DEF Reset, ClientTypeOK
  <2>3. runToken' \in 0 .. MaxRuns /\ \A t \in Run : t <= runToken => t <= runToken'
    BY <2>2, ClientConstants DEF Run
  <2>4. socket' \in [Run -> Evaluation \cup {None}]
    BY <1>3, <2>1 DEF Reset
  <2> QED
    BY <1>1, <2>1, <2>3, <2>4 DEF Reset, ClientTypeOK, storage, fetches, effects
<1>5. CASE Start
  <2> DEFINE c == [kind |-> "start", evaluation |-> None, seen |-> None]
  <2>1. c \in Call
    BY DEF Call
  <2>2. runToken < MaxRuns /\ runToken' = runToken + 1 /\ call' = [call EXCEPT ![runToken + 1] = c]
    BY <1>5 DEF Start
  <2> HIDE DEF c
  <2>3. /\ runToken' \in 0 .. MaxRuns
        /\ call' \in [Run -> Call \cup {None}]
        /\ \A t \in Run : call'[t] # None => t <= runToken'
    BY <2>1, <2>2, NewCalls
  <2>4. socket' \in [Run -> Evaluation \cup {None}]
    BY <1>3, <1>5 DEF Start
  <2> QED
    BY <1>1, <1>5, <2>3, <2>4 DEF Start, ClientTypeOK, storage, fetches, effects
<1> QED
  BY <1>2, <1>4, <1>5

\* What follow does to the types.
LEMMA TypeFollow ==
    ASSUME ClientTypeOK, NEW t \in Run, NEW e \in Evaluation, NEW seen \in Status, Follow(t, e, seen)
    PROVE  /\ state' \in Tracker /\ followed' \in Run \cup {None}
           /\ socket' \in [Run -> Evaluation \cup {None}]
<1>1. state' \in Tracker
  BY Seeds DEF Follow, ClientTypeOK
<1> QED
  BY <1>1 DEF Follow, ClientTypeOK

LEMMA TypeRun ==
    ASSUME ClientTypeOK, CallsAreReal, NEW t \in Run, RunStep(t)
    PROVE  ClientTypeOK'
<1>1. ASSUME call' = [call EXCEPT ![t] = None]
      PROVE  /\ call' \in [Run -> Call \cup {None}]
             /\ \A u \in Run : call'[u] # None => u <= runToken
  BY <1>1 DEF ClientTypeOK
<1>2. ASSUME Fault PROVE faults' \in 0 .. MaxFaults
  BY <1>2, ClientConstants DEF Fault, ClientTypeOK
<1>3. CASE StartResolves(t)
  <2> DEFINE pending == [reached |-> 1, outcome |-> None]
  <2>1. pending \in Status
    BY ClientConstants DEF Status
  <2>2. PICK e \in Unused :
           /\ status' = [status EXCEPT ![e] = pending]
           /\ jobs' = [jobs EXCEPT ![e] = "processing"]
           /\ access' = access \cup {e}
           /\ IF IsLatest(t)
              THEN Follow(t, e, pending) /\ submitting' = FALSE
              ELSE UNCHANGED <<state, socket, followed, submitting>>
    BY <1>3 DEF StartResolves
  <2> HIDE DEF pending
  <2>3. e \in Evaluation
    BY DEF Unused
  <2>4. status' \in [Evaluation -> Status] /\ access' \subseteq Evaluation
    BY <2>1, <2>2, <2>3 DEF ClientTypeOK
  <2>5. jobs' \in [Evaluation -> JobStatus \cup {None}]
    BY <2>2, <2>3 DEF ClientTypeOK, JobStatus
  <2>6. /\ state' \in Tracker /\ followed' \in Run \cup {None}
        /\ socket' \in [Run -> Evaluation \cup {None}]
        /\ submitting' \in BOOLEAN
    <3>1. CASE IsLatest(t)
      BY <2>1, <2>2, <2>3, <3>1, TypeFollow
    <3>2. CASE ~ IsLatest(t)
      BY <2>2, <3>2 DEF ClientTypeOK
    <3> QED
      BY <3>1, <3>2
  <2> QED
    BY <1>1, <1>3, <2>4, <2>5, <2>6 DEF StartResolves, ClientTypeOK, fetches, effects
<1>4. CASE StartRejects(t)
  <2>1. submitting' \in BOOLEAN
    BY <1>4 DEF StartRejects
  <2> QED
    BY <1>1, <1>2, <1>4, <2>1 DEF StartRejects, ClientTypeOK, storage, fetches, effects
<1>5. CASE ResumeReads(t)
  <2>1. /\ call[t] \in Call /\ call[t].evaluation \in Evaluation /\ t <= runToken
        /\ call' = [call EXCEPT ![t].seen = status[call[t].evaluation]]
    BY <1>5 DEF ResumeReads, ClientTypeOK
  <2>2. status[call[t].evaluation] \in Status
    BY <2>1 DEF ClientTypeOK
  <2>3. [call[t] EXCEPT !.seen = status[call[t].evaluation]] \in Call
    BY <2>1, <2>2 DEF Call
  <2>4. call' = [call EXCEPT ![t] = [call[t] EXCEPT !.seen = status[call[t].evaluation]]]
    BY <2>1
  <2>5. /\ call' \in [Run -> Call \cup {None}]
        /\ \A u \in Run : call'[u] # None => u <= runToken
    BY <2>1, <2>3, <2>4 DEF ClientTypeOK
  <2> QED
    BY <1>5, <2>5 DEF ResumeReads, ClientTypeOK, storage, fetches, effects
<1>6. CASE ResumeResolves(t)
  <2>1. /\ call[t] \in Call /\ call[t].seen # None
        /\ IF IsLatest(t)
           THEN Follow(t, call[t].evaluation, call[t].seen)
           ELSE UNCHANGED <<state, socket, followed>>
    BY <1>6 DEF ResumeResolves, ClientTypeOK
  <2>2. call[t].seen \in Status /\ call[t].kind \in {"start", "resume"}
    BY <2>1 DEF Call
  <2>3. call[t].evaluation \in Evaluation
    BY <1>6, <2>1, <2>2 DEF CallsAreReal, Call, ResumeResolves
  <2>4. /\ state' \in Tracker /\ followed' \in Run \cup {None}
        /\ socket' \in [Run -> Evaluation \cup {None}]
    <3>1. CASE IsLatest(t)
      BY <2>1, <2>2, <2>3, <3>1, TypeFollow
    <3>2. CASE ~ IsLatest(t)
      BY <2>1, <3>2 DEF ClientTypeOK
    <3> QED
      BY <3>1, <3>2
  <2> QED
    BY <1>1, <1>6, <2>4 DEF ResumeResolves, ClientTypeOK, storage, fetches, effects
<1>7. CASE ResumeRejects(t)
  <2>1. faults' \in 0 .. MaxFaults
    BY <1>2, <1>7 DEF ResumeRejects, ClientTypeOK
  <2>2. state' \in Tracker
    BY <1>7, InitialTracker DEF ResumeRejects, ClientTypeOK
  <2> QED
    BY <1>1, <1>7, <2>1, <2>2 DEF ResumeRejects, ClientTypeOK, storage, fetches, effects
<1> QED
  BY <1>3, <1>4, <1>5, <1>6, <1>7 DEF RunStep

LEMMA TypeSocket ==
    ASSUME ClientTypeOK, NEW t \in Run,
           SocketCloses(t) \/ \E ev \in Event : Frame(t, ev)
    PROVE  ClientTypeOK'
<1>1. CASE SocketCloses(t)
  <2>1. socket' \in [Run -> Evaluation \cup {None}]
    BY <1>1 DEF SocketCloses, ClientTypeOK
  <2>2. faults' \in 0 .. MaxFaults
    BY <1>1, ClientConstants DEF SocketCloses, Fault, ClientTypeOK
  <2> QED
    BY <1>1, <2>1, <2>2 DEF SocketCloses, ClientTypeOK, storage, fetches, effects
<1>2. ASSUME NEW ev \in Event, Frame(t, ev)
      PROVE  ClientTypeOK'
  <2>1. state' \in Tracker
    BY <1>2, Frames DEF Frame, ClientTypeOK
  <2> QED
    BY <1>2, <2>1 DEF Frame, ClientTypeOK, storage, fetches, effects
<1> QED
  BY <1>1, <1>2

\* recordFinished writes no job that is not there.
LEMMA Records ==
    ASSUME ClientTypeOK, NEW e \in Evaluation, RecordFinished(e)
    PROVE  /\ jobs' \in [Evaluation -> JobStatus \cup {None}]
           /\ \A d \in Evaluation : jobs'[d] # None => jobs[d] # None
<1>1. jobs' = jobs \/ (jobs[e] # None /\ \E j \in JobStatus : jobs' = [jobs EXCEPT ![e] = j])
  <2>1. CASE jobs[e] # None /\ status[e].outcome = "SUCCEEDED"
    BY <2>1 DEF RecordFinished, JobStatus
  <2>2. CASE jobs[e] # None /\ status[e].outcome = "FAILED"
    BY <2>2 DEF RecordFinished, JobStatus
  <2>3. CASE jobs[e] = None \/ status[e].outcome \notin {"SUCCEEDED", "FAILED"}
    BY <2>3 DEF RecordFinished
  <2> QED
    BY <2>1, <2>2, <2>3
<1> QED
  BY <1>1 DEF ClientTypeOK

LEMMA TypeFetch ==
    ASSUME ClientTypeOK,
           \/ FetchResolves \/ FetchFails
           \/ \E e \in Evaluation : LateFetchResolves(e) \/ LateFetchFails(e)
    PROVE  ClientTypeOK'
<1>1. ASSUME Fault PROVE faults' \in 0 .. MaxFaults
  BY <1>1, ClientConstants DEF Fault, ClientTypeOK
<1>2. CASE FetchResolves
  <2>1. fetching \in Evaluation /\ artifacts' \in BOOLEAN
    BY <1>2 DEF FetchResolves, ClientTypeOK
  <2>2. jobs' \in [Evaluation -> JobStatus \cup {None}]
    BY <1>2, <2>1, Records DEF FetchResolves
  <2> QED
    BY <1>2, <2>1, <2>2 DEF FetchResolves, ClientTypeOK, effects
<1>3. CASE FetchFails
  BY <1>1, <1>3 DEF FetchFails, ClientTypeOK, storage, hook, effects
<1>4. ASSUME NEW e \in Evaluation, LateFetchResolves(e)
      PROVE  ClientTypeOK'
  <2>1. jobs' \in [Evaluation -> JobStatus \cup {None}]
    BY <1>4, Records DEF LateFetchResolves
  <2> QED
    BY <1>4, <2>1 DEF LateFetchResolves, ClientTypeOK, hook, effects
<1>5. ASSUME NEW e \in Evaluation, LateFetchFails(e)
      PROVE  ClientTypeOK'
  BY <1>1, <1>5 DEF LateFetchFails, ClientTypeOK, storage, hook, effects
<1> QED
  BY <1>2, <1>3, <1>4, <1>5

\* What the resume effect does: nothing, or it calls for a job of the list.
LEMMA Resumes ==
    ASSUME ClientTypeOK, ResumeEffect
    PROVE  \/ UNCHANGED hook
           \/ ~ HasRun /\ runToken < MaxRuns /\ \E e \in listed : Resume(e)
BY DEF ResumeEffect

LEMMA TypeRender ==
    ASSUME ClientTypeOK, Render
    PROVE  ClientTypeOK'
<1>1. rendered' \in [evaluation : Evaluation \cup {None}, outcome : Outcome \cup {None},
                     complete : SUBSET Artifacts, artifacts : BOOLEAN]
  BY DependenciesType DEF Render
<1>2. fetching' \in Evaluation \cup {None} /\ late' \subseteq Evaluation
  <2>1. state.evaluation \in Evaluation \cup {None}
    BY TrackerFields DEF ClientTypeOK
  <2>2. FetchEffect
    BY DEF Render
  <2>3. CASE UNCHANGED fetches
    BY <2>3 DEF fetches, ClientTypeOK
  <2>4. CASE /\ late' = late \cup ({fetching} \ {None})
             /\ fetching' = IF Dependencies.outcome # None \/ Dependencies.complete # {}
                            THEN state.evaluation
                            ELSE None
    BY <2>1, <2>4 DEF ClientTypeOK
  <2> QED
    BY <2>2, <2>3, <2>4 DEF FetchEffect
<1>3. listed' \subseteq Evaluation /\ listChanged' \in BOOLEAN
  <2>1. RefreshEffect
    BY DEF Render
  <2> QED
    BY <2>1 DEF RefreshEffect, Processing, ClientTypeOK
<1>4. /\ state' = state /\ submitting' = submitting
      /\ runToken' \in 0 .. MaxRuns
      /\ call' \in [Run -> Call \cup {None}]
      /\ \A t \in Run : call'[t] # None => t <= runToken'
      /\ socket' \in [Run -> Evaluation \cup {None}]
      /\ followed' \in Run \cup {None}
      /\ artifacts' \in BOOLEAN
  <2>1. CASE UNCHANGED hook
    BY <2>1 DEF hook, ClientTypeOK
  <2>2. ASSUME runToken < MaxRuns, NEW e \in listed, Resume(e)
        PROVE  <1>4!:
    <3> DEFINE c == [kind |-> "resume", evaluation |-> e, seen |-> None]
    <3>1. c \in Call
      BY DEF Call, ClientTypeOK
    <3>2. runToken' = runToken + 1 /\ call' = [call EXCEPT ![runToken + 1] = c]
      BY <2>2 DEF Resume
    <3> HIDE DEF c
    <3>3. /\ runToken' \in 0 .. MaxRuns
          /\ call' \in [Run -> Call \cup {None}]
          /\ \A t \in Run : call'[t] # None => t <= runToken'
      BY <2>2, <3>1, <3>2, NewCalls
    <3> QED
      BY <2>2, <3>3 DEF Resume, Teardown, ClientTypeOK
  <2> QED
    BY <2>1, <2>2, Resumes DEF Render
<1> QED
  BY <1>1, <1>2, <1>3, <1>4 DEF Render, ClientTypeOK, storage

LEMMA TypeReload ==
    ASSUME ClientTypeOK, Reload
    PROVE  ClientTypeOK'
<1>1. InitialState \in Tracker
  BY InitialTracker
<1>2. faults' \in 0 .. MaxFaults /\ 0 \in 0 .. MaxRuns
  BY ClientConstants DEF Reload, Fault, ClientTypeOK
<1>3. /\ call' \in [Run -> Call \cup {None}] /\ \A t \in Run : call'[t] = None
      /\ socket' \in [Run -> Evaluation \cup {None}]
  BY DEF Reload
<1>4. rendered' \in [evaluation : Evaluation \cup {None}, outcome : Outcome \cup {None},
                     complete : SUBSET Artifacts, artifacts : BOOLEAN]
  BY DEF Reload, FirstRender
<1>5. listed' \subseteq Evaluation
  BY DEF Reload, Processing
<1> QED
  BY <1>1, <1>2, <1>3, <1>4, <1>5 DEF Reload, ClientTypeOK, storage

LEMMA TypeStep ==
    ASSUME ClientTypeOK, CallsAreReal, [ClientNext]_clientVars
    PROVE  ClientTypeOK'
<1>1. CASE UNCHANGED clientVars
  BY <1>1 DEF clientVars, ClientTypeOK
<1>2. CASE ClientNext
  BY <1>2, TypeOutside, TypeUser, TypeRun, TypeSocket, TypeFetch, TypeRender, TypeReload
     DEF ClientNext
<1> QED
  BY <1>1, <1>2

-----------------------------------------------------------------------------
(* An evaluation only moves on                                             *)

LEMMA LogFacts ==
    ASSUME ClientTypeOK, NEW e \in Evaluation
    PROVE  /\ Log(e) \subseteq Event
           /\ \A i \in 1 .. status[e].reached : EventAt(i) \in Log(e)
           /\ \A ev \in Log(e) :
                 ev.stage # "result" =>
                    /\ ev.to \in {"processing", "complete"}
                    /\ \E i \in 1 .. status[e].reached : ev = EventAt(i)
           /\ \A ev \in Log(e) :
                 ev.stage = "result" =>
                    /\ status[e].outcome # None
                    /\ status[e].outcome = IF ev.to = "complete" THEN "SUCCEEDED" ELSE "FAILED"
<1>1. /\ status[e].reached \in 0 .. LastEvent /\ status[e].outcome \in Outcome \cup {None}
      /\ LastEvent \in Nat
  BY StatusFields, ClientConstants DEF ClientTypeOK
<1>2. \A i \in 1 .. status[e].reached : i \in 1 .. LastEvent
  BY <1>1
<1>3. ASSUME NEW i \in 1 .. status[e].reached
      PROVE  /\ EventAt(i) \in Log(e) /\ EventAt(i) \in Event
             /\ EventAt(i).stage # "result" /\ EventAt(i).to \in {"processing", "complete"}
  BY <1>2, EventTypes DEF Log
<1>4. ASSUME NEW o \in {status[e].outcome} \ {None}
      PROVE  /\ Terminal(o) \in Event /\ Terminal(o).stage = "result" /\ o = status[e].outcome
             /\ o \in Outcome
             /\ o = IF Terminal(o).to = "complete" THEN "SUCCEEDED" ELSE "FAILED"
  BY <1>1 DEF Terminal, Event, Stage, Outcome
<1>5. \A ev \in Log(e) : \/ \E i \in 1 .. status[e].reached : ev = EventAt(i)
                         \/ \E o \in {status[e].outcome} \ {None} : ev = Terminal(o)
  BY DEF Log
<1> QED
  BY <1>3, <1>4, <1>5

LEMMA StatusSteps ==
    ASSUME ClientTypeOK, [ClientNext]_clientVars
    PROVE  \/ status' = status
           \/ \E e \in Evaluation : Proceed(e)
           \/ \E e \in Evaluation :
                 /\ status[e].reached = 0
                 /\ status' = [status EXCEPT ![e] = [reached |-> 1, outcome |-> None]]
<1>1. CASE UNCHANGED clientVars
  BY <1>1 DEF clientVars
<1>2. CASE ChooseFile \/ CancelChallenge \/ Start \/ RemoveAudio \/ Reload
  BY <1>2 DEF ChooseFile, CancelChallenge, Start, RemoveAudio, Reset, Reload
<1>3. CASE Render \/ FetchResolves \/ FetchFails
  BY <1>3 DEF Render, FetchResolves, FetchFails
<1>4. ASSUME NEW e \in Evaluation, LateFetchResolves(e) \/ LateFetchFails(e)
      PROVE  status' = status
  BY <1>4 DEF LateFetchResolves, LateFetchFails
<1>5. ASSUME NEW t \in Run, SocketCloses(t) \/ \E ev \in Event : Frame(t, ev)
      PROVE  status' = status
  BY <1>5 DEF SocketCloses, Frame
<1>6. ASSUME NEW t \in Run, StartRejects(t) \/ ResumeReads(t) \/ ResumeResolves(t) \/ ResumeRejects(t)
      PROVE  status' = status
  BY <1>6 DEF StartRejects, ResumeReads, ResumeResolves, ResumeRejects
<1>7. ASSUME NEW t \in Run, StartResolves(t)
      PROVE  \E e \in Evaluation :
                /\ status[e].reached = 0
                /\ status' = [status EXCEPT ![e] = [reached |-> 1, outcome |-> None]]
  BY <1>7 DEF StartResolves, Unused
<1> QED
  BY <1>1, <1>2, <1>3, <1>4, <1>5, <1>6, <1>7 DEF ClientNext, RunStep

LEMMA Grows ==
    ASSUME ClientTypeOK, StatusesAreReal, [ClientNext]_clientVars, NEW e \in Evaluation
    PROVE  /\ status[e].reached \in 0 .. status'[e].reached
           /\ status'[e].reached \in 0 .. LastEvent
           /\ status[e].outcome # None => status'[e] = status[e]
           /\ status'[e].outcome = "SUCCEEDED" => status'[e].reached = LastEvent
           /\ status'[e].outcome # None => status'[e].reached >= 1
<1>1. /\ status[e] \in Status /\ status[e].reached \in 0 .. LastEvent
      /\ status[e].outcome # None => status[e].reached >= 1
      /\ status[e].outcome = "SUCCEEDED" => status[e].reached = LastEvent
      /\ LastEvent \in Nat /\ LastEvent >= 1
  BY StatusFields, ClientConstants DEF ClientTypeOK, StatusesAreReal
<1>2. CASE status'[e] = status[e]
  BY <1>1, <1>2
<1>3. ASSUME NEW d \in Evaluation, Proceed(d), status'[e] # status[e]
      PROVE  /\ status[e].outcome = None /\ status[e].reached >= 1
             /\ \/ status'[e].reached = status[e].reached /\ status'[e].outcome = "FAILED"
                \/ /\ status'[e].reached = status[e].reached /\ status'[e].outcome = "SUCCEEDED"
                   /\ status[e].reached = LastEvent
                \/ /\ status'[e].reached = status[e].reached + 1 /\ status'[e].outcome = None
                   /\ status[e].reached < LastEvent
  <2>1. d = e
    BY <1>3 DEF Proceed, ClientTypeOK
  <2>2. status[e].outcome = None /\ status[e].reached >= 1
    BY <1>1, <1>3, <2>1 DEF Proceed
  <2>3. CASE status' = [status EXCEPT ![e].outcome = "FAILED"]
    BY <2>2, <2>3 DEF ClientTypeOK, Status
  <2>4. CASE status[e].reached = LastEvent /\ status' = [status EXCEPT ![e].outcome = "SUCCEEDED"]
    BY <2>2, <2>4 DEF ClientTypeOK, Status
  <2>5. CASE status[e].reached < LastEvent /\ status' = [status EXCEPT ![e].reached = @ + 1]
    BY <2>2, <2>5 DEF ClientTypeOK, Status
  <2> QED
    BY <1>3, <2>1, <2>3, <2>4, <2>5 DEF Proceed
<1>4. ASSUME NEW d \in Evaluation, status[d].reached = 0, status'[e] # status[e],
             status' = [status EXCEPT ![d] = [reached |-> 1, outcome |-> None]]
      PROVE  status'[e].reached = 1 /\ status'[e].outcome = None /\ status[e].reached = 0
  BY <1>4 DEF ClientTypeOK
<1>5. CASE status'[e] # status[e]
  <2>1. CASE \E d \in Evaluation : Proceed(d)
    BY <1>1, <1>3, <1>5, <2>1, ClientConstants DEF Outcome
  <2>2. CASE \E d \in Evaluation :
                /\ status[d].reached = 0
                /\ status' = [status EXCEPT ![d] = [reached |-> 1, outcome |-> None]]
    BY <1>1, <1>4, <1>5, <2>2, ClientConstants DEF Outcome
  <2> QED
    BY <1>5, <2>1, <2>2, StatusSteps
<1> QED
  BY <1>2, <1>5

LEMMA LogGrows ==
    ASSUME ClientTypeOK, StatusesAreReal, [ClientNext]_clientVars, NEW e \in Evaluation
    PROVE  Log(e) \subseteq Log(e)'
<1>1. /\ \A i \in 1 .. status[e].reached : i \in 1 .. status'[e].reached
      /\ status[e].outcome # None => status'[e] = status[e]
  BY Grows
<1> QED
  BY <1>1 DEF Log

LEMMA PastStays ==
    ASSUME ClientTypeOK, StatusesAreReal, [ClientNext]_clientVars, NEW e \in Evaluation,
           NEW old \in Status, Past(old, status[e])
    PROVE  Past(old, status'[e])
<1>1. old.reached \in 1 .. status'[e].reached
  BY Grows DEF Past
<1>2. old.outcome # None => old.outcome = status'[e].outcome
  BY Grows DEF Past
<1> QED
  BY <1>1, <1>2 DEF Past

\* The page gets to know of no evaluation but by submitting it.
LEMMA KnownSteps ==
    ASSUME ClientTypeOK, [ClientNext]_clientVars, NEW e \in Evaluation,
           jobs'[e] # None \/ e \in access' \/ e \in listed'
    PROVE  jobs[e] # None \/ e \in access \/ e \in listed \/ status'[e].reached = 1
<1>1. \A d \in Processing : jobs[d] # None
  BY ClientConstants DEF Processing, JobStatus
<1>2. CASE UNCHANGED <<jobs, access, listed>>
  BY <1>2
<1>3. CASE ChooseFile \/ CancelChallenge \/ Start \/ RemoveAudio \/ FetchFails
  BY <1>2, <1>3 DEF ChooseFile, CancelChallenge, Start, RemoveAudio, FetchFails, Reset, storage, effects
<1>4. CASE Reload \/ Render
  BY <1>1, <1>4 DEF Reload, Render, RefreshEffect, storage
<1>5. CASE FetchResolves
  <2>1. fetching \in Evaluation
    BY <1>5 DEF FetchResolves, ClientTypeOK
  <2> QED
    BY <1>5, <2>1, Records DEF FetchResolves, effects
<1>6. ASSUME NEW d \in Evaluation, LateFetchResolves(d)
      PROVE  jobs[e] # None \/ e \in access \/ e \in listed
  BY <1>6, Records DEF LateFetchResolves, effects
<1>7. ASSUME NEW d \in Evaluation, LateFetchFails(d) \/ Proceed(d)
      PROVE  UNCHANGED <<jobs, access, listed>>
  BY <1>7 DEF LateFetchFails, Proceed, storage, effects
<1>8. ASSUME NEW t \in Run, SocketCloses(t) \/ \E ev \in Event : Frame(t, ev)
      PROVE  UNCHANGED <<jobs, access, listed>>
  BY <1>8 DEF SocketCloses, Frame, storage, effects
<1>9. ASSUME NEW t \in Run, StartRejects(t) \/ ResumeReads(t) \/ ResumeResolves(t) \/ ResumeRejects(t)
      PROVE  UNCHANGED <<jobs, access, listed>>
  BY <1>9 DEF StartRejects, ResumeReads, ResumeResolves, ResumeRejects, storage, effects
<1>10. ASSUME NEW t \in Run, StartResolves(t)
       PROVE  jobs[e] # None \/ e \in access \/ e \in listed \/ status'[e].reached = 1
  <2>1. PICK d \in Evaluation :
            /\ status' = [status EXCEPT ![d] = [reached |-> 1, outcome |-> None]]
            /\ jobs' = [jobs EXCEPT ![d] = "processing"]
            /\ access' = access \cup {d}
            /\ listed' = listed
    BY <1>10 DEF StartResolves, Unused, effects
  <2>2. CASE d = e
    BY <2>1, <2>2 DEF ClientTypeOK
  <2>3. CASE d # e
    BY <2>1, <2>3 DEF ClientTypeOK
  <2> QED
    BY <2>2, <2>3
<1>11. CASE UNCHANGED clientVars
  BY <1>2, <1>11 DEF clientVars
<1> QED
  BY <1>2, <1>3, <1>4, <1>5, <1>6, <1>7, <1>8, <1>9, <1>10, <1>11 DEF ClientNext, RunStep

LEMMA StatusesStep ==
    ASSUME ClientTypeOK, StatusesAreReal, [ClientNext]_clientVars
    PROVE  StatusesAreReal'
<1> SUFFICES ASSUME NEW e \in Evaluation
             PROVE  /\ status'[e].outcome = "SUCCEEDED" => status'[e].reached = LastEvent
                    /\ (status'[e].outcome # None \/ jobs'[e] # None \/ e \in access' \/ e \in listed')
                           => status'[e].reached >= 1
  BY DEF StatusesAreReal
<1>1. /\ status'[e].outcome = "SUCCEEDED" => status'[e].reached = LastEvent
      /\ status'[e].outcome # None => status'[e].reached >= 1
  BY Grows
<1>2. (jobs[e] # None \/ e \in access \/ e \in listed) => status'[e].reached >= 1
  BY Grows DEF StatusesAreReal
<1>3. (jobs'[e] # None \/ e \in access' \/ e \in listed') => status'[e].reached >= 1
  BY <1>2, KnownSteps
<1> QED
  BY <1>1, <1>3

-----------------------------------------------------------------------------
(* The promises                                                            *)

\* What CallsAreReal says of one promise.
CallIsReal(c) ==
    /\ c.kind = "start" => c.seen = None
    /\ c.kind = "resume" => c.evaluation # None /\ status[c.evaluation].reached >= 1
    /\ c.seen # None => Past(c.seen, status[c.evaluation])

LEMMA CallStays ==
    ASSUME ClientTypeOK, StatusesAreReal, [ClientNext]_clientVars, NEW c \in Call, CallIsReal(c)
    PROVE  CallIsReal(c)'
<1>1. /\ c.kind \in {"start", "resume"} /\ c.evaluation \in Evaluation \cup {None}
      /\ c.seen \in Status \cup {None}
  BY DEF Call
<1>2. CASE c.kind = "start"
  BY <1>2 DEF CallIsReal
<1>3. CASE c.kind = "resume"
  <2>1. c.evaluation \in Evaluation /\ status[c.evaluation].reached >= 1
    BY <1>1, <1>3 DEF CallIsReal
  <2>2. status'[c.evaluation].reached >= 1
    BY <2>1, Grows
  <2>3. ASSUME c.seen # None
        PROVE  Past(c.seen, status'[c.evaluation])
    BY <1>1, <2>1, <2>3, PastStays DEF CallIsReal
  <2> QED
    BY <1>3, <2>1, <2>2, <2>3 DEF CallIsReal
<1> QED
  BY <1>1, <1>2, <1>3

\* A promise that is unresolved after a step was so before, or has begun, or
\* has read a status.
LEMMA CallSteps ==
    ASSUME ClientTypeOK, [ClientNext]_clientVars, NEW t \in Run, call'[t] # None
    PROVE  \/ call'[t] = call[t]
           \/ call'[t].kind = "start" /\ call'[t].seen = None
           \/ /\ status' = status
              /\ \E e \in listed : call'[t] = [kind |-> "resume", evaluation |-> e, seen |-> None]
           \/ /\ status' = status
              /\ call[t] \in Call /\ call[t].kind = "resume" /\ call[t].evaluation \in access
              /\ call'[t] = [call[t] EXCEPT !.seen = status[call[t].evaluation]]
<1>1. CASE call' = call
  BY <1>1
<1>2. ASSUME NEW u \in Run, call' = [call EXCEPT ![u] = None]
      PROVE  call'[t] = call[t]
  BY <1>2 DEF ClientTypeOK
<1>3. ASSUME NEW c, call' = [call EXCEPT ![runToken + 1] = c]
      PROVE  call'[t] = call[t] \/ call'[t] = c
  BY <1>3 DEF ClientTypeOK
<1>4. CASE UNCHANGED clientVars
  BY <1>1, <1>4 DEF clientVars
<1>5. CASE ChooseFile \/ CancelChallenge \/ RemoveAudio \/ FetchFails \/ FetchResolves
  BY <1>1, <1>5 DEF ChooseFile, CancelChallenge, RemoveAudio, FetchFails, FetchResolves, Reset, hook
<1>6. CASE Start
  <2>1. call' = [call EXCEPT ![runToken + 1] = [kind |-> "start", evaluation |-> None, seen |-> None]]
    BY <1>6 DEF Start
  <2> QED
    BY <1>3, <2>1
<1>7. CASE Reload
  BY <1>7 DEF Reload
<1>8. CASE Render
  <2>1. CASE UNCHANGED hook
    BY <1>1, <2>1 DEF hook
  <2>2. ASSUME NEW e \in listed, Resume(e)
        PROVE  \/ call'[t] = call[t]
               \/ call'[t] = [kind |-> "resume", evaluation |-> e, seen |-> None]
    <3>1. call' = [call EXCEPT ![runToken + 1] = [kind |-> "resume", evaluation |-> e, seen |-> None]]
      BY <2>2 DEF Resume
    <3> QED
      BY <1>3, <3>1
  <2> QED
    BY <1>8, <2>1, <2>2, Resumes DEF Render
<1>9. ASSUME NEW e \in Evaluation, LateFetchResolves(e) \/ LateFetchFails(e) \/ Proceed(e)
      PROVE  call' = call
  BY <1>9 DEF LateFetchResolves, LateFetchFails, Proceed, hook
<1>10. ASSUME NEW u \in Run, SocketCloses(u) \/ \E ev \in Event : Frame(u, ev)
       PROVE  call' = call
  BY <1>10 DEF SocketCloses, Frame
<1>11. ASSUME NEW u \in Run, StartResolves(u) \/ StartRejects(u) \/ ResumeResolves(u) \/ ResumeRejects(u)
       PROVE  call' = [call EXCEPT ![u] = None]
  BY <1>11 DEF StartResolves, StartRejects, ResumeResolves, ResumeRejects
<1>12. ASSUME NEW u \in Run, ResumeReads(u), u # t
       PROVE  call'[t] = call[t]
  BY <1>12 DEF ResumeReads, ClientTypeOK
<1>13. ASSUME ResumeReads(t)
       PROVE  /\ status' = status
              /\ call[t] \in Call /\ call[t].kind = "resume" /\ call[t].evaluation \in access
              /\ call'[t] = [call[t] EXCEPT !.seen = status[call[t].evaluation]]
  BY <1>13 DEF ResumeReads, ClientTypeOK
<1> QED
  BY <1>1, <1>2, <1>4, <1>5, <1>6, <1>7, <1>8, <1>9, <1>10, <1>11, <1>12, <1>13 DEF ClientNext, RunStep

LEMMA CallsStep ==
    ASSUME ClientTypeOK, StatusesAreReal, CallsAreReal, [ClientNext]_clientVars
    PROVE  CallsAreReal'
<1> SUFFICES ASSUME NEW t \in Run, call'[t] # None
             PROVE  CallIsReal(call[t])'
  BY DEF CallsAreReal, CallIsReal
<1>1. CASE call'[t] = call[t]
  <2>1. call[t] \in Call /\ CallIsReal(call[t])
    BY <1>1 DEF CallsAreReal, CallIsReal, ClientTypeOK
  <2>2. ASSUME NEW c \in Call, CallIsReal(c), c = call'[t]
        PROVE  CallIsReal(call[t])'
    BY <2>2, CallStays DEF CallIsReal
  <2> QED
    BY <1>1, <2>1, <2>2
<1>2. CASE call'[t].kind = "start" /\ call'[t].seen = None
  BY <1>2 DEF CallIsReal
<1>3. ASSUME NEW e \in listed, status' = status,
             call'[t] = [kind |-> "resume", evaluation |-> e, seen |-> None]
      PROVE  CallIsReal(call[t])'
  <2>1. e \in Evaluation /\ e # None /\ status'[e].reached >= 1
    BY <1>3, ClientConstants DEF StatusesAreReal, ClientTypeOK
  <2> QED
    BY <1>3, <2>1 DEF CallIsReal
<1>4. CASE /\ status' = status
           /\ call[t] \in Call /\ call[t].kind = "resume" /\ call[t].evaluation \in access
           /\ call'[t] = [call[t] EXCEPT !.seen = status[call[t].evaluation]]
  <2> DEFINE e == call[t].evaluation
  <2>1. /\ call'[t].kind = "resume" /\ call'[t].evaluation = e /\ call'[t].seen = status[e]
    BY <1>4 DEF Call
  <2>2. e \in access /\ e \in Evaluation /\ e # None
    BY <1>4, ClientConstants DEF ClientTypeOK
  <2> HIDE DEF e
  <2>3. status[e].reached \in 0 .. LastEvent /\ status[e].reached >= 1
    BY <2>2, StatusFields DEF StatusesAreReal, ClientTypeOK
  <2>4. Past(status[e], status'[e])
    BY <1>4, <2>2, <2>3 DEF Past, StatusesAreReal
  <2> QED
    BY <1>4, <2>1, <2>2, <2>3, <2>4 DEF CallIsReal
<1> QED
  BY <1>1, <1>2, <1>3, <1>4, CallSteps

-----------------------------------------------------------------------------
(* One run                                                                 *)

LEMMA InitialHasNoRun ==
    /\ state = InitialState => ~ HasRun
    /\ state' = InitialState => ~ HasRun'
BY InitialTracker DEF HasRun

\* A run that is left leaves no subscription.
LEMMA Left ==
    ASSUME ClientTypeOK, OneRun, Teardown, followed' = None,
           state' = InitialState \/ (state' = state /\ ~ HasRun)
    PROVE  OneRun'
<1>1. \A t \in Run : socket'[t] = None
  BY DEF Teardown, OneRun, OneSubscription
<1>2. ~ HasRun' /\ state' = InitialState
  BY InitialHasNoRun DEF OneRun
<1> QED
  BY <1>1, <1>2 DEF OneRun, OneSubscription

\* A promise of the latest run finds the initial tracker, and no subscription.
LEMMA Awaited ==
    ASSUME ClientTypeOK, OneRun, NEW t \in Run, call[t] # None, IsLatest(t)
    PROVE  ~ HasRun /\ state = InitialState /\ \A u \in Run : socket[u] = None
<1>1. ~ HasRun /\ state = InitialState
  BY DEF OneRun, IsLatest
<1>2. followed = None
  BY DEF OneRun, IsLatest
<1>3. ASSUME NEW u \in Run, socket[u] # None
      PROVE  FALSE
  <2>1. followed = u
    BY <1>3 DEF OneRun, OneSubscription
  <2>2. u # None
    BY ClientConstants
  <2> QED
    BY <1>2, <2>1, <2>2
<1> QED
  BY <1>1, <1>3

LEMMA Followed ==
    ASSUME ClientTypeOK, OneRun, NEW t \in Run, call[t] # None, IsLatest(t),
           NEW e \in Evaluation, NEW seen \in Status, Follow(t, e, seen),
           call' = [call EXCEPT ![t] = None], runToken' = runToken
    PROVE  OneRun'
<1>1. state'.evaluation = e /\ e # None
  <2>1. state \in Tracker /\ state' = Seed(state, e, seen)
    BY DEF Follow, ClientTypeOK
  <2>2. e # None
    BY ClientConstants
  <2> QED
    BY <2>1, <2>2, Seeds
<1>2. \A u \in Run : socket'[u] = (IF u = t THEN e ELSE None)
  BY Awaited DEF Follow, ClientTypeOK
<1>3. followed' = t /\ t = runToken' /\ call'[t] = None
  BY DEF Follow, IsLatest, ClientTypeOK
<1> QED
  BY <1>1, <1>2, <1>3 DEF OneRun, OneSubscription, HasRun

LEMMA Settled ==
    ASSUME ClientTypeOK, OneRun, UNCHANGED <<state, runToken, followed>>,
           \A t \in Run : call'[t] = call[t] \/ call'[t] = None \/ (call'[t] # None /\ call[t] # None),
           \A t \in Run : socket'[t] = socket[t] \/ socket'[t] = None
    PROVE  OneRun'
<1>1. HasRun' <=> HasRun
  BY DEF HasRun
<1>2. OneSubscription'
  BY DEF OneRun, OneSubscription
<1>3. \A t \in Run : call'[t] # None => call[t] # None
  OBVIOUS
<1>4. followed # None => followed \in Run
  BY DEF ClientTypeOK
<1> QED
  BY <1>1, <1>2, <1>3, <1>4 DEF OneRun

\* What a step does to the run: it leaves it, follows an answer that is not
\* late, applies a frame, or leaves the tracker alone.
Leaves ==
    /\ state' = InitialState
    /\ OneRun'

Follows(t, e, seen) ==
    /\ call[t] # None /\ IsLatest(t)
    /\ Past(seen, status'[e])
    /\ Follow(t, e, seen)
    /\ OneRun'

Stays == state' = state /\ OneRun'

LEMMA RunSteps ==
    ASSUME ClientTypeOK, StatusesAreReal, CallsAreReal, OneRun, [ClientNext]_clientVars
    PROVE  \/ Leaves
           \/ Stays
           \/ \E t \in Run, e \in Evaluation, seen \in Status : Follows(t, e, seen)
           \/ /\ \E t \in Run, ev \in Event : Frame(t, ev)
              /\ OneRun'
<1>1. CASE UNCHANGED <<state, runToken, call, socket, followed>>
  BY <1>1, Settled DEF Stays
<1>2. CASE UNCHANGED clientVars
  BY <1>1, <1>2 DEF clientVars
<1>3. CASE CancelChallenge \/ FetchFails
  BY <1>1, <1>3 DEF CancelChallenge, FetchFails, hook
<1>4. CASE FetchResolves
  BY <1>1, <1>4 DEF FetchResolves
<1>5. ASSUME NEW e \in Evaluation, LateFetchResolves(e) \/ LateFetchFails(e) \/ Proceed(e)
      PROVE  UNCHANGED <<state, runToken, call, socket, followed>>
  BY <1>5 DEF LateFetchResolves, LateFetchFails, Proceed, hook
<1>6. CASE ChooseFile \/ RemoveAudio \/ Start
  <2>1. Teardown /\ followed' = None /\ state' = InitialState
    BY <1>6 DEF ChooseFile, RemoveAudio, Start, Reset
  <2> QED
    BY <2>1, Left DEF Leaves
<1>7. CASE Reload
  <2>1. /\ state' = InitialState /\ followed' = None
        /\ \A t \in Run : call'[t] = None /\ socket'[t] = None
    BY <1>7 DEF Reload
  <2> QED
    BY <2>1, InitialHasNoRun DEF Leaves, OneRun, OneSubscription
<1>8. CASE Render
  <2>1. CASE UNCHANGED hook
    BY <1>1, <2>1 DEF hook
  <2>2. ASSUME ~ HasRun, NEW e \in listed, Resume(e)
        PROVE  Stays
    BY <2>2, Left DEF Resume, Stays
  <2> QED
    BY <1>8, <2>1, <2>2, Resumes DEF Render
<1>9. ASSUME NEW t \in Run, SocketCloses(t)
      PROVE  Stays
  BY <1>9, Settled DEF SocketCloses, Stays, ClientTypeOK
<1>10. ASSUME NEW t \in Run, NEW ev \in Event, Frame(t, ev)
       PROVE  OneRun'
  <2>1. HasRun /\ state'.evaluation = state.evaluation
    <3>1. socket[t] # None /\ socket[t] = state.evaluation
      BY <1>10 DEF Frame, OneRun, OneSubscription
    <3>2. state'.evaluation = state.evaluation
      BY <1>10, Frames DEF Frame, ClientTypeOK
    <3> QED
      BY <3>1, <3>2 DEF HasRun
  <2>2. UNCHANGED <<runToken, call, socket, followed>>
    BY <1>10 DEF Frame
  <2> QED
    BY <2>1, <2>2 DEF OneRun, OneSubscription, HasRun
<1>11. ASSUME NEW t \in Run, UNCHANGED <<state, runToken, socket, followed>>,
              call' = [call EXCEPT ![t] = None]
       PROVE  Stays
  BY <1>11, Settled DEF Stays, ClientTypeOK
<1>12. ASSUME NEW t \in Run, StartRejects(t)
       PROVE  Stays
  BY <1>11, <1>12 DEF StartRejects
<1>13. ASSUME NEW t \in Run, ResumeRejects(t)
       PROVE  Stays
  <2>1. state' = state
    BY <1>13, Awaited DEF ResumeRejects
  <2> QED
    BY <1>11, <1>13, <2>1 DEF ResumeRejects
<1>14. ASSUME NEW t \in Run, ResumeReads(t)
       PROVE  Stays
  <2>1. UNCHANGED <<state, runToken, socket, followed>> /\ call[t] # None
    BY <1>14 DEF ResumeReads
  <2>2. \A u \in Run : call'[u] = call[u] \/ u = t
    BY <1>14 DEF ResumeReads, ClientTypeOK
  <2> QED
    BY <2>1, <2>2, Settled DEF Stays
<1>15. ASSUME NEW t \in Run, StartResolves(t)
       PROVE  Stays \/ \E e \in Evaluation, seen \in Status : Follows(t, e, seen)
  <2> DEFINE pending == [reached |-> 1, outcome |-> None]
  <2>1. pending \in Status /\ pending.reached = 1 /\ pending.outcome = None
    BY ClientConstants DEF Status
  <2>2. /\ call[t] # None /\ runToken' = runToken
        /\ call' = [call EXCEPT ![t] = None]
    BY <1>15 DEF StartResolves
  <2>3. PICK e \in Evaluation :
           /\ status' = [status EXCEPT ![e] = pending]
           /\ IF IsLatest(t)
              THEN Follow(t, e, pending)
              ELSE UNCHANGED <<state, socket, followed>>
    BY <1>15 DEF StartResolves, Unused
  <2> HIDE DEF pending
  <2>4. CASE IsLatest(t)
    <3>1. status'[e] = pending
      BY <2>3 DEF ClientTypeOK
    <3>2. Past(pending, status'[e])
      BY <2>1, <3>1, ClientConstants DEF Past, Outcome
    <3>3. Follow(t, e, pending)
      BY <2>3, <2>4
    <3>4. OneRun'
      BY <2>1, <2>2, <2>4, <3>3, Followed
    <3> QED
      BY <2>1, <2>2, <2>4, <3>2, <3>3, <3>4 DEF Follows
  <2>5. CASE ~ IsLatest(t)
    BY <1>11, <2>2, <2>3, <2>5
  <2> QED
    BY <2>4, <2>5
<1>16. ASSUME NEW t \in Run, ResumeResolves(t)
       PROVE  Stays \/ \E e \in Evaluation, seen \in Status : Follows(t, e, seen)
  <2> DEFINE e == call[t].evaluation
             seen == call[t].seen
  <2>1. /\ call[t] \in Call /\ call[t] # None /\ seen # None
        /\ runToken' = runToken /\ status' = status /\ call' = [call EXCEPT ![t] = None]
        /\ IF IsLatest(t) THEN Follow(t, e, seen) ELSE UNCHANGED <<state, socket, followed>>
    BY <1>16 DEF ResumeResolves, ClientTypeOK
  <2>2. seen \in Status /\ call[t].kind \in {"start", "resume"}
    BY <2>1 DEF Call
  <2>3. e \in Evaluation /\ Past(seen, status[e])
    BY <2>1, <2>2 DEF CallsAreReal, Call
  <2> HIDE DEF e, seen
  <2>4. CASE IsLatest(t)
    <3>1. OneRun'
      BY <2>1, <2>2, <2>3, <2>4, Followed
    <3> QED
      BY <2>1, <2>2, <2>3, <2>4, <3>1 DEF Follows
  <2>5. CASE ~ IsLatest(t)
    BY <1>11, <2>1, <2>5
  <2> QED
    BY <2>4, <2>5
<1> QED
  BY <1>1, <1>2, <1>3, <1>4, <1>5, <1>6, <1>7, <1>8, <1>9, <1>10, <1>12, <1>13, <1>14, <1>15, <1>16
     DEF ClientNext, RunStep

-----------------------------------------------------------------------------
(* The tracker                                                             *)

\* What the invariant says of the tracker.
TrackerInv ==
    /\ HasRun => status[state.evaluation].reached >= 1
    /\ TrackerIsTrue
    /\ StagesAreLogged

LEMMA TrackerStays ==
    ASSUME ClientTypeOK, StatusesAreReal, [ClientNext]_clientVars, TrackerInv, state' = state
    PROVE  TrackerInv'
<1>1. CASE ~ HasRun
  BY <1>1 DEF TrackerInv, TrackerIsTrue, StagesAreLogged, Running, HasRun
<1>2. CASE HasRun
  <2>1. PICK e \in Evaluation : e = state.evaluation
    BY <1>2, TrackerFields DEF HasRun, ClientTypeOK
  <2>2. /\ status'[e].reached >= 1
        /\ status[e].outcome # None => status'[e] = status[e]
    <3>1. status[e].reached >= 1 /\ status[e].reached \in 0 .. LastEvent
      BY <1>2, <2>1, StatusFields DEF TrackerInv, ClientTypeOK
    <3> QED
      BY <3>1, Grows, ClientConstants
  <2>3. Log(state.evaluation) \subseteq Log(state.evaluation)'
    <3>1. Log(e) \subseteq Log(e)'
      BY LogGrows
    <3> QED
      BY <2>1, <3>1 DEF Log
  <2>4. e = state.evaluation /\ e = state'.evaluation
    BY <2>1
  <2>5. TrackerIsTrue'
    BY <1>2, <2>2, <2>3, <2>4 DEF TrackerInv, TrackerIsTrue, HasRun
  <2>6. StagesAreLogged'
    BY <1>2, <2>3, <2>4 DEF TrackerInv, StagesAreLogged, Running, HasRun
  <2> QED
    BY <2>2, <2>4, <2>5, <2>6 DEF TrackerInv
<1> QED
  BY <1>1, <1>2

LEMMA TrackerLeft ==
    ASSUME state' = InitialState
    PROVE  TrackerInv'
BY InitialHasNoRun DEF TrackerInv, TrackerIsTrue, StagesAreLogged, Running

\* A snapshot may be behind when it is followed; it says nothing that was not so.
LEMMA TrackerFollows ==
    ASSUME ClientTypeOK, ClientTypeOK', OneRun,
           NEW t \in Run, NEW e \in Evaluation, NEW seen \in Status, Follows(t, e, seen)
    PROVE  TrackerInv'
<1>1. state = InitialState /\ state \in Tracker
  BY Awaited DEF Follows, ClientTypeOK
<1>2. /\ state'.evaluation = e /\ state'.stages = SeedStages(seen)
      /\ state'.outcome = seen.outcome /\ state'.events = {}
  BY <1>1, Seeds, InitialTracker DEF Follows, Follow
<1>3. /\ seen.reached \in 1 .. status'[e].reached /\ seen.reached >= 1
      /\ status'[e].reached \in 0 .. LastEvent
      /\ seen.outcome # None => seen.outcome = status'[e].outcome
      /\ seen.outcome = "SUCCEEDED" => seen.reached = LastEvent
  <2>1. status'[e].reached \in 0 .. LastEvent
    BY StatusFields DEF ClientTypeOK
  <2> QED
    BY <2>1, ClientConstants DEF Follows, Past
<1>4. \A j \in 1 .. seen.reached : EventAt(j) \in Log(e)'
  <2>1. \A j \in 1 .. seen.reached : j \in 1 .. status'[e].reached
    BY <1>3
  <2> QED
    BY <2>1 DEF Log
<1>5. ASSUME NEW s \in Stage, seen.outcome = "SUCCEEDED" => s \in WorkStage
      PROVE  \/ SeedStages(seen)[s] = "pending"
             \/ [stage |-> s, to |-> SeedStages(seen)[s]] \in Log(e)'
  <2>1. \/ SeedStages(seen)[s] = "pending"
        \/ \E j \in 1 .. seen.reached : [stage |-> s, to |-> SeedStages(seen)[s]] = EventAt(j)
    BY <1>3, <1>5, SeedsAreLogged
  <2> QED
    BY <1>4, <2>1
<1>6. status'[state'.evaluation].reached >= 1
  BY <1>2, <1>3, ClientConstants
<1>7. TrackerIsTrue'
  <2>1. ASSUME NEW s \in WorkStage
        PROVE  \/ state'.stages[s] \notin {"processing", "complete"}
               \/ [stage |-> s, to |-> state'.stages[s]] \in Log(state.evaluation)'
    <3>1. s \in Stage
      BY DEF Stage
    <3>2. \/ SeedStages(seen)[s] = "pending"
          \/ [stage |-> s, to |-> SeedStages(seen)[s]] \in Log(e)'
      BY <1>5, <3>1
    <3> QED
      BY <1>2, <3>2 DEF Log
  <2>2. state'.events \subseteq Log(state.evaluation)'
    BY <1>2
  <2>3. state'.outcome # None => state'.outcome = status'[state'.evaluation].outcome
    BY <1>2, <1>3
  <2> QED
    BY <2>1, <2>2, <2>3 DEF TrackerIsTrue, Log
<1>8. StagesAreLogged'
  <2>1. ASSUME NEW s \in Stage, state'.outcome = None
        PROVE  \/ state'.stages[s] = "pending"
               \/ [stage |-> s, to |-> state'.stages[s]] \in Log(state.evaluation)'
    <3>1. seen.outcome # "SUCCEEDED"
      BY <1>2, <2>1, ClientConstants DEF Outcome
    <3>2. \/ SeedStages(seen)[s] = "pending"
          \/ [stage |-> s, to |-> SeedStages(seen)[s]] \in Log(e)'
      BY <1>5, <3>1
    <3> QED
      BY <1>2, <3>2 DEF Log
  <2> QED
    BY <1>2, <2>1 DEF StagesAreLogged, Running, Log
<1> QED
  BY <1>6, <1>7, <1>8 DEF TrackerInv

\* A frame of the log of the evaluation that is shown; the order of the frames
\* does not matter, and neither does a repeated one.
LEMMA TrackerFrames ==
    ASSUME ClientTypeOK, OneRun, TrackerInv, NEW t \in Run, NEW ev \in Event, Frame(t, ev)
    PROVE  TrackerInv'
<1> DEFINE e == state.evaluation
           next == ApplyFrame(state, ev)
<1>1. /\ HasRun /\ e \in Evaluation /\ ev \in Log(e)
      /\ status' = status /\ state' = next /\ state \in Tracker
  BY ClientConstants DEF Frame, OneRun, OneSubscription, HasRun, ClientTypeOK
<1>2. /\ next.evaluation = e
      /\ next.events = state.events \cup {ev}
      /\ (ev \in state.events \/ state.outcome # None) =>
            next.stages = state.stages /\ next.outcome = state.outcome
      /\ (ev \notin state.events /\ state.outcome = None /\ ev.stage = "result") =>
            /\ next.outcome = IF ev.to = "complete" THEN "SUCCEEDED" ELSE "FAILED"
            /\ \A s \in Stage \ {"result"} : next.stages[s] \in {state.stages[s], "failed", "skipped"}
      /\ (ev \notin state.events /\ state.outcome = None /\ ev.stage # "result") =>
            /\ next.outcome = None
            /\ next.stages = [state.stages EXCEPT ![ev.stage] = Advance(@, ev.to)]
  BY <1>1, Frames
<1>3. /\ ev.stage # "result" => ev.to \in {"processing", "complete"}
      /\ ev.stage = "result" =>
            status[e].outcome = IF ev.to = "complete" THEN "SUCCEEDED" ELSE "FAILED"
  BY <1>1, LogFacts
<1>4. /\ state.events \subseteq Log(e)
      /\ state.outcome # None => state.outcome = status[e].outcome
      /\ \A s \in WorkStage :
            \/ state.stages[s] \notin {"processing", "complete"}
            \/ [stage |-> s, to |-> state.stages[s]] \in Log(e)
  BY <1>1 DEF TrackerInv, TrackerIsTrue
<1>5. state.outcome = None =>
          /\ \A s \in Stage :
                \/ state.stages[s] = "pending"
                \/ [stage |-> s, to |-> state.stages[s]] \in Log(e)
          /\ \A old \in state.events :
                /\ old.stage # "result"
                /\ state.stages[old.stage] \in {old.to, "complete"}
  BY <1>1 DEF TrackerInv, StagesAreLogged, Running
<1>6. status[e].reached >= 1
  BY <1>1 DEF TrackerInv
<1>7. /\ ev.stage \in Stage /\ ev = [stage |-> ev.stage, to |-> ev.to]
      /\ \A old \in state.events : old.stage \in Stage
      /\ state.stages \in [Stage -> StageState]
      /\ WorkStage \subseteq Stage \ {"result"}
  BY <1>1, TrackerFields, ClientConstants DEF Event, Stage
<1> HIDE DEF e, next
\* What is left to show, of the tracker that the frame makes.
<1>8. SUFFICES
         /\ next.outcome # None => next.outcome = status[e].outcome
         /\ \A s \in WorkStage :
               \/ next.stages[s] \notin {"processing", "complete"}
               \/ [stage |-> s, to |-> next.stages[s]] \in Log(e)
         /\ next.outcome = None =>
               /\ \A s \in Stage :
                     \/ next.stages[s] = "pending"
                     \/ [stage |-> s, to |-> next.stages[s]] \in Log(e)
               /\ \A old \in state.events \cup {ev} :
                     /\ old.stage # "result"
                     /\ next.stages[old.stage] \in {old.to, "complete"}
  <2>1. PICK d \in Evaluation : d = e
    BY <1>1
  <2>2. /\ state'.evaluation = d /\ state'.events = state.events \cup {ev}
        /\ state'.stages = next.stages /\ state'.outcome = next.outcome
        /\ status'[d].reached >= 1
        /\ state'.events \subseteq Log(d)
    BY <1>1, <1>2, <1>4, <1>6, <2>1
  <2>3. Log(state.evaluation)' = Log(d) /\ status'[state'.evaluation] = status[d]
    BY <1>1, <2>2 DEF Log
  <2>4. TrackerIsTrue'
    BY <1>8, <2>1, <2>2, <2>3 DEF TrackerIsTrue
  <2>5. StagesAreLogged'
    BY <1>8, <2>1, <2>2, <2>3 DEF StagesAreLogged, Running
  <2> QED
    BY <2>2, <2>4, <2>5 DEF TrackerInv
<1>9. CASE ev \in state.events \/ state.outcome # None
  BY <1>2, <1>4, <1>5, <1>9
<1>10. CASE ev \notin state.events /\ state.outcome = None /\ ev.stage = "result"
  <2>1. next.outcome = status[e].outcome /\ next.outcome # None
    BY <1>2, <1>3, <1>10, ClientConstants DEF Outcome
  <2>2. ASSUME NEW s \in WorkStage
        PROVE  next.stages[s] = state.stages[s] \/ next.stages[s] \notin {"processing", "complete"}
    BY <1>2, <1>7, <1>10
  <2> QED
    BY <1>4, <2>1, <2>2
<1>11. CASE ev \notin state.events /\ state.outcome = None /\ ev.stage # "result"
  <2> DEFINE current == state.stages[ev.stage]
  <2>1. next.outcome = None
    BY <1>2, <1>11
  <2>2. /\ next.stages[ev.stage] = Advance(current, ev.to)
        /\ \A s \in Stage \ {ev.stage} : next.stages[s] = state.stages[s]
    BY <1>2, <1>7, <1>11
  <2>3. current \in Progressing
    <3>1. CASE current = "pending"
      BY <3>1 DEF Progressing
    <3>2. CASE [stage |-> ev.stage, to |-> current] \in Log(e)
      BY <1>1, <1>11, <3>2, LogFacts DEF Progressing
    <3> QED
      BY <1>5, <1>7, <1>11, <3>1, <3>2
  <2>4. current \in StageState /\ ev.to \in {"processing", "complete"}
    BY <1>3, <1>7, <1>11
  <2> HIDE DEF current
  <2>5. /\ next.stages[ev.stage] \in {current, ev.to}
        /\ next.stages[ev.stage] \in {ev.to, "complete"}
        /\ current = "complete" => next.stages[ev.stage] = "complete"
        /\ current = "processing" => next.stages[ev.stage] \in {"processing", "complete"}
    BY <2>2, <2>3, <2>4, Advances
  <2>6. ASSUME NEW s \in Stage
        PROVE  \/ next.stages[s] = "pending"
               \/ [stage |-> s, to |-> next.stages[s]] \in Log(e)
    <3>1. CASE s # ev.stage
      BY <1>5, <1>11, <2>2, <3>1
    <3>2. CASE s = ev.stage /\ next.stages[s] = ev.to
      BY <1>1, <1>7, <3>2
    <3>3. CASE s = ev.stage /\ next.stages[s] = current
      BY <1>5, <1>11, <3>3 DEF current
    <3> QED
      BY <2>5, <3>1, <3>2, <3>3
  <2>7. ASSUME NEW old \in state.events \cup {ev}
        PROVE  old.stage # "result" /\ next.stages[old.stage] \in {old.to, "complete"}
    <3>1. CASE old = ev
      BY <1>11, <2>5, <3>1
    <3>2. ASSUME old \in state.events
          PROVE  /\ old.stage # "result" /\ old.stage \in Stage
                 /\ state.stages[old.stage] \in {old.to, "complete"}
      BY <1>5, <1>7, <1>11, <3>2
    <3>3. CASE old \in state.events /\ old.stage # ev.stage
      BY <2>2, <3>2, <3>3
    <3>4. CASE old \in state.events /\ old.stage = ev.stage
      <4>1. old.stage # "result" /\ current \in {old.to, "complete"}
        BY <3>2, <3>4 DEF current
      <4>2. old.to \in {"processing", "complete"}
        BY <1>4, <1>1, <3>4, <4>1, LogFacts
      <4> QED
        BY <2>5, <3>4, <4>1, <4>2
    <3> QED
      BY <3>1, <3>3, <3>4
  <2>8. \A s \in WorkStage :
            \/ next.stages[s] \notin {"processing", "complete"}
            \/ [stage |-> s, to |-> next.stages[s]] \in Log(e)
    BY <1>7, <2>6
  <2> QED
    BY <2>1, <2>6, <2>7, <2>8
<1> QED
  BY <1>9, <1>10, <1>11

-----------------------------------------------------------------------------
(* The invariant *)

LEMMA ClientInvInit == ASSUME ClientInit PROVE ClientInv
<1>1. ClientTypeOK
  BY TypeInit
<1>2. StatusesAreReal
  <2>1. ASSUME NEW e \in Evaluation
        PROVE  /\ status[e].outcome = None
               /\ status[e].reached = IF e <= Stored THEN 1 ELSE 0
               /\ jobs[e] = IF e <= Stored THEN "processing" ELSE None
               /\ e \in access => e <= Stored
               /\ e \in listed => jobs[e] # None
    <3>1. "processing" # None
      BY ClientConstants DEF JobStatus
    <3>2. e \in access => e <= Stored
      BY ClientAssumption DEF ClientInit, Evaluation
    <3> QED
      BY <3>1, <3>2 DEF ClientInit, Processing
  <2>2. None # "SUCCEEDED"
    BY ClientConstants DEF Outcome
  <2> QED
    BY <2>1, <2>2 DEF StatusesAreReal
<1>3. CallsAreReal
  BY DEF ClientInit, CallsAreReal
<1>4. ~ HasRun
  BY InitialHasNoRun DEF ClientInit
<1>5. OneRun
  BY <1>4 DEF ClientInit, OneRun, OneSubscription
<1> QED
  BY <1>1, <1>2, <1>3, <1>4, <1>5 DEF ClientInv, TrackerIsTrue, StagesAreLogged, Running

LEMMA ClientInvStep ==
    ASSUME ClientInv, [ClientNext]_clientVars
    PROVE  ClientInv'
<1>1. ClientTypeOK /\ StatusesAreReal /\ CallsAreReal /\ OneRun /\ TrackerInv
  BY DEF ClientInv, TrackerInv
<1>2. ClientTypeOK'
  BY <1>1, TypeStep
<1>3. StatusesAreReal' /\ CallsAreReal'
  BY <1>1, StatusesStep, CallsStep
<1>4. OneRun' /\ TrackerInv'
  <2>1. CASE Leaves
    BY <2>1, TrackerLeft DEF Leaves
  <2>2. CASE Stays
    BY <1>1, <2>2, TrackerStays DEF Stays
  <2>3. ASSUME NEW t \in Run, NEW e \in Evaluation, NEW seen \in Status, Follows(t, e, seen)
        PROVE  OneRun' /\ TrackerInv'
    BY <1>1, <1>2, <2>3, TrackerFollows DEF Follows
  <2>4. ASSUME NEW t \in Run, NEW ev \in Event, Frame(t, ev)
        PROVE  TrackerInv'
    BY <1>1, <2>4, TrackerFrames
  <2> QED
    BY <1>1, <2>1, <2>2, <2>3, <2>4, RunSteps
<1> QED
  BY <1>2, <1>3, <1>4 DEF ClientInv, TrackerInv

\* The page of useEvaluation and App keeps ClientInv, whatever the user, the
\* promises and the sockets do.
THEOREM ClientInvariant == ClientSpec => []ClientInv
<1>1. ClientInit => ClientInv
  BY ClientInvInit
<1>2. ClientInv /\ [ClientNext]_clientVars => ClientInv'
  BY ClientInvStep
<1> QED
  BY <1>1, <1>2, PTL DEF ClientSpec

\* The page's state has its type.
THEOREM ClientTypeCorrect == ClientSpec => []ClientTypeOK
<1>1. ClientInv => ClientTypeOK
  BY DEF ClientInv
<1> QED
  BY <1>1, ClientInvariant, PTL

\* What the tracker shows of an evaluation is true of it: onFrame and the late
\* answers of runs that were left bring it nothing of another one.
THEOREM TrackerIsTrueAlways == ClientSpec => []TrackerIsTrue
<1>1. ClientInv => TrackerIsTrue
  BY DEF ClientInv
<1> QED
  BY <1>1, ClientInvariant, PTL

\* teardown leaves no socket open but the one of the latest run, which is the
\* run that is shown.
THEOREM OneSubscriptionAlways == ClientSpec => []OneSubscription
<1>1. ClientInv => OneSubscription
  BY DEF ClientInv, OneRun
<1> QED
  BY <1>1, ClientInvariant, PTL

\* When all frames have come there has been no outcome, and the frames and the
\* snapshot together fix every stage.
LEMMA CatchesUp ==
    ASSUME ClientInv, Running, state.events = Log(state.evaluation)
    PROVE  state.stages = StagesAt(status[state.evaluation].reached)
<1>1. PICK e \in Evaluation : e = state.evaluation
  BY TrackerFields DEF ClientInv, ClientTypeOK, Running, HasRun
<1>2. PICK i \in 1 .. LastEvent : i = status[e].reached
  <2>1. status[e].reached \in 0 .. LastEvent /\ LastEvent \in Nat
    BY StatusFields, ClientConstants DEF ClientInv, ClientTypeOK
  <2>2. status[e].reached >= 1
    BY <1>1 DEF ClientInv, Running
  <2> QED
    BY <2>1, <2>2
<1>3. /\ \A s \in Stage :
            \/ state.stages[s] = "pending"
            \/ [stage |-> s, to |-> state.stages[s]] \in Log(e)
      /\ \A ev \in Log(e) : ev.stage # "result" /\ state.stages[ev.stage] \in {ev.to, "complete"}
  BY <1>1 DEF ClientInv, StagesAreLogged
<1>4. \A j \in 1 .. i :
          EventAt(j) \in Log(e) /\ state.stages[EventAt(j).stage] \in {EventAt(j).to, "complete"}
  BY <1>2, <1>3, LogFacts DEF ClientInv
<1>5. ASSUME NEW s \in Stage, state.stages[s] # "pending"
      PROVE  \E j \in 1 .. i : EventAt(j) = [stage |-> s, to |-> state.stages[s]]
  <2> DEFINE ev == [stage |-> s, to |-> state.stages[s]]
  <2>1. ev \in Log(e) /\ ev.stage # "result"
    BY <1>3, <1>5
  <2> HIDE DEF ev
  <2>2. \E j \in 1 .. i : ev = EventAt(j)
    BY <1>2, <2>1, LogFacts DEF ClientInv
  <2> QED
    BY <2>2 DEF ev
<1>6. \A j \in 1 .. i : j \in 1 .. LastEvent
  BY ClientConstants
<1>7. state.stages["submitted"] = "complete"
  <2>1. 1 \in 1 .. i
    OBVIOUS
  <2>2. state.stages[EventAt(1).stage] \in {EventAt(1).to, "complete"}
    BY <1>4, <2>1
  <2>3. EventAt(1).stage = "submitted" /\ EventAt(1).to = "complete"
    BY FirstEvent
  <2> QED
    BY <2>2, <2>3
<1>8. state.stages["result"] = "pending"
  <2>1. "result" \in Stage
    BY DEF Stage
  <2>2. ASSUME NEW j \in 1 .. i, EventAt(j) = [stage |-> "result", to |-> state.stages["result"]]
        PROVE  FALSE
    BY <1>6, <2>2, EventTypes
  <2> QED
    BY <1>5, <2>1, <2>2
<1>9. ASSUME NEW k \in DOMAIN Work
      PROVE  state.stages[Work[k]] = IF 2 * k + 1 <= i THEN "complete"
                                     ELSE IF 2 * k <= i THEN "processing" ELSE "pending"
  <2>1. /\ EventAt(2 * k) = [stage |-> Work[k], to |-> "processing"]
        /\ EventAt(2 * k + 1) = [stage |-> Work[k], to |-> "complete"]
    BY WorkEvents
  <2>2. k \in Nat /\ k >= 1 /\ Work[k] \in Stage
    BY ClientConstants DEF Stage
  <2>3. ASSUME state.stages[Work[k]] # "pending"
        PROVE  \/ 2 * k <= i /\ state.stages[Work[k]] = "processing"
               \/ 2 * k + 1 <= i /\ state.stages[Work[k]] = "complete"
    <3>1. PICK j \in 1 .. i : EventAt(j) = [stage |-> Work[k], to |-> state.stages[Work[k]]]
      BY <1>5, <2>2, <2>3
    <3>2. j = 2 * k \/ j = 2 * k + 1
      BY <1>6, <3>1, StageEvents
    <3>3. CASE j = 2 * k
      <4>1. state.stages[Work[k]] = "processing"
        BY <2>1, <3>1, <3>3
      <4> QED
        BY <3>3, <4>1
    <3>4. CASE j = 2 * k + 1
      <4>1. state.stages[Work[k]] = "complete"
        BY <2>1, <3>1, <3>4
      <4> QED
        BY <3>4, <4>1
    <3> QED
      BY <3>2, <3>3, <3>4
  <2>4. CASE 2 * k + 1 <= i
    <3>1. 2 * k + 1 \in 1 .. i
      BY <2>2, <2>4
    <3>2. state.stages[EventAt(2 * k + 1).stage] \in {EventAt(2 * k + 1).to, "complete"}
      BY <1>4, <3>1
    <3>3. state.stages[Work[k]] = "complete"
      BY <2>1, <3>2
    <3> QED
      BY <2>4, <3>3
  <2>5. CASE ~ (2 * k + 1 <= i) /\ 2 * k <= i
    <3>1. 2 * k \in 1 .. i
      BY <2>2, <2>5
    <3>2. state.stages[EventAt(2 * k).stage] \in {EventAt(2 * k).to, "complete"}
      BY <1>4, <3>1
    <3>3. state.stages[Work[k]] \in {"processing", "complete"}
      BY <2>1, <3>2
    <3>4. state.stages[Work[k]] = "processing"
      BY <2>3, <2>5, <3>3
    <3> QED
      BY <2>5, <3>4
  <2>6. CASE ~ (2 * k + 1 <= i) /\ ~ (2 * k <= i)
    <3>1. state.stages[Work[k]] = "pending"
      BY <2>3, <2>6
    <3> QED
      BY <2>6, <3>1
  <2> QED
    BY <2>4, <2>5, <2>6
<1>10. ASSUME NEW s \in Stage
       PROVE  state.stages[s] = StagesAt(i)[s]
  <2>1. CASE s = "submitted" \/ s = "result"
    BY <1>7, <1>8, <2>1, StagesOf
  <2>2. ASSUME NEW k \in DOMAIN Work, s = Work[k]
        PROVE  state.stages[s] = StagesAt(i)[s]
    BY <1>9, <2>2, StagesOf
  <2> QED
    BY <2>1, <2>2, StageCases
<1>11. state.stages \in [Stage -> StageState] /\ StagesAt(i) \in [Stage -> {"pending", "processing", "complete"}]
  BY TrackerFields, StagesAreSaid DEF ClientInv, ClientTypeOK
<1>12. state.stages = StagesAt(i)
  BY <1>10, <1>11
<1> QED
  BY <1>1, <1>2, <1>12

\* Replayed and live frames that come in any order, and more than once, on a
\* snapshot that may be old, lead to the stages that the status has.
THEOREM TrackerCatchesUpAlways == ClientSpec => []TrackerCatchesUp
<1>1. ClientInv => TrackerCatchesUp
  BY CatchesUp DEF TrackerCatchesUp
<1> QED
  BY <1>1, ClientInvariant, PTL

=============================================================================
