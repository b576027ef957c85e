--------------------------- MODULE TaskEvents_proofs ---------------------------
(***************************************************************************)
(* Proofs about the tasks' events, for any number of tasks, connections,   *)
(* tickets, emissions and subscriptions.  The row of an open connection    *)
(* stays what it is once it is there: whoever has listed the connection,   *)
(* or subscribes it, posts to it the frames of its row's task.             *)
(***************************************************************************)
EXTENDS TaskEvents, TLAPS

\* A socket that is not connected yet has nothing to do with any task.
NewSockets ==
    \A c \in Connection : socket[c] = "new" =>
        /\ row[c] = NoTask
        /\ received[c] = {}
        /\ \A m \in Emission : c \notin targets[m]
        /\ \A s \in Subscription : s[1] = c => At(s, "idle")

\* What is on its way to an open connection is of the task of its row.
OpenRows ==
    \A c \in Connection : Open(c) =>
        /\ row[c] = NoTask => received[c] = {}
        /\ \A m \in Emission : c \in targets[m] => row[c] = Announces[m][1]
        /\ \A s \in Subscription :
              (s[1] = c /\ subscription[s] \in {"listing", "replaying"}) =>
                  row[c] = TaskOfRequest(s)

\* What is posted is in the log.
PostsAreLogged ==
    /\ \A m \in Emission : emission[m] # "idle" => Announces[m] \in events
    /\ \A s \in Subscription : \A p \in replay[s] : p \in events /\ p[1] = TaskOfRequest(s)

AdmittedTo(c, t) ==
    \E s \in Subscription : s[1] = c /\ TaskOfRequest(s) = t /\ Admitted(s)

\* Whatever names a connection together with a task was admitted by a ticket.
Admissions ==
    /\ \A c \in Connection : row[c] # NoTask => AdmittedTo(c, row[c])
    /\ \A m \in Emission : \A c \in targets[m] : AdmittedTo(c, Announces[m][1])
    /\ \A c \in Connection : \A p \in received[c] : AdmittedTo(c, p[1])

InBy(s) == Admitted(s) /\ subscription[s] # "cut"

\* Whoever is in has used its ticket up, and was the only one.
TicketsAreUsed ==
    /\ \A s \in Subscription : InBy(s) => ticket[s[2]] = "used"
    /\ \A s, r \in Subscription : s[2] = r[2] /\ InBy(s) /\ InBy(r) => s = r

EventsInv ==
    /\ EventsTypeOK
    /\ NewSockets
    /\ OpenRows
    /\ PostsAreLogged
    /\ Admissions
    /\ TicketsAreUsed
    /\ NothingSlipsThrough

-----------------------------------------------------------------------------
(* Types                                                                   *)

LEMMA RequestFacts ==
    /\ NoTask \notin Task
    /\ \A s \in Subscription :
          /\ s[1] \in Connection /\ s[2] \in Ticket
          /\ TaskOfRequest(s) \in Task /\ TaskOfRequest(s) # NoTask
    /\ \A m \in Emission :
          /\ Announces[m] \in Task \X Event
          /\ Announces[m][1] \in Task /\ Announces[m][1] # NoTask
<1>1. \A s \in Subscription : s[1] \in Connection /\ s[2] \in Ticket
  BY TaskEventsAssumption
<1>2. \A s \in Subscription : TaskOfRequest(s) \in Task
  BY <1>1, TaskEventsAssumption DEF TaskOfRequest
<1>3. \A m \in Emission : Announces[m] \in Task \X Event /\ Announces[m][1] \in Task
  BY TaskEventsAssumption
<1> QED
  BY <1>1, <1>2, <1>3, TaskEventsAssumption

\* A step of one emission, and what it may change.
LEMMA EmissionStepType ==
    ASSUME EventsTypeOK, NEW m \in Emission, Record(m) \/ FanOut(m) \/ CutShort(m)
    PROVE  EventsTypeOK'
<1> USE RequestFacts
<1>1. CASE Record(m)
  BY <1>1 DEF Record, Emitting, EventsTypeOK, EmissionStage, subscriptionVars
<1>2. CASE ListConnections(m)
  BY <1>2 DEF ListConnections, Emitting, EventsTypeOK, EmissionStage, subscriptionVars
<1>3. ASSUME NEW c \in Connection, PostTo(m, c) PROVE EventsTypeOK'
  BY <1>3 DEF PostTo, Emitting, Send, Forget, EventsTypeOK, subscriptionVars
<1>4. CASE FanOutDone(m)
  BY <1>4 DEF FanOutDone, Emitting, EventsTypeOK, EmissionStage, subscriptionVars
<1>5. CASE CutShort(m)
  <2>1. received' \in [Connection -> SUBSET (Task \X Event)]
    BY <1>5 DEF CutShort, Send, EventsTypeOK
  <2>2. faults' \in 0 .. MaxFaults
    BY <1>5, TaskEventsAssumption DEF CutShort, Fault, EventsTypeOK
  <2> QED
    BY <1>5, <2>1, <2>2 DEF CutShort, EventsTypeOK, EmissionStage, subscriptionVars
<1> QED
  BY <1>1, <1>2, <1>3, <1>4, <1>5 DEF FanOut

LEMMA SubscriptionStepType ==
    ASSUME EventsTypeOK, NEW s \in Subscription,
           Subscribe(s) \/ SubscriptionStep(s) \/ CutSubscription(s)
    PROVE  EventsTypeOK'
<1> USE RequestFacts
<1>1. CASE Subscribe(s)
  BY <1>1 DEF Subscribe, At, GoTo, EventsTypeOK, SubscriptionStage, emissionVars
<1>2. CASE ConsumeTicket(s)
  BY <1>2 DEF ConsumeTicket, At, GoTo, EventsTypeOK, SubscriptionStage, emissionVars
<1>3. CASE InsertConnection(s)
  BY <1>3 DEF InsertConnection, At, GoTo, EventsTypeOK, SubscriptionStage, emissionVars
<1>4. CASE SelectConnection(s)
  BY <1>4 DEF SelectConnection, At, GoTo, EventsTypeOK, SubscriptionStage, emissionVars
<1>5. CASE ListEvents(s)
  BY <1>5 DEF ListEvents, At, GoTo, EventsTypeOK, SubscriptionStage, emissionVars
<1>6. ASSUME NEW p \in replay[s], ReplayEvent(s, p) PROVE EventsTypeOK'
  <2>1. p \in Task \X Event
    BY DEF EventsTypeOK
  <2>2. CASE Open(s[1])
    BY <1>6, <2>1, <2>2 DEF ReplayEvent, At, Send, EventsTypeOK, emissionVars
  <2>3. CASE ~ Open(s[1])
    BY <1>6, <2>3 DEF ReplayEvent, At, GoTo, Forget, EventsTypeOK, SubscriptionStage, emissionVars
  <2> QED
    BY <2>2, <2>3
<1>7. CASE ReplayDone(s)
  BY <1>7 DEF ReplayDone, At, GoTo, EventsTypeOK, SubscriptionStage, emissionVars
<1>8. CASE CutSubscription(s)
  <2>1. received' \in [Connection -> SUBSET (Task \X Event)]
    BY <1>8 DEF CutSubscription, Send, EventsTypeOK
  <2>2. faults' \in 0 .. MaxFaults
    BY <1>8, TaskEventsAssumption DEF CutSubscription, Fault, EventsTypeOK
  <2> QED
    BY <1>8, <2>1, <2>2 DEF CutSubscription, GoTo, EventsTypeOK, SubscriptionStage, emissionVars
<1> QED
  BY <1>1, <1>2, <1>3, <1>4, <1>5, <1>6, <1>7, <1>8 DEF SubscriptionStep

LEMMA SocketStepType ==
    ASSUME EventsTypeOK,
           \/ \E c \in Connection : Connect(c) \/ Close(c) \/ Disconnect(c)
           \/ \E k \in Ticket : CreateTicket(k) \/ ExpireTicket(k)
    PROVE  EventsTypeOK'
BY DEF Connect, Close, Disconnect, CreateTicket, ExpireTicket, EventsTypeOK, emissionVars,
       subscriptionVars

LEMMA TypeStep ==
    ASSUME EventsTypeOK, [EventsNext]_eventVars
    PROVE  EventsTypeOK'
<1>1. CASE UNCHANGED eventVars
  BY <1>1 DEF eventVars, emissionVars, subscriptionVars, EventsTypeOK
<1> QED
  BY <1>1, EmissionStepType, SubscriptionStepType, SocketStepType DEF EventsNext

-----------------------------------------------------------------------------
(* What a step may send, and to whom                                       *)

\* Whoever is admitted stays so.
LEMMA AdmittedStays ==
    ASSUME EventsTypeOK, [EventsNext]_eventVars
    PROVE  /\ \A s \in Subscription : Admitted(s) => Admitted(s)'
           /\ \A c \in Connection, t \in Task : AdmittedTo(c, t) => AdmittedTo(c, t)'
<1>1. ASSUME NEW s \in Subscription,
             Subscribe(s) \/ SubscriptionStep(s) \/ CutSubscription(s),
             NEW q \in Subscription, Admitted(q)
      PROVE  Admitted(q)'
  BY <1>1 DEF Subscribe, SubscriptionStep, ConsumeTicket, InsertConnection, SelectConnection,
              ListEvents, ReplayEvent, ReplayDone, CutSubscription, At, GoTo, Admitted, EventsTypeOK
<1>2. ASSUME UNCHANGED subscription, NEW q \in Subscription, Admitted(q)
      PROVE  Admitted(q)'
  BY <1>2 DEF Admitted
<1>3. \A s \in Subscription : Admitted(s) => Admitted(s)'
  BY <1>1, <1>2 DEF EventsNext, Connect, Close, Disconnect, CreateTicket, ExpireTicket, Record,
     FanOut, ListConnections, PostTo, FanOutDone, CutShort, subscriptionVars, eventVars
<1> QED
  BY <1>3 DEF AdmittedTo, TaskOfRequest

\* The log grows.
LEMMA EventsStay ==
    ASSUME [EventsNext]_eventVars
    PROVE  events \subseteq events'
BY DEF EventsNext, Connect, Close, Disconnect, CreateTicket, ExpireTicket, Record, FanOut,
       ListConnections, PostTo, FanOutDone, CutShort, Subscribe, SubscriptionStep, ConsumeTicket,
       InsertConnection, SelectConnection, ListEvents, ReplayEvent, ReplayDone, CutSubscription,
       eventVars

\* What was received stays, and a new frame is a logged event of the task of
\* the row of an open connection.
LEMMA NewFrames ==
    ASSUME EventsInv, [EventsNext]_eventVars, NEW c \in Connection
    PROVE  /\ received[c] \subseteq received'[c]
           /\ received'[c] # received[c] =>
                \E p \in events :
                    /\ Open(c)
                    /\ row[c] = p[1]
                    /\ row' = row
                    /\ socket' = socket
                    /\ events' = events
                    /\ received' = [received EXCEPT ![c] = @ \cup {p}]
<1> USE RequestFacts DEF EventsInv
<1> DEFINE Posted(p) == /\ p \in events
                        /\ Open(c)
                        /\ row[c] = p[1]
                        /\ row' = row
                        /\ socket' = socket
                        /\ events' = events
                        /\ received' = [received EXCEPT ![c] = @ \cup {p}]
           Goal == /\ received[c] \subseteq received'[c]
                   /\ received'[c] # received[c] => \E p \in events : Posted(p)
<1>1. CASE UNCHANGED received
  BY <1>1
<1>2. ASSUME NEW d \in Connection, NEW p, Send(d, p), d # c PROVE Goal
  BY <1>2 DEF Send, EventsTypeOK
<1>3. ASSUME NEW p, Send(c, p), Posted(p) PROVE Goal
  BY <1>3 DEF EventsTypeOK
<1>4. ASSUME NEW m \in Emission, NEW d \in Connection, PostTo(m, d) PROVE Goal
  <2>1. CASE Open(d) /\ Send(d, Announces[m]) /\ UNCHANGED row /\ d = c
    <3>1. Announces[m] \in events
      BY <1>4 DEF PostTo, Emitting, PostsAreLogged
    <3>2. row[c] = Announces[m][1]
      BY <1>4, <2>1 DEF PostTo, OpenRows
    <3> QED
      BY <1>3, <1>4, <2>1, <3>1, <3>2 DEF PostTo, Send
  <2> QED
    BY <1>1, <1>2, <1>4, <2>1 DEF PostTo
<1>5. ASSUME NEW m \in Emission, CutShort(m) PROVE Goal
  <2>1. ASSUME NEW d \in targets[m], Open(d), Send(d, Announces[m]), d = c PROVE Goal
    <3>1. emission[m] # "idle"
      BY <1>5 DEF CutShort
    <3> QED
      BY <1>3, <1>5, <2>1, <3>1 DEF CutShort, OpenRows, PostsAreLogged, Send
  <2>2. \A d \in targets[m] : d \in Connection
    BY DEF EventsTypeOK
  <2> QED
    BY <1>1, <1>2, <1>5, <2>1, <2>2 DEF CutShort
<1>6. ASSUME NEW s \in Subscription, NEW p \in replay[s], At(s, "replaying"), Open(s[1]),
             Send(s[1], p), UNCHANGED <<row, socket, events>>
      PROVE  Goal
  <2>1. CASE s[1] = c
    <3>1. p \in events /\ p[1] = TaskOfRequest(s)
      BY <1>6 DEF PostsAreLogged
    <3>2. row[c] = TaskOfRequest(s)
      BY <1>6, <2>1 DEF OpenRows, At
    <3> QED
      BY <1>3, <1>6, <2>1, <3>1, <3>2 DEF Send
  <2>2. CASE s[1] # c
    BY <1>2, <1>6, <2>2
  <2> QED
    BY <2>1, <2>2
<1>7. ASSUME NEW s \in Subscription, NEW p \in replay[s], ReplayEvent(s, p) PROVE Goal
  BY <1>1, <1>6, <1>7 DEF ReplayEvent
<1>8. ASSUME NEW s \in Subscription, CutSubscription(s) PROVE Goal
  <2>1. \A p \in replay[s] : At(s, "replaying")
    BY DEF EventsTypeOK, At
  <2> QED
    BY <1>1, <1>6, <1>8, <2>1 DEF CutSubscription
<1> QED
  BY <1>1, <1>4, <1>5, <1>7, <1>8
     DEF EventsNext, Connect, Close, Disconnect, CreateTicket, ExpireTicket, Record, FanOut,
         ListConnections, FanOutDone, Subscribe, SubscriptionStep, ConsumeTicket,
         InsertConnection, SelectConnection, ListEvents, ReplayDone, eventVars

\* A row is removed when the connection is not open, and set by an admitted
\* request when there is none.
LEMMA RowChanges ==
    ASSUME EventsInv, [EventsNext]_eventVars, NEW c \in Connection, row'[c] # row[c]
    PROVE  \/ ~ Open(c) /\ ~ Open(c)' /\ row'[c] = NoTask
           \/ \E s \in Subscription :
                 /\ InsertConnection(s)
                 /\ s[1] = c
                 /\ row[c] = NoTask
                 /\ row'[c] = TaskOfRequest(s)
<1> USE RequestFacts DEF EventsInv
<1> DEFINE Removed == ~ Open(c) /\ ~ Open(c)' /\ row'[c] = NoTask
           Inserted == \E s \in Subscription :
                          /\ InsertConnection(s)
                          /\ s[1] = c
                          /\ row[c] = NoTask
                          /\ row'[c] = TaskOfRequest(s)
<1>1. ASSUME NEW d \in Connection, ~ Open(d), Forget(d), UNCHANGED socket PROVE Removed
  BY <1>1 DEF Forget, Open, EventsTypeOK
<1>2. ASSUME NEW d \in Connection, Disconnect(d) PROVE Removed
  BY <1>2 DEF Disconnect, Open, EventsTypeOK
<1>3. ASSUME NEW m \in Emission, NEW d \in Connection, PostTo(m, d) PROVE Removed
  BY <1>1, <1>3 DEF PostTo
<1>4. ASSUME NEW s \in Subscription, NEW p \in replay[s], ReplayEvent(s, p) PROVE Removed
  BY <1>1, <1>4 DEF ReplayEvent
<1>5. ASSUME NEW s \in Subscription, InsertConnection(s) PROVE Inserted
  BY <1>5 DEF InsertConnection, EventsTypeOK
<1> QED
  BY <1>2, <1>3, <1>4, <1>5
     DEF EventsNext, Connect, Close, CreateTicket, ExpireTicket, Record, FanOut,
         ListConnections, FanOutDone, CutShort, Subscribe, SubscriptionStep, ConsumeTicket,
         SelectConnection, ListEvents, ReplayDone, CutSubscription, eventVars

LEMMA SocketChanges ==
    ASSUME EventsInv, [EventsNext]_eventVars, NEW c \in Connection, socket'[c] # socket[c]
    PROVE  Connect(c) \/ Close(c) \/ Disconnect(c)
BY DEF EventsInv, EventsTypeOK, EventsNext, Connect, Close, Disconnect, CreateTicket, ExpireTicket,
       Record, FanOut, ListConnections, PostTo, FanOutDone, CutShort, Subscribe, SubscriptionStep,
       ConsumeTicket, InsertConnection, SelectConnection, ListEvents, ReplayEvent, ReplayDone,
       CutSubscription, eventVars

\* Connections are only ever added to an emission's targets by its listing.
LEMMA TargetChanges ==
    ASSUME EventsInv, [EventsNext]_eventVars, NEW m \in Emission, NEW c \in targets'[m],
           c \notin targets[m]
    PROVE  ListConnections(m) /\ row[c] = Announces[m][1]
<1> USE DEF EventsInv, EventsTypeOK
<1>1. ASSUME NEW n \in Emission, ListConnections(n)
      PROVE  ListConnections(m) /\ row[c] = Announces[m][1]
  <2>1. n = m
    BY <1>1 DEF ListConnections
  <2>2. targets'[m] = {d \in Connection : row[d] = Announces[m][1]}
    BY <1>1, <2>1 DEF ListConnections
  <2> QED
    BY <1>1, <2>1, <2>2
<1>2. ASSUME NEW n \in Emission, NEW d \in Connection, PostTo(n, d) PROVE FALSE
  BY <1>2 DEF PostTo
<1>3. ASSUME NEW n \in Emission, CutShort(n) PROVE FALSE
  BY <1>3 DEF CutShort
<1>4. CASE UNCHANGED targets
  BY <1>4
<1> QED
  BY <1>1, <1>2, <1>3, <1>4
     DEF EventsNext, Connect, Close, Disconnect, CreateTicket, ExpireTicket,
         Record, FanOut, FanOutDone, Subscribe, SubscriptionStep,
         ConsumeTicket, InsertConnection, SelectConnection, ListEvents, ReplayEvent, ReplayDone,
         CutSubscription, eventVars, emissionVars

\* A request gets to its listing by a row of its task.
LEMMA StageChanges ==
    ASSUME EventsInv, [EventsNext]_eventVars, NEW s \in Subscription,
           subscription'[s] # subscription[s]
    PROVE  /\ \A q \in Subscription \ {s} : subscription'[q] = subscription[q]
           /\ UNCHANGED <<socket, emission, targets>>
           /\ \/ Subscribe(s) \/ ConsumeTicket(s) \/ InsertConnection(s) \/ SelectConnection(s)
              \/ ListEvents(s) \/ ReplayDone(s) \/ CutSubscription(s)
              \/ \E p \in replay[s] : ReplayEvent(s, p)
<1> USE DEF EventsInv, EventsTypeOK
<1>1. ASSUME NEW q \in Subscription,
             Subscribe(q) \/ SubscriptionStep(q) \/ CutSubscription(q)
      PROVE  q = s /\ (\A r \in Subscription \ {q} : subscription'[r] = subscription[r])
             /\ UNCHANGED <<socket, emission, targets>>
  BY <1>1 DEF Subscribe, SubscriptionStep, ConsumeTicket, InsertConnection, SelectConnection,
              ListEvents, ReplayEvent, ReplayDone, CutSubscription, GoTo, emissionVars
<1>2. CASE UNCHANGED subscription
  BY <1>2
<1>3. ~ UNCHANGED subscription
  OBVIOUS
<1>4. \E q \in Subscription : Subscribe(q) \/ SubscriptionStep(q) \/ CutSubscription(q)
  BY <1>3 DEF EventsNext, Connect, Close, Disconnect, CreateTicket, ExpireTicket, Record,
     FanOut, ListConnections, PostTo, FanOutDone, CutShort, subscriptionVars, eventVars
<1> QED
  BY <1>1, <1>4 DEF SubscriptionStep

\* An emission goes on by a step of its own.
LEMMA EmissionChanges ==
    ASSUME EventsInv, [EventsNext]_eventVars, NEW m \in Emission,
           emission'[m] # emission[m]
    PROVE  Record(m) \/ ListConnections(m) \/ FanOutDone(m) \/ CutShort(m)
<1> USE DEF EventsInv, EventsTypeOK
<1>1. ASSUME NEW n \in Emission, Record(n) \/ FanOut(n) \/ CutShort(n), n # m
      PROVE  FALSE
  BY <1>1 DEF Record, FanOut, ListConnections, PostTo, FanOutDone, CutShort
<1>2. ASSUME NEW c \in Connection, PostTo(m, c) PROVE FALSE
  BY <1>2 DEF PostTo
<1>3. \E n \in Emission : Record(n) \/ FanOut(n) \/ CutShort(n)
  BY DEF EventsNext, Connect, Close, Disconnect, CreateTicket, ExpireTicket, Subscribe,
     SubscriptionStep, ConsumeTicket, InsertConnection, SelectConnection, ListEvents,
     ReplayEvent, ReplayDone, CutSubscription, emissionVars, eventVars
<1> QED
  BY <1>1, <1>2, <1>3 DEF FanOut

\* A target is done with by a post to it.
LEMMA TargetsLeave ==
    ASSUME EventsInv, [EventsNext]_eventVars, NEW m \in Emission, NEW c \in targets[m],
           c \notin targets'[m]
    PROVE  PostTo(m, c) \/ CutShort(m)
<1> USE DEF EventsInv, EventsTypeOK
<1>1. ASSUME NEW n \in Emission, ListConnections(n) PROVE FALSE
  BY <1>1 DEF ListConnections, Emitting
<1>2. ASSUME NEW n \in Emission, NEW d \in Connection, PostTo(n, d) PROVE n = m /\ d = c
  BY <1>2 DEF PostTo
<1>3. ASSUME NEW n \in Emission, CutShort(n) PROVE n = m
  BY <1>3 DEF CutShort
<1>4. ~ UNCHANGED targets
  OBVIOUS
<1> QED
  BY <1>1, <1>2, <1>3, <1>4
     DEF EventsNext, Connect, Close, Disconnect, CreateTicket, ExpireTicket,
         Record, FanOut, FanOutDone, Subscribe, SubscriptionStep,
         ConsumeTicket, InsertConnection, SelectConnection, ListEvents, ReplayEvent, ReplayDone,
         CutSubscription, eventVars, emissionVars

\* A replay is listed from the log, and done with by a frame.
LEMMA ReplayChanges ==
    ASSUME EventsInv, [EventsNext]_eventVars, NEW s \in Subscription
    PROVE  /\ \A p \in replay'[s] \ replay[s] :
                  p \in events' /\ p[1] = TaskOfRequest(s)
           /\ \A p \in replay[s] \ replay'[s] :
                  ReplayEvent(s, p) \/ ~ Open(s[1]) \/ CutSubscription(s)
<1> USE DEF EventsInv, EventsTypeOK
<1> DEFINE Goal == /\ \A p \in replay'[s] \ replay[s] :
                         p \in events' /\ p[1] = TaskOfRequest(s)
                   /\ \A p \in replay[s] \ replay'[s] :
                         ReplayEvent(s, p) \/ ~ Open(s[1]) \/ CutSubscription(s)
<1>1. CASE UNCHANGED replay
  BY <1>1
<1>2. ASSUME NEW q \in Subscription, ListEvents(q) PROVE Goal
  <2>1. CASE q = s
    <3>1. replay'[s] = {p \in events : p[1] = TaskOfRequest(s)} /\ replay[s] = {}
          /\ events' = events
      BY <1>2, <2>1 DEF ListEvents, At
    <3> QED
      BY <3>1
  <2>2. CASE q # s
    BY <1>2, <2>2 DEF ListEvents
  <2> QED
    BY <2>1, <2>2
<1>3. ASSUME NEW q \in Subscription, NEW p \in replay[q], ReplayEvent(q, p) PROVE Goal
  <2>1. CASE q = s
    BY <1>3, <2>1 DEF ReplayEvent
  <2>2. CASE q # s
    BY <1>3, <2>2 DEF ReplayEvent
  <2> QED
    BY <2>1, <2>2
<1>4. ASSUME NEW q \in Subscription, CutSubscription(q) PROVE Goal
  BY <1>4 DEF CutSubscription
<1> QED
  BY <1>1, <1>2, <1>3, <1>4
     DEF EventsNext, Connect, Close, Disconnect, CreateTicket, ExpireTicket,
         Record, FanOut, ListConnections, PostTo, FanOutDone, CutShort, Subscribe,
         SubscriptionStep, ConsumeTicket, InsertConnection, SelectConnection, ReplayDone,
         eventVars, subscriptionVars

-----------------------------------------------------------------------------
(* The invariant                                                           *)

LEMMA NewSocketsStep ==
    ASSUME EventsInv, EventsTypeOK', [EventsNext]_eventVars
    PROVE  NewSockets'
<1> USE DEF EventsInv
<1> SUFFICES ASSUME NEW c \in Connection, socket'[c] = "new"
             PROVE  /\ row'[c] = NoTask
                    /\ received'[c] = {}
                    /\ \A m \in Emission : c \notin targets'[m]
                    /\ \A s \in Subscription : s[1] = c => At(s, "idle")'
  BY DEF NewSockets
<1>1. socket[c] = "new" /\ ~ Open(c)
  BY SocketChanges DEF Connect, Close, Disconnect, EventsTypeOK, Open
<1>2. row'[c] = NoTask
  BY <1>1, RowChanges DEF NewSockets, InsertConnection, At
<1>3. received'[c] = {}
  BY <1>1, NewFrames DEF NewSockets
<1>4. \A m \in Emission : c \notin targets'[m]
  BY <1>1, TargetChanges, RequestFacts DEF NewSockets
<1>5. ASSUME NEW s \in Subscription, s[1] = c PROVE At(s, "idle")'
  BY <1>1, <1>5, StageChanges
     DEF NewSockets, Subscribe, ConsumeTicket, InsertConnection, SelectConnection, ListEvents,
         ReplayDone, CutSubscription, ReplayEvent, At
<1> QED
  BY <1>2, <1>3, <1>4, <1>5

LEMMA OpenRowsStep ==
    ASSUME EventsInv, EventsTypeOK', [EventsNext]_eventVars
    PROVE  OpenRows'
<1> USE RequestFacts DEF EventsInv
<1> SUFFICES ASSUME NEW c \in Connection, Open(c)'
             PROVE  /\ row'[c] = NoTask => received'[c] = {}
                    /\ \A m \in Emission : c \in targets'[m] => row'[c] = Announces[m][1]
                    /\ \A s \in Subscription :
                          (s[1] = c /\ subscription'[s] \in {"listing", "replaying"}) =>
                              row'[c] = TaskOfRequest(s)
  BY DEF OpenRows, TaskOfRequest
<1>1. CASE ~ Open(c)
  <2>1. Connect(c)
    BY <1>1, SocketChanges DEF Close, Disconnect, Open, EventsTypeOK
  <2> QED
    BY <2>1 DEF Connect, NewSockets, At, emissionVars, subscriptionVars
<1>2. CASE Open(c)
  <2>1. row[c] # NoTask => row'[c] = row[c]
    BY <1>2, RowChanges
  <2>2. row'[c] = NoTask => received'[c] = {}
    <3> SUFFICES ASSUME row'[c] = NoTask PROVE received'[c] = {}
      OBVIOUS
    <3>1. row[c] = NoTask /\ received[c] = {}
      BY <1>2, <2>1 DEF OpenRows
    <3>2. \A p \in events : p[1] # NoTask
      BY DEF EventsTypeOK
    <3> QED
      BY <3>1, <3>2, NewFrames
  <2>3. ASSUME NEW m \in Emission, c \in targets'[m] PROVE row'[c] = Announces[m][1]
    BY <1>2, <2>1, <2>3, TargetChanges DEF OpenRows
  <2>4. ASSUME NEW s \in Subscription, s[1] = c, subscription'[s] \in {"listing", "replaying"}
        PROVE  row'[c] = TaskOfRequest(s)
    <3>1. CASE subscription[s] \in {"listing", "replaying"}
      BY <1>2, <2>1, <2>4, <3>1 DEF OpenRows
    <3>2. CASE subscription[s] \notin {"listing", "replaying"}
      <4>1. InsertConnection(s) \/ SelectConnection(s)
        BY <2>4, <3>2, StageChanges
           DEF Subscribe, ConsumeTicket, ListEvents, ReplayDone, CutSubscription, ReplayEvent, At,
               GoTo, EventsTypeOK
      <4>2. CASE InsertConnection(s)
        BY <2>4, <4>2 DEF InsertConnection, GoTo, EventsTypeOK
      <4>3. CASE SelectConnection(s)
        BY <2>4, <4>3 DEF SelectConnection, GoTo, EventsTypeOK
      <4> QED
        BY <4>1, <4>2, <4>3
    <3> QED
      BY <3>1, <3>2
  <2> QED
    BY <2>2, <2>3, <2>4
<1> QED
  BY <1>1, <1>2

LEMMA PostsAreLoggedStep ==
    ASSUME EventsInv, EventsTypeOK', [EventsNext]_eventVars
    PROVE  PostsAreLogged'
<1> USE DEF EventsInv
<1>1. ASSUME NEW m \in Emission, emission'[m] # "idle" PROVE Announces[m] \in events'
  <2>1. CASE emission[m] # "idle"
    BY <2>1, EventsStay DEF PostsAreLogged
  <2>2. CASE emission[m] = "idle"
    <3>1. Record(m)
      BY <1>1, <2>2, EmissionChanges DEF ListConnections, FanOutDone, CutShort, Emitting
    <3> QED
      BY <3>1 DEF Record
  <2> QED
    BY <2>1, <2>2
<1>2. ASSUME NEW s \in Subscription, NEW p \in replay'[s]
      PROVE  p \in events' /\ p[1] = TaskOfRequest(s)
  BY ReplayChanges, EventsStay DEF PostsAreLogged
<1> QED
  BY <1>1, <1>2 DEF PostsAreLogged, TaskOfRequest

LEMMA AdmissionsStep ==
    ASSUME EventsInv, EventsTypeOK', [EventsNext]_eventVars
    PROVE  Admissions'
<1> USE RequestFacts DEF EventsInv
<1>1. \A c \in Connection, t \in Task : AdmittedTo(c, t) => AdmittedTo(c, t)'
  BY AdmittedStays
<1>2. ASSUME NEW c \in Connection, row'[c] # NoTask PROVE AdmittedTo(c, row[c])'
  <2>1. CASE row'[c] = row[c]
    BY <1>1, <1>2, <2>1 DEF Admissions, EventsTypeOK, AdmittedTo
  <2>2. CASE row'[c] # row[c]
    <3>1. PICK s \in Subscription : InsertConnection(s) /\ s[1] = c
                                    /\ row'[c] = TaskOfRequest(s)
      BY <1>2, <2>2, RowChanges
    <3>2. Admitted(s)'
      BY <3>1, AdmittedStays DEF InsertConnection, At, Admitted
    <3> QED
      BY <3>1, <3>2 DEF AdmittedTo, TaskOfRequest
  <2> QED
    BY <2>1, <2>2
<1>3. ASSUME NEW m \in Emission, NEW c \in targets'[m] PROVE AdmittedTo(c, Announces[m][1])'
  <2>1. c \in Connection
    BY DEF EventsTypeOK
  <2>2. AdmittedTo(c, Announces[m][1])
    BY <2>1, TargetChanges DEF Admissions
  <2> QED
    BY <1>1, <2>1, <2>2
<1>4. ASSUME NEW c \in Connection, NEW p \in received'[c] PROVE AdmittedTo(c, p[1])'
  <2>1. p[1] \in Task
    BY DEF EventsTypeOK
  <2>2. CASE p \in received[c]
    BY <1>1, <2>1, <2>2 DEF Admissions
  <2>3. CASE p \notin received[c]
    <3>1. row[c] = p[1]
      BY <2>3, NewFrames DEF EventsTypeOK
    <3> QED
      BY <1>1, <2>1, <3>1 DEF Admissions
  <2> QED
    BY <2>2, <2>3
<1> QED
  BY <1>2, <1>3, <1>4 DEF Admissions

LEMMA TicketsAreUsedStep ==
    ASSUME EventsInv, EventsTypeOK', [EventsNext]_eventVars
    PROVE  TicketsAreUsed'
<1> USE RequestFacts DEF EventsInv
<1>1. \A k \in Ticket : ticket[k] = "used" => ticket'[k] = "used"
  BY DEF EventsTypeOK, EventsNext, Connect, Close, Disconnect, CreateTicket, ExpireTicket,
     Record, FanOut, ListConnections, PostTo, FanOutDone, CutShort, Subscribe, SubscriptionStep,
     ConsumeTicket, InsertConnection, SelectConnection, ListEvents, ReplayEvent, ReplayDone,
     CutSubscription, eventVars
<1>2. ASSUME NEW s \in Subscription, InBy(s)', ~ InBy(s)
      PROVE  /\ ticket[s[2]] = "valid"
             /\ ticket'[s[2]] = "used"
             /\ \A q \in Subscription \ {s} : subscription'[q] = subscription[q]
  <2>1. subscription'[s] # subscription[s]
    BY <1>2 DEF InBy, Admitted
  <2>2. ConsumeTicket(s)
    BY <1>2, <2>1, StageChanges
       DEF Subscribe, InsertConnection, SelectConnection, ListEvents, ReplayDone,
           CutSubscription, ReplayEvent, At, GoTo, EventsTypeOK, InBy, Admitted
  <2>3. ticket[s[2]] = "valid"
    BY <1>2, <2>2 DEF ConsumeTicket, GoTo, EventsTypeOK, InBy, Admitted
  <2> QED
    BY <2>1, <2>2, <2>3, StageChanges DEF ConsumeTicket, EventsTypeOK
<1>3. ASSUME NEW s \in Subscription, InBy(s)' PROVE ticket'[s[2]] = "used"
  BY <1>1, <1>2, <1>3 DEF TicketsAreUsed
<1>4. ASSUME NEW s \in Subscription, NEW r \in Subscription, s[2] = r[2], InBy(s)', InBy(r)',
             s # r
      PROVE  FALSE
  BY <1>2, <1>4 DEF TicketsAreUsed, InBy, Admitted
<1> QED
  BY <1>3, <1>4 DEF TicketsAreUsed

LEMMA NothingSlipsThroughStep ==
    ASSUME EventsInv, EventsTypeOK', [EventsNext]_eventVars
    PROVE  NothingSlipsThrough'
<1> USE RequestFacts DEF EventsInv
<1> SUFFICES ASSUME NEW c \in Connection, NEW p \in events', Open(c)', row'[c] = p[1]
             PROVE  p \in received'[c] \/ Announcing(p, c)' \/ Replaying(p, c)'
  BY DEF NothingSlipsThrough
<1>0. p[1] \in Task
  BY DEF EventsTypeOK
<1>1. CASE p \notin events
  <2>1. PICK m \in Emission : Record(m) /\ Announces[m] = p
    BY <1>1 DEF EventsNext, Connect, Close, Disconnect, CreateTicket, ExpireTicket,
       Record, FanOut, ListConnections, PostTo, FanOutDone, CutShort, Subscribe,
       SubscriptionStep, ConsumeTicket, InsertConnection, SelectConnection, ListEvents,
       ReplayEvent, ReplayDone, CutSubscription, eventVars
  <2>2. emission'[m] = "recorded"
    BY <2>1 DEF Record, EventsTypeOK
  <2> QED
    BY <2>1, <2>2 DEF Announcing
<1>2. CASE p \in events /\ ~ Open(c)
  <2>1. Connect(c)
    BY <1>2, SocketChanges DEF Close, Disconnect, Open, EventsTypeOK
  <2> QED
    BY <1>0, <2>1 DEF Connect, NewSockets
<1>3. CASE p \in events /\ Open(c) /\ row'[c] # row[c]
  <2>1. PICK s \in Subscription : InsertConnection(s) /\ s[1] = c /\ row[c] = NoTask
                                  /\ row'[c] = TaskOfRequest(s)
    BY <1>0, <1>3, RowChanges
  <2>2. subscription'[s] = "listing"
    BY <2>1 DEF InsertConnection, GoTo, EventsTypeOK
  <2> QED
    BY <2>1, <2>2 DEF Replaying, TaskOfRequest
<1>4. CASE p \in events /\ Open(c) /\ row'[c] = row[c]
  <2>1. p \in received[c] \/ Announcing(p, c) \/ Replaying(p, c)
    BY <1>4 DEF NothingSlipsThrough
  <2>2. CASE p \in received[c]
    BY <2>2, NewFrames
  <2>3. ASSUME NEW m \in Emission, Announces[m] = p, emission[m] \in {"recorded", "cut"}
        PROVE  Announcing(p, c)'
    <3>1. CASE emission'[m] = emission[m]
      BY <2>3, <3>1 DEF Announcing
    <3>2. CASE ListConnections(m)
      BY <1>4, <2>3, <3>2 DEF ListConnections, EventsTypeOK, Announcing
    <3>3. CASE CutShort(m)
      BY <2>3, <3>3 DEF CutShort, EventsTypeOK, Announcing
    <3> QED
      BY <2>3, <3>1, <3>2, <3>3, EmissionChanges DEF Record, FanOutDone, Emitting
  <2>4. ASSUME NEW m \in Emission, Announces[m] = p, emission[m] = "posting", c \in targets[m]
        PROVE  p \in received'[c] \/ Announcing(p, c)'
    <3>1. CASE CutShort(m)
      BY <2>4, <3>1 DEF CutShort, EventsTypeOK, Announcing
    <3>2. CASE PostTo(m, c)
      BY <1>4, <2>4, <3>2 DEF PostTo, Send, EventsTypeOK
    <3>3. CASE c \in targets'[m] /\ emission'[m] = emission[m]
      BY <2>4, <3>3 DEF Announcing
    <3>4. CASE emission'[m] # emission[m] /\ ~ CutShort(m)
      BY <2>4, <3>4, EmissionChanges DEF Record, ListConnections, FanOutDone, Emitting
    <3> QED
      BY <3>1, <3>2, <3>3, <3>4, <2>4, TargetsLeave
  <2>5. ASSUME NEW s \in Subscription, s[1] = c, TaskOfRequest(s) = p[1],
               \/ subscription[s] \in {"listing", "cut"}
               \/ subscription[s] = "replaying" /\ p \in replay[s]
        PROVE  p \in received'[c] \/ Replaying(p, c)'
    <3>1. CASE CutSubscription(s)
      BY <2>5, <3>1 DEF CutSubscription, GoTo, EventsTypeOK, Replaying, TaskOfRequest
    <3>2. CASE ListEvents(s)
      <4>1. p \in replay'[s] /\ subscription'[s] = "replaying"
        BY <1>4, <2>5, <3>2 DEF ListEvents, GoTo, EventsTypeOK
      <4> QED
        BY <2>5, <4>1 DEF Replaying, TaskOfRequest
    <3>3. CASE ReplayEvent(s, p)
      BY <1>4, <2>5, <3>3 DEF ReplayEvent, Send, EventsTypeOK
    <3>4. CASE subscription'[s] = subscription[s] /\ ~ ReplayEvent(s, p) /\ ~ CutSubscription(s)
      <4>1. p \in replay[s] => p \in replay'[s]
        BY <1>4, <2>5, <3>4, ReplayChanges
      <4> QED
        BY <2>5, <3>4, <4>1 DEF Replaying, TaskOfRequest
    <3>5. CASE subscription'[s] # subscription[s] /\ ~ ListEvents(s) /\ ~ CutSubscription(s)
      BY <1>4, <2>5, <3>5, StageChanges
         DEF Subscribe, ConsumeTicket, InsertConnection, SelectConnection, ReplayDone,
             ReplayEvent, At
    <3> QED
      BY <3>1, <3>2, <3>3, <3>4, <3>5
  <2> QED
    BY <2>1, <2>2, <2>3, <2>4, <2>5 DEF Announcing, Replaying
<1> QED
  BY <1>1, <1>2, <1>3, <1>4

LEMMA EventsInvariant == EventsSpec => []EventsInv
<1>1. EventsInit => EventsInv
  <2> SUFFICES ASSUME EventsInit PROVE EventsInv
    OBVIOUS
  <2>1. EventsTypeOK
    BY TaskEventsAssumption DEF EventsInit, EventsTypeOK, EmissionStage, SubscriptionStage
  <2>2. NewSockets /\ OpenRows /\ PostsAreLogged
    BY DEF EventsInit, NewSockets, OpenRows, PostsAreLogged, At, Open
  <2>3. Admissions /\ TicketsAreUsed /\ NothingSlipsThrough
    BY DEF EventsInit, Admissions, TicketsAreUsed, NothingSlipsThrough, InBy, Admitted, Open
  <2> QED
    BY <2>1, <2>2, <2>3 DEF EventsInv
<1>2. EventsInv /\ [EventsNext]_eventVars => EventsInv'
  <2> SUFFICES ASSUME EventsInv, [EventsNext]_eventVars PROVE EventsInv'
    OBVIOUS
  <2>1. EventsTypeOK'
    BY TypeStep DEF EventsInv
  <2> QED
    BY <2>1, NewSocketsStep, OpenRowsStep, PostsAreLoggedStep, AdmissionsStep,
       TicketsAreUsedStep, NothingSlipsThroughStep DEF EventsInv
<1> QED
  BY <1>1, <1>2, PTL DEF EventsSpec

-----------------------------------------------------------------------------
(* Theorems                                                                *)

\* Types, and that a call that is over has posted what it was to post.
THEOREM EventsTypeCorrect == EventsSpec => []EventsTypeOK
<1>1. EventsInv => EventsTypeOK
  BY DEF EventsInv
<1> QED
  BY <1>1, EventsInvariant, PTL

\* Between the log and the subscriptions no event slips past an open subscriber.
THEOREM NothingSlipsThroughAlways == EventsSpec => []NothingSlipsThrough
<1>1. EventsInv => NothingSlipsThrough
  BY DEF EventsInv
<1> QED
  BY <1>1, EventsInvariant, PTL

\* A ticket lets one subscription in, and frames go to whom a ticket admitted.
THEOREM TicketsAdmitOnceAlways == EventsSpec => []TicketsAdmitOnce
<1>1. EventsInv => TicketsAdmitOnce
  <2> SUFFICES ASSUME EventsInv PROVE TicketsAdmitOnce
    OBVIOUS
  <2>1. \A s, r \in Subscription :
           s[2] = r[2] /\ subscription[s] # "cut" /\ subscription[r] # "cut"
              /\ Admitted(s) /\ Admitted(r) => s = r
    BY DEF EventsInv, TicketsAreUsed, InBy
  <2>2. \A c \in Connection : \A p \in received[c] :
           \E s \in Subscription : s[1] = c /\ TaskOfRequest(s) = p[1] /\ Admitted(s)
    BY DEF EventsInv, Admissions, AdmittedTo
  <2> QED
    BY <2>1, <2>2 DEF TicketsAdmitOnce
<1> QED
  BY <1>1, EventsInvariant, PTL

-----------------------------------------------------------------------------
(* A socket shows one stream                                               *)

Attached == [c \in Connection |-> IF Open(c) THEN row[c] ELSE NoTask]

LEMMA ShownStreamInit == EventsInit => Stream!StreamInit
BY TaskEventsAssumption DEF EventsInit, Stream!StreamInit, Open

\* A frame that is new to a socket is a delivery of the stream it shows.
LEMMA NewFrameDelivers ==
    ASSUME EventsInv, EventsTypeOK', [EventsNext]_eventVars, NEW c \in Connection,
           received'[c] # received[c]
    PROVE  Stream!StreamNext
<1> USE DEF EventsInv
<1>1. PICK p \in events :
         /\ Open(c) /\ row[c] = p[1] /\ row' = row /\ socket' = socket /\ events' = events
         /\ received' = [received EXCEPT ![c] = @ \cup {p}]
  BY NewFrames
<1>2. p = <<row[c], p[2]>> /\ p[2] \in Event /\ row[c] # NoTask
  BY <1>1, RequestFacts DEF EventsTypeOK
<1>3. Attached[c] = row[c] /\ Attached' = Attached
  BY <1>1 DEF Attached, Open
<1>4. Stream!Deliver(c, p[2])
  BY <1>1, <1>2, <1>3 DEF Stream!Deliver, Attached
<1> QED
  BY <1>2, <1>4 DEF Stream!StreamNext

\* A connection that is attached otherwise was closed, or is new to its task.
LEMMA NewAttachment ==
    ASSUME EventsInv, EventsTypeOK', [EventsNext]_eventVars, NEW c \in Connection,
           Attached'[c] # Attached[c], UNCHANGED received
    PROVE  Stream!StreamNext
<1> USE RequestFacts DEF EventsInv
<1>1. ASSUME UNCHANGED <<row, events, received>>, Close(c) PROVE Stream!StreamNext
  <2>1. Attached' = [Attached EXCEPT ![c] = NoTask]
    BY <1>1 DEF Close, Attached, Open, EventsTypeOK
  <2> QED
    BY <1>1, <2>1 DEF Stream!StreamNext, Stream!Detach, Attached
<1>2. ASSUME NEW s \in Subscription, InsertConnection(s), s[1] = c, row[c] = NoTask,
             row'[c] = TaskOfRequest(s)
      PROVE  Stream!StreamNext
  <2>1. Open(c)
    BY <1>2 DEF Attached, InsertConnection, Open
  <2>2. received[c] = {} /\ Attached[c] = NoTask
    BY <1>2, <2>1 DEF OpenRows, Attached
  <2>3. row' = [row EXCEPT ![c] = TaskOfRequest(s)]
    BY <1>2 DEF InsertConnection
  <2>4. Attached' = [Attached EXCEPT ![c] = TaskOfRequest(s)]
    BY <1>2, <2>1, <2>3 DEF InsertConnection, Attached, Open, EventsTypeOK
  <2>5. Stream!Attach(c, TaskOfRequest(s))
    BY <1>2, <2>2, <2>4 DEF Stream!Attach, InsertConnection, Attached
  <2> QED
    BY <2>5 DEF Stream!StreamNext
<1>3. CASE row'[c] # row[c]
  <2>1. ~ (~ Open(c) /\ ~ Open(c)' /\ row'[c] = NoTask)
    BY DEF Attached
  <2> QED
    BY <1>2, <1>3, <2>1, RowChanges
<1>4. CASE row'[c] = row[c]
  <2>1. socket'[c] # socket[c]
    BY <1>4 DEF Attached, Open
  <2>2. CASE Close(c)
    BY <1>1, <2>2 DEF Close
  <2>3. CASE Connect(c)
    BY <2>3 DEF Connect, NewSockets, Attached, Open
  <2>4. CASE Disconnect(c)
    BY <2>4 DEF Disconnect, Attached, Open, EventsTypeOK
  <2> QED
    BY <2>1, <2>2, <2>3, <2>4, SocketChanges
<1> QED
  BY <1>3, <1>4

LEMMA ShownStreamStep ==
    ASSUME EventsInv, EventsTypeOK', [EventsNext]_eventVars
    PROVE  [Stream!StreamNext]_<<events, Attached, received>>
<1> USE DEF EventsInv
<1>1. CASE received' # received
  <2>1. PICK c \in Connection : received'[c] # received[c]
    BY <1>1 DEF EventsTypeOK
  <2> QED
    BY <2>1, NewFrameDelivers
<1>2. CASE received' = received /\ Attached' # Attached
  <2>1. PICK c \in Connection : Attached'[c] # Attached[c]
    BY <1>2 DEF Attached
  <2> QED
    BY <1>2, <2>1, NewAttachment
<1>3. CASE received' = received /\ Attached' = Attached /\ events' # events
  <2>1. PICK m \in Emission : Record(m)
    BY <1>3 DEF EventsNext, Connect, Close, Disconnect, CreateTicket, ExpireTicket,
       Record, FanOut, ListConnections, PostTo, FanOutDone, CutShort, Subscribe,
       SubscriptionStep, ConsumeTicket, InsertConnection, SelectConnection, ListEvents,
       ReplayEvent, ReplayDone, CutSubscription, eventVars
  <2>2. PICK t \in Task, e \in Event : Announces[m] = <<t, e>>
    BY RequestFacts
  <2>3. Stream!Publish(t, e)
    BY <1>3, <2>1, <2>2 DEF Record, Stream!Publish, Attached
  <2> QED
    BY <2>3 DEF Stream!StreamNext
<1> QED
  BY <1>1, <1>2, <1>3

\* A socket shows the events of one task, in whatever order requests, closes,
\* disconnects and emissions come.
THEOREM TaskEventsRefine == EventsSpec => ShowsOneStream
<1>1. EventsInv /\ EventsInv' /\ [EventsNext]_eventVars =>
         [Stream!StreamNext]_Stream!streamVars
  BY ShownStreamStep DEF EventsInv, Stream!streamVars, Attached
<1> QED
  BY <1>1, ShownStreamInit, EventsInvariant, PTL
     DEF EventsSpec, ShowsOneStream, Stream!StreamSpec

=============================================================================
