-------------------------------- MODULE TaskEvents --------------------------------
(***************************************************************************)
(* The tasks' events: the durable log, the WebSocket subscriptions, the    *)
(* single-use tickets that admit them, the emitter that every Lambda of    *)
(* the backend announces with, and the task-events Lambda that subscribes  *)
(* and replays.  Every query and every post is a step of its own, so that  *)
(* emissions, subscriptions and disconnects interleave between them.       *)
(*                                                                         *)
(* Event ids and creation times are left out: an emission and a replay     *)
(* post to their targets in any order.                                     *)
(***************************************************************************)
EXTENDS Naturals, FiniteSets

CONSTANTS
    Task,
    Event,          \* event names
    Accepted,       \* EVALUATION_ACCEPTED, which the transaction that creates a task logs
    Connection,     \* connection ids API Gateway hands out, each once
    Ticket,         \* ticket secrets, each created once
    TaskOf,         \* the task a ticket is created for
    Emission,       \* calls of TaskEventEmitter::emit, repeated ones included
    Announces,      \* the <<task, event>> pair a call is about
    Subscription,   \* subscribe requests, as <<connection, ticket>> pairs
    NoTask,
    MaxFaults       \* bound: failed calls, timeouts, ends of a process

ASSUME TaskEventsAssumption ==
    /\ NoTask \notin Task
    /\ Accepted \in Event
    /\ TaskOf \in [Ticket -> Task]
    /\ Announces \in [Emission -> Task \X Event]
    /\ Subscription \subseteq Connection \X Ticket
    /\ MaxFaults \in Nat

VARIABLES
    events,         \* pipeline_task_events: <<task, event>> pairs
    ticket,         \* pipeline_task_event_tickets, by what has become of each
    row,            \* pipeline_task_websocket_connections: connection -> task
    socket,         \* the WebSocket itself
    emission,       \* where each call of emit is
    targets,        \* the connections it has listed and not yet posted to
    subscription,   \* where each subscribe invocation is
    replay,         \* the events it has listed and not yet posted
    received,       \* frames each socket was sent
    faults

emissionVars == <<emission, targets>>
subscriptionVars == <<subscription, replay>>
eventVars == <<events, ticket, row, socket, emissionVars, subscriptionVars, received, faults>>

EmissionStage == {"idle", "recorded", "posting", "done", "cut"}

\* "failed" is the error of a query that found nothing, "cut" that of a fault.
SubscriptionStage ==
    {"idle", "consuming", "inserting", "selecting", "listing", "replaying",
     "subscribed", "unauthorized", "conflict", "failed", "cut"}

TaskOfRequest(s) == TaskOf[s[2]]

EventsInit ==
    /\ events = Task \X {Accepted}
    /\ ticket = [k \in Ticket |-> "none"]
    /\ row = [c \in Connection |-> NoTask]
    /\ socket = [c \in Connection |-> "new"]
    /\ emission = [m \in Emission |-> "idle"]
    /\ targets = [m \in Emission |-> {}]
    /\ subscription = [s \in Subscription |-> "idle"]
    /\ replay = [s \in Subscription |-> {}]
    /\ received = [c \in Connection |-> {}]
    /\ faults = 0

Fault ==
    /\ faults < MaxFaults
    /\ faults' = faults + 1

-----------------------------------------------------------------------------
(* Sockets and tickets                                                     *)

Connect(c) ==
    /\ socket[c] = "new"
    /\ socket' = [socket EXCEPT ![c] = "open"]
    /\ UNCHANGED <<events, ticket, row, emissionVars, subscriptionVars, received, faults>>

\* The client closes it, or the network does: from now on posts find it gone.
Close(c) ==
    /\ socket[c] = "open"
    /\ socket' = [socket EXCEPT ![c] = "closed"]
    /\ UNCHANGED <<events, ticket, row, emissionVars, subscriptionVars, received, faults>>

\* The $disconnect route, some time after the close.
Disconnect(c) ==
    /\ socket[c] = "closed"
    /\ socket' = [socket EXCEPT ![c] = "gone"]
    /\ row' = [row EXCEPT ![c] = NoTask]
    /\ UNCHANGED <<events, ticket, emissionVars, subscriptionVars, received, faults>>

CreateTicket(k) ==
    /\ ticket[k] = "none"
    /\ ticket' = [ticket EXCEPT ![k] = "valid"]
    /\ UNCHANGED <<events, row, socket, emissionVars, subscriptionVars, received, faults>>

\* Its two minutes are over.
ExpireTicket(k) ==
    /\ ticket[k] = "valid"
    /\ ticket' = [ticket EXCEPT ![k] = "expired"]
    /\ UNCHANGED <<events, row, socket, emissionVars, subscriptionVars, received, faults>>

Open(c) == socket[c] = "open"

\* Fault: a post that finds the connection gone leaves its row.
KeepRow(c) == UNCHANGED row

\* remove, after a GoneException.
Forget(c) == row' = [row EXCEPT ![c] = NoTask]

-----------------------------------------------------------------------------
(* TaskEventEmitter::emit                                                  *)

Emitting(m, stage) == emission[m] = stage

\* Fault: the subscribers are listed before the event is in the log.
RecordAfterListing(m) ==
    \/ /\ Emitting(m, "idle")
       /\ emission' = [emission EXCEPT ![m] = "recorded"]
       /\ targets' = [targets EXCEPT ![m] = {c \in Connection : row[c] = Announces[m][1]}]
       /\ UNCHANGED <<events, ticket, row, socket, subscriptionVars, received, faults>>
    \/ /\ Emitting(m, "recorded")
       /\ events' = events \cup {Announces[m]}
       /\ emission' = [emission EXCEPT ![m] = "posting"]
       /\ UNCHANGED <<ticket, row, socket, targets, subscriptionVars, received, faults>>

Record(m) ==
    /\ Emitting(m, "idle")
    /\ events' = events \cup {Announces[m]}
    /\ emission' = [emission EXCEPT ![m] = "recorded"]
    /\ UNCHANGED <<ticket, row, socket, targets, subscriptionVars, received, faults>>

ListConnections(m) ==
    /\ Emitting(m, "recorded")
    /\ targets' = [targets EXCEPT ![m] = {c \in Connection : row[c] = Announces[m][1]}]
    /\ emission' = [emission EXCEPT ![m] = "posting"]
    /\ UNCHANGED <<events, ticket, row, socket, subscriptionVars, received, faults>>

Send(c, frame) == received' = [received EXCEPT ![c] = @ \cup {frame}]

PostTo(m, c) ==
    /\ Emitting(m, "posting")
    /\ c \in targets[m]
    /\ targets' = [targets EXCEPT ![m] = @ \ {c}]
    /\ \/ Open(c) /\ Send(c, Announces[m]) /\ UNCHANGED row
       \/ ~ Open(c) /\ Forget(c) /\ UNCHANGED received
    /\ UNCHANGED <<events, ticket, socket, emission, subscriptionVars, faults>>

\* Fault: the emission ends before its last post.
FanOutAborted(m) ==
    /\ Emitting(m, "posting")
    /\ emission' = [emission EXCEPT ![m] = "done"]
    /\ UNCHANGED <<events, ticket, row, socket, targets, subscriptionVars, received, faults>>

FanOutDone(m) ==
    /\ Emitting(m, "posting")
    /\ targets[m] = {}
    /\ emission' = [emission EXCEPT ![m] = "done"]
    /\ UNCHANGED <<events, ticket, row, socket, targets, subscriptionVars, received, faults>>

\* A query fails, the emitting Lambda ends, or any post fails that does not say
\* the connection is gone, although the frame may have been sent.
CutShort(m) ==
    /\ emission[m] \in {"recorded", "posting"}
    /\ Fault
    /\ emission' = [emission EXCEPT ![m] = "cut"]
    /\ targets' = [targets EXCEPT ![m] = {}]
    /\ \/ \E c \in targets[m] : Open(c) /\ Send(c, Announces[m])
       \/ UNCHANGED received
    /\ UNCHANGED <<events, ticket, row, socket, subscriptionVars>>

FanOut(m) ==
    \/ ListConnections(m) \/ FanOutDone(m)
    \/ \E c \in Connection : PostTo(m, c)

-----------------------------------------------------------------------------
(* TaskEventsHandler::subscribe                                            *)

At(s, stage) == subscription[s] = stage

GoTo(s, stage) == subscription' = [subscription EXCEPT ![s] = stage]

Subscribe(s) ==
    /\ At(s, "idle")
    /\ Open(s[1])
    /\ GoTo(s, "consuming")
    /\ UNCHANGED <<events, ticket, row, socket, emissionVars, replay, received, faults>>

\* Fault: the ticket is read and stays.
CheckTicket(s) ==
    /\ At(s, "consuming")
    /\ GoTo(s, IF ticket[s[2]] = "valid" THEN "inserting" ELSE "unauthorized")
    /\ UNCHANGED <<events, ticket, row, socket, emissionVars, replay, received, faults>>

ConsumeTicket(s) ==
    /\ At(s, "consuming")
    /\ \/ /\ ticket[s[2]] = "valid"
          /\ ticket' = [ticket EXCEPT ![s[2]] = "used"]
          /\ GoTo(s, "inserting")
       \/ /\ ticket[s[2]] # "valid"
          /\ GoTo(s, "unauthorized")
          /\ UNCHANGED ticket
    /\ UNCHANGED <<events, row, socket, emissionVars, replay, received, faults>>

\* Fault: ON CONFLICT takes the connection over to the ticket's task.
InsertOrTakeOver(s) ==
    /\ At(s, "inserting")
    /\ row' = [row EXCEPT ![s[1]] = TaskOfRequest(s)]
    /\ GoTo(s, "listing")
    /\ UNCHANGED <<events, ticket, socket, emissionVars, replay, received, faults>>

\* ON CONFLICT (connection_id) DO NOTHING.
InsertConnection(s) ==
    /\ At(s, "inserting")
    /\ \/ /\ row[s[1]] = NoTask
          /\ row' = [row EXCEPT ![s[1]] = TaskOfRequest(s)]
          /\ GoTo(s, "listing")
       \/ /\ row[s[1]] # NoTask
          /\ GoTo(s, "selecting")
          /\ UNCHANGED row
    /\ UNCHANGED <<events, ticket, socket, emissionVars, replay, received, faults>>

\* The row that was in the way: the same stream, another one, or gone again.
SelectConnection(s) ==
    /\ At(s, "selecting")
    /\ \/ row[s[1]] = TaskOfRequest(s) /\ GoTo(s, "listing")
       \/ row[s[1]] = NoTask /\ GoTo(s, "failed")
       \/ row[s[1]] \notin {NoTask, TaskOfRequest(s)} /\ GoTo(s, "conflict")
    /\ UNCHANGED <<events, ticket, row, socket, emissionVars, replay, received, faults>>

ListEvents(s) ==
    /\ At(s, "listing")
    /\ replay' = [replay EXCEPT ![s] = {p \in events : p[1] = TaskOfRequest(s)}]
    /\ GoTo(s, "replaying")
    /\ UNCHANGED <<events, ticket, row, socket, emissionVars, received, faults>>

\* A connection that is gone ends the replay, and the subscription succeeds.
ReplayEvent(s, p) ==
    /\ At(s, "replaying")
    /\ p \in replay[s]
    /\ \/ /\ Open(s[1])
          /\ Send(s[1], p)
          /\ replay' = [replay EXCEPT ![s] = @ \ {p}]
          /\ UNCHANGED <<row, subscription>>
       \/ /\ ~ Open(s[1])
          /\ Forget(s[1])
          /\ replay' = [replay EXCEPT ![s] = {}]
          /\ GoTo(s, "subscribed")
          /\ UNCHANGED received
    /\ UNCHANGED <<events, ticket, socket, emissionVars, faults>>

ReplayDone(s) ==
    /\ At(s, "replaying")
    /\ replay[s] = {}
    /\ GoTo(s, "subscribed")
    /\ UNCHANGED <<events, ticket, row, socket, emissionVars, replay, received, faults>>

\* The invocation ends in between; API Gateway does not repeat it.
CutSubscription(s) ==
    /\ subscription[s] \in {"consuming", "inserting", "selecting", "listing", "replaying"}
    /\ Fault
    /\ GoTo(s, "cut")
    /\ replay' = [replay EXCEPT ![s] = {}]
    /\ \/ \E p \in replay[s] : Open(s[1]) /\ Send(s[1], p)
       \/ UNCHANGED received
    /\ UNCHANGED <<events, ticket, row, socket, emissionVars>>

SubscriptionStep(s) ==
    \/ ConsumeTicket(s) \/ InsertConnection(s) \/ SelectConnection(s)
    \/ ListEvents(s) \/ ReplayDone(s)
    \/ \E p \in replay[s] : ReplayEvent(s, p)

-----------------------------------------------------------------------------
EventsNext ==
    \/ \E c \in Connection : Connect(c) \/ Close(c) \/ Disconnect(c)
    \/ \E k \in Ticket : CreateTicket(k) \/ ExpireTicket(k)
    \/ \E m \in Emission : Record(m) \/ FanOut(m) \/ CutShort(m)
    \/ \E s \in Subscription : Subscribe(s) \/ SubscriptionStep(s) \/ CutSubscription(s)

EventsSpec == EventsInit /\ [][EventsNext]_eventVars

\* What was begun goes on, and API Gateway reports a closed connection.
EventsFairness ==
    /\ \A m \in Emission : WF_eventVars(FanOut(m))
    /\ \A s \in Subscription : WF_eventVars(SubscriptionStep(s))
    /\ \A c \in Connection : WF_eventVars(Disconnect(c))

FairEventsSpec == EventsSpec /\ EventsFairness

-----------------------------------------------------------------------------
(* Properties                                                              *)

\* Every variable holds a value of its type, and a call that is over has posted
\* whatever it was to post.
EventsTypeOK ==
    /\ events \subseteq Task \X Event
    /\ ticket \in [Ticket -> {"none", "valid", "expired", "used"}]
    /\ row \in [Connection -> Task \cup {NoTask}]
    /\ socket \in [Connection -> {"new", "open", "closed", "gone"}]
    /\ emission \in [Emission -> EmissionStage]
    /\ targets \in [Emission -> SUBSET Connection]
    /\ subscription \in [Subscription -> SubscriptionStage]
    /\ replay \in [Subscription -> SUBSET (Task \X Event)]
    /\ received \in [Connection -> SUBSET (Task \X Event)]
    /\ faults \in 0 .. MaxFaults
    /\ \A m \in Emission : emission[m] # "posting" => targets[m] = {}
    /\ \A s \in Subscription : subscription[s] # "replaying" => replay[s] = {}

\* An announcement of event p that is on its way to connection c, or was cut.
Announcing(p, c) ==
    \E m \in Emission :
       /\ Announces[m] = p
       /\ \/ emission[m] \in {"recorded", "cut"}
          \/ emission[m] = "posting" /\ c \in targets[m]

\* A replay of event p that is on its way to connection c, or was cut.
Replaying(p, c) ==
    \E s \in Subscription :
       /\ s[1] = c
       /\ TaskOfRequest(s) = p[1]
       /\ \/ subscription[s] \in {"listing", "cut"}
          \/ subscription[s] = "replaying" /\ p \in replay[s]

\* The emitter writes the log before it lists the subscribers, and the Lambda
\* subscribes before it lists the log.  So between the two, no event slips past
\* a subscriber: whatever is in the log was sent, is about to be sent, or was
\* lost to a fan-out or a replay that failed.
NothingSlipsThrough ==
    \A c \in Connection, p \in events :
       Open(c) /\ row[c] = p[1] =>
          p \in received[c] \/ Announcing(p, c) \/ Replaying(p, c)

Admitted(s) == subscription[s] \notin {"idle", "consuming", "unauthorized"}

\* The comment on the WebSocket API says that a ticket is used once and for one
\* task: however many connections present it at the same time, one gets in, and
\* what a connection is sent belongs to a task it was admitted to.
TicketsAdmitOnce ==
    /\ \A s, r \in Subscription :
          s[2] = r[2] /\ subscription[s] # "cut" /\ subscription[r] # "cut"
             /\ Admitted(s) /\ Admitted(r) => s = r
    /\ \A c \in Connection : \A p \in received[c] :
          \E s \in Subscription : s[1] = c /\ TaskOfRequest(s) = p[1] /\ Admitted(s)

Stream == INSTANCE EventStream WITH
    published <- events,
    attached <- [c \in Connection |-> IF Open(c) THEN row[c] ELSE NoTask],
    delivered <- received

\* A socket shows the stream of one task and never another one's, though rows
\* of connections that are gone are removed, and inserted again by requests
\* that were under way.
ShowsOneStream == Stream!StreamSpec

Cut ==
    \/ \E m \in Emission : emission[m] = "cut"
    \/ \E s \in Subscription : subscription[s] = "cut"

\* An open subscriber is sent every event of its task unless one call failed.
SubscribersAreServed ==
    \A c \in Connection, p \in Task \X Event :
       (p \in events /\ row[c] = p[1]) ~> (p \in received[c] \/ ~ Open(c) \/ Cut)

\* The row of a closed connection does not stay, also when $disconnect came
\* before the subscription it should remove: the replay finds the connection
\* gone, since the log of a task is never empty.
GoneConnectionsAreForgotten ==
    \A c \in Connection : (row[c] # NoTask /\ ~ Open(c)) ~> (row[c] = NoTask \/ Cut)

=============================================================================
