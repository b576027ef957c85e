------------------------------- MODULE EventStream -------------------------------
(***************************************************************************)
(* What a WebSocket shows its client of the tasks' events: it is attached  *)
(* to at most one task's stream and stays with it until it is closed, and  *)
(* every frame is an event published there.  A frame is only a name, so a  *)
(* client could not tell two streams on one socket apart.                  *)
(***************************************************************************)
CONSTANTS
    Task,
    Event,
    Connection,
    NoTask      \* of a connection that is attached to no stream

VARIABLES
    published,  \* the <<task, event>> pairs in the log
    attached,   \* the task whose stream a connection shows
    delivered   \* the frames a connection was sent, as <<task, event>> pairs

streamVars == <<published, attached, delivered>>

StreamInit ==
    /\ published \in SUBSET (Task \X Event)
    /\ attached = [c \in Connection |-> NoTask]
    /\ delivered = [c \in Connection |-> {}]

Publish(t, e) ==
    /\ published' = published \cup {<<t, e>>}
    /\ UNCHANGED <<attached, delivered>>

Attach(c, t) ==
    /\ attached[c] = NoTask
    /\ delivered[c] = {}
    /\ attached' = [attached EXCEPT ![c] = t]
    /\ UNCHANGED <<published, delivered>>

\* The socket is closed; nothing follows on it.
Detach(c) ==
    /\ attached' = [attached EXCEPT ![c] = NoTask]
    /\ UNCHANGED <<published, delivered>>

Deliver(c, e) ==
    /\ attached[c] # NoTask
    /\ <<attached[c], e>> \in published
    /\ delivered' = [delivered EXCEPT ![c] = @ \cup {<<attached[c], e>>}]
    /\ UNCHANGED <<published, attached>>

StreamNext ==
    \/ \E t \in Task, e \in Event : Publish(t, e)
    \/ \E c \in Connection : Detach(c)
    \/ \E c \in Connection, t \in Task : Attach(c, t)
    \/ \E c \in Connection, e \in Event : Deliver(c, e)

StreamSpec == StreamInit /\ [][StreamNext]_streamVars

=============================================================================
