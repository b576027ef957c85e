\* Two tasks, two connections that present the tickets of both, one fault.
SPECIFICATION FairEventsSpec
CONSTANTS
    t1 = t1
    t2 = t2
    k1 = k1
    k2 = k2
    e0 = e0
    e1 = e1
    m1 = m1
    c1 = c1
    c2 = c2
    Task = {t1, t2}
    Event = {e0, e1}
    Accepted = e0
    Connection = {c1, c2}
    Ticket = {k1, k2}
    TaskOf <- TicketForEach
    Emission = {m1}
    Announces <- AnnounceOnce
    Subscription <- SharedTicket
    NoTask = NoTask
    MaxFaults = 1
CHECK_DEADLOCK FALSE
INVARIANTS
    NothingSlipsThrough
    TicketsAdmitOnce
PROPERTIES
    ShowsOneStream
    SubscribersAreServed
    GoneConnectionsAreForgotten
