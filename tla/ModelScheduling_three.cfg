\* Three requests with one key, three rounds each, three faults.
SPECIFICATION FairSchedulingSpec
CONSTANTS
    Request = {r1, r2, r3}
    LegacyId = LegacyId
    None = None
    Unreadable = Unreadable
    Attempts <- MCAttempts
    MaxFaults <- MCMaxFaults
CHECK_DEADLOCK FALSE
INVARIANTS
    RunsAreLeased
PROPERTIES
    ImplementsJobSchedule
    KeyIsNotBlocked
