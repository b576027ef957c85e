\* Two evaluations of one stage, one in the history, three runs, one fault.
SPECIFICATION ClientLiveSpec
CONSTANTS
    Work <- OneStage
    Artifacts <- OneArtifact
    MaxEvaluations = 2
    Stored = 1
    MaxRuns = 3
    MaxFaults = 1
    None = None
CHECK_DEADLOCK FALSE
INVARIANTS
    TrackerIsTrue
    OneSubscription
    TrackerCatchesUp
PROPERTIES
    OutcomesAreRecorded
