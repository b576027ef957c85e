\* A submission while the history holds a job that is processing.
SPECIFICATION ClientLiveSpec
CONSTANTS
    Work <- NoWork
    Artifacts = {}
    MaxEvaluations = 2
    Stored = 1
    MaxRuns = 5
    MaxFaults = 0
    None = None
CHECK_DEADLOCK FALSE
PROPERTIES
    SubmissionsAreFollowed
