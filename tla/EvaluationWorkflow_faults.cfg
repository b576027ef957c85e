\* Two faults, no service error.
SPECIFICATION FairWorkflowSpec
CONSTANTS
    Task = {t1}
    Evaluation = t1
    Token <- MCTokens
    TokenOf <- MCTokenOf
    ExternalId = {x1}
    JobId <- MCJobId
    Value = {a, v1}
    AudioUri = a
    ErrorCode = {e1}
    Arn = {n1}
    NoValue = NoValue
    MaxRetries = 0
    MaxServiceErrors = 0
    MaxFaults = 2
CHECK_DEADLOCK FALSE
INVARIANTS
    VerdictsExclude
    SuccessIsFullyAnnounced
PROPERTIES
    ExecutionsAreSettled
