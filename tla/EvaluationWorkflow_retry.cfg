\* One retried service error and one fault.
SPECIFICATION WorkflowSpec
CONSTANTS
    Task = {t1}
    Evaluation = t1
    Token <- MCTokens
    TokenOf <- MCTokenOf
    ExternalId = {x1}
    JobId <- MCJobId
    Value = {a, v1, v2}
    AudioUri = a
    ErrorCode = {e1}
    Arn = {n1}
    NoValue = NoValue
    MaxRetries = 1
    MaxServiceErrors = 1
    MaxFaults = 1
SYMMETRY ResultSymmetry
CHECK_DEADLOCK FALSE
INVARIANTS
    AdvancedOnStoredResults
    SuccessIsNotRefused
    SuccessIsModerated
