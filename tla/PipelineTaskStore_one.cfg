\* One task, two of everything it can disagree about.
SPECIFICATION Spec
CONSTANTS
    Task = {t1}
    Token = {k1, k2}
    ExternalId = {x1, x2}
    Value = {v1, v2}
    ErrorCode = {e1}
    Arn = {a1, a2}
    NoValue = NoValue
SYMMETRY Symmetry
INVARIANTS
    TypeOK
    StepsInOrder
    OutputsMatchSteps
    CallbacksResolve
    SuccessIsComplete
    ClosedTasksAreIdle
PROPERTIES
    FirstWriteWins
    ClosedTasksAreFrozen
    ImplementsLifecycle
