\* One notification, on whose way two things may go wrong.
SPECIFICATION FairUploadSpec
CONSTANTS
    Task = {t1}
    Token = {k1}
    ExternalId = {x1}
    Value = {v1}
    ErrorCode = {e1}
    Arn = {a1}
    NoValue = NoValue
    Notification = {n1}
    TaskOf <- MCTaskOf
    ArnOf <- MCArnOf
    MaxDeliveries = 3
    MaxFaults = 2
PROPERTIES
    UploadsAreSettled
