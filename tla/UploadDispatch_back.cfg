\* Repeated notifications, against the doc of mark_upload_complete.
SPECIFICATION UploadSpec
CONSTANTS
    Task = {t1}
    Token = {k1}
    ExternalId = {x1}
    Value = {v1}
    ErrorCode = {e1}
    Arn = {a1}
    NoValue = NoValue
    Notification = {n1, n2}
    TaskOf <- MCTaskOf
    ArnOf <- MCArnOf
    MaxDeliveries = 2
    MaxFaults = 3
SYMMETRY NotificationSymmetry
PROPERTIES
    ReviewNeverMovesBack
