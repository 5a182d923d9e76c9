SPECIFICATION Spec
CONSTANTS
    Ids = {alice}
    IdBytes <- LongIdBytes
    MaxIdBytes = 256
    MaxAuditEvents = 12
    MaxTimestamp = 1000
    NoEvent = NoEvent
    NoId = NoId
    Procs = {p1}
    Payloads = {x}
    EmptyField = EmptyField
    OversizedField = OversizedField
    NoInput = NoInput
    Keys = {k1}
    Locked = Locked
    KeyHandles = {k1}
    BadId = BadId
    Clock = {7}
    NoCall = NoCall
INVARIANTS
    DeletedIdIsFree
