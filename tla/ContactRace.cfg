SPECIFICATION Spec
CONSTANTS
    Ids = {alice}
    IdBytes <- ShortIdBytes
    MaxIdBytes = 256
    MaxAuditEvents = 3
    MaxTimestamp = 1000
    NoEvent = NoEvent
    NoId = NoId
    Procs = {p1, p2}
    Payloads = {x, y}
    EmptyField = EmptyField
    OversizedField = OversizedField
    NoInput = NoInput
    Keys = {k1}
    Locked = Locked
    KeyHandles = {k1}
    BadId = BadId
    Clock = {7}
    NoCall = NoCall
SYMMETRY PayloadAndProcSymmetry
INVARIANTS
    RevisionIsPosition
    TrailContinuity
    LifecycleLegal
    TombstoneKeepsFields
    ConflictMeansOvertaken
    AcknowledgedIsStored
PROPERTIES
    NoStaleWrite
    ImplementsRegister
