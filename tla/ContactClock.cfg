SPECIFICATION Spec
CONSTANTS
    Ids = {alice}
    IdBytes <- ShortIdBytes
    MaxIdBytes = 256
    MaxAuditEvents = 3
    MaxTimestamp = 3
    NoEvent = NoEvent
    NoId = NoId
    Procs = {p1, p2}
    Payloads = {x}
    EmptyField = EmptyField
    OversizedField = OversizedField
    NoInput = NoInput
    Keys = {k1, k2}
    Locked = Locked
    KeyHandles = {k1, k2, Locked}
    BadId = BadId
    Clock = {0, 3}
    NoCall = NoCall
SYMMETRY ProcKeySymmetry
INVARIANTS
    TypeOK
    IInv
    HistoryReadable
    AuditRefusesOnlyExhausted
PROPERTIES
    ListBlockedOnlyByLiveForeignRow
