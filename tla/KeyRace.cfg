SPECIFICATION Spec
CONSTANTS
    Procs = {p1, p2}
    Pids = {n1, n2}
    Passphrases = {x, y}
    Weak = Weak
    TooLong = TooLong
    Umasks = {"wide", "narrow"}
    NoPid = NoPid
    NoKey = NoKey
    NoFile = NoFile
    NoName = NoName
    MaxDraws = 2
SYMMETRY Symmetry
INVARIANTS
    TypeOK
    KeyFileComplete
    HeldKeyIsInstalled
    AcknowledgedKeySurvives
    AlreadyInitializedIsTrue
    SweepSparesInstallers
PROPERTIES
    ImplementsKeyRegister
