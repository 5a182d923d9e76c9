SPECIFICATION Spec
CONSTANTS
    Procs = {p1}
    Ids = {c1}
    Passphrases = {x, y}
    BaseAtStart = {"absent"}
    Environments <- SmallEnvironments
    Urls <- OneUrl
    NoSealed = NoSealed
    NoKey = NoKey
    NoInput = NoInput
    NoCall = NoCall
    NoDatabase = NoDatabase
    MaxKeys = 2
    MaxRevision = 2
PROPERTIES
    MutationsPersist
