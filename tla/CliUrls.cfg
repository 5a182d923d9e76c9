SPECIFICATION Spec
CONSTANTS
    Procs = {p1}
    Ids = {c1}
    Passphrases = {x, y}
    BaseAtStart = {"durable", "absent"}
    Environments <- SmallEnvironments
    Urls <- SmallUrls
    NoSealed = NoSealed
    NoKey = NoKey
    NoInput = NoInput
    NoCall = NoCall
    NoDatabase = NoDatabase
    MaxKeys = 2
    MaxRevision = 2
INVARIANTS
    OnlyLocalDatabases
