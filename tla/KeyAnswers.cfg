SPECIFICATION FairSpec
CONSTANTS
    Procs = {p1, p2}
    Pids = {n1, n2}
    Passphrases = {x}
    Weak = Weak
    TooLong = TooLong
    Umasks = {"wide"}
    NoPid = NoPid
    NoKey = NoKey
    NoFile = NoFile
    NoName = NoName
    MaxDraws = 2
PROPERTIES
    CallsAreAnswered
