SPECIFICATION Spec
CONSTANTS
    Procs = {p1}
    Pids = {n1}
    Passphrases = {x}
    Weak = Weak
    TooLong = TooLong
    Umasks = {"wide", "narrow"}
    NoPid = NoPid
    NoKey = NoKey
    NoFile = NoFile
    NoName = NoName
    MaxDraws = 1
INVARIANTS
    NextProcessIsLocked
