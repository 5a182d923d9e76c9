SPECIFICATION Spec
CONSTANTS
    Procs = {p1}
    Builds = {1}
    Umasks = {"wide", "narrow"}
    NoProc = NoProc
INVARIANTS
    PrivateFromBirth
