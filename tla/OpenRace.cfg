SPECIFICATION FairSpec
CONSTANTS
    Procs = {p1, p2}
    Builds = {1, 2}
    Umasks = {"wide", "narrow"}
    NoProc = NoProc
INVARIANTS
    TypeOK
    MigrationsInStep
    OpenedMeansReady
PROPERTIES
    SchemaVerdictIsRight
    OpensAreAnswered
