SPECIFICATION FairSpec
CONSTANTS
    d1 = d1
    UserDbs = {d1}
    Test = Test
    NoTable = NoTable
    NoFile = NoFile
    MaxRows = 1
INVARIANTS
    TypeOK
    FinalDump
PROPERTIES
    CheckpointAtomic
    SignalEndsProcess
