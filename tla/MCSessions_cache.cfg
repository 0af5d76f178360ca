SPECIFICATION Spec
CONSTANTS
    s1 = s1
    s2 = s2
    d1 = d1
    d2 = d2
    Sessions = {s1, s2}
    Dbs = {d1, d2}
    AllowedDbs <- OneForTheSecond
    Transacting = {s2}
    RepeatWrites = FALSE
    MaxRows = 1
    MaxGen = 1
    Ok = Ok
    Error = Error
    None = None
CHECK_DEADLOCK FALSE
INVARIANTS
    TypeOK
    EntriesCurrent
    OwnRowsNotMissed
    RowsAccounted
VIEW View
