SPECIFICATION Spec
CONSTANTS
    s1 = s1
    s2 = s2
    d1 = d1
    d2 = d2
    Sessions = {s1, s2}
    Dbs = {d1}
    AllowedDbs <- Everywhere
    Transacting = {s1, s2}
    RepeatWrites = TRUE
    MaxRows = 2
    MaxGen = 3
    Ok = Ok
    Error = Error
    None = None
SYMMETRY Symmetry
CHECK_DEADLOCK FALSE
INVARIANTS
    AcksKept
