SPECIFICATION FairSpec
CONSTANTS
    d1 = d1
    UserDbs = {d1}
    Test = Test
    NoTable = NoTable
    NoFile = NoFile
    MaxRows = 1
PROPERTIES
    RestartKeepsData
