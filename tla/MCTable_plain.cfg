SPECIFICATION Spec
CONSTANTS
    id = id
    n = n
    s = s
    a = a
    b = b
    Cols = {id, s}
    ColType <- MixedType
    PkCol = id
    Ints = {0, 1, 2}
    Texts = {a, b}
    EmptyText = EmptyText
    PlaceholderText = PlaceholderText
    NULL = NULL
    Workload = {"add_column"}
    MaxRows = 3
    MaxAuto = 4
INVARIANTS
    IndexComplete
    StoresMirrorRows
    ReadPathsAgree
    AutoKeyFresh
PROPERTIES
    ImplementsKeyedTable
