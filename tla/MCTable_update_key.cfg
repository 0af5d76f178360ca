SPECIFICATION Spec
CONSTANTS
    id = id
    n = n
    s = s
    a = a
    b = b
    Cols = {id, s}
    ColType <- MixedType
    PkCol = id
    Ints = {0, 1, 2}
    Texts = {a}
    EmptyText = EmptyText
    PlaceholderText = PlaceholderText
    NULL = NULL
    Workload = {"update_key"}
    MaxRows = 3
    MaxAuto = 4
INVARIANTS
    IndexComplete
