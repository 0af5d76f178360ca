SPECIFICATION Spec
CONSTANTS
    id = id
    n = n
    s = s
    a = a
    b = b
    Cols = {id, n}
    ColType <- IntKeyType
    PkCol = id
    Ints = {0, 1}
    Texts = {}
    EmptyText = EmptyText
    PlaceholderText = PlaceholderText
    NULL = NULL
    Workload = {"duplicate_key", "untyped_value", "update_scan", "prepared_scan", "prepared_key", "add_column", "create_as"}
    MaxRows = 2
    MaxAuto = 2
INVARIANTS
    TypeOK
    IndexSound
    StoresNeverLonger
