SPECIFICATION Spec
CONSTANTS
    word = word
    Numbers = {9, 10}
    Words = {word}
    TextRank <- Rank
    NULL = NULL
    LeftCols = {"a", "b"}
    RightCols = {"c"}
    LeftKey = "a"
    RightKey = "c"
    Addend = "b"
    NoLimit = NoLimit
    NoGroup = NoGroup
    Asked <- Everything
INVARIANTS
    TypeOK
    PagesOfOneOrder
    DistinctPage
    GroupsAddUp
    UnionKeepsRows
    JoinCounts
