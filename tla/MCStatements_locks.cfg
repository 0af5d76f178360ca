SPECIFICATION FairSpec
CONSTANTS
    d1 = d1
    d2 = d2
    Threads = {t1, t2}
    Dbs = {d1, d2}
    Offered <- OnTheFirst
    CacheLimit = 1
    Nothing = Nothing
INVARIANTS
    TypeOK
    WorkOnLive
    NobodyStuck
    ChangesCounted
    ParseCacheBounded
PROPERTIES
    StatementsEnd
