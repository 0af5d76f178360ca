SPECIFICATION Spec
CONSTANTS
    c1 = c1
    c2 = c2
    c3 = c3
    Clients = {c1, c2, c3}
    TlsClients = {c2}
    Conducts <- ServedConducts
    MaxPackets <- ServedPackets
    MaxConnections = 2
    Workers = 2
    Room = 1
INVARIANTS
    TypeOK
    OnlyPiecesSpin
PROPERTIES
    WholeHandshakesAnswered
    CommandsAnswered
    SilentSessionsEnd
    HungUpSessionsEnd
CHECK_DEADLOCK FALSE
