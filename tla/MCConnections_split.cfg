SPECIFICATION Spec
CONSTANTS
    c1 = c1
    c2 = c2
    c3 = c3
    Clients = {c1, c2}
    TlsClients = {c2}
    Conducts <- SplitConducts
    MaxPackets <- SplitPackets
    MaxConnections = 2
    Workers = 1
    Room = 1
PROPERTIES
    HandshakeAnswered
CHECK_DEADLOCK FALSE
