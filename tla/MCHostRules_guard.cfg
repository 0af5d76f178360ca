SPECIFICATION Spec
CONSTANTS
    p1 = p1
    p2 = p2
    Hosts = {{"ufw", "iptables"}, {"nftables"}, {"iptables"}, {}}
    Procs = {p1, p2}
    Unprotected = {}
    Unmanaged = {p2}
    NoFile = NoFile
    Stale = Stale
    MaxRules = 1
    MaxEchoRules = 3
INVARIANTS
    TypeOK
    OwnerProtected
    PortsClosed
CHECK_DEADLOCK FALSE
