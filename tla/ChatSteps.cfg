SPECIFICATION Spec
CONSTANTS
    c1 = c1
    c2 = c2
    a1 = a1
    a2 = a2
    a3 = a3
    NoClient = NoClient
    Ended = Ended
    NoAddr = NoAddr
    NoName = NoName
    Freed = Freed
    System = System
    Clients = {c1, c2}
    Addrs = {a1, a2, a3}
    Names = {"main", "den", "pub"}
    Default = "main"
    SystemNames = {"main"}
    MaxChans = 1
SYMMETRY Symmetry
CONSTRAINT Bound
INVARIANTS
    TypeOK
    NoCircle
    ListedAreLive
    MembershipSettles
    NothingDangles
PROPERTIES
    QuotaHolds
CHECK_DEADLOCK FALSE
