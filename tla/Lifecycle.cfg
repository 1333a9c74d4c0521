SPECIFICATION FairSpec
CONSTANTS
    NoFile = NoFile
    Empty = Empty
    Procs = {"p1", "p2", "p3"}
    Modes = {"daemon", "server", "console"}
    Deviations = {}
INVARIANTS
    TypeOK
    OneServer
    DaemonsAreNamed
PROPERTIES
    StopIsHeard
