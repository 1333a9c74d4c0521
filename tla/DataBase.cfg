\* After a stored function failed the other threads may wait for ever.
CHECK_DEADLOCK FALSE
SPECIFICATION FairSpec
CONSTANTS
    NoThread = NoThread
    Threads = {"t1", "t2", "t3"}
    Kinds = {"function", "signup", "table", "update"}
    Refused = {"function", "table", "update"}
    MaxDepth = 3
INVARIANTS
    TypeOK
    ResultsAreOwn
    QueriesAreInSync
    LocksAreBalanced
PROPERTIES
    NeverStalls
