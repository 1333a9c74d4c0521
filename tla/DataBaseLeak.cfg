SPECIFICATION Spec
CONSTANTS
    NoThread = NoThread
    Threads = {"t1", "t2", "t3"}
    Kinds = {"function", "signup", "table", "update"}
    Refused = {"table", "update"}
    MaxDepth = 3
INVARIANTS
    LockIsReleased
