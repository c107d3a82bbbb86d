SPECIFICATION Spec
CONSTANTS
    p1 = p1
    p2 = p2
    Proc <- MCServer
    File <- MCFiles
    MaxOps = 2
    MaxCrashes = 0
    None = None
CHECK_DEADLOCK FALSE
INVARIANT OpenedIsComplete
