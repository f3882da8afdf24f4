SPECIFICATION FairSpec
CONSTANTS
    Threads = {t1, t2}
    Renderers = {r1}
    Null = Null
    HandoffModes = {"waits", "detached"}
    Reach = "enclosing"
    UsesRaw = TRUE
    MaxContexts = 3
    MaxRenders = 1
    MaxCalls = 5
INVARIANTS
    DeadlockNeedsOuter
PROPERTIES
    EveryThreadFinishes
CHECK_DEADLOCK FALSE
