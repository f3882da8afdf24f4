SPECIFICATION Spec
CONSTANTS
    Threads = {t1, t2, t3}
    Renderers = {r1, r2}
    Null = Null
    HandoffModes = {"waits", "detached"}
    Reach = "own"
    UsesRaw = FALSE
    MaxContexts = 3
    MaxRenders = 2
    MaxCalls = 3
INVARIANTS
    RegistryIntact
    ActiveContextCanRender
    EngineIsCurrent
    RendererExclusive
PROPERTIES
    PromiseKept
SYMMETRY Symmetry
CHECK_DEADLOCK FALSE
