SPECIFICATION Spec
CONSTANTS
    Compiled = {"c"}
    Archived = {"a"}
    Names = {"p"}
    States = {s1, s2, s3, s4}
    Trees <- MCTrees
    Root = "root"
    Null = Null
    Absent = Absent
    MaxNesting = 3
    MaxCalls = 6
INVARIANTS
    ReadersOwn
PROPERTIES
    HandlesAreValues
SYMMETRY Symmetry
CHECK_DEADLOCK FALSE
