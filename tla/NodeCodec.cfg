CONSTANTS
    Null = Null
    DataWidth = 5
    CountWidth = 3
    SizeWidth = 36
    LimitChoices <- MCLimits
    Trees <- MCTrees
    Serials <- MCSerials
SPECIFICATION Spec
INVARIANTS
    RangesNested
    WritesExactly
    RoundTrips
    ReadsExactly
