SPECIFICATION Spec
CONSTANTS
    Null = Null
    Buffers <- MCBuffers
    LimitChoices <- MCLimits
    NestingCeiling = 4
    SizeWidth = 12
    Sources <- MCSources
    Archives <- MCArchives
INVARIANTS
    KeepsTemplate
    LoadsExactly
    WalkBounded
