SPECIFICATION JSONSpec
CONSTANTS
    Documents <- MCDocuments
    ParseLimits <- MCParseLimits
    ParseNestingCeiling = 3
INVARIANTS
    ParsesToMeaning
    RejectsExactly
