SPECIFICATION SpellingSpec
CONSTANTS
    Null = Null
    Texts <- MCTexts
    ParseLimits <- MCParseLimits
    ParseNestingCeiling = 4
    IntegerWidth = 3
INVARIANT
    IntegersAreNumbers
