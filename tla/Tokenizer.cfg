SPECIFICATION AgainSpec
CONSTANTS
    Null = Null
    Lexemes <- MCLexemes
    Templates <- AllTemplates
    LimitChoices <- AllLimits
    DelimiterSize <- MCDelimiterSize
    DefaultPair <- Mustache
    Pairs <- MCPairs
    MaxCalls = 2
INVARIANTS
    PrefixIsBuffered
    MetadataPrecedesPartial
    TreeIsTheTemplates
    AcceptsExactly
    PathsFitSerializer
PROPERTIES
    RejectionKeepsRoot
