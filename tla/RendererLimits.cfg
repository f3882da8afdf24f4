SPECIFICATION ReferenceSpec
CONSTANTS
    Null = Null
    NodeTable <- MCNodeTable
    DataTable <- MCDataTable
    TemplateTable <- MCTemplateTable
    Resolvers <- MCResolvers
    Externals <- MCExternals
    RootPartials <- MCRootPartials
    Roots = {"lambda", "escaped", "rebuilt", "badMeta", "nullChild", "noDelims", "indented", "nested", "endless"}
    Referenced = {"indented", "nested", "endless"}
    Inputs <- MCInputs
    Outputs <- MCOutputs
    LimitChoices <- MCLimits
    HelperNodes = {"section", "badMeta"}
    NestingCeiling = 8
    TokenizerMaxNodes = 3
    MaxRenders = 2
    MaxCalls = 1
INVARIANTS
    ChargesWithinLimits
    ChargedOnce
    GuardsAccountForState
    RendersTheTemplate
    FailureLeavesPrefix
    FailsOnlyOverBudget
