SPECIFICATION CallbacksSpec
CONSTANTS
    Null = Null
    NodeTable <- MCNodeTable
    DataTable <- MCDataTable
    TemplateTable <- MCTemplateTable
    Resolvers <- NoResolvers
    Externals <- MCExternals
    RootPartials <- MCRootPartials
    Roots = {"lambda", "escaped", "indented", "rebuilt"}
    Inputs <- MCInputs
    Outputs <- EmptyOutput
    LimitChoices <- Roomy
    HelperNodes = {"x"}
    NestingCeiling = 5
    TokenizerMaxNodes = 3
    MaxRenders = 1
    MaxCalls = 2
INVARIANTS
    DepthCountsFrames
    CapabilitiesMatchFrames
PROPERTIES
    RenderIsolated
    RenderTerminates
