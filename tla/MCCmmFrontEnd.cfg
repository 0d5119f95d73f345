SPECIFICATION Spec
CONSTANTS
    x = x
    y = y
    NoSymbol = NoSymbol
    Names <- MCNames
    ParamLists <- MCParamLists
    MaxFiles = 2
    MaxTokens = 7
INVARIANTS
    LookupIsLexical
    AcceptedIsComplete
    ReadsOpenStream
    NothingSkipped
PROPERTIES
    EndsUnlessStdinIsDry
