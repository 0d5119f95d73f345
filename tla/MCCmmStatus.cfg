SPECIFICATION Spec
CONSTANTS
    x = x
    y = y
    NoSymbol = NoSymbol
    Names <- MCNames
    ParamLists <- MCParamLists
    MaxFiles = 1
    MaxTokens = 3
INVARIANTS
    StatusReportsFailure
