SPECIFICATION ExprSpec
CONSTANTS
    Entry = 1
    NoBlock = NoBlock
    Undef = Undef
    x = x
    y = y
    Id <- MCId
    Imm = {0, 1}
    Op = {"sub", "sdiv"}
    MaxReductions = 10
    MaxValues = 3
    MaxOpen = 2
SYMMETRY Renaming
INVARIANTS
    WellFormedUnlessEscaped
    ReturnsWhatTheSourceSays
