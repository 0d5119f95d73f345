SPECIFICATION Spec
CONSTANTS
    Entry = 1
    NoBlock = NoBlock
    Fun = {"f", "g"}
    NoFun = NoFun
    Block <- MCBlock
    Graphs <- MCGraphs
    Functions <- MCFunctions
    MaxEdits = 1
    None = None
INVARIANTS
    FreshUnlessEdited
    CrashOnlyAfterEdit
    WalkComplete
