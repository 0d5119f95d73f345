SPECIFICATION Spec
CONSTANTS
    Entry = 1
    NoBlock = NoBlock
    Graphs <- MCGraphs
INVARIANTS
    WalkComplete
PROPERTIES
    EndsUnlessRepeated
