SPECIFICATION Spec
CONSTANTS
    i1 = i1
    i2 = i2
    i3 = i3
    i4 = i4
    Instr <- MCInstr
    NumFunc = 2
    Programs <- MCPrograms
INVARIANTS
    TypeOK
    WorklistAlive
    OperandsAlive
    PassedFunctionsClean
    ResidueLeft
    CountIsErased
    ZeroMeansWritten
PROPERTIES
    Refines
    Terminates
