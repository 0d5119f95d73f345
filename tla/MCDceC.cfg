SPECIFICATION Spec
CONSTANTS
    i1 = i1
    i2 = i2
    i3 = i3
    i4 = i4
    NoValue = NoValue
    Instr <- MCInstr
    NumFunc = 2
    Programs <- MCPrograms
INVARIANTS
    TypeOK
    WorklistAlive
    OperandsAlive
    AgreesWithCpp
PROPERTIES
    Refines
    Terminates
