SPECIFICATION Spec
CONSTANTS
    e1 = e1
    e2 = e2
    e3 = e3
    e4 = e4
    e5 = e5
    Item <- MCItem
    NoItem = NoItem
    Configurations <- MCConfigurations
    MaxLog2 = 5
INVARIANTS
    Fsck
    NewestUntilExpanded
    ChainsBounded
PROPERTIES
    Refines
