SPECIFICATION Spec
CONSTANTS
    Files = {a, m}
    MainBc = m
    a = a
    m = m
    MaxRuns = 3
INVARIANTS
    ZeroMeansMade
    FailureSpares
