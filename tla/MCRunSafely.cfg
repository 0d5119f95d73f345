SPECIFICATION Spec
CONSTANTS
    Timeouts <- MCTimeouts
INVARIANTS
    TypeOK
    FullTime
    Verdict
PROPERTIES
    Escalation
    NoSignalOnceGone
    ProgramEnds
    VerdictReached
