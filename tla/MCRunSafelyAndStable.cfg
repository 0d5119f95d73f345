SPECIFICATION Spec
CONSTANTS
    Seconds <- MCSeconds
INVARIANTS
    FastestReported
