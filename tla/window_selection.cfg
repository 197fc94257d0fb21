SPECIFICATION Spec
CONSTANTS
    Universe = 8
    MaxCount = 8
    Draws = 3
INVARIANTS
    TypeOK
    Unbiased
    FirstAcceptable
CHECK_DEADLOCK FALSE
