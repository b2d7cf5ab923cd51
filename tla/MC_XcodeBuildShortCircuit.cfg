CONSTANTS
    MaxLaunches = 2
    Retries = 3
    Prebuild = FALSE
    Foreign = FALSE
    NIL = NIL
SPECIFICATION Spec
INVARIANT NoAttemptAfterExit
CHECK_DEADLOCK FALSE
