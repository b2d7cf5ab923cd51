CONSTANTS
    MaxLaunches = 2
    Retries = 3
    Prebuild = TRUE
    Foreign = TRUE
    NIL = NIL
SPECIFICATION Spec
INVARIANTS ResolvedWithStatus OneProcess ExitReported
PROPERTY LaunchSettles
CHECK_DEADLOCK FALSE
