CONSTANTS
    c1 = c1  c2 = c2
    b1 = b1  b2 = b2  b3 = b3
    default = default  idle = idle  t1 = t1
    NIL = NIL
    Clients <- MC_Clients
    Boxes <- MC_Boxes
    PortRange = 1
    DefaultTimeout = default
    IdleTimeout = idle
    LaunchTimeouts <- MC_LaunchTimeouts
    MaxRequests = 3
SPECIFICATION FairSpec
INVARIANTS TimeoutRestored GrantsAreOwn ScreenshotOrError ShutdownIsFinal
PROPERTY RequestsAnswered
CHECK_DEADLOCK FALSE
