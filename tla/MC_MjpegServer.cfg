CONSTANTS
    c1 = c1  c2 = c2
    NIL = NIL
    Clients <- MC_Clients
    MaxFrames = 3
SPECIFICATION Spec
INVARIANTS StreamInOrder ListsFollowSockets NewestFrameIsTaken
PROPERTIES FramesArrive RequestsAnswered
CHECK_DEADLOCK FALSE
