CONSTANTS
    a = a
    null = null
    NIL = NIL
    Refused = Refused
    PointerItems <- Finger
    KeyItems <- Keyboard
    Silent = {null}
    SupportsPressure = TRUE
    MaxItems = 6
SPECIFICATION Spec
INVARIANTS TouchesAreContacts KeysAreTyped EventsInTime
