CONSTANTS
    app = app  stubborn = stubborn  home = home
    m1 = m1  m2 = m2  r1 = r1  r2 = r2
    NIL = NIL
    Apps <- TwoApps
    System = home
    Unkillable <- Nothing
    Monitors <- TwoMonitors
    Recordings <- Nothing
    MaxSessions = 2
    Capabilities <- AlertCapabilities
    SettingsRequests <- AlertSettings
SPECIFICATION Spec
INVARIANTS MonitorOwned
PROPERTY AlertAnswered
