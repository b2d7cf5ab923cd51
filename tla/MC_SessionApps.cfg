CONSTANTS
    app = app  stubborn = stubborn  home = home
    m1 = m1  m2 = m2  r1 = r1  r2 = r2
    NIL = NIL
    Apps <- ThreeApps
    System = home
    Unkillable <- TheStubborn
    Monitors <- OneMonitor
    Recordings <- TwoRecordings
    MaxSessions = 2
    Capabilities <- AppCapabilities
    SettingsRequests <- AppSettings
SPECIFICATION Spec
INVARIANTS TypeOK CrashesAreReal RecordingKnown
PROPERTY EndsClean
