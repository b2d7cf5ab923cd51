------------------------------ MODULE Session ------------------------------
(***************************************************************************)
(* The WebDriver session on the device: Routing/FBSession.m with the        *)
(* handlers of Commands/FBSessionCommands.m and Commands/FBVideoCommands.m, *)
(* the alert monitor (Utilities/FBAlertsMonitor.m) and the screen recording *)
(* container.                                                               *)
(*                                                                          *)
(* Every handler and every tick of the monitor is one block of the main     *)
(* queue, so it is one action: a run loop spun inside a block does not run  *)
(* the next block of that queue.  Between two blocks applications crash, go *)
(* to the background or show alerts.  A stage of an application, and of a   *)
(* recording, says more than the code can see: whether it stopped because   *)
(* the server asked for it.                                                 *)
(***************************************************************************)
EXTENDS Naturals, FiniteSets

CONSTANTS
    Apps,            \* bundle identifiers
    System,          \* the one of the home screen application
    Unkillable,      \* applications whose termination throws
    Monitors,        \* memory for alert monitor objects
    Recordings,      \* identifiers of screen recordings
    MaxSessions,     \* bound on the sessions created
    Capabilities,    \* what clients create sessions with
    SettingsRequests,\* what clients post to /appium/settings
    NIL

Stages == {"terminated", "dead", "suspended", "background", "foreground"}
NotRunning == {"terminated", "dead"}
AlertActions == {"", "accept", "dismiss", "other"}

AllCapabilities ==
    [app : Apps \cup {NIL}, force : BOOLEAN, url : BOOLEAN,
     terminate : BOOLEAN, action : AlertActions \cup {NIL}]

\* NIL is a setting the request does not mention.
AllSettings ==
    [respect : BOOLEAN \cup {NIL}, defaultApp : Apps \cup {NIL, "auto"},
     selector : {NIL, "empty", "valid", "invalid"},
     action : AlertActions \cup {NIL}]

ASSUME SystemAssumption == System \in Apps
ASSUME UnkillableAssumption == Unkillable \subseteq Apps
ASSUME NilNowhere ==
    /\ NIL \notin Apps \cup Monitors \cup Recordings
    /\ NIL \notin AlertActions /\ NIL \notin BOOLEAN
    /\ Apps \cap {"auto", "crashed"} = {}
ASSUME CapabilitiesAssumption ==
    \A c \in Capabilities : c \in AllCapabilities /\ (c.app = System => ~c.force)
ASSUME SettingsAssumption == SettingsRequests \subseteq AllSettings
ASSUME MaxSessionsAssumption == MaxSessions \in Nat

VARIABLES
    session,    \* _activeSession, NIL or the object
    created,    \* sessions created so far
    config,     \* the process-wide FBConfiguration
    monitors,   \* alert monitor objects and the block each has on the main queue
    promise,    \* the recording FBScreenRecordingContainer knows
    recordings, \* what the test manager daemon records
    apps,       \* stage of each application
    alert,      \* where an alert is on screen
    response    \* outcome of the last step

vars == <<session, created, config, monitors, promise, recordings, apps, alert, response>>

Sessions ==
    [id : 1..MaxSessions, tested : Apps \cup {NIL}, expected : BOOLEAN,
     action : AlertActions, monitor : Monitors \cup {NIL},
     defaultApp : Apps \cup {"auto"}]

ASSUME NilNoSession == NIL \notin Sessions

MonitorObjects ==
    [monitoring : BOOLEAN, delegate : 0..MaxSessions,  \* 0 is nil
     pending : {"none", "schedule", "tick"}]

Configurations == [selector : BOOLEAN, terminate : BOOLEAN, respect : BOOLEAN]

Responses ==
    Apps \cup {"none", "ok", "error", "created", "not created", "no session",
               "crashed", "touched", "threw"}

(***************************************************************************)
(* Applications, as XCTest drives them.                                     *)
(***************************************************************************)
Running(s, a) == s[a] \notin NotRunning

Front(s, a) ==
    [x \in Apps |-> IF x = a THEN "foreground"
                    ELSE IF s[x] = "foreground" THEN "background" ELSE s[x]]

\* An application leaves; the home screen takes its place on the screen.
Stop(s, a, stage) ==
    [x \in Apps |-> IF x = a THEN stage
                    ELSE IF x = System /\ s[a] = "foreground" THEN "foreground"
                    ELSE s[x]]

Outcome(s, ok) == [apps |-> s, ok |-> ok]

Terminate(s, a) ==
    IF a \in Unkillable \cup {System} THEN Outcome(s, FALSE)
    ELSE Outcome(Stop(s, a, "terminated"), TRUE)

\* A launch ends a running instance first; it may throw, and it may return
\* although the new process is gone already.
Launch(s, a) ==
    IF a \in Unkillable /\ Running(s, a) THEN {Outcome(s, FALSE)}
    ELSE {Outcome(Front(s, a), TRUE), Outcome(Stop(s, a, "dead"), TRUE),
          Outcome(Stop(s, a, "dead"), FALSE)}

Activate(s, a) == {Outcome(Front(s, a), TRUE), Outcome(s, FALSE)}

\* A URL brings up the given application, or any one if none is given, which
\* may die of it.
OpenURL(s, a) ==
    LET handlers == IF a = NIL THEN Apps ELSE {a}
    IN  {Outcome(Front(s, b), TRUE) : b \in handlers}
            \cup {Outcome(Stop(s, b, "dead"), TRUE) : b \in handlers \ {System}}
            \cup {Outcome(s, FALSE)}

(***************************************************************************)
(* The alert monitor.                                                       *)
(***************************************************************************)
Unused == [monitoring |-> FALSE, delegate |-> 0, pending |-> "none"]

ScheduleNextTick(m) ==
    [monitoring |-> m.monitoring, delegate |-> m.delegate,
     pending |-> IF ~m.monitoring THEN "none"
                 ELSE IF m.delegate = 0 THEN "schedule" ELSE "tick"]

\* A monitor no session and no block refers to is gone: its memory is free.
FreeMonitors(ms) == {m \in Monitors : ms[m].pending = "none"}

\* What enableAlertsMonitor may turn session s and the monitors into.
EnableAlertsMonitor(s, ms) ==
    IF s.monitor # NIL THEN {[session |-> s, monitors |-> ms]}
    ELSE {[session |-> [s EXCEPT !.monitor = m],
           monitors |-> [ms EXCEPT ![m] =
               ScheduleNextTick([monitoring |-> TRUE, delegate |-> s.id,
                                 pending |-> "none"])]]
          : m \in FreeMonitors(ms)}

DisableAlertsMonitor(s, ms) ==
    [session |-> [s EXCEPT !.monitor = NIL],
     monitors |-> [m \in Monitors |->
                     IF m = s.monitor
                     THEN [monitoring |-> FALSE, delegate |-> ms[m].delegate,
                           pending |-> ms[m].pending]
                     ELSE ms[m]]]

\* Nothing refers to session s after the block: weak references to it become nil.
Released(s, ms) ==
    [m \in Monitors |->
       [monitoring |-> ms[m].monitoring, pending |-> ms[m].pending,
        delegate |-> IF ms[m].delegate = s.id THEN 0 ELSE ms[m].delegate]]

MonitorFires(m) ==
    /\ monitors[m].pending = "schedule"
    /\ monitors' = [monitors EXCEPT ![m] = ScheduleNextTick(@)]
    /\ response' = "none"
    /\ UNCHANGED <<session, created, config, promise, recordings, apps, alert>>

\* didDetectAlert: the selector has priority over the action of the session.
WouldTouchAlert ==
    config.selector \/ session.action \in {"accept", "dismiss"}

\* A tick that runs now tells a delegate that will do something about the alert.
Tells(m) == alert # "none" /\ monitors[m].delegate # 0 /\ WouldTouchAlert

\* Faulty variant: an exception ends the chain of ticks.
MonitorTickUncaught(m) ==
    /\ monitors[m].pending = "tick"
    /\ response' \in {"threw", IF Tells(m) THEN "touched" ELSE "none"}
    /\ alert' \in IF Tells(m) THEN {alert, "none"} ELSE {alert}
    /\ monitors' = [monitors EXCEPT ![m].pending =
                       IF monitors[m].monitoring /\ response' # "threw"
                       THEN "schedule" ELSE "none"]
    /\ UNCHANGED <<session, created, config, promise, recordings, apps>>

\* A tick inspects the active applications and tells the delegate of the first
\* alert.  The alert may stay: nothing matches the selector, or a tap fails.
\* The look-up and the delegate may throw, which is caught and logged.
MonitorTick(m) ==
    /\ monitors[m].pending = "tick"
    /\ response' \in {"threw", IF Tells(m) THEN "touched" ELSE "none"}
    /\ alert' \in IF Tells(m) THEN {alert, "none"} ELSE {alert}
    /\ monitors' = [monitors EXCEPT ![m].pending =
                       IF monitors[m].monitoring THEN "schedule" ELSE "none"]
    /\ UNCHANGED <<session, created, config, promise, recordings, apps>>

(***************************************************************************)
(* Screen recordings: the daemon's, and the one the container knows.        *)
(***************************************************************************)
StopRecording(fails) ==
    IF promise = NIL THEN recordings
    ELSE [recordings EXCEPT ![promise] = IF fails THEN "lost" ELSE "finished"]

\* Faulty variant: a second recording starts while one is known.
StartAnotherRecording ==
    /\ \E r \in Recordings :
          /\ recordings[r] = "unused"
          /\ recordings' = [recordings EXCEPT ![r] = "running"]
          /\ promise' = r
    /\ response' = "ok"
    /\ UNCHANGED <<session, created, config, monitors, apps, alert>>

StartVideoRecording ==
    /\ IF promise # NIL
       THEN response' = "ok" /\ UNCHANGED <<promise, recordings>>
       ELSE \/ \E r \in Recordings :
                  /\ recordings[r] = "unused"
                  /\ recordings' = [recordings EXCEPT ![r] = "running"]
                  /\ promise' = r
                  /\ response' = "ok"
            \/ response' = "error" /\ UNCHANGED <<promise, recordings>>
    /\ UNCHANGED <<session, created, config, monitors, apps, alert>>

StopVideoRecording ==
    \E fails \in BOOLEAN :
        /\ recordings' = StopRecording(fails)
        /\ promise' = NIL
        /\ response' = IF fails /\ promise # NIL THEN "error" ELSE "ok"
        /\ UNCHANGED <<session, created, config, monitors, apps, alert>>

(***************************************************************************)
(* The life of a session.                                                   *)
(***************************************************************************)
Lookup(id) == IF session # NIL /\ session.id = id THEN session ELSE NIL

\* Faulty variant: the monitor of a killed session is not disabled.
ReleasedMonitors == IF session = NIL THEN monitors ELSE Released(session, monitors)

KilledMonitors ==
    IF session = NIL THEN monitors
    ELSE Released(session, DisableAlertsMonitor(session, monitors).monitors)

\* Faulty variant: an application in the background is not terminated.
KilledForegroundApp ==
    IF session = NIL \/ session.tested = NIL THEN apps
    ELSE IF config.terminate /\ apps[session.tested] = "foreground"
         THEN Terminate(apps, session.tested).apps ELSE apps

KilledApps ==
    IF session = NIL \/ session.tested = NIL THEN apps
    ELSE IF /\ config.terminate
            /\ Running(apps, session.tested)
            /\ session.tested # System
         THEN Terminate(apps, session.tested).apps ELSE apps

\* kill, and the release of the session that follows it.  Without an active
\* session it returns at once, and a recording goes on.
Kill(stopFails) ==
    /\ recordings' = IF session = NIL THEN recordings ELSE StopRecording(stopFails)
    /\ promise' = IF session = NIL THEN promise ELSE NIL

DeleteSession(id) ==
    /\ Lookup(id) # NIL
    /\ \E fails \in BOOLEAN : Kill(fails)
    /\ monitors' = KilledMonitors
    /\ apps' = KilledApps
    /\ session' = NIL
    /\ response' = "ok"
    /\ UNCHANGED <<created, config, alert>>

\* What becomes of the application a session is created for, from stages s.
Opened(c, s) ==
    IF c.app = NIL
    THEN IF c.url THEN OpenURL(s, NIL) ELSE {Outcome(s, TRUE)}
    ELSE IF s[c.app] \notin {"background", "foreground"} \/ c.force
    THEN LET stopped == IF Running(s, c.app) THEN Terminate(s, c.app) ELSE Outcome(s, TRUE)
             opened == IF ~c.url THEN Launch(s, c.app)
                       ELSE IF stopped.ok THEN OpenURL(stopped.apps, c.app) ELSE {stopped}
         IN  {Outcome(o.apps, o.ok /\ Running(o.apps, c.app)) : o \in opened}
    ELSE IF s[c.app] = "foreground" THEN {Outcome(s, TRUE)}
    ELSE IF c.url THEN OpenURL(s, c.app) ELSE Activate(s, c.app)

\* resetSessionSettings and the capabilities: what is not reset survives.
SessionConfig(c) ==
    [selector |-> FALSE, terminate |-> c.terminate, respect |-> config.respect]

\* Faulty variant: the identifier is that of the session before.
NewSessionSameId(c, s) ==
    [id |-> created, tested |-> c.app,
     expected |-> c.app # NIL /\ Running(s, c.app),
     action |-> IF c.action = NIL THEN "" ELSE c.action,
     monitor |-> NIL, defaultApp |-> "auto"]

NewSession(c, s) ==
    [id |-> created + 1, tested |-> c.app,
     expected |-> c.app # NIL /\ Running(s, c.app),
     action |-> IF c.action = NIL THEN "" ELSE c.action,
     monitor |-> NIL, defaultApp |-> "auto"]

CreateSession(c) ==
    /\ created < MaxSessions
    /\ \E fails \in BOOLEAN : Kill(fails)
    /\ \E o \in Opened(c, KilledApps) :
        /\ config' = SessionConfig(c)
        /\ apps' = o.apps
        /\ IF o.ok
           THEN LET new == NewSession(c, o.apps) IN
                /\ created' = created + 1
                /\ \E e \in IF c.action = NIL
                            THEN {[session |-> new, monitors |-> KilledMonitors]}
                            ELSE EnableAlertsMonitor(new, KilledMonitors) :
                      session' = e.session /\ monitors' = e.monitors
                /\ response' = "created"
           ELSE /\ session' = NIL
                /\ monitors' = KilledMonitors
                /\ response' = "not created"
                /\ UNCHANGED created
    /\ UNCHANGED alert

\* No valid capabilities in the request: the active session is gone already.
CreateSessionBadly ==
    /\ \E fails \in BOOLEAN : Kill(fails)
    /\ monitors' = KilledMonitors
    /\ apps' = KilledApps
    /\ session' = NIL
    /\ response' = "not created"
    /\ UNCHANGED <<created, config, alert>>

\* decorateRequest: any command of a session that is not the active one.
StaleRequest(id) ==
    /\ id <= created /\ Lookup(id) = NIL
    /\ response' = "no session"
    /\ UNCHANGED <<session, created, config, monitors, promise, recordings, apps, alert>>

(***************************************************************************)
(* Commands of the active session.                                          *)
(***************************************************************************)
Expecting(expected) ==
    [id |-> session.id, tested |-> session.tested, expected |-> expected,
     action |-> session.action, monitor |-> session.monitor,
     defaultApp |-> session.defaultApp]

LaunchApp(id, a) ==
    /\ Lookup(id) # NIL
    /\ \E o \in IF Running(apps, a) THEN Activate(apps, a) ELSE Launch(apps, a) :
        /\ apps' = o.apps
        /\ session' = Expecting(session.expected \/ (o.ok /\ a = session.tested))
        /\ response' = IF o.ok THEN "ok" ELSE "error"
    /\ UNCHANGED <<created, config, monitors, promise, recordings, alert>>

ActivateApp(id, a) ==
    /\ Lookup(id) # NIL
    /\ \E o \in Activate(apps, a) :
        /\ apps' = o.apps
        /\ response' = IF o.ok THEN "ok" ELSE "error"
    /\ UNCHANGED <<session, created, config, monitors, promise, recordings, alert>>

\* Faulty variant: a terminated application is still expected to run.
TerminateAppQuietly(id, a) ==
    /\ Lookup(id) # NIL
    /\ LET o == IF Running(apps, a) THEN Terminate(apps, a) ELSE Outcome(apps, TRUE) IN
        /\ apps' = o.apps
        /\ response' = IF o.ok THEN "ok" ELSE "error"
    /\ UNCHANGED <<session, created, config, monitors, promise, recordings, alert>>

TerminateApp(id, a) ==
    /\ Lookup(id) # NIL
    /\ session' = Expecting(session.expected /\ a # session.tested)
    /\ LET o == IF Running(apps, a) THEN Terminate(apps, a) ELSE Outcome(apps, TRUE) IN
        /\ apps' = o.apps
        /\ response' = IF o.ok THEN "ok" ELSE "error"
    /\ UNCHANGED <<created, config, monitors, promise, recordings, alert>>

\* Without a bundle identifier the device picks the application.
OpenURLCommand(id, a) ==
    /\ Lookup(id) # NIL
    /\ \E o \in OpenURL(apps, a) :
        /\ apps' = o.apps
        /\ response' = IF o.ok THEN "ok" ELSE "error"
    /\ UNCHANGED <<session, created, config, monitors, promise, recordings, alert>>

\* activeApplication, which most element commands start with.
ActiveApplication ==
    IF session.defaultApp # "auto" /\ apps[session.defaultApp] = "foreground"
    THEN session.defaultApp
    ELSE IF session.tested # NIL /\ apps[session.tested] = "foreground"
    THEN IF config.respect /\ alert = "system" THEN System ELSE session.tested
    ELSE IF session.tested # NIL /\ session.expected /\ ~Running(apps, session.tested)
    THEN "crashed"
    ELSE CHOOSE a \in Apps : apps[a] = "foreground"

FindActiveApplication(id) ==
    /\ Lookup(id) # NIL
    /\ response' = ActiveApplication
    /\ UNCHANGED <<session, created, config, monitors, promise, recordings, apps, alert>>

\* handleSetSettings, in the order of the code: a selector that does not parse
\* ends it after the settings before it.
SetSettings(id, q) ==
    /\ Lookup(id) # NIL
    /\ LET named == [session EXCEPT !.defaultApp =
                        IF q.defaultApp = NIL THEN @ ELSE q.defaultApp]
           clicked == IF q.selector = "empty"
                      THEN {DisableAlertsMonitor(named, monitors)}
                      ELSE IF q.selector = "valid"
                      THEN EnableAlertsMonitor(named, monitors)
                      ELSE {[session |-> named, monitors |-> monitors]}
           acted == q.selector # "invalid" /\ q.action # NIL
       IN  \E e \in clicked :
            /\ session' = [e.session EXCEPT !.action = IF acted THEN q.action ELSE @]
            /\ monitors' = e.monitors
    /\ config' = [terminate |-> config.terminate,
                  respect |-> IF q.respect = NIL THEN config.respect ELSE q.respect,
                  selector |-> CASE q.selector = "valid" -> TRUE
                                 [] q.selector = "empty" -> FALSE
                                 [] OTHER -> config.selector]
    /\ response' = IF q.selector = "invalid" THEN "error" ELSE "ok"
    /\ UNCHANGED <<created, promise, recordings, apps, alert>>

(***************************************************************************)
(* What happens on the device between two blocks of the main queue.         *)
(***************************************************************************)
ChangeApps(s) ==
    /\ apps' = s
    /\ response' = "none"
    /\ UNCHANGED <<session, created, config, monitors, promise, recordings, alert>>

Crash(a) == a # System /\ Running(apps, a) /\ ChangeApps(Stop(apps, a, "dead"))
Suspend(a) == a # System /\ apps[a] = "background"
              /\ ChangeApps([apps EXCEPT ![a] = "suspended"])
ComeToFront(a) == Running(apps, a) /\ apps[a] # "foreground" /\ ChangeApps(Front(apps, a))

AlertChanges ==
    /\ alert' \in {"none", "app", "system"} \ {alert}
    /\ response' = "none"
    /\ UNCHANGED <<session, created, config, monitors, promise, recordings, apps>>

Init ==
    /\ session = NIL
    /\ created = 0
    /\ config = [selector |-> FALSE, terminate |-> TRUE, respect |-> FALSE]
    /\ monitors = [m \in Monitors |-> Unused]
    /\ promise = NIL
    /\ recordings = [r \in Recordings |-> "unused"]
    /\ apps = [a \in Apps |-> IF a = System THEN "foreground" ELSE "terminated"]
    /\ alert = "none"
    /\ response = "none"

Command(id) ==
    \/ DeleteSession(id) \/ StaleRequest(id) \/ FindActiveApplication(id)
    \/ \E a \in Apps : LaunchApp(id, a) \/ ActivateApp(id, a) \/ TerminateApp(id, a)
    \/ \E a \in Apps \cup {NIL} : OpenURLCommand(id, a)
    \/ \E q \in SettingsRequests : SetSettings(id, q)

Environment ==
    \/ \E a \in Apps : Crash(a) \/ Suspend(a) \/ ComeToFront(a)
    \/ AlertChanges

Next ==
    \/ \E c \in Capabilities : CreateSession(c)
    \/ CreateSessionBadly
    \/ \E id \in 1..MaxSessions : Command(id)
    \/ StartVideoRecording \/ StopVideoRecording
    \/ \E m \in Monitors : MonitorFires(m) \/ MonitorTick(m)
    \/ Environment

\* Blocks on the main queue get their turn.
Fairness == \A m \in Monitors : WF_vars(MonitorFires(m)) /\ WF_vars(MonitorTick(m))

Spec == Init /\ [][Next]_vars /\ Fairness
=============================================================================
