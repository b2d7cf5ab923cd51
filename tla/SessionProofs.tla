---------------------------- MODULE SessionProofs ----------------------------
(***************************************************************************)
(* Proofs of the type invariant and of the safety invariants of Session,    *)
(* for any applications, monitors, recordings, capabilities and settings.   *)
(*                                                                          *)
(* The inductive invariant IInv adds to them what they rest on: the home    *)
(* screen runs and something is in front, so that activeApplication always  *)
(* finds an application; and an application that is expected to run was not *)
(* stopped on request.                                                      *)
(***************************************************************************)
EXTENDS SessionProperties, TLAPS

-----------------------------------------------------------------------------
(***************************************************************************)
(* Applications.                                                            *)
(***************************************************************************)
GoodApps(s) ==
    /\ s \in [Apps -> Stages]
    /\ s[System] \in {"background", "foreground"}
    /\ \E a \in Apps : s[a] = "foreground"

\* Only the applications of S are terminated on the way from s to t.
TerminatesOnly(S, s, t) ==
    \A x \in Apps \ S : t[x] = "terminated" => s[x] = "terminated"

Good(o) == GoodApps(o.apps) /\ o.ok \in BOOLEAN

\* An application that comes to the front leaves the others running.
LEMMA FrontGood ==
    ASSUME NEW s, GoodApps(s), NEW a \in Apps
    PROVE  GoodApps(Front(s, a)) /\ TerminatesOnly({}, s, Front(s, a))
<1> DEFINE t == Front(s, a)
<1>1. t \in [Apps -> Stages]
  BY DEF GoodApps, Front, Stages
<1>2. t[a] = "foreground"
  BY DEF Front
<1>3. t[System] \in {"background", "foreground"}
  BY SystemAssumption DEF GoodApps, Front
<1>4. TerminatesOnly({}, s, t)
  BY DEF TerminatesOnly, Front
<1> QED
  BY <1>1, <1>2, <1>3, <1>4 DEF GoodApps

\* An application other than the home screen stops; if it was in front the home
\* screen is there now.
LEMMA StopGood ==
    ASSUME NEW s, GoodApps(s), NEW a \in Apps, a # System, NEW stage \in Stages
    PROVE  /\ GoodApps(Stop(s, a, stage))
           /\ TerminatesOnly({a}, s, Stop(s, a, stage))
           /\ stage # "terminated" => TerminatesOnly({}, s, Stop(s, a, stage))
<1> DEFINE t == Stop(s, a, stage)
<1>1. t \in [Apps -> Stages]
  BY DEF GoodApps, Stop, Stages
<1>2. t[System] \in {"background", "foreground"}
  BY SystemAssumption DEF GoodApps, Stop
<1>3. PICK front \in Apps : s[front] = "foreground"
  BY DEF GoodApps
<1>4. t[front] = "foreground" \/ t[System] = "foreground"
  BY <1>3, SystemAssumption DEF Stop
<1>5. \E x \in Apps : t[x] = "foreground"
  BY <1>4, SystemAssumption
<1>6. TerminatesOnly({a}, s, t)
  BY DEF TerminatesOnly, Stop
<1>7. stage # "terminated" => TerminatesOnly({}, s, t)
  BY DEF TerminatesOnly, Stop
<1> QED
  BY <1>1, <1>2, <1>5, <1>6, <1>7 DEF GoodApps

\* A crash leaves the home screen running and terminates nothing on request.
LEMMA DeadGood ==
    ASSUME NEW s, GoodApps(s), NEW a \in Apps, a # System
    PROVE  /\ GoodApps(Stop(s, a, "dead"))
           /\ TerminatesOnly({}, s, Stop(s, a, "dead"))
<1>1. "dead" \in Stages /\ "dead" # "terminated"
  BY DEF Stages
<1> QED
  BY <1>1, StopGood

\* A termination, refused or not, terminates no other application.
LEMMA TerminateGood ==
    ASSUME NEW s, GoodApps(s), NEW a \in Apps
    PROVE  Good(Terminate(s, a)) /\ TerminatesOnly({a}, s, Terminate(s, a).apps)
<1>1. CASE a \in Unkillable \cup {System}
  BY <1>1 DEF Terminate, Outcome, Good, TerminatesOnly
<1>2. CASE a \notin Unkillable \cup {System}
  <2>1. Terminate(s, a) = Outcome(Stop(s, a, "terminated"), TRUE)
    BY <1>2 DEF Terminate
  <2>2. "terminated" \in Stages
    BY DEF Stages
  <2> QED
    BY <1>2, <2>1, <2>2, StopGood DEF Outcome, Good
<1> QED
  BY <1>1, <1>2

\* Nothing is terminated for good by a launch, which may fail or crash.
LEMMA LaunchGood ==
    ASSUME NEW s, GoodApps(s), NEW a \in Apps, a # System, NEW o \in Launch(s, a)
    PROVE  /\ Good(o) /\ TerminatesOnly({}, s, o.apps)
           /\ o.ok => o.apps[a] # "terminated"
<1>1. CASE o = Outcome(s, FALSE)
  BY <1>1 DEF Outcome, Good, TerminatesOnly
<1>2. CASE o = Outcome(Front(s, a), TRUE)
  <2>1. Front(s, a)[a] = "foreground"
    BY DEF Front
  <2> QED
    BY <1>2, <2>1, FrontGood DEF Outcome, Good
<1>3. CASE \E ok \in BOOLEAN : o = Outcome(Stop(s, a, "dead"), ok)
  <2>1. Stop(s, a, "dead")[a] = "dead"
    BY DEF Stop
  <2>2. GoodApps(Stop(s, a, "dead")) /\ TerminatesOnly({}, s, Stop(s, a, "dead"))
    BY DeadGood
  <2>3. PICK ok \in BOOLEAN : o = Outcome(Stop(s, a, "dead"), ok)
    BY <1>3
  <2>4. o.apps = Stop(s, a, "dead") /\ o.ok = ok
    BY <2>3 DEF Outcome
  <2> QED
    BY <2>1, <2>2, <2>4 DEF Good
<1> QED
  BY <1>1, <1>2, <1>3 DEF Launch

\* An activation terminates nothing, whether it succeeds or fails.
LEMMA ActivateGood ==
    ASSUME NEW s, GoodApps(s), NEW a \in Apps, NEW o \in Activate(s, a)
    PROVE  /\ Good(o) /\ TerminatesOnly({}, s, o.apps)
           /\ o.ok => o.apps[a] # "terminated"
<1>1. CASE o = Outcome(s, FALSE)
  BY <1>1 DEF Outcome, Good, TerminatesOnly
<1>2. CASE o = Outcome(Front(s, a), TRUE)
  <2>1. Front(s, a)[a] = "foreground"
    BY DEF Front
  <2> QED
    BY <1>2, <2>1, FrontGood DEF Outcome, Good
<1> QED
  BY <1>1, <1>2 DEF Activate

\* A URL terminates nothing, whichever application handles it or dies of it.
LEMMA OpenURLGood ==
    ASSUME NEW s, GoodApps(s), NEW a \in Apps \cup {NIL}, NEW o \in OpenURL(s, a)
    PROVE  Good(o) /\ TerminatesOnly({}, s, o.apps)
<1> DEFINE handlers == IF a = NIL THEN Apps ELSE {a}
<1>0. handlers \subseteq Apps
  OBVIOUS
<1>1. CASE o = Outcome(s, FALSE)
  BY <1>1 DEF Outcome, Good, TerminatesOnly
<1>2. CASE \E b \in handlers : o = Outcome(Front(s, b), TRUE)
  <2>1. PICK b \in handlers : o = Outcome(Front(s, b), TRUE)
    BY <1>2
  <2>2. o.apps = Front(s, b) /\ o.ok = TRUE
    BY <2>1 DEF Outcome
  <2> QED
    BY <1>0, <2>2, FrontGood DEF Good
<1>3. CASE \E b \in handlers \ {System} : o = Outcome(Stop(s, b, "dead"), TRUE)
  <2>1. PICK b \in handlers \ {System} : o = Outcome(Stop(s, b, "dead"), TRUE)
    BY <1>3
  <2>2. o.apps = Stop(s, b, "dead") /\ o.ok = TRUE
    BY <2>1 DEF Outcome
  <2>3. b \in Apps /\ b # System
    BY <1>0, <2>1
  <2> QED
    BY <2>2, <2>3, DeadGood DEF Good
<1> QED
  BY <1>1, <1>2, <1>3 DEF OpenURL

\* Whatever the capabilities ask for; the home screen is never launched.
LEMMA OpenedGood ==
    ASSUME NEW s, GoodApps(s), NEW c \in Capabilities, NEW o \in Opened(c, s)
    PROVE  Good(o)
<1>0. c \in AllCapabilities /\ (c.app = System => ~c.force)
  BY CapabilitiesAssumption
<1>1. c.app \in Apps \cup {NIL} /\ c.url \in BOOLEAN
  BY <1>0 DEF AllCapabilities
<1>2. CASE c.app = NIL
  <2>1. CASE c.url
    BY <1>2, <2>1, OpenURLGood DEF Opened
  <2>2. CASE ~c.url
    <3>1. o = Outcome(s, TRUE)
      BY <1>2, <2>2 DEF Opened
    <3>2. o.apps = s /\ o.ok = TRUE
      BY <3>1 DEF Outcome
    <3> QED
      BY <3>2 DEF Good
  <2> QED
    BY <2>1, <2>2
<1>3. CASE c.app # NIL /\ (s[c.app] \notin {"background", "foreground"} \/ c.force)
  <2> DEFINE stopped == IF Running(s, c.app) THEN Terminate(s, c.app) ELSE Outcome(s, TRUE)
             opened == IF ~c.url THEN Launch(s, c.app)
                       ELSE IF stopped.ok THEN OpenURL(stopped.apps, c.app) ELSE {stopped}
  <2>1. c.app \in Apps /\ c.app # System
    BY <1>0, <1>1, <1>3 DEF GoodApps
  <2>2. Good(stopped)
    <3>1. CASE Running(s, c.app)
      <4>1. Good(Terminate(s, c.app))
        BY <2>1, TerminateGood
      <4> QED
        BY <3>1, <4>1
    <3>2. CASE ~Running(s, c.app)
      BY <3>2 DEF Outcome, Good
    <3> QED
      BY <3>1, <3>2
  <2>3. ASSUME NEW p \in opened PROVE Good(p)
    <3>1. CASE ~c.url
      <4>1. p \in Launch(s, c.app)
        BY <2>3, <3>1
      <4> QED
        BY <2>1, <4>1, LaunchGood
    <3>2. CASE c.url /\ stopped.ok
      <4> HIDE DEF stopped
      <4>1. p \in OpenURL(stopped.apps, c.app)
        BY <2>3, <3>2
      <4> QED
        BY <2>1, <2>2, <4>1, OpenURLGood DEF Good
    <3>3. CASE c.url /\ ~stopped.ok
      <4> HIDE DEF stopped
      <4> QED
        BY <2>2, <2>3, <3>3
    <3> QED
      BY <3>1, <3>2, <3>3
  <2>4. Opened(c, s) = {Outcome(p.apps, p.ok /\ Running(p.apps, c.app)) : p \in opened}
    BY <1>3 DEF Opened
  <2> HIDE DEF opened
  <2>5. PICK p \in opened : o = Outcome(p.apps, p.ok /\ Running(p.apps, c.app))
    BY <2>4
  <2> QED
    BY <2>3, <2>5 DEF Outcome, Good
<1>4. CASE c.app # NIL /\ ~(s[c.app] \notin {"background", "foreground"} \/ c.force)
  <2>1. c.app \in Apps
    BY <1>1, <1>4
  <2>2. \/ o = Outcome(s, TRUE)
        \/ o \in OpenURL(s, c.app)
        \/ o \in Activate(s, c.app)
    BY <1>4 DEF Opened
  <2>3. CASE o = Outcome(s, TRUE)
    BY <2>3 DEF Outcome, Good
  <2>4. CASE o \in OpenURL(s, c.app)
    BY <2>1, <2>4, OpenURLGood
  <2>5. CASE o \in Activate(s, c.app)
    BY <2>1, <2>5, ActivateGood
  <2> QED
    BY <2>2, <2>3, <2>4, <2>5
<1> QED
  BY <1>1, <1>2, <1>3, <1>4

-----------------------------------------------------------------------------
(***************************************************************************)
(* The inductive invariant, by the parts of the state it is about.          *)
(***************************************************************************)
SessionOK ==
    /\ session \in Sessions \cup {NIL}
    /\ created \in 0..MaxSessions
    /\ session # NIL => session.id = created

MonitorsOK == monitors \in [Monitors -> MonitorObjects] /\ MonitorOwned

RecordingsOK ==
    /\ promise \in Recordings \cup {NIL}
    /\ recordings \in [Recordings -> {"unused", "running", "finished", "lost"}]
    /\ RecordingKnown

\* An application that is expected to run was not terminated on request.
ExpectedOK ==
    session # NIL /\ session.tested # NIL /\ session.expected
        => apps[session.tested] # "terminated"

OthersOK ==
    /\ config \in Configurations
    /\ alert \in {"none", "app", "system"}
    /\ response \in Responses

IInv ==
    /\ SessionOK /\ MonitorsOK /\ RecordingsOK /\ GoodApps(apps)
    /\ ExpectedOK /\ OthersOK /\ CrashesAreReal

\* The invariant implies what the runs check.
LEMMA Consequences ==
    ASSUME IInv PROVE TypeOK /\ MonitorOwned /\ RecordingKnown /\ CrashesAreReal
BY DEF IInv, SessionOK, MonitorsOK, RecordingsOK, GoodApps, OthersOK, TypeOK

\* The invariant holds when the server starts.
LEMMA Initially == ASSUME Init PROVE IInv
<1> USE NilNowhere, SystemAssumption, MaxSessionsAssumption DEF Init
<1>1. SessionOK
  BY DEF SessionOK
<1>2. MonitorsOK
  BY DEF MonitorsOK, MonitorOwned, MonitorObjects, Unused
<1>3. RecordingsOK
  BY DEF RecordingsOK, RecordingKnown
<1>4. GoodApps(apps)
  BY DEF GoodApps, Stages
<1>5. ExpectedOK
  BY DEF ExpectedOK
<1>6. OthersOK
  BY DEF OthersOK, Configurations, Responses
<1>7. CrashesAreReal
  BY DEF CrashesAreReal
<1> QED
  BY <1>1, <1>2, <1>3, <1>4, <1>5, <1>6, <1>7 DEF IInv

-----------------------------------------------------------------------------
(***************************************************************************)
(* Monitors.                                                                *)
(***************************************************************************)
\* MonitorOwned of a session s and monitors ms that are not the current ones.
Owned(s, ms) ==
    /\ \A m \in Monitors : ms[m].monitoring =>
          /\ s # NIL /\ s.monitor = m
          /\ ms[m].delegate = s.id
          /\ ms[m].pending # "none"
    /\ s # NIL /\ s.monitor # NIL => ms[s.monitor].monitoring

Resting(ms) == \A m \in Monitors : ~ms[m].monitoring

\* A scheduled tick keeps the switch and the delegate of its monitor, and a
\* monitor that is on gets a block.
LEMMA ScheduleType ==
    ASSUME NEW m \in MonitorObjects
    PROVE  /\ ScheduleNextTick(m) \in MonitorObjects
           /\ ScheduleNextTick(m).monitoring = m.monitoring
           /\ ScheduleNextTick(m).delegate = m.delegate
           /\ m.monitoring => ScheduleNextTick(m).pending # "none"
BY DEF ScheduleNextTick, MonitorObjects

\* enableAlertsMonitor leaves the monitors to the session.
LEMMA EnableGood ==
    ASSUME NEW s \in Sessions, NEW ms \in [Monitors -> MonitorObjects], Owned(s, ms),
           NEW e \in EnableAlertsMonitor(s, ms)
    PROVE  /\ e.session \in Sessions /\ e.monitors \in [Monitors -> MonitorObjects]
           /\ Owned(e.session, e.monitors)
           /\ e.session.id = s.id /\ e.session.tested = s.tested
           /\ e.session.expected = s.expected
<1>1. CASE s.monitor # NIL
  <2>1. e = [session |-> s, monitors |-> ms]
    BY <1>1 DEF EnableAlertsMonitor
  <2> QED
    BY <2>1
<1>2. CASE s.monitor = NIL
  <2> DEFINE new == [monitoring |-> TRUE, delegate |-> s.id, pending |-> "none"]
  <2>1. PICK m \in FreeMonitors(ms) :
           e = [session |-> [s EXCEPT !.monitor = m],
                monitors |-> [ms EXCEPT ![m] = ScheduleNextTick(new)]]
    BY <1>2 DEF EnableAlertsMonitor
  <2>2. m \in Monitors /\ m # NIL
    BY NilNowhere DEF FreeMonitors
  <2>3. s.id \in 1..MaxSessions
    BY DEF Sessions
  <2>4. new \in MonitorObjects /\ new.monitoring /\ new.delegate = s.id
    BY <2>3, MaxSessionsAssumption DEF MonitorObjects
  <2> HIDE DEF new
  <2> DEFINE tick == ScheduleNextTick(new)
  <2>5. /\ tick \in MonitorObjects /\ tick.monitoring
        /\ tick.delegate = s.id /\ tick.pending # "none"
    BY <2>4, ScheduleType
  <2> HIDE DEF tick
  <2>6. e.session = [s EXCEPT !.monitor = m] /\ e.monitors = [ms EXCEPT ![m] = tick]
    BY <2>1 DEF tick
  <2>7. /\ e.session \in Sessions /\ e.session.monitor = m /\ e.session.id = s.id
        /\ e.session.tested = s.tested /\ e.session.expected = s.expected
    BY <2>2, <2>6 DEF Sessions
  <2>8. e.monitors \in [Monitors -> MonitorObjects]
    BY <2>2, <2>5, <2>6
  <2>9. \A x \in Monitors : ~ms[x].monitoring
    BY <1>2, NilNowhere DEF Owned
  <2>10. Owned(e.session, e.monitors)
    <3> DEFINE u == e.session
               us == e.monitors
    <3>1. us[m] = tick /\ \A x \in Monitors \ {m} : us[x] = ms[x]
      BY <2>2, <2>6
    <3>2. u # NIL
      BY <2>7, NilNoSession
    <3> HIDE DEF u, us
    <3>3. u.monitor = m /\ u.id = s.id
      BY <2>7 DEF u
    <3>4. Owned(u, us)
      BY <2>2, <2>5, <2>9, <3>1, <3>2, <3>3 DEF Owned
    <3> QED
      BY <3>4 DEF u, us
  <2> QED
    BY <2>7, <2>8, <2>10
<1> QED
  BY <1>1, <1>2

\* disableAlertsMonitor switches off the only monitor that may be on.
LEMMA DisableGood ==
    ASSUME NEW s \in Sessions, NEW ms \in [Monitors -> MonitorObjects], Owned(s, ms)
    PROVE  LET e == DisableAlertsMonitor(s, ms) IN
           /\ e.session \in Sessions /\ e.monitors \in [Monitors -> MonitorObjects]
           /\ Resting(e.monitors) /\ e.session.monitor = NIL
           /\ e.session.id = s.id /\ e.session.tested = s.tested
           /\ e.session.expected = s.expected
<1> DEFINE e == DisableAlertsMonitor(s, ms)
           off == [m \in Monitors |->
                     IF m = s.monitor
                     THEN [monitoring |-> FALSE, delegate |-> ms[m].delegate,
                           pending |-> ms[m].pending]
                     ELSE ms[m]]
<1>1. e.session = [s EXCEPT !.monitor = NIL] /\ e.monitors = off
  BY DEF DisableAlertsMonitor
<1>2. off \in [Monitors -> MonitorObjects]
  BY DEF MonitorObjects
<1>3. Resting(off)
  BY NilNoSession DEF Resting, Owned
<1>4. /\ e.session \in Sessions /\ e.session.monitor = NIL
      /\ e.session.id = s.id /\ e.session.tested = s.tested
      /\ e.session.expected = s.expected
  BY <1>1 DEF Sessions
<1> HIDE DEF e, off
<1> QED
  BY <1>1, <1>2, <1>3, <1>4 DEF e

\* The end of a session leaves all monitors off, and none was on without one.
LEMMA KilledMonitorsRest ==
    ASSUME IInv
    PROVE  KilledMonitors \in [Monitors -> MonitorObjects] /\ Resting(KilledMonitors)
<1>1. CASE session = NIL
  BY <1>1 DEF IInv, MonitorsOK, MonitorOwned, KilledMonitors, Resting
<1>2. CASE session # NIL
  <2> DEFINE ms == DisableAlertsMonitor(session, monitors).monitors
  <2>1. session \in Sessions /\ Owned(session, monitors)
    BY <1>2 DEF IInv, SessionOK, MonitorsOK, MonitorOwned, Owned
  <2>2. ms \in [Monitors -> MonitorObjects] /\ Resting(ms)
    BY <2>1, DisableGood DEF IInv, MonitorsOK
  <2> HIDE DEF ms
  <2>3. Released(session, ms) \in [Monitors -> MonitorObjects]
    BY <2>2, MaxSessionsAssumption DEF Released, MonitorObjects
  <2>4. Resting(Released(session, ms))
    BY <2>2 DEF Released, Resting
  <2> QED
    BY <1>2, <2>3, <2>4 DEF KilledMonitors, ms
<1> QED
  BY <1>1, <1>2

\* The end of a session may terminate its application but nothing else.
LEMMA KilledAppsGood ==
    ASSUME IInv PROVE GoodApps(KilledApps)
<1>1. CASE KilledApps = apps
  BY <1>1 DEF IInv
<1>2. CASE KilledApps # apps
  <2>1. session # NIL /\ session.tested # NIL
    BY <1>2 DEF KilledApps
  <2>2. session.tested \in Apps
    BY <2>1 DEF IInv, SessionOK, Sessions
  <2>3. KilledApps = Terminate(apps, session.tested).apps
    BY <1>2 DEF KilledApps
  <2> QED
    BY <2>2, <2>3, TerminateGood DEF IInv, Good
<1> QED
  BY <1>1, <1>2

\* Resting monitors belong to no session, or to one without a monitor.
LEMMA RestingOwned ==
    ASSUME NEW s, NEW ms, Resting(ms), s = NIL \/ s.monitor = NIL
    PROVE  Owned(s, ms)
BY DEF Resting, Owned

-----------------------------------------------------------------------------
(***************************************************************************)
(* Recordings.                                                              *)
(***************************************************************************)
\* What stops the known recording leaves no running one.
LEMMA StopGoodRecording ==
    ASSUME RecordingsOK, NEW fails \in BOOLEAN,
           recordings' = StopRecording(fails), promise' = NIL
    PROVE  RecordingsOK'
BY NilNowhere DEF RecordingsOK, RecordingKnown, StopRecording

\* The end of a session stops the known recording; without a session it goes on.
LEMMA KillGood ==
    ASSUME RecordingsOK, NEW fails \in BOOLEAN, Kill(fails) PROVE RecordingsOK'
<1>1. CASE session = NIL
  BY <1>1 DEF Kill, RecordingsOK, RecordingKnown
<1>2. CASE session # NIL
  BY <1>2, StopGoodRecording DEF Kill
<1> QED
  BY <1>1, <1>2

-----------------------------------------------------------------------------
(***************************************************************************)
(* The steps.  Each lemma of this part says that one kind of step keeps     *)
(* IInv.                                                                    *)
(***************************************************************************)
\* A command runs only when its session is the active one.
LEMMA ActiveSession ==
    ASSUME IInv, NEW id, Lookup(id) # NIL
    PROVE  session # NIL /\ session \in Sessions /\ session.id = created
BY DEF Lookup, IInv, SessionOK

\* A step that only changes applications, and terminates none of them.
LEMMA AppsChange ==
    ASSUME IInv, GoodApps(apps'), TerminatesOnly({}, apps, apps'),
           response' \in Responses \ {"crashed"},
           UNCHANGED <<session, created, config, monitors, promise, recordings, alert>>
    PROVE  IInv'
<1>1. SessionOK' /\ MonitorsOK' /\ RecordingsOK' /\ OthersOK' /\ CrashesAreReal'
  BY DEF IInv, SessionOK, MonitorsOK, MonitorOwned, RecordingsOK, RecordingKnown,
         OthersOK, CrashesAreReal
<1>2. session # NIL /\ session.tested # NIL => session.tested \in Apps
  BY DEF IInv, SessionOK, Sessions
<1>3. ExpectedOK'
  BY <1>2 DEF IInv, ExpectedOK, TerminatesOnly
<1> QED
  BY <1>1, <1>3 DEF IInv

\* The active session ends and none takes its place.
LEMMA EndsGood ==
    ASSUME IInv, NEW fails \in BOOLEAN, Kill(fails), monitors' = KilledMonitors,
           GoodApps(apps'), session' = NIL, config' \in Configurations,
           response' \in Responses \ {"crashed"}, UNCHANGED <<created, alert>>
    PROVE  IInv'
<1>1. SessionOK'
  BY DEF IInv, SessionOK
<1>2. MonitorsOK'
  BY KilledMonitorsRest DEF MonitorsOK, MonitorOwned, Resting
<1>3. RecordingsOK'
  BY KillGood DEF IInv
<1>4. ExpectedOK' /\ OthersOK' /\ CrashesAreReal'
  BY DEF IInv, ExpectedOK, OthersOK, CrashesAreReal
<1> QED
  BY <1>1, <1>2, <1>3, <1>4 DEF IInv

\* DELETE /session/:id.
LEMMA DeleteSessionStep ==
    ASSUME IInv, NEW id, DeleteSession(id) PROVE IInv'
<1>1. PICK fails \in BOOLEAN : Kill(fails)
  BY DEF DeleteSession
<1>2. GoodApps(apps')
  BY KilledAppsGood DEF DeleteSession
<1>3. config' \in Configurations /\ response' \in Responses \ {"crashed"}
  BY NilNowhere DEF DeleteSession, IInv, OthersOK, Responses
<1> QED
  BY <1>1, <1>2, <1>3, EndsGood DEF DeleteSession

\* POST /session without valid capabilities.
LEMMA CreateSessionBadlyStep ==
    ASSUME IInv, CreateSessionBadly PROVE IInv'
<1>1. PICK fails \in BOOLEAN : Kill(fails)
  BY DEF CreateSessionBadly
<1>2. GoodApps(apps')
  BY KilledAppsGood DEF CreateSessionBadly
<1>3. config' \in Configurations /\ response' \in Responses \ {"crashed"}
  BY NilNowhere DEF CreateSessionBadly, IInv, OthersOK, Responses
<1> QED
  BY <1>1, <1>2, <1>3, EndsGood DEF CreateSessionBadly

\* POST /session: the new session, if there is one, takes over resting monitors.
LEMMA CreateSessionStep ==
    ASSUME IInv, NEW c \in Capabilities, CreateSession(c) PROVE IInv'
<1>1. PICK fails \in BOOLEAN : Kill(fails)
  BY DEF CreateSession
<1>2. PICK o \in Opened(c, KilledApps) :
        /\ config' = SessionConfig(c)
        /\ apps' = o.apps
        /\ IF o.ok
           THEN LET new == NewSession(c, o.apps) IN
                /\ created' = created + 1
                /\ \E e \in IF c.action = NIL
                            THEN {[session |-> new, monitors |-> KilledMonitors]}
                            ELSE EnableAlertsMonitor(new, KilledMonitors) :
                      session' = e.session /\ monitors' = e.monitors
                /\ response' = "created"
           ELSE /\ session' = NIL
                /\ monitors' = KilledMonitors
                /\ response' = "not created"
                /\ UNCHANGED created
  BY DEF CreateSession
<1>3. Good(o)
  BY KilledAppsGood, OpenedGood
<1>4. c \in AllCapabilities
  BY CapabilitiesAssumption
<1>5. config' \in Configurations
  BY <1>2, <1>4 DEF SessionConfig, AllCapabilities, Configurations, IInv, OthersOK
<1>6. GoodApps(apps') /\ alert' = alert
  BY <1>2, <1>3 DEF Good, CreateSession
<1>7. response' \in Responses \ {"crashed"}
  BY <1>2 DEF Responses
<1>8. CASE ~o.ok
  BY <1>1, <1>2, <1>5, <1>6, <1>7, <1>8, EndsGood
<1>9. CASE o.ok
  <2> DEFINE new == NewSession(c, o.apps)
  <2>1. PICK e \in IF c.action = NIL
                   THEN {[session |-> new, monitors |-> KilledMonitors]}
                   ELSE EnableAlertsMonitor(new, KilledMonitors) :
            session' = e.session /\ monitors' = e.monitors
    BY <1>2, <1>9
  <2>2. created' = created + 1 /\ created' \in 1..MaxSessions
    BY <1>2, <1>9, MaxSessionsAssumption DEF CreateSession, IInv, SessionOK
  <2>3. /\ new \in Sessions /\ new.id = created' /\ new.monitor = NIL
        /\ new.tested = c.app
        /\ new.expected = (c.app # NIL /\ Running(o.apps, c.app))
    BY <1>4, <2>2 DEF NewSession, Sessions, AllCapabilities, AlertActions
  <2> HIDE DEF new
  <2>4. KilledMonitors \in [Monitors -> MonitorObjects] /\ Owned(new, KilledMonitors)
    BY <2>3, KilledMonitorsRest, RestingOwned
  <2>5. /\ e.session \in Sessions /\ e.monitors \in [Monitors -> MonitorObjects]
        /\ Owned(e.session, e.monitors)
        /\ e.session.id = new.id /\ e.session.tested = new.tested
        /\ e.session.expected = new.expected
    <3>1. CASE c.action = NIL
      <4>1. e = [session |-> new, monitors |-> KilledMonitors]
        BY <2>1, <3>1
      <4> QED
        BY <2>3, <2>4, <4>1
    <3>2. CASE c.action # NIL
      <4>1. e \in EnableAlertsMonitor(new, KilledMonitors)
        BY <2>1, <3>2
      <4> QED
        BY <2>3, <2>4, <4>1, EnableGood
    <3> QED
      BY <3>1, <3>2
  <2>6. SessionOK'
    BY <2>1, <2>2, <2>3, <2>5, MaxSessionsAssumption DEF SessionOK
  <2>7. Owned(session', monitors') /\ monitors' \in [Monitors -> MonitorObjects]
    BY <2>1, <2>5
  <2>8. MonitorsOK'
    BY <2>7 DEF MonitorsOK, MonitorOwned, Owned
  <2>9. ExpectedOK'
    BY <1>2, <2>1, <2>3, <2>5 DEF ExpectedOK, Running, NotRunning
  <2>10. RecordingsOK'
    BY <1>1, KillGood DEF IInv
  <2>11. OthersOK' /\ CrashesAreReal'
    BY <1>2, <1>5, <1>6, <1>7, <1>9 DEF IInv, OthersOK, CrashesAreReal
  <2> QED
    BY <1>6, <2>6, <2>8, <2>9, <2>10, <2>11 DEF IInv
<1> QED
  BY <1>8, <1>9

\* A command of a session that is not the active one changes nothing.
LEMMA StaleRequestStep ==
    ASSUME IInv, NEW id, StaleRequest(id) PROVE IInv'
<1>1. response' \in Responses \ {"crashed"}
  BY DEF StaleRequest, Responses
<1>2. GoodApps(apps') /\ TerminatesOnly({}, apps, apps')
  BY DEF StaleRequest, IInv, TerminatesOnly
<1> QED
  BY <1>1, <1>2, AppsChange DEF StaleRequest

\* An activation of any application.
LEMMA ActivateAppStep ==
    ASSUME IInv, NEW id, NEW a \in Apps, ActivateApp(id, a) PROVE IInv'
<1>1. PICK o \in Activate(apps, a) :
        apps' = o.apps /\ response' = IF o.ok THEN "ok" ELSE "error"
  BY DEF ActivateApp
<1>2. GoodApps(apps') /\ TerminatesOnly({}, apps, apps')
  BY <1>1, ActivateGood DEF IInv, Good
<1>3. response' \in Responses \ {"crashed"}
  BY <1>1 DEF Responses
<1> QED
  BY <1>2, <1>3, AppsChange DEF ActivateApp

\* A URL opened by a command of the session.
LEMMA OpenURLStep ==
    ASSUME IInv, NEW id, NEW a \in Apps \cup {NIL}, OpenURLCommand(id, a) PROVE IInv'
<1>1. PICK o \in OpenURL(apps, a) :
        apps' = o.apps /\ response' = IF o.ok THEN "ok" ELSE "error"
  BY DEF OpenURLCommand
<1>2. GoodApps(apps') /\ TerminatesOnly({}, apps, apps')
  BY <1>1, OpenURLGood DEF IInv, Good
<1>3. response' \in Responses \ {"crashed"}
  BY <1>1 DEF Responses
<1> QED
  BY <1>2, <1>3, AppsChange DEF OpenURLCommand

\* activeApplication always finds one, and blames a crash on the tested
\* application only if it is dead.
LEMMA FindActiveApplicationStep ==
    ASSUME IInv, NEW id, FindActiveApplication(id) PROVE IInv'
<1>1. session # NIL /\ session \in Sessions
  BY ActiveSession DEF FindActiveApplication
<1>2. session.tested \in Apps \cup {NIL} /\ session.defaultApp \in Apps \cup {"auto"}
  BY <1>1 DEF Sessions
<1>3. (CHOOSE a \in Apps : apps[a] = "foreground") \in Apps
  BY DEF IInv, GoodApps
<1>4. \/ ActiveApplication \in Apps
      \/ /\ ActiveApplication = "crashed"
         /\ session.tested # NIL /\ session.expected /\ ~Running(apps, session.tested)
  BY <1>2, <1>3, SystemAssumption DEF ActiveApplication
<1>5. response' = ActiveApplication
  BY DEF FindActiveApplication
<1>6. response' \in Responses
  BY <1>4, <1>5 DEF Responses
<1>7. CrashesAreReal'
  <2>1. CASE response' \in Apps
    BY <2>1, NilNowhere DEF CrashesAreReal
  <2>2. CASE session.tested # NIL /\ session.expected /\ ~Running(apps, session.tested)
    BY <1>1, <2>2 DEF IInv, ExpectedOK, Running, NotRunning, CrashesAreReal,
                      FindActiveApplication
  <2> QED
    BY <1>4, <1>5, <2>1, <2>2
<1>8. SessionOK' /\ MonitorsOK' /\ RecordingsOK' /\ GoodApps(apps') /\ ExpectedOK'
  BY DEF FindActiveApplication, IInv, SessionOK, MonitorsOK, MonitorOwned,
         RecordingsOK, RecordingKnown, ExpectedOK
<1>9. OthersOK'
  BY <1>6 DEF FindActiveApplication, IInv, OthersOK
<1> QED
  BY <1>7, <1>8, <1>9 DEF IInv

\* A command that changes applications and whether the tested one is expected.
LEMMA ExpectationChanges ==
    ASSUME IInv, session # NIL, NEW expected \in BOOLEAN,
           session' = Expecting(expected), GoodApps(apps'),
           session.tested # NIL /\ expected => apps'[session.tested] # "terminated",
           response' \in Responses \ {"crashed"},
           UNCHANGED <<created, config, monitors, promise, recordings, alert>>
    PROVE  IInv' /\ session' # NIL
<1>1. session \in Sessions /\ session.id = created
  BY DEF IInv, SessionOK
<1>2. /\ session' \in Sessions /\ session'.id = session.id
      /\ session'.tested = session.tested /\ session'.expected = expected
      /\ session'.monitor = session.monitor
  BY <1>1 DEF Expecting, Sessions
<1>3. session' # NIL
  BY <1>2, NilNoSession
<1>4. SessionOK'
  BY <1>1, <1>2 DEF IInv, SessionOK
<1>5. MonitorsOK'
  BY <1>2, <1>3 DEF IInv, MonitorsOK, MonitorOwned
<1>6. RecordingsOK' /\ OthersOK' /\ CrashesAreReal'
  BY DEF IInv, RecordingsOK, RecordingKnown, OthersOK, CrashesAreReal
<1>7. ExpectedOK'
  BY <1>2 DEF ExpectedOK
<1> QED
  BY <1>3, <1>4, <1>5, <1>6, <1>7 DEF IInv

\* The home screen always runs, so that it is never launched.
LEMMA LaunchAppStep ==
    ASSUME IInv, NEW id, NEW a \in Apps, LaunchApp(id, a)
    PROVE  IInv' /\ session' # NIL
<1>1. session # NIL /\ session \in Sessions
  BY ActiveSession DEF LaunchApp
<1>2. PICK o \in IF Running(apps, a) THEN Activate(apps, a) ELSE Launch(apps, a) :
        /\ apps' = o.apps
        /\ session' = Expecting(session.expected \/ (o.ok /\ a = session.tested))
        /\ response' = IF o.ok THEN "ok" ELSE "error"
  BY DEF LaunchApp
<1>3. /\ Good(o) /\ TerminatesOnly({}, apps, o.apps)
      /\ o.ok => o.apps[a] # "terminated"
  <2>1. CASE Running(apps, a)
    <3>1. o \in Activate(apps, a)
      BY <1>2, <2>1
    <3> QED
      BY <3>1, ActivateGood DEF IInv
  <2>2. CASE ~Running(apps, a)
    <3>1. o \in Launch(apps, a)
      BY <1>2, <2>2
    <3>2. a # System
      BY <2>2 DEF IInv, GoodApps, Running, NotRunning
    <3> QED
      BY <3>1, <3>2, LaunchGood DEF IInv
  <2> QED
    BY <2>1, <2>2
<1> DEFINE expected == session.expected \/ (o.ok /\ a = session.tested)
<1>4. expected \in BOOLEAN /\ session.tested \in Apps \cup {NIL}
  BY <1>1, <1>3 DEF Good, Sessions
<1>5. session.tested # NIL /\ expected => apps'[session.tested] # "terminated"
  BY <1>1, <1>2, <1>3, <1>4 DEF IInv, ExpectedOK, TerminatesOnly
<1>6. response' \in Responses \ {"crashed"}
  BY <1>2 DEF Responses
<1>7. session' = Expecting(expected) /\ GoodApps(apps')
  BY <1>2, <1>3 DEF Good
<1> HIDE DEF expected
<1> QED
  BY <1>1, <1>4, <1>5, <1>6, <1>7, ExpectationChanges DEF LaunchApp

\* An application terminated on request is not expected to run any more.
LEMMA TerminateAppStep ==
    ASSUME IInv, NEW id, NEW a \in Apps, TerminateApp(id, a)
    PROVE  IInv' /\ session' # NIL
<1>1. session # NIL /\ session \in Sessions
  BY ActiveSession DEF TerminateApp
<1> DEFINE o == IF Running(apps, a) THEN Terminate(apps, a) ELSE Outcome(apps, TRUE)
           expected == session.expected /\ a # session.tested
<1>2. /\ apps' = o.apps /\ session' = Expecting(expected)
      /\ response' = IF o.ok THEN "ok" ELSE "error"
  BY DEF TerminateApp
<1>3. GoodApps(o.apps) /\ TerminatesOnly({a}, apps, o.apps)
  <2>1. CASE Running(apps, a)
    BY <2>1, TerminateGood DEF IInv, Good
  <2>2. CASE ~Running(apps, a)
    BY <2>2 DEF IInv, Outcome, TerminatesOnly
  <2> QED
    BY <2>1, <2>2
<1> HIDE DEF o
<1>4. expected \in BOOLEAN /\ session.tested \in Apps \cup {NIL}
  BY <1>1 DEF Sessions
<1>5. session.tested # NIL /\ expected => apps'[session.tested] # "terminated"
  BY <1>1, <1>2, <1>3, <1>4 DEF IInv, ExpectedOK, TerminatesOnly
<1>6. response' \in Responses \ {"crashed"}
  BY <1>2 DEF Responses
<1>7. session' = Expecting(expected) /\ GoodApps(apps')
  BY <1>2, <1>3
<1> HIDE DEF expected
<1> QED
  BY <1>1, <1>4, <1>5, <1>6, <1>7, ExpectationChanges DEF TerminateApp

\* The settings leave the monitors to the session: they switch its monitor on,
\* off, or leave it alone.
LEMMA SetSettingsStep ==
    ASSUME IInv, NEW id, NEW q \in SettingsRequests, SetSettings(id, q)
    PROVE  IInv' /\ session' # NIL
<1>1. session # NIL /\ session \in Sessions /\ session.id = created
  BY ActiveSession DEF SetSettings
<1>2. q \in AllSettings
  BY SettingsAssumption
<1> DEFINE named == [session EXCEPT !.defaultApp =
                        IF q.defaultApp = NIL THEN @ ELSE q.defaultApp]
           clicked == IF q.selector = "empty"
                      THEN {DisableAlertsMonitor(named, monitors)}
                      ELSE IF q.selector = "valid"
                      THEN EnableAlertsMonitor(named, monitors)
                      ELSE {[session |-> named, monitors |-> monitors]}
           acted == q.selector # "invalid" /\ q.action # NIL
<1>3. PICK e \in clicked :
            /\ session' = [e.session EXCEPT !.action = IF acted THEN q.action ELSE @]
            /\ monitors' = e.monitors
  BY DEF SetSettings
<1>4. /\ named \in Sessions /\ named.id = session.id /\ named.monitor = session.monitor
      /\ named.tested = session.tested /\ named.expected = session.expected
  BY <1>1, <1>2 DEF Sessions, AllSettings
<1> HIDE DEF named
<1>5. Owned(named, monitors) /\ monitors \in [Monitors -> MonitorObjects] /\ named # NIL
  BY <1>1, <1>4, NilNoSession DEF IInv, MonitorsOK, MonitorOwned, Owned
<1>6. /\ e.session \in Sessions /\ e.monitors \in [Monitors -> MonitorObjects]
      /\ Owned(e.session, e.monitors)
      /\ e.session.id = session.id /\ e.session.tested = session.tested
      /\ e.session.expected = session.expected
  <2>1. CASE q.selector = "empty"
    <3>1. e = DisableAlertsMonitor(named, monitors)
      BY <1>3, <2>1
    <3>2. Owned(e.session, e.monitors)
      BY <1>4, <1>5, <3>1, DisableGood, RestingOwned
    <3> QED
      BY <1>4, <1>5, <3>1, <3>2, DisableGood
  <2>2. CASE q.selector = "valid"
    <3>1. e \in EnableAlertsMonitor(named, monitors)
      BY <1>3, <2>2
    <3> QED
      BY <1>4, <1>5, <3>1, EnableGood
  <2>3. CASE q.selector \notin {"empty", "valid"}
    <3>1. e = [session |-> named, monitors |-> monitors]
      BY <1>3, <2>3
    <3> QED
      BY <1>4, <1>5, <3>1
  <2> QED
    BY <2>1, <2>2, <2>3
<1> HIDE DEF clicked
<1>7. acted => q.action \in AlertActions
  BY <1>2 DEF AllSettings
<1> HIDE DEF acted
<1>8. /\ session' \in Sessions /\ session'.id = created
      /\ session'.tested = session.tested /\ session'.expected = session.expected
      /\ session'.monitor = e.session.monitor
  BY <1>1, <1>3, <1>6, <1>7 DEF Sessions
<1>9. e.session # NIL /\ session' # NIL
  BY <1>6, <1>8, NilNoSession
<1>10. Owned(session', monitors')
  BY <1>1, <1>3, <1>6, <1>8, <1>9 DEF Owned
<1>11. MonitorsOK'
  BY <1>3, <1>6, <1>10 DEF MonitorsOK, MonitorOwned, Owned
<1>12. SessionOK'
  BY <1>8 DEF SetSettings, IInv, SessionOK
<1>13. config' \in Configurations
  BY <1>2 DEF SetSettings, AllSettings, IInv, OthersOK, Configurations
<1>14. response' \in Responses \ {"crashed"}
  BY DEF SetSettings, Responses
<1>15. RecordingsOK' /\ GoodApps(apps') /\ OthersOK' /\ CrashesAreReal'
  BY <1>13, <1>14 DEF SetSettings, IInv, RecordingsOK, RecordingKnown, OthersOK,
                      CrashesAreReal
<1>16. ExpectedOK'
  BY <1>1, <1>8 DEF SetSettings, IInv, ExpectedOK
<1> QED
  BY <1>9, <1>11, <1>12, <1>15, <1>16 DEF IInv

\* A recording starts only when none is known.
LEMMA StartVideoRecordingStep ==
    ASSUME IInv, StartVideoRecording PROVE IInv'
<1>1. RecordingsOK'
  <2>1. CASE UNCHANGED <<promise, recordings>>
    BY <2>1 DEF IInv, RecordingsOK, RecordingKnown
  <2>2. CASE promise = NIL /\ \E r \in Recordings :
               recordings' = [recordings EXCEPT ![r] = "running"] /\ promise' = r
    BY <2>2, NilNowhere DEF IInv, RecordingsOK, RecordingKnown
  <2> QED
    BY <2>1, <2>2 DEF StartVideoRecording
<1>2. response' \in Responses \ {"crashed"}
  BY DEF StartVideoRecording, Responses
<1> QED
  BY <1>1, <1>2 DEF StartVideoRecording, IInv, SessionOK, MonitorsOK, MonitorOwned,
                    ExpectedOK, OthersOK, CrashesAreReal

\* The container forgets the recording, stopped or lost.
LEMMA StopVideoRecordingStep ==
    ASSUME IInv, StopVideoRecording PROVE IInv'
<1>1. PICK fails \in BOOLEAN :
        recordings' = StopRecording(fails) /\ promise' = NIL
        /\ response' = IF fails /\ promise # NIL THEN "error" ELSE "ok"
  BY DEF StopVideoRecording
<1>2. RecordingsOK'
  BY <1>1, StopGoodRecording DEF IInv
<1>3. response' \in Responses \ {"crashed"}
  BY <1>1 DEF Responses
<1> QED
  BY <1>2, <1>3 DEF StopVideoRecording, IInv, SessionOK, MonitorsOK, MonitorOwned,
                    ExpectedOK, OthersOK, CrashesAreReal

\* A step of monitor m keeps its switch and its delegate, and a block if it is on.
LEMMA MonitorStep ==
    ASSUME IInv, NEW m \in Monitors, NEW n \in MonitorObjects,
           monitors' = [monitors EXCEPT ![m] = n],
           n.monitoring = monitors[m].monitoring, n.delegate = monitors[m].delegate,
           n.monitoring => n.pending # "none",
           UNCHANGED <<session, created, config, promise, recordings, apps>>,
           response' \in {"none", "touched", "threw"}, alert' \in {alert, "none"}
    PROVE  IInv'
<1>1. monitors \in [Monitors -> MonitorObjects]
  BY DEF IInv, MonitorsOK
<1>2. monitors' \in [Monitors -> MonitorObjects]
  BY <1>1
<1>3. \A x \in Monitors :
         /\ monitors'[x].monitoring = monitors[x].monitoring
         /\ monitors'[x].delegate = monitors[x].delegate
         /\ monitors'[x].monitoring /\ monitors[x].pending # "none"
               => monitors'[x].pending # "none"
  BY <1>1
<1>4. session # NIL /\ session.monitor # NIL => session.monitor \in Monitors
  BY DEF IInv, SessionOK, Sessions
<1>5. MonitorsOK'
  BY <1>2, <1>3, <1>4 DEF IInv, MonitorsOK, MonitorOwned
<1>6. SessionOK' /\ RecordingsOK' /\ GoodApps(apps') /\ ExpectedOK'
  BY DEF IInv, SessionOK, RecordingsOK, RecordingKnown, ExpectedOK
<1>7. OthersOK' /\ CrashesAreReal'
  BY DEF IInv, OthersOK, CrashesAreReal, Responses
<1> QED
  BY <1>5, <1>6, <1>7 DEF IInv

\* The block a monitor scheduled runs.
LEMMA MonitorFiresStep ==
    ASSUME IInv, NEW m \in Monitors, MonitorFires(m) PROVE IInv'
<1> DEFINE n == ScheduleNextTick(monitors[m])
<1>1. monitors[m] \in MonitorObjects
  BY DEF IInv, MonitorsOK
<1>2. /\ n \in MonitorObjects /\ n.monitoring = monitors[m].monitoring
      /\ n.delegate = monitors[m].delegate /\ (n.monitoring => n.pending # "none")
  BY <1>1, ScheduleType
<1>3. monitors' = [monitors EXCEPT ![m] = n]
  BY DEF MonitorFires
<1> HIDE DEF n
<1> QED
  BY <1>2, <1>3, MonitorStep DEF MonitorFires

\* A tick runs, whatever it finds on the screen.
LEMMA MonitorTickStep ==
    ASSUME IInv, NEW m \in Monitors, MonitorTick(m) PROVE IInv'
<1> DEFINE n == [monitors[m] EXCEPT !.pending =
                    IF monitors[m].monitoring THEN "schedule" ELSE "none"]
<1>1. monitors[m] \in MonitorObjects
  BY DEF IInv, MonitorsOK
<1>2. /\ n \in MonitorObjects /\ n.monitoring = monitors[m].monitoring
      /\ n.delegate = monitors[m].delegate /\ (n.monitoring => n.pending # "none")
  BY <1>1 DEF MonitorObjects
<1>3. monitors' = [monitors EXCEPT ![m] = n]
  BY <1>1 DEF MonitorTick, MonitorObjects
<1> HIDE DEF n
<1>4. response' \in {"none", "touched", "threw"} /\ alert' \in {alert, "none"}
  BY DEF MonitorTick
<1> QED
  BY <1>2, <1>3, <1>4, MonitorStep DEF MonitorTick

\* Crashes, suspensions, switches of applications, and alerts.
LEMMA EnvironmentStep ==
    ASSUME IInv, Environment PROVE IInv'
<1>1. ASSUME NEW a \in Apps, Crash(a) PROVE IInv'
  <2>1. GoodApps(apps') /\ TerminatesOnly({}, apps, apps')
    BY <1>1, DeadGood DEF Crash, ChangeApps, IInv
  <2> QED
    BY <1>1, <2>1, AppsChange DEF Crash, ChangeApps, Responses
<1>2. ASSUME NEW a \in Apps, Suspend(a) PROVE IInv'
  <2>1. apps' = [apps EXCEPT ![a] = "suspended"] /\ a # System /\ apps[a] = "background"
    BY <1>2 DEF Suspend, ChangeApps
  <2>2. GoodApps(apps') /\ TerminatesOnly({}, apps, apps')
    <3>1. PICK front \in Apps : apps[front] = "foreground"
      BY DEF IInv, GoodApps
    <3>2. apps' \in [Apps -> Stages]
      BY <2>1 DEF IInv, GoodApps, Stages
    <3>3. apps'[front] = "foreground"
      BY <2>1, <3>1 DEF IInv, GoodApps
    <3> QED
      BY <2>1, <3>2, <3>3, SystemAssumption DEF IInv, GoodApps, TerminatesOnly
  <2> QED
    BY <1>2, <2>2, AppsChange DEF Suspend, ChangeApps, Responses
<1>3. ASSUME NEW a \in Apps, ComeToFront(a) PROVE IInv'
  <2>1. GoodApps(apps') /\ TerminatesOnly({}, apps, apps')
    BY <1>3, FrontGood DEF ComeToFront, ChangeApps, IInv
  <2> QED
    BY <1>3, <2>1, AppsChange DEF ComeToFront, ChangeApps, Responses
<1>4. CASE AlertChanges
  BY <1>4 DEF AlertChanges, IInv, SessionOK, MonitorsOK, MonitorOwned, RecordingsOK,
              RecordingKnown, ExpectedOK, OthersOK, CrashesAreReal, Responses
<1> QED
  BY <1>1, <1>2, <1>3, <1>4 DEF Environment

\* Every step keeps the invariant.
LEMMA Inductive == ASSUME IInv, [Next]_vars PROVE IInv'
<1>1. ASSUME NEW c \in Capabilities, CreateSession(c) PROVE IInv'
  BY <1>1, CreateSessionStep
<1>2. CASE CreateSessionBadly
  BY <1>2, CreateSessionBadlyStep
<1>3. ASSUME NEW id \in 1..MaxSessions, Command(id) PROVE IInv'
  BY <1>3, DeleteSessionStep, StaleRequestStep, FindActiveApplicationStep, LaunchAppStep,
     ActivateAppStep, TerminateAppStep, OpenURLStep, SetSettingsStep DEF Command
<1>4. CASE StartVideoRecording \/ StopVideoRecording
  BY <1>4, StartVideoRecordingStep, StopVideoRecordingStep
<1>5. ASSUME NEW m \in Monitors, MonitorFires(m) \/ MonitorTick(m) PROVE IInv'
  BY <1>5, MonitorFiresStep, MonitorTickStep
<1>6. CASE Environment
  BY <1>6, EnvironmentStep
<1>7. CASE UNCHANGED vars
  BY <1>7 DEF vars, IInv, SessionOK, MonitorsOK, MonitorOwned, RecordingsOK,
              RecordingKnown, ExpectedOK, OthersOK, CrashesAreReal
<1> QED
  BY <1>1, <1>2, <1>3, <1>4, <1>5, <1>6, <1>7 DEF Next

\* The invariant holds in every state the server reaches.
LEMMA AlwaysIInv == Spec => []IInv
BY Initially, Inductive, PTL DEF Spec

-----------------------------------------------------------------------------
(***************************************************************************)
(* The end of a session.                                                    *)
(***************************************************************************)
\* No other application is started by what brings b to the front or stops it.
LEMMA OthersStayDown ==
    ASSUME NEW s, NEW a \in Apps \ {System}, ~Running(s, a), NEW b \in Apps \ {a},
           NEW stage
    PROVE  ~Running(Front(s, b), a) /\ ~Running(Stop(s, b, stage), a)
BY DEF Running, NotRunning, Front, Stop

\* A creation that fails, or that is about another application, does not start
\* application a.
LEMMA StaysDown ==
    ASSUME NEW s, GoodApps(s), NEW a \in Apps, ~Running(s, a),
           NEW c \in Capabilities, NEW o \in Opened(c, s), ~(o.ok /\ c.app \in {a, NIL})
    PROVE  ~Running(o.apps, a)
<1>0. a # System
  BY DEF GoodApps, Running, NotRunning
<1>1. c \in AllCapabilities
  BY CapabilitiesAssumption
<1>2. c.app \in Apps \cup {NIL}
  BY <1>1 DEF AllCapabilities
<1>3. \A b, stage : b \in Apps \ {a} =>
         ~Running(Front(s, b), a) /\ ~Running(Stop(s, b, stage), a)
  BY <1>0, OthersStayDown
<1>4. ASSUME NEW b \in Apps \cup {NIL}, NEW p \in OpenURL(s, b), p.ok => b \notin {a, NIL}
      PROVE  ~Running(p.apps, a)
  <2>1. CASE p = Outcome(s, FALSE)
    BY <2>1 DEF Outcome
  <2>2. CASE p # Outcome(s, FALSE)
    <3>1. PICK d \in IF b = NIL THEN Apps ELSE {b} :
             p \in {Outcome(Front(s, d), TRUE), Outcome(Stop(s, d, "dead"), TRUE)}
      BY <2>2 DEF OpenURL
    <3>2. p.ok = TRUE
      BY <3>1 DEF Outcome
    <3>3. d \in Apps \ {a}
      BY <1>4, <3>1, <3>2
    <3> QED
      BY <1>3, <3>1, <3>3 DEF Outcome
  <2> QED
    BY <2>1, <2>2
<1>5. CASE c.app = NIL
  <2>1. CASE c.url
    BY <1>4, <1>5, <2>1 DEF Opened
  <2>2. CASE ~c.url
    BY <1>5, <2>2 DEF Opened, Outcome
  <2> QED
    BY <2>1, <2>2
<1>6. CASE c.app = a
  <2>1. ~o.ok
    BY <1>6
  <2>2. a # NIL /\ s[a] \notin {"background", "foreground"}
    BY NilNowhere DEF Running, NotRunning
  <2>3. PICK p \in IF ~c.url THEN Launch(s, a) ELSE OpenURL(s, a) :
           o = Outcome(p.apps, p.ok /\ Running(p.apps, a))
    BY <1>6, <2>2 DEF Opened, Outcome
  <2>4. o.apps = p.apps /\ ~(p.ok /\ Running(p.apps, a))
    BY <2>1, <2>3 DEF Outcome
  <2>5. ~p.ok => ~Running(p.apps, a)
    <3>1. CASE ~c.url
      <4>1. p \in {Outcome(s, FALSE), Outcome(Front(s, a), TRUE),
                   Outcome(Stop(s, a, "dead"), TRUE), Outcome(Stop(s, a, "dead"), FALSE)}
        BY <2>3, <3>1 DEF Launch
      <4>2. ~Running(Stop(s, a, "dead"), a)
        BY DEF Running, NotRunning, Stop
      <4> QED
        BY <4>1, <4>2 DEF Outcome
    <3>2. CASE c.url
      BY <1>4, <2>3, <3>2
    <3> QED
      BY <3>1, <3>2
  <2> QED
    BY <2>4, <2>5
<1>7. CASE c.app \in Apps \ {a}
  <2> DEFINE b == c.app
             stopped == IF Running(s, b) THEN Terminate(s, b) ELSE Outcome(s, TRUE)
  <2>1. b # NIL /\ b \in Apps \ {a}
    BY <1>7, NilNowhere
  <2>2. stopped.apps \in {s, Stop(s, b, "terminated")}
    BY DEF Terminate, Outcome
  <2>3. ~Running(stopped.apps, a)
    BY <1>3, <2>1, <2>2
  <2> HIDE DEF stopped
  <2>4. \A d, stage : d \in Apps \ {a} =>
           /\ ~Running(Front(stopped.apps, d), a)
           /\ ~Running(Stop(stopped.apps, d, stage), a)
    BY <1>0, <2>3, OthersStayDown
  <2>5. \/ o.apps = s \/ o.apps = stopped.apps
        \/ o.apps \in {Front(s, b), Stop(s, b, "dead")}
        \/ o.apps \in {Front(stopped.apps, b), Stop(stopped.apps, b, "dead")}
    <3> DEFINE opened == IF ~c.url THEN Launch(s, b)
                         ELSE IF stopped.ok THEN OpenURL(stopped.apps, b) ELSE {stopped}
    <3>1. CASE s[b] \notin {"background", "foreground"} \/ c.force
      <4>1. Opened(c, s) = {Outcome(p.apps, p.ok /\ Running(p.apps, b)) : p \in opened}
        BY <2>1, <3>1 DEF Opened, stopped
      <4> HIDE DEF opened
      <4>2. PICK p \in opened : o.apps = p.apps
        BY <4>1 DEF Outcome
      <4>3. p \in Launch(s, b) \/ p \in OpenURL(stopped.apps, b) \/ p = stopped
        BY <4>2 DEF opened
      <4>4. CASE p \in Launch(s, b)
        BY <4>2, <4>4 DEF Launch, Outcome
      <4>5. CASE p \in OpenURL(stopped.apps, b)
        BY <2>1, <4>2, <4>5 DEF OpenURL, Outcome
      <4>6. CASE p = stopped
        BY <4>2, <4>6
      <4> QED
        BY <4>3, <4>4, <4>5, <4>6
    <3>2. CASE ~(s[b] \notin {"background", "foreground"} \/ c.force)
      <4>1. o = Outcome(s, TRUE) \/ o \in OpenURL(s, b) \/ o \in Activate(s, b)
        BY <2>1, <3>2 DEF Opened
      <4>2. CASE o = Outcome(s, TRUE)
        BY <4>2 DEF Outcome
      <4>3. CASE o \in OpenURL(s, b)
        BY <2>1, <4>3 DEF OpenURL, Outcome
      <4>4. CASE o \in Activate(s, b)
        BY <4>4 DEF Activate, Outcome
      <4> QED
        BY <4>1, <4>2, <4>3, <4>4
    <3> QED
      BY <3>1, <3>2
  <2> HIDE DEF b
  <2> QED
    BY <1>3, <2>1, <2>3, <2>4, <2>5
<1> QED
  BY <1>2, <1>5, <1>6, <1>7

\* kill terminates the tested application if the session asked for it and that
\* is possible.
LEMMA KilledDown ==
    ASSUME IInv, session # NIL, config.terminate,
           session.tested \notin Unkillable \cup {NIL, System}
    PROVE  session.tested \in Apps /\ ~Running(KilledApps, session.tested)
<1>1. session.tested \in Apps
  BY DEF IInv, SessionOK, Sessions
<1>2. CASE Running(apps, session.tested)
  <2>1. KilledApps = Stop(apps, session.tested, "terminated")
    BY <1>2 DEF KilledApps, Terminate, Outcome
  <2> QED
    BY <1>1, <2>1 DEF Running, NotRunning, Stop
<1>3. CASE ~Running(apps, session.tested)
  BY <1>1, <1>3 DEF KilledApps
<1> QED
  BY <1>1, <1>2, <1>3

\* What a session leaves behind when it ends, as a predicate of the step.
Clean ==
    /\ promise' = NIL
    /\ \A m \in Monitors : monitors'[m].monitoring => monitors'[m].delegate = created'
    /\ \/ session.tested \in Unkillable \cup {NIL, System} \/ ~config.terminate
       \/ apps'[session.tested] \in NotRunning
       \/ Restarted

\* A session that ends without a successor leaves nothing.
LEMMA EndsWithoutSuccessor ==
    ASSUME IInv, session # NIL, NEW fails \in BOOLEAN, Kill(fails),
           monitors' = KilledMonitors, apps' = KilledApps
    PROVE  Clean
<1>1. promise' = NIL
  BY DEF Kill
<1>2. \A m \in Monitors : ~monitors'[m].monitoring
  BY KilledMonitorsRest DEF Resting
<1>3. \/ session.tested \in Unkillable \cup {NIL, System} \/ ~config.terminate
      \/ apps'[session.tested] \in NotRunning
  BY KilledDown DEF Running
<1> QED
  BY <1>1, <1>2, <1>3 DEF Clean

\* Nor does one that a new session replaces: what monitors belongs to that one,
\* and the application runs only if that one has started it.
LEMMA EndsReplaced ==
    ASSUME IInv, IInv', session # NIL, NEW c \in Capabilities, CreateSession(c)
    PROVE  Clean
<1>1. promise' = NIL
  BY DEF CreateSession, Kill
<1>2. \A m \in Monitors : monitors'[m].monitoring => monitors'[m].delegate = created'
  BY DEF IInv, SessionOK, MonitorsOK, MonitorOwned
<1>3. PICK o \in Opened(c, KilledApps) :
        /\ apps' = o.apps
        /\ o.ok => /\ response' = "created"
                   /\ \E e \in IF c.action = NIL
                               THEN {[session |-> NewSession(c, o.apps),
                                      monitors |-> KilledMonitors]}
                               ELSE EnableAlertsMonitor(NewSession(c, o.apps), KilledMonitors) :
                         session' = e.session
  BY DEF CreateSession
<1>4. o.ok => session'.tested = c.app
  <2> DEFINE new == NewSession(c, o.apps)
  <2>1. new.tested = c.app /\ new.monitor = NIL
    BY DEF NewSession
  <2>2. \A m : [new EXCEPT !.monitor = m].tested = new.tested
    BY DEF NewSession
  <2>3. ASSUME NEW e \in EnableAlertsMonitor(new, KilledMonitors)
        PROVE  e.session.tested = new.tested
    <3> HIDE DEF new
    <3>1. PICK m \in FreeMonitors(KilledMonitors) : e.session = [new EXCEPT !.monitor = m]
      BY <2>1, <2>3 DEF EnableAlertsMonitor
    <3> QED
      BY <2>2, <3>1
  <2> HIDE DEF new
  <2>4. [session |-> new, monitors |-> KilledMonitors].session = new
    OBVIOUS
  <2> QED
    BY <1>3, <2>1, <2>3, <2>4 DEF new
<1>5. ASSUME session.tested \notin Unkillable \cup {NIL, System}, config.terminate,
             ~Restarted
      PROVE  apps'[session.tested] \in NotRunning
  <2>1. session.tested \in Apps /\ ~Running(KilledApps, session.tested)
    BY <1>5, KilledDown
  <2>2. ~(o.ok /\ c.app \in {session.tested, NIL})
    BY <1>3, <1>4, <1>5 DEF Restarted
  <2>3. ~Running(o.apps, session.tested)
    BY <2>1, <2>2, KilledAppsGood, StaysDown
  <2> QED
    BY <1>3, <2>3 DEF Running
<1> QED
  BY <1>1, <1>2, <1>5 DEF Clean

\* Only three requests end a session.
LEMMA OthersKeepSession ==
    ASSUME IInv, IInv', session # NIL, UNCHANGED created, session' # NIL PROVE ~Ends
BY DEF Ends, IInv, SessionOK

-----------------------------------------------------------------------------
(***************************************************************************)
(* The theorems.                                                            *)
(***************************************************************************)
\* Every variable of the session keeps its type.
THEOREM TypeCorrect == Spec => []TypeOK
BY AlwaysIInv, Consequences, PTL

\* A monitor that runs belongs to the active session, and has exactly one block
\* on the main queue (FBSession.m:149-170, FBAlertsMonitor.m:35-92).
THEOREM MonitorsOwned == Spec => []MonitorOwned
BY AlwaysIInv, Consequences, PTL

\* No recording that runs is forgotten (FBVideoCommands.m:37-77, FBSession.m:180-187).
THEOREM RecordingsKnown == Spec => []RecordingKnown
BY AlwaysIInv, Consequences, PTL

\* Only a tested application that stopped by itself is reported as crashed
\* (FBSession.m:229-232).
THEOREM CrashesReported == Spec => []CrashesAreReal
BY AlwaysIInv, Consequences, PTL

\* A session that ends, deleted or replaced, leaves no monitor that runs for it,
\* no recording, and no application it was to terminate (FBSession.m:172-201).
THEOREM SessionsEndClean == Spec => EndsClean
<1>1. ASSUME IInv, IInv', [Next]_vars PROVE Ends => Clean
  <2>1. SUFFICES ASSUME Ends PROVE Clean
    OBVIOUS
  <2>2. session # NIL
    BY <2>1 DEF Ends
  <2>3. UNCHANGED created /\ session' # NIL => Clean
    BY <1>1, <2>1, <2>2, OthersKeepSession
  <2>4. ASSUME NEW c \in Capabilities, CreateSession(c) PROVE Clean
    BY <1>1, <2>2, <2>4, EndsReplaced
  <2>5. CASE CreateSessionBadly
    BY <1>1, <2>2, <2>5, EndsWithoutSuccessor DEF CreateSessionBadly
  <2>6. ASSUME NEW id \in 1..MaxSessions, Command(id) PROVE Clean
    <3>1. CASE DeleteSession(id)
      BY <1>1, <2>2, <3>1, EndsWithoutSuccessor DEF DeleteSession
    <3>2. CASE StaleRequest(id) \/ FindActiveApplication(id)
      BY <2>2, <2>3, <3>2 DEF StaleRequest, FindActiveApplication
    <3>3. ASSUME NEW a \in Apps, LaunchApp(id, a) \/ ActivateApp(id, a) \/ TerminateApp(id, a)
          PROVE  Clean
      <4>1. CASE LaunchApp(id, a)
        BY <1>1, <2>3, <4>1, LaunchAppStep DEF LaunchApp
      <4>2. CASE ActivateApp(id, a)
        BY <2>2, <2>3, <4>2 DEF ActivateApp
      <4>3. CASE TerminateApp(id, a)
        BY <1>1, <2>3, <4>3, TerminateAppStep DEF TerminateApp
      <4> QED
        BY <3>3, <4>1, <4>2, <4>3
    <3>4. ASSUME NEW a \in Apps \cup {NIL}, OpenURLCommand(id, a) PROVE Clean
      BY <2>2, <2>3, <3>4 DEF OpenURLCommand
    <3>5. ASSUME NEW q \in SettingsRequests, SetSettings(id, q) PROVE Clean
      BY <1>1, <2>3, <3>5, SetSettingsStep DEF SetSettings
    <3> QED
      BY <2>6, <3>1, <3>2, <3>3, <3>4, <3>5 DEF Command
  <2>7. CASE StartVideoRecording \/ StopVideoRecording
    BY <2>2, <2>3, <2>7 DEF StartVideoRecording, StopVideoRecording
  <2>8. ASSUME NEW m \in Monitors, MonitorFires(m) \/ MonitorTick(m) PROVE Clean
    BY <2>2, <2>3, <2>8 DEF MonitorFires, MonitorTick
  <2>9. CASE Environment
    BY <2>2, <2>3, <2>9
       DEF Environment, Crash, Suspend, ComeToFront, AlertChanges, ChangeApps
  <2>10. CASE UNCHANGED vars
    BY <2>2, <2>3, <2>10 DEF vars
  <2> QED
    BY <1>1, <2>4, <2>5, <2>6, <2>7, <2>8, <2>9, <2>10 DEF Next
<1>2. ASSUME Ends => Clean PROVE [Ends => Clean]_vars
  BY <1>2
<1>3. EndsClean <=> [][Ends => Clean]_vars
  BY DEF EndsClean, Clean
<1> QED
  BY <1>1, <1>3, AlwaysIInv, PTL DEF Spec
=============================================================================
