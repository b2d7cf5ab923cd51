------------------------- MODULE SessionProperties -------------------------
(* What Session promises.                                                    *)
EXTENDS Session

\* Every variable has its type: the record types of Session.
TypeOK ==
    /\ session \in Sessions \cup {NIL}
    /\ created \in 0..MaxSessions
    /\ session # NIL => session.id = created
    /\ config \in Configurations
    /\ monitors \in [Monitors -> MonitorObjects]
    /\ promise \in Recordings \cup {NIL}
    /\ recordings \in [Recordings -> {"unused", "running", "finished", "lost"}]
    /\ apps \in [Apps -> Stages]
    /\ alert \in {"none", "app", "system"}
    /\ response \in Responses

\* A monitor that runs is the one of the active session, reports to it and has
\* a block on the main queue: no chain of ticks outlives the session or the
\* disabling of its monitor, none is started twice, and none dies out
\* (FBSession.m:149-170, FBAlertsMonitor.m:35-92).
MonitorOwned ==
    /\ \A m \in Monitors : monitors[m].monitoring =>
          /\ session # NIL /\ session.monitor = m
          /\ monitors[m].delegate = session.id
          /\ monitors[m].pending # "none"
    /\ session # NIL /\ session.monitor # NIL => monitors[session.monitor].monitoring

\* When activeApplication reports a crash, the tested application did stop by
\* itself and not because a client asked for it (FBSession.m:229-232 with the
\* places that maintain isTestedApplicationExpectedToRun).
CrashesAreReal ==
    response = "crashed" => session # NIL /\ apps[session.tested] = "dead"

\* A recording that runs in the daemon is the one the container knows, unless
\* the daemon refused to stop it: no two recordings run side by side and none
\* is forgotten (FBVideoCommands.m:37-77, FBSession.m:180-187).
RecordingKnown ==
    \A r \in Recordings : recordings[r] = "running" <=> promise = r

\* The end of a session, deleted or replaced, by a request that succeeds or
\* fails: nothing of it stays behind.  Its monitor is off, its recording is
\* stopped, and its application is terminated if that session asked for it, even
\* when the next request asks for something else (FBSession.m:172-201).
Ends == session # NIL /\ (session' = NIL \/ session'.id # session.id)

Restarted == response' = "created" /\ session'.tested \in {session.tested, NIL}

EndsClean ==
    [][Ends =>
        /\ promise' = NIL
        /\ \A m \in Monitors : monitors'[m].monitoring => monitors'[m].delegate = created'
        /\ \/ session.tested \in Unkillable \cup {NIL, System} \/ ~config.terminate
           \/ apps'[session.tested] \in NotRunning
           \/ Restarted]_vars

\* An alert that stays on screen while a session monitors alerts with something
\* to do about them is answered, unless the tick that should answer it throws, in
\* the look-up or in the answer; and then the next one comes: the chain of ticks
\* goes on whatever a tick finds or throws and however often the monitor was
\* switched off and on (FBAlertsMonitor.m:35-73).
Watched ==
    /\ alert # "none"
    /\ session # NIL /\ session.monitor # NIL /\ WouldTouchAlert

AlertAnswered ==
    Watched ~> (response \in {"touched", "threw"} \/ ~Watched)
=============================================================================
