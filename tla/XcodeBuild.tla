----------------------------- MODULE XcodeBuild -----------------------------
(***************************************************************************)
(* How the host launches the server: launch and quit of                     *)
(* lib/webdriveragent.js with lib/xcodebuild.js, for one WebDriverAgent     *)
(* object whose client launches again after a failure and may quit at any   *)
(* time.                                                                    *)
(*                                                                          *)
(* An await lets everything else run, so the code between two awaits is one *)
(* action.  A launch is a chain of such actions; the loop that waits for    *)
(* the server outlives the promise of its launch when the exit of the       *)
(* process has rejected it already.  The exit of a process and its exit     *)
(* event are two steps.                                                     *)
(***************************************************************************)
EXTENDS Integers, FiniteSets

CONSTANTS
    MaxLaunches,   \* bound on the calls of launch
    Retries,       \* launchTimeout / 500, the attempts of waitForStart
    Prebuild,      \* prebuildWDA
    Foreign,       \* another server may answer at the same address
    NIL

ASSUME MaxLaunchesAssumption == MaxLaunches \in Nat
ASSUME RetriesAssumption == Retries \in Nat \ {0}
ASSUME SwitchesAssumption == {Prebuild, Foreign} \subseteq BOOLEAN

Launches == 1..MaxLaunches
Phases == {"build", "test"}     \* buildOnly, or not
Processes == Launches \X Phases

ASSUME NilAssumption == NIL \notin Processes

VARIABLES
    launches,        \* calls of launch so far
    step,            \* where each launch is
    phase,           \* which of its processes it is about
    outcome,         \* its promise
    status,          \* its currentStatus: whether the server has answered
    tries,           \* attempts its loop has left
    late,            \* launches that asked for the status after the exit event
    current,         \* this.xcodebuild
    process,         \* each xcodebuild process
    exitDue,         \* processes whose exit event is on its way
    listened,        \* processes whose events have listeners
    deafened,        \* processes whose listeners the exit of another one has removed
    didBuildFail,    \* this._didBuildFail
    didProcessExit,  \* this.didProcessExit, which the exit handler sets
    shortCircuit,    \* this._didProcessExit, which waitForStart reads
    quitAt           \* the launches there had been at the last quit

loops == <<step, phase, outcome, status, tries, late>>
processes == <<current, process, exitDue, listened, deafened>>
flags == <<didBuildFail, didProcessExit, shortCircuit>>
vars == <<launches, loops, processes, flags, quitAt>>

Running == {p \in Processes : process[p] = "running"}
Ended == {"succeeded", "failed", "killed"}
OfPhase(l) == <<l, phase[l]>>

Goto(l, s) == step' = [step EXCEPT ![l] = s]

\* A promise settles once.
Settle(l, how) ==
    outcome' = [outcome EXCEPT ![l] = IF @ = "pending" THEN how ELSE @]

\* What the exit of processes, killed from outside, leaves to be reported.
KillAll(ps) ==
    /\ process' = [p \in Processes |-> IF p \in ps THEN "killed" ELSE process[p]]
    /\ exitDue' = exitDue \cup ps

(***************************************************************************)
(* launch.                                                                  *)
(***************************************************************************)
Launch ==
    /\ launches < MaxLaunches
    /\ \A l \in Launches : outcome[l] # "pending"
    /\ launches' = launches + 1
    /\ Goto(launches + 1, "clean")
    /\ outcome' = [outcome EXCEPT ![launches + 1] = "pending"]
    /\ UNCHANGED <<phase, status, tries, late, processes, flags, quitAt>>

\* Faulty variant: no process is killed.
SkipReset(l) ==
    /\ step[l] = "clean"
    /\ Goto(l, "create")
    /\ UNCHANGED <<launches, phase, outcome, status, tries, late,
                   processes, flags, quitAt>>

\* resetTestProcesses kills what an earlier launch left; init may then throw.
ResetTestProcesses(l) ==
    /\ step[l] = "clean"
    /\ KillAll(Running)
    /\ \/ Goto(l, "create") /\ UNCHANGED outcome
       \/ Goto(l, "over") /\ Settle(l, "rejected")
    /\ UNCHANGED <<launches, phase, status, tries, late, current,
                   listened, deafened, flags, quitAt>>

\* Exits of earlier processes may still be unreported: nothing waits for them.
CreateSubProcess(l) ==
    /\ step[l] = "create"
    /\ \/ /\ current' = OfPhase(l)
          /\ process' = [process EXCEPT ![OfPhase(l)] = "created"]
          /\ listened' = listened \cup {OfPhase(l)}
          /\ didBuildFail' = FALSE
          /\ Goto(l, "spawn")
          /\ UNCHANGED outcome
       \/ /\ Goto(l, "over")          \* the keychain cannot be set up
          /\ Settle(l, "rejected")
          /\ UNCHANGED <<current, process, listened, didBuildFail>>
    /\ UNCHANGED <<launches, phase, status, tries, late, exitDue, deafened,
                   didProcessExit, shortCircuit, quitAt>>

\* start(true) of the process returns on its first output, whenever that is.
\* Nothing follows it if the process only builds.
Spawn(l) ==
    /\ step[l] = "spawn"
    /\ \/ /\ process' = [process EXCEPT ![OfPhase(l)] = "running"]
          /\ Goto(l, IF phase[l] = "build" THEN "building" ELSE "starting")
          /\ UNCHANGED outcome
       \/ /\ Goto(l, "over")
          /\ Settle(l, "rejected")
          /\ UNCHANGED process
    /\ UNCHANGED <<launches, phase, status, tries, late, current, exitDue,
                   listened, deafened, flags, quitAt>>

\* The output may be read after the process has ended.
FirstOutput(l) ==
    /\ step[l] = "starting"
    /\ Goto(l, "attempt")
    /\ UNCHANGED <<launches, phase, outcome, status, tries, late, processes, flags, quitAt>>

\* prebuild pauses before the process that tests is started.
Pause(l) ==
    /\ step[l] = "delay"
    /\ phase' = [phase EXCEPT ![l] = "test"]
    /\ Goto(l, "create")
    /\ UNCHANGED <<launches, outcome, status, tries, late, processes, flags, quitAt>>

(***************************************************************************)
(* waitForStart: retryInterval(Retries, 1000, ...).                         *)
(***************************************************************************)
Answers == Foreign \/ \E p \in Running : p[2] = "test"

Attempt(l) ==
    /\ step[l] = "attempt"
    /\ IF shortCircuit
       THEN Goto(l, "over") /\ Settle(l, "resolved") /\ UNCHANGED <<status, tries, late>>
       ELSE /\ late' = IF didProcessExit THEN late \cup {l} ELSE late
            /\ tries' = [tries EXCEPT ![l] = @ - 1]
            /\ \/ /\ Answers
                  /\ status' = [status EXCEPT ![l] = TRUE]
                  /\ Goto(l, "over")
                  /\ Settle(l, "resolved")
               \/ /\ UNCHANGED status
                  /\ IF tries[l] > 1
                     THEN Goto(l, "sleep") /\ UNCHANGED outcome
                     ELSE Goto(l, "over") /\ Settle(l, "rejected")
    /\ UNCHANGED <<launches, phase, processes, flags, quitAt>>

Sleep(l) ==
    /\ step[l] = "sleep"
    /\ Goto(l, "attempt")
    /\ UNCHANGED <<launches, phase, outcome, status, tries, late, processes, flags, quitAt>>

(***************************************************************************)
(* The process: its output, its end, and the exit handler.                  *)
(***************************************************************************)
\* Lines are read until the exit is reported, also those of an earlier process.
ErrorLine(p) ==
    /\ p \in (Running \cup exitDue) \cap listened
    /\ p[2] = "test" => step[p[1]] # "starting"
    /\ ~didBuildFail
    /\ didBuildFail' = TRUE
    /\ UNCHANGED <<launches, loops, processes, didProcessExit, shortCircuit, quitAt>>

End(p) ==
    /\ p \in Running
    /\ \E how \in {"succeeded", "failed"} : process' = [process EXCEPT ![p] = how]
    /\ exitDue' = exitDue \cup {p}
    /\ UNCHANGED <<launches, loops, current, listened, deafened, flags, quitAt>>

\* The handler of an exit removes the listeners of the process that is current by
\* then; its own is gone since it is called once.
RemoveListeners(p) ==
    /\ listened' = listened \ {p, current}
    /\ deafened' = deafened \cup ((listened \cap {current}) \ {p})

\* Faulty variant: the end of a process that only builds is not reported.
ExitEventUnreported(p) ==
    /\ p \in exitDue
    /\ exitDue' = exitDue \ {p}
    /\ IF p \notin listened
       THEN UNCHANGED <<step, outcome, listened, deafened, didProcessExit>>
       ELSE /\ RemoveListeners(p)
            /\ didProcessExit' = TRUE
            /\ IF didBuildFail \/ process[p] = "failed"
               THEN Settle(p[1], "rejected") /\ UNCHANGED step
               ELSE UNCHANGED <<step, outcome>>
    /\ UNCHANGED <<launches, phase, status, tries, late, current, process,
                   didBuildFail, shortCircuit, quitAt>>

\* Faulty variant: the handler sets the flag that waitForStart reads.
ExitEventNoticed(p) ==
    /\ p \in exitDue
    /\ exitDue' = exitDue \ {p}
    /\ RemoveListeners(p)
    /\ shortCircuit' = TRUE
    /\ IF didBuildFail \/ process[p] = "failed"
       THEN Settle(p[1], "rejected") /\ UNCHANGED step
       ELSE IF step[p[1]] = "building" THEN Goto(p[1], "delay") /\ UNCHANGED outcome
       ELSE UNCHANGED <<step, outcome>>
    /\ UNCHANGED <<launches, phase, status, tries, late, current, process,
                   didBuildFail, didProcessExit, quitAt>>

ExitEvent(p) ==
    /\ p \in exitDue
    /\ exitDue' = exitDue \ {p}
    /\ IF p \notin listened
       THEN UNCHANGED <<step, outcome, listened, deafened, didProcessExit>>
       ELSE /\ RemoveListeners(p)
            /\ didProcessExit' = TRUE
            /\ IF didBuildFail \/ process[p] = "failed"
               THEN /\ Settle(p[1], "rejected")
                    /\ IF step[p[1]] = "building" THEN Goto(p[1], "over") ELSE UNCHANGED step
               ELSE /\ UNCHANGED outcome
                    /\ IF p[2] = "build" THEN Goto(p[1], "delay") ELSE UNCHANGED step
    /\ UNCHANGED <<launches, phase, status, tries, late, current, process,
                   didBuildFail, shortCircuit, quitAt>>

(***************************************************************************)
(* quit kills the current process if it runs.                               *)
(***************************************************************************)
Quit ==
    /\ launches > 0 /\ quitAt < launches
    /\ KillAll({current} \cap Running)
    /\ quitAt' = launches
    /\ UNCHANGED <<launches, loops, current, listened, deafened, flags>>

Init ==
    /\ launches = 0 /\ quitAt = 0
    /\ step = [l \in Launches |-> "none"]
    /\ phase = [l \in Launches |-> IF Prebuild THEN "build" ELSE "test"]
    /\ outcome = [l \in Launches |-> "none"]
    /\ status = [l \in Launches |-> FALSE]
    /\ tries = [l \in Launches |-> Retries]
    /\ late = {}
    /\ current = NIL
    /\ process = [p \in Processes |-> "none"]
    /\ exitDue = {} /\ listened = {} /\ deafened = {}
    /\ didBuildFail = FALSE /\ didProcessExit = FALSE /\ shortCircuit = FALSE

Advance(l) ==
    \/ ResetTestProcesses(l) \/ CreateSubProcess(l) \/ Spawn(l) \/ Pause(l)
    \/ Attempt(l) \/ Sleep(l)

Next ==
    \/ Launch \/ Quit
    \/ \E l \in Launches : Advance(l) \/ FirstOutput(l)
    \/ \E p \in Processes : ErrorLine(p) \/ End(p) \/ ExitEvent(p)

\* Timers fire, replies come or time out, events are delivered, and a build ends.
\* Nothing makes a test print, or end.
Fairness ==
    /\ \A l \in Launches : WF_vars(Advance(l)) /\ WF_vars(End(<<l, "build">>))
    /\ \A p \in Processes : WF_vars(ExitEvent(p))

Spec == Init /\ [][Next]_vars /\ Fairness
=============================================================================
