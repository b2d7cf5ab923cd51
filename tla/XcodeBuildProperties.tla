------------------------ MODULE XcodeBuildProperties ------------------------
(* What XcodeBuild promises, and what its comments say but the code does not  *)
(* do.                                                                        *)
EXTENDS XcodeBuild

Steps ==
    {"none", "clean", "create", "spawn", "building", "delay",
     "starting", "attempt", "sleep", "over"}

\* Every variable has its type; a loop never has more attempts than Retries.
TypeOK ==
    /\ launches \in 0..MaxLaunches /\ quitAt \in 0..launches
    /\ step \in [Launches -> Steps]
    /\ phase \in [Launches -> Phases]
    /\ outcome \in [Launches -> {"none", "pending", "resolved", "rejected"}]
    /\ status \in [Launches -> BOOLEAN]
    /\ tries \in [Launches -> 0..Retries]
    /\ late \subseteq Launches
    /\ current \in Processes \cup {NIL}
    /\ process \in [Processes -> {"none", "created", "running"} \cup Ended]
    /\ {exitDue, listened, deafened} \subseteq SUBSET Processes
    /\ {didBuildFail, didProcessExit, shortCircuit} \subseteq BOOLEAN

\* A launch that resolves has had an answer of the server: it is never resolved
\* by the exit of a process (xcodebuild.js:376-469).
ResolvedWithStatus == \A l \in Launches : outcome[l] = "resolved" => status[l]

\* No two processes of this object build or test at the same time, although a
\* launch that times out leaves its process behind (webdriveragent.js:489).
OneProcess == Cardinality(Running) <= 1

\* xcodebuild.js:379: "wrap the start procedure in a promise so that we can catch,
\* and report, any startup errors that are thrown as events": once the exit of a
\* process is reported, its launch is not left pending if it failed, nor waiting
\* for it if it was a build; except for the processes that the report of an earlier
\* exit has made deaf, which came when they were current already (384).
ExitReported ==
    \A p \in Processes :
        /\ process[p] \in Ended /\ p \notin exitDue \cup deafened
        /\ outcome[p[1]] = "pending"
        => process[p] # "failed" /\ (p[2] = "build" => step[p[1]] # "building")

\* A launch that may wait for ever.  start(true) has no time-out
\* (xcodebuild.js:408): a test that prints nothing keeps its launch waiting while it
\* runs, and its exit settles nothing when it was quit, killed or succeeded
\* (386-402); nor does any exit of a process whose listeners the late report of an
\* earlier exit has removed (384).
WaitsForEver(l) ==
    \/ step[l] = "starting" /\ process[OfPhase(l)] # "failed"
    \/ step[l] \in {"starting", "building"} /\ OfPhase(l) \in deafened

\* Every launch resolves or rejects, whatever the process does and whenever the
\* client quits, unless it gets into one of these two waits and never leaves it.
LaunchSettles ==
    \A l \in Launches : <>[](outcome[l] # "pending" \/ WaitsForEver(l))

\* xcodebuild.js:435, 456: "there has been an error elsewhere and we need to
\* short-circuit": no attempt is made once the exit of the process is known.
NoAttemptAfterExit == late = {}
=============================================================================
