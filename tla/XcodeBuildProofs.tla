--------------------------- MODULE XcodeBuildProofs ---------------------------
(***************************************************************************)
(* The safety properties of a launch, for any number of launches and        *)
(* attempts, with or without a separate build and another server at the     *)
(* same address, however late exits are reported; and of the project file   *)
(* that the launches of sessions build from, for any number of sessions.    *)
(***************************************************************************)
EXTENDS XcodeBuildProperties, ProjectFileProperties, FiniteSetTheorems, TLAPS

\* A process that runs, or the exit of which is still to be reported.
Alive(p) == process[p] = "running" \/ p \in exitDue

\* A launch that has not come to its loop yet.
Early == {"clean", "create", "spawn", "building", "delay"}

\* Only the last launch is on its way to its loop, and only a launch whose
\* promise is pending gets there.
LaunchInv ==
    \A l \in Launches :
        /\ l > launches => step[l] = "none"
        /\ outcome[l] = "pending" => l = launches
        /\ step[l] \in Early => outcome[l] = "pending"
        /\ step[l] # "over" => tries[l] >= 1

\* A build is alive while its launch waits for it, a test after its spawn.
AliveInv ==
    \A l \in Launches :
        /\ Alive(<<l, "build">>) => step[l] = "building"
        /\ Alive(<<l, "test">>) => step[l] \in {"starting", "attempt", "sleep", "over"}

\* Nothing runs from the clean-up of a launch to its next spawn, nothing else
\* beside its build.
RunInv ==
    \A l \in Launches, p \in Processes :
        process[p] = "running" =>
            /\ step[l] \notin {"create", "spawn", "delay"}
            /\ step[l] = "building" => p = <<l, "build">>

\* One process runs at a time, and its exit is not reported yet.
AloneInv ==
    \A p \in Processes :
        process[p] = "running" =>
            /\ p \notin exitDue
            /\ \A q \in Processes : process[q] = "running" => q = p

\* The inductive invariant.
Inv ==
    /\ TypeOK
    /\ ResolvedWithStatus /\ shortCircuit = FALSE
    /\ LaunchInv /\ AliveInv /\ RunInv /\ AloneInv

LEMMA LaunchNumbers == Launches \subseteq Nat
BY MaxLaunchesAssumption DEF Launches

LEMMA PhaseOf == \A p \in Processes :
    /\ p[1] \in Launches
    /\ p = <<p[1], "build">> \/ p = <<p[1], "test">>
    /\ p[2] = "build" <=> p = <<p[1], "build">>
BY DEF Processes, Phases

LEMMA ProcessesOf == \A l \in Launches, f \in Phases : <<l, f>> \in Processes
BY DEF Processes

LEMMA InitInv == Init => Inv
<1> SUFFICES ASSUME Init PROVE Inv
  OBVIOUS
<1> USE MaxLaunchesAssumption, RetriesAssumption
<1>1. TypeOK
  <2>1. /\ launches \in 0..MaxLaunches /\ quitAt \in 0..launches
        /\ current \in Processes \cup {NIL}
        /\ late \subseteq Launches
        /\ {exitDue, listened, deafened} \subseteq SUBSET Processes
    BY DEF Init
  <2>5. {didBuildFail, didProcessExit, shortCircuit} = {FALSE}
    BY DEF Init
  <2>2. /\ step \in [Launches -> Steps]
        /\ phase \in [Launches -> Phases]
        /\ outcome \in [Launches -> {"none", "pending", "resolved", "rejected"}]
        /\ status \in [Launches -> BOOLEAN]
    BY DEF Init, Steps, Phases
  <2>3. tries \in [Launches -> 0..Retries]
    BY DEF Init
  <2>4. process \in [Processes -> {"none", "created", "running"} \cup Ended]
    BY DEF Init
  <2> QED
    BY <2>1, <2>2, <2>3, <2>4, <2>5 DEF TypeOK
<1>2. ResolvedWithStatus /\ shortCircuit = FALSE
  BY DEF Init, ResolvedWithStatus
<1>3. LaunchInv
  BY DEF Init, LaunchInv, Early, Launches
<1>4. AliveInv /\ RunInv /\ AloneInv
  BY ProcessesOf DEF Init, AliveInv, RunInv, AloneInv, Alive, Phases
<1> QED
  BY <1>1, <1>2, <1>3, <1>4 DEF Inv

-----------------------------------------------------------------------------
(* One lemma per action.                                                     *)

LEMMA LaunchKeeps == ASSUME Inv, Launch PROVE Inv'
<1> USE DEF Inv, Launch, Goto, processes, flags
<1> DEFINE n == launches + 1
<1>1. n \in Launches /\ launches \in Nat
  BY MaxLaunchesAssumption DEF TypeOK, Launches
<1>2. TypeOK'
  BY <1>1, MaxLaunchesAssumption DEF TypeOK, Steps
<1>3. ResolvedWithStatus' /\ shortCircuit' = FALSE
  BY <1>1 DEF ResolvedWithStatus, TypeOK
<1>4. LaunchInv'
  BY <1>1, LaunchNumbers DEF LaunchInv, TypeOK, Early
<1>5. AliveInv' /\ RunInv' /\ AloneInv'
  BY <1>1, LaunchNumbers DEF LaunchInv, AliveInv, RunInv, AloneInv, Alive, TypeOK
<1> QED
  BY <1>2, <1>3, <1>4, <1>5

LEMMA ResetKeeps ==
    ASSUME Inv, NEW l \in Launches, ResetTestProcesses(l) PROVE Inv'
<1> USE DEF Inv, ResetTestProcesses, Goto, Settle, KillAll, flags
<1>1. \A p \in Processes : process'[p] # "running" /\ (Alive(p)' <=> Alive(p))
  BY DEF Alive, Running, TypeOK
<1>2. TypeOK'
  <2>1. process' \in [Processes -> {"none", "created", "running"} \cup Ended]
    BY DEF TypeOK, Ended
  <2>2. exitDue' \subseteq Processes
    BY DEF TypeOK, Running
  <2>3. step' \in [Launches -> Steps]
        /\ outcome' \in [Launches -> {"none", "pending", "resolved", "rejected"}]
    BY DEF TypeOK, Steps
  <2> QED
    BY <2>1, <2>2, <2>3 DEF TypeOK
<1>3. ResolvedWithStatus' /\ shortCircuit' = FALSE
  BY DEF ResolvedWithStatus, TypeOK
<1>4. LaunchInv'
  BY LaunchNumbers DEF LaunchInv, TypeOK, Early
<1>5. AliveInv'
  BY <1>1, ProcessesOf DEF AliveInv, TypeOK, Phases
<1>6. RunInv' /\ AloneInv'
  BY <1>1 DEF RunInv, AloneInv
<1> QED
  BY <1>2, <1>3, <1>4, <1>5, <1>6

LEMMA CreateKeeps ==
    ASSUME Inv, NEW l \in Launches, CreateSubProcess(l) PROVE Inv'
<1> USE DEF Inv, CreateSubProcess, Goto, Settle
<1>1. OfPhase(l) \in Processes
  BY ProcessesOf DEF OfPhase, TypeOK
<1>2. TypeOK'
  <2>1. process' \in [Processes -> {"none", "created", "running"} \cup Ended]
    BY <1>1 DEF TypeOK
  <2>2. current' \in Processes \cup {NIL} /\ listened' \subseteq Processes
    BY <1>1 DEF TypeOK
  <2>3. step' \in [Launches -> Steps]
        /\ outcome' \in [Launches -> {"none", "pending", "resolved", "rejected"}]
    BY DEF TypeOK, Steps
  <2>4. {didBuildFail', didProcessExit', shortCircuit'} \subseteq BOOLEAN
    BY DEF TypeOK
  <2> QED
    BY <2>1, <2>2, <2>3, <2>4 DEF TypeOK
<1>3. ResolvedWithStatus' /\ shortCircuit' = FALSE
  BY DEF ResolvedWithStatus, TypeOK
<1>4. LaunchInv'
  BY LaunchNumbers DEF LaunchInv, TypeOK, Early
<1>5. \A p \in Processes : process'[p] # "running" /\ process[p] # "running"
                           /\ (Alive(p)' => Alive(p))
  BY <1>1 DEF RunInv, Alive, TypeOK
<1>6. AliveInv'
  BY <1>5, ProcessesOf DEF AliveInv, TypeOK, Phases
<1>7. RunInv' /\ AloneInv'
  BY <1>5 DEF RunInv, AloneInv
<1> QED
  BY <1>2, <1>3, <1>4, <1>6, <1>7

LEMMA SpawnKeeps ==
    ASSUME Inv, NEW l \in Launches, Spawn(l) PROVE Inv'
<1> USE DEF Inv, Spawn, Goto, Settle, flags
<1> DEFINE new == OfPhase(l)
<1>1. new \in Processes /\ new = <<l, phase[l]>> /\ phase[l] \in {"build", "test"}
  BY ProcessesOf DEF OfPhase, TypeOK, Phases
<1>2. TypeOK'
  <2>1. process' \in [Processes -> {"none", "created", "running"} \cup Ended]
    BY <1>1 DEF TypeOK
  <2>2. step' \in [Launches -> Steps]
        /\ outcome' \in [Launches -> {"none", "pending", "resolved", "rejected"}]
    BY DEF TypeOK, Steps
  <2> QED
    BY <2>1, <2>2 DEF TypeOK
<1>3. ResolvedWithStatus' /\ shortCircuit' = FALSE
  BY DEF ResolvedWithStatus, TypeOK
<1>4. LaunchInv'
  BY LaunchNumbers DEF LaunchInv, TypeOK, Early
<1>5. \A p \in Processes : process[p] # "running"
  BY DEF RunInv
<1>6. new \notin exitDue
  BY <1>1 DEF AliveInv, Alive
<1>7. CASE process' = [process EXCEPT ![new] = "running"]
           /\ step' = [step EXCEPT ![l] = IF phase[l] = "build" THEN "building" ELSE "starting"]
  <2>1. \A p \in Processes : process'[p] = "running" <=> p = new
    BY <1>1, <1>5, <1>7 DEF TypeOK
  <2>2. AliveInv'
    <3> SUFFICES ASSUME NEW k \in Launches
                 PROVE  /\ Alive(<<k, "build">>)' => step'[k] = "building"
                        /\ Alive(<<k, "test">>)' => step'[k] \in {"starting", "attempt", "sleep", "over"}
      BY DEF AliveInv
    <3>1. <<k, "build">> \in Processes /\ <<k, "test">> \in Processes
      BY ProcessesOf DEF Phases
    <3>2. CASE k = l
      BY <1>1, <1>7, <2>1, <3>1, <3>2 DEF Alive, AliveInv, TypeOK
    <3>3. CASE k # l
      BY <1>1, <1>7, <2>1, <3>1, <3>3 DEF Alive, AliveInv, TypeOK
    <3> QED
      BY <3>2, <3>3
  <2>3. RunInv'
    <3> SUFFICES ASSUME NEW k \in Launches, NEW p \in Processes, process'[p] = "running"
                 PROVE  /\ step'[k] \notin {"create", "spawn", "delay"}
                        /\ step'[k] = "building" => p = <<k, "build">>
      BY DEF RunInv
    <3>1. p = new
      BY <2>1
    <3>2. k # l => step[k] \notin Early
      BY LaunchNumbers DEF LaunchInv, Early, TypeOK
    <3> QED
      BY <1>1, <1>7, <3>1, <3>2 DEF Early, TypeOK
  <2>4. AloneInv'
    BY <1>6, <2>1 DEF AloneInv
  <2> QED
    BY <1>2, <1>3, <1>4, <2>2, <2>3, <2>4
<1>8. CASE process' = process /\ step' = [step EXCEPT ![l] = "over"]
  <2>1. AliveInv'
    BY <1>8 DEF AliveInv, Alive, TypeOK
  <2>2. RunInv' /\ AloneInv'
    BY <1>5, <1>8 DEF RunInv, AloneInv
  <2> QED
    BY <1>2, <1>3, <1>4, <2>1, <2>2
<1> QED
  BY <1>7, <1>8

LEMMA FirstOutputKeeps ==
    ASSUME Inv, NEW l \in Launches, FirstOutput(l) PROVE Inv'
<1> USE DEF Inv, FirstOutput, Goto, processes, flags
<1>1. TypeOK'
  BY DEF TypeOK, Steps
<1>2. ResolvedWithStatus' /\ shortCircuit' = FALSE
  BY DEF ResolvedWithStatus
<1>3. LaunchInv'
  BY DEF LaunchInv, TypeOK, Early
<1>4. AliveInv' /\ RunInv' /\ AloneInv'
  BY DEF AliveInv, RunInv, AloneInv, Alive, TypeOK
<1> QED
  BY <1>1, <1>2, <1>3, <1>4

LEMMA PauseKeeps ==
    ASSUME Inv, NEW l \in Launches, Pause(l) PROVE Inv'
<1> USE DEF Inv, Pause, Goto, processes, flags
<1>1. TypeOK'
  BY DEF TypeOK, Steps, Phases
<1>2. ResolvedWithStatus' /\ shortCircuit' = FALSE
  BY DEF ResolvedWithStatus
<1>3. LaunchInv'
  BY DEF LaunchInv, TypeOK, Early
<1>4. AliveInv' /\ RunInv' /\ AloneInv'
  BY DEF AliveInv, RunInv, AloneInv, Alive, TypeOK
<1> QED
  BY <1>1, <1>2, <1>3, <1>4

LEMMA AttemptKeeps ==
    ASSUME Inv, NEW l \in Launches, Attempt(l) PROVE Inv'
<1> USE DEF Inv, Attempt, Goto, Settle, processes, flags
<1>1. tries[l] \in 1..Retries
  BY RetriesAssumption DEF LaunchInv, TypeOK
<1>2. TypeOK'
  <2>1. tries' \in [Launches -> 0..Retries]
    BY <1>1, RetriesAssumption DEF TypeOK
  <2>2. late' \subseteq Launches /\ status' \in [Launches -> BOOLEAN]
    BY DEF TypeOK
  <2>3. step' \in [Launches -> Steps]
        /\ outcome' \in [Launches -> {"none", "pending", "resolved", "rejected"}]
    BY DEF TypeOK, Steps
  <2> QED
    BY <2>1, <2>2, <2>3 DEF TypeOK
<1>3. ResolvedWithStatus' /\ shortCircuit' = FALSE
  BY DEF ResolvedWithStatus, TypeOK
<1>4. LaunchInv'
  BY <1>1, LaunchNumbers, RetriesAssumption DEF LaunchInv, TypeOK, Early
<1>5. AliveInv' /\ RunInv' /\ AloneInv'
  BY DEF AliveInv, RunInv, AloneInv, Alive, TypeOK
<1> QED
  BY <1>2, <1>3, <1>4, <1>5

LEMMA SleepKeeps ==
    ASSUME Inv, NEW l \in Launches, Sleep(l) PROVE Inv'
<1> USE DEF Inv, Sleep, Goto, processes, flags
<1>1. TypeOK'
  BY DEF TypeOK, Steps
<1>2. ResolvedWithStatus' /\ shortCircuit' = FALSE
  BY DEF ResolvedWithStatus
<1>3. LaunchInv'
  BY DEF LaunchInv, TypeOK, Early
<1>4. AliveInv' /\ RunInv' /\ AloneInv'
  BY DEF AliveInv, RunInv, AloneInv, Alive, TypeOK
<1> QED
  BY <1>1, <1>2, <1>3, <1>4

LEMMA ErrorLineKeeps ==
    ASSUME Inv, NEW p \in Processes, ErrorLine(p) PROVE Inv'
<1> USE DEF Inv, ErrorLine, loops, processes
<1>1. TypeOK'
  BY DEF TypeOK
<1>2. ResolvedWithStatus' /\ LaunchInv' /\ shortCircuit' = FALSE
  BY DEF ResolvedWithStatus, LaunchInv
<1>3. AliveInv' /\ RunInv' /\ AloneInv'
  BY DEF AliveInv, RunInv, AloneInv, Alive
<1> QED
  BY <1>1, <1>2, <1>3

\* Processes that end, by themselves or killed, are alive until it is reported.
LEMMA EndsKeep ==
    ASSUME Inv, NEW STATE ps, ps \subseteq Running,
           UNCHANGED <<step, outcome, launches, tries, status, shortCircuit>>,
           exitDue' = exitDue \cup ps,
           \A p \in ps : process'[p] # "running",
           \A p \in Processes \ ps : process'[p] = process[p]
    PROVE  /\ ResolvedWithStatus' /\ LaunchInv' /\ shortCircuit' = FALSE
           /\ AliveInv' /\ RunInv' /\ AloneInv'
<1> USE DEF Inv
<1>1. \A p \in Processes : /\ Alive(p)' <=> Alive(p)
                           /\ process'[p] = "running" => p \notin ps /\ process[p] = "running"
  BY DEF Alive, Running
<1>2. ResolvedWithStatus' /\ LaunchInv' /\ shortCircuit' = FALSE
  BY DEF ResolvedWithStatus, LaunchInv
<1>3. AliveInv'
  BY <1>1, ProcessesOf DEF AliveInv, Phases
<1>4. RunInv' /\ AloneInv'
  BY <1>1 DEF RunInv, AloneInv
<1> QED
  BY <1>2, <1>3, <1>4

LEMMA EndKeeps ==
    ASSUME Inv, NEW p \in Processes, End(p) PROVE Inv'
<1> USE DEF Inv, End, loops, flags
<1>1. PICK how \in {"succeeded", "failed"} : process' = [process EXCEPT ![p] = how]
  OBVIOUS
<1>2. TypeOK'
  <2>1. process' \in [Processes -> {"none", "created", "running"} \cup Ended]
    BY <1>1 DEF TypeOK, Ended
  <2> QED
    BY <2>1 DEF TypeOK
<1> DEFINE ps == {p}
<1>3. /\ \A q \in ps : process'[q] # "running"
      /\ \A q \in Processes \ ps : process'[q] = process[q]
  BY <1>1 DEF TypeOK
<1>4. ps \subseteq Running /\ exitDue' = exitDue \cup ps
  OBVIOUS
<1>5. UNCHANGED <<step, outcome, launches, tries, status, shortCircuit>>
  OBVIOUS
<1> HIDE DEF ps
<1>6. /\ ResolvedWithStatus' /\ LaunchInv' /\ shortCircuit' = FALSE
      /\ AliveInv' /\ RunInv' /\ AloneInv'
  BY <1>3, <1>4, <1>5, EndsKeep
<1> QED
  BY <1>2, <1>6

LEMMA QuitKeeps == ASSUME Inv, Quit PROVE Inv'
<1> USE DEF Inv, Quit, KillAll, loops, flags
<1> DEFINE ps == {current} \cap Running
<1>1. ps \subseteq Processes
  BY DEF Running
<1>2. TypeOK'
  <2>1. process' \in [Processes -> {"none", "created", "running"} \cup Ended]
    BY DEF TypeOK, Ended
  <2>2. quitAt' \in 0..launches'
    BY DEF TypeOK
  <2> QED
    BY <1>1, <2>1, <2>2 DEF TypeOK
<1>3. /\ \A p \in ps : process'[p] # "running"
      /\ \A p \in Processes \ ps : process'[p] = process[p]
  BY <1>1
<1>4. ps \subseteq Running /\ exitDue' = exitDue \cup ps
  OBVIOUS
<1>5. UNCHANGED <<step, outcome, launches, tries, status, shortCircuit>>
  OBVIOUS
<1> HIDE DEF ps
<1>6. /\ ResolvedWithStatus' /\ LaunchInv' /\ shortCircuit' = FALSE
      /\ AliveInv' /\ RunInv' /\ AloneInv'
  BY <1>3, <1>4, <1>5, EndsKeep
<1> QED
  BY <1>2, <1>6

LEMMA ExitEventKeeps ==
    ASSUME Inv, NEW p \in Processes, ExitEvent(p) PROVE Inv'
<1> USE DEF Inv, ExitEvent, RemoveListeners, Goto, Settle
<1> DEFINE l == p[1]
<1>1. /\ l \in Launches
      /\ p = <<l, "build">> \/ p = <<l, "test">>
      /\ p[2] = "build" <=> p = <<l, "build">>
  BY PhaseOf
<1>2. process[p] # "running" /\ p \in exitDue
  BY DEF AloneInv
<1>3. p[2] = "build" => step[l] = "building"
  BY <1>1, <1>2 DEF AliveInv, Alive
<1>4. p[2] # "build" => step[l] \in {"starting", "attempt", "sleep", "over"}
  BY <1>1, <1>2 DEF AliveInv, Alive
\* The step changes only for a build that was waited for.
<1>5. \/ step' = step
      \/ /\ p[2] = "build" /\ p \in listened
         /\ \/ step' = [step EXCEPT ![l] = "over"]
            \/ step' = [step EXCEPT ![l] = "delay"] /\ outcome' = outcome
  BY <1>3, <1>4
<1>6. \/ outcome' = outcome
      \/ /\ outcome' = [outcome EXCEPT ![l] = IF @ = "pending" THEN "rejected" ELSE @]
         /\ step[l] = "building" => step' = [step EXCEPT ![l] = "over"]
  OBVIOUS
<1>7. TypeOK'
  <2>1. step' \in [Launches -> Steps]
    BY <1>1, <1>5 DEF TypeOK, Steps
  <2>2. outcome' \in [Launches -> {"none", "pending", "resolved", "rejected"}]
    BY <1>1, <1>6 DEF TypeOK
  <2>3. /\ didProcessExit' \in BOOLEAN
        /\ listened' \subseteq Processes /\ deafened' \subseteq Processes
    BY DEF TypeOK
  <2> QED
    BY <2>1, <2>2, <2>3 DEF TypeOK
<1>8. ResolvedWithStatus' /\ shortCircuit' = FALSE
  BY <1>1, <1>6 DEF ResolvedWithStatus, TypeOK
<1>9. LaunchInv'
  <2> SUFFICES ASSUME NEW k \in Launches
               PROVE  /\ k > launches' => step'[k] = "none"
                      /\ outcome'[k] = "pending" => k = launches'
                      /\ step'[k] \in Early => outcome'[k] = "pending"
                      /\ step'[k] # "over" => tries'[k] >= 1
    BY DEF LaunchInv
  <2>1. CASE k # l
    BY <1>1, <1>5, <1>6, <2>1 DEF LaunchInv, TypeOK
  <2>2. CASE k = l /\ step[l] = "building"
    BY <1>1, <1>5, <1>6, <2>2 DEF LaunchInv, TypeOK, Early
  <2>3. CASE k = l /\ step[l] # "building"
    BY <1>1, <1>3, <1>4, <1>5, <1>6, <2>3 DEF LaunchInv, TypeOK, Early
  <2> QED
    BY <2>1, <2>2, <2>3
<1>10. \A q \in Processes : Alive(q)' => Alive(q) /\ q # p
  BY <1>2 DEF Alive
<1>11. AliveInv'
  <2> SUFFICES ASSUME NEW k \in Launches
               PROVE  /\ Alive(<<k, "build">>)' => step'[k] = "building"
                      /\ Alive(<<k, "test">>)' => step'[k] \in {"starting", "attempt", "sleep", "over"}
    BY DEF AliveInv
  <2>1. <<k, "build">> \in Processes /\ <<k, "test">> \in Processes
    BY ProcessesOf DEF Phases
  <2>2. CASE step'[k] = step[k]
    BY <1>10, <2>1, <2>2 DEF AliveInv
  <2>3. CASE step'[k] # step[k]
    <3>1. k = l /\ p = <<k, "build">> /\ step[k] = "building"
      BY <1>1, <1>3, <1>5, <2>3 DEF TypeOK
    <3> QED
      BY <1>10, <2>1, <3>1 DEF AliveInv
  <2> QED
    BY <2>2, <2>3
<1>12. RunInv'
  <2> SUFFICES ASSUME NEW k \in Launches, NEW q \in Processes, process[q] = "running"
               PROVE  /\ step'[k] \notin {"create", "spawn", "delay"}
                      /\ step'[k] = "building" => q = <<k, "build">>
    BY DEF RunInv
  <2>1. CASE step'[k] = step[k]
    BY <2>1 DEF RunInv
  <2>2. CASE step'[k] # step[k]
    <3>1. k = l /\ p = <<k, "build">> /\ step[k] = "building"
      BY <1>1, <1>3, <1>5, <2>2 DEF TypeOK
    <3> QED
      BY <1>2, <3>1 DEF RunInv
  <2> QED
    BY <2>1, <2>2
<1>13. AloneInv'
  BY DEF AloneInv
<1> QED
  BY <1>7, <1>8, <1>9, <1>11, <1>12, <1>13

-----------------------------------------------------------------------------

LEMMA Inductive == ASSUME Inv, [Next]_vars PROVE Inv'
<1>1. CASE Launch
  BY <1>1, LaunchKeeps
<1>2. CASE Quit
  BY <1>2, QuitKeeps
<1>3. CASE \E l \in Launches : Advance(l) \/ FirstOutput(l)
  BY <1>3, FirstOutputKeeps, ResetKeeps, CreateKeeps, SpawnKeeps, PauseKeeps,
     AttemptKeeps, SleepKeeps
     DEF Advance
<1>4. CASE \E p \in Processes : ErrorLine(p) \/ End(p) \/ ExitEvent(p)
  BY <1>4, ErrorLineKeeps, EndKeeps, ExitEventKeeps
<1>5. CASE UNCHANGED vars
  <2> USE <1>5 DEF vars, loops, processes, flags, Inv
  <2>1. TypeOK'
    BY DEF TypeOK
  <2>2. ResolvedWithStatus' /\ LaunchInv' /\ shortCircuit' = FALSE
    BY DEF ResolvedWithStatus, LaunchInv
  <2>3. AliveInv' /\ RunInv' /\ AloneInv'
    BY DEF AliveInv, RunInv, AloneInv, Alive
  <2> QED
    BY <2>1, <2>2, <2>3
<1> QED
  BY <1>1, <1>2, <1>3, <1>4, <1>5 DEF Next

LEMMA Always == Spec => []Inv
BY InitInv, Inductive, PTL DEF Spec

\* Launches, processes and their events keep their types, and a loop never has
\* more attempts than it started with (lib/xcodebuild.js:426-469).
THEOREM TypeCorrect == Spec => []TypeOK
<1>1. Inv => TypeOK
  BY DEF Inv
<1> QED
  BY <1>1, Always, PTL

\* A launch resolves only on an answer of the server, whatever exit events and
\* quits come in between (lib/xcodebuild.js:376-469).
THEOREM ResolvesOnAnswer == Spec => []ResolvedWithStatus
<1>1. Inv => ResolvedWithStatus
  BY DEF Inv
<1> QED
  BY <1>1, Always, PTL

\* One process of xcodebuild at a time, also after launches that have timed out
\* and left theirs running (lib/webdriveragent.js:489).
THEOREM OneProcessRuns == Spec => []OneProcess
<1>1. Inv => OneProcess
  <2> SUFFICES ASSUME Inv PROVE Cardinality(Running) <= 1
    BY DEF OneProcess
  <2>1. CASE Running = {}
    BY <2>1, FS_EmptySet
  <2>2. CASE Running # {}
    <3>1. PICK p \in Running : TRUE
      BY <2>2
    <3>2. Running = {p}
      BY <3>1 DEF Inv, AloneInv, Running
    <3> QED
      BY <3>2, FS_Singleton
  <2> QED
    BY <2>1, <2>2
<1> QED
  BY <1>1, Always, PTL

-----------------------------------------------------------------------------
(***************************************************************************)
(* No exit is lost but in the one way the code has.  A process has its      *)
(* listeners from its creation to the report of its exit, unless another's  *)
(* handler has removed them; so a launch hears of a failure, and of the end *)
(* of its build, once it is reported.                                       *)
(***************************************************************************)
HeardInv ==
    /\ \A p \in Processes :
          /\ Alive(p) => p \in listened \cup deafened
          /\ step[p[1]] \in {"none", "clean"} => process[p] \notin Ended
    /\ \A l \in Launches : step[l] = "spawn" => OfPhase(l) \in listened \cup deafened
    /\ ExitReported

\* A process that was not running before has not ended either, except by a step
\* that leaves its exit to be reported.
LEMMA LaunchIsHeard == ASSUME Inv, HeardInv, Launch PROVE HeardInv'
<1> USE DEF HeardInv, Launch, Goto, processes
<1> DEFINE n == launches + 1
<1>1. n \in Launches /\ launches \in Nat /\ step[n] = "none"
  BY MaxLaunchesAssumption, LaunchNumbers DEF Inv, LaunchInv, TypeOK, Launches
<1>2. \A p \in Processes : p[1] \in Launches
  BY PhaseOf
<1>3. step' = [step EXCEPT ![n] = "clean"] /\ outcome' = [outcome EXCEPT ![n] = "pending"]
      /\ UNCHANGED <<phase, process, exitDue, listened, deafened>>
  OBVIOUS
<1> HIDE DEF n, Launch
<1>4. \A p \in Processes :
         /\ Alive(p)' <=> Alive(p)
         /\ step'[p[1]] \in {"none", "clean"} => step[p[1]] \in {"none", "clean"}
  BY <1>1, <1>2, <1>3 DEF Alive, Inv, TypeOK
<1>5. \A l \in Launches : step'[l] = "spawn" => step[l] = "spawn" /\ OfPhase(l)' = OfPhase(l)
  BY <1>1, <1>3 DEF OfPhase, Inv, TypeOK
<1>6. ExitReported'
  <2> SUFFICES ASSUME NEW p \in Processes, outcome'[p[1]] = "pending",
                      process[p] \in Ended, p \notin exitDue \cup deafened
               PROVE  /\ process[p] # "failed"
                      /\ p[2] = "build" => step'[p[1]] # "building"
    BY <1>3 DEF ExitReported
  <2>1. p[1] # n
    BY <1>1, <1>2
  <2> QED
    BY <1>1, <1>2, <1>3, <2>1 DEF ExitReported, Inv, TypeOK
<1> QED
  BY <1>3, <1>4, <1>5, <1>6

\* Steps of a launch that start nothing and end nothing.
LEMMA RestIsHeard ==
    ASSUME Inv, HeardInv, UNCHANGED <<process, exitDue, listened, deafened>>,
           \A l \in Launches :
               /\ outcome'[l] = "pending" => outcome[l] = "pending"
               /\ step'[l] \in {"none", "clean", "building"} => step'[l] = step[l]
               /\ step'[l] = "spawn" => step[l] = "spawn" /\ phase'[l] = phase[l]
    PROVE  HeardInv'
<1>1. \A p \in Processes : p[1] \in Launches /\ (Alive(p)' <=> Alive(p))
  BY PhaseOf DEF Alive
<1>2. ExitReported'
  BY <1>1 DEF HeardInv, ExitReported
<1> QED
  BY <1>1, <1>2 DEF HeardInv, OfPhase

\* The creation adds the listeners, and the process that starts has them.
LEMMA CreateIsHeard ==
    ASSUME Inv, HeardInv, NEW l \in Launches, CreateSubProcess(l) PROVE HeardInv'
<1> DEFINE new == OfPhase(l)
<1>1. new \in Processes /\ new[1] = l
  BY ProcessesOf DEF OfPhase, Inv, TypeOK
<1>2. CASE step' = [step EXCEPT ![l] = "over"] /\ UNCHANGED <<process, listened>>
  <2>1. \A k \in Launches : outcome'[k] = "pending" => outcome[k] = "pending"
    BY DEF CreateSubProcess, Settle, Inv, TypeOK
  <2> QED
    BY <1>2, <2>1, RestIsHeard DEF CreateSubProcess, Inv, TypeOK
<1>3. CASE /\ step' = [step EXCEPT ![l] = "spawn"] /\ UNCHANGED outcome
           /\ process' = [process EXCEPT ![new] = "created"]
           /\ listened' = listened \cup {new}
  <2>1. UNCHANGED <<exitDue, deafened, phase>>
    BY DEF CreateSubProcess
  <2>2. \A p \in Processes :
           /\ Alive(p)' => Alive(p)
           /\ process'[p] \in Ended => process'[p] = process[p]
           /\ p[1] \in Launches
    BY <1>1, <1>3, <2>1, PhaseOf DEF Alive, Ended, Inv, TypeOK
  <2>3. \A k \in Launches :
           /\ step'[k] \in {"none", "clean", "building"} => step'[k] = step[k]
           /\ step'[k] = "spawn" => k = l \/ step[k] = "spawn"
           /\ OfPhase(k)' = OfPhase(k)
    BY <1>3, <2>1 DEF OfPhase, Inv, TypeOK
  <2> HIDE DEF new
  <2>4. ExitReported'
    BY <1>3, <2>1, <2>2, <2>3 DEF HeardInv, ExitReported
  <2>5. OfPhase(l)' \in listened'
    BY <1>3, <2>3 DEF new
  <2> QED
    BY <1>3, <2>1, <2>2, <2>3, <2>4, <2>5 DEF HeardInv
<1> QED
  BY <1>2, <1>3 DEF CreateSubProcess, Goto

LEMMA SpawnIsHeard ==
    ASSUME Inv, HeardInv, NEW l \in Launches, Spawn(l) PROVE HeardInv'
<1> DEFINE new == OfPhase(l)
<1>1. new \in Processes /\ new[1] = l /\ new[2] = phase[l] /\ new \in listened \cup deafened
  BY ProcessesOf DEF OfPhase, Inv, TypeOK, HeardInv, Spawn
<1>2. UNCHANGED <<phase, exitDue, listened, deafened>>
  BY DEF Spawn
<1>3. CASE step' = [step EXCEPT ![l] = "over"] /\ UNCHANGED process
  <2>1. \A k \in Launches : outcome'[k] = "pending" => outcome[k] = "pending"
    BY DEF Spawn, Settle, Inv, TypeOK
  <2> QED
    BY <1>2, <1>3, <2>1, RestIsHeard DEF Inv, TypeOK
<1>4. CASE /\ process' = [process EXCEPT ![new] = "running"] /\ UNCHANGED outcome
           /\ step' = [step EXCEPT ![l] = IF phase[l] = "build" THEN "building" ELSE "starting"]
  <2>1. \A p \in Processes :
           /\ p # new => process'[p] = process[p] /\ (Alive(p)' <=> Alive(p))
           /\ process'[p] \in Ended => p # new
           /\ p[1] \in Launches
    BY <1>1, <1>2, <1>4, PhaseOf DEF Alive, Ended, Inv, TypeOK
  <2>2. \A k \in Launches :
           /\ step'[k] # "spawn" \/ step[k] = "spawn"
           /\ step'[k] \in {"none", "clean"} => step'[k] = step[k]
           /\ step'[k] = "building" => step[k] = "building" \/ (k = l /\ phase[l] = "build")
           /\ OfPhase(k)' = OfPhase(k)
    BY <1>2, <1>4 DEF OfPhase, Inv, TypeOK
  <2>3. \A p \in Processes :
           p[2] = "build" /\ p # new /\ step'[p[1]] = "building" => step[p[1]] = "building"
    BY <1>1, <2>1, <2>2, PhaseOf
  <2> HIDE DEF new
  <2>4. ExitReported'
    BY <1>2, <1>4, <2>1, <2>3 DEF HeardInv, ExitReported
  <2> QED
    BY <1>1, <1>2, <1>4, <2>1, <2>2, <2>4 DEF HeardInv
<1> QED
  BY <1>3, <1>4 DEF Spawn, Goto

\* Processes that end, by themselves or killed, leave their exit to be reported.
LEMMA EndIsHeard ==
    ASSUME Inv, HeardInv, NEW STATE ps, ps \subseteq Running,
           UNCHANGED <<listened, deafened>>,
           exitDue' = exitDue \cup ps,
           \A p \in Processes \ ps : process'[p] = process[p],
           \A p \in ps : step[p[1]] \notin {"none", "clean"},
           \A l \in Launches :
               /\ outcome'[l] = "pending" => outcome[l] = "pending"
               /\ step'[l] \in {"none", "clean", "building"} => step'[l] = step[l]
               /\ step'[l] = "spawn" => step[l] = "spawn" /\ phase'[l] = phase[l]
    PROVE  HeardInv'
<1>1. \A p \in Processes : /\ p[1] \in Launches
                           /\ Alive(p)' => Alive(p)
                           /\ p \in ps => p \in exitDue'
  BY PhaseOf DEF Alive, Running
<1>2. ExitReported'
  BY <1>1 DEF HeardInv, ExitReported
<1> QED
  BY <1>1, <1>2 DEF HeardInv, OfPhase

\* What runs belongs to a launch that has started it.
LEMMA RunningStarted ==
    ASSUME Inv, NEW p \in Running PROVE step[p[1]] \notin {"none", "clean"}
BY PhaseOf DEF Inv, AliveInv, Alive, Running

LEMMA StopsAreHeard ==
    ASSUME Inv, HeardInv,
           \/ Quit
           \/ \E p \in Processes : End(p)
           \/ \E l \in Launches : ResetTestProcesses(l)
    PROVE  HeardInv'
<1>1. CASE Quit
  <2> DEFINE ps == {current} \cap Running
  <2>1. /\ ps \subseteq Running /\ exitDue' = exitDue \cup ps
        /\ \A p \in Processes \ ps : process'[p] = process[p]
        /\ UNCHANGED <<listened, deafened, step, phase, outcome>>
    BY <1>1 DEF Quit, KillAll, loops
  <2> HIDE DEF ps
  <2> QED
    BY <2>1, RunningStarted, EndIsHeard
<1>2. ASSUME NEW p \in Processes, End(p) PROVE HeardInv'
  <2> DEFINE ps == {p}
  <2>1. /\ ps \subseteq Running /\ exitDue' = exitDue \cup ps
        /\ \A q \in Processes \ ps : process'[q] = process[q]
        /\ UNCHANGED <<listened, deafened, step, phase, outcome>>
    BY <1>2 DEF End, loops, Inv, TypeOK
  <2> HIDE DEF ps
  <2> QED
    BY <2>1, RunningStarted, EndIsHeard
<1>3. ASSUME NEW l \in Launches, ResetTestProcesses(l) PROVE HeardInv'
  <2>1. /\ exitDue' = exitDue \cup Running
        /\ \A q \in Processes \ Running : process'[q] = process[q]
        /\ UNCHANGED <<listened, deafened, phase>>
    BY <1>3 DEF ResetTestProcesses, KillAll
  <2>2. \A k \in Launches :
           /\ outcome'[k] = "pending" => outcome[k] = "pending"
           /\ step'[k] \in {"none", "clean", "building"} => step'[k] = step[k]
           /\ step'[k] = "spawn" => step[k] = "spawn" /\ phase'[k] = phase[k]
    BY <1>3 DEF ResetTestProcesses, Goto, Settle, Inv, TypeOK
  <2> QED
    BY <2>1, <2>2, RunningStarted, EndIsHeard
<1> QED
  BY <1>1, <1>2, <1>3

\* A report that is heard settles the launch or goes on to its test; one that is
\* not was made deaf.  The listeners it takes away from another process make that
\* one deaf.
LEMMA ReportIsHeard ==
    ASSUME Inv, HeardInv, NEW p \in Processes, ExitEvent(p) PROVE HeardInv'
<1> DEFINE l == p[1]
<1>1. /\ l \in Launches /\ process' = process /\ phase' = phase
      /\ exitDue' = exitDue \ {p} /\ process[p] # "running"
  BY PhaseOf DEF ExitEvent, Inv, AloneInv
<1>2. Alive(p) /\ p \in listened \cup deafened
  BY DEF HeardInv, ExitEvent, Alive
<1>3. /\ deafened \subseteq deafened'
      /\ \A q \in (listened \cup deafened) \ {p} : q \in listened' \cup deafened'
  BY DEF ExitEvent, RemoveListeners
<1>4. \A k \in Launches :
         /\ outcome'[k] = "pending" => outcome[k] = "pending"
         /\ step'[k] \in {"none", "clean", "building", "spawn"} => step'[k] = step[k]
  BY <1>1 DEF ExitEvent, Goto, Settle, Inv, TypeOK
<1>5. \A q \in Processes : q[1] \in Launches /\ (Alive(q)' => Alive(q) /\ q # p)
  BY <1>1, PhaseOf DEF Alive
<1>6. p \notin deafened =>
         /\ outcome'[l] = "pending" => process[p] # "failed"
         /\ outcome'[l] = "pending" /\ p[2] = "build" => step'[l] # "building"
  BY <1>1, <1>2 DEF ExitEvent, Goto, Settle, Inv, TypeOK
<1>7. ExitReported'
  <2> SUFFICES ASSUME NEW q \in Processes, outcome'[q[1]] = "pending",
                      process[q] \in Ended, q \notin exitDue' \cup deafened'
               PROVE  /\ process[q] # "failed"
                      /\ q[2] = "build" => step'[q[1]] # "building"
    BY <1>1 DEF ExitReported
  <2>1. CASE q = p
    BY <1>3, <1>6, <2>1
  <2>2. CASE q # p
    BY <1>1, <1>3, <1>4, <1>5, <2>2 DEF HeardInv, ExitReported
  <2> QED
    BY <2>1, <2>2
<1>8. \A k \in Launches : step'[k] = "spawn" => OfPhase(k)' \in listened' \cup deafened'
  <2> SUFFICES ASSUME NEW k \in Launches, step'[k] = "spawn"
               PROVE  OfPhase(k)' \in listened' \cup deafened'
    OBVIOUS
  <2>1. step[k] = "spawn" /\ OfPhase(k)' = OfPhase(k) /\ OfPhase(k) \in Processes
    BY <1>1, <1>4, ProcessesOf DEF OfPhase, Inv, TypeOK
  <2>2. ~Alive(OfPhase(k))
    BY <2>1, ProcessesOf DEF OfPhase, Inv, AliveInv, TypeOK, Phases
  <2>3. OfPhase(k) # p
    BY <1>2, <2>2
  <2> QED
    BY <1>3, <2>1, <2>3 DEF HeardInv
<1> QED
  BY <1>1, <1>3, <1>4, <1>5, <1>7, <1>8 DEF HeardInv

LEMMA HeardInductive == ASSUME Inv, HeardInv, [Next]_vars PROVE HeardInv'
<1> USE DEF processes, loops, flags
<1>1. CASE Launch
  BY <1>1, LaunchIsHeard
<1>2. CASE Quit
  BY <1>2, StopsAreHeard
<1>3. ASSUME NEW l \in Launches, Advance(l) \/ FirstOutput(l) PROVE HeardInv'
  <2>1. CASE ResetTestProcesses(l)
    BY <2>1, StopsAreHeard
  <2>2. CASE CreateSubProcess(l) \/ Spawn(l)
    BY <2>2, CreateIsHeard, SpawnIsHeard
  <2>3. CASE Pause(l)
    BY <2>3, RestIsHeard DEF Pause, Goto, Inv, TypeOK
  <2>4. CASE Attempt(l)
    BY <2>4, RestIsHeard DEF Attempt, Goto, Settle, Inv, TypeOK
  <2>5. CASE Sleep(l) \/ FirstOutput(l)
    BY <2>5, RestIsHeard DEF Sleep, FirstOutput, Goto, Inv, TypeOK
  <2> QED
    BY <1>3, <2>1, <2>2, <2>3, <2>4, <2>5 DEF Advance
<1>4. ASSUME NEW p \in Processes, ErrorLine(p) \/ End(p) \/ ExitEvent(p) PROVE HeardInv'
  <2>1. CASE ErrorLine(p)
    BY <2>1, RestIsHeard DEF ErrorLine
  <2>2. CASE End(p)
    BY <2>2, StopsAreHeard
  <2>3. CASE ExitEvent(p)
    BY <2>3, ReportIsHeard
  <2> QED
    BY <1>4, <2>1, <2>2, <2>3
<1>5. CASE UNCHANGED vars
  BY <1>5, RestIsHeard DEF vars
<1> QED
  BY <1>1, <1>2, <1>3, <1>4, <1>5 DEF Next

\* Once its exit is reported, a process has not failed its pending launch in silence
\* and no launch waits for its build, unless the handler of an earlier process has
\* removed the listeners (lib/xcodebuild.js:376-402).
THEOREM ExitsReported == Spec => []ExitReported
<1>1. Init => HeardInv
  BY DEF Init, HeardInv, ExitReported, Alive, Ended
<1>2. Inv /\ HeardInv /\ [Next]_vars => HeardInv'
  BY HeardInductive
<1>3. HeardInv => ExitReported
  BY DEF HeardInv
<1> QED
  BY <1>1, <1>2, <1>3, Always, PTL DEF Spec

-----------------------------------------------------------------------------
(* The project file, for any number of sessions one after the other, any     *)
(* failing calls and crashes between and inside them.  Backup says what the  *)
(* backup can be while the original is still on disk; Place what the session *)
(* at work relies on at each of its places, the reset before an update above *)
(* all: it leaves no backup unless it has logged that it was unable to.      *)

\* At most one session is at work.
OneAtATime ==
    \A s, t \in Sessions : stage[s] # "idle" /\ stage[t] # "idle" => s = t

\* The project of a session is only backed up when the original is lost.
Backup == OriginalOnDisk => old \in {Absent, "original", "damaged"}

\* A session at work on an update, or done with it.
Updates(s) == stage[s] \in {"copy", "copying", "read", "write", "writing", "ready"}

\* The reset at the start is over, and nothing has followed it.
Fresh(s) == stage[s] = "copy" \/ (stage[s] = "unprepared" /\ s \notin Updating)

Place(s) ==
    /\ Updates(s) => s \in Updating
    /\ Fresh(s) /\ s \notin warned => old = Absent
    /\ stage[s] = "copying" => old = "damaged"
    /\ stage[s] = "read" => old = project
    /\ stage[s] \in {"write", "writing"} => old = "original" /\ read[s] = "original"
    /\ stage[s] = "ready" /\ OriginalOnDisk => project = s

Places == \A s \in Sessions : Place(s)

FileInv == FilesOK /\ OneAtATime /\ Backup /\ Places

\* At first the project is the original and nobody is at work.
LEMMA FilesInit == ASSUME FileInit PROVE FileInv
BY ContentsAssumption
   DEF FileInit, FileInv, FilesOK, OneAtATime, Backup, Places, Place, Updates, Fresh,
       Contents, Stages

\* What a reset leads to; only one at the start of a session with an identifier
\* leads to an update.
LEMMA AfterResetType ==
    ASSUME NEW s \in Sessions
    PROVE  /\ AfterReset(s) \in {"idle", "copy", "unprepared"}
           /\ AfterReset(s) = "copy" => s \in Updating
BY DEF AfterReset

\* A step of session s while the others are idle has to keep the types, the
\* backup and the place of s.
LEMMA OnlyOne ==
    ASSUME FileInv, NEW s \in Sessions, NEW place \in Stages,
           \A t \in Sessions \ {s} : stage[t] = "idle",
           stage' = [stage EXCEPT ![s] = place],
           FilesOK', Backup', Place(s)'
    PROVE  FileInv'
<1>1. stage \in [Sessions -> Stages]
  BY DEF FileInv, FilesOK
<1>2. \A t \in Sessions \ {s} : stage'[t] = "idle"
  BY <1>1
<1>3. OneAtATime'
  BY <1>2 DEF OneAtATime
<1>4. \A t \in Sessions \ {s} : Place(t)'
  BY <1>2 DEF Place, Updates, Fresh
<1> QED
  BY <1>3, <1>4 DEF FileInv, Places

\* At most one session is at work, so the others are idle.
LEMMA OthersIdle ==
    ASSUME FileInv, NEW s \in Sessions, stage[s] # "idle"
    PROVE  \A t \in Sessions \ {s} : stage[t] = "idle"
BY DEF FileInv, OneAtATime

\* Starting, quitting and the host's end leave the files alone, and so does the
\* reset that finds no backup.
LEMMA SessionSteps ==
    ASSUME FileInv, NEW s \in Sessions,
           StartSession(s) \/ QuitSession(s) \/ FindOld(s) \/ Crash(s)
    PROVE  FileInv'
<1> DEFINE At(place) == stage' = [stage EXCEPT ![s] = place]
<1>0. FilesOK /\ Backup /\ Place(s)
  BY DEF FileInv, Places
<1>1. /\ UNCHANGED <<project, old>>
      /\ Backup'
      /\ \A t \in Sessions \ {s} : stage[t] = "idle"
  BY <1>0, OthersIdle
     DEF StartSession, QuitSession, FindOld, Crash, Backup, OriginalOnDisk
<1>2. /\ read' \in [Sessions -> Contents \cup {Absent}]
      /\ warned' \subseteq Sessions
  BY <1>0 DEF StartSession, QuitSession, FindOld, Crash, FilesOK
<1>3. PICK place \in {"find", "idle", "find last", "copy", "unprepared", "move", "move last"} :
         /\ At(place)
         /\ place = "copy" => s \in Updating
         /\ place \in {"copy", "unprepared"} => old = Absent
  BY AfterResetType DEF StartSession, QuitSession, FindOld, Crash, Enter
<1>4. place \in Stages /\ stage'[s] = place
  BY <1>0, <1>3 DEF FilesOK, Stages
<1>5. FilesOK'
  BY <1>0, <1>1, <1>2, <1>3, <1>4 DEF FilesOK
<1>6. Place(s)'
  BY <1>1, <1>3, <1>4 DEF Place, Updates, Fresh
<1> QED
  BY <1>1, <1>3, <1>4, <1>5, <1>6, OnlyOne

\* A reset moves the backup away, or logs that it could not.
LEMMA MoveKeeps == ASSUME FileInv, NEW s \in Sessions, MoveOld(s) PROVE FileInv'
<1> DEFINE At(place) == stage' = [stage EXCEPT ![s] = place]
<1>0. FilesOK /\ Backup /\ Place(s) /\ stage[s] # "idle" /\ read' = read
  BY DEF FileInv, Places, MoveOld
<1>1. PICK place \in {"idle", "copy", "unprepared"} :
         At(place) /\ (place = "copy" => s \in Updating)
  BY AfterResetType DEF MoveOld, Enter
<1>2. place \in Stages /\ stage'[s] = place
  BY <1>0, <1>1 DEF FilesOK, Stages
<1>3. \/ old # Absent /\ project' = old /\ old' = Absent /\ warned' = warned
      \/ s \in warned' /\ warned' = warned \cup {s} /\ UNCHANGED <<project, old>>
  BY DEF MoveOld
<1>4. FilesOK'
  BY <1>0, <1>1, <1>2, <1>3 DEF FilesOK
<1>5. Backup'
  BY <1>0, <1>3 DEF Backup, OriginalOnDisk
<1>6. Place(s)'
  BY <1>1, <1>2, <1>3 DEF Place, Updates, Fresh
<1> QED
  BY <1>0, <1>1, <1>2, <1>4, <1>5, <1>6, OthersIdle, OnlyOne

\* The copy is incomplete until it ends or is removed.
LEMMA CopyKeeps ==
    ASSUME FileInv, NEW s \in Sessions, StartCopy(s) \/ EndCopy(s) PROVE FileInv'
<1> DEFINE At(place) == stage' = [stage EXCEPT ![s] = place]
<1>0. /\ FilesOK /\ Backup /\ Place(s) /\ stage[s] # "idle" /\ s \in Updating
      /\ UNCHANGED <<project, read, warned>>
  BY DEF FileInv, Places, Place, Updates, StartCopy, EndCopy
<1>1. \/ At("copying") /\ old' = "damaged"
      \/ At("read") /\ old' = project
  BY DEF StartCopy, EndCopy, Enter
<1>2. FilesOK'
  BY <1>0, <1>1 DEF FilesOK, Stages, Contents
<1>3. Backup'
  BY <1>0, <1>1, ContentsAssumption DEF Backup, OriginalOnDisk, Contents
<1>4. Place(s)'
  BY <1>0, <1>1 DEF Place, Updates, Fresh, FilesOK
<1> QED
  BY <1>0, <1>1, <1>2, <1>3, <1>4, OthersIdle, OnlyOne DEF Stages

\* replaceInFile works on the original, with a complete backup, or changes nothing.
LEMMA ReplaceKeeps ==
    ASSUME FileInv, NEW s \in Sessions,
           ReadProject(s) \/ StartWrite(s) \/ EndWrite(s)
    PROVE  FileInv'
<1> DEFINE At(place) == stage' = [stage EXCEPT ![s] = place]
<1>0. /\ FilesOK /\ Backup /\ Place(s) /\ stage[s] # "idle" /\ s \in Updating
      /\ UNCHANGED <<old, warned>>
  BY DEF FileInv, Places, Place, Updates, ReadProject, StartWrite, EndWrite
<1>1. s \in Contents /\ "damaged" \in Contents /\ "original" \in Contents
  BY DEF Contents
<1>2. CASE ReadProject(s)
  <2>1. /\ old = project /\ UNCHANGED project
        /\ read' = [read EXCEPT ![s] = project]
        /\ \/ At("write") /\ project = "original"
           \/ At("ready") /\ project # "original"
    BY <1>0, <1>2 DEF ReadProject, Enter, Place
  <2>2. FilesOK'
    BY <1>0, <2>1 DEF FilesOK, Stages
  <2>3. Backup' /\ Place(s)'
    BY <1>0, <2>1 DEF Backup, OriginalOnDisk, Place, Updates, Fresh, FilesOK
  <2> QED
    BY <1>0, <2>1, <2>2, <2>3, OthersIdle, OnlyOne DEF Stages
<1>3. CASE StartWrite(s) \/ EndWrite(s)
  <2>1. /\ old = "original" /\ read[s] = "original" /\ UNCHANGED read
        /\ \/ At("writing") /\ project' = "damaged"
           \/ At("ready") /\ project' = s
    BY <1>0, <1>3 DEF StartWrite, EndWrite, Enter, Place
  <2>2. FilesOK'
    BY <1>0, <1>1, <2>1 DEF FilesOK, Stages
  <2>3. Backup' /\ Place(s)'
    BY <1>0, <2>1 DEF Backup, OriginalOnDisk, Place, Updates, Fresh, FilesOK
  <2> QED
    BY <1>0, <2>1, <2>2, <2>3, OthersIdle, OnlyOne DEF Stages
<1> QED
  BY <1>2, <1>3

\* An update that fails leaves the files as they are, or removes its copy.
LEMMA FailureKeeps == ASSUME FileInv, NEW s \in Sessions, UpdateFails(s) PROVE FileInv'
<1>0. /\ FilesOK /\ Backup /\ Place(s) /\ stage[s] # "idle" /\ s \in Updating
      /\ UNCHANGED <<project, read, warned>>
  BY DEF FileInv, Places, Place, Updates, UpdateFails
<1>1. stage' = [stage EXCEPT ![s] = "unprepared"] /\ old' \in {old, Absent}
  BY DEF UpdateFails, Enter
<1>2. FilesOK'
  BY <1>0, <1>1 DEF FilesOK, Stages
<1>3. Backup' /\ Place(s)'
  BY <1>0, <1>1 DEF Backup, OriginalOnDisk, Place, Updates, Fresh, FilesOK
<1> QED
  BY <1>0, <1>1, <1>2, <1>3, OthersIdle, OnlyOne DEF Stages

\* No step breaks the invariant.
LEMMA FilesInductive == ASSUME FileInv, [FileNext]_fileVars PROVE FileInv'
<1>1. CASE UNCHANGED fileVars
  BY <1>1 DEF fileVars, FileInv, FilesOK, OneAtATime, Backup, OriginalOnDisk,
              Places, Place, Updates, Fresh
<1>2. CASE FileNext
  BY <1>2, SessionSteps, MoveKeeps, CopyKeeps, ReplaceKeeps, FailureKeeps DEF FileNext
<1> QED
  BY <1>1, <1>2

\* The invariants follow from it.
LEMMA FileConsequences ==
    ASSUME FileInv PROVE FilesOK /\ ResetRestores /\ ReadyWithOwnId
<1>0. FilesOK /\ Backup /\ Places
  BY DEF FileInv
<1>1. "original" # Absent
  BY ContentsAssumption DEF Contents
<1>2. ResetRestores
  BY <1>0, <1>1 DEF ResetRestores, Places, Place, Fresh, OriginalOnDisk
<1>3. ReadyWithOwnId
  BY <1>0 DEF ReadyWithOwnId, Places, Place
<1> QED
  BY <1>0, <1>2, <1>3

\* The original leaves the disk in one of the two ways only.
LEMMA FilesSurvive ==
    ASSUME FileInv, [FileNext]_fileVars, OriginalOnDisk
    PROVE  OriginalOnDisk' \/ \E s \in Sessions : LosesOriginal(s)
<1>0. Backup /\ Places /\ "original" # Absent
  BY ContentsAssumption DEF FileInv, Contents
<1>1. CASE UNCHANGED <<project, old>>
  BY <1>1 DEF OriginalOnDisk
<1>2. ASSUME NEW s \in Sessions, MoveOld(s), project' = old, old # Absent
      PROVE  OriginalOnDisk' \/ LosesOriginal(s)
  BY <1>0, <1>2 DEF MoveOld, Backup, OriginalOnDisk, LosesOriginal
<1>3. ASSUME NEW s \in Sessions, StartCopy(s)
      PROVE  OriginalOnDisk' \/ LosesOriginal(s)
  BY <1>0, <1>3 DEF StartCopy, Places, Place, Fresh, OriginalOnDisk, LosesOriginal
<1>4. ASSUME NEW s \in Sessions, EndCopy(s) \/ UpdateFails(s)
      PROVE  OriginalOnDisk'
  BY <1>0, <1>4 DEF EndCopy, UpdateFails, Places, Place, OriginalOnDisk
<1>5. ASSUME NEW s \in Sessions, StartWrite(s) \/ EndWrite(s)
      PROVE  OriginalOnDisk'
  BY <1>0, <1>5 DEF StartWrite, EndWrite, Places, Place, OriginalOnDisk
<1>6. ASSUME NEW s \in Sessions,
             StartSession(s) \/ QuitSession(s) \/ FindOld(s) \/ ReadProject(s) \/ Crash(s)
      PROVE  UNCHANGED <<project, old>>
  BY <1>6 DEF StartSession, QuitSession, FindOld, ReadProject, Crash
<1>7. ASSUME NEW s \in Sessions, MoveOld(s), ~(project' = old /\ old # Absent)
      PROVE  UNCHANGED <<project, old>>
  BY <1>7 DEF MoveOld
<1> QED
  BY <1>1, <1>2, <1>3, <1>4, <1>5, <1>6, <1>7 DEF FileNext, fileVars

\* The invariant holds in every state.
LEMMA FilesAlways == FileSpec => []FileInv
<1>1. FileInit => FileInv
  BY FilesInit
<1>2. FileInv /\ [FileNext]_fileVars => FileInv'
  BY FilesInductive
<1> QED
  BY <1>1, <1>2, PTL DEF FileSpec

\* The two files and the state of every session keep their types.
THEOREM FilesCorrect == FileSpec => []FilesOK
<1>1. FileInv => FilesOK
  BY FileConsequences
<1> QED
  BY <1>1, FilesAlways, PTL

\* Whatever fails and whenever the host ends, the original project is lost only when
\* a reset moves an incomplete backup over it, or an update backs up over the backup
\* that its reset could not move (lib/utils.js:123, 144-151).
THEOREM OriginalAlwaysSurvives == FileSpec => OriginalSurvives
<1>1. FileInv /\ [FileNext]_fileVars
      => [OriginalOnDisk => OriginalOnDisk' \/ \E s \in Sessions : LosesOriginal(s)]_fileVars
  BY FilesSurvive
<1> QED
  BY <1>1, FilesAlways, PTL DEF FileSpec, OriginalSurvives

\* While the original is on disk, a reset that does not report its own failure leaves
\* it to the update or the build that follows (lib/xcodebuild.js:130-141).
THEOREM ResetsRestore == FileSpec => []ResetRestores
<1>1. FileInv => ResetRestores
  BY FileConsequences
<1> QED
  BY <1>1, FilesAlways, PTL

\* While the original is on disk, a session whose update went through builds with its
\* own identifier, also after failed moves and incomplete backups.
THEOREM BuildsOwnId == FileSpec => []ReadyWithOwnId
<1>1. FileInv => ReadyWithOwnId
  BY FileConsequences
<1> QED
  BY <1>1, FilesAlways, PTL
=============================================================================
