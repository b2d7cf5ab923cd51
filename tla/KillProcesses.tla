--------------------------- MODULE KillProcesses ---------------------------
(***************************************************************************)
(* How the host ends processes, lib/utils.js: the clean-up before a launch  *)
(* (resetTestProcesses, one killAppUsingPattern per pattern, side by side), *)
(* the quit of the process the host has started itself (killProcess) and    *)
(* the removal of servers other devices have left on the port               *)
(* (cleanupObsoleteProcesses).  They run in one event loop, each await lets *)
(* the others go on, and processes start and end in between.                *)
(*                                                                          *)
(* The identifier of a process is taken to be its own for good.             *)
(***************************************************************************)
EXTENDS Naturals, Sequences

CONSTANTS
    Procs,        \* processes, each of which runs at most once
    Patterns,     \* the patterns of one reset
    Matching,     \* the processes whose command line each pattern matches
    OtherUsers,   \* processes the host may not signal
    Listening,    \* processes with the port open
    Obsolete,     \* servers of other devices, by their command line
    Own           \* the process behind this.xcodebuild

ASSUME ProcsAssumption ==
    /\ Matching \in [Patterns -> SUBSET Procs]
    /\ Own \in Procs \ OtherUsers

VARIABLES
    process,     \* each process: "none", "running" or "ended"
    sent,        \* signals it has been sent
    worker,      \* where each killAppUsingPattern is
    round,       \* its place in signals
    matched,     \* its matchedPids
    before,      \* processes that ran when the reset began
    quit,        \* where killProcess is
    exitHeard,   \* the end of Own has been reported to its SubProcess
    cleaner,     \* where cleanupObsoleteProcesses is
    listed       \* the identifiers it works with

resetVars == <<worker, round, matched, before>>
vars == <<process, sent, resetVars, quit, exitHeard, cleaner, listed>>

\* Faulty variant: the other way round.
SignalsHarshestFirst == <<9, 15, 2>>

Signals == <<2, 15, 9>>     \* SIGINT, SIGTERM, SIGKILL

Running == {p \in Procs : process[p] = "running"}

\* kill, and SubProcess.stop: whom the host may not signal is not reached.
Signal(ps, signal) ==
    sent' = [p \in Procs |-> IF p \in (ps \cap Running) \ OtherUsers
                             THEN sent[p] \cup {signal} ELSE sent[p]]

\* kill -0 succeeds.
SeemsAlive(p) == p \in Running \ OtherUsers

(***************************************************************************)
(* The processes.  They may end by themselves, or of any signal or none.    *)
(***************************************************************************)
Start(p) ==
    /\ process[p] = "none"
    /\ p = Own => quit = "idle"
    /\ process' = [process EXCEPT ![p] = "running"]
    /\ UNCHANGED <<sent, resetVars, quit, exitHeard, cleaner, listed>>

End(p) ==
    /\ process[p] = "running"
    /\ process' = [process EXCEPT ![p] = "ended"]
    /\ UNCHANGED <<sent, resetVars, quit, exitHeard, cleaner, listed>>

EndKilled(p) == 9 \in sent[p] /\ End(p)

(***************************************************************************)
(* resetTestProcesses and killAppUsingPattern.                              *)
(***************************************************************************)
At(w, stage) == worker[w] = stage
Goto(w, stage) == worker' = [worker EXCEPT ![w] = stage]

ResetTestProcesses ==
    /\ \A w \in Patterns : At(w, "idle")
    /\ worker' = [w \in Patterns |-> "pgrep"]
    /\ before' = Running
    /\ UNCHANGED <<process, sent, round, matched, quit, exitHeard, cleaner, listed>>

GetPIDsUsingPattern(w) ==
    /\ At(w, "pgrep")
    /\ matched' = [matched EXCEPT ![w] = Running \cap Matching[w]]
    /\ Goto(w, IF Running \cap Matching[w] = {} THEN "done" ELSE "kill")
    /\ UNCHANGED <<process, sent, round, before, quit, exitHeard, cleaner, listed>>

\* There is no wait after the last signal.
KillMatched(w) ==
    /\ At(w, "kill")
    /\ Signal(matched[w], Signals[round[w]])
    /\ Goto(w, IF round[w] = Len(Signals) THEN "done" ELSE "wait")
    /\ UNCHANGED <<process, round, matched, before, quit, exitHeard, cleaner, listed>>

\* Faulty variant: one process that has ended is enough.
WaitForSome(w) ==
    /\ At(w, "wait")
    /\ Goto(w, IF \A p \in matched[w] : SeemsAlive(p) THEN "checked" ELSE "done")
    /\ UNCHANGED <<process, sent, round, matched, before, quit, exitHeard, cleaner, listed>>

WaitForCondition(w) ==
    /\ At(w, "wait")
    /\ Goto(w, IF \E p \in matched[w] : SeemsAlive(p) THEN "checked" ELSE "done")
    /\ UNCHANGED <<process, sent, round, matched, before, quit, exitHeard, cleaner, listed>>

CheckAgain(w) ==
    /\ At(w, "checked")
    /\ Goto(w, "wait")
    /\ UNCHANGED <<process, sent, round, matched, before, quit, exitHeard, cleaner, listed>>

\* Faulty variant: the same signal again.
TrySameSignal(w) ==
    /\ At(w, "checked")
    /\ Goto(w, "pgrep")
    /\ UNCHANGED <<process, sent, round, matched, before, quit, exitHeard, cleaner, listed>>

TryNextSignal(w) ==
    /\ At(w, "checked")
    /\ round' = [round EXCEPT ![w] = @ + 1]
    /\ Goto(w, "pgrep")
    /\ UNCHANGED <<process, sent, matched, before, quit, exitHeard, cleaner, listed>>

(***************************************************************************)
(* killProcess.  The SubProcess takes its process to run until the end is   *)
(* reported, and throws when it is to stop one that does not.               *)
(***************************************************************************)
ExitEvent ==
    /\ process[Own] = "ended" /\ ~exitHeard
    /\ exitHeard' = TRUE
    /\ UNCHANGED <<process, sent, resetVars, quit, cleaner, listed>>

KillProcess ==
    /\ quit = "idle"
    /\ IF process[Own] = "none" \/ exitHeard
       THEN quit' = "resolved" /\ UNCHANGED sent
       ELSE quit' = "term" /\ Signal({Own}, 15)
    /\ UNCHANGED <<process, resetVars, exitHeard, cleaner, listed>>

Stopped ==
    /\ quit \in {"term", "kill"} /\ exitHeard
    /\ quit' = "resolved"
    /\ UNCHANGED <<process, sent, resetVars, exitHeard, cleaner, listed>>

\* Faulty variant: the first time-out is taken for the end.
StoppedInTime ==
    /\ quit \in {"term", "kill"} /\ ~exitHeard
    /\ quit' = IF quit = "term" THEN "resolved" ELSE "rejected"
    /\ UNCHANGED <<process, sent, resetVars, exitHeard, cleaner, listed>>

NotStoppedInTime ==
    /\ quit \in {"term", "kill"} /\ ~exitHeard
    /\ quit' = IF quit = "term" THEN "late" ELSE "rejected"
    /\ UNCHANGED <<process, sent, resetVars, exitHeard, cleaner, listed>>

\* Only "not currently running" is forgiven.
SendSigkill ==
    /\ quit = "late"
    /\ IF exitHeard
       THEN quit' = "resolved" /\ UNCHANGED sent
       ELSE quit' = "kill" /\ Signal({Own}, 9)
    /\ UNCHANGED <<process, resetVars, exitHeard, cleaner, listed>>

(***************************************************************************)
(* cleanupObsoleteProcesses: lsof, then ps for each process that listens,   *)
(* of which some have ended by then, and one kill.                          *)
(***************************************************************************)
GetPIDsListeningOnPort ==
    /\ cleaner = "idle"
    /\ listed' = Running \cap Listening
    /\ cleaner' = IF Running \cap Listening = {} THEN "done" ELSE "filter"
    /\ UNCHANGED <<process, sent, resetVars, quit, exitHeard>>

\* Faulty variant: whatever has the port.
KeepPIDs ==
    /\ cleaner = "filter"
    /\ listed' = listed \cap Running
    /\ cleaner' = IF listed \cap Running = {} THEN "done" ELSE "kill"
    /\ UNCHANGED <<process, sent, resetVars, quit, exitHeard>>

FilterPIDs ==
    /\ cleaner = "filter"
    /\ listed' = listed \cap Running \cap Obsolete
    /\ cleaner' = IF listed \cap Running \cap Obsolete = {} THEN "done" ELSE "kill"
    /\ UNCHANGED <<process, sent, resetVars, quit, exitHeard>>

KillObsolete ==
    /\ cleaner = "kill"
    /\ Signal(listed, 15)
    /\ cleaner' = "done"
    /\ UNCHANGED <<process, resetVars, quit, exitHeard, listed>>

Init ==
    /\ process \in [Procs -> {"none", "running"}]
    /\ sent = [p \in Procs |-> {}]
    /\ worker = [w \in Patterns |-> "idle"]
    /\ round = [w \in Patterns |-> 1]
    /\ matched = [w \in Patterns |-> {}]
    /\ before = {}
    /\ quit = "idle" /\ exitHeard = FALSE
    /\ cleaner = "idle" /\ listed = {}

KillApp(w) ==
    \/ GetPIDsUsingPattern(w) \/ KillMatched(w) \/ WaitForCondition(w)
    \/ CheckAgain(w) \/ TryNextSignal(w)

Quitting == Stopped \/ NotStoppedInTime \/ SendSigkill

Cleaning == GetPIDsListeningOnPort \/ FilterPIDs \/ KillObsolete

Next ==
    \/ \E p \in Procs : Start(p) \/ End(p)
    \/ ResetTestProcesses \/ \E w \in Patterns : KillApp(w)
    \/ ExitEvent \/ KillProcess \/ Quitting
    \/ Cleaning

\* Commands come back, the waits have an end, and SIGKILL ends a process.
Fairness ==
    /\ \A w \in Patterns : WF_vars(KillApp(w)) /\ SF_vars(TryNextSignal(w))
    /\ WF_vars(Quitting)
    /\ \A p \in Procs : WF_vars(EndKilled(p))

Spec == Init /\ [][Next]_vars /\ Fairness
=============================================================================
