---------------------- MODULE KillProcessesProperties ----------------------
(* What the three ways to end a process promise.                             *)
EXTENDS KillProcesses

\* Every variable has its type.
TypeOK ==
    /\ process \in [Procs -> {"none", "running", "ended"}]
    /\ sent \in [Procs -> SUBSET {2, 15, 9}]
    /\ worker \in [Patterns -> {"idle", "pgrep", "kill", "wait", "checked", "done"}]
    /\ round \in [Patterns -> 1..Len(Signals)]
    /\ matched \in [Patterns -> SUBSET Procs]
    /\ before \subseteq Procs
    /\ quit \in {"idle", "term", "late", "kill", "resolved", "rejected"}
    /\ exitHeard \in BOOLEAN
    /\ cleaner \in {"idle", "filter", "kill", "done"}
    /\ listed \subseteq Procs

\* When the clean-up of a pattern is over, every process it matched at the
\* beginning has ended or is about to, whatever starts and ends meanwhile and
\* whichever patterns match it as well (utils.js:56-93).
NothingLeft ==
    \A w \in Patterns, p \in Procs :
        /\ At(w, "done")
        /\ p \in (before \cap Matching[w]) \ OtherUsers
        => process[p] = "ended" \/ 9 \in sent[p]

\* A process that runs when the clean-up begins may end in order: it is sent SIGTERM
\* before SIGKILL, and SIGINT before both unless it is the host's own
\* (utils.js:57, 293-308).
GentleFirst ==
    \A p \in before :
        /\ 9 \in sent[p] => 15 \in sent[p]
        /\ 9 \in sent[p] /\ p # Own => 2 \in sent[p]

\* A signal reaches only what a pattern matches, the host's own process, and
\* servers of other devices on the port (webdriveragent.js:157-176).
OnlyMeant ==
    \A p \in Procs :
        sent[p] # {} =>
            \/ p = Own
            \/ \E w \in Patterns : p \in Matching[w]
            \/ p \in Listening \cap Obsolete

\* A quit that resolves leaves no process, also when the process ends, or is ended
\* by a clean-up, between the two signals (utils.js:286-315).
QuitEndsIt == quit = "resolved" => process[Own] # "running"

\* A clean-up comes to its end, however often it has to signal again, and in the
\* end nothing runs that ran when it began (utils.js:56-93).
ResetEnds ==
    \A w \in Patterns :
        At(w, "pgrep") ~>
            /\ At(w, "done")
            /\ \A p \in (before \cap Matching[w]) \ OtherUsers : process[p] = "ended"
=============================================================================
