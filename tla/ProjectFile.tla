----------------------------- MODULE ProjectFile -----------------------------
(***************************************************************************)
(* The bundle identifier in project.pbxproj: updateProjectFile and          *)
(* resetProjectFile of lib/utils.js as init and reset of lib/xcodebuild.js  *)
(* call them for real devices.  The project and its backup, the .old file,  *)
(* are all there is to restore the original identifier from; they outlive   *)
(* the host process, which may crash before any step.                       *)
(*                                                                          *)
(* Every call of the file system is a step of its own, and a copy or a      *)
(* write is two, since the file is incomplete in between.                   *)
(*                                                                          *)
(* The sessions on one agentPath are the client's: it has one at a time.    *)
(***************************************************************************)
EXTENDS FiniteSets

CONSTANTS
    Sessions,   \* sessions on one agentPath, each with a bundle identifier
    Updating,   \* those with updatedWDABundleId
    Absent

Contents == Sessions \cup {"original", "damaged"}

ASSUME UpdatingAssumption == Updating \subseteq Sessions
ASSUME ContentsAssumption ==
    Absent \notin Contents /\ Sessions \cap {"original", "damaged"} = {}

VARIABLES
    project,  \* contents of project.pbxproj
    old,      \* contents of project.pbxproj.old, Absent if there is none
    stage,    \* where each session is
    read,     \* contents replaceInFile of each session holds
    warned    \* sessions whose last reset logged that it was unable to

fileVars == <<project, old, stage, read, warned>>

Stages == {"idle", "find", "move", "copy", "copying", "read", "write", "writing",
          "ready", "unprepared", "find last", "move last"}

Enter(s, place) == stage' = [stage EXCEPT ![s] = place]

\* What comes after a reset: the update at the start, nothing at the end.
AfterReset(s) ==
    IF stage[s] \in {"find last", "move last"} THEN "idle"
    ELSE IF s \in Updating THEN "copy" ELSE "unprepared"

\* A launch after a failed one calls init again.
StartSession(s) ==
    /\ stage[s] \in {"idle", "ready", "unprepared"}
    /\ \A t \in Sessions \ {s} : stage[t] = "idle"
    /\ Enter(s, "find")
    /\ warned' = warned \ {s}
    /\ UNCHANGED <<project, old, read>>

\* Quitting resets only what a session with an identifier has changed.
QuitSession(s) ==
    /\ stage[s] \in {"ready", "unprepared"}
    /\ Enter(s, IF s \in Updating THEN "find last" ELSE "idle")
    /\ UNCHANGED <<project, old, read, warned>>

\* Faulty variant: an existing backup is not looked for at the start.
FindOldLast(s) ==
    /\ stage[s] \in {"find", "find last"}
    /\ Enter(s, IF stage[s] = "find" \/ old = Absent THEN AfterReset(s) ELSE "move last")
    /\ UNCHANGED <<project, old, read, warned>>

FindOld(s) ==
    /\ stage[s] \in {"find", "find last"}
    /\ Enter(s, IF old = Absent THEN AfterReset(s)
                ELSE IF stage[s] = "find" THEN "move" ELSE "move last")
    /\ UNCHANGED <<project, old, read, warned>>

\* Errors are caught and logged: the session goes on as if it had moved the file.
MoveOld(s) ==
    /\ stage[s] \in {"move", "move last"}
    /\ Enter(s, AfterReset(s))
    /\ \/ /\ old # Absent
          /\ project' = old
          /\ old' = Absent
          /\ UNCHANGED warned
       \/ /\ warned' = warned \cup {s}
          /\ UNCHANGED <<project, old>>
    /\ UNCHANGED read

(***************************************************************************)
(* updateProjectFile.  Any call of it may fail, which ends it; a copy that  *)
(* fails half-way tries to remove what it has written.                      *)
(***************************************************************************)
UpdateFails(s) ==
    /\ stage[s] \in {"copy", "copying", "read", "write", "writing"}
    /\ Enter(s, "unprepared")
    /\ old' \in IF stage[s] = "copying" THEN {Absent, old} ELSE {old}
    /\ UNCHANGED <<project, read, warned>>

StartCopy(s) ==
    /\ stage[s] = "copy"
    /\ old' = "damaged"
    /\ Enter(s, "copying")
    /\ UNCHANGED <<project, read, warned>>

EndCopy(s) ==
    /\ stage[s] = "copying"
    /\ old' = project
    /\ Enter(s, "read")
    /\ UNCHANGED <<project, read, warned>>

\* Faulty variant: the file is written without a look at what it holds.
ReadNothing(s) ==
    /\ stage[s] = "read"
    /\ Enter(s, "write")
    /\ UNCHANGED <<project, old, read, warned>>

\* replaceInFile writes only if something was replaced: no whole file but the
\* original has the identifier that is looked for, and a damaged one stays damaged.
ReadProject(s) ==
    /\ stage[s] = "read"
    /\ read' = [read EXCEPT ![s] = project]
    /\ Enter(s, IF project = "original" THEN "write" ELSE "ready")
    /\ UNCHANGED <<project, old, warned>>

StartWrite(s) ==
    /\ stage[s] = "write"
    /\ project' = "damaged"
    /\ Enter(s, "writing")
    /\ UNCHANGED <<old, read, warned>>

\* Faulty variant: what was read is written back.
WriteBack(s) ==
    /\ stage[s] = "writing"
    /\ project' = read[s]
    /\ Enter(s, "ready")
    /\ UNCHANGED <<old, read, warned>>

EndWrite(s) ==
    /\ stage[s] = "writing"
    /\ project' = IF read[s] = "original" THEN s ELSE read[s]
    /\ Enter(s, "ready")
    /\ UNCHANGED <<old, read, warned>>

\* The host process ends: the files stay as they are.
Crash(s) ==
    /\ stage[s] # "idle"
    /\ Enter(s, "idle")
    /\ read' = [read EXCEPT ![s] = Absent]
    /\ UNCHANGED <<project, old, warned>>

FileInit ==
    /\ project = "original"
    /\ old = Absent
    /\ stage = [s \in Sessions |-> "idle"]
    /\ read = [s \in Sessions |-> Absent]
    /\ warned = {}

FileNext ==
    \E s \in Sessions :
        \/ StartSession(s) \/ QuitSession(s)
        \/ FindOld(s) \/ MoveOld(s)
        \/ StartCopy(s) \/ EndCopy(s) \/ ReadProject(s)
        \/ StartWrite(s) \/ EndWrite(s) \/ UpdateFails(s)
        \/ Crash(s)

FileSpec == FileInit /\ [][FileNext]_fileVars
=============================================================================
