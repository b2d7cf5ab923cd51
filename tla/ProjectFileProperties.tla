----------------------- MODULE ProjectFileProperties -----------------------
(***************************************************************************)
(* What init, reset and a crash at any point may do to the project file,    *)
(* for sessions one after the other: the two ways there are to lose the     *)
(* original for good, and what holds until then.                            *)
(***************************************************************************)
EXTENDS ProjectFile

\* The files hold complete contents or damaged ones, and each session is
\* between two calls of the code.
FilesOK ==
    /\ project \in Contents
    /\ old \in Contents \cup {Absent}
    /\ stage \in [Sessions -> Stages]
    /\ read \in [Sessions -> Contents \cup {Absent}]
    /\ warned \subseteq Sessions

\* There is something to restore the project from.
OriginalOnDisk == project = "original" \/ old = "original"

\* The two ways to lose it: a reset moves a backup over the project that a crash or
\* an error has cut short (lib/utils.js:144 after 123), and an update makes its backup
\* over the one that the reset before it could not move (123 after 146-151).
LosesOriginal(s) ==
    \/ stage[s] \in {"move", "move last"} /\ old = "damaged"
    \/ stage[s] = "copy" /\ s \in warned

\* No other step loses the original, in place or as the backup, after any number of
\* sessions, failing calls and crashes between and inside them (lib/utils.js:104-152).
OriginalSurvives ==
    [][OriginalOnDisk => OriginalOnDisk' \/ \E s \in Sessions : LosesOriginal(s)]_fileVars

\* "In case the project still has the user specific bundle ID, reset the project
\* file first" (lib/xcodebuild.js:132), whether or not an update follows: what a
\* reset leaves to the build or the update is the original, as long as it is on disk
\* and unless this reset has logged that it was unable to.
ResetRestores ==
    \A s \in Sessions :
        /\ stage[s] = "copy" \/ (stage[s] = "unprepared" /\ s \notin Updating)
        /\ OriginalOnDisk /\ s \notin warned
        => project = "original"

\* "if necessary, update the bundleId to user's specification"
\* (lib/xcodebuild.js:130): when the update of a session went through, the build
\* uses the identifier of that session; it uses another one, or a damaged project,
\* only when the original is lost for good.
ReadyWithOwnId ==
    \A s \in Sessions : stage[s] = "ready" /\ OriginalOnDisk => project = s
=============================================================================
