------------------------ MODULE KillProcessesProofs ------------------------
(***************************************************************************)
(* The safety properties of the three ways to end a process, for any        *)
(* processes, any patterns and whatever they match.                         *)
(***************************************************************************)
EXTENDS KillProcessesProperties, TLAPS

\* What a pattern has to end.
Duty(w) == ((before \cap Matching[w]) \cap Running) \ OtherUsers

\* Where a clean-up stands with a process it has to end.
PatternOK(w) ==
    /\ matched[w] \subseteq Matching[w]
    /\ At(w, "idle") => before = {} /\ round[w] = 1
    /\ At(w, "checked") \/ At(w, "wait") => round[w] < 3
    /\ \A p \in Duty(w) :
          /\ At(w, "kill") \/ At(w, "wait") \/ At(w, "checked") => p \in matched[w]
          /\ round[w] >= 2 => 2 \in sent[p]
          /\ round[w] = 3 => 15 \in sent[p]
          /\ At(w, "wait") \/ At(w, "checked") => Signals[round[w]] \in sent[p]
          /\ At(w, "done") => 9 \in sent[p]

WorkerInv == \A w \in Patterns : PatternOK(w)

\* Before a clean-up only a quit sends SIGKILL, and not as its first signal.
KillInv ==
    \A p \in Procs :
        9 \in sent[p] =>
            \/ p = Own /\ 15 \in sent[p]
            \/ \E w \in Patterns : ~At(w, "idle")

\* What only runs later is neither sent signals nor in the snapshot.
StartInv ==
    \A p \in Procs :
        process[p] = "none" => sent[p] = {} /\ p \notin before

QuitInv ==
    /\ exitHeard => process[Own] = "ended"
    /\ quit \in {"term", "late", "kill"} /\ process[Own] = "running" => 15 \in sent[Own]
    /\ quit # "idle" => process[Own] # "none" \/ quit = "resolved"
    /\ quit = "resolved" => process[Own] # "running"

ListedInv ==
    /\ listed \subseteq Listening
    /\ cleaner = "kill" => listed \subseteq Obsolete

\* The inductive invariant.
Inv ==
    /\ TypeOK /\ WorkerInv /\ KillInv /\ StartInv /\ QuitInv /\ ListedInv
    /\ GentleFirst /\ OnlyMeant

\* A signal adds to what was sent, to processes that run.
LEMMA Signalled ==
    ASSUME TypeOK, NEW ps \in SUBSET Procs, NEW x \in {2, 15, 9}, Signal(ps, x)
    PROVE  /\ sent' \in [Procs -> SUBSET {2, 15, 9}]
           /\ \A p \in Procs : sent'[p] =
                 IF p \in ps /\ process[p] = "running" /\ p \notin OtherUsers
                 THEN sent[p] \cup {x} ELSE sent[p]
<1>1. sent \in [Procs -> SUBSET {2, 15, 9}]
  BY DEF TypeOK
<1>2. \A p \in Procs : p \in (ps \cap Running) \ OtherUsers <=>
         p \in ps /\ process[p] = "running" /\ p \notin OtherUsers
  BY DEF Running
<1> QED
  BY <1>1, <1>2 DEF Signal

LEMMA SignalsAre ==
    /\ Len(Signals) = 3
    /\ Signals[1] = 2 /\ Signals[2] = 15 /\ Signals[3] = 9
BY DEF Signals

LEMMA InitInv == Init => Inv
<1> SUFFICES ASSUME Init PROVE Inv
  OBVIOUS
<1> USE ProcsAssumption, SignalsAre DEF Init
<1>1. TypeOK
  <2>1. process \in [Procs -> {"none", "running", "ended"}]
    OBVIOUS
  <2>2. {} \in SUBSET {2, 15, 9} /\ {} \in SUBSET Procs
    OBVIOUS
  <2>3. sent \in [Procs -> SUBSET {2, 15, 9}] /\ matched \in [Patterns -> SUBSET Procs]
    BY <2>2
  <2>4. round \in [Patterns -> 1..Len(Signals)]
    BY SignalsAre
  <2> QED
    BY <2>1, <2>3, <2>4 DEF TypeOK
<1>2. WorkerInv
  BY DEF WorkerInv, PatternOK, At, Duty
<1>3. KillInv /\ StartInv /\ QuitInv /\ ListedInv /\ GentleFirst /\ OnlyMeant
  BY DEF KillInv, At, StartInv, QuitInv, ListedInv, GentleFirst, OnlyMeant
<1> QED
  BY <1>1, <1>2, <1>3 DEF Inv

LEMMA StartKeeps == ASSUME Inv, NEW q \in Procs, Start(q) PROVE Inv'
<1> USE ProcsAssumption DEF Inv, Start, resetVars
<1>1. \A p \in Procs : process'[p] = IF p = q THEN "running" ELSE process[p]
  BY DEF TypeOK
<1>2. TypeOK'
  BY DEF TypeOK
<1>3. q \notin before
  BY DEF StartInv
<1>4. WorkerInv'
  <2> SUFFICES ASSUME NEW w \in Patterns, NEW p \in Duty(w)' PROVE p \in Duty(w)
    BY DEF WorkerInv, PatternOK, At
  <2> QED
    BY <1>1, <1>3 DEF Duty, Running
<1>5. KillInv' /\ StartInv' /\ QuitInv' /\ ListedInv' /\ GentleFirst' /\ OnlyMeant'
  BY <1>1 DEF KillInv, At, StartInv, QuitInv, ListedInv, GentleFirst, OnlyMeant
<1> QED
  BY <1>2, <1>4, <1>5

LEMMA EndKeeps == ASSUME Inv, NEW q \in Procs, End(q) PROVE Inv'
<1> USE ProcsAssumption DEF Inv, End, resetVars
<1>1. \A p \in Procs : process'[p] = IF p = q THEN "ended" ELSE process[p]
  BY DEF TypeOK
<1>2. TypeOK'
  BY DEF TypeOK
<1>3. WorkerInv'
  <2> SUFFICES ASSUME NEW w \in Patterns, NEW p \in Duty(w)' PROVE p \in Duty(w)
    BY DEF WorkerInv, PatternOK, At
  <2> QED
    BY <1>1 DEF Duty, Running
<1>4. KillInv' /\ StartInv' /\ QuitInv' /\ ListedInv' /\ GentleFirst' /\ OnlyMeant'
  BY <1>1 DEF KillInv, At, StartInv, QuitInv, ListedInv, GentleFirst, OnlyMeant
<1> QED
  BY <1>2, <1>3, <1>4

\* A clean-up begins: nothing has been matched, and no round is over.
LEMMA ResetKeeps == ASSUME Inv, ResetTestProcesses PROVE Inv'
<1> USE ProcsAssumption DEF Inv, ResetTestProcesses
<1>1. TypeOK'
  BY DEF TypeOK, Running
<1>2. WorkerInv' /\ KillInv'
  BY DEF WorkerInv, PatternOK, KillInv, At
<1>3. GentleFirst'
  BY DEF KillInv, GentleFirst, At, Running
<1>4. StartInv' /\ QuitInv' /\ ListedInv' /\ OnlyMeant'
  BY DEF StartInv, QuitInv, ListedInv, OnlyMeant, Running
<1> QED
  BY <1>1, <1>2, <1>3, <1>4

\* A step of one clean-up that sends nothing keeps all but the place of that clean-up.
LEMMA OtherPartsStay ==
    ASSUME Inv, NEW w \in Patterns, NEW STATE stage, worker' = [worker EXCEPT ![w] = stage],
           stage # "idle",
           UNCHANGED <<process, sent, before, quit, exitHeard, cleaner, listed>>
    PROVE  KillInv' /\ StartInv' /\ QuitInv' /\ ListedInv' /\ GentleFirst' /\ OnlyMeant'
<1>1. \A v \in Patterns : ~At(v, "idle") => ~(At(v, "idle"))'
  BY DEF Inv, TypeOK, At
<1>2. KillInv'
  BY <1>1 DEF Inv, KillInv
<1> QED
  BY <1>2 DEF Inv, StartInv, QuitInv, ListedInv, GentleFirst, OnlyMeant

LEMMA GetPIDsKeeps == ASSUME Inv, NEW w \in Patterns, GetPIDsUsingPattern(w) PROVE Inv'
<1> USE DEF Inv, GetPIDsUsingPattern, Goto
<1> DEFINE found == Running \cap Matching[w]
<1>1. found \subseteq Procs /\ found \subseteq Matching[w]
  BY DEF Running
<1>2. Duty(w) \subseteq found
  BY DEF Duty
<1>3. /\ matched' = [matched EXCEPT ![w] = found]
      /\ worker' = [worker EXCEPT ![w] = IF found = {} THEN "done" ELSE "kill"]
      /\ UNCHANGED <<process, sent, round, before, quit, exitHeard, cleaner, listed>>
  OBVIOUS
<1> HIDE DEF found
<1>4. TypeOK'
  BY <1>1, <1>3 DEF TypeOK
<1>5. WorkerInv'
  <2> SUFFICES ASSUME NEW v \in Patterns
               PROVE  PatternOK(v)'
    BY DEF WorkerInv, PatternOK
  <2>1. UNCHANGED Duty(v)
    BY <1>3 DEF Duty, Running
  <2>2. CASE v = w
    BY <1>1, <1>2, <1>3, <2>1, <2>2 DEF WorkerInv, PatternOK, At, TypeOK
  <2>3. CASE v # w
    BY <1>3, <2>1, <2>3 DEF WorkerInv, PatternOK, At, TypeOK
  <2> QED
    BY <2>2, <2>3
<1> QED
  BY <1>3, <1>4, <1>5, OtherPartsStay


\* Every process it has to end is sent the signal of its round.
LEMMA KillMatchedKeeps == ASSUME Inv, NEW w \in Patterns, KillMatched(w) PROVE Inv'
<1> USE ProcsAssumption, SignalsAre DEF Inv, KillMatched, Goto
<1> DEFINE x == Signals[round[w]]
           stage == IF round[w] = 3 THEN "done" ELSE "wait"
<1>1. round[w] \in 1..3 /\ x \in {2, 15, 9} /\ matched[w] \in SUBSET Procs
  BY DEF TypeOK
<1>2. /\ sent' \in [Procs -> SUBSET {2, 15, 9}]
      /\ \A p \in Procs : sent'[p] =
            IF p \in matched[w] /\ process[p] = "running" /\ p \notin OtherUsers
            THEN sent[p] \cup {x} ELSE sent[p]
  BY <1>1, Signalled
<1>3. /\ worker' = [worker EXCEPT ![w] = stage]
      /\ UNCHANGED <<process, round, matched, before, quit, exitHeard, cleaner, listed>>
  OBVIOUS
<1>4. round[w] = 3 => x = 9
  OBVIOUS
<1>5. At(w, "kill")
  OBVIOUS
<1>6. \A p \in matched[w] : process[p] = "running" /\ p \notin OtherUsers /\ p \in before
         => p \in Duty(w)
  BY DEF WorkerInv, PatternOK, Duty, Running, TypeOK
<1>7. TypeOK'
  BY <1>2, <1>3 DEF TypeOK
<1>8. \A v \in Patterns : v # w => worker'[v] = worker[v]
  BY <1>3
<1>9. worker'[w] = stage
  BY <1>3 DEF TypeOK
<1>10. \A v \in Patterns : UNCHANGED Duty(v) /\ Duty(v) \subseteq Procs
  BY <1>3 DEF Duty, Running
<1>11. WorkerInv'
  <2> SUFFICES ASSUME NEW v \in Patterns PROVE PatternOK(v)'
    BY DEF WorkerInv
  <2>1. PatternOK(v)
    BY DEF WorkerInv
  <2>2. CASE v # w
    BY <1>2, <1>3, <1>8, <1>10, <2>1, <2>2 DEF PatternOK, At
  <2>3. CASE v = w
    <3>1. \A p \in Duty(w) : p \in matched[w] /\ x \in sent'[p] /\ sent[p] \subseteq sent'[p]
      BY <1>2, <1>5, <2>1, <2>3 DEF PatternOK, Duty, Running
    <3>2. round[w] < 3 => worker'[w] = "wait"
      BY <1>9
    <3>3. round[w] = 3 => worker'[w] = "done" /\ x = 9
      BY <1>4, <1>9
    <3> HIDE DEF x
    <3>4. x = Signals[round[w]]
      BY DEF x
    <3>5. worker'[w] \in {"wait", "done"} /\ (round[w] < 3 \/ round[w] = 3)
      BY <1>1, <1>9
    <3> QED
      BY <1>3, <1>10, <2>1, <2>3, <3>1, <3>2, <3>3, <3>4, <3>5 DEF PatternOK, At
  <2> QED
    BY <2>2, <2>3
<1>12. ~(At(w, "idle"))'
  BY <1>9 DEF At
<1>13. KillInv'
  BY <1>12 DEF KillInv
<1>14. GentleFirst'
  <2> SUFFICES ASSUME NEW p \in before, 9 \in sent'[p]
               PROVE  15 \in sent'[p] /\ (p # Own => 2 \in sent'[p])
    BY <1>3 DEF GentleFirst
  <2>1. p \in Procs
    BY DEF TypeOK
  <2>2. CASE 9 \in sent[p]
    BY <1>2, <2>1, <2>2 DEF GentleFirst
  <2>3. CASE 9 \notin sent[p]
    <3>1. p \in matched[w] /\ process[p] = "running" /\ p \notin OtherUsers /\ x = 9
      BY <1>2, <2>1, <2>3
    <3>2. p \in Duty(w) /\ round[w] = 3
      BY <1>1, <1>6, <3>1
    <3>3. 2 \in sent[p] /\ 15 \in sent[p]
      BY <3>2 DEF WorkerInv, PatternOK
    <3> QED
      BY <1>2, <2>1, <3>3
  <2> QED
    BY <2>2, <2>3
<1>15. OnlyMeant'
  BY <1>2 DEF OnlyMeant, WorkerInv, PatternOK
<1>16. StartInv' /\ QuitInv' /\ ListedInv'
  BY <1>2, <1>3 DEF StartInv, QuitInv, ListedInv
<1> QED
  BY <1>7, <1>11, <1>13, <1>14, <1>15, <1>16

LEMMA WaitKeeps ==
    ASSUME Inv, NEW w \in Patterns,
           WaitForCondition(w) \/ CheckAgain(w) \/ TryNextSignal(w)
    PROVE  Inv'
<1> USE ProcsAssumption, SignalsAre DEF Inv
<1>1. PICK stage \in {"checked", "wait", "done", "pgrep"} :
         worker' = [worker EXCEPT ![w] = stage]
  BY DEF WaitForCondition, CheckAgain, TryNextSignal, Goto
<1>2. UNCHANGED <<process, sent, matched, before, quit, exitHeard, cleaner, listed>>
  BY DEF WaitForCondition, CheckAgain, TryNextSignal
<1>3. PatternOK(w) /\ round[w] \in 1..3 /\ worker'[w] = stage
      /\ \A v \in Patterns : v # w => worker'[v] = worker[v]
  BY <1>1 DEF WorkerInv, TypeOK
<1>4. \A v \in Patterns : UNCHANGED Duty(v)
  BY <1>2 DEF Duty, Running
<1>5. round' \in [Patterns -> 1..3] /\ PatternOK(w)'
      /\ \A v \in Patterns : v # w => round'[v] = round[v]
  <2>1. CASE WaitForCondition(w)
    <3>1. UNCHANGED round /\ At(w, "wait")
          /\ stage = IF \E p \in matched[w] : SeemsAlive(p) THEN "checked" ELSE "done"
      BY <1>3, <2>1 DEF WaitForCondition, Goto, TypeOK
    <3>2. stage = "done" => Duty(w) = {}
      BY <1>3, <3>1 DEF PatternOK, Duty, SeemsAlive
    <3> QED
      BY <1>2, <1>3, <1>4, <3>1, <3>2 DEF TypeOK, PatternOK, At
  <2>2. CASE CheckAgain(w)
    <3>1. UNCHANGED round /\ At(w, "checked") /\ stage = "wait"
      BY <1>3, <2>2 DEF CheckAgain, Goto, TypeOK
    <3> QED
      BY <1>2, <1>3, <1>4, <3>1 DEF TypeOK, PatternOK, At
  <2>3. CASE TryNextSignal(w)
    <3>1. round' = [round EXCEPT ![w] = @ + 1] /\ At(w, "checked") /\ stage = "pgrep"
      BY <1>3, <2>3 DEF TryNextSignal, Goto, TypeOK
    <3>2. round[w] \in 1..2
      BY <1>3, <3>1 DEF PatternOK
    <3>3. round' \in [Patterns -> 1..3] /\ round'[w] = round[w] + 1
          /\ \A v \in Patterns : v # w => round'[v] = round[v]
      BY <3>1, <3>2 DEF TypeOK
    <3>4. \A p \in Duty(w) : 2 \in sent[p] /\ (round'[w] = 3 => 15 \in sent[p])
      BY <1>3, <3>1, <3>2, <3>3 DEF PatternOK
    <3> QED
      BY <1>2, <1>3, <1>4, <3>1, <3>3, <3>4 DEF PatternOK, At
  <2> QED
    BY <2>1, <2>2, <2>3
<1>6. TypeOK'
  BY <1>1, <1>2, <1>5 DEF TypeOK
<1>7. WorkerInv'
  <2> SUFFICES ASSUME NEW v \in Patterns, v # w PROVE PatternOK(v)'
    BY <1>5 DEF WorkerInv
  <2> QED
    BY <1>2, <1>3, <1>4, <1>5 DEF WorkerInv, PatternOK, At
<1> QED
  BY <1>1, <1>2, <1>6, <1>7, OtherPartsStay

\* What a clean-up knows stays true when others send signals.
LEMMA CleanupStays ==
    ASSUME Inv, \A p \in Procs : sent[p] \subseteq sent'[p],
           UNCHANGED <<process, resetVars>>
    PROVE  WorkerInv'
<1> SUFFICES ASSUME NEW v \in Patterns PROVE PatternOK(v)'
  BY DEF WorkerInv
<1>1. UNCHANGED Duty(v) /\ Duty(v) \subseteq Procs
  BY DEF Duty, Running, resetVars
<1> QED
  BY <1>1 DEF Inv, WorkerInv, PatternOK, At, resetVars

LEMMA ExitEventKeeps == ASSUME Inv, ExitEvent PROVE Inv'
<1> USE DEF Inv, ExitEvent
<1>1. TypeOK' /\ QuitInv'
  BY DEF TypeOK, QuitInv, resetVars
<1>2. KillInv' /\ StartInv' /\ ListedInv' /\ GentleFirst' /\ OnlyMeant'
  BY DEF resetVars, KillInv, At, StartInv, ListedInv, GentleFirst, OnlyMeant
<1> QED
  BY <1>1, <1>2, CleanupStays

\* The steps of a quit that send nothing.
LEMMA QuitWaitsKeeps == ASSUME Inv, Stopped \/ NotStoppedInTime PROVE Inv'
<1> USE DEF Inv, Stopped, NotStoppedInTime
<1>1. UNCHANGED <<process, sent, resetVars, exitHeard, cleaner, listed>>
  OBVIOUS
<1>2. TypeOK' /\ QuitInv'
  BY <1>1 DEF TypeOK, QuitInv, resetVars
<1>3. KillInv' /\ StartInv' /\ ListedInv' /\ GentleFirst' /\ OnlyMeant'
  BY <1>1 DEF resetVars, KillInv, At, StartInv, ListedInv, GentleFirst, OnlyMeant
<1> QED
  BY <1>1, <1>2, <1>3, CleanupStays

\* The steps of a quit that send a signal, SIGKILL only after SIGTERM.
LEMMA QuitSignalsKeeps == ASSUME Inv, KillProcess \/ SendSigkill PROVE Inv'
<1> USE ProcsAssumption DEF Inv
<1>1. UNCHANGED <<process, resetVars, exitHeard, cleaner, listed>>
  BY DEF KillProcess, SendSigkill
<1>2. CASE UNCHANGED sent /\ quit' = "resolved" /\ (process[Own] = "none" \/ exitHeard)
  <2>1. TypeOK' /\ QuitInv'
    BY <1>1, <1>2 DEF TypeOK, QuitInv, resetVars
  <2>2. KillInv' /\ StartInv' /\ ListedInv' /\ GentleFirst' /\ OnlyMeant'
    BY <1>1, <1>2 DEF resetVars, KillInv, At, StartInv, ListedInv, GentleFirst, OnlyMeant
  <2> QED
    BY <1>1, <1>2, <2>1, <2>2, CleanupStays
<1>3. ASSUME NEW x \in {15, 9}, Signal({Own}, x), ~exitHeard, process[Own] # "none",
             \/ x = 15 /\ quit = "idle" /\ quit' = "term"
             \/ x = 9 /\ quit = "late" /\ quit' = "kill"
      PROVE  Inv'
  <2>1. /\ sent' \in [Procs -> SUBSET {2, 15, 9}]
        /\ \A p \in Procs : sent'[p] =
              IF p \in {Own} /\ process[p] = "running" /\ p \notin OtherUsers
              THEN sent[p] \cup {x} ELSE sent[p]
    BY <1>3, Signalled
  <2>2. \A p \in Procs : sent[p] \subseteq sent'[p] /\ (p # Own => sent'[p] = sent[p])
    BY <2>1
  <2>3. process[Own] = "running" => 15 \in sent'[Own]
    BY <1>3, <2>1 DEF QuitInv
  <2>4. 9 \in sent'[Own] => 9 \in sent[Own] \/ 15 \in sent'[Own]
    BY <2>1, <2>3
  <2>5. TypeOK'
    BY <1>1, <1>3, <2>1 DEF TypeOK, resetVars
  <2>6. QuitInv'
    BY <1>1, <1>3, <2>3 DEF QuitInv
  <2>7. KillInv' /\ GentleFirst'
    <3>1. KillInv'
      BY <1>1, <2>2, <2>4 DEF KillInv, At, resetVars
    <3>2. before \subseteq Procs /\ before' = before
      BY <1>1 DEF TypeOK, resetVars
    <3>3. GentleFirst'
      BY <2>2, <2>4, <3>2 DEF GentleFirst
    <3> QED
      BY <3>1, <3>3
  <2>8. StartInv' /\ ListedInv' /\ OnlyMeant'
    BY <1>1, <1>3, <2>1, <2>2 DEF resetVars, StartInv, ListedInv, OnlyMeant
  <2> QED
    BY <1>1, <2>2, <2>5, <2>6, <2>7, <2>8, CleanupStays
<1>4. CASE KillProcess
  BY <1>2, <1>3, <1>4 DEF KillProcess
<1>5. CASE SendSigkill
  <2>1. process[Own] # "none"
    BY <1>5 DEF QuitInv, SendSigkill
  <2> QED
    BY <1>2, <1>3, <1>5, <2>1 DEF SendSigkill
<1> QED
  BY <1>4, <1>5

LEMMA CleaningKeeps == ASSUME Inv, Cleaning PROVE Inv'
<1> USE DEF Inv
<1>1. UNCHANGED <<process, resetVars, quit, exitHeard>>
  BY DEF Cleaning, GetPIDsListeningOnPort, FilterPIDs, KillObsolete
<1>2. CASE GetPIDsListeningOnPort \/ FilterPIDs
  <2>1. UNCHANGED sent
    BY <1>2 DEF GetPIDsListeningOnPort, FilterPIDs
  <2>2. TypeOK' /\ ListedInv'
    BY <1>1, <1>2, <2>1 DEF GetPIDsListeningOnPort, FilterPIDs, TypeOK, ListedInv,
                            Running, resetVars
  <2>3. KillInv' /\ StartInv' /\ QuitInv' /\ GentleFirst' /\ OnlyMeant'
    BY <1>1, <2>1 DEF resetVars, KillInv, At, StartInv, QuitInv, GentleFirst, OnlyMeant
  <2> QED
    BY <1>1, <2>1, <2>2, <2>3, CleanupStays
<1>3. CASE KillObsolete
  <2>1. Signal(listed, 15) /\ cleaner = "kill" /\ cleaner' = "done" /\ listed' = listed
        /\ listed \in SUBSET Procs
    BY <1>3 DEF KillObsolete, TypeOK
  <2>2. /\ sent' \in [Procs -> SUBSET {2, 15, 9}]
        /\ \A p \in Procs : sent'[p] =
              IF p \in listed /\ process[p] = "running" /\ p \notin OtherUsers
              THEN sent[p] \cup {15} ELSE sent[p]
    BY <2>1, Signalled
  <2>3. \A p \in Procs : sent[p] \subseteq sent'[p] /\ (9 \in sent'[p] => 9 \in sent[p])
    BY <2>2
  <2>4. TypeOK' /\ ListedInv'
    BY <1>1, <2>1, <2>2 DEF TypeOK, ListedInv, resetVars
  <2>5. KillInv' /\ QuitInv'
    BY ProcsAssumption, <1>1, <2>3 DEF resetVars, KillInv, At, QuitInv
  <2>6. GentleFirst'
    <3>1. before \subseteq Procs /\ before' = before
      BY <1>1 DEF TypeOK, resetVars
    <3> QED
      BY <2>3, <3>1 DEF GentleFirst
  <2>7. StartInv' /\ OnlyMeant'
    BY <1>1, <2>1, <2>2 DEF resetVars, StartInv, ListedInv, OnlyMeant
  <2> QED
    BY <1>1, <2>3, <2>4, <2>5, <2>6, <2>7, CleanupStays
<1> QED
  BY <1>2, <1>3 DEF Cleaning

LEMMA Inductive == Inv /\ [Next]_vars => Inv'
<1> SUFFICES ASSUME Inv, [Next]_vars PROVE Inv'
  OBVIOUS
<1>1. CASE \E p \in Procs : Start(p) \/ End(p)
  BY <1>1, StartKeeps, EndKeeps
<1>2. CASE ResetTestProcesses
  BY <1>2, ResetKeeps
<1>3. CASE \E w \in Patterns : KillApp(w)
  BY <1>3, GetPIDsKeeps, KillMatchedKeeps, WaitKeeps DEF KillApp
<1>4. CASE ExitEvent \/ KillProcess \/ Quitting
  BY <1>4, ExitEventKeeps, QuitWaitsKeeps, QuitSignalsKeeps DEF Quitting
<1>5. CASE Cleaning
  BY <1>5, CleaningKeeps
<1>6. CASE UNCHANGED vars
  <2> USE <1>6 DEF vars, resetVars, Inv
  <2>1. TypeOK'
    BY DEF TypeOK
  <2>2. KillInv' /\ StartInv' /\ QuitInv' /\ ListedInv' /\ GentleFirst' /\ OnlyMeant'
    BY DEF KillInv, At, StartInv, QuitInv, ListedInv, GentleFirst, OnlyMeant
  <2> QED
    BY <2>1, <2>2, CleanupStays
<1> QED
  BY <1>1, <1>2, <1>3, <1>4, <1>5, <1>6 DEF Next

LEMMA Always == Spec => []Inv
BY InitInv, Inductive, PTL DEF Spec

-----------------------------------------------------------------------------

\* Processes, clean-ups and quits keep their types: no clean-up goes on after its
\* last signal (utils.js:56-93).
THEOREM TypeCorrect == Spec => []TypeOK
<1>1. Inv => TypeOK
  BY DEF Inv
<1> QED
  BY <1>1, Always, PTL

\* A finished clean-up leaves nothing that ran when it began and that it may
\* signal, for any number of patterns side by side (utils.js:56-93, 346-355).
THEOREM CleanupEndsAll == Spec => []NothingLeft
<1>1. Inv => NothingLeft
  <2> SUFFICES ASSUME Inv, NEW w \in Patterns, NEW p \in Procs, At(w, "done"),
                      p \in (before \cap Matching[w]) \ OtherUsers,
                      process[p] # "ended"
               PROVE  9 \in sent[p]
    BY DEF NothingLeft
  <2>1. process[p] = "running"
    BY DEF Inv, StartInv, TypeOK
  <2>2. p \in Duty(w)
    BY <2>1 DEF Duty, Running
  <2> QED
    BY <2>2 DEF Inv, WorkerInv, PatternOK
<1> QED
  BY <1>1, Always, PTL

\* SIGKILL is the last of the signals for whatever ran when the clean-up began,
\* also when a quit signals the same process (utils.js:57, 293-308).
THEOREM SignalsEscalate == Spec => []GentleFirst
<1>1. Inv => GentleFirst
  BY DEF Inv
<1> QED
  BY <1>1, Always, PTL

\* Nobody else is signalled (webdriveragent.js:157-176).
THEOREM OthersSpared == Spec => []OnlyMeant
<1>1. Inv => OnlyMeant
  BY DEF Inv
<1> QED
  BY <1>1, Always, PTL

\* A quit that resolves leaves its process ended (utils.js:286-315).
THEOREM QuitEnds == Spec => []QuitEndsIt
<1>1. Inv => QuitEndsIt
  BY DEF Inv, QuitInv, QuitEndsIt
<1> QED
  BY <1>1, Always, PTL
=============================================================================
