----------------------------- MODULE MC_Session -----------------------------
(* Two instances of Session: one for the sessions, the applications and the   *)
(* recordings, without alerts; one for the alert monitors, with a single      *)
(* application besides the home screen.                                       *)
EXTENDS SessionProperties

CONSTANTS app, stubborn, home, m1, m2, r1, r2

TwoApps == {app, home}
ThreeApps == {app, stubborn, home}
TheStubborn == {stubborn}
OneMonitor == {m1}
TwoMonitors == {m1, m2}
TwoRecordings == {r1, r2}
Nothing == {}

Caps(a, force, url, terminate, action) ==
    [app |-> a, force |-> force, url |-> url, terminate |-> terminate, action |-> action]

AppCapabilities ==
    {Caps(app, TRUE, FALSE, TRUE, NIL), Caps(app, TRUE, TRUE, FALSE, NIL),
     Caps(app, FALSE, FALSE, TRUE, NIL), Caps(stubborn, FALSE, TRUE, FALSE, NIL),
     Caps(NIL, TRUE, TRUE, TRUE, NIL), Caps(home, FALSE, FALSE, TRUE, NIL)}

AlertCapabilities ==
    {Caps(NIL, TRUE, FALSE, TRUE, NIL), Caps(NIL, TRUE, FALSE, TRUE, "accept"),
     Caps(app, TRUE, FALSE, FALSE, "")}

Ask(respect, defaultApp, selector, action) ==
    [respect |-> respect, defaultApp |-> defaultApp, selector |-> selector,
     action |-> action]

AppSettings ==
    {Ask(TRUE, NIL, NIL, NIL), Ask(NIL, stubborn, NIL, NIL), Ask(NIL, "auto", NIL, NIL)}

AlertSettings ==
    {Ask(NIL, NIL, "valid", NIL), Ask(NIL, NIL, "empty", NIL),
     Ask(NIL, NIL, "invalid", "accept"), Ask(NIL, NIL, NIL, "dismiss")}
=============================================================================
