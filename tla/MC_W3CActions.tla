--------------------------- MODULE MC_W3CActions ---------------------------
(* A finger that can go to two places, at once or in one unit, or aside, and  *)
(* a keyboard with two keys of which one types nothing.                       *)
EXTENDS W3CActionsProperties

CONSTANTS a, null

Pointer(type, origin, x, duration, pressure) ==
    [type |-> type, origin |-> origin, x |-> x, duration |-> duration, pressure |-> pressure]

Finger ==
    {Pointer("pointerMove", "viewport", 1, 0, FALSE),
     Pointer("pointerMove", "viewport", 5, 1, FALSE),
     Pointer("pointerMove", "pointer", 1, 0, FALSE),
     Pointer("pause", "viewport", 0, 1, FALSE)}
    \cup {Pointer(t, "viewport", 0, 0, FALSE) :
              t \in {"pointerDown", "pointerUp", "pointerCancel", "unusable"}}
    \cup {Pointer("pointerDown", "viewport", 0, 0, TRUE)}

Keyboard ==
    {[type |-> t, value |-> v, duration |-> 0] : t \in {"keyDown", "keyUp"}, v \in {a, null}}
    \cup {[type |-> t, value |-> a, duration |-> 1] : t \in {"pause", "pointerCancel", "unusable"}}
=============================================================================
