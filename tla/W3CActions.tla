---------------------------- MODULE W3CActions ----------------------------
(***************************************************************************)
(* What FBW3CActionsSynthesizer makes of one input source of a W3C actions  *)
(* request: its action items become the event paths XCTest plays, or the    *)
(* source is refused.  A position is a number, a time a number of units.    *)
(*                                                                          *)
(* An item of type "unusable" stands for every item refused for itself:     *)
(* an unknown type, a negative duration, half a position, a key without a   *)
(* value, an element of origin that is stale.                               *)
(***************************************************************************)
EXTENDS Naturals, FiniteSets, SequencesExt

CONSTANTS
    PointerItems,      \* [type, origin, x, duration, pressure]
    KeyItems,          \* [type, value, duration]
    Silent,            \* special keys FBMapIfSpecialCharacter has no character for
    SupportsPressure,  \* of the device
    MaxItems,          \* bound: items of one source
    NIL, Refused

PointerTypes ==
    {"pointerMove", "pointerDown", "pointerUp", "pause", "pointerCancel", "unusable"}
KeyTypes == {"keyDown", "keyUp", "pause", "pointerCancel", "unusable"}

ASSUME ItemsAssumption ==
    /\ \A item \in PointerItems \cup KeyItems : item.duration \in Nat
    /\ \A item \in PointerItems : item.type \in PointerTypes /\ item.pressure \in BOOLEAN
    /\ \A item \in KeyItems : item.type \in KeyTypes
    /\ SupportsPressure \in BOOLEAN

VARIABLES
    source,     \* "pointer" or "key"
    items,      \* what the client has put into it so far
    record      \* the event paths made of it, Refused, or NIL

vars == <<source, items, record>>

(***************************************************************************)
(* preprocessedActionItemsWith: goes backwards; a cancel takes the item     *)
(* before it, which may be a cancel.                                        *)
(***************************************************************************)
Keep(state, item) ==
    IF state.cancel THEN [kept |-> state.kept, cancel |-> FALSE]
    ELSE IF item.type = "pointerCancel" THEN [kept |-> state.kept, cancel |-> TRUE]
    ELSE [kept |-> <<item>> \o state.kept, cancel |-> FALSE]

\* The loop after each number of items.
Keeping(all) ==
    LET state[n \in 0..Len(all)] ==
            IF n = 0 THEN [kept |-> <<>>, cancel |-> FALSE]
            ELSE Keep(state[n - 1], all[Len(all) + 1 - n])
    IN state

Preprocess(all) == Keeping(all)[Len(all)].kept

(***************************************************************************)
(* The chain of items.  Its duration so far is the end of its last item.    *)
(***************************************************************************)
\* Faulty variant: the time since the last item only.
LastDuration(chain) == IF chain = <<>> THEN 0 ELSE Last(chain).duration

DurationOffset(chain) ==
    IF chain = <<>> THEN 0 ELSE Last(chain).offset + Last(chain).duration

\* Only a move with a position of its own needs no item before it.
AddGestureItem(chain, item) ==
    IF \/ chain = Refused
       \/ item.type \notin {"pointerMove", "pointerDown", "pointerUp", "pause"}
       \/ chain = <<>> /\ (item.type # "pointerMove" \/ item.origin = "pointer")
    THEN Refused
    ELSE Append(chain,
            [type |-> item.type, pressure |-> item.pressure,
             offset |-> DurationOffset(chain), duration |-> item.duration,
             position |-> IF item.type # "pointerMove" THEN Last(chain).position
                          ELSE IF item.origin = "pointer" THEN Last(chain).position + item.x
                          ELSE item.x])

\* Of the items of a keyboard only a pause takes time.
AddKeyItem(chain, item) ==
    IF chain = Refused \/ item.type \notin {"keyDown", "keyUp", "pause"}
    THEN Refused
    ELSE Append(chain,
            [type |-> item.type, value |-> item.value, offset |-> DurationOffset(chain),
             duration |-> IF item.type = "pause" THEN item.duration ELSE 0])

\* The chain after each number of items.
Chaining(kind, all) ==
    LET chain[n \in 0..Len(all)] ==
            IF n = 0 THEN <<>>
            ELSE IF kind = "pointer" THEN AddGestureItem(chain[n - 1], all[n])
            ELSE AddKeyItem(chain[n - 1], all[n])
    IN chain

(***************************************************************************)
(* addToEventPath, for pointers.  The current path is the last one made.    *)
(***************************************************************************)
Event(kind, at, position) == [kind |-> kind, at |-> at, position |-> position]

NewPath(paths, event) == Append(paths, <<event>>)
OnLastPath(paths, event) == ReplaceAt(paths, Len(paths), Append(Last(paths), event))

\* Faulty variant: a touch for every pointerDown.
PointerDownAlways(paths, chain, k) ==
    NewPath(paths, Event("touch", chain[k].offset, chain[k].position))

\* A move that opens the source has touched the screen already.
PointerDown(paths, chain, k) ==
    IF paths # <<>> /\ k = 2 /\ chain[1].type = "pointerMove" THEN paths
    ELSE IF ~chain[k].pressure
         THEN NewPath(paths, Event("touch", chain[k].offset, chain[k].position))
    ELSE IF paths = <<>> \/ ~SupportsPressure THEN Refused
    ELSE OnLastPath(paths, Event("press", chain[k].offset, chain[k].position))

PointerMove(paths, chain, k) ==
    LET arrival == chain[k].offset + chain[k].duration
    IN IF paths = <<>>
       THEN NewPath(paths, Event("touch", arrival, chain[k].position))
       ELSE OnLastPath(paths, Event("move", arrival, chain[k].position))

PointerUp(paths, chain, k) ==
    IF paths = <<>> THEN Refused
    ELSE OnLastPath(paths, Event("lift", chain[k].offset, chain[k].position))

(***************************************************************************)
(* addToEventPath, for keys.  Pauses divide the items into groups.          *)
(***************************************************************************)
Earlier(chain, k) == {i \in 1..k - 1 : \A j \in i..k : chain[j].type # "pause"}
Later(chain, k) == {i \in k + 1..Len(chain) : \A j \in k..i : chain[j].type # "pause"}

Of(chain, places, type, value) ==
    Cardinality({i \in places : chain[i].type = type /\ chain[i].value = value})

HasDownPair(chain, k) ==
    Of(chain, Earlier(chain, k), "keyDown", chain[k].value)
        = 1 + Of(chain, Earlier(chain, k), "keyUp", chain[k].value)

HasUpPair(chain, k) ==
    Of(chain, Later(chain, k), "keyUp", chain[k].value)
        = 1 + Of(chain, Later(chain, k), "keyDown", chain[k].value)

KeyDown(paths, chain, k) == IF HasUpPair(chain, k) THEN paths ELSE Refused

\* Every other value stands for the one character it is or is mapped to.
MapIfSpecialCharacter(value) == IF value \in Silent THEN <<>> ELSE <<value>>

\* What the releases at these places type, after each number of items.
Typed(chain, places) ==
    LET text[n \in 0..Len(chain)] ==
            IF n = 0 THEN <<>>
            ELSE IF n \in places /\ chain[n].type = "keyUp"
                 THEN text[n - 1] \o MapIfSpecialCharacter(chain[n].value)
            ELSE text[n - 1]
    IN text

\* Faulty variant: the text of the groups before it, too.
CollectAllText(chain, k) == Typed(chain, 1..k)[Len(chain)]

CollectText(chain, k) == Typed(chain, Earlier(chain, k) \cup {k})[Len(chain)]

\* The keys of a group are typed at once, with its last item.
KeyUp(paths, chain, k) ==
    IF ~HasDownPair(chain, k) THEN Refused
    ELSE IF k < Len(chain) /\ chain[k + 1].type # "pause" THEN paths
    ELSE NewPath(paths, [kind |-> "text", at |-> chain[k].offset,
                         text |-> CollectText(chain, k)])

(***************************************************************************)
(* asEventPathsWithError.                                                   *)
(***************************************************************************)
AddToEventPath(paths, chain, k) ==
    CASE chain[k].type = "pointerDown" -> PointerDown(paths, chain, k)
      [] chain[k].type = "pointerMove" -> PointerMove(paths, chain, k)
      [] chain[k].type = "pointerUp" -> PointerUp(paths, chain, k)
      [] chain[k].type = "keyDown" -> KeyDown(paths, chain, k)
      [] chain[k].type = "keyUp" -> KeyUp(paths, chain, k)
      [] OTHER -> paths

\* The paths after each number of items.
Pathing(chain) ==
    LET paths[k \in 0..Len(chain)] ==
            IF k = 0 THEN <<>>
            ELSE IF paths[k - 1] = Refused THEN Refused
            ELSE AddToEventPath(paths[k - 1], chain, k)
    IN paths

AsEventPaths(chain) ==
    IF chain \in {Refused, <<>>} THEN Refused ELSE Pathing(chain)[Len(chain)]

EventPaths(kind, all) ==
    LET kept == Preprocess(all)
    IN AsEventPaths(Chaining(kind, kept)[Len(kept)])

(***************************************************************************)
(* A client writes a source and has it performed.                           *)
(***************************************************************************)
AddItem ==
    /\ record = NIL /\ Len(items) < MaxItems
    /\ \E item \in IF source = "pointer" THEN PointerItems ELSE KeyItems :
          items' = Append(items, item)
    /\ UNCHANGED <<source, record>>

\* A source without items is skipped.
Synthesize ==
    /\ record = NIL
    /\ record' = IF items = <<>> THEN <<>> ELSE EventPaths(source, items)
    /\ UNCHANGED <<source, items>>

NextRequest ==
    /\ record # NIL
    /\ source' \in {"pointer", "key"}
    /\ items' = <<>> /\ record' = NIL

Init == source \in {"pointer", "key"} /\ items = <<>> /\ record = NIL

Next == AddItem \/ Synthesize \/ NextRequest

Spec == Init /\ [][Next]_vars
=============================================================================
