----------------------- MODULE W3CActionsProperties -----------------------
(***************************************************************************)
(* What a source of actions becomes, against reference definitions that go  *)
(* through the items once, from the first to the last, the way a client     *)
(* reads them.                                                              *)
(***************************************************************************)
EXTENDS W3CActions

Made == record \notin {NIL, Refused}

(***************************************************************************)
(* Reference: an item counts unless it is a cancel or an odd number of      *)
(* cancels follow it directly.                                              *)
(***************************************************************************)
IsCancel(all, i) == all[i].type = "pointerCancel"

CancelsAfter(all, i) ==
    Cardinality({j \in i + 1..Len(all) : \A k \in i + 1..j : IsCancel(all, k)})

\* Those among the first n items, for each n.
Counting(all) ==
    LET kept[n \in 0..Len(all)] ==
            IF n = 0 THEN <<>>
            ELSE IF IsCancel(all, n) \/ CancelsAfter(all, n) % 2 = 1 THEN kept[n - 1]
            ELSE Append(kept[n - 1], all[n])
    IN kept

Counted(all) == Counting(all)[Len(all)]

(***************************************************************************)
(* Reference: a pointer that moves, touches and lifts.                      *)
(***************************************************************************)
Touching(s, k) ==
    Cardinality({i \in 1..k : s[i].type = "pointerDown" /\ ~s[i].pressure})
        - Cardinality({i \in 1..k : s[i].type = "pointerUp"})

\* A source as the standard means it: the pointer goes somewhere and touches, then
\* touches and lifts in turn and presses only while it touches.
IsGesture(s) ==
    /\ Len(s) > 1
    /\ s[1].type = "pointerMove" /\ s[1].origin # "pointer"
    /\ s[2].type = "pointerDown" /\ ~s[2].pressure
    /\ Touching(s, Len(s)) = 0
    /\ \A k \in 1..Len(s) :
          /\ s[k].type # "unusable"
          /\ Touching(s, k) \in {0, 1}
          /\ s[k].type = "pointerDown" /\ s[k].pressure =>
                SupportsPressure /\ Touching(s, k) = 1

Grow(contacts, event) ==
    ReplaceAt(contacts, Len(contacts), Append(Last(contacts), event))

\* From pointer p, item k takes its time, and may move it, touch, press or lift.
Act(s, p, k) ==
    LET time == p.time + s[k].duration
        position == IF s[k].type # "pointerMove" THEN p.position
                    ELSE IF s[k].origin = "pointer" THEN p.position + s[k].x
                    ELSE s[k].x
    IN [time |-> time, position |-> position,
        contacts |->
            CASE s[k].type = "pointerMove" /\ Touching(s, k) = 1 ->
                    Grow(p.contacts, Event("move", time, position))
              [] s[k].type = "pointerDown" /\ s[k].pressure ->
                    Grow(p.contacts, Event("press", p.time, position))
              [] s[k].type = "pointerDown" /\ ~s[k].pressure ->
                    Append(p.contacts, <<Event("touch", p.time, position)>>)
              [] s[k].type = "pointerUp" ->
                    Grow(p.contacts, Event("lift", p.time, position))
              [] OTHER -> p.contacts]

\* The pointer after each number of items.
Acting(s) ==
    LET pointer[n \in 0..Len(s)] ==
            IF n = 0 THEN [time |-> 0, position |-> 0, contacts |-> <<>>]
            ELSE Act(s, pointer[n - 1], n)
    IN pointer

Contacts(s) == Acting(s)[Len(s)].contacts

\* What a path does before its finger is up.
UntilLift(path) ==
    LET lifts == {i \in DOMAIN path : path[i].kind = "lift"}
    IN IF lifts = {} THEN path
       ELSE SubSeq(path, 1, CHOOSE i \in lifts : \A j \in lifts : i <= j)

\* Each contact of a gesture becomes a path of its own with the same touch, moves,
\* presses and lift, at the same places and times, although the first touch is made
\* by a move and a cancel is read backwards (FBW3CActionsSynthesizer.m:203-356, 624-673).
TouchesAreContacts ==
    source = "pointer" /\ record # NIL /\ IsGesture(Counted(items)) =>
        /\ Made
        /\ [n \in DOMAIN record |-> UntilLift(record[n])] = Contacts(Counted(items))

(***************************************************************************)
(* Reference: keys that are pressed and released.                           *)
(***************************************************************************)
Released(s) == Typed(s, DOMAIN s)[Len(s)]

Held(s, k, value) ==
    Cardinality({i \in 1..k : s[i].type = "keyDown" /\ s[i].value = value})
        - Cardinality({i \in 1..k : s[i].type = "keyUp" /\ s[i].value = value})

\* No key is pressed twice or released before it is pressed, and none is held
\* during a pause or in the end.
IsTyping(s) ==
    /\ s # <<>>
    /\ \A k \in 1..Len(s) : s[k].type # "unusable"
    /\ \A k \in 1..Len(s), v \in {item.value : item \in KeyItems} :
          IF s[k].type = "pause" \/ k = Len(s) THEN Held(s, k, v) = 0
          ELSE Held(s, k, v) \in {0, 1}

\* The texts of the first n paths, for each n.
Texts(paths) ==
    LET text[n \in 0..Len(paths)] ==
            IF n = 0 THEN <<>> ELSE text[n - 1] \o paths[n][1].text
    IN text

\* A source of keys is refused unless its keys go down and up in turn, and every key
\* of one that is not is typed once, in the order of the releases, however pauses
\* divide it (FBW3CActionsSynthesizer.m:408-479, 510-547).
KeysAreTyped ==
    source = "key" /\ record # NIL /\ items # <<>> =>
        /\ Made <=> IsTyping(Counted(items))
        /\ Made => Texts(record)[Len(record)] = Released(Counted(items))

\* Within a path and from path to path, events only go forward in time and never
\* beyond the pauses and moves before them, for any source that is not refused
\* (FBW3CActionsSynthesizer.m:596-616).
EventsInTime ==
    Made => \A m, n \in DOMAIN record :
               \A i \in DOMAIN record[m], j \in DOMAIN record[n] :
                  m < n \/ (m = n /\ i < j) => record[m][i].at <= record[n][j].at
=============================================================================
