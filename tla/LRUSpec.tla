------------------------------ MODULE LRUSpec ------------------------------
(***************************************************************************)
(* What a least-recently-used cache promises, apart from how it is stored:  *)
(* it maps at most Capacity keys to values, every put and every successful  *)
(* get makes its key the most recently used one, and a put of a new key     *)
(* into a full cache drops the key whose last use is the oldest.            *)
(***************************************************************************)
EXTENDS Naturals, FiniteSets

CONSTANTS Keys, Values, Capacity, NIL

VARIABLES
    entries,    \* the value of each key, NIL when the key is not stored
    older,      \* for each stored key, the stored keys last used before it
    call        \* the last call and what it returned

vars == <<entries, older, call>>

Stored(e) == {k \in Keys : e[k] # NIL}

\* The order of last uses after key k has been used: k becomes the newest.
Used(o, e, k) ==
    [x \in Keys |-> IF x = k THEN Stored(e) \ {k} ELSE o[x] \ {k}]

\* The order of last uses once k is no longer stored.
Forgotten(o, k) == [x \in Keys |-> IF x = k THEN {} ELSE o[x] \ {k}]

Calls ==
    [op : {"init", "set", "get", "remove"},
     key : Keys \cup {NIL}, value : Values \cup {NIL}]

TypeOK ==
    /\ entries \in [Keys -> Values \cup {NIL}]
    /\ older \in [Keys -> SUBSET Keys]
    /\ call \in Calls

Init ==
    /\ entries = [k \in Keys |-> NIL]
    /\ older = [k \in Keys |-> {}]
    /\ call = [op |-> "init", key |-> NIL, value |-> NIL]

\* A put that needs no eviction: the key is stored already or there is room.
Put(k, v) ==
    /\ k \in Stored(entries) \/ Cardinality(Stored(entries)) < Capacity
    /\ entries' = [entries EXCEPT ![k] = v]
    /\ older' = Used(older, entries, k)
    /\ call' = [op |-> "set", key |-> k, value |-> v]

\* A put of a new key into a full cache drops the least recently used key.
\* With Capacity 0 the key just put is itself the least recently used one.
PutEvict(k, v) ==
    /\ k \notin Stored(entries)
    /\ Cardinality(Stored(entries)) >= Capacity
    /\ LET full == [entries EXCEPT ![k] = v]
           used == Used(older, entries, k)
       IN  \E victim \in Stored(full) :
              /\ used[victim] = {}
              /\ entries' = [full EXCEPT ![victim] = NIL]
              /\ older' = Forgotten(used, victim)
    /\ call' = [op |-> "set", key |-> k, value |-> v]

Get(k) ==
    /\ call' = [op |-> "get", key |-> k, value |-> entries[k]]
    /\ older' = IF k \in Stored(entries) THEN Used(older, entries, k) ELSE older
    /\ UNCHANGED entries

Remove(k) ==
    /\ entries' = [entries EXCEPT ![k] = NIL]
    /\ older' = Forgotten(older, k)
    /\ call' = [op |-> "remove", key |-> k, value |-> NIL]

Next ==
    \E k \in Keys :
        \/ \E v \in Values : Put(k, v) \/ PutEvict(k, v)
        \/ Get(k)
        \/ Remove(k)

Spec == Init /\ [][Next]_vars
=============================================================================
