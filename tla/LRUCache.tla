------------------------------ MODULE LRUCache ------------------------------
(***************************************************************************)
(* Utilities/LRUCache/LRUCache.m: a dictionary from keys to the nodes of a  *)
(* doubly linked list, most recently used node first.  The methods of the   *)
(* class are operators on the state of one cache, so that FBElementCache    *)
(* can be built from them; the behaviour specification below lets a client  *)
(* call them in any order.                                                  *)
(*                                                                          *)
(* Objective-C nodes live as long as something refers to them: a node that  *)
(* no field of the cache or of a live node names is free, its fields are    *)
(* gone, and a new node is any free one.                                    *)
(***************************************************************************)
EXTENDS Naturals, FiniteSets, Sequences

CONSTANTS Keys, Values, Nodes, Capacity, NIL

ASSUME CapacityAssumption == Capacity \in Nat
ASSUME FiniteKeys == IsFiniteSet(Keys)
ASSUME NilAssumption == NIL \notin Keys \cup Values \cup Nodes

VARIABLES
    cache,    \* the cache object: its fields and those of its nodes
    call      \* the last call and what it returned

vars == <<cache, call>>

EmptyCache ==
    [store |-> [k \in Keys |-> NIL],    \* the dictionary, NIL for no entry
     head  |-> NIL,
     tail  |-> NIL,
     key   |-> [n \in Nodes |-> NIL],
     value |-> [n \in Nodes |-> NIL],
     next  |-> [n \in Nodes |-> NIL],
     prev  |-> [n \in Nodes |-> NIL]]

Caches ==
    [store : [Keys -> Nodes \cup {NIL}],
     head  : Nodes \cup {NIL},
     tail  : Nodes \cup {NIL},
     key   : [Nodes -> Keys \cup {NIL}],
     value : [Nodes -> Values \cup {NIL}],
     next  : [Nodes -> Nodes \cup {NIL}],
     prev  : [Nodes -> Nodes \cup {NIL}]]

StoredKeys(c) == {k \in Keys : c.store[k] # NIL}
Live(c) == {c.store[k] : k \in StoredKeys(c)}
Count(c) == Cardinality(StoredKeys(c))

\* An assignment through a pointer that may be nil, in which case the message
\* goes nowhere.
Assign(field, p, q) == IF p = NIL THEN field ELSE [field EXCEPT ![p] = q]

\* Nodes that neither the dictionary, head, tail nor a live node refers to.
Fresh(c) ==
    {n \in Nodes : /\ n \notin Live(c) \cup {c.head, c.tail}
                   /\ \A m \in Live(c) : c.next[m] # n /\ c.prev[m] # n}

\* Reference counting deallocates the nodes nothing refers to any more.
Release(c) ==
    LET Kept(field) == [n \in Nodes |-> IF n \in Fresh(c) THEN NIL ELSE field[n]]
    IN  [store |-> c.store, head |-> c.head, tail |-> c.tail,
         key |-> Kept(c.key), value |-> Kept(c.value),
         next |-> Kept(c.next), prev |-> Kept(c.prev)]

RemoveNode(c, n) ==
    [store |-> [c.store EXCEPT ![c.key[n]] = NIL],
     head  |-> IF c.head = n THEN c.next[n] ELSE c.head,
     tail  |-> IF c.tail = n THEN c.prev[n] ELSE c.tail,
     key   |-> c.key,
     value |-> c.value,
     next  |-> Assign(c.next, c.prev[n], c.next[n]),
     prev  |-> Assign(c.prev, c.next[n], c.prev[n])]

\* Faulty variant: the old head is not linked back to the new one.
AddNodeToHeadOneWay(c, n) ==
    IF c.head = n THEN c
    ELSE [c EXCEPT !.next = [c.next EXCEPT ![n] = c.head],
                   !.head = n,
                   !.tail = IF c.tail # NIL THEN c.tail
                            ELSE IF c.head # NIL THEN c.head ELSE n]

AddNodeToHead(c, n) ==
    IF c.head = n THEN c
    ELSE [store |-> c.store,
          head  |-> n,
          tail  |-> IF c.tail # NIL THEN c.tail
                    ELSE IF c.head # NIL THEN c.head ELSE n,
          key   |-> c.key,
          value |-> c.value,
          next  |-> [c.next EXCEPT ![n] = c.head],
          prev  |-> [Assign(c.prev, c.head, n) EXCEPT ![n] = NIL]]

\* Take the node out of the list, the dictionary keeping it.
Unlink(c, n) ==
    [store |-> c.store,
     head  |-> c.head,
     tail  |-> IF c.tail = n THEN c.prev[n] ELSE c.tail,
     key   |-> c.key,
     value |-> c.value,
     next  |-> Assign(c.next, c.prev[n], c.next[n]),
     prev  |-> Assign(c.prev, c.next[n], c.prev[n])]

\* Faulty variant: a get does not bump the node.
MoveNodeNowhere(c, n) == c

MoveNodeToHead(c, n) ==
    IF n = NIL \/ c.head = n THEN c ELSE AddNodeToHead(Unlink(c, n), n)

\* Faulty variants: the limit is off by one; the newest entry is dropped.
AlignSizeLate(c) ==
    IF Count(c) > Capacity + 1 /\ c.tail # NIL
    THEN RemoveNode(c, c.tail) ELSE c
AlignSizeHead(c) ==
    IF Count(c) > Capacity /\ c.tail # NIL THEN RemoveNode(c, c.head) ELSE c

AlignSize(c) ==
    IF Count(c) > Capacity /\ c.tail # NIL THEN RemoveNode(c, c.tail) ELSE c

\* [LRUCacheNode nodeWithValue:key:] and its entry in the dictionary.
NewNode(c, n, k, v) ==
    [store |-> [c.store EXCEPT ![k] = n],
     head  |-> c.head,
     tail  |-> c.tail,
     key   |-> [c.key EXCEPT ![n] = k],
     value |-> [c.value EXCEPT ![n] = v],
     next  |-> [c.next EXCEPT ![n] = NIL],
     prev  |-> [c.prev EXCEPT ![n] = NIL]]

SetObject(c, k, v, n) ==
    LET previous == c.store[k]
    IN  IF previous # NIL
        THEN AddNodeToHead(NewNode(RemoveNode(c, previous), n, k, v), n)
        ELSE AlignSize(AddNodeToHead(NewNode(c, n, k, v), n))

\* Faulty variant: the node itself is handed out.
NodeForKey(c, k) == c.store[k]

ObjectForKey(c, k) == IF c.store[k] = NIL THEN NIL ELSE c.value[c.store[k]]

RemoveObjectForKey(c, k) ==
    IF c.store[k] = NIL THEN c ELSE RemoveNode(c, c.store[k])

\* The pointers met from p along link, one more than there are nodes, so that
\* links that run in a circle show.
Chain(p, link) ==
    LET at[i \in 1 .. Cardinality(Nodes) + 1] ==
            IF i = 1 THEN p
            ELSE IF at[i - 1] = NIL THEN NIL ELSE link[at[i - 1]]
    IN  at

\* The nodes among them: behind nil there is only nil.
Walk(p, link) ==
    LET at == Chain(p, link)
    IN  [i \in 1 .. Cardinality({j \in DOMAIN at : at[j] # NIL}) |-> at[i]]

AllObjects(c) ==
    LET nodes == Walk(c.head, c.next)
    IN  [i \in DOMAIN nodes |-> c.value[nodes[i]]]

-----------------------------------------------------------------------------

Calls ==
    [op : {"init", "set", "get", "remove"},
     key : Keys \cup {NIL}, value : Values \cup {NIL}]

Init ==
    /\ cache = EmptyCache
    /\ call = [op |-> "init", key |-> NIL, value |-> NIL]

SetObjectForKey(k, v) ==
    /\ \E n \in Fresh(cache) : cache' = Release(SetObject(cache, k, v, n))
    /\ call' = [op |-> "set", key |-> k, value |-> v]

GetObjectForKey(k) ==
    /\ cache' = MoveNodeToHead(cache, cache.store[k])
    /\ call' = [op |-> "get", key |-> k, value |-> ObjectForKey(cache, k)]

RemoveObject(k) ==
    /\ cache' = Release(RemoveObjectForKey(cache, k))
    /\ call' = [op |-> "remove", key |-> k, value |-> NIL]

Next ==
    \E k \in Keys :
        \/ \E v \in Values : SetObjectForKey(k, v)
        \/ GetObjectForKey(k)
        \/ RemoveObject(k)

Spec == Init /\ [][Next]_vars

TypeOK == cache \in Caches /\ call \in Calls
=============================================================================
