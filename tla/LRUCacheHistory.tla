--------------------------- MODULE LRUCacheHistory ---------------------------
(***************************************************************************)
(* LRUCache with a history variable that records the order in which the     *)
(* stored keys were last used, and the refinement of LRUSpec it allows.     *)
(* `older` is never read by the cache.                                      *)
(***************************************************************************)
EXTENDS LRUCache

VARIABLE older    \* for each stored key, the stored keys last used before it

hvars == <<cache, call, older>>

LRU == INSTANCE LRUSpec
          WITH entries <- [k \in Keys |-> ObjectForKey(cache, k)]

\* Key k has just been used; only keys that are still stored are remembered.
Record(k) ==
    older' = [x \in Keys |->
                IF x \notin StoredKeys(cache') THEN {}
                ELSE IF x = k THEN StoredKeys(cache') \ {k}
                ELSE (older[x] \cap StoredKeys(cache')) \ {k}]

HInit == Init /\ older = [k \in Keys |-> {}]

HSet(k, v) == SetObjectForKey(k, v) /\ Record(k)
HGet(k) == /\ GetObjectForKey(k)
           /\ IF cache.store[k] = NIL THEN UNCHANGED older ELSE Record(k)
HRemove(k) == RemoveObject(k) /\ Record(k)

HNext ==
    \E k \in Keys :
        \/ \E v \in Values : HSet(k, v)
        \/ HGet(k)
        \/ HRemove(k)

HSpec == HInit /\ [][HNext]_hvars

-----------------------------------------------------------------------------

\* o[k] is the set of keys of S used before k: the order of last uses is a
\* strict total order of S.
Ordered(o, S) ==
    /\ \A a \in Keys \ S : o[a] = {}
    /\ \A a \in S : o[a] \subseteq S \ {a}
    /\ \A a, b \in S : a # b => (a \in o[b] <=> b \notin o[a])
    /\ \A a, b \in S : a \in o[b] => o[a] \subseteq o[b]

\* Key b is the one used last before key a.
JustOlder(o, b, a) == o[a] = o[b] \cup {b}

\* The list holds the nodes of the keys in S in the order o, the newest at
\* the head: `next` leads from a node to the one used just before it and
\* `prev` back.
Linked(c, o, S) ==
    /\ \A k \in S : /\ c.store[k] \in Nodes
                    /\ c.key[c.store[k]] = k
                    /\ c.value[c.store[k]] \in Values
    /\ \/ S = {} /\ c.head = NIL
       \/ \E h \in S : c.head = c.store[h] /\ o[h] = S \ {h}
    /\ \/ S = {} /\ c.tail = NIL
       \/ \E t \in S : c.tail = c.store[t] /\ o[t] = {}
    /\ \A a \in S :
          \/ c.next[c.store[a]] = NIL /\ o[a] = {}
          \/ \E b \in S : c.next[c.store[a]] = c.store[b] /\ JustOlder(o, b, a)
    /\ \A b \in S :
          \/ c.prev[c.store[b]] = NIL /\ o[b] = S \ {b}
          \/ \E a \in S : c.prev[c.store[b]] = c.store[a] /\ JustOlder(o, b, a)

\* The recorded order is total and the list represents it: what the pointer
\* operations of LRUCache.m:71-136, which update up to five pointers one
\* after the other, have to preserve together.
ListInv ==
    /\ Ordered(older, StoredKeys(cache))
    /\ Linked(cache, older, StoredKeys(cache))

\* The cache never holds more than Capacity entries: setObject trims it only
\* when the key was absent (LRUCache.m:49-51), one entry at a time.
WithinCapacity == Count(cache) <= Capacity

\* Walking the list from either end meets every stored node once, and
\* allObjects returns the values "ORDERED by recent bump" (LRUCache.h:45):
\* the value at place i is that of the key with exactly Count - i older ones.
ByRecency ==
    LET forward == Walk(cache.head, cache.next)
        backward == Walk(cache.tail, cache.prev)
        n == Count(cache)
    IN  /\ Len(forward) = n /\ Len(backward) = n
        /\ \A i \in 1 .. n :
              /\ backward[i] = forward[n + 1 - i]
              /\ \E k \in StoredKeys(cache) :
                    /\ cache.store[k] = forward[i]
                    /\ Cardinality(older[k]) = n - i
                    /\ AllObjects(cache)[i] = ObjectForKey(cache, k)

\* The pointer structure behaves as the abstract cache: every call returns
\* what LRUSpec allows and the entry dropped is the least recently used one.
ImplementsLRU == LRU!Spec
=============================================================================
