--------------------------- MODULE LRUCacheProofs ---------------------------
(***************************************************************************)
(* The pointer operations of LRUCache keep the list in the order of last    *)
(* uses, for every capacity and every finite set of keys, allObjects walks  *)
(* it in that order, and the cache implements LRUSpec.  Each lemma is about *)
(* one method; an action is then the composition of the lemmas of the       *)
(* methods it calls.                                                        *)
(***************************************************************************)
EXTENDS LRUCacheHistory, FiniteSetTheorems, WellFoundedInduction,
        SequenceTheorems, TLAPS

\* The order of last uses after a key was added or bumped, and removed.
Newest(o, S, k) == [x \in Keys |-> IF x = k THEN S \ {k} ELSE o[x] \ {k}]
Without(o, k) == [x \in Keys |-> IF x = k THEN {} ELSE o[x] \ {k}]

Orders == [Keys -> SUBSET Keys]

-----------------------------------------------------------------------------
(* The order alone.                                                          *)

LEMMA WithoutOrdered ==
    ASSUME NEW o \in Orders, NEW S \in SUBSET Keys, NEW k \in S, Ordered(o, S)
    PROVE  Without(o, k) \in Orders /\ Ordered(Without(o, k), S \ {k})
BY DEF Ordered, Without, Orders

LEMMA NewestOrdered ==
    ASSUME NEW o \in Orders, NEW S \in SUBSET Keys, NEW k \in Keys \ S,
           Ordered(o, S)
    PROVE  /\ Newest(o, S, k) \in Orders
           /\ Ordered(Newest(o, S, k), S \cup {k})
BY DEF Ordered, Newest, Orders

-----------------------------------------------------------------------------
(* The pointer operations.                                                   *)

\* Two different keys of S are never at the same place of the order.
LEMMA SamePlace ==
    ASSUME NEW o \in Orders, NEW S \in SUBSET Keys, Ordered(o, S),
           NEW a \in S, NEW b \in S, o[a] = o[b]
    PROVE  a = b
BY DEF Ordered, Orders

\* A fresh node with its dictionary entry leaves the list alone.
LEMMA NewNodeLinked ==
    ASSUME NEW c \in Caches, NEW o \in Orders, NEW S \in SUBSET Keys,
           Linked(c, o, S), NEW k \in Keys \ S, NEW v \in Values,
           NEW n \in Nodes, \A j \in S : c.store[j] # n
    PROVE  LET d == NewNode(c, n, k, v) IN
           /\ d \in Caches
           /\ Linked(d, o, S)
           /\ d.store = [c.store EXCEPT ![k] = n]
           /\ d.value = [c.value EXCEPT ![n] = v]
           /\ d.key[n] = k /\ d.value[n] = v
<1> DEFINE d == NewNode(c, n, k, v)
<1>1. d \in Caches
  BY DEF NewNode, Caches
<1>2. /\ d.store = [c.store EXCEPT ![k] = n]
      /\ d.head = c.head /\ d.tail = c.tail
      /\ d.key = [c.key EXCEPT ![n] = k]
      /\ d.value = [c.value EXCEPT ![n] = v]
      /\ d.next = [c.next EXCEPT ![n] = NIL]
      /\ d.prev = [c.prev EXCEPT ![n] = NIL]
  BY DEF NewNode, Caches
<1>3. \A j \in S : /\ d.store[j] = c.store[j] /\ c.store[j] \in Nodes
                   /\ c.store[j] # n
                   /\ d.key[c.store[j]] = c.key[c.store[j]]
                   /\ d.value[c.store[j]] = c.value[c.store[j]]
                   /\ d.next[c.store[j]] = c.next[c.store[j]]
                   /\ d.prev[c.store[j]] = c.prev[c.store[j]]
  BY <1>2 DEF Linked, Caches
<1>4. Linked(d, o, S)
  BY <1>2, <1>3 DEF Linked
<1>5. d.key[n] = k /\ d.value[n] = v
  BY <1>2 DEF Caches
<1> QED
  BY <1>1, <1>2, <1>4, <1>5

\* addNodeToHead: puts a node that is not in the list at its front.
LEMMA AddLinked ==
    ASSUME NEW c \in Caches, NEW o \in Orders, NEW S \in SUBSET Keys,
           Ordered(o, S), Linked(c, o, S), NEW k \in Keys \ S,
           c.store[k] \in Nodes, c.key[c.store[k]] = k,
           c.value[c.store[k]] \in Values
    PROVE  LET d == AddNodeToHead(c, c.store[k]) IN
           /\ d \in Caches
           /\ Linked(d, Newest(o, S, k), S \cup {k})
           /\ d.store = c.store /\ d.key = c.key /\ d.value = c.value
<1> DEFINE n == c.store[k]
           d == AddNodeToHead(c, n)
           p == Newest(o, S, k)
           T == S \cup {k}
<1>0. NIL \notin Nodes
  BY NilAssumption
<1>1. \A j \in S : c.store[j] \in Nodes /\ c.store[j] # n /\ c.key[c.store[j]] = j
  BY DEF Linked
<1>2. c.head # n
  BY <1>0, <1>1 DEF Linked
<1>3. /\ d \in Caches
      /\ d.store = c.store /\ d.key = c.key /\ d.value = c.value
      /\ d.head = n
      /\ d.next = [c.next EXCEPT ![n] = c.head]
      /\ d.prev = [Assign(c.prev, c.head, n) EXCEPT ![n] = NIL]
      /\ d.tail = IF c.tail # NIL THEN c.tail
                  ELSE IF c.head # NIL THEN c.head ELSE n
  BY <1>0, <1>2 DEF AddNodeToHead, Caches, Assign
<1>4. p[k] = S /\ \A a \in S : p[a] = o[a]
  BY DEF Newest, Orders, Ordered
<1>5. \A a \in T : /\ d.store[a] \in Nodes
                   /\ d.key[d.store[a]] = a
                   /\ d.value[d.store[a]] \in Values
  BY <1>1, <1>3 DEF Linked
<1>6. \E h \in T : d.head = d.store[h] /\ p[h] = T \ {h}
  BY <1>3, <1>4
<1>7. \E t \in T : d.tail = d.store[t] /\ p[t] = {}
  BY <1>0, <1>1, <1>3, <1>4 DEF Linked
<1>8. \A a \in T :
         \/ d.next[d.store[a]] = NIL /\ p[a] = {}
         \/ \E b \in T : d.next[d.store[a]] = d.store[b] /\ JustOlder(p, b, a)
  <2>1. ASSUME NEW a \in S
        PROVE  \/ d.next[d.store[a]] = NIL /\ p[a] = {}
               \/ \E b \in T : /\ d.next[d.store[a]] = d.store[b]
                               /\ JustOlder(p, b, a)
    <3>1. d.next[d.store[a]] = c.next[c.store[a]]
      BY <1>1, <1>3 DEF Caches
    <3> QED
      BY <3>1, <1>3, <1>4 DEF Linked, JustOlder
  <2>2. \/ d.next[d.store[k]] = NIL /\ p[k] = {}
        \/ \E b \in T : d.next[d.store[k]] = d.store[b] /\ JustOlder(p, b, k)
    <3>1. d.next[n] = c.head
      BY <1>3 DEF Caches
    <3> QED
      BY <3>1, <1>3, <1>4 DEF Linked, JustOlder
  <2> QED
    BY <2>1, <2>2
<1>9. \A b \in T :
         \/ d.prev[d.store[b]] = NIL /\ p[b] = T \ {b}
         \/ \E a \in T : d.prev[d.store[b]] = d.store[a] /\ JustOlder(p, b, a)
  <2>1. d.prev[n] = NIL /\ p[k] = T \ {k}
    BY <1>3, <1>4 DEF Caches, Assign
  <2>2. ASSUME NEW b \in S, c.head = c.store[b]
        PROVE  d.prev[d.store[b]] = d.store[k] /\ JustOlder(p, b, k)
    <3>1. d.prev[c.store[b]] = n
      BY <1>0, <1>1, <1>3, <2>2 DEF Caches, Assign
    <3>2. PICK h \in S : c.head = c.store[h] /\ o[h] = S \ {h}
      BY <1>0, <1>1, <2>2 DEF Linked
    <3>3. h = b
      BY <3>2, <2>2, <1>1
    <3> QED
      BY <3>1, <3>2, <3>3, <1>3, <1>4 DEF JustOlder
  <2>3. ASSUME NEW b \in S, c.head # c.store[b]
        PROVE  \E a \in T : d.prev[d.store[b]] = d.store[a] /\ JustOlder(p, b, a)
    <3>1. d.prev[c.store[b]] = c.prev[c.store[b]]
      BY <1>1, <1>3, <2>3 DEF Caches, Assign
    <3>2. PICK h \in S : c.head = c.store[h] /\ o[h] = S \ {h}
      BY <2>3 DEF Linked
    <3>3. o[b] # S \ {b}
      BY <3>2, <2>3 DEF Ordered
    <3>4. \E a \in S : c.prev[c.store[b]] = c.store[a] /\ JustOlder(o, b, a)
      BY <3>3 DEF Linked
    <3> QED
      BY <3>1, <3>4, <1>3, <1>4 DEF JustOlder
  <2> QED
    BY <2>1, <2>2, <2>3, <1>3
<1>10. Linked(d, p, T)
  BY <1>5, <1>6, <1>7, <1>8, <1>9 DEF Linked
<1> QED
  BY <1>3, <1>10

\* Both ways to take node n out of the list rewrite the pointers of its
\* neighbours in the same way.
CutNext(c, n) == Assign(c.next, c.prev[n], c.next[n])
CutPrev(c, n) == Assign(c.prev, c.next[n], c.prev[n])
CutTail(c, n) == IF c.tail = n THEN c.prev[n] ELSE c.tail

LEMMA CutNextLinked ==
    ASSUME NEW c \in Caches, NEW o \in Orders, NEW S \in SUBSET Keys,
           Ordered(o, S), Linked(c, o, S), NEW k \in S, NEW a \in S \ {k}
    PROVE  LET p == Without(o, k)
               next == CutNext(c, c.store[k])
           IN  \/ next[c.store[a]] = NIL /\ p[a] = {}
               \/ \E b \in S \ {k} : /\ next[c.store[a]] = c.store[b]
                                      /\ JustOlder(p, b, a)
<1> DEFINE n == c.store[k]
           p == Without(o, k)
           next == CutNext(c, n)
<1>0. NIL \notin Nodes
  BY NilAssumption
<1>1. \A j \in S : c.store[j] \in Nodes /\ c.key[c.store[j]] = j
  BY DEF Linked
<1>2. \A j \in S \ {k} : p[j] = o[j] \ {k}
  BY DEF Without
<1>3. CASE c.prev[n] = c.store[a]
  <2>1. next[c.store[a]] = c.next[n]
    BY <1>0, <1>1, <1>3 DEF CutNext, Assign, Caches
  <2>2. JustOlder(o, k, a)
    BY <1>0, <1>1, <1>3 DEF Linked
  <2>3. CASE c.next[n] = NIL /\ o[k] = {}
    BY <2>1, <2>2, <2>3, <1>2 DEF JustOlder
  <2>4. ASSUME NEW b \in S, c.next[n] = c.store[b], JustOlder(o, b, k)
        PROVE  \E d \in S \ {k} : /\ next[c.store[a]] = c.store[d]
                                  /\ JustOlder(p, d, a)
    <3>1. b # k
      BY <2>4 DEF JustOlder, Ordered
    <3>2. k \notin o[k] /\ k \notin o[b]
      BY <2>4 DEF JustOlder, Ordered
    <3>3. p[a] = p[b] \cup {b}
      BY <2>2, <2>4, <3>1, <3>2, <1>2 DEF JustOlder
    <3> QED
      BY <2>1, <2>4, <3>1, <3>3 DEF JustOlder
  <2> QED
    BY <2>3, <2>4 DEF Linked
<1>4. CASE c.prev[n] # c.store[a]
  <2>1. next[c.store[a]] = c.next[c.store[a]]
    BY <1>1, <1>4 DEF CutNext, Assign, Caches
  <2>2. CASE c.next[c.store[a]] = NIL /\ o[a] = {}
    BY <2>1, <2>2, <1>2
  <2>3. ASSUME NEW b \in S, c.next[c.store[a]] = c.store[b], JustOlder(o, b, a)
        PROVE  \E d \in S \ {k} : /\ next[c.store[a]] = c.store[d]
                                  /\ JustOlder(p, d, a)
    <3>1. ASSUME b = k PROVE FALSE
      <4>1. o[a] = o[k] \cup {k}
        BY <2>3, <3>1 DEF JustOlder
      <4>2. a \notin o[k]
        BY <4>1 DEF Ordered
      <4>3. PICK d \in S : c.prev[n] = c.store[d] /\ JustOlder(o, k, d)
        BY <4>2 DEF Linked
      <4>4. d = a
        BY <4>1, <4>3, SamePlace, o[d] = o[a] DEF JustOlder
      <4> QED
        BY <4>3, <4>4, <1>4
    <3>2. p[a] = p[b] \cup {b}
      BY <2>3, <3>1, <1>2 DEF JustOlder
    <3> QED
      BY <2>1, <2>3, <3>1, <3>2 DEF JustOlder
  <2> QED
    BY <2>2, <2>3 DEF Linked
<1> QED
  BY <1>3, <1>4

LEMMA CutPrevLinked ==
    ASSUME NEW c \in Caches, NEW o \in Orders, NEW S \in SUBSET Keys,
           Ordered(o, S), Linked(c, o, S), NEW k \in S, NEW b \in S \ {k}
    PROVE  LET p == Without(o, k)
               T == S \ {k}
               prev == CutPrev(c, c.store[k])
           IN  \/ prev[c.store[b]] = NIL /\ p[b] = T \ {b}
               \/ \E a \in T : /\ prev[c.store[b]] = c.store[a]
                               /\ JustOlder(p, b, a)
<1> DEFINE n == c.store[k]
           p == Without(o, k)
           T == S \ {k}
           prev == CutPrev(c, n)
<1>0. NIL \notin Nodes
  BY NilAssumption
<1>1. \A j \in S : c.store[j] \in Nodes /\ c.key[c.store[j]] = j
  BY DEF Linked
<1>2. \A j \in S \ {k} : p[j] = o[j] \ {k}
  BY DEF Without
<1>3. CASE c.next[n] = c.store[b]
  <2>1. prev[c.store[b]] = c.prev[n]
    BY <1>0, <1>1, <1>3 DEF CutPrev, Assign, Caches
  <2>2. JustOlder(o, b, k)
    BY <1>0, <1>1, <1>3 DEF Linked
  <2>3. k \notin o[k] /\ k \notin o[b] /\ b \notin o[b]
    BY <2>2 DEF JustOlder, Ordered
  <2>4. CASE c.prev[n] = NIL /\ o[k] = S \ {k}
    <3>1. p[b] = T \ {b}
      BY <2>2, <2>3, <2>4, <1>2 DEF JustOlder
    <3> QED
      BY <2>1, <2>4, <3>1
  <2>5. ASSUME NEW a \in S, c.prev[n] = c.store[a], JustOlder(o, k, a)
        PROVE  \E d \in T : prev[c.store[b]] = c.store[d] /\ JustOlder(p, b, d)
    <3>1. a # k
      BY <2>5, <2>3 DEF JustOlder
    <3>2. p[a] = p[b] \cup {b}
      BY <2>2, <2>3, <2>5, <3>1, <1>2 DEF JustOlder
    <3> QED
      BY <2>1, <2>5, <3>1, <3>2 DEF JustOlder
  <2> QED
    BY <2>4, <2>5 DEF Linked
<1>4. CASE c.next[n] # c.store[b]
  <2>1. prev[c.store[b]] = c.prev[c.store[b]]
    BY <1>1, <1>4 DEF CutPrev, Assign, Caches
  <2>2. CASE c.prev[c.store[b]] = NIL /\ o[b] = S \ {b}
    BY <2>1, <2>2, <1>2
  <2>3. ASSUME NEW a \in S, c.prev[c.store[b]] = c.store[a], JustOlder(o, b, a)
        PROVE  \E d \in T : prev[c.store[b]] = c.store[d] /\ JustOlder(p, b, d)
    <3>1. ASSUME a = k PROVE FALSE
      <4>1. o[k] = o[b] \cup {b}
        BY <2>3, <3>1 DEF JustOlder
      <4>2. PICK d \in S : c.next[n] = c.store[d] /\ JustOlder(o, d, k)
        BY <4>1 DEF Linked
      <4>3. d = b
        <5>1. o[k] = o[d] \cup {d}
          BY <4>2 DEF JustOlder
        <5>2. b \notin o[b] /\ d \notin o[d]
          BY DEF Ordered
        <5>3. CASE d # b
          <6>1. d \in o[b] /\ b \in o[d]
            BY <4>1, <5>1, <5>3
          <6> QED
            BY <6>1, <5>3 DEF Ordered
        <5> QED
          BY <5>3
      <4> QED
        BY <4>2, <4>3, <1>4
    <3>2. p[a] = p[b] \cup {b}
      BY <2>3, <3>1, <1>2 DEF JustOlder
    <3> QED
      BY <2>1, <2>3, <3>1, <3>2 DEF JustOlder
  <2> QED
    BY <2>2, <2>3 DEF Linked
<1> QED
  BY <1>3, <1>4

\* n is the tail of the list of the keys in S.
IsTail(n, c, o, S) ==
    \/ S = {} /\ n = NIL
    \/ \E t \in S : n = c.store[t] /\ o[t] = {}

\* The tail of what remains once the node of k is cut out.
LEMMA CutTailLinked ==
    ASSUME NEW c \in Caches, NEW o \in Orders, NEW S \in SUBSET Keys,
           Ordered(o, S), Linked(c, o, S), NEW k \in S
    PROVE  IsTail(CutTail(c, c.store[k]), c, Without(o, k), S \ {k})
<1> DEFINE n == c.store[k]
           p == Without(o, k)
           T == S \ {k}
<1>1. \A j \in S : c.store[j] \in Nodes /\ c.key[c.store[j]] = j
  BY DEF Linked
<1>2. \A j \in T : p[j] = o[j] \ {k}
  BY DEF Without
<1>3. PICK t \in S : c.tail = c.store[t] /\ o[t] = {}
  BY DEF Linked
<1>4. CASE t = k
  <2>1. CASE c.prev[n] = NIL /\ o[k] = S \ {k}
    BY <1>3, <1>4, <2>1 DEF CutTail, IsTail
  <2>2. ASSUME NEW a \in S, c.prev[n] = c.store[a], JustOlder(o, k, a)
        PROVE  a \in T /\ p[a] = {}
    BY <1>2, <1>3, <1>4, <2>2 DEF JustOlder, Ordered
  <2> QED
    BY <1>3, <1>4, <2>1, <2>2 DEF Linked, CutTail, IsTail
<1>5. CASE t # k
  BY <1>1, <1>2, <1>3, <1>5 DEF CutTail, IsTail
<1> QED
  BY <1>4, <1>5

\* The nodes of a list differ from nil, so cutting one keeps the types.
LEMMA CutTypes ==
    ASSUME NEW c \in Caches, NEW n \in Nodes
    PROVE  /\ CutNext(c, n) \in [Nodes -> Nodes \cup {NIL}]
           /\ CutPrev(c, n) \in [Nodes -> Nodes \cup {NIL}]
BY DEF CutNext, CutPrev, Assign, Caches

\* moveNodeToHead, first half: the node leaves the list, which has another
\* head, and stays in the dictionary.
LEMMA UnlinkLinked ==
    ASSUME NEW c \in Caches, NEW o \in Orders, NEW S \in SUBSET Keys,
           Ordered(o, S), Linked(c, o, S), NEW k \in S, c.head # c.store[k]
    PROVE  LET d == Unlink(c, c.store[k]) IN
           /\ d \in Caches
           /\ Linked(d, Without(o, k), S \ {k})
           /\ d.store = c.store /\ d.key = c.key /\ d.value = c.value
<1> DEFINE n == c.store[k]
           d == Unlink(c, n)
           p == Without(o, k)
           T == S \ {k}
<1>1. n \in Nodes /\ \A j \in T : p[j] = o[j] \ {k}
  BY DEF Linked, Without
<1>2. /\ d.store = c.store /\ d.key = c.key /\ d.value = c.value
      /\ d.head = c.head
      /\ d.tail = CutTail(c, n)
      /\ d.next = CutNext(c, n)
      /\ d.prev = CutPrev(c, n)
  BY DEF Unlink, CutNext, CutPrev, CutTail
<1>3. d \in Caches
  BY <1>1, CutTypes DEF Unlink, CutNext, CutPrev, Caches
<1>4. \E h \in T : d.head = d.store[h] /\ p[h] = T \ {h}
  BY <1>1, <1>2 DEF Linked
<1>5. \/ T = {} /\ d.tail = NIL
      \/ \E t \in T : d.tail = d.store[t] /\ p[t] = {}
  <2>1. IsTail(CutTail(c, n), c, p, T)
    BY CutTailLinked
  <2> HIDE DEF d
  <2> QED
    BY <1>2, <2>1 DEF IsTail
<1>6. \A a \in T :
         \/ d.next[d.store[a]] = NIL /\ p[a] = {}
         \/ \E b \in T : d.next[d.store[a]] = d.store[b] /\ JustOlder(p, b, a)
  BY <1>2, CutNextLinked
<1>7. \A b \in T :
         \/ d.prev[d.store[b]] = NIL /\ p[b] = T \ {b}
         \/ \E a \in T : d.prev[d.store[b]] = d.store[a] /\ JustOlder(p, b, a)
  BY <1>2, CutPrevLinked
<1>8. Linked(d, p, T)
  BY <1>2, <1>4, <1>5, <1>6, <1>7 DEF Linked
<1> QED
  BY <1>2, <1>3, <1>8

\* removeNode: the node leaves the list and the dictionary.
LEMMA RemoveLinked ==
    ASSUME NEW c \in Caches, NEW o \in Orders, NEW S \in SUBSET Keys,
           Ordered(o, S), Linked(c, o, S), NEW k \in S
    PROVE  LET d == RemoveNode(c, c.store[k]) IN
           /\ d \in Caches
           /\ Linked(d, Without(o, k), S \ {k})
           /\ d.store = [c.store EXCEPT ![k] = NIL]
           /\ d.key = c.key /\ d.value = c.value
<1> DEFINE n == c.store[k]
           d == RemoveNode(c, n)
           p == Without(o, k)
           T == S \ {k}
<1>1. /\ n \in Nodes /\ c.key[n] = k
      /\ \A j \in S : c.store[j] \in Nodes /\ c.key[c.store[j]] = j
      /\ \A j \in T : p[j] = o[j] \ {k}
  BY DEF Linked, Without
<1>2. /\ d.store = [c.store EXCEPT ![k] = NIL]
      /\ d.key = c.key /\ d.value = c.value
      /\ d.head = IF c.head = n THEN c.next[n] ELSE c.head
      /\ d.tail = CutTail(c, n)
      /\ d.next = CutNext(c, n)
      /\ d.prev = CutPrev(c, n)
  BY <1>1 DEF RemoveNode, CutNext, CutPrev, CutTail
<1>3. d \in Caches
  BY <1>1, CutTypes DEF RemoveNode, CutNext, CutPrev, Caches
<1>4. \A j \in T : d.store[j] = c.store[j]
  BY <1>2 DEF Caches
<1>5. \/ T = {} /\ d.head = NIL
      \/ \E h \in T : d.head = d.store[h] /\ p[h] = T \ {h}
  <2>1. PICK h \in S : c.head = c.store[h] /\ o[h] = S \ {h}
    BY DEF Linked
  <2>2. CASE h # k
    BY <1>1, <1>2, <1>4, <2>1, <2>2
  <2>3. CASE h = k
    <3>1. CASE c.next[n] = NIL /\ o[k] = {}
      BY <1>2, <2>1, <2>3, <3>1
    <3>2. ASSUME NEW b \in S, c.next[n] = c.store[b], JustOlder(o, b, k)
          PROVE  b \in T /\ p[b] = T \ {b}
      <4>1. k \notin o[k] /\ b \notin o[b]
        BY DEF Ordered
      <4> QED
        BY <1>1, <2>1, <2>3, <3>2, <4>1 DEF JustOlder
    <3> QED
      BY <1>2, <1>4, <2>1, <2>3, <3>1, <3>2 DEF Linked
  <2> QED
    BY <2>2, <2>3
<1>6. \/ T = {} /\ d.tail = NIL
      \/ \E t \in T : d.tail = d.store[t] /\ p[t] = {}
  <2>1. IsTail(CutTail(c, n), c, p, T)
    BY CutTailLinked
  <2> HIDE DEF d
  <2> QED
    BY <1>2, <1>4, <2>1 DEF IsTail
<1>7. \A a \in T :
         \/ d.next[d.store[a]] = NIL /\ p[a] = {}
         \/ \E b \in T : d.next[d.store[a]] = d.store[b] /\ JustOlder(p, b, a)
  BY <1>2, <1>4, CutNextLinked
<1>8. \A b \in T :
         \/ d.prev[d.store[b]] = NIL /\ p[b] = T \ {b}
         \/ \E a \in T : d.prev[d.store[b]] = d.store[a] /\ JustOlder(p, b, a)
  BY <1>2, <1>4, CutPrevLinked
<1>9. Linked(d, p, T)
  BY <1>1, <1>2, <1>4, <1>5, <1>6, <1>7, <1>8 DEF Linked
<1> QED
  BY <1>2, <1>3, <1>9

\* Deallocation touches no node of the list.
LEMMA ReleaseLinked ==
    ASSUME NEW c \in Caches, NEW o \in Orders, Linked(c, o, StoredKeys(c))
    PROVE  LET d == Release(c) IN
           /\ d \in Caches
           /\ StoredKeys(d) = StoredKeys(c)
           /\ Linked(d, o, StoredKeys(c))
           /\ \A k \in Keys : ObjectForKey(d, k) = ObjectForKey(c, k)
<1> DEFINE d == Release(c)
           S == StoredKeys(c)
<1>1. /\ d.store = c.store /\ d.head = c.head /\ d.tail = c.tail
      /\ d.key = [n \in Nodes |-> IF n \in Fresh(c) THEN NIL ELSE c.key[n]]
      /\ d.value = [n \in Nodes |-> IF n \in Fresh(c) THEN NIL ELSE c.value[n]]
      /\ d.next = [n \in Nodes |-> IF n \in Fresh(c) THEN NIL ELSE c.next[n]]
      /\ d.prev = [n \in Nodes |-> IF n \in Fresh(c) THEN NIL ELSE c.prev[n]]
  BY DEF Release
<1>2. d \in Caches
  BY DEF Release, Caches
<1>3. \A k \in S : c.store[k] \in Nodes /\ c.store[k] \notin Fresh(c)
  BY DEF Fresh, Live, Linked
<1>4. \A k \in S : /\ d.store[k] = c.store[k]
                   /\ d.key[c.store[k]] = c.key[c.store[k]]
                   /\ d.value[c.store[k]] = c.value[c.store[k]]
                   /\ d.next[c.store[k]] = c.next[c.store[k]]
                   /\ d.prev[c.store[k]] = c.prev[c.store[k]]
  BY <1>1, <1>3
<1>5. \/ S = {} /\ d.head = NIL
      \/ \E h \in S : d.head = d.store[h] /\ o[h] = S \ {h}
  BY <1>1 DEF Linked
<1>6. \/ S = {} /\ d.tail = NIL
      \/ \E t \in S : d.tail = d.store[t] /\ o[t] = {}
  BY <1>1 DEF Linked
<1>7. ASSUME NEW a \in S
      PROVE  /\ \/ d.next[d.store[a]] = NIL /\ o[a] = {}
                \/ \E b \in S : /\ d.next[d.store[a]] = d.store[b]
                                /\ JustOlder(o, b, a)
             /\ \/ d.prev[d.store[a]] = NIL /\ o[a] = S \ {a}
                \/ \E b \in S : /\ d.prev[d.store[a]] = d.store[b]
                                /\ JustOlder(o, a, b)
  <2> HIDE DEF d
  <2>1. d.next[d.store[a]] = c.next[c.store[a]]
    BY <1>4
  <2>2. d.prev[d.store[a]] = c.prev[c.store[a]]
    BY <1>4
  <2>3. d.store = c.store
    BY <1>1
  <2>4. /\ \/ c.next[c.store[a]] = NIL /\ o[a] = {}
           \/ \E b \in S : /\ c.next[c.store[a]] = c.store[b]
                           /\ JustOlder(o, b, a)
        /\ \/ c.prev[c.store[a]] = NIL /\ o[a] = S \ {a}
           \/ \E b \in S : /\ c.prev[c.store[a]] = c.store[b]
                           /\ JustOlder(o, a, b)
    BY DEF Linked
  <2> QED
    BY <2>1, <2>2, <2>3, <2>4
<1>8. \A k \in S : /\ d.store[k] \in Nodes
                   /\ d.key[d.store[k]] = k
                   /\ d.value[d.store[k]] \in Values
  BY <1>3, <1>4 DEF Linked
<1>9. Linked(d, o, S)
  <2> HIDE DEF d, S
  <2> QED
    BY <1>5, <1>6, <1>7, <1>8 DEF Linked
<1>10. StoredKeys(d) = S
  BY <1>1 DEF StoredKeys
<1>11. \A k \in Keys : ObjectForKey(d, k) = ObjectForKey(c, k)
  BY <1>1, <1>4 DEF ObjectForKey, StoredKeys
<1> QED
  BY <1>2, <1>9, <1>10, <1>11

-----------------------------------------------------------------------------
(* The methods a client calls.                                               *)

\* Cache c stores the keys in S and has them in its list in the order o.
Holds(c, o, S) ==
    /\ c \in Caches /\ o \in Orders /\ S \in SUBSET Keys
    /\ StoredKeys(c) = S
    /\ Ordered(o, S) /\ Linked(c, o, S)

\* d differs from c in the value stored for k only.
Stores(d, c, k, v) ==
    \A x \in Keys : ObjectForKey(d, x) = IF x = k THEN v ELSE ObjectForKey(c, x)

\* removeNode and removeObjectForKey: a stored key is forgotten.
LEMMA RemoveHolds ==
    ASSUME NEW c, NEW o, NEW S, Holds(c, o, S), NEW k \in S
    PROVE  LET d == RemoveNode(c, c.store[k]) IN
           /\ Holds(d, Without(o, k), S \ {k})
           /\ Stores(d, c, k, NIL)
           /\ d.store = [c.store EXCEPT ![k] = NIL]
<1> DEFINE d == RemoveNode(c, c.store[k])
<1> USE DEF Holds
<1>1. /\ d \in Caches
      /\ Linked(d, Without(o, k), S \ {k})
      /\ d.store = [c.store EXCEPT ![k] = NIL]
      /\ d.value = c.value
  BY RemoveLinked
<1>2. Without(o, k) \in Orders /\ Ordered(Without(o, k), S \ {k})
  BY WithoutOrdered
<1> HIDE DEF d
<1>3. StoredKeys(d) = S \ {k}
  BY <1>1 DEF StoredKeys, Caches
<1>4. Stores(d, c, k, NIL)
  BY <1>1 DEF Stores, ObjectForKey, Caches
<1> QED
  BY <1>1, <1>2, <1>3, <1>4 DEF d

\* Creating a node for an absent key and putting it at the head.
LEMMA InsertHolds ==
    ASSUME NEW c, NEW o, NEW S, Holds(c, o, S), NEW k \in Keys \ S,
           NEW v \in Values, NEW n \in Nodes, \A j \in S : c.store[j] # n
    PROVE  LET d == AddNodeToHead(NewNode(c, n, k, v), n) IN
           /\ Holds(d, Newest(o, S, k), S \cup {k})
           /\ Stores(d, c, k, v)
<1> DEFINE e == NewNode(c, n, k, v)
           d == AddNodeToHead(e, n)
<1> USE DEF Holds
<1>1. /\ e \in Caches
      /\ Linked(e, o, S)
      /\ e.store = [c.store EXCEPT ![k] = n]
      /\ e.value = [c.value EXCEPT ![n] = v]
      /\ e.key[n] = k /\ e.value[n] = v
  BY NewNodeLinked
<1> HIDE DEF e
<1>2. e.store[k] = n
  BY <1>1 DEF Caches
<1>3. /\ d \in Caches
      /\ Linked(d, Newest(o, S, k), S \cup {k})
      /\ d.store = e.store /\ d.value = e.value
  <2>1. d = AddNodeToHead(e, e.store[k])
    BY <1>2
  <2>2. /\ e \in Caches /\ Linked(e, o, S)
        /\ e.store[k] \in Nodes /\ e.key[e.store[k]] = k
        /\ e.value[e.store[k]] \in Values
    BY <1>1, <1>2
  <2>3. o \in Orders /\ S \in SUBSET Keys /\ Ordered(o, S)
    OBVIOUS
  <2> HIDE DEF d, Holds
  <2>4. LET f == AddNodeToHead(e, e.store[k]) IN
        /\ f \in Caches
        /\ Linked(f, Newest(o, S, k), S \cup {k})
        /\ f.store = e.store /\ f.key = e.key /\ f.value = e.value
    BY <2>2, <2>3, AddLinked
  <2> QED
    BY <2>1, <2>4
<1>4. /\ Newest(o, S, k) \in Orders
      /\ Ordered(Newest(o, S, k), S \cup {k})
  BY NewestOrdered
<1> HIDE DEF d
<1>5. StoredKeys(d) = S \cup {k}
  BY <1>1, <1>3, NilAssumption DEF StoredKeys, Caches
<1>6. Stores(d, c, k, v)
  <2>1. NIL \notin Nodes
    BY NilAssumption
  <2>2. ObjectForKey(d, k) = v
    BY <1>1, <1>2, <1>3, <2>1 DEF ObjectForKey
  <2>3. ASSUME NEW x \in Keys, x # k
        PROVE  ObjectForKey(d, x) = ObjectForKey(c, x)
    <3>1. d.store[x] = c.store[x]
      BY <1>1, <1>3, <2>3 DEF Caches
    <3>2. CASE x \in S
      BY <1>1, <1>3, <3>1, <3>2 DEF ObjectForKey, Caches, StoredKeys
    <3>3. CASE x \notin S
      BY <3>1, <3>3 DEF ObjectForKey, StoredKeys
    <3> QED
      BY <3>2, <3>3
  <2> QED
    BY <2>2, <2>3 DEF Stores
<1> QED
  <2>1. Holds(d, Newest(o, S, k), S \cup {k})
    BY <1>3, <1>4, <1>5
  <2>2. d = AddNodeToHead(NewNode(c, n, k, v), n)
    BY DEF d, e
  <2> QED
    BY <2>1, <2>2, <1>6

\* alignSize drops the oldest entry when there are too many.
LEMMA AlignHolds ==
    ASSUME NEW c, NEW o, NEW S, Holds(c, o, S)
    PROVE  /\ Cardinality(S) <= Capacity => AlignSize(c) = c
           /\ Cardinality(S) > Capacity =>
                \E t \in S : /\ o[t] = {}
                            /\ Holds(AlignSize(c), Without(o, t), S \ {t})
                            /\ Stores(AlignSize(c), c, t, NIL)
<1> USE DEF Holds
<1>1. IsFiniteSet(S) /\ Cardinality(S) \in Nat /\ Capacity \in Nat
  BY FiniteKeys, FS_Subset, FS_CardinalityType, CapacityAssumption
<1>2. CASE Cardinality(S) <= Capacity
  BY <1>1, <1>2 DEF AlignSize, Count
<1>3. CASE Cardinality(S) > Capacity
  <2>1. S # {}
    BY <1>1, <1>3, FS_EmptySet
  <2>2. PICK t \in S : c.tail = c.store[t] /\ o[t] = {}
    BY <2>1 DEF Linked
  <2>3. c.tail # NIL
    BY <2>2, NilAssumption DEF Linked
  <2>4. AlignSize(c) = RemoveNode(c, c.store[t])
    BY <1>3, <2>2, <2>3 DEF AlignSize, Count
  <2> HIDE DEF Holds
  <2>5. /\ Holds(AlignSize(c), Without(o, t), S \ {t})
        /\ Stores(AlignSize(c), c, t, NIL)
    <3>1. /\ Holds(RemoveNode(c, c.store[t]), Without(o, t), S \ {t})
          /\ Stores(RemoveNode(c, c.store[t]), c, t, NIL)
      BY RemoveHolds
    <3> QED
      BY <2>4, <3>1
  <2> QED
    BY <1>1, <1>3, <2>2, <2>5
<1> QED
  BY <1>1, <1>2, <1>3

\* moveNodeToHead as objectForKey uses it: a stored key becomes the newest.
LEMMA BumpHolds ==
    ASSUME NEW c, NEW o, NEW S, Holds(c, o, S), NEW k \in S
    PROVE  LET d == MoveNodeToHead(c, c.store[k]) IN
           /\ Holds(d, Newest(o, S, k), S)
           /\ d.store = c.store /\ d.value = c.value
<1> DEFINE n == c.store[k]
           d == MoveNodeToHead(c, n)
<1> USE DEF Holds
<1>1. n \in Nodes /\ n # NIL /\ c.key[n] = k /\ c.value[n] \in Values
  BY NilAssumption DEF Linked
<1>2. CASE c.head = n
  <2>1. d = c
    BY <1>2 DEF MoveNodeToHead
  <2>2. PICK h \in S : c.head = c.store[h] /\ o[h] = S \ {h}
    BY DEF Linked
  <2>3. h = k
    BY <1>1, <1>2, <2>2 DEF Linked
  <2>4. Newest(o, S, k) = o
    <3>1. \A x \in Keys : Newest(o, S, k)[x] = o[x]
      BY <2>2, <2>3 DEF Newest, Ordered, Orders
    <3> QED
      BY <3>1 DEF Newest, Orders
  <2> HIDE DEF d
  <2> QED
    BY <2>1, <2>4 DEF d
<1>3. CASE c.head # n
  <2> DEFINE e == Unlink(c, n)
             p == Without(o, k)
             T == S \ {k}
  <2>1. /\ e \in Caches
        /\ Linked(e, p, T)
        /\ e.store = c.store /\ e.key = c.key /\ e.value = c.value
    BY <1>3, UnlinkLinked
  <2>2. p \in Orders /\ Ordered(p, T)
    BY WithoutOrdered
  <2>3. d = AddNodeToHead(e, e.store[k])
    BY <1>1, <1>3, <2>1 DEF MoveNodeToHead
  <2> HIDE DEF d, e, p
  <2>4. /\ d \in Caches
        /\ Linked(d, Newest(p, T, k), T \cup {k})
        /\ d.store = e.store /\ d.value = e.value
    BY <1>1, <2>1, <2>2, <2>3, AddLinked
  <2>5. /\ Newest(p, T, k) \in Orders
        /\ Ordered(Newest(p, T, k), T \cup {k})
    BY <2>2, NewestOrdered
  <2>6. T \cup {k} = S
    OBVIOUS
  <2>7. Newest(p, T, k) = Newest(o, S, k)
    <3>1. \A x \in Keys : Newest(p, T, k)[x] = Newest(o, S, k)[x]
      BY DEF Newest, Without, p, Orders
    <3> QED
      BY <3>1 DEF Newest
  <2>8. StoredKeys(d) = S
    BY <2>1, <2>4 DEF StoredKeys
  <2>9. Holds(d, Newest(o, S, k), S)
    BY <2>4, <2>5, <2>6, <2>7, <2>8
  <2> QED
    BY <2>1, <2>4, <2>9 DEF d
<1> QED
  BY <1>2, <1>3

\* Deallocation changes nothing a client can see.
LEMMA ReleaseHolds ==
    ASSUME NEW c, NEW o, NEW S, Holds(c, o, S)
    PROVE  /\ Holds(Release(c), o, S)
           /\ \A x \in Keys : ObjectForKey(Release(c), x) = ObjectForKey(c, x)
BY ReleaseLinked DEF Holds

\* What setObject makes of a cache c with the keys S in the order o.
AfterSet(d, c, o, S, k, v) ==
    LET q == Newest(o, S, k)
    IN  \/ /\ k \in S \/ Cardinality(S) < Capacity
           /\ Holds(d, q, S \cup {k})
           /\ Stores(d, c, k, v)
        \/ /\ k \notin S /\ Cardinality(S) >= Capacity
           /\ \E t \in S \cup {k} :
                 /\ q[t] = {}
                 /\ Holds(d, Without(q, t), (S \cup {k}) \ {t})
                 /\ \A x \in Keys :
                       ObjectForKey(d, x) =
                          IF x = t THEN NIL
                          ELSE IF x = k THEN v ELSE ObjectForKey(c, x)

\* setObject: the key becomes the newest; when that makes one entry too many
\* the oldest one goes.
LEMMA SetHolds ==
    ASSUME NEW c, NEW o, NEW S, Holds(c, o, S), NEW k \in Keys,
           NEW v \in Values, NEW n \in Fresh(c)
    PROVE  AfterSet(Release(SetObject(c, k, v, n)), c, o, S, k, v)
<1> DEFINE d == Release(SetObject(c, k, v, n))
           q == Newest(o, S, k)
<1>1. n \in Nodes /\ \A j \in S : c.store[j] # n
  BY DEF Fresh, Live, Holds
<1>2. (k \in S <=> c.store[k] # NIL) /\ o \in Orders /\ S \in SUBSET Keys
  BY DEF Holds, StoredKeys
<1>3. CASE k \in S
  <2> DEFINE e == RemoveNode(c, c.store[k])
             p == Without(o, k)
             T == S \ {k}
             f == AddNodeToHead(NewNode(e, n, k, v), n)
  <2>1. /\ Holds(e, p, T)
        /\ Stores(e, c, k, NIL)
        /\ e.store = [c.store EXCEPT ![k] = NIL]
    BY <1>3, RemoveHolds
  <2>2. \A j \in T : e.store[j] # n
    BY <1>1, <2>1 DEF Holds, Caches
  <2> HIDE DEF e, p
  <2>3. Holds(f, Newest(p, T, k), T \cup {k}) /\ Stores(f, e, k, v)
    BY <1>1, <2>1, <2>2, InsertHolds
  <2>4. T \cup {k} = S \cup {k}
    OBVIOUS
  <2>5. Newest(p, T, k) = q
    <3>1. \A x \in Keys : Newest(p, T, k)[x] = q[x]
      BY <1>2 DEF Newest, Without, p, Orders
    <3> QED
      BY <3>1 DEF Newest
  <2>6. SetObject(c, k, v, n) = f
    BY <1>2, <1>3 DEF SetObject, e
  <2> HIDE DEF f, q, T
  <2>7. Holds(f, q, S \cup {k})
    BY <2>3, <2>4, <2>5
  <2>8. /\ Holds(d, q, S \cup {k})
        /\ \A x \in Keys : ObjectForKey(d, x) = ObjectForKey(f, x)
    BY <2>6, <2>7, ReleaseHolds
  <2>9. Stores(d, c, k, v)
    BY <2>1, <2>3, <2>8 DEF Stores
  <2> HIDE DEF d
  <2> QED
    BY <1>3, <2>8, <2>9 DEF d, q, AfterSet
<1>4. CASE k \notin S
  <2> DEFINE f == AddNodeToHead(NewNode(c, n, k, v), n)
             T == S \cup {k}
  <2>1. Holds(f, q, T) /\ Stores(f, c, k, v)
    BY <1>1, <1>4, InsertHolds
  <2>2. SetObject(c, k, v, n) = AlignSize(f)
    BY <1>2, <1>4 DEF SetObject
  <2>3. /\ Cardinality(S) \in Nat /\ Capacity \in Nat
        /\ Cardinality(T) = Cardinality(S) + 1
    BY <1>2, <1>4, FiniteKeys, CapacityAssumption, FS_Subset, FS_CardinalityType,
       FS_AddElement
  <2> HIDE DEF f, T, q
  <2>4. CASE Cardinality(S) < Capacity
    <3>1. AlignSize(f) = f
      BY <2>1, <2>3, <2>4, AlignHolds
    <3>2. /\ Holds(d, q, T)
          /\ \A x \in Keys : ObjectForKey(d, x) = ObjectForKey(f, x)
      BY <2>1, <2>2, <3>1, ReleaseHolds
    <3>3. Stores(d, c, k, v)
      BY <2>1, <3>2 DEF Stores
    <3> HIDE DEF d
    <3> QED
      BY <2>4, <3>2, <3>3 DEF d, q, T, AfterSet
  <2>5. CASE Cardinality(S) >= Capacity
    <3>1. Cardinality(T) > Capacity
      BY <2>3, <2>5
    <3>2. PICK t \in T : /\ q[t] = {}
                         /\ Holds(AlignSize(f), Without(q, t), T \ {t})
                         /\ Stores(AlignSize(f), f, t, NIL)
      BY <2>1, <3>1, AlignHolds
    <3>3. /\ Holds(d, Without(q, t), T \ {t})
          /\ \A x \in Keys : ObjectForKey(d, x) = ObjectForKey(AlignSize(f), x)
      BY <2>2, <3>2, ReleaseHolds
    <3>4. \A x \in Keys :
             ObjectForKey(d, x) =
                IF x = t THEN NIL
                ELSE IF x = k THEN v ELSE ObjectForKey(c, x)
      BY <2>1, <3>2, <3>3 DEF Stores
    <3> HIDE DEF d
    <3> QED
      BY <1>4, <2>5, <3>2, <3>3, <3>4 DEF d, q, T, AfterSet
  <2>6. Cardinality(S) < Capacity \/ Cardinality(S) >= Capacity
    BY <2>3
  <2> QED
    BY <2>4, <2>5, <2>6, Zenon
<1> QED
  BY <1>3, <1>4, Zenon

\* The keys with a value are the stored keys.
LEMMA EntriesStored ==
    ASSUME NEW c, NEW o, NEW S, Holds(c, o, S)
    PROVE  \A x \in Keys : /\ ObjectForKey(c, x) # NIL <=> x \in S
                           /\ ObjectForKey(c, x) \in Values \cup {NIL}
BY NilAssumption DEF Holds, Linked, ObjectForKey, StoredKeys

-----------------------------------------------------------------------------
(* Walks along the list.  The chain of pointers is a recursive function: that  *)
(* it exists, and what it meets at each place, goes by induction, which is     *)
(* proved here from the least element of a set of numbers.                     *)

LEMMA Least ==
    ASSUME NEW T, T \subseteq Nat, T # {}
    PROVE  \E x \in T : \A y \in T : x <= y
<1> DEFINE R == OpToRel(<, Nat)
<1>1. IsWellFoundedOn(R, Nat)
  BY NatLessThanWellFounded
<1>2. \A x, y \in Nat : y < x => <<y, x>> \in R
  BY DEF OpToRel
<1> HIDE DEF R
<1>3. PICK x \in T : \A y \in T : <<y, x>> \notin R
  BY <1>1, WFMin
<1>4. ASSUME NEW y \in T PROVE x <= y
  <2>1. ~(y < x)
    BY <1>2, <1>3
  <2>2. x \in Nat /\ y \in Nat
    BY <1>3
  <2> QED
    BY <2>1, <2>2
<1> QED
  BY <1>3, <1>4

LEMMA Induction ==
    ASSUME NEW S, 0 \in S, \A n \in Nat : n \in S => n + 1 \in S
    PROVE  Nat \subseteq S
<1> SUFFICES ASSUME Nat \ S # {} PROVE FALSE
  OBVIOUS
<1>1. PICK x \in Nat \ S : \A y \in Nat \ S : x <= y
  BY Least
<1>2. x # 0 /\ x - 1 \in Nat /\ (x - 1) + 1 = x
  BY <1>1
<1>3. x - 1 \notin S
  BY <1>1, <1>2
<1> QED
  BY <1>1, <1>2, <1>3

\* The chain satisfies its defining equation: the part of it up to any place
\* exists, because it extends the part before.
LEMMA ChainDef ==
    ASSUME NEW p, NEW link, IsFiniteSet(Nodes)
    PROVE  Chain(p, link) =
             [i \in 1 .. Cardinality(Nodes) + 1 |->
                IF i = 1 THEN p
                ELSE IF Chain(p, link)[i - 1] = NIL THEN NIL
                     ELSE link[Chain(p, link)[i - 1]]]
<1> DEFINE Step(x) == IF x = NIL THEN NIL ELSE link[x]
           IsPart(f, n) ==
               f = [i \in 1 .. n |-> IF i = 1 THEN p ELSE Step(f[i - 1])]
           S == {n \in Nat : \E f : IsPart(f, n)}
<1>1. 0 \in S
  <2>1. IsPart([i \in 1 .. 0 |-> p], 0)
    OBVIOUS
  <2> QED
    BY <2>1
<1>2. ASSUME NEW n \in Nat, n \in S PROVE n + 1 \in S
  <2>1. PICK f : IsPart(f, n)
    BY <1>2
  <2> DEFINE g == [i \in 1 .. n + 1 |-> IF i = 1 THEN p ELSE Step(f[i - 1])]
  <2> HIDE DEF Step
  <2>2. \A i \in 1 .. n : g[i] = f[i]
    BY <2>1
  <2>3. \A i \in 1 .. n + 1 : i # 1 => i - 1 \in 1 .. n
    OBVIOUS
  <2>4. IsPart(g, n + 1)
    BY <2>2, <2>3
  <2> HIDE DEF IsPart, g
  <2>5. \E h : IsPart(h, n + 1)
    BY <2>4
  <2> QED
    BY <2>5
<1>3. Cardinality(Nodes) + 1 \in S
  <2> HIDE DEF S
  <2> QED
    BY <1>1, <1>2, Induction, FS_CardinalityType
<1>4. \E f : IsPart(f, Cardinality(Nodes) + 1)
  BY <1>3
<1>5. \E f : f = [i \in 1 .. Cardinality(Nodes) + 1 |->
                    IF i = 1 THEN p
                    ELSE IF f[i - 1] = NIL THEN NIL ELSE link[f[i - 1]]]
  BY <1>4
<1> QED
  BY <1>5, Zenon DEF Chain

\* A walk that starts at the key of rank 1 and whose links lead from each rank
\* to the next meets the keys of S in the order of their ranks, then only nil.
Ranked(S, store, rank, p, link) ==
    /\ rank \in [S -> 1 .. Cardinality(S)]
    /\ \A k \in S : store[k] # NIL
    /\ \/ S = {} /\ p = NIL
       \/ \E h \in S : p = store[h] /\ rank[h] = 1
    /\ \A a \in S :
          \/ link[store[a]] = NIL /\ rank[a] = Cardinality(S)
          \/ \E b \in S : link[store[a]] = store[b] /\ rank[b] = rank[a] + 1

LEMMA ChainMeets ==
    ASSUME NEW S, NEW store, NEW rank, NEW p, NEW link, IsFiniteSet(S),
           IsFiniteSet(Nodes), Ranked(S, store, rank, p, link)
    PROVE  \A i \in 1 .. Cardinality(Nodes) + 1 :
              \/ i > Cardinality(S) /\ Chain(p, link)[i] = NIL
              \/ \E k \in S : rank[k] = i /\ Chain(p, link)[i] = store[k]
<1> DEFINE at == Chain(p, link)
           n == Cardinality(S)
           Meets(i) == \/ i > n /\ at[i] = NIL
                       \/ \E k \in S : rank[k] = i /\ at[i] = store[k]
           T == {j \in Nat : j + 1 \in 1 .. Cardinality(Nodes) + 1 => Meets(j + 1)}
<1>1. n \in Nat /\ Cardinality(Nodes) \in Nat
  BY FS_CardinalityType
<1>2. \A i \in 1 .. Cardinality(Nodes) + 1 :
         at[i] = IF i = 1 THEN p
                 ELSE IF at[i - 1] = NIL THEN NIL ELSE link[at[i - 1]]
  <2>1. at = [i \in 1 .. Cardinality(Nodes) + 1 |->
                IF i = 1 THEN p
                ELSE IF at[i - 1] = NIL THEN NIL ELSE link[at[i - 1]]]
    BY ChainDef
  <2> HIDE DEF at
  <2> QED
    BY <2>1
<1> HIDE DEF at, n
<1>3. 0 \in T
  <2>1. at[1] = p
    BY <1>1, <1>2
  <2>2. CASE S = {} /\ p = NIL
    <3>1. n = 0
      BY <2>2, FS_EmptySet DEF n
    <3> QED
      BY <2>1, <2>2, <3>1
  <2>3. CASE \E h \in S : p = store[h] /\ rank[h] = 1
    BY <2>1, <2>3
  <2> QED
    BY <2>2, <2>3 DEF Ranked
<1>4. ASSUME NEW j \in Nat, j \in T PROVE j + 1 \in T
  <2> SUFFICES ASSUME (j + 1) + 1 \in 1 .. Cardinality(Nodes) + 1
               PROVE  Meets((j + 1) + 1)
    OBVIOUS
  <2>1. j + 1 \in 1 .. Cardinality(Nodes) + 1
    BY <1>1
  <2>2. Meets(j + 1)
    BY <1>4, <2>1
  <2>3. at[(j + 1) + 1] = IF at[j + 1] = NIL THEN NIL ELSE link[at[j + 1]]
    <3>1. (j + 1) + 1 # 1 /\ ((j + 1) + 1) - 1 = j + 1
      OBVIOUS
    <3> QED
      BY <1>2, <3>1
  <2>4. CASE j + 1 > n /\ at[j + 1] = NIL
    BY <1>1, <2>3, <2>4
  <2>5. ASSUME NEW a \in S, rank[a] = j + 1, at[j + 1] = store[a]
        PROVE  Meets((j + 1) + 1)
    <3>1. at[(j + 1) + 1] = link[store[a]]
      BY <2>3, <2>5 DEF Ranked
    <3>2. CASE link[store[a]] = NIL /\ rank[a] = n
      BY <1>1, <2>5, <3>1, <3>2
    <3>3. CASE \E b \in S : link[store[a]] = store[b] /\ rank[b] = rank[a] + 1
      BY <2>5, <3>1, <3>3
    <3> QED
      BY <3>2, <3>3 DEF Ranked, n
  <2> QED
    BY <2>2, <2>4, <2>5
<1>5. Nat \subseteq T
  <2> HIDE DEF T
  <2> QED
    BY <1>3, <1>4, Induction
<1>6. ASSUME NEW i \in 1 .. Cardinality(Nodes) + 1 PROVE Meets(i)
  <2>1. i - 1 \in Nat /\ (i - 1) + 1 = i
    BY <1>1
  <2>2. i - 1 \in T
    BY <1>5, <2>1
  <2> QED
    BY <2>1, <2>2
<1> QED
  BY <1>6 DEF n, at

\* So a walk is as long as S and has the node of the key of rank i at place i,
\* provided there are nodes enough.
LEMMA WalkMeets ==
    ASSUME NEW S, NEW store, NEW rank, NEW p, NEW link, IsFiniteSet(S),
           IsFiniteSet(Nodes), Cardinality(S) <= Cardinality(Nodes),
           Ranked(S, store, rank, p, link)
    PROVE  /\ Len(Walk(p, link)) = Cardinality(S)
           /\ DOMAIN Walk(p, link) = 1 .. Cardinality(S)
           /\ \A i \in 1 .. Cardinality(S) :
                 \E k \in S : rank[k] = i /\ Walk(p, link)[i] = store[k]
<1> DEFINE at == Chain(p, link)
           n == Cardinality(S)
           N == Cardinality(Nodes)
<1>1. n \in Nat /\ N \in Nat /\ n <= N
  BY FS_CardinalityType
<1>2. \A i \in 1 .. N + 1 :
         \/ i > n /\ at[i] = NIL
         \/ \E k \in S : rank[k] = i /\ at[i] = store[k]
  BY ChainMeets
<1>3. DOMAIN at = 1 .. N + 1
  BY ChainDef
<1>4. \A k \in S : rank[k] \in 1 .. n /\ store[k] # NIL
  BY DEF Ranked
<1>5. Walk(p, link) = [i \in 1 .. Cardinality({j \in DOMAIN at : at[j] # NIL})
                         |-> at[i]]
  BY DEF Walk
<1> HIDE DEF at, n, N
<1>6. {j \in DOMAIN at : at[j] # NIL} = 1 .. n
  BY <1>1, <1>2, <1>3, <1>4
<1>7. Cardinality(1 .. n) = n
  BY <1>1, FS_Interval
<1>8. Walk(p, link) = [i \in 1 .. n |-> at[i]]
  BY <1>5, <1>6, <1>7
<1>9. Len(Walk(p, link)) = n
  <2>1. Walk(p, link) \in Seq({at[i] : i \in 1 .. n})
    BY <1>1, <1>8
  <2> QED
    BY <1>1, <1>8, <2>1, LenProperties
<1>10. ASSUME NEW i \in 1 .. n
       PROVE  \E k \in S : rank[k] = i /\ Walk(p, link)[i] = store[k]
  BY <1>1, <1>2, <1>8
<1> QED
  BY <1>8, <1>9, <1>10 DEF n

\* The number of older keys tells the keys of S apart and counts up from the
\* oldest to the newest.
LEMMA OlderCounts ==
    ASSUME NEW o \in Orders, NEW S \in SUBSET Keys, Ordered(o, S)
    PROVE  /\ IsFiniteSet(S) /\ Cardinality(S) \in Nat
           /\ \A k \in S : Cardinality(o[k]) \in 0 .. Cardinality(S) - 1
           /\ \A k \in S : o[k] = {} => Cardinality(o[k]) = 0
           /\ \A k \in S : o[k] = S \ {k} =>
                              Cardinality(o[k]) = Cardinality(S) - 1
           /\ \A a, b \in S : JustOlder(o, b, a) =>
                                 Cardinality(o[a]) = Cardinality(o[b]) + 1
           /\ \A a, b \in S : Cardinality(o[a]) = Cardinality(o[b]) => a = b
<1>1. IsFiniteSet(S) /\ Cardinality(S) \in Nat
  BY FiniteKeys, FS_Subset, FS_CardinalityType
<1>2. ASSUME NEW k \in S
      PROVE  /\ IsFiniteSet(S \ {k})
             /\ Cardinality(S \ {k}) = Cardinality(S) - 1
  BY <1>1, FS_RemoveElement
<1>3. ASSUME NEW k \in S
      PROVE  /\ o[k] \subseteq S \ {k} /\ IsFiniteSet(o[k])
             /\ Cardinality(o[k]) \in 0 .. Cardinality(S) - 1
  <2>1. o[k] \subseteq S \ {k}
    BY DEF Ordered
  <2>2. IsFiniteSet(o[k]) /\ Cardinality(o[k]) <= Cardinality(S) - 1
    <3>1. o[k] \in SUBSET (S \ {k})
      BY <2>1
    <3>2. IsFiniteSet(o[k]) /\ Cardinality(o[k]) <= Cardinality(S \ {k})
      BY <1>2, <3>1, FS_Subset, Zenon
    <3> QED
      BY <1>2, <3>2
  <2>3. Cardinality(o[k]) \in Nat
    BY <2>2, FS_CardinalityType
  <2> QED
    BY <1>1, <2>1, <2>2, <2>3
<1>4. ASSUME NEW a \in S, NEW b \in S, JustOlder(o, b, a)
      PROVE  Cardinality(o[a]) = Cardinality(o[b]) + 1
  <2>1. b \notin o[b]
    BY <1>3
  <2> QED
    BY <1>3, <1>4, <2>1, FS_AddElement DEF JustOlder
<1>5. ASSUME NEW a \in S, NEW b \in S, a \in o[b]
      PROVE  Cardinality(o[a]) # Cardinality(o[b])
  <2>1. o[a] \subseteq o[b] /\ a \notin o[a]
    BY <1>3, <1>5 DEF Ordered
  <2> QED
    BY <1>3, <1>5, <2>1, FS_Subset
<1>6. ASSUME NEW a \in S, NEW b \in S, Cardinality(o[a]) = Cardinality(o[b])
      PROVE  a = b
  BY <1>5, <1>6 DEF Ordered
<1>7. \A k \in S : o[k] = {} => Cardinality(o[k]) = 0
  BY FS_EmptySet
<1>8. \A k \in S : o[k] = S \ {k} => Cardinality(o[k]) = Cardinality(S) - 1
  BY <1>2
<1> QED
  BY <1>1, <1>3, <1>4, <1>6, <1>7, <1>8

\* Every stored key has a node of its own.
LEMMA NodesSuffice ==
    ASSUME NEW c, NEW o, NEW S, Holds(c, o, S), IsFiniteSet(Nodes)
    PROVE  Cardinality(S) <= Cardinality(Nodes)
<1> DEFINE f == [k \in S |-> c.store[k]]
<1>1. \A k \in S : c.store[k] \in Nodes /\ c.key[c.store[k]] = k
  BY DEF Holds, Linked
<1>2. f \in Injection(S, Nodes)
  BY <1>1 DEF Injection, IsInjective
<1> QED
  BY <1>2, FS_Injection

\* Along next the keys come from the newest to the oldest, along prev from
\* the oldest to the newest.
ByAge(o, S) == [k \in S |-> Cardinality(S) - Cardinality(o[k])]
ByYouth(o, S) == [k \in S |-> Cardinality(o[k]) + 1]

LEMMA ListRanked ==
    ASSUME NEW c, NEW o, NEW S, Holds(c, o, S)
    PROVE  /\ Ranked(S, c.store, ByAge(o, S), c.head, c.next)
           /\ Ranked(S, c.store, ByYouth(o, S), c.tail, c.prev)
<1> DEFINE n == Cardinality(S)
           m == [k \in S |-> Cardinality(o[k])]
<1>1. /\ o \in Orders /\ S \in SUBSET Keys /\ Ordered(o, S)
      /\ Linked(c, o, S)
  BY DEF Holds
<1>2. /\ n \in Nat
      /\ \A k \in S : m[k] \in 0 .. n - 1
      /\ \A k \in S : o[k] = {} => m[k] = 0
      /\ \A k \in S : o[k] = S \ {k} => m[k] = n - 1
      /\ \A a, b \in S : JustOlder(o, b, a) => m[a] = m[b] + 1
  BY <1>1, OlderCounts
<1>3. /\ ByAge(o, S) = [k \in S |-> n - m[k]]
      /\ ByYouth(o, S) = [k \in S |-> m[k] + 1]
  BY DEF ByAge, ByYouth
<1> HIDE DEF n, m
<1>4. /\ ByAge(o, S) \in [S -> 1 .. n]
      /\ ByYouth(o, S) \in [S -> 1 .. n]
  BY <1>2, <1>3
<1>5. \A k \in S : c.store[k] # NIL
  BY <1>1, NilAssumption DEF Linked
<1>6. \/ S = {} /\ c.head = NIL
      \/ \E h \in S : c.head = c.store[h] /\ ByAge(o, S)[h] = 1
  BY <1>1, <1>2, <1>3 DEF Linked
<1>7. \/ S = {} /\ c.tail = NIL
      \/ \E t \in S : c.tail = c.store[t] /\ ByYouth(o, S)[t] = 1
  BY <1>1, <1>2, <1>3 DEF Linked
<1>8. ASSUME NEW a \in S
      PROVE  \/ c.next[c.store[a]] = NIL /\ ByAge(o, S)[a] = n
             \/ \E b \in S : /\ c.next[c.store[a]] = c.store[b]
                             /\ ByAge(o, S)[b] = ByAge(o, S)[a] + 1
  <2>1. CASE c.next[c.store[a]] = NIL /\ o[a] = {}
    BY <1>2, <1>3, <2>1
  <2>2. ASSUME NEW b \in S, c.next[c.store[a]] = c.store[b], JustOlder(o, b, a)
        PROVE  ByAge(o, S)[b] = ByAge(o, S)[a] + 1
    BY <1>2, <1>3, <2>2
  <2> QED
    BY <1>1, <2>1, <2>2 DEF Linked
<1>9. ASSUME NEW b \in S
      PROVE  \/ c.prev[c.store[b]] = NIL /\ ByYouth(o, S)[b] = n
             \/ \E a \in S : /\ c.prev[c.store[b]] = c.store[a]
                             /\ ByYouth(o, S)[a] = ByYouth(o, S)[b] + 1
  <2>1. CASE c.prev[c.store[b]] = NIL /\ o[b] = S \ {b}
    BY <1>2, <1>3, <2>1
  <2>2. ASSUME NEW a \in S, c.prev[c.store[b]] = c.store[a], JustOlder(o, b, a)
        PROVE  ByYouth(o, S)[a] = ByYouth(o, S)[b] + 1
    BY <1>2, <1>3, <2>2
  <2> QED
    BY <1>1, <2>1, <2>2 DEF Linked
<1> QED
  BY <1>4, <1>5, <1>6, <1>7, <1>8, <1>9 DEF Ranked, n

-----------------------------------------------------------------------------
(* The behaviours.                                                           *)

\* Both modules mean the same cardinality.
LEMMA SameCardinality == \A T : LRU!Cardinality(T) = Cardinality(T)
BY DEF LRU!Cardinality, Cardinality

\* The inductive invariant.
Inv ==
    /\ TypeOK
    /\ older \in Orders
    /\ ListInv
    /\ WithinCapacity

LEMMA InvHolds ==
    Inv <=> /\ Holds(cache, older, StoredKeys(cache))
            /\ call \in Calls
            /\ Cardinality(StoredKeys(cache)) <= Capacity
BY DEF Inv, TypeOK, ListInv, WithinCapacity, Count, Holds, StoredKeys

LEMMA InvHoldsPrime ==
    Inv' <=> /\ Holds(cache', older', StoredKeys(cache'))
             /\ call' \in Calls
             /\ Cardinality(StoredKeys(cache')) <= Capacity
BY DEF Inv, TypeOK, ListInv, WithinCapacity, Count, Holds, StoredKeys

LEMMA InitInv == HInit => Inv
<1> SUFFICES ASSUME HInit PROVE Inv
  OBVIOUS
<1> USE DEF HInit, Init, EmptyCache
<1>1. StoredKeys(cache) = {}
  BY DEF StoredKeys
<1>2. TypeOK
  BY DEF TypeOK, Caches, Calls
<1>3. older \in Orders /\ ListInv
  BY <1>1 DEF Orders, ListInv, Ordered, Linked
<1>4. WithinCapacity
  <2>1. Cardinality({}) = 0
    BY FS_EmptySet
  <2> QED
    BY <1>1, <2>1, CapacityAssumption DEF WithinCapacity, Count
<1> QED
  BY <1>2, <1>3, <1>4 DEF Inv

\* setObject keeps the invariant and is a put of the abstract cache.
LEMMA SetStep ==
    ASSUME Inv, NEW k \in Keys, NEW v \in Values, HSet(k, v)
    PROVE  Inv' /\ (LRU!Put(k, v) \/ LRU!PutEvict(k, v))
<1> DEFINE S == StoredKeys(cache)
           q == Newest(older, S, k)
<1>1. /\ Holds(cache, older, S)
      /\ Cardinality(S) \in Nat /\ Cardinality(S) <= Capacity
      /\ Capacity \in Nat
      /\ S \in SUBSET Keys /\ IsFiniteSet(S)
      /\ older \in Orders /\ Ordered(older, S)
  BY InvHolds, FiniteKeys, CapacityAssumption, FS_Subset, FS_CardinalityType
     DEF Holds
<1>2. PICK n \in Fresh(cache) : cache' = Release(SetObject(cache, k, v, n))
  BY DEF HSet, SetObjectForKey
<1>3. /\ call' = [op |-> "set", key |-> k, value |-> v]
      /\ Record(k)
  BY DEF HSet, SetObjectForKey
<1>4. LRU!Stored([x \in Keys |-> ObjectForKey(cache, x)]) = S
  BY <1>1, EntriesStored DEF LRU!Stored
<1>5. LRU!Used(older, [x \in Keys |-> ObjectForKey(cache, x)], k) = q
  BY <1>4 DEF LRU!Used, Newest
<1> HIDE DEF S, q
<1>6. CASE /\ k \in S \/ Cardinality(S) < Capacity
           /\ Holds(cache', q, S \cup {k})
           /\ Stores(cache', cache, k, v)
  <2>1. StoredKeys(cache') = S \cup {k}
    BY <1>6 DEF Holds
  <2>2. older' = q
    <3>1. \A x \in Keys : older'[x] = q[x]
      BY <1>1, <1>3, <2>1 DEF Record, q, Newest, Ordered, Orders
    <3> QED
      BY <1>3, <3>1 DEF Record, q, Newest
  <2>3. Cardinality(S \cup {k}) <= Capacity
    <3>1. CASE k \in S
      <4>1. S \cup {k} = S
        BY <3>1
      <4> QED
        BY <1>1, <4>1
    <3>2. CASE k \notin S
      <4>1. Cardinality(S) < Capacity
        BY <1>6, <3>2
      <4>2. Cardinality(S \cup {k}) = Cardinality(S) + 1
        BY <1>1, <3>2, FS_AddElement
      <4> QED
        BY <1>1, <4>1, <4>2
    <3> QED
      BY <3>1, <3>2
  <2>4. Inv'
    BY <1>3, <1>6, <2>1, <2>2, <2>3, InvHoldsPrime DEF Calls
  <2>5. [x \in Keys |-> ObjectForKey(cache, x)]' =
           [[x \in Keys |-> ObjectForKey(cache, x)] EXCEPT ![k] = v]
    BY <1>6 DEF Stores
  <2>6. LRU!Put(k, v)
    BY <1>3, <1>4, <1>5, <1>6, <2>2, <2>5, SameCardinality DEF LRU!Put
  <2> QED
    BY <2>4, <2>6
<1>7. ASSUME k \notin S, Cardinality(S) >= Capacity,
             NEW t \in S \cup {k}, q[t] = {},
             Holds(cache', Without(q, t), (S \cup {k}) \ {t}),
             \A x \in Keys : ObjectForKey(cache', x) =
                               IF x = t THEN NIL
                               ELSE IF x = k THEN v ELSE ObjectForKey(cache, x)
      PROVE  Inv' /\ LRU!PutEvict(k, v)
  <2>1. StoredKeys(cache') = (S \cup {k}) \ {t} /\ t \in Keys
    BY <1>1, <1>7 DEF Holds
  <2>2. older' = Without(q, t)
    <3>1. ASSUME NEW x \in Keys PROVE older'[x] = Without(q, t)[x]
      <4>1. older[x] \subseteq S /\ (x \notin S => older[x] = {})
        BY <1>1 DEF Ordered, Orders
      <4>2. older'[x] = IF x \notin (S \cup {k}) \ {t} THEN {}
                        ELSE IF x = k THEN ((S \cup {k}) \ {t}) \ {k}
                        ELSE (older[x] \cap ((S \cup {k}) \ {t})) \ {k}
        BY <1>3, <2>1 DEF Record
      <4>3. q[x] = IF x = k THEN S \ {k} ELSE older[x] \ {k}
        BY DEF q, Newest
      <4>4. Without(q, t)[x] = IF x = t THEN {} ELSE q[x] \ {t}
        BY DEF Without
      <4>5. CASE x = t \/ x = k
        BY <1>7, <4>2, <4>3, <4>4, <4>5
      <4>6. CASE x # t /\ x # k /\ x \in S
        BY <4>1, <4>2, <4>3, <4>4, <4>6
      <4>7. CASE x # t /\ x # k /\ x \notin S
        BY <4>1, <4>2, <4>3, <4>4, <4>7
      <4> QED
        BY <4>5, <4>6, <4>7
    <3> QED
      BY <1>3, <3>1 DEF Record, q, Newest, Without
  <2>3. Cardinality((S \cup {k}) \ {t}) <= Capacity
    <3>1. /\ IsFiniteSet(S \cup {k})
          /\ Cardinality(S \cup {k}) = Cardinality(S) + 1
      BY <1>1, <1>7, FS_AddElement
    <3>2. Cardinality((S \cup {k}) \ {t}) = Cardinality(S \cup {k}) - 1
      BY <1>7, <3>1, FS_RemoveElement
    <3> QED
      BY <1>1, <3>1, <3>2
  <2>4. Inv'
    BY <1>3, <1>7, <2>1, <2>2, <2>3, InvHoldsPrime DEF Calls
  <2> DEFINE full == [[x \in Keys |-> ObjectForKey(cache, x)] EXCEPT ![k] = v]
  <2>5. [x \in Keys |-> ObjectForKey(cache, x)]' = [full EXCEPT ![t] = NIL]
    BY <1>7
  <2>6. LRU!Stored(full) = S \cup {k}
    BY <1>1, <1>4, NilAssumption DEF LRU!Stored
  <2>7. older' = LRU!Forgotten(q, t)
    BY <2>2 DEF LRU!Forgotten, Without
  <2> HIDE DEF full
  <2>8. \E victim \in LRU!Stored(full) :
           /\ q[victim] = {}
           /\ [x \in Keys |-> ObjectForKey(cache, x)]' = [full EXCEPT ![victim] = NIL]
           /\ older' = LRU!Forgotten(q, victim)
    BY <1>7, <2>5, <2>6, <2>7
  <2>9. LRU!PutEvict(k, v)
    BY <1>3, <1>4, <1>5, <1>7, <2>8, SameCardinality DEF LRU!PutEvict, full
  <2> QED
    BY <2>4, <2>9
<1>8. AfterSet(cache', cache, older, S, k, v)
  BY <1>1, <1>2, SetHolds
<1> QED
  BY <1>6, <1>7, <1>8 DEF AfterSet, q

\* objectForKey keeps the invariant and is a get of the abstract cache.
LEMMA GetStep ==
    ASSUME Inv, NEW k \in Keys, HGet(k)
    PROVE  Inv' /\ LRU!Get(k)
<1> DEFINE S == StoredKeys(cache)
           q == Newest(older, S, k)
           f == [x \in Keys |-> ObjectForKey(cache, x)]
<1>1. /\ Holds(cache, older, S)
      /\ Cardinality(S) <= Capacity
      /\ older \in Orders /\ Ordered(older, S)
  BY InvHolds DEF Holds
<1>2. /\ cache' = MoveNodeToHead(cache, cache.store[k])
      /\ call' = [op |-> "get", key |-> k, value |-> ObjectForKey(cache, k)]
      /\ IF cache.store[k] = NIL THEN UNCHANGED older ELSE Record(k)
  BY DEF HGet, GetObjectForKey
<1>3. /\ LRU!Stored(f) = S /\ call' \in Calls
      /\ call' = [op |-> "get", key |-> k, value |-> f[k]]
  <2>1. \A x \in Keys : /\ f[x] = ObjectForKey(cache, x)
                        /\ ObjectForKey(cache, x) # NIL <=> x \in S
                        /\ ObjectForKey(cache, x) \in Values \cup {NIL}
    BY <1>1, EntriesStored
  <2>2. S \in SUBSET Keys
    BY <1>1 DEF Holds
  <2> HIDE DEF f, S
  <2> QED
    BY <1>2, <2>1, <2>2 DEF LRU!Stored, Calls
<1>4. LRU!Used(older, f, k) = q
  BY <1>3 DEF LRU!Used, Newest
<1>5. CASE k \notin S
  <2>1. cache.store[k] = NIL
    BY <1>5 DEF StoredKeys
  <2>2. UNCHANGED <<cache, older>>
    BY <1>2, <2>1 DEF MoveNodeToHead
  <2>3. Inv'
    BY <1>1, <1>3, <2>2, InvHoldsPrime DEF Calls
  <2>4. f' = f
    BY <2>2
  <2> HIDE DEF f, S
  <2>5. LRU!Get(k)
    BY <1>3, <1>5, <2>2, <2>4 DEF LRU!Get, f
  <2> QED
    BY <2>3, <2>5
<1>6. CASE k \in S
  <2>1. cache.store[k] # NIL /\ Record(k)
    BY <1>2, <1>6 DEF StoredKeys
  <2>2. /\ Holds(cache', q, S)
        /\ cache'.store = cache.store /\ cache'.value = cache.value
    BY <1>1, <1>2, <1>6, BumpHolds
  <2>3. StoredKeys(cache') = S
    BY <2>2 DEF Holds
  <2>4. f' = f
    BY <2>2 DEF ObjectForKey
  <2> HIDE DEF S, f
  <2>5. older' = q
    <3>1. ASSUME NEW x \in Keys PROVE older'[x] = q[x]
      <4>1. older[x] \subseteq S /\ (x \notin S => older[x] = {})
        BY <1>1 DEF Ordered, Orders
      <4>2. older'[x] = IF x \notin S THEN {} ELSE IF x = k THEN S \ {k}
                        ELSE (older[x] \cap S) \ {k}
        BY <2>1, <2>3 DEF Record
      <4> QED
        BY <1>6, <4>1, <4>2 DEF Newest
    <3> QED
      BY <2>1, <3>1 DEF Record, Newest
  <2> HIDE DEF q
  <2>6. Inv'
    BY <1>1, <1>3, <2>2, <2>3, <2>5, InvHoldsPrime DEF Calls
  <2>7. LRU!Get(k)
    BY <1>3, <1>4, <1>6, <2>4, <2>5 DEF LRU!Get, f
  <2> QED
    BY <2>6, <2>7
<1> QED
  BY <1>5, <1>6

\* removeObjectForKey keeps the invariant and is an abstract removal.
LEMMA RemoveStep ==
    ASSUME Inv, NEW k \in Keys, HRemove(k)
    PROVE  Inv' /\ LRU!Remove(k)
<1> DEFINE S == StoredKeys(cache)
           q == Without(older, k)
           f == [x \in Keys |-> ObjectForKey(cache, x)]
           d == RemoveObjectForKey(cache, k)
<1>1. /\ Holds(cache, older, S)
      /\ IsFiniteSet(S)
      /\ Cardinality(S) \in Nat /\ Cardinality(S) <= Capacity
      /\ Capacity \in Nat
      /\ older \in Orders /\ Ordered(older, S)
  BY InvHolds, FiniteKeys, CapacityAssumption, FS_Subset, FS_CardinalityType
     DEF Holds
<1>2. /\ cache' = Release(d)
      /\ call' = [op |-> "remove", key |-> k, value |-> NIL]
      /\ Record(k)
  BY DEF HRemove, RemoveObject
<1>3. Holds(d, q, S \ {k}) /\ Stores(d, cache, k, NIL)
  <2>1. CASE k \notin S
    <3>1. cache.store[k] = NIL /\ d = cache /\ S \ {k} = S
      BY <2>1 DEF StoredKeys, RemoveObjectForKey
    <3>2. q = older
      <4>1. \A x \in Keys : q[x] = older[x]
        BY <1>1, <2>1 DEF Without, Ordered, Orders
      <4> QED
        BY <1>1, <4>1 DEF Without, Orders
    <3>3. Stores(cache, cache, k, NIL)
      BY <3>1 DEF Stores, ObjectForKey
    <3> HIDE DEF q, S, d
    <3> QED
      BY <1>1, <3>1, <3>2, <3>3
  <2>2. CASE k \in S
    <3>1. d = RemoveNode(cache, cache.store[k])
      BY <2>2 DEF StoredKeys, RemoveObjectForKey
    <3> HIDE DEF S, d
    <3> QED
      BY <1>1, <2>2, <3>1, RemoveHolds
  <2> QED
    BY <2>1, <2>2
<1> HIDE DEF d, S
<1>4. /\ Holds(cache', q, S \ {k})
      /\ \A x \in Keys : ObjectForKey(cache', x) = ObjectForKey(d, x)
  BY <1>2, <1>3, ReleaseHolds
<1>5. StoredKeys(cache') = S \ {k}
  BY <1>4 DEF Holds
<1>6. older' = q
  <2>1. ASSUME NEW x \in Keys PROVE older'[x] = q[x]
    <3>1. older[x] \subseteq S /\ (x \notin S => older[x] = {})
      BY <1>1 DEF Ordered, Orders
    <3> QED
      BY <1>2, <1>5, <3>1 DEF Record, Without
  <2> QED
    BY <1>2, <2>1 DEF Record, Without
<1>7. Cardinality(S \ {k}) <= Capacity
  <2>1. Cardinality(S \ {k}) =
           IF k \in S THEN Cardinality(S) - 1 ELSE Cardinality(S)
    BY <1>1, FS_RemoveElement
  <2> QED
    BY <1>1, <2>1
<1>8. Inv'
  BY <1>2, <1>4, <1>5, <1>6, <1>7, InvHoldsPrime DEF Calls
<1>9. f' = [f EXCEPT ![k] = NIL]
  BY <1>3, <1>4 DEF Stores
<1>10. older' = LRU!Forgotten(older, k)
  BY <1>6 DEF LRU!Forgotten, Without
<1>11. LRU!Remove(k)
  BY <1>2, <1>9, <1>10 DEF LRU!Remove
<1> QED
  BY <1>8, <1>11

LEMMA NextInv == Inv /\ [HNext]_hvars => Inv' /\ [LRU!Next]_(LRU!vars)
<1> SUFFICES ASSUME Inv, [HNext]_hvars
             PROVE  Inv' /\ [LRU!Next]_(LRU!vars)
  OBVIOUS
<1>1. ASSUME NEW k \in Keys, NEW v \in Values, HSet(k, v)
      PROVE  Inv' /\ LRU!Next
  BY <1>1, SetStep DEF LRU!Next
<1>2. ASSUME NEW k \in Keys, HGet(k)
      PROVE  Inv' /\ LRU!Next
  BY <1>2, GetStep DEF LRU!Next
<1>3. ASSUME NEW k \in Keys, HRemove(k)
      PROVE  Inv' /\ LRU!Next
  BY <1>3, RemoveStep DEF LRU!Next
<1>4. CASE UNCHANGED hvars
  <2>1. Inv'
    BY <1>4, InvHolds, InvHoldsPrime DEF hvars
  <2>2. UNCHANGED LRU!vars
    BY <1>4 DEF hvars, LRU!vars
  <2> QED
    BY <2>1, <2>2
<1> QED
  BY <1>1, <1>2, <1>3, <1>4 DEF HNext

\* The recorded order is the order of the walks.
LEMMA InvByRecency == ASSUME Inv, IsFiniteSet(Nodes) PROVE ByRecency
<1> DEFINE S == StoredKeys(cache)
           n == Cardinality(S)
           forward == Walk(cache.head, cache.next)
           backward == Walk(cache.tail, cache.prev)
<1>1. Holds(cache, older, S)
  BY InvHolds
<1>2. /\ older \in Orders /\ S \in SUBSET Keys /\ Ordered(older, S)
  BY <1>1 DEF Holds
<1>3. /\ IsFiniteSet(S) /\ n \in Nat
      /\ \A k \in S : Cardinality(older[k]) \in 0 .. n - 1
      /\ \A a, b \in S :
            Cardinality(older[a]) = Cardinality(older[b]) => a = b
  BY <1>2, OlderCounts
<1>4. n <= Cardinality(Nodes)
  BY <1>1, NodesSuffice
<1>5. /\ Ranked(S, cache.store, ByAge(older, S), cache.head, cache.next)
      /\ Ranked(S, cache.store, ByYouth(older, S), cache.tail, cache.prev)
  BY <1>1, ListRanked
<1>6. /\ Len(forward) = n
      /\ DOMAIN forward = 1 .. n
      /\ \A i \in 1 .. n : \E k \in S :
            ByAge(older, S)[k] = i /\ forward[i] = cache.store[k]
  BY <1>3, <1>4, <1>5, WalkMeets
<1>7. /\ Len(backward) = n
      /\ \A i \in 1 .. n : \E k \in S :
            ByYouth(older, S)[k] = i /\ backward[i] = cache.store[k]
  <2>1. Ranked(S, cache.store, ByYouth(older, S), cache.tail, cache.prev)
    BY <1>5
  <2> HIDE DEF S
  <2>2. /\ Len(Walk(cache.tail, cache.prev)) = Cardinality(S)
        /\ \A i \in 1 .. Cardinality(S) : \E k \in S :
              /\ ByYouth(older, S)[k] = i
              /\ Walk(cache.tail, cache.prev)[i] = cache.store[k]
    BY <1>3, <1>4, <2>1, WalkMeets
  <2> QED
    BY <2>2
<1>8. AllObjects(cache) = [i \in DOMAIN forward |-> cache.value[forward[i]]]
  BY DEF AllObjects
<1>9. \A k \in S : /\ cache.store[k] # NIL
                   /\ ByAge(older, S)[k] = n - Cardinality(older[k])
                   /\ ByYouth(older, S)[k] = Cardinality(older[k]) + 1
  BY DEF StoredKeys, ByAge, ByYouth
<1> HIDE DEF S, n, forward, backward
<1>10. ASSUME NEW i \in 1 .. n
       PROVE  /\ backward[i] = forward[n + 1 - i]
              /\ \E k \in S : /\ cache.store[k] = forward[i]
                              /\ Cardinality(older[k]) = n - i
                              /\ AllObjects(cache)[i] = ObjectForKey(cache, k)
  <2>1. PICK k \in S : ByAge(older, S)[k] = i /\ forward[i] = cache.store[k]
    BY <1>6
  <2>2. Cardinality(older[k]) = n - i
    BY <1>3, <1>9, <2>1
  <2>3. AllObjects(cache)[i] = cache.value[cache.store[k]]
    BY <1>6, <1>8, <2>1
  <2>4. ObjectForKey(cache, k) = cache.value[cache.store[k]]
    BY <1>9 DEF ObjectForKey
  <2>5. PICK a \in S : /\ ByYouth(older, S)[a] = i
                       /\ backward[i] = cache.store[a]
    BY <1>7
  <2>6. n + 1 - i \in 1 .. n
    BY <1>3
  <2>7. PICK b \in S : /\ ByAge(older, S)[b] = n + 1 - i
                       /\ forward[n + 1 - i] = cache.store[b]
    BY <1>6, <2>6
  <2>8. a = b
    BY <1>3, <1>9, <2>5, <2>7
  <2> QED
    BY <2>1, <2>2, <2>3, <2>4, <2>5, <2>7, <2>8
<1> QED
  BY <1>6, <1>7, <1>10 DEF ByRecency, Count, S, n, forward, backward

\* The calls of LRUCache.m keep every field of the cache of its type.
THEOREM TypeCorrect == HSpec => []TypeOK
<1>1. HInit => Inv
  BY InitInv
<1>2. Inv /\ [HNext]_hvars => Inv'
  BY NextInv
<1>3. Inv => TypeOK
  BY DEF Inv
<1> QED
  BY <1>1, <1>2, <1>3, PTL DEF HSpec

\* The dictionary, the doubly linked list and the order of last uses agree
\* after every call of LRUCache.m:37-144.
THEOREM ListCorrect == HSpec => []ListInv
<1>1. HInit => Inv
  BY InitInv
<1>2. Inv /\ [HNext]_hvars => Inv'
  BY NextInv
<1>3. Inv => ListInv
  BY DEF Inv
<1> QED
  BY <1>1, <1>2, <1>3, PTL DEF HSpec

\* alignSize, called only for a new key, keeps the cache within its capacity.
THEOREM CapacityCorrect == HSpec => []WithinCapacity
<1>1. HInit => Inv
  BY InitInv
<1>2. Inv /\ [HNext]_hvars => Inv'
  BY NextInv
<1>3. Inv => WithinCapacity
  BY DEF Inv
<1> QED
  BY <1>1, <1>2, <1>3, PTL DEF HSpec

\* Walking the list of LRUCache.m:62-67 from the head meets every stored node
\* once, the latest used first, walking it from the tail the same nodes the
\* other way round, and allObjects returns their values in that order.
THEOREM OrderCorrect == ASSUME IsFiniteSet(Nodes) PROVE HSpec => []ByRecency
<1>1. HInit => Inv
  BY InitInv
<1>2. Inv /\ [HNext]_hvars => Inv'
  BY NextInv
<1>3. Inv => ByRecency
  BY InvByRecency
<1> QED
  BY <1>1, <1>2, <1>3, PTL DEF HSpec

\* The pointer structure implements the abstract cache: a get returns the
\* last value put, and a put into a full cache drops the key used longest ago.
THEOREM RefinementCorrect == HSpec => ImplementsLRU
<1>1. HInit => Inv
  BY InitInv
<1>2. HInit => LRU!Init
  BY DEF HInit, Init, EmptyCache, LRU!Init, ObjectForKey
<1>3. Inv /\ [HNext]_hvars => Inv' /\ [LRU!Next]_(LRU!vars)
  BY NextInv
<1> QED
  BY <1>1, <1>2, <1>3, PTL DEF HSpec, ImplementsLRU, LRU!Spec
=============================================================================
