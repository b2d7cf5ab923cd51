-------------------------- MODULE ElementCacheProofs --------------------------
(***************************************************************************)
(* What the client of the element cache relies on, for any elements, places *)
(* and capacity.  The lemmas of the first part are about one call of the    *)
(* cache, those of the second about the steps of a request.                 *)
(***************************************************************************)
EXTENDS ElementCacheProperties, FiniteSetTheorems, TLAPS

Held(e) == {k \in Uids : e[k] # NIL}

\* Of two identifiers held, one was used before the other.
Ordered(e, o) ==
    /\ \A a \in Held(e) : o[a] \subseteq Held(e) \ {a}
    /\ \A a, b \in Held(e) : a # b => a \in o[b] \/ b \in o[a]

\* What was used after an identifier held is remembered; an identifier that
\* was evicted has been followed by a full cache of others.
Followed(e, o, s) ==
    /\ \A a, b \in Held(e) : b \in o[a] /\ s[b] # NIL => a \in s[b]
    /\ \A k \in Uids \ Held(e) : s[k] # NIL => Cardinality(s[k]) >= Capacity

CacheInv(e, o, s) ==
    /\ e \in [Uids -> Bindings \cup {NIL}]
    /\ o \in [Uids -> SUBSET Uids]
    /\ s \in [Uids -> (SUBSET Uids) \cup {NIL}]
    /\ Ordered(e, o)
    /\ Cardinality(Held(e)) <= Capacity
    /\ Followed(e, o, s)

\* The history after a use of k.
After(s, k) ==
    [u \in Uids |-> IF u = k THEN {} ELSE IF s[u] = NIL THEN NIL ELSE s[u] \cup {k}]

-----------------------------------------------------------------------------
(* The calls of the cache.                                                   *)

\* Both modules mean the same cardinality and the same keys.
LEMMA SameCardinality == \A T : LRU!Cardinality(T) = Cardinality(T)
BY DEF LRU!Cardinality, Cardinality

LEMMA SameKeys == \A e : LRU!Stored(e) = Held(e)
BY DEF LRU!Stored, Held

\* What one more identifier does to the cardinality of the history.
LEMMA MoreUses ==
    ASSUME NEW T \in SUBSET Uids, NEW k \in Uids
    PROVE  Cardinality(T \cup {k}) >= Cardinality(T)
<1>1. IsFiniteSet(T)
  BY FiniteUids, FS_Subset
<1>2. Cardinality(T) \in Nat
  BY <1>1, FS_CardinalityType
<1> QED
  BY <1>1, <1>2, FS_AddElement

\* A use of an identifier that is held, or becomes so with room to spare.
LEMMA UseHolds ==
    ASSUME NEW e, NEW o, NEW s, CacheInv(e, o, s), NEW k \in Uids,
           NEW f \in [Uids -> Bindings \cup {NIL}],
           Held(f) = Held(e) \cup {k},
           Cardinality(Held(f)) <= Capacity
    PROVE  CacheInv(f, LRU!Used(o, e, k), After(s, k))
<1> DEFINE p == LRU!Used(o, e, k)
           t == After(s, k)
<1>1. p = [x \in Uids |-> IF x = k THEN Held(e) \ {k} ELSE o[x] \ {k}]
  BY SameKeys DEF LRU!Used
<1>2. p \in [Uids -> SUBSET Uids] /\ t \in [Uids -> (SUBSET Uids) \cup {NIL}]
  BY <1>1 DEF CacheInv, After, Held
<1>3. Ordered(f, p)
  BY <1>1 DEF CacheInv, Ordered, Held
<1>4. ASSUME NEW a \in Held(f), NEW b \in Held(f), b \in p[a], t[b] # NIL
      PROVE  a \in t[b]
  <2>1. b # k /\ b \in Held(e)
    BY <1>1, <1>4 DEF Held
  <2>2. t[b] = s[b] \cup {k} /\ s[b] # NIL
    BY <1>4, <2>1 DEF After, Held
  <2>3. CASE a = k
    BY <2>2, <2>3
  <2>4. CASE a # k
    <3>1. a \in Held(e) /\ b \in o[a]
      BY <1>1, <1>4, <2>4 DEF Held
    <3> QED
      BY <2>1, <2>2, <3>1 DEF CacheInv, Followed
  <2> QED
    BY <2>3, <2>4
<1>5. ASSUME NEW u \in Uids \ Held(f), t[u] # NIL
      PROVE  Cardinality(t[u]) >= Capacity
  <2>1. u # k /\ u \in Uids \ Held(e)
    BY <1>5
  <2>2. t[u] = s[u] \cup {k} /\ s[u] # NIL
    BY <1>5, <2>1 DEF After
  <2>3. s[u] \in SUBSET Uids
    BY <2>2 DEF CacheInv
  <2>4. IsFiniteSet(s[u]) /\ IsFiniteSet(s[u] \cup {k})
    BY <2>3, FiniteUids, FS_Subset
  <2>5. Cardinality(s[u]) \in Nat /\ Cardinality(s[u] \cup {k}) \in Nat
    BY <2>4, FS_CardinalityType
  <2>6. Cardinality(s[u]) >= Capacity
    BY <2>1, <2>2 DEF CacheInv, Followed
  <2> QED
    BY <2>2, <2>3, <2>5, <2>6, MoreUses, CapacityAssumption
<1> QED
  BY <1>2, <1>3, <1>4, <1>5 DEF CacheInv, Followed

\* The eviction of the identifier used longest ago: all the others, as many
\* as the cache has room for, were used after it.
LEMMA EvictHolds ==
    ASSUME NEW e, NEW o, NEW s, CacheInv(e, o, s), NEW k \in Uids \ Held(e),
           Cardinality(Held(e)) >= Capacity, NEW v \in Bindings,
           NEW victim \in Held(e) \cup {k},
           LRU!Used(o, e, k)[victim] = {}
    PROVE  CacheInv([[e EXCEPT ![k] = v] EXCEPT ![victim] = NIL],
                    LRU!Forgotten(LRU!Used(o, e, k), victim),
                    After(s, k))
<1> DEFINE f == [[e EXCEPT ![k] = v] EXCEPT ![victim] = NIL]
           p == LRU!Forgotten(LRU!Used(o, e, k), victim)
           t == After(s, k)
<1>1. p = [x \in Uids |-> IF x = victim THEN {}
                          ELSE (IF x = k THEN Held(e) \ {k} ELSE o[x] \ {k})
                               \ {victim}]
  BY SameKeys DEF LRU!Used, LRU!Forgotten
<1>2. LRU!Used(o, e, k)[victim] =
         IF victim = k THEN Held(e) ELSE o[victim] \ {k}
  BY SameKeys DEF LRU!Used, Held
<1>3. Held(f) = (Held(e) \cup {k}) \ {victim}
  BY BindingsAssumption DEF CacheInv, Held, Bindings
<1>4. /\ f \in [Uids -> Bindings \cup {NIL}]
      /\ p \in [Uids -> SUBSET Uids]
      /\ t \in [Uids -> (SUBSET Uids) \cup {NIL}]
  BY <1>1 DEF CacheInv, After, Held
<1>5. Ordered(f, p)
  BY <1>1, <1>3 DEF CacheInv, Ordered, Held
<1>6. IsFiniteSet(Held(e)) /\ Cardinality(Held(e)) = Capacity
  <2>1. IsFiniteSet(Held(e))
    BY FiniteUids, FS_Subset DEF Held
  <2>2. Cardinality(Held(e)) \in Nat
    BY <2>1, FS_CardinalityType
  <2> QED
    BY <2>1, <2>2, CapacityAssumption DEF CacheInv
<1>7. /\ IsFiniteSet(Held(f))
      /\ Cardinality(Held(f)) = Capacity
  <2>1. /\ IsFiniteSet(Held(e) \cup {k})
        /\ Cardinality(Held(e) \cup {k}) = Capacity + 1
    BY <1>6, FS_AddElement
  <2>2. /\ IsFiniteSet((Held(e) \cup {k}) \ {victim})
        /\ Cardinality((Held(e) \cup {k}) \ {victim}) = (Capacity + 1) - 1
    BY <2>1, FS_RemoveElement
  <2> HIDE DEF f
  <2> QED
    BY <1>3, <2>2, CapacityAssumption
<1>8. ASSUME NEW a \in Held(f), NEW b \in Held(f), b \in p[a], t[b] # NIL
      PROVE  a \in t[b]
  <2>1. b # k /\ b \in Held(e)
    BY <1>1, <1>3, <1>8 DEF Held
  <2>2. t[b] = s[b] \cup {k} /\ s[b] # NIL
    BY <1>8, <2>1 DEF After, Held
  <2>3. CASE a = k
    BY <2>2, <2>3
  <2>4. CASE a # k
    <3>1. a \in Held(e) /\ b \in o[a]
      BY <1>1, <1>3, <1>8, <2>4 DEF Held
    <3> QED
      BY <2>1, <2>2, <3>1 DEF CacheInv, Followed
  <2> QED
    BY <2>3, <2>4
<1>9. ASSUME NEW u \in Uids \ Held(f), t[u] # NIL
      PROVE  Cardinality(t[u]) >= Capacity
  <2>1. CASE u = victim /\ u = k
    <3>1. Held(e) = {}
      BY <1>2, <2>1
    <3>2. Capacity = 0
      BY <1>6, <3>1, FS_EmptySet
    <3>3. t[u] = {}
      BY <2>1 DEF After
    <3> QED
      BY <3>2, <3>3, FS_EmptySet
  <2>2. CASE u = victim /\ u # k
    <3>1. u \in Held(e) /\ o[u] = {}
      BY <1>2, <2>2 DEF CacheInv, Ordered, Held
    <3>2. t[u] = s[u] \cup {k} /\ s[u] # NIL
      BY <1>9, <2>2 DEF After
    <3>3. s[u] \in SUBSET Uids
      BY <3>2 DEF CacheInv
    <3>4. \A a \in Held(e) \ {u} : a \in s[u]
      BY <3>1, <3>2 DEF CacheInv, Ordered, Followed
    <3>5. Held(f) \subseteq t[u]
      BY <1>3, <2>2, <3>2, <3>4
    <3>6. IsFiniteSet(t[u])
      BY <3>2, <3>3, FiniteUids, FS_Subset
    <3>7. Cardinality(Held(f)) <= Cardinality(t[u])
      BY <3>5, <3>6, FS_Subset
    <3>8. Cardinality(t[u]) \in Nat
      BY <3>6, FS_CardinalityType
    <3> QED
      BY <1>7, <3>7, <3>8, CapacityAssumption
  <2>3. CASE u # victim
    <3>1. u # k /\ u \in Uids \ Held(e)
      BY <1>3, <1>9, <2>3
    <3>2. t[u] = s[u] \cup {k} /\ s[u] # NIL
      BY <1>9, <3>1 DEF After
    <3>3. s[u] \in SUBSET Uids
      BY <3>2 DEF CacheInv
    <3>4. IsFiniteSet(s[u]) /\ IsFiniteSet(s[u] \cup {k})
      BY <3>3, FiniteUids, FS_Subset
    <3>5. Cardinality(s[u]) \in Nat /\ Cardinality(s[u] \cup {k}) \in Nat
      BY <3>4, FS_CardinalityType
    <3>6. Cardinality(s[u]) >= Capacity
      BY <3>1, <3>2 DEF CacheInv, Followed
    <3> QED
      BY <3>2, <3>3, <3>5, <3>6, MoreUses, CapacityAssumption
  <2> QED
    BY <2>1, <2>2, <2>3
<1>10. Cardinality(Held(f)) <= Capacity
  BY <1>7, CapacityAssumption
<1> QED
  BY <1>4, <1>5, <1>8, <1>9, <1>10 DEF CacheInv, Followed

\* The removal of an identifier whose element was found stale.
LEMMA RemoveHolds ==
    ASSUME NEW e, NEW o, NEW s, CacheInv(e, o, s), NEW k \in Uids
    PROVE  CacheInv([e EXCEPT ![k] = NIL], LRU!Forgotten(o, k),
                    [s EXCEPT ![k] = NIL])
<1> DEFINE f == [e EXCEPT ![k] = NIL]
           p == LRU!Forgotten(o, k)
           t == [s EXCEPT ![k] = NIL]
<1>1. p = [x \in Uids |-> IF x = k THEN {} ELSE o[x] \ {k}]
  BY DEF LRU!Forgotten
<1>2. Held(f) = Held(e) \ {k}
  BY DEF CacheInv, Held
<1>3. /\ f \in [Uids -> Bindings \cup {NIL}]
      /\ p \in [Uids -> SUBSET Uids]
      /\ t \in [Uids -> (SUBSET Uids) \cup {NIL}]
  BY <1>1 DEF CacheInv
<1>4. Ordered(f, p)
  BY <1>1, <1>2 DEF CacheInv, Ordered, Held
<1>5. Cardinality(Held(f)) <= Capacity
  <2>1. IsFiniteSet(Held(e))
    BY FiniteUids, FS_Subset DEF Held
  <2>2. Cardinality(Held(e)) \in Nat
    BY <2>1, FS_CardinalityType
  <2>3. Cardinality(Held(e) \ {k}) =
           IF k \in Held(e) THEN Cardinality(Held(e)) - 1 ELSE Cardinality(Held(e))
    BY <2>1, FS_RemoveElement
  <2>4. Cardinality(Held(e) \ {k}) <= Capacity
    BY <2>2, <2>3, CapacityAssumption DEF CacheInv
  <2> HIDE DEF f
  <2> QED
    BY <1>2, <2>4
<1>6. Followed(f, p, t)
  BY <1>1, <1>2 DEF CacheInv, Followed, Held
<1> QED
  BY <1>3, <1>4, <1>5, <1>6 DEF CacheInv

\* A call that only looks: a missing identifier, or one that is held.
LEMMA GetHolds ==
    ASSUME CacheInv(entries, older, since), NEW k \in Uids, GetFromCache(k)
    PROVE  CacheInv(entries', older', since')
<1>1. entries' = entries
  BY DEF GetFromCache, LRU!Get
<1>2. CASE entries[k] = NIL
  <2>1. older' = older /\ since' = since
    BY <1>2, SameKeys DEF GetFromCache, LRU!Get, Held
  <2> QED
    BY <1>1, <2>1
<1>3. CASE entries[k] # NIL
  <2>1. k \in Held(entries)
    BY <1>3 DEF Held
  <2>2. older' = LRU!Used(older, entries, k) /\ since' = After(since, k)
    BY <1>3, <2>1, SameKeys DEF GetFromCache, LRU!Get, Touched, After
  <2>3. Held(entries) = Held(entries) \cup {k}
    BY <2>1
  <2>4. CacheInv(entries, LRU!Used(older, entries, k), After(since, k))
    BY <2>3, UseHolds DEF CacheInv
  <2> QED
    BY <1>1, <2>2, <2>4
<1> QED
  BY <1>2, <1>3

LEMMA PutHolds ==
    ASSUME CacheInv(entries, older, since), NEW k \in Uids, NEW v \in Bindings,
           LRU!Put(k, v) \/ LRU!PutEvict(k, v), since' = Touched(k)
    PROVE  CacheInv(entries', older', since')
<1>1. since' = After(since, k)
  BY DEF Touched, After
<1>2. IsFiniteSet(Held(entries)) /\ Cardinality(Held(entries)) \in Nat
  BY FiniteUids, FS_Subset, FS_CardinalityType DEF Held
<1>3. CASE LRU!Put(k, v)
  <2>1. /\ k \in Held(entries) \/ Cardinality(Held(entries)) < Capacity
        /\ entries' = [entries EXCEPT ![k] = v]
        /\ older' = LRU!Used(older, entries, k)
    BY <1>3, SameKeys, SameCardinality DEF LRU!Put
  <2>2. /\ entries' \in [Uids -> Bindings \cup {NIL}]
        /\ Held(entries') = Held(entries) \cup {k}
    BY <2>1, BindingsAssumption DEF CacheInv, Held, Bindings
  <2>3. Cardinality(Held(entries) \cup {k}) =
           IF k \in Held(entries) THEN Cardinality(Held(entries))
           ELSE Cardinality(Held(entries)) + 1
    BY <1>2, FS_AddElement
  <2>4. Cardinality(Held(entries)) <= Capacity
    BY DEF CacheInv
  <2>5. Cardinality(Held(entries) \cup {k}) <= Capacity
    BY <1>2, <2>1, <2>3, <2>4, CapacityAssumption
  <2>6. Cardinality(Held(entries')) <= Capacity
    BY <2>2, <2>5
  <2>7. CacheInv(entries', LRU!Used(older, entries, k), After(since, k))
    BY <2>2, <2>6, UseHolds
  <2> QED
    BY <1>1, <2>1, <2>7
<1>4. CASE LRU!PutEvict(k, v)
  <2>1. /\ k \in Uids \ Held(entries)
        /\ Cardinality(Held(entries)) >= Capacity
    BY <1>4, SameKeys, SameCardinality DEF LRU!PutEvict
  <2>2. Held([entries EXCEPT ![k] = v]) = Held(entries) \cup {k}
    BY BindingsAssumption DEF CacheInv, Held, Bindings
  <2>3. PICK victim \in Held(entries) \cup {k} :
           /\ LRU!Used(older, entries, k)[victim] = {}
           /\ entries' = [[entries EXCEPT ![k] = v] EXCEPT ![victim] = NIL]
           /\ older' = LRU!Forgotten(LRU!Used(older, entries, k), victim)
    BY <1>4, <2>2, SameKeys DEF LRU!PutEvict
  <2>4. CacheInv([[entries EXCEPT ![k] = v] EXCEPT ![victim] = NIL],
                 LRU!Forgotten(LRU!Used(older, entries, k), victim),
                 After(since, k))
    BY <2>1, <2>3, EvictHolds
  <2> QED
    BY <1>1, <2>3, <2>4
<1> QED
  BY <1>3, <1>4

-----------------------------------------------------------------------------
(* The requests.                                                             *)

\* An instance that carries an identifier has been seen by the search.
Known(o) == o \in Objects /\ (o.cacheId # NIL => o.seen # NIL)

\* What a request holds at each of its steps.
RequestInv ==
    /\ \A o \in request.todo : Known(o)
    /\ request.at \in {"lookUp", "check"} => request.uuid \in Uids
    /\ request.at \in {"stabilise", "bind", "store", "respond"} =>
          Known(request.el)
    /\ request.at \in {"bind", "respond"} => request.el.seen \in Uids

\* The inductive invariant.
Inv ==
    /\ TypeOK
    /\ RequestInv
    /\ CacheInv(entries, older, since)

\* A snapshot shows an element or nothing.
LEMMA ResolveType ==
    ASSUME TypeOK, NEW b \in Bindings
    PROVE  Resolve(b) \in Uids \cup {NIL}
BY BindingsAssumption DEF TypeOK, Resolve, OnScreen, Bindings

\* The instances a search makes.
LEMMA FindableKnown ==
    ASSUME TypeOK, NEW o \in Findable
    PROVE  Known(o)
<1>1. OnScreen \subseteq Uids
  BY DEF TypeOK, OnScreen
<1>2. /\ o.bound \in Places \cup OnScreen
      /\ o.cacheId = NIL
      /\ o.seen \in {NIL} \cup OnScreen
      /\ o = [bound |-> o.bound, cacheId |-> o.cacheId, seen |-> o.seen]
  BY DEF Findable
<1>3. o \in Objects
  BY <1>1, <1>2 DEF Objects, Bindings
<1> QED
  BY <1>2, <1>3 DEF Known

\* The instance a search hands on is known, with the request it starts.
LEMMA SearchHolds ==
    ASSUME NEW todo, \A o \in todo : Known(o), Search(todo)
    PROVE  RequestInv' /\ request' \in Requests
<1>1. request' = [at |-> "next", todo |-> todo, el |-> NIL, uuid |-> NIL,
                  under |-> FALSE]
  BY DEF Search, NoRequest
<1>2. todo \subseteq Objects
  BY DEF Known
<1> QED
  BY <1>1, <1>2 DEF RequestInv, Requests, Steps

LEMMA IdleHolds ==
    ASSUME request' = NoRequest
    PROVE  RequestInv' /\ request' \in Requests
BY DEF NoRequest, RequestInv, Requests, Steps

LEMMA InitInv == Init => Inv
<1> SUFFICES ASSUME Init PROVE Inv
  OBVIOUS
<1>1. Held(entries) = {}
  BY DEF Init, LRU!Init, Held
<1>2. CacheInv(entries, older, since)
  <2>1. Cardinality(Held(entries)) = 0
    BY <1>1, FS_EmptySet
  <2>2. entries \in [Uids -> Bindings \cup {NIL}] /\ older \in [Uids -> SUBSET Uids]
    BY DEF Init, LRU!Init
  <2>3. since = [u \in Uids |-> NIL]
    BY DEF Init
  <2> QED
    BY <1>1, <2>1, <2>2, <2>3, CapacityAssumption DEF CacheInv, Ordered, Followed
<1>3. RequestInv
  BY DEF Init, NoRequest, RequestInv
<1>4. LRU!TypeOK
  BY DEF Init, LRU!Init, LRU!TypeOK, LRU!Calls
<1>5. TypeOK
  <2>1. request \in Requests
    BY DEF Init, NoRequest, Requests, Steps
  <2>2. screen \in [Places -> Uids \cup {NIL}] /\ useNativeCachingStrategy \in BOOLEAN
    BY StrategiesAssumption DEF Init, PossibleScreens
  <2>3. given \in [ids : SUBSET Uids, newIds : SUBSET Uids, stored : Nat]
    BY DEF Init, NothingGiven
  <2>4. since \in [Uids -> (SUBSET Uids) \cup {NIL}]
    BY <1>2 DEF CacheInv
  <2> QED
    BY <1>4, <2>1, <2>2, <2>3, <2>4 DEF TypeOK
<1> QED
  BY <1>2, <1>3, <1>5 DEF Inv

\* What every step of a request has to show.
LEMMA Together ==
    ASSUME CacheInv(entries, older, since)', RequestInv',
           request' \in Requests, call' \in LRU!Calls,
           useNativeCachingStrategy' \in BOOLEAN,
           screen' \in [Places -> Uids \cup {NIL}],
           given' \in [ids : SUBSET Uids, newIds : SUBSET Uids, stored : Nat]
    PROVE  Inv'
BY DEF Inv, TypeOK, CacheInv, LRU!TypeOK

LEMMA CacheKept ==
    ASSUME Inv, UNCHANGED <<cacheVars, since>>
    PROVE  CacheInv(entries, older, since)' /\ call' \in LRU!Calls
BY DEF Inv, TypeOK, LRU!TypeOK, cacheVars, CacheInv, Ordered, Followed, Held

\* The parts of the invariant a step starts from.
LEMMA Parts ==
    ASSUME Inv
    PROVE  /\ TypeOK /\ RequestInv /\ CacheInv(entries, older, since)
           /\ request \in Requests
           /\ useNativeCachingStrategy \in BOOLEAN
           /\ screen \in [Places -> Uids \cup {NIL}]
           /\ given \in [ids : SUBSET Uids, newIds : SUBSET Uids, stored : Nat]
           /\ entries \in [Uids -> Bindings \cup {NIL}]
BY DEF Inv, TypeOK, CacheInv

LEMMA FailHolds ==
    ASSUME Inv, Fail, UNCHANGED <<useNativeCachingStrategy, screen>>
    PROVE  Inv'
<1>1. CacheInv(entries, older, since)' /\ call' \in LRU!Calls
  BY CacheKept DEF Fail
<1>2. RequestInv' /\ request' \in Requests
  BY IdleHolds DEF Fail
<1>3. given' \in [ids : SUBSET Uids, newIds : SUBSET Uids, stored : Nat]
  BY DEF Fail, NothingGiven
<1> QED
  BY <1>1, <1>2, <1>3, Parts, Together

LEMMA GetCalls ==
    ASSUME Inv, NEW k \in Uids, GetFromCache(k)
    PROVE  CacheInv(entries, older, since)' /\ call' \in LRU!Calls
<1>1. CacheInv(entries', older', since')
  BY GetHolds, Parts
<1>2. call' \in LRU!Calls
  BY Parts DEF GetFromCache, LRU!Get, LRU!Calls
<1> QED
  BY <1>1, <1>2 DEF CacheInv, Ordered, Followed, Held

\* The steps, one by one.
LEMMA ScreenChangesInv == Inv /\ ScreenChanges => Inv'
<1> SUFFICES ASSUME Inv, ScreenChanges PROVE Inv'
  OBVIOUS
<1>1. CacheInv(entries, older, since)' /\ call' \in LRU!Calls
  BY CacheKept DEF ScreenChanges
<1>2. RequestInv' /\ request' \in Requests
  BY Parts DEF ScreenChanges, RequestInv, Known
<1>3. screen' \in [Places -> Uids \cup {NIL}]
  BY DEF ScreenChanges, PossibleScreens
<1> QED
  BY <1>1, <1>2, <1>3, Parts, Together DEF ScreenChanges

LEMMA FindInv == Inv /\ Find => Inv'
<1> SUFFICES ASSUME Inv, Find PROVE Inv'
  OBVIOUS
<1>1. CacheInv(entries, older, since)' /\ call' \in LRU!Calls
  BY CacheKept DEF Find
<1>2. PICK todo \in SUBSET {o \in Findable : Found(o)} : Search(todo)
  BY DEF Find
<1>3. \A o \in todo : Known(o)
  BY FindableKnown, Parts
<1>4. RequestInv' /\ request' \in Requests
  BY <1>2, <1>3, SearchHolds
<1>5. given' \in [ids : SUBSET Uids, newIds : SUBSET Uids, stored : Nat]
  BY DEF Find, NothingGiven
<1> QED
  BY <1>1, <1>4, <1>5, Parts, Together DEF Find

LEMMA AskInv == Inv /\ Ask => Inv'
<1> SUFFICES ASSUME Inv, NEW k \in Uids, NEW check \in BOOLEAN, NEW under \in BOOLEAN,
                    AskFor(k, check, under)
             PROVE  Inv'
  BY DEF Ask
<1>1. CacheInv(entries, older, since)' /\ call' \in LRU!Calls
  BY CacheKept DEF AskFor
<1>2. request' = [at |-> IF check THEN "check" ELSE "lookUp", todo |-> {},
                  el |-> NIL, uuid |-> k, under |-> under]
  BY DEF AskFor, NoRequest
<1>3. RequestInv' /\ request' \in Requests
  BY <1>2 DEF RequestInv, Requests, Steps
<1>4. given' \in [ids : SUBSET Uids, newIds : SUBSET Uids, stored : Nat]
  BY DEF AskFor, NothingGiven
<1> QED
  BY <1>1, <1>3, <1>4, Parts, Together DEF AskFor

LEMMA LookUpInv == Inv /\ LookUp => Inv'
<1> SUFFICES ASSUME Inv, LookUp PROVE Inv'
  OBVIOUS
<1> DEFINE k == request.uuid
<1>1. k \in Uids /\ GetFromCache(k)
  BY Parts DEF LookUp, RequestInv
<1>2. CacheInv(entries, older, since)' /\ call' \in LRU!Calls
  BY <1>1, GetCalls
<1>3. CASE entries[k] # NIL /\ request.under
  <2>1. PICK todo \in SUBSET {o \in Findable : Found(o)},
             self \in {{}, {Itself(k, entries[k])}} :
           (\A o \in self : o.seen # NIL) /\ Search(todo \cup self)
    BY <1>3 DEF LookUp
  <2>2. entries[k] \in Bindings
    BY <1>1, <1>3, Parts
  <2>3. Resolve(entries[k]) \in Uids \cup {NIL}
    BY <2>2, Parts, ResolveType
  <2>4. ASSUME NEW o \in self PROVE Known(o)
    <3>1. o = [bound |-> entries[k], cacheId |-> k, seen |-> Resolve(entries[k])]
      BY <2>4 DEF Itself
    <3>2. o \in Objects
      BY <1>1, <2>2, <2>3, <3>1 DEF Objects
    <3> QED
      BY <2>1, <3>2 DEF Known
  <2>5. \A o \in todo \cup self : Known(o)
    BY <2>4, FindableKnown, Parts
  <2>6. RequestInv' /\ request' \in Requests
    BY <2>1, <2>5, SearchHolds
  <2> QED
    BY <1>2, <2>6, Parts, Together DEF LookUp
<1>4. CASE ~(entries[k] # NIL /\ request.under)
  <2>1. RequestInv' /\ request' \in Requests
    BY <1>4, IdleHolds DEF LookUp
  <2> QED
    BY <1>2, <2>1, Parts, Together DEF LookUp
<1> QED
  BY <1>3, <1>4

LEMMA LookUpToCheckInv == Inv /\ LookUpToCheck => Inv'
<1> SUFFICES ASSUME Inv, LookUpToCheck PROVE Inv'
  OBVIOUS
<1> DEFINE k == request.uuid
<1>1. k \in Uids /\ GetFromCache(k) /\ request.at = "check"
  BY Parts DEF LookUpToCheck, RequestInv
<1>2. CacheInv(entries, older, since)' /\ call' \in LRU!Calls
  BY <1>1, GetCalls
<1>3. CASE entries[k] = NIL
  <2>1. RequestInv' /\ request' \in Requests
    BY <1>3, IdleHolds DEF LookUpToCheck
  <2> QED
    BY <1>2, <2>1, Parts, Together DEF LookUpToCheck
<1>4. CASE entries[k] # NIL
  <2>1. request' = [request EXCEPT !.el = Itself(k, entries[k])]
    BY <1>4 DEF LookUpToCheck
  <2>2. entries[k] \in Bindings
    BY <1>1, <1>4, Parts
  <2>3. Resolve(entries[k]) \in Uids \cup {NIL}
    BY <2>2, Parts, ResolveType
  <2>4. Itself(k, entries[k]) \in Objects
    BY <1>1, <2>2, <2>3 DEF Itself, Objects
  <2>5. request' \in Requests
    BY <2>1, <2>4, Parts DEF Requests
  <2>6. request'.at = "check" /\ request'.todo = request.todo /\ request'.uuid = k
    BY <1>1, <2>1, Parts DEF Requests
  <2>7. RequestInv'
    BY <1>1, <2>6, Parts DEF RequestInv, Known
  <2> QED
    BY <1>2, <2>5, <2>7, Parts, Together DEF LookUpToCheck
<1> QED
  BY <1>3, <1>4

LEMMA CheckStalenessInv == Inv /\ CheckStaleness => Inv'
<1> SUFFICES ASSUME Inv, CheckStaleness PROVE Inv'
  OBVIOUS
<1>1. RequestInv' /\ request' \in Requests
  BY IdleHolds DEF CheckStaleness
<1>2. request.uuid \in Uids
  BY Parts DEF CheckStaleness, RequestInv
<1>3. CASE RemoveStale(request.uuid)
  <2>1. CacheInv(entries', older', since')
    BY <1>2, <1>3, RemoveHolds, Parts DEF RemoveStale, LRU!Remove
  <2>2. call' \in LRU!Calls
    BY <1>2, <1>3 DEF RemoveStale, LRU!Remove, LRU!Calls
  <2> QED
    BY <1>1, <2>1, <2>2, Parts, Together
       DEF CheckStaleness, CacheInv, Ordered, Followed, Held
<1>4. CASE UNCHANGED <<cacheVars, since>>
  BY <1>1, <1>4, CacheKept, Parts, Together DEF CheckStaleness
<1> QED
  BY <1>3, <1>4 DEF CheckStaleness

LEMMA NextElementInv == Inv /\ NextElement => Inv'
<1> SUFFICES ASSUME Inv, NextElement PROVE Inv'
  OBVIOUS
<1>1. PICK o \in request.todo :
         request' = [request EXCEPT !.at = IF useNativeCachingStrategy
                                           THEN "store" ELSE "stabilise",
                                    !.el = o, !.todo = @ \ {o}]
  BY DEF NextElement
<1>2. Known(o)
  BY Parts DEF RequestInv
<1>3. /\ request'.at \in {"store", "stabilise"}
      /\ request'.el = o
      /\ request'.todo = request.todo \ {o}
  BY <1>1, Parts DEF Requests
<1>4. request' \in Requests
  BY <1>1, <1>2, Parts DEF Requests, Steps, Known
<1>5. RequestInv'
  BY <1>2, <1>3, Parts DEF RequestInv, Known
<1> QED
  BY <1>4, <1>5, CacheKept, Parts, Together DEF NextElement

LEMMA AnsweredInv == Inv /\ Answered => Inv'
<1> SUFFICES ASSUME Inv, Answered PROVE Inv'
  OBVIOUS
<1>1. RequestInv' /\ request' \in Requests
  BY IdleHolds DEF Answered
<1> QED
  BY <1>1, CacheKept, Parts, Together DEF Answered

LEMMA StabiliseInv == Inv /\ Stabilise => Inv'
<1> SUFFICES ASSUME Inv, Stabilise PROVE Inv'
  OBVIOUS
<1> DEFINE el == request.el
           seen == IF el.seen # NIL THEN el.seen ELSE Resolve(el.bound)
<1>1. Known(el)
  BY Parts DEF Stabilise, RequestInv
<1>2. el.bound \in Bindings /\ el.seen \in Uids \cup {NIL}
  BY <1>1 DEF Known, Objects
<1>3. seen \in Uids \cup {NIL}
  BY <1>2, Parts, ResolveType
<1>4. CASE seen = NIL
  BY <1>4, FailHolds DEF Stabilise
<1>5. CASE seen # NIL
  <2>1. /\ request' = [request EXCEPT !.at = "bind", !.el.seen = seen]
        /\ UNCHANGED <<cacheVars, given, since, useNativeCachingStrategy, screen>>
    BY <1>5 DEF Stabilise
  <2> DEFINE new == [el EXCEPT !.seen = seen]
  <2>2. new \in Objects /\ new.seen = seen
    BY <1>1, <1>3 DEF Known, Objects
  <2>3. Known(new) /\ new.seen \in Uids
    BY <1>3, <1>5, <2>2 DEF Known
  <2> HIDE DEF new
  <2>4. request' = [request EXCEPT !.at = "bind", !.el = new]
    BY <2>1 DEF new
  <2>5. /\ request'.at = "bind"
        /\ request'.el = new
        /\ request'.todo = request.todo
    BY <2>4, Parts DEF Requests
  <2>6. request' \in Requests
    BY <2>2, <2>4, Parts DEF Requests, Steps
  <2>7. RequestInv'
    BY <2>3, <2>5, Parts DEF RequestInv, Known
  <2> QED
    BY <2>1, <2>6, <2>7, CacheKept, Parts, Together
<1> QED
  BY <1>4, <1>5

LEMMA BindInv == Inv /\ Bind => Inv'
<1> SUFFICES ASSUME Inv, Bind PROVE Inv'
  OBVIOUS
<1> DEFINE el == request.el
           stable == [el EXCEPT !.bound = el.seen, !.cacheId = NIL]
           new == IF el.bound \in Places /\ el.seen \in OnScreen THEN stable ELSE el
<1>1. Known(el) /\ el.seen \in Uids
  BY Parts DEF Bind, RequestInv
<1>2. stable \in Objects /\ stable.seen = el.seen /\ stable.cacheId = NIL
  BY <1>1 DEF Known, Objects, Bindings
<1>3. Known(new) /\ new \in Objects
  BY <1>1, <1>2 DEF Known
<1>4. request' = [request EXCEPT !.at = "store", !.el = new]
  BY DEF Bind
<1> HIDE DEF new
<1>5. /\ request'.at = "store"
      /\ request'.el = new
      /\ request'.todo = request.todo
  BY <1>4, Parts DEF Requests
<1>6. request' \in Requests
  BY <1>3, <1>4, Parts DEF Requests, Steps
<1>7. RequestInv'
  BY <1>3, <1>5, Parts DEF RequestInv, Known
<1> QED
  BY <1>6, <1>7, CacheKept, Parts, Together DEF Bind

LEMMA StoreElementInv == Inv /\ StoreElement => Inv'
<1> SUFFICES ASSUME Inv, StoreElement PROVE Inv'
  OBVIOUS
<1> DEFINE el == request.el
           uuid == IF el.cacheId # NIL THEN el.cacheId ELSE Resolve(el.bound)
<1>1. Known(el)
  BY Parts DEF StoreElement, RequestInv
<1>2. /\ el.bound \in Bindings
      /\ el.seen \in Uids \cup {NIL}
      /\ el.cacheId \in Uids \cup {NIL}
  BY <1>1 DEF Known, Objects
<1>3. uuid \in Uids \cup {NIL}
  BY <1>2, Parts, ResolveType
<1>4. CASE uuid = NIL
  BY <1>4, FailHolds DEF StoreElement
<1>5. CASE uuid # NIL
  <2> DEFINE seen == IF el.cacheId = NIL THEN uuid ELSE el.seen
             new == [el EXCEPT !.seen = seen]
  <2>1. /\ LRU!Put(uuid, el.bound) \/ LRU!PutEvict(uuid, el.bound)
        /\ since' = Touched(uuid)
        /\ given' = [given EXCEPT !.stored = @ + 1]
        /\ UNCHANGED <<useNativeCachingStrategy, screen>>
        /\ request' = [request EXCEPT !.at = "respond", !.el.seen = seen]
    BY <1>5 DEF StoreElement
  <2>2. seen \in Uids
    BY <1>1, <1>2, <1>3, <1>5 DEF Known
  <2>3. new \in Objects /\ new.seen = seen
    BY <1>1, <2>2 DEF Known, Objects
  <2>4. Known(new) /\ new.seen \in Uids
    BY <1>3, <2>2, <2>3, BindingsAssumption DEF Known
  <2>5. request' = [request EXCEPT !.at = "respond", !.el = new]
    BY <2>1
  <2> HIDE DEF new, seen, uuid
  <2>6. /\ request'.at = "respond"
        /\ request'.el = new
        /\ request'.todo = request.todo
    BY <2>5, Parts DEF Requests
  <2>7. request' \in Requests
    BY <2>3, <2>5, Parts DEF Requests, Steps
  <2>8. RequestInv'
    BY <2>4, <2>6, Parts DEF RequestInv, Known
  <2>9. CacheInv(entries', older', since')
    BY <1>2, <1>3, <1>5, <2>1, PutHolds, Parts
  <2>10. CacheInv(entries, older, since)'
    BY <2>9 DEF CacheInv, Ordered, Followed, Held
  <2>11. call' \in LRU!Calls
    BY <1>2, <1>3, <1>5, <2>1 DEF LRU!Put, LRU!PutEvict, LRU!Calls
  <2>12. given' \in [ids : SUBSET Uids, newIds : SUBSET Uids, stored : Nat]
    BY <2>1, Parts
  <2> QED
    BY <2>1, <2>7, <2>8, <2>10, <2>11, <2>12, Parts, Together
<1> QED
  BY <1>4, <1>5

LEMMA RespondInv == Inv /\ Respond => Inv'
<1> SUFFICES ASSUME Inv, Respond PROVE Inv'
  OBVIOUS
<1>1. request.el.seen \in Uids
  BY Parts DEF Respond, RequestInv
<1>2. given' \in [ids : SUBSET Uids, newIds : SUBSET Uids, stored : Nat]
  BY <1>1, Parts DEF Respond
<1>3. request' = [request EXCEPT !.at = "next", !.el = NIL]
  BY DEF Respond
<1>4. request' \in Requests
  BY <1>3, Parts DEF Requests, Steps
<1>5. request'.at = "next" /\ request'.todo = request.todo
  BY <1>3, Parts DEF Requests
<1>6. RequestInv'
  BY <1>5, Parts DEF RequestInv, Known
<1> QED
  BY <1>2, <1>4, <1>6, CacheKept, Parts, Together DEF Respond

LEMMA NextInv == Inv /\ [Next]_vars => Inv'
<1> SUFFICES ASSUME Inv, [Next]_vars PROVE Inv'
  OBVIOUS
<1>1. CASE UNCHANGED vars
  <2>1. UNCHANGED <<cacheVars, since>>
    BY <1>1 DEF vars, cacheVars
  <2>2. RequestInv' /\ request' \in Requests
    BY <1>1, Parts DEF vars, RequestInv, Known
  <2> QED
    BY <1>1, <2>1, <2>2, CacheKept, Parts, Together DEF vars
<1> QED
  BY <1>1, ScreenChangesInv, FindInv, AskInv, LookUpInv, LookUpToCheckInv,
     CheckStalenessInv, NextElementInv, AnsweredInv, StabiliseInv, BindInv,
     StoreElementInv, RespondInv DEF Next

LEMMA SpecInv == Spec => []Inv
BY InitInv, NextInv, PTL DEF Spec

\* The cache, the requests and what they answer keep their types, for any
\* elements, locators and capacity (FBElementCache.m, FBResponsePayload.m).
THEOREM TypeCorrect == Spec => []TypeOK
<1>1. Inv => TypeOK
  BY DEF Inv
<1> QED
  BY <1>1, SpecInv, PTL

\* An identifier the client has used stays valid until its element is found
\* stale or as many others have been used as the cache has room for, for any
\* interleaving of requests with changes of the screen (FBElementCache.m).
THEOREM RecentIdsKept == Spec => []KeptWhileRecent
<1>1. Inv => KeptWhileRecent
  <2> SUFFICES ASSUME Inv, NEW k \in Uids, since[k] # NIL,
                      Cardinality(since[k]) < Capacity, entries[k] = NIL
               PROVE  FALSE
    BY DEF KeptWhileRecent
  <2>1. Cardinality(since[k]) >= Capacity
    BY Parts DEF CacheInv, Followed, Held
  <2>2. IsFiniteSet(since[k])
    BY FiniteUids, FS_Subset, Parts DEF CacheInv
  <2>3. Cardinality(since[k]) \in Nat
    BY <2>2, FS_CardinalityType
  <2> QED
    BY <2>1, <2>3, CapacityAssumption
<1> QED
  BY <1>1, SpecInv, PTL

-----------------------------------------------------------------------------
(* What a search answers.                                                    *)

\* Fewer identifiers were used since this one than the search has stored.
Young(id) == since[id] # NIL /\ Cardinality(since[id]) < given.stored

GivenInv ==
    /\ request.at \in {"lookUp", "check"} => given = NothingGiven
    /\ \A id \in given.newIds : Young(id)
    /\ request.at = "respond" /\ request.el.cacheId = NIL =>
          Young(request.el.seen)

LEMMA NothingNew ==
    ASSUME given' = NothingGiven, request'.at # "respond"
    PROVE  GivenInv'
BY DEF GivenInv, NothingGiven

LEMMA NothingMore ==
    ASSUME GivenInv, UNCHANGED <<given, since>>,
           request'.at \notin {"lookUp", "check", "respond"}
    PROVE  GivenInv'
BY DEF GivenInv, Young

\* One more identifier used makes one that is young no older than the search.
LEMMA YoungStays ==
    ASSUME Inv, NEW id \in Uids, NEW k \in Uids, Young(id),
           since' = Touched(k), given'.stored = given.stored + 1
    PROVE  Young(id)'
<1>1. since[id] \in SUBSET Uids
  BY Parts DEF Young, CacheInv
<1>2. IsFiniteSet(since[id])
  BY <1>1, FiniteUids, FS_Subset
<1>3. Cardinality(since[id]) \in Nat /\ given.stored \in Nat
  BY <1>2, FS_CardinalityType, Parts
<1>4. Cardinality(since[id] \cup {k}) =
         IF k \in since[id] THEN Cardinality(since[id])
         ELSE Cardinality(since[id]) + 1
  BY <1>2, FS_AddElement
<1>5. CASE id = k
  <2>1. since'[id] = {}
    BY <1>5 DEF Touched
  <2> QED
    BY <1>3, <2>1, FS_EmptySet, NilIsNoSet DEF Young
<1>6. CASE id # k
  <2>1. since'[id] = since[id] \cup {k}
    BY <1>6 DEF Touched, Young
  <2> QED
    BY <1>1, <1>3, <1>4, <2>1, NilIsNoSet DEF Young
<1> QED
  BY <1>5, <1>6

LEMMA GivenStep == Inv /\ GivenInv /\ [Next]_vars => GivenInv'
<1> SUFFICES ASSUME Inv, GivenInv, [Next]_vars PROVE GivenInv'
  OBVIOUS
<1>1. CASE ScreenChanges \/ UNCHANGED vars
  BY <1>1 DEF ScreenChanges, vars, GivenInv, Young
<1>2. CASE Find
  BY <1>2, NothingNew DEF Find, Search, NoRequest
<1>3. CASE Ask
  BY <1>3, NothingNew DEF Ask, AskFor, NoRequest
<1>4. CASE LookUp
  <2>1. request'.at \in {"next", "idle"}
    <3>1. CASE \E todo : Search(todo)
      BY <3>1 DEF Search, NoRequest
    <3>2. CASE request' = NoRequest
      BY <3>2 DEF NoRequest
    <3> QED
      BY <1>4, <3>1, <3>2 DEF LookUp
  <2>2. given = NothingGiven /\ given' = given
    BY <1>4 DEF LookUp, GivenInv
  <2> QED
    BY <2>1, <2>2, NothingNew
<1>5. CASE LookUpToCheck
  <2>1. request'.at # "respond"
    BY <1>5, Parts DEF LookUpToCheck, NoRequest, Requests
  <2> QED
    BY <1>5, <2>1, NothingNew DEF LookUpToCheck, GivenInv
<1>6. CASE CheckStaleness
  BY <1>6, NothingNew DEF CheckStaleness, NoRequest, GivenInv
<1>7. CASE NextElement
  <2>1. request'.at \in {"store", "stabilise"}
    BY <1>7, Parts DEF NextElement, Requests
  <2> QED
    BY <1>7, <2>1, NothingMore DEF NextElement
<1>8. CASE Answered
  BY <1>8, NothingMore DEF Answered, NoRequest
<1>9. CASE Stabilise
  <2>1. CASE Fail
    BY <2>1, NothingNew DEF Fail, NoRequest
  <2>2. CASE request' = [request EXCEPT !.at = "bind",
                            !.el.seen = IF request.el.seen # NIL THEN request.el.seen
                                        ELSE Resolve(request.el.bound)]
             /\ UNCHANGED <<cacheVars, given, since>>
    <3>1. request'.at = "bind"
      BY <2>2, Parts DEF Requests
    <3> QED
      BY <2>2, <3>1, NothingMore
  <2> QED
    BY <1>9, <2>1, <2>2 DEF Stabilise
<1>10. CASE Bind
  <2>1. request'.at = "store"
    BY <1>10, Parts DEF Bind, Requests
  <2> QED
    BY <1>10, <2>1, NothingMore DEF Bind
<1>11. CASE StoreElement
  <2> DEFINE el == request.el
             uuid == IF el.cacheId # NIL THEN el.cacheId ELSE Resolve(el.bound)
  <2>1. CASE Fail
    BY <2>1, NothingNew DEF Fail, NoRequest
  <2>2. CASE ~Fail
    <3>1. /\ uuid # NIL
          /\ since' = Touched(uuid)
          /\ given' = [given EXCEPT !.stored = @ + 1]
          /\ request' = [request EXCEPT !.at = "respond",
                            !.el.seen = IF el.cacheId = NIL THEN uuid ELSE el.seen]
      BY <1>11, <2>2 DEF StoreElement
    <3>2. Known(el)
      BY <1>11, Parts DEF StoreElement, RequestInv
    <3>3. el \in Objects /\ el.bound \in Bindings /\ el.cacheId \in Uids \cup {NIL}
      BY <3>2 DEF Known, Objects
    <3>4. uuid \in Uids
      BY <3>1, <3>3, Parts, ResolveType
    <3>5. /\ request'.at = "respond"
          /\ request'.el.cacheId = el.cacheId
          /\ el.cacheId = NIL => request'.el.seen = uuid
      BY <3>1, <3>3, Parts DEF Requests, Objects
    <3>6. given'.newIds = given.newIds /\ given'.stored = given.stored + 1
      BY <3>1, Parts
    <3>7. \A id \in given.newIds : Young(id)'
      BY <3>1, <3>4, <3>6, Parts, YoungStays DEF GivenInv
    <3>8. since'[uuid] # NIL /\ Cardinality(since'[uuid]) < given'.stored
      <4>1. since'[uuid] = {}
        BY <3>1, <3>4 DEF Touched
      <4> QED
        BY <3>6, <4>1, FS_EmptySet, NilIsNoSet, Parts
    <3> HIDE DEF uuid
    <3>9. request'.el.cacheId = NIL => Young(request.el.seen)'
      BY <3>5, <3>8 DEF Young
    <3>10. \A id \in given'.newIds : Young(id)'
      BY <3>6, <3>7
    <3> QED
      BY <3>5, <3>9, <3>10 DEF GivenInv
  <2> QED
    BY <2>1, <2>2
<1>12. CASE Respond
  <2>1. /\ request.at = "respond"
        /\ request'.at = "next"
        /\ UNCHANGED since
    BY <1>12, Parts DEF Respond, Requests
  <2>2. /\ given'.stored = given.stored
        /\ given'.newIds = IF request.el.cacheId = NIL
                           THEN given.newIds \cup {request.el.seen} ELSE given.newIds
    BY <1>12, Parts DEF Respond
  <2>3. \A id \in given'.newIds : Young(id)
    BY <2>1, <2>2 DEF GivenInv
  <2> QED
    BY <2>1, <2>2, <2>3 DEF GivenInv, Young
<1> QED
  BY <1>1, <1>2, <1>3, <1>4, <1>5, <1>6, <1>7, <1>8, <1>9, <1>10, <1>11, <1>12
     DEF Next

\* An answer that fits the cache leaves every identifier it gave for a new
\* instance in the cache (FBResponsePayload.m:51-75), for any screen changes.
THEOREM NewIdsStored == Spec => []NewIdsAreStored
<1>1. Init => GivenInv
  BY DEF Init, NoRequest, NothingGiven, GivenInv
<1>2. Inv /\ GivenInv => NewIdsAreStored
  <2> SUFFICES ASSUME Inv, GivenInv, given.stored <= Capacity,
                      NEW id \in given.newIds, entries[id] = NIL
               PROVE  FALSE
    BY DEF NewIdsAreStored
  <2>1. id \in Uids /\ Young(id) /\ given.stored \in Nat
    BY Parts DEF GivenInv
  <2>2. Cardinality(since[id]) >= Capacity
    BY <2>1, Parts DEF CacheInv, Followed, Held, Young
  <2>3. IsFiniteSet(since[id])
    BY <2>1, FiniteUids, FS_Subset, Parts DEF CacheInv, Young
  <2>4. Cardinality(since[id]) \in Nat
    BY <2>3, FS_CardinalityType
  <2> QED
    BY <2>1, <2>2, <2>4, CapacityAssumption DEF Young
<1> QED
  BY <1>1, <1>2, GivenStep, SpecInv, PTL DEF Spec
=============================================================================
