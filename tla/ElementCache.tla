----------------------------- MODULE ElementCache -----------------------------
(***************************************************************************)
(* Routing/FBElementCache.m and what its clients do with it while they      *)
(* answer a request: the search commands store what they found and answer   *)
(* with identifiers (FBResponsePayload.m:33-75), the others look an         *)
(* identifier up and may check that its element is still there.             *)
(*                                                                          *)
(* Requests run one at a time on the main queue, but the application under  *)
(* test does not wait for them: the screen may change between two snapshots *)
(* of one request.  An XCUIElement is a query, not an object of the screen. *)
(* It is bound either to a place (what its locator says, "the first         *)
(* button") or to the identifier of one accessibility element.              *)
(*                                                                          *)
(* The cache itself is the abstract one of LRUSpec, which LRUCache has been *)
(* shown to implement.                                                      *)
(***************************************************************************)
EXTENDS Naturals, FiniteSets

CONSTANTS
    Uids,        \* identifiers of accessibility elements, the keys of the cache
    Places,      \* what locators name
    Capacity,    \* ELEMENT_CACHE_SIZE
    MaxFound,    \* bound on the elements of one search
    Strategies,  \* the values of useNativeCachingStrategy to start with
    NIL

ASSUME CapacityAssumption == Capacity \in Nat
ASSUME StrategiesAssumption == Strategies \subseteq BOOLEAN
ASSUME FiniteUids == IsFiniteSet(Uids)
ASSUME NilIsNoSet == \A T \in SUBSET Uids : T # NIL
ASSUME BindingsAssumption == Uids \cap Places = {} /\ NIL \notin Uids \cup Places

Bindings == Uids \cup Places

VARIABLES
    entries, older, call,   \* the cache of the session, see LRUSpec
    useNativeCachingStrategy,
    screen,     \* the element now at each place, NIL for none
    request,    \* the request on the main queue
    given,      \* what the last search has answered and stored
    since       \* history: the identifiers used since each one was, NIL once
                \* its element has been found stale

cacheVars == <<entries, older, call>>
vars == <<entries, older, call, useNativeCachingStrategy, screen, request,
          given, since>>

LRU == INSTANCE LRUSpec WITH Keys <- Uids, Values <- Bindings

\* An XCUIElement: what it is bound to, the cacheId it carries (fb_cacheId is
\* computed once per instance) and the element of its last snapshot.
Objects == [bound : Bindings, cacheId : Uids \cup {NIL}, seen : Uids \cup {NIL}]

Steps == {"idle", "lookUp", "check", "next", "stabilise", "bind", "store",
          "respond"}

Requests ==
    [at : Steps, todo : SUBSET Objects, el : Objects \cup {NIL},
     uuid : Uids \cup {NIL}, under : BOOLEAN]

NoRequest ==
    [at |-> "idle", todo |-> {}, el |-> NIL, uuid |-> NIL, under |-> FALSE]

NothingGiven == [ids |-> {}, newIds |-> {}, stored |-> 0]

TypeOK ==
    /\ LRU!TypeOK
    /\ useNativeCachingStrategy \in BOOLEAN
    /\ screen \in [Places -> Uids \cup {NIL}]
    /\ request \in Requests
    /\ given \in [ids : SUBSET Uids, newIds : SUBSET Uids, stored : Nat]
    /\ since \in [Uids -> (SUBSET Uids) \cup {NIL}]

OnScreen == {screen[p] : p \in Places} \ {NIL}

\* Two places never show the same accessibility element.
PossibleScreens ==
    {s \in [Places -> Uids \cup {NIL}] :
        \A p, q \in Places : p # q /\ s[p] # NIL => s[p] # s[q]}

\* The element a snapshot of a query shows now, NIL when it throws
\* FBStaleElementException.
Resolve(b) ==
    IF b \in Places THEN screen[b] ELSE IF b \in OnScreen THEN b ELSE NIL

\* Identifier k has just been used.
Touched(k) ==
    [u \in Uids |-> IF u = k THEN {}
                    ELSE IF since[u] = NIL THEN NIL ELSE since[u] \cup {k}]

-----------------------------------------------------------------------------

Init ==
    /\ LRU!Init
    /\ useNativeCachingStrategy \in Strategies
    /\ screen \in PossibleScreens
    /\ request = NoRequest
    /\ given = NothingGiven
    /\ since = [u \in Uids |-> NIL]

\* The application under test shows something else.
ScreenChanges ==
    /\ screen' \in PossibleScreens \ {screen}
    /\ UNCHANGED <<cacheVars, useNativeCachingStrategy, request, given, since>>

\* What a search below `root` may find: new instances bound to their place,
\* those of an xpath query bound to their identifier
\* (fb_filterDescendantsWithSnapshots).  The search leaves a snapshot to some.
Findable ==
    [bound : {p \in Places : screen[p] # NIL} \cup OnScreen,
     cacheId : {NIL}, seen : {NIL} \cup OnScreen]
Found(o) == o.seen \in {NIL, Resolve(o.bound)}

\* A search may answer with the element it searches below: the very instance
\* of the cache, with the cacheId it carries (FBFind.m:63-66).
Itself(k, b) == [bound |-> b, cacheId |-> k, seen |-> Resolve(b)]

Search(todo) ==
    /\ Cardinality(todo) <= MaxFound
    /\ \A o, p \in todo : o # p => Resolve(o.bound) # Resolve(p.bound)
    /\ request' = [NoRequest EXCEPT !.at = "next", !.todo = todo]

\* handleFindElement(s): a search below the active application.
Find ==
    /\ request.at = "idle"
    /\ \E todo \in SUBSET {o \in Findable : Found(o)} : Search(todo)
    /\ given' = NothingGiven
    /\ UNCHANGED <<cacheVars, useNativeCachingStrategy, screen, since>>

\* A request for an element: handleClick and the W3C actions check the
\* staleness, handleClear and the sub-element searches do not (under).
AskFor(k, check, under) ==
    /\ request.at = "idle"
    /\ request' = [NoRequest EXCEPT !.at = IF check THEN "check" ELSE "lookUp",
                                    !.uuid = k, !.under = under]
    /\ given' = NothingGiven
    /\ UNCHANGED <<cacheVars, useNativeCachingStrategy, screen, since>>

\* Faulty variant: a look-up does not count as a use.
GetFromCacheQuietly(k) ==
    /\ call' = [op |-> "get", key |-> k, value |-> entries[k]]
    /\ since' = IF entries[k] = NIL THEN since ELSE Touched(k)
    /\ UNCHANGED <<entries, older>>

GetFromCache(k) ==
    /\ LRU!Get(k)
    /\ since' = IF entries[k] = NIL THEN since ELSE Touched(k)

\* elementForUUID without a check: a missing element ends the request with
\* FBStaleElementException; a sub-element search goes on below it.
LookUp ==
    /\ request.at = "lookUp"
    /\ LET k == request.uuid IN
       /\ GetFromCache(k)
       /\ IF entries[k] # NIL /\ request.under
          THEN \E todo \in SUBSET {o \in Findable : Found(o)} :
                  \E self \in {{}, {Itself(k, entries[k])}} :
                     /\ \A o \in self : o.seen # NIL
                     /\ Search(todo \cup self)
          ELSE request' = NoRequest
    /\ UNCHANGED <<useNativeCachingStrategy, screen, given>>

\* elementForUUID with a check, the look-up and then the snapshot.  What it
\* throws other than FBStaleElementException does not touch the cache.
LookUpToCheck ==
    /\ request.at = "check" /\ request.el = NIL
    /\ LET k == request.uuid IN
       /\ GetFromCache(k)
       /\ request' =
             IF entries[k] = NIL THEN NoRequest
             ELSE [request EXCEPT !.el = Itself(k, entries[k])]
    /\ UNCHANGED <<useNativeCachingStrategy, screen, given>>

RemoveStale(k) ==
    /\ LRU!Remove(k)
    /\ since' = [since EXCEPT ![k] = NIL]

CheckStaleness ==
    /\ request.at = "check" /\ request.el # NIL
    /\ request' = NoRequest
    /\ \/ /\ Resolve(request.el.bound) = NIL
          /\ RemoveStale(request.uuid)
       \/ UNCHANGED <<cacheVars, since>>    \* found, or another exception
    /\ UNCHANGED <<useNativeCachingStrategy, screen, given>>

\* FBResponseWithCachedElement(s), one element at a time.
NextElement ==
    /\ request.at = "next" /\ request.todo # {}
    /\ \E o \in request.todo :
          request' = [request EXCEPT
                         !.at = IF useNativeCachingStrategy
                                THEN "store" ELSE "stabilise",
                         !.el = o, !.todo = @ \ {o}]
    /\ UNCHANGED <<cacheVars, useNativeCachingStrategy, screen, given, since>>

Answered ==
    /\ request.at = "next" /\ request.todo = {}
    /\ request' = NoRequest
    /\ UNCHANGED <<cacheVars, useNativeCachingStrategy, screen, given, since>>

\* A snapshot threw: the request ends with the error and answers no identifier.
Fail ==
    /\ request' = NoRequest
    /\ given' = NothingGiven
    /\ UNCHANGED <<cacheVars, since>>

\* maybeStable: the identifier the element has by its last snapshot, or by
\* one taken now.
Stabilise ==
    /\ request.at = "stabilise"
    /\ LET el == request.el
           seen == IF el.seen # NIL THEN el.seen ELSE Resolve(el.bound)
       IN  IF seen = NIL THEN Fail
           ELSE /\ request' = [request EXCEPT !.at = "bind", !.el.seen = seen]
                /\ UNCHANGED <<cacheVars, given, since>>
    /\ UNCHANGED <<useNativeCachingStrategy, screen>>

\* fb_stableInstanceWithUid: a new instance bound to that identifier, or the
\* same one if it is bound so already or if the query finds nothing.
Bind ==
    /\ request.at = "bind"
    /\ LET el == request.el
           stable == [el EXCEPT !.bound = el.seen, !.cacheId = NIL]
       IN  request' =
             [request EXCEPT !.at = "store",
                             !.el = IF el.bound \in Places /\ el.seen \in OnScreen
                                    THEN stable ELSE el]
    /\ UNCHANGED <<cacheVars, useNativeCachingStrategy, screen, given, since>>

\* Faulty variant: an element without an identifier is stored all the same.
StoreUnidentified ==
    /\ request.at = "store"
    /\ LET el == request.el
           uuid == IF el.cacheId # NIL THEN el.cacheId ELSE Resolve(el.bound)
       IN  /\ LRU!Put(uuid, el.bound) \/ LRU!PutEvict(uuid, el.bound)
           /\ since' = Touched(uuid)
           /\ given' = [given EXCEPT !.stored = @ + 1]
           /\ request' = [request EXCEPT
                            !.at = "respond",
                            !.el.seen = IF el.cacheId = NIL THEN uuid ELSE @]
    /\ UNCHANGED <<useNativeCachingStrategy, screen>>

\* storeElement: fb_cacheId is the identifier the instance carries, or else
\* that of a snapshot taken now.
StoreElement ==
    /\ request.at = "store"
    /\ LET el == request.el
           uuid == IF el.cacheId # NIL THEN el.cacheId ELSE Resolve(el.bound)
       IN  IF uuid = NIL THEN Fail
           ELSE /\ LRU!Put(uuid, el.bound) \/ LRU!PutEvict(uuid, el.bound)
                /\ since' = Touched(uuid)
                /\ given' = [given EXCEPT !.stored = @ + 1]
                /\ request' = [request EXCEPT
                                 !.at = "respond",
                                 !.el.seen = IF el.cacheId = NIL THEN uuid ELSE @]
    /\ UNCHANGED <<useNativeCachingStrategy, screen>>

\* Faulty variant: the last snapshot is dropped before the answer is built.
RespondFromNewSnapshot ==
    /\ request.at = "respond"
    /\ LET el == request.el
           id == Resolve(el.bound)
       IN  IF id = NIL THEN Fail
           ELSE /\ given' = [given EXCEPT
                               !.ids = @ \cup {id},
                               !.newIds = IF el.cacheId = NIL
                                          THEN @ \cup {id} ELSE @]
                /\ request' = [request EXCEPT !.at = "next", !.el = NIL]
                /\ UNCHANGED <<cacheVars, since>>
    /\ UNCHANGED <<useNativeCachingStrategy, screen>>

\* FBDictionaryResponseWithElement: the identifier of the last snapshot.
Respond ==
    /\ request.at = "respond"
    /\ given' = [given EXCEPT
                   !.ids = @ \cup {request.el.seen},
                   !.newIds = IF request.el.cacheId = NIL
                              THEN @ \cup {request.el.seen} ELSE @]
    /\ request' = [request EXCEPT !.at = "next", !.el = NIL]
    /\ UNCHANGED <<cacheVars, useNativeCachingStrategy, screen, since>>

Ask == \E k \in Uids : \E check, under \in BOOLEAN :
          ~(check /\ under) /\ AskFor(k, check, under)

Next ==
    \/ ScreenChanges
    \/ Find
    \/ Ask
    \/ LookUp
    \/ LookUpToCheck
    \/ CheckStaleness
    \/ NextElement
    \/ Answered
    \/ Stabilise
    \/ Bind
    \/ StoreElement
    \/ Respond

Spec == Init /\ [][Next]_vars
=============================================================================
