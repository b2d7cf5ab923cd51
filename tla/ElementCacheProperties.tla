------------------------ MODULE ElementCacheProperties ------------------------
(* What a client of the element cache relies on.                             *)
EXTENDS ElementCache

\* An identifier stays valid until its element has been found stale or as many
\* other identifiers have been used since as the cache has room for, whatever
\* the searches, look-ups, failures and changes of the screen in between.
KeptWhileRecent ==
    \A k \in Uids :
        since[k] # NIL /\ Cardinality(since[k]) < Capacity => entries[k] # NIL

\* Every identifier a search answers for an instance it has made is in the
\* cache, although the screen may change between the snapshot it is stored by
\* and the answer (FBResponsePayload.m:68-70), if the answer fits the cache.
NewIdsAreStored ==
    request.at = "idle" /\ given.stored <= Capacity =>
        \A id \in given.newIds : entries[id] # NIL

\* FBResponsePayload.h:31: the element answered is "also cached".  Not so for
\* an element of the cache that a search below it finds again: it is stored
\* by the cacheId it carries and answered by what its place shows now.
IdsAreStored ==
    request.at = "idle" /\ given.stored <= Capacity =>
        \A id \in given.ids : entries[id] # NIL
=============================================================================
