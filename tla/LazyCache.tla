------------------------------- MODULE LazyCache -------------------------------
(***************************************************************************)
(* One key of the lazy cache (_common/lazy_cache.py), as the registry of   *)
(* projects uses it (api/registry.py): callers of get() on one event loop, *)
(* the construction in a thread while they wait, invalidate() and aclose() *)
(* at any time.  A value is named for the caller that built it; its engine *)
(* is open until the registry disposes of it.                              *)
(***************************************************************************)
EXTENDS CachePromises, Sequences

CONSTANT NoOne

\* The others are those of CachePromises.
VARIABLES cached,   \* the value of the key, or NoOne
          holder,   \* the caller that holds the key's lock and builds, or NoOne
          waiting   \* callers waiting for the lock, in order

vars == <<closed, cached, holder, waiting, got, open, broken, dropped, inside>>

Waiters == {waiting[i] : i \in DOMAIN waiting}

Init ==
    /\ closed = FALSE /\ cached = NoOne /\ holder = NoOne /\ waiting = <<>>
    /\ got = [c \in Callers |-> "nothing"]
    /\ open = {} /\ broken = {} /\ dropped = {} /\ inside = {}

-------------------------------------------------------------------------------
\* Mutant: get() serves a cache that is closed.
RefusedNever == FALSE

Refused == closed

\* Up to its first await get() is one step: an error, the value, the free lock, or the queue for it.
Get(c) ==
    /\ got[c] = "nothing" /\ c /= holder /\ c \notin Waiters
    /\ IF Refused THEN got' = [got EXCEPT ![c] = "closed"] /\ UNCHANGED <<holder, waiting>>
       ELSE IF cached /= NoOne THEN got' = [got EXCEPT ![c] = cached] /\ UNCHANGED <<holder, waiting>>
       ELSE IF holder = NoOne /\ waiting = <<>> THEN holder' = c /\ UNCHANGED <<got, waiting>>
       ELSE waiting' = Append(waiting, c) /\ UNCHANGED <<got, holder>>
    /\ UNCHANGED <<closed, cached, open, broken, dropped, inside>>

\* Mutant: who waited for the lock builds, without a second look at the cache.
FoundAgainNever == FALSE

FoundAgain == cached /= NoOne

\* The lock is released to the first in the queue, which looks again; closed is not looked at again.
Wake ==
    /\ holder = NoOne /\ waiting /= <<>>
    /\ waiting' = Tail(waiting)
    /\ IF FoundAgain THEN got' = [got EXCEPT ![Head(waiting)] = cached] /\ UNCHANGED holder
       ELSE holder' = Head(waiting) /\ UNCHANGED got
    /\ UNCHANGED <<closed, cached, open, broken, dropped, inside>>

\* A project whose analysis runtime cannot be built is cached all the same.
BuildEnds ==
    /\ holder /= NoOne
    /\ cached' = holder /\ open' = open \union {holder}
    /\ got' = [got EXCEPT ![holder] = holder] /\ holder' = NoOne
    /\ UNCHANGED <<closed, waiting, broken, dropped, inside>>

\* An engine opened before its schema failed is left open.
BuildFails ==
    /\ holder /= NoOne
    /\ open' \in {open, open \union {holder}} /\ broken' = broken \union {holder}
    /\ got' = [got EXCEPT ![holder] = "failed"] /\ holder' = NoOne
    /\ UNCHANGED <<closed, cached, waiting, dropped, inside>>

Invalidate ==
    /\ cached /= NoOne
    /\ dropped' = dropped \union {cached} /\ cached' = NoOne
    /\ UNCHANGED <<closed, holder, waiting, got, open, broken, inside>>

\* The values cached now are disposed of; they stay in the cache.
Close ==
    /\ ~closed /\ closed' = TRUE
    /\ inside' = Waiters \union ({holder} \ {NoOne})
    /\ \/ open' = open \ {cached} /\ UNCHANGED broken
       \/ cached /= NoOne /\ broken' = broken \union {cached} /\ UNCHANGED open
    /\ UNCHANGED <<cached, holder, waiting, got, dropped>>

Next == Wake \/ BuildEnds \/ BuildFails \/ Invalidate \/ Close \/ \E c \in Callers : Get(c)

Spec == Init /\ [][Next]_vars

-------------------------------------------------------------------------------
TypeOK ==
    /\ closed \in BOOLEAN /\ cached \in Callers \union {NoOne} /\ holder \in Callers \union {NoOne}
    /\ waiting \in Seq(Callers) /\ got \in [Callers -> Callers \union {"nothing", "closed", "failed"}]
    /\ open \subseteq Callers /\ broken \subseteq Callers /\ dropped \subseteq Callers
    /\ inside \subseteq Callers
===============================================================================
