------------------------------ MODULE CacheCalls ------------------------------
(* What CircuitCache is to its caller: keys are looked up and circuits inserted *)
(* in any order, and none but those of Templates is ever kept.  The pipeline   *)
(* is shown to be such a caller, and of every such caller it is proved what    *)
(* the cache holds.                                                            *)
EXTENDS CircuitCache

CONSTANTS
    Keys,       \* structure keys
    Templates   \* circuits that may be kept

Stored == {cache[i] : i \in DOMAIN cache}

(* insert, on its own or after a lookup that missed.                          *)
Store(entry) ==
    /\ entry.key \in Keys /\ entry.template \in Templates
    /\ Insert(entry.key, entry.template)
    /\ Miss(entry.key) \/ UNCHANGED <<hits, misses>>

CacheNext ==
    \/ \E key \in Keys : Hit(key) \/ (Miss(key) /\ UNCHANGED <<cache, served, turn>>)
    \/ \E entry \in Stored' : Store(entry)
    \/ NewCache

CacheSpec == EmptyCache /\ [][CacheNext]_cacheVars

=============================================================================
