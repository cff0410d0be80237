----------------------------- MODULE CircuitCache -----------------------------
(* CircuitCache: the circuits compiled so far by the structure of their        *)
(* programs, a list with the most recently used one at the end.                *)
EXTENDS Integers, Sequences, SequencesExt, FiniteSets

CONSTANTS Capacity      \* at which insert evicts

(* With capacity 0 the first insert would evict from an empty list.           *)
ASSUME CapacityAssumption == Capacity \in Nat \ {0}

VARIABLES
    cache,      \* entries, the least recently used first
    hits,
    misses,
    served,     \* history: for every key given out or stored, when it last was and the template stored
    turn        \* history: how often a key was given out or stored

cacheVars == <<cache, hits, misses, served, turn>>

EmptyCache ==
    /\ cache = <<>> /\ hits = 0 /\ misses = 0
    /\ served = <<>> /\ turn = 0

CachedCircuit(key, template) == [key |-> key, template |-> template]

(* iter().position: the first entry with the key.                             *)
Found(list, key) == {i \in DOMAIN list : list[i].key = key}
Position(list, key) == CHOOSE i \in Found(list, key) : \A j \in Found(list, key) : i <= j

TakesTurn(key, template) ==
    /\ turn' = turn + 1
    /\ served' = [k \in DOMAIN served \cup {key} |->
                    IF k = key THEN [turn |-> turn', template |-> template] ELSE served[k]]

(* lookup, which moves the entry it finds to the end.                         *)
Hit(key) ==
    /\ Found(cache, key) # {}
    /\ LET i == Position(cache, key)
       IN  cache' = Append(RemoveAt(cache, i), cache[i])
    /\ hits' = hits + 1
    /\ TakesTurn(key, served[key].template)
    /\ UNCHANGED misses
Miss(key) ==
    /\ Found(cache, key) = {}
    /\ misses' = misses + 1
    /\ UNCHANGED hits

(* insert: an entry with the key goes first, then the oldest if it is full.   *)
Without(list, key) ==
    IF Found(list, key) = {} THEN list ELSE RemoveAt(list, Position(list, key))
(* Faulty: a full list takes one entry more.                                  *)
TrimmedLate(list) == IF Len(list) > Capacity THEN RemoveAt(list, 1) ELSE list
Trimmed(list) == IF Len(list) >= Capacity THEN RemoveAt(list, 1) ELSE list
Inserted(list, key, template) ==
    Append(Trimmed(Without(list, key)), CachedCircuit(key, template))
Insert(key, template) ==
    /\ cache' = Inserted(cache, key, template)
    /\ TakesTurn(key, template)

(* The copy that a clone of the pipeline starts with.                         *)
NewCache ==
    /\ cache' = <<>> /\ hits' = 0 /\ misses' = 0
    /\ served' = <<>> /\ turn' = 0

------------------------------------------------------------------------------
(* The cache holds the Capacity structures last given out or stored, the most *)
(* recent last, whatever was looked up, replaced and evicted.                 *)
Since(key) == {k \in DOMAIN served : served[k].turn >= served[key].turn}
KeepsTheRecent ==
    /\ {cache[i].key : i \in DOMAIN cache}
          = {key \in DOMAIN served : Cardinality(Since(key)) <= Capacity}
    /\ \A i, j \in DOMAIN cache :
          i < j => served[cache[i].key].turn < served[cache[j].key].turn

(* What lookup finds under a key is what was stored under it last: no older   *)
(* circuit of the key stays in front of it.                                   *)
FindsTheLatest == \A i \in DOMAIN cache : cache[i].template = served[cache[i].key].template

=============================================================================
