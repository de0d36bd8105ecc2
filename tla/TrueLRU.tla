------------------------------ MODULE TrueLRU ------------------------------
(***************************************************************************)
(* What an LRU cache promises, without a list: a set of cached keys, the   *)
(* value of each, and for every two of them which was used first.  A use   *)
(* makes a key younger than all others; a key leaves only to make room for *)
(* a new one, and only the key that every other one was used after.        *)
(***************************************************************************)
EXTENDS Naturals, FiniteSets

CONSTANTS Key, Value, Capacity

VARIABLES
  entries,    \* the cached pairs <<key, value>>
  usedBefore  \* the pairs <<k, m>> of cached keys: k was last used before m

abstractVars == <<entries, usedBefore>>

Cached == {x[1] : x \in entries}

\* The recency order of the keys K and k, once k is the last one used.
UsedLast(K, k) ==
  {p \in usedBefore : p[1] \in K \ {k} /\ p[2] \in K \ {k}} \cup ((K \ {k}) \X {k})

AbsInit == entries = {} /\ usedBefore = {}

\* A hit makes k the last key used; giving k a new value does, too.
Hit(k) ==
  /\ k \in Cached
  /\ usedBefore' = UsedLast(Cached, k)
  /\ \/ UNCHANGED entries
     \/ \E v \in Value : entries' = {x \in entries : x[1] # k} \cup {<<k, v>>}

\* A new key comes in while there is room.
Insert(k) ==
  /\ k \notin Cached
  /\ Cardinality(Cached) < Capacity
  /\ usedBefore' = UsedLast(Cached, k)
  /\ \E v \in Value : entries' = entries \cup {<<k, v>>}

\* A new key takes the place of the least recently used one.
Replace(k) ==
  /\ k \notin Cached
  /\ Cardinality(Cached) = Capacity
  /\ \E old \in Cached :
       /\ \A m \in Cached \ {old} : <<old, m>> \in usedBefore
       /\ usedBefore' = UsedLast(Cached \ {old}, k)
       /\ \E v \in Value : entries' = {x \in entries : x[1] # old} \cup {<<k, v>>}

AbsNext == \E k \in Key : Hit(k) \/ Insert(k) \/ Replace(k)

AbsSpec == AbsInit /\ [][AbsNext]_abstractVars
=============================================================================
