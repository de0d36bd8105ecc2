--------------------------- MODULE LRUExpertCache ---------------------------
(***************************************************************************)
(* LRUExpertCache of src/mlx_expert_sniper/expert_io.py.  Every method     *)
(* runs under the cache's lock, so one method is one step; contains and    *)
(* peek change nothing and appear as what their callers' guards read.  The *)
(* hit and miss counters are left out.                                     *)
(***************************************************************************)
EXTENDS OrderedDict, FiniteSets

CONSTANTS
  Layers,      \* layer indices
  Experts,     \* expert ids of a layer
  Values,      \* what a parsed expert can be
  MaxExperts   \* max_experts

ASSUME MaxExpertsAssumption == MaxExperts \in Nat \ {0}

VARIABLES
  cache,    \* the OrderedDict (layer, expert) -> data, least recent first
  byLayer   \* _by_layer: per layer, the ids in the cache

lruVars == <<cache, byLayer>>

Key == Layers \X Experts

LruInit ==
  /\ cache = <<>>
  /\ byLayer = [l \in Layers |-> {}]

-----------------------------------------------------------------------------
(* Mutants.                                                                *)

GetWithoutRefresh(k) == HasKey(cache, k) /\ UNCHANGED lruVars

EvictNewest(k, v) ==
  /\ ~HasKey(cache, k)
  /\ Len(cache) >= MaxExperts
  /\ cache' = Append1(SubSeq(cache, 1, Len(cache) - 1), k, v)
  /\ LET old == cache[Len(cache)].key
         trimmed == [byLayer EXCEPT ![old[1]] = @ \ {old[2]}]
     IN  byLayer' = [trimmed EXCEPT ![k[1]] = @ \cup {k[2]}]

EvictUnindexed(k, v) ==
  /\ ~HasKey(cache, k)
  /\ Len(cache) >= MaxExperts
  /\ cache' = Append1(PopOldest(cache), k, v)
  /\ byLayer' = [byLayer EXCEPT ![k[1]] = (@ \ {cache[1].key[2]}) \cup {k[2]}]

-----------------------------------------------------------------------------

\* get, when it hits: the key becomes the most recent one.  A miss changes nothing.
GetHit(k) ==
  /\ HasKey(cache, k)
  /\ cache' = Refresh(cache, k, ValueAt(cache, k))
  /\ UNCHANGED byLayer

\* put, for a cached key
PutExisting(k, v) ==
  /\ HasKey(cache, k)
  /\ cache' = Refresh(cache, k, v)
  /\ UNCHANGED byLayer

\* put, for a new key and a cache that is not full
PutNew(k, v) ==
  /\ ~HasKey(cache, k)
  /\ Len(cache) < MaxExperts
  /\ cache' = Append1(cache, k, v)
  /\ byLayer' = [byLayer EXCEPT ![k[1]] = @ \cup {k[2]}]

\* put, for a new key and a full cache: the oldest entry leaves the cache and
\* the index of its own layer before the new one enters.
PutEvicting(k, v) ==
  /\ ~HasKey(cache, k)
  /\ Len(cache) >= MaxExperts
  /\ cache' = Append1(PopOldest(cache), k, v)
  /\ LET old == cache[1].key
         trimmed == [byLayer EXCEPT ![old[1]] = @ \ {old[2]}]
     IN  byLayer' = [trimmed EXCEPT ![k[1]] = @ \cup {k[2]}]

Put(k, v) == PutExisting(k, v) \/ PutNew(k, v) \/ PutEvicting(k, v)

LruNext == \E k \in Key : GetHit(k) \/ \E v \in Values : Put(k, v)

LruSpec == LruInit /\ [][LruNext]_lruVars

-----------------------------------------------------------------------------

LruTypeOK ==
  /\ cache \in Seq([key : Key, val : Values])
  /\ byLayer \in [Layers -> SUBSET Experts]

\* The cache never holds more than max_experts entries, one entry per key, and
\* cached_ids(layer), which the routing bias is built from, names exactly the
\* experts of the layer that a get would find.
CacheConsistent ==
  /\ Len(cache) <= MaxExperts
  /\ UniqueKeys(cache)
  /\ \A l \in Layers : byLayer[l] = {e \in Experts : HasKey(cache, <<l, e>>)}

\* Recency is the order of the list.
Recency == INSTANCE TrueLRU WITH
  Value <- Values,
  Capacity <- MaxExperts,
  entries <- Pairs(cache),
  usedBefore <- Older(cache)

\* The list behaves as a true LRU cache: the order of use changes only as a get
\* hit or a put makes its key the most recent one, and an entry leaves only when a
\* put needs its place and every other one was used after it.
EvictionIsTrueLRU == Recency!AbsSpec
=============================================================================
