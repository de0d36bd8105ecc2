------------------------------ MODULE HFReader ------------------------------
(***************************************************************************)
(* HFExpertReader of src/expert_network/hf_reader.py, over the files that   *)
(* FetchPartition left and the checkpoint on Hugging Face: blocks that are  *)
(* here are read from disk, the others by byte range.  Only the caller's    *)
(* thread touches the cache and the futures; a read of the pool changes     *)
(* nothing but its own result, so its outcome is drawn when it is awaited.  *)
(* The engine runs while expert-fetch does not.                             *)
(***************************************************************************)
EXTENDS FetchPartition, OrderedDict

CONSTANTS
  CacheSize,   \* cache_size
  IdSets       \* sets of expert ids the engine asks for

ASSUME IdSetsAssumption == IdSets \subseteq (SUBSET Experts) \ {{}}
ASSUME CacheSizeAssumption == CacheSize \in Nat \ {0}

\* A parsed expert: which block, and what its place held.
Parsed == [block : Block, content : Content]

VARIABLES
  epc,       \* the engine: off, idle, or where it is in get_experts
  local,     \* blocks manifest.partial.json listed when the engine started
  cache, byLayer,   \* the LRU cache
  prefetched,   \* prefetch_futures: per layer, the experts being read
  call       \* local variables of get_experts

engineVars == <<epc, local, cache, byLayer, prefetched, call>>

Lru == INSTANCE LRUExpertCache WITH Values <- Parsed, MaxExperts <- CacheSize

NoCall == [layer |-> 0, todo |-> {}, futs |-> {}, pending |-> {}, asked |-> {}, out |-> {}]

EngineOff ==
  /\ epc = "off" /\ local = {}
  /\ Lru!LruInit
  /\ prefetched = [l \in Layers |-> {}]
  /\ call = NoCall

\* A list that is not valid JSON is an error at the start.
EngineStart ==
  /\ epc = "off" /\ Resting
  /\ manifest # TornFile
  /\ epc' = "idle"
  /\ local' = IF manifest = NoFile THEN {} ELSE manifest
  /\ UNCHANGED <<cache, byLayer, prefetched, call>>

\* close, or the end of the process.
EngineEnds ==
  /\ epc # "off" /\ epc' = "off"
  /\ local' = {} /\ cache' = <<>> /\ byLayer' = [l \in Layers |-> {}]
  /\ prefetched' = [l \in Layers |-> {}] /\ call' = NoCall

-----------------------------------------------------------------------------
\* Mutant: a list of blocks is not asked for.
HereByProbe(b) == b[1] \in sized /\ disk[b] # "hole"

\* Whether a block is on disk: by the list, or without one by its first bytes.
Here(b) ==
  /\ b[1] \in sized
  /\ IF local # {} THEN b \in local ELSE disk[b] # "hole"

\* What a read of the block returns.
Fetched(b) == [block |-> b, content |-> IF Here(b) THEN disk[b] ELSE Checkpoint(b)]

Cached(l, e) == HasKey(cache, <<l, e>>)

Prefetch(l, ids) ==
  /\ epc = "idle"
  /\ prefetched' = [prefetched EXCEPT ![l] = @ \cup {e \in ids : ~Cached(l, e)}]
  /\ UNCHANGED <<epc, local, cache, byLayer, call>>

ResetPrefetch ==
  /\ epc = "idle"
  /\ prefetched' = [l \in Layers |-> {}]
  /\ UNCHANGED <<epc, local, cache, byLayer, call>>

\* get_experts takes the layer's futures away, ...
Get(l, ids) ==
  /\ epc = "idle"
  /\ epc' = "lookup"
  /\ call' = [NoCall EXCEPT !.layer = l, !.todo = ids, !.asked = ids, !.futs = prefetched[l]]
  /\ prefetched' = [prefetched EXCEPT ![l] = {}]
  /\ UNCHANGED <<local, cache, byLayer>>

NextOf(S) == CHOOSE e \in S : \A x \in S : e <= x

CallKey(e) == <<call.layer, e>>

\* ... looks every id up in the cache, ...
Lookup ==
  /\ epc = "lookup" /\ call.todo # {}
  /\ LET e == NextOf(call.todo)
     IN  \/ /\ Lru!GetHit(CallKey(e))
            /\ call' = [call EXCEPT !.todo = @ \ {e}, !.out = @ \cup {ValueAt(cache, CallKey(e))}]
         \/ /\ ~Cached(call.layer, e)
            /\ call' = [call EXCEPT !.todo = @ \ {e}, !.pending = @ \cup {e}]
            /\ UNCHANGED <<cache, byLayer>>
  /\ UNCHANGED <<epc, local, prefetched>>

Awaits ==
  /\ epc = "lookup" /\ call.todo = {}
  /\ epc' = "await"
  /\ call' = [call EXCEPT !.todo = call.pending]
  /\ UNCHANGED <<local, cache, byLayer, prefetched>>

\* ... waits for the reads of the others, its own or prefetched, ...
Await ==
  /\ epc = "await" /\ call.todo # {}
  /\ LET e == NextOf(call.todo)
     IN  /\ Lru!Put(CallKey(e), Fetched(CallKey(e)))
         /\ call' = [call EXCEPT !.todo = @ \ {e}, !.out = @ \cup {Fetched(CallKey(e))}]
  /\ UNCHANGED <<epc, local, prefetched>>

\* ... one of which may fail after all its tries: the call raises, ...
AwaitFails ==
  /\ epc = "await" /\ call.todo # {}
  /\ ~Here(CallKey(NextOf(call.todo)))
  /\ epc' = "idle" /\ call' = NoCall
  /\ UNCHANGED <<local, cache, byLayer, prefetched>>

Leftovers ==
  /\ epc = "await" /\ call.todo = {}
  /\ epc' = "leftover"
  /\ call' = [call EXCEPT !.todo = call.futs \ call.pending]
  /\ UNCHANGED <<local, cache, byLayer, prefetched>>

\* Mutant: the experts to return are looked up when the call ends.
KeepLeftoverOnly(e) ==
  /\ epc = "leftover" /\ e \in call.todo
  /\ Lru!Put(CallKey(e), Fetched(CallKey(e)))
  /\ call' = [call EXCEPT !.todo = @ \ {e},
                          !.out = {x \in @ : HasKey(cache', x.block)}]
  /\ UNCHANGED <<epc, local, prefetched>>

\* ... and keeps what was prefetched and not asked for; a read that failed is
\* dropped.
KeepLeftover(e) ==
  /\ epc = "leftover" /\ e \in call.todo
  /\ ~Cached(call.layer, e)
  /\ Lru!Put(CallKey(e), Fetched(CallKey(e)))
  /\ call' = [call EXCEPT !.todo = @ \ {e}]
  /\ UNCHANGED <<epc, local, prefetched>>

DropLeftover(e) ==
  /\ epc = "leftover" /\ e \in call.todo
  /\ Cached(call.layer, e) \/ ~Here(CallKey(e))
  /\ call' = [call EXCEPT !.todo = @ \ {e}]
  /\ UNCHANGED <<epc, local, cache, byLayer, prefetched>>

Return ==
  /\ epc = "leftover" /\ call.todo = {}
  /\ epc' = "idle" /\ call' = NoCall
  /\ UNCHANGED <<local, cache, byLayer, prefetched>>

EngineNext ==
  \/ EngineStart \/ EngineEnds
  \/ \E l \in Layers, ids \in IdSets : Prefetch(l, ids) \/ Get(l, ids)
  \/ ResetPrefetch
  \/ Lookup \/ Awaits \/ Await \/ AwaitFails \/ Leftovers \/ Return
  \/ \E e \in Experts : KeepLeftover(e) \/ DropLeftover(e)

-----------------------------------------------------------------------------
\* What the engine keeps or hands out is a block that was really there: never a
\* hole in a layer that is published, and a whole block in any layer once the last
\* expert-fetch ended well and listed its blocks, whatever peers answered and
\* whatever kills, failures and slices the files went through before.  (A list
\* outlives a later run that is killed while it replaces a listed block, and
\* without a list a block counts as there when its first bytes are not zero.)
EngineReadsBlocks ==
  \A x \in {cache[i].val : i \in DOMAIN cache} \cup call.out :
    /\ Published(x.block[1]) => x.content # "hole"
    /\ fpc = "done" /\ job.source = "hf" /\ local # {} => x.content \in {"right", "other"}

\* A call that returns has all it was asked for, whatever its own reads and the
\* prefetched ones it keeps pushed out of the cache meanwhile.
ReturnsWhatWasAsked ==
  epc = "leftover" => {x.block : x \in call.out} = {<<call.layer, e>> : e \in call.asked}
=============================================================================
