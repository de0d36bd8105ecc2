# Expert Sniper in TLA+

Expert Sniper runs mixture-of-experts models whose experts do not fit in
memory: the router of a layer picks a few experts per token, and their blocks
are read from disk, or computed by other machines, just in time. The arithmetic
is sequential and leaves little to model. What is hard is around it: caches
shared by threads, reads in flight, decisions taken before a cache changes,
two models' KV caches rolled back together, and a preprocessing step that
deletes its own input and must survive being killed. These modules model that
part and TLC checks it on small instances. Every safety property that the passing
runs check, and every refinement, is also a theorem that TLAPS checks for every
value of the constants, under the hypotheses section 4 names; liveness stays with TLC.

Paths below are relative to the repository; `mlx/` stands for
`src/mlx_expert_sniper/` and `net/` for `src/expert_network/`.

## 1. The system

| Component | State | Operations | Interacts with |
|---|---|---|---|
| LRU expert cache, `mlx/expert_io.py` `LRUExpertCache` | ordered dictionary of parsed experts, index of cached ids per layer, one lock | `get`, `put`, `contains`, `peek`, `cached_ids` | shared by the caller's thread and the backfill worker; by the compute thread and the fetch workers of the network reader; the router's cache bias reads the index |
| Expert reader, `mlx/expert_io.py` `MoEExpertReader` | LRU cache, victim buffer, prefetch futures per layer, open descriptors, read pool, backfill executor, optional 1-bit fallback buffer | `prefetch_experts`, `get_experts`, `reset_prefetch`, `close`; a read; a backfill job | called by the layer forward of `mlx/generate.py`, one call at a time; two executors |
| Distributed reader, `net/reader.py` | the same LRU cache, owner per expert, partition per node, blocks in flight | `compute_distributed` (plan, local partials, warm, post), `_fetch_block`, done callback | nodes over HTTP; its own fetch executor |
| Expert node, `net/node.py` | its slice of experts | `/compute_bin`, `/block`, `/partition`, roster lookup at start | answers the distributed reader and `fetch_partition` |
| Placement and protocol, `net/hrw.py`, `net/protocol.py` | none | rendezvous hashing, packing | nodes, driver |
| Coordinator client, `net/yield_client.py` | `joined` flag, heartbeat thread | join, heartbeat, leave | coordinator (another repository) |
| Partition fetch, `net/fetch_partition.py` | sparse layer files, partial manifest, peer speeds | resume, probe, fetch with failover | other nodes, Hugging Face, coordinator |
| Hugging Face source and reader, `net/hf_source.py`, `net/hf_reader.py` | files downloaded whole; list of local blocks, prefetch futures, the LRU cache | downloads; prefetch, get, close | the files of the partition fetch, Hugging Face range requests |
| Speculative decoding, `mlx/speculative.py` | context, target KV cache, the draft model's KV cache, captured hidden states | draft, verify, roll back, yield | target engine, draft model, draft server |
| Qwen4Exp engine, `mlx/models/qwen4_exp.py`, `mlx/engine_qwen4exp.py` | per layer: convolution and recurrent states, keys, indexer keys, n-gram context | forward over a chunk, reset | n-gram rows; `_generate_stream_own_forward` |
| Greedy generation, `mlx/generate.py`, `mlx/engine.py` | KV cache, router bias | `generate_stream`, `make_forward` | expert reader |
| Download and preprocessing, `mlx/download.py` | shards, parts, layer files, carry files, pinned file on disk; tensors in memory | `download_model`, `_preprocess`, `_write_layer` | file system, Hugging Face |
| N-gram rows, `mlx/ngram_source.py` | row cache | coalesced row reads | Hugging Face, the engine's lookup |
| Calibration, `mlx/calibrate.py`, `mlx/coactivation.py`, `mlx/evaluate.py` | statistics | grid search, save | sequential |
| Server, command line, `mlx/server.py`, `mlx/cli.py`, ... | none of their own | request handling | generation |
| llama.cpp cache, `llama-cpp/patches/src/llama-expert-cache*.cpp` | byte-budgeted LRU, mutex, active buffer | `ensure`, `get_or_alloc`, `touch`, evict, `build_active_buffer`, the eval callback | ggml threads |
| Request router, `sniper-router/` | server pool | speculation on text | HTTP servers |

What is hard in it, and what makes each part correct:

* **Threads over one cache.** The index of cached ids and the dictionary must
  agree at every lock release, and the entry evicted must be the least recently
  used. Both are proved.
* **Reads in flight.** A prefetch may be merged with, taken by, left over from
  or cancelled by calls that come later; a backfill waits for reads that go
  through the bounded read pool; `close` must not take a file from a read. What
  a caller gets must be what it asked for, and what is cached the whole block.
* **Plan, then use.** The distributed reader decides which nodes to skip from
  the cache and the owner table, both of which background fetches change before
  the decision is used. The sum must be bit-identical to the uncached one.
* **Speculation.** Two KV caches roll back by different amounts after a partly
  rejected draft; the text must not depend on the draft.
* **Kill and resume.** Preprocessing deletes shards to free the disk; whatever
  the moment of a kill, nothing may be lost, and a torn file never trusted. A
  fetch writes blocks into a sparse file in which a hole, a torn block and a
  whole one have the same size.
* **Division without negotiation.** Machines compute their slices from rosters they
  read at different times, fetch for hours, load for minutes, and are forgotten
  by the coordinator meanwhile.
* **State across calls.** An engine's layers remember windows, n-grams and
  positions; a prompt in one call and its answer token by token must be one text.
* **A pointer after the lock.** The llama.cpp cache hands out an entry's memory and
  lets go of its mutex before the memory is filled or copied.

`PROJECT.json` lists these hazards one by one, at the line where each bites,
with the properties that cover it.

## 2. The modules

```
OrderedDict            collections.OrderedDict, as a sequence of items
  LRUExpertCache       the cache; implements TrueLRU
    ExpertReader       caller, read pool, backfill worker over the cache
    DistributedReader  compute thread, fetch workers over the cache
Placement              rendezvous hashing
  FetchPartition       expert-fetch, its files and its kills
    HFReader           the engine's reader over those files (and LRUExpertCache)
  ExpertNode           nodes, their client, the coordinator
Slice   = HFReader + NGramRows + HFDownloads     one machine's disk
Network = ExpertNode + FetchPartition            machines, and one that fetches
SpecDecode             implements GreedyDecode
Generation = SpecDecode + Qwen4Exp               the two ways to generate
Preprocess             preprocessing, with kills
LlamaExpertCache       the C++ cache and its threads

LRUExpertCache_proofs > ExpertReader_proofs, DistributedReader_proofs
Slice_proofs > Network_proofs
Generation_proofs, Preprocess_proofs, LlamaExpertCache_proofs
```

`MC*.tla` extend a module and only name the constants a `.cfg` cannot write.
`MCLocalExperts` extends two of them, `Slice` and `LlamaExpertCache`, whose behaviours it takes side by side.
An operator under a comment "Mutant" is a plausible wrong version of the one
after it and no part of any specification; `PROJECT.json` says which property
TLC finds violated when it takes that one's place.

**OrderedDict, LRUExpertCache, TrueLRU.** An ordered dictionary is a sequence of
`[key, val]`, least recent first. Every method of the cache runs under its lock,
so it is one action: `GetHit`, and `PutExisting`, `PutNew`, `PutEvicting` for
the branches of `put`. Hit and miss counters are left out. `TrueLRU` says what
an LRU cache promises without a list: the pairs cached and, for each two keys,
which was used first; only the key that all others were used after may leave.
Recency is read off the position in the list (`Older`).

**ExpertReader.** The caller's program counter `pc` and local variables `call`
follow `prefetch_experts`, `get_experts` and `close` id by id. One action is one
access to what threads share: the lookup of an id and the taking of its
expert are separate (`LookupHit`/`LookupMiss`, then `PromoteVictim`,
`TakePrefetched`, `ReadMiss` or `ReadPartial`), as is each leftover future. A
Future is an element of `FutureIds` with the block it reads and its state; the
read pool has a `queue` and a state per worker; opening the file and reading it
are two steps, since `close` could come between. The backfill executor has a queue of
`jobs` and the futures the running `job` still waits for. A future nobody refers
to is garbage (`Referenced`, `FuturesBecome`) and its id is used again, which
keeps the state finite without a bound on the length of a run; the one bound is
the number of futures alive at a time, and a call whose futures would not fit is
not begun (`RoomFor`). A failed read raises out of the middle of `get_experts`:
the futures of the call are dropped, not cancelled. The prefetch guard does not
look at the victim buffer, nor does the code: a read may be redundant.

A parsed expert is `[block, whole]`: which block its tensors come from, and
whether `down_proj` is its own or the fallback buffer's. That is all the
properties tell apart. Statistics, co-activation hints (they only choose the ids
passed in) and `posix_fadvise` are left out. Calls come from one thread, as in
`mlx/generate.py`.

**DistributedReader.** `Compute` snapshots the owners as `_plan` does; each node
is planned in a step of its own, each expert of a local partial is taken from the
cache in one (`GetOwn`), and fetch workers store and evict between any two. A
partial is a set of terms *weight of e applied to the output of c*: two
partials are bit-identical when they are the same set, because `compute_partial`
sums in a fixed order. `PartialOf` keeps the masking and the index-0 lookup of
`compute_partial`. The done callback that forgets a block in flight is `Settle`,
run by the fetch worker; that it may also run in the submitting thread, for a future
already done, only makes the same step come earlier. A node that does not answer a
post raises (`PostFails`). A block request that fails counts like a 404, as in the code.

**SpecDecode, GreedyDecode.** A model is a function from token sequences to the
argmax; a KV cache is the sequence of tokens fed, and the hidden states a forward
pass captures are the sequence of the tokens they belong to. `Request` may come
at any yield: the consumer of a generator can go away and start another. A
request has one of the four drafts: `LookupDrafts` is `prompt_lookup_draft`;
`ModelDrafts` the draft model with its own cache (`_cached`, `_pending`), which
`_sync` cuts to the common prefix; `RemoteDrafts` whatever a server answers;
`DFlashDrafts` a head over the captured states. `Verify` accepts the matching
drafts and trims the target's cache, the draft model's and the captured states;
`Emit` and `EmitStop` yield the round token by token. `GreedyDecode` is
`generate_stream` as the consumer sees it.

**Qwen4Exp, Generation.** One linear layer with a per-layer embedding and one
attention layer stand for the stack: each kind of state is there once. A
hidden state is the token of its position, and `seen` records what each position
of a call was computed from: rows of the n-gram table, the taps of the two
convolutions, the recurrent state, the positions attended to, and for each expert it is
routed to the one it found at that expert's place in the stack of the call. `View` says
the same of a text without caches or chunks. Orders are ranks: the ids of a lookup sorted without
duplicates (`Lookup`), the experts of a call in their stack (`ExpertsAt`). The multipliers
and xors of the hash are a constant operator `Mix`; equal scores in the indexer's
`argsort` are taken in the order of the blocks. `Generation` has both generators behind one server that takes one
request at a time; a client that goes away leaves the generator where it is. The
engine that owns its forward pass has no drafts: a speculative request on it raises
inside `make_forward`, and is not modelled.

**Placement, FetchPartition.** A score is a constant (a digest as a number), so
`owner` is the maximum and a roster a set. A block's place on disk holds a hole, the
published bytes (`right`), other whole bytes, or is torn; a file of the wrong size is
truncated (`Kept`). One block lands at a time, in the order of the slice; `Probe`
writes one of the good answers. An answer has the block's length (`right`, `other`), fewer bytes,
down to none, or more. The code asks for a hash where it has one and never for a length,
and so does `Acceptable`; `Write` puts what was taken where the block begins. Fewer bytes leave the
rest of what was there (`WriteShort`), more run on over the next blocks and past the
end of the file (`WriteLong`, `grown`), which the next run then finds of the wrong size. The
peers' answers come from the module that composes this one: anything in `Slice`, what nodes
really serve, whole blocks, in `Network`. Speeds,
credits and attestations only choose whom to ask and are left out: the peers come in any
order (`Orders`), and three requests go round it (`Tries`), of which any one may be
the first answered. `Kill` may tear the block being written or the
list of blocks.

**HFReader, NGramRows, HFDownloads, Slice.** The reader's cache is
`LRUExpertCache`; a read of its pool changes nothing but its result, so the
result is drawn when it is awaited. `NGramRows` does a lookup as one action, since it is
called by one thread: the rows come from files one by one or from the checkpoint in ranges,
and go through the row cache in order. A range is given by its ends: the row that opens it,
too far from the one before, and the last row before the next opener. `Slice` puts
them on one disk. Blocks, rows and downloads share no state, so a behaviour is of
one of the three; the product would show nothing more. The row cache's key is shard and row, and
one number here. When a table fails, those still queued are begun until the failed one's turn among
the results comes, and then cancelled (`CancelTables`).

**ExpertNode, Network.** A machine reads a roster, loads, joins and serves; the
`YieldClient` thread of it joins again when it learns that it was forgotten. The coordinator is
another program, modelled from its answers: one record per name. `JoinsAs` is the
name a node registers under, which the code takes from another option than the name it
places experts by. `Network` adds one machine whose disk `expert-fetch` fills before it serves; `absent`
remembers what it loaded that was not there. Fetch and node run one after the other
on it, as the printed instructions say.

**LlamaExpertCache.** A method runs under the mutex, but `ensure` and `get_or_alloc` are
several steps while they hold it, and `build_active_buffer` fills and copies after they let
go. A buffer's contents are the key they belong to. A write to freed memory is
lost: what it breaks in the allocator is not modelled. Sums over lists (`Total`, `Packed`) are
recursive functions. The eval callback never uses the
cache, only advises pages, and `build_active_buffer` has no caller in the
repository; both are modelled as what an outside caller may call.

**Preprocess.** Shards, parts, layer files and the pinned file are on disk and
survive `Kill`; `expert_keys` (`held`) and what is in a carry file do not, since
no run reads a carry file of an earlier one. A tensor maps its shard from its loading until its
bytes are read (`unread`), whichever variable refers to it: `expert_keys`, `pending`, or `v`, the variable
of the loop over a shard (`last`), which is left when the loop ends. A run takes the shards that are there first and
those it must download after, each in the order of their numbers (`todo`). A file is torn between the two steps that
write it. `SeemsComplete` is the test at the top of `download_model`.

## 3. The runs

| Run | Question | Instance |
|---|---|---|
| `reader_demand` | Without a fallback buffer, do prefetches, demand reads, leftovers and `close`, with reads that may fail, keep caches and files consistent, return what was asked, and evict only the least recently used? | 2 layers, 2 experts, 2 workers (symmetric), a cache of 2, a victim buffer of 1, 2 futures |
| `reader_backfill` | With one, do stand-ins stay out of the caches, and does every call and every backfill end? | 1 layer, 2 experts, 1 worker, 3 futures |
| `driver_exact` | Is the sum with the hot cache the sum without, whatever is evicted or learned between plan and use? | 2 nodes, 4 experts, one served by nobody, a cache of 2, 2 fetch workers |
| `driver_faults` | ... also when a fault meets a probe for an unknown owner? **No** | the same |
| `spec_decode` | Do both ways to generate yield the greedy text, with every draft and from every state the layers carry? | 3 tokens, one a stop token, 5 to yield, k = 3, prompts of 1 to 6; blocks of 2, kernels of 2 and 3, 4 shards, 2 of 3 experts |
| `network` | Do machines that read rosters at different times leave no expert unserved, does what was fetched suffice, and is a node in the end known for what it serves? | 3 machines, 3 experts, 3 starts, 1 fault, 1 fetch, 1 kill |
| `network_names` | ... also when nodes join under another name than `--me`? **No** | 2 machines with two names each |
| `local_experts` | On disk: is a fetched slice complete when the program says so, never lost, and read right, whatever peers answer? Are rows and tables right? In memory: do the llama.cpp cache's threads keep list, map, buffers and budget together, and does a build pack what was asked? | 2 layers, 2 experts, a hash for 3 of the 4 blocks, 3 fetches, 2 kills, a cache of 1; 6 rows; 3 tables, 2 at a time. 2 threads, 3 experts in a small, a large and an unstacked tensor, 3 addresses, a budget of 2 pages |
| `hf_unlisted` | Are the blocks a run from peers reports verified the published ones, also where the manifest has no hash? **No** | the slice of `local_experts` |
| `preprocess_resume` | Killed anywhere, twice, does preprocessing lose nothing and finish? | 3 layers, 3 shards, 4 layouts, shards here or not |
| `preprocess_carry` | ... also while a layer spans two shards? **No** | spanning layouts, one kill |
| `preprocess_exists` | Does `download_model` returning True mean the model is complete? **No** | aligned layouts, one kill |

*Why these bounds.* A cache of two entries over four keys evicts with every
kind of order, and an eviction of the wrong layer's id needs two layers. Two
workers are needed for two reads of one file, and for a worker that outlives the
call it read for; one worker is the case in which a backfill on the same pool
would wait for itself. With 2 futures a second prefetch of a layer meets the
first's future in each of its states; 3 in the backfill run hold two of a call
and one of a job still waiting. In the network, three active experts
over two nodes and a cache of two make a node fully cached, partly cached and
evicted in between. Drafts of three with any number accepted give every roll-back
distance, and five tokens to yield leave room for a round after a draft was accepted
in full, when the draft model's cache lags by one token, and end a request within a
round as well as at the end of one; the target's answer depends on every
part of `View`, so a wrong window, row or position changes the text. Prompts up to six
reach a context in which not every complete block is selected, and hold a stop token
that begins a new n-gram segment.

In the network the scores are such that each of the three machines owns one expert when all
are there, and a memory of one or three experts makes a slice fit or not. The
manifest has hashes of some blocks only, one of which the checkpoint has since
revised, and one machine has a damaged copy, so every kind of answer is met. Three fetches and two
kills give a fetch that is killed, one for another slice and one that ends well, in any
order; of the two layers one is published in full, the other lacks the hash of its last block. In
`local_experts` a behaviour is of the slice or of the C++ cache, which share nothing (`MCLocalExperts`). A C++ cache of two small experts evicts, meets one larger than the
budget, and three addresses make a freed one come back for another key. Three shards give a first, a middle and a last one, and a layer over all three.

*Bounds in the models:* `FutureIds` with `RoomFor`, `MaxKills`, `MaxFetches`,
`MaxStarts`, `MaxFaults`, `MaxDownloads` and the number of `Addrs`. Every other
variable is bounded by the code.

*Symmetry* is used for identical workers, threads and addresses, in runs without
liveness only.

*Fairness.* `FairReaderSpec` has a call that has begun, each read worker and the
backfill worker go on while they can; nothing makes a caller call. Python
threads get their turn, and a pread ends or raises, which justifies weak fairness
on each. `FairPrepSpec` has the process run on; the kills are finite. A model
that is restarted after each kill comes to `done`, though not always
rightly (`preprocess_exists`). `FairNetworkSpec` has a load that has begun, a first join and the
heartbeat thread of each machine go on; nobody has to start a machine, stop it or make a
fetch, faults are finite, and a machine that stops makes no promise. The other specifications state no fairness, and no
liveness is claimed of them.

`Closed` and `Done` stand for a reader and a process that are finished, so
deadlock is checked, but for the network and the slice: there every start, fetch and
fault is counted, and the system may really be at rest.

### What the properties say

* `EvictionIsTrueLRU`: the list implements `TrueLRU` inside the whole reader,
  with both threads using it. `CacheConsistent`: budget, unique keys, and the ids
  the routing bias sees are those a `get` would find.
* `WorkingSetStays`: a call whose experts fit the cache finds them all there at its
  end, so the next token hits. It is what the refresh on a hit is for.
* `CachesHoldWholeExperts`, `ServedAsAsked`, `ReturnsAllAsked`: no path stores or
  returns another layer's or expert's block; a stand-in is returned only while a
  read of its whole block is under way, and never stored.
* `SpeculationNeverEvicts`, `SpeculationApart`, `PrefetchMerges`: wrong guesses do
  not cost cached experts their place, and prefetches neither replace nor repeat
  one another.
* `FilesOutliveReads`, `CallsReturn`, `BackfillsSettle`: the order of shutdowns
  in `close`, and the separate executor for backfills.
* `PartialsExact`, `BeliefsSound`, `OneFetchPerBlock`: the promise of the module
  docstring of `net/reader.py`, and the two facts about the owner table and the
  in-flight set it rests on.
* `RefinesGreedy`, `KVMatchesContext`, `DraftStateFollows`,
  `CachedDraftIsStateless`: the text is the greedy one, and each KV cache, and the
  captured states, hold what the model should have seen.
* `EveryPositionAsWhole`, `RowsInTable`: what a position of the streaming engine is
  computed from is what the text up to it determines, in one call or many; every
  n-gram row is one of its head's and inside its shard, and the rows without a shard are the last of
  the padded table, fewer than there are shards. That none of these is asked for is not said: with the
  default sizes some layers have them, and the code raises. The run's table, of 4 shards, has none.
* `NoOrphan`, `GrownRosterLoadsWhole`, `RecordCatchesUp`: machines that serve, and
  counted on no machine that does not, together serve every expert; a slice
  fetched under a roster that has since grown is enough; a node that serves is known for it.
  `NoOrphan` says nothing of machines that counted on one which is not there, as the code
  does not repair that, nor of machines short of memory.
* `DoneMeansComplete`, `VerifiedNeverLost`: success of `expert-fetch` means every
  block of the slice in each layer of which it knew every hash, and from the checkpoint in every layer;
  and no block it would verify is lost on the way from a layer published in full. Where a hash
  is missing neither holds: `DoneMeansVerified` is the docstring's promise, and false.
* `EngineReadsBlocks`, `ReturnsWhatWasAsked`: the engine takes no hole of a published layer for a block, and
  no torn block after a fetch that ended well and listed its blocks (nothing is claimed of an engine
  without a list, nor with one that a later run outdates); what a call returns does not depend on what
  its own reads evict.
* `RowsAsAsked`, `TablesWhole`: the coalescing of rows against its definition; no torn
  table under its final name.
* `BuffersOwnedOnce`, `WithinBudget`, `AdviceCoversExperts`, `PackedAsAsked`: no leak and no
  double free with any threads; the budget; the pages advised; and, while no other call
  overlaps a build, the packed bytes. With an overlap a buffer may be
  copied unfilled or freed: the code leaves that to its caller.
* `NothingLost`, `DeletedShardsFreed`, `PinnedIsLast`, `Finishes`,
  `ReadyMeansComplete`: what may be deleted when, and what may be trusted after. `DeletedShardsFreed`
  is the docstring's "nothing references a shard's mmap by the time it is removed"
  (`mlx/download.py:321-327`) less one tensor. After a resume, the last tensor of a shard may be of a layer found
  written and skipped (219); nothing reads it, and `v` (405) refers to it, through `del w` (447) and the
  removal, until the next shard's loop: that shard's disk is freed only then.

### Disagreements found

1. `net/reader.py:153-155`: a transient fault while all nodes are probed is
   remembered as "nobody serves it". A later plan counts the owner as known, and a
   node whose other experts are cached is skipped with this one's term missing.
2. `mlx/download.py:386`: the part of a shard is saved and the shard deleted while
   tensors of a spanning layer lie only in the carry file. After a kill the shard
   counts as processed and the layer stays incomplete.
3. `net/node.py:402`: a node joins under `--node-id`, by default host and port, but
   places experts as `--me`; the commands the project prints give only `--me`. The rosters
   then hold names no machine answers to, and their experts are served by none.
4. `mlx/download.py:116`: a `pinned.safetensors` torn by a kill, or whole
   but before links, config and tokenizer are written, passes for a finished model.
5. `net/fetch_partition.py:154` (and 91): a block the manifest has no hash of is taken from a peer unseen, in
   whatever length, and reported verified. A short or empty answer leaves a hole; a longer one
   overwrites the next, verified block or makes the file longer, and the next run
   empties the layer (207). "Every block is checked" (12-14) and "Verified or nothing" (141).

Two more have no run of their own. The docstring of `_preprocess` (321-327) is true but for the tensor above.
A shard without pinned tensors leaves no part, so a resumed run downloads it again
(`mlx/download.py:386`, `Processed`), against "no re-download of finished work" (332).

## 4. The proofs

All are for every value of the constants under the assumptions the modules name, which TLC
evaluates for the instances of the runs. A hypothesis of one theorem alone is written in
that theorem. Each rests on an inductive invariant that is stronger than what it gives.

**The cache** (`LRUExpertCache_proofs`). From the one assumption that the budget is a
positive integer. Its first part has the lemmas on ordered dictionaries: what `Append1`,
`Delete`, `Refresh` and `PopOldest` do to the keys, to their uniqueness, to the values and to
the order of the others. A key occurs at one index (`IndexOfKey`), and removing an index
shifts those after it (`RemainingItems`); all else follows from these.

* `LruInvariant`: `LruInv` is inductive. `CacheConsistent` alone is not: without the
  types, an eviction could take an item that is no key of the index. The step that
  needs thought is `PutEvicting`, when the key evicted and the key stored are of
  one layer.
* `LruTypeCorrect`, `LruConsistent`: consequences of it.
* `LruImplementsTrueLRU`: `LruSpec => EvictionIsTrueLRU`. A hit or a `put` of a
  cached key maps to `Hit`, the two other branches of `put` to `Insert` and
  `Replace`. `AbstractCache` says the mapped state has the keys and the size of the
  list (the list has as many items as keys, by uniqueness), `OldestIsOlder`
  that the head was used before all others, and the order lemmas that what
  remains keeps its order.

**The expert reader** (`ExpertReader_proofs`), for any layers, experts, id lists, workers and
capacities, with or without a fallback buffer, with reads that may fail. The set of futures is
finite (`FutureIdsAssumption`), so that one can count those that are spare; it may be of
any size. One invariant, `ReaderInv`, is the conjunction of seven:

* `ReaderBase`: types, the cache's own invariant, where the caller is in its list, and that
  the ids still to be submitted find a spare future each (`RoomLeft`).
* `BlocksInPlace`: what caches and call hold is whole and in its place. It must say, too, that
  a future in a layer's dictionary reads a block of that layer, or a promotion would not.
* `Winding`: `close` goes from stage to stage, each of which leaves nothing for the ones
  before: no queue once the reads are joined, no reader when the backfills are.
* `Merging`: one future per block of a layer, none of them cancelled.
* `CallProgress`: a call has collected exactly the ids before its place.
* `Apart`: without a fallback buffer no block is in two of cache, victim buffer and
  flight, except one that this call was served.
* `MostRecent`: the blocks of the call are the youngest in the cache. Then, while one is missing
  and all fit, there is an older one to evict.

From it, `ReaderTypeCorrect`, `ReaderCachesWhole`, `ReaderServesAsAsked`,
`ReaderFilesOutliveReads`, `ReaderSpeculationApart`, `ReaderWorkingSetStays`, and the action
properties `ReaderSpeculationNeverEvicts`, `ReaderPrefetchMerges` and
`ReaderReturnsAllAsked`. `ReaderUsesCache` is a refinement, `ReaderSpec => LruSpec`, through
which the cache's own theorems hold here. Futures are reused, so the
lemma the steps share is that no future still referred to changes its block
(`RefsStay`, `RefsGrow`).

**The network reader** (`DistributedReader_proofs`), for every number of nodes and workers, every set of
experts and requests and every partition. Its assumptions are those the module
names: nodes serve disjoint sets of experts (each takes its slice of one roster or its own
range; overlapping slices count an expert twice with the cache or without), experts
are natural numbers, a cached block stands for its key.

* `DriverUsesCache`: `DriverSpec => LruSpec`. The gets and puts of all its threads
  are steps of the cache, so `LruConsistent` and `LruImplementsTrueLRU` hold in it.
* `DriverInvariant`: `DriverInv` is inductive when `BlockFaults` is false, the case
  `driver_exact` checks; when it is true the property is false (`driver_faults`).
  `BeliefsSound` is not inductive: that a worker about to give up has asked every node
  is in its own variables (`ProbesSound`). Nor is `PartialsExact`: `PlanInv` says that
  an owner the plan knew is still the owner (a fetch can only repeat what is so, as the
  beliefs are sound and partitions disjoint), that a node is local by a plan that
  knew all owners, and that what is computed here is the node's own partial. With
  it the node's active experts are those it serves (`MineIsServed`), the masked
  lookup never falls back to another expert, and the two sums have the same terms.
* `DriverPartialsExact`, `DriverBeliefsSound`: consequences of it.
* `DriverFetchesOnce`: every block queued or fetched is in `_inflight`
  (`FetchInv`), with faults or without.

**Generation** (`Generation_proofs`), of `GenerationSpec`, both engines behind one server.

*With drafts*, for any target, any drafts of any length, any stop tokens
and limits, from `ModelsGiveTokens`: target, draft model and head answer with tokens. That the
draft model, asked k times, gives k of them is a lemma (`ContinuationGives`). The
invariant, `SpecInv`, is about `Text`, the context and the tokens of the round not
yet yielded: the target's cache is all of `Text` but its last token (`CacheInv`), each
token not yet yielded is the target's choice after all before it (`GreedyInv`), the
draft model's cache is a strict beginning of `Text`, and of context and drafts while they wait
(`ModelInv`), the captured states are the target's cache (`CaptureInv`).
`KVMatchesContext` speaks only of the beginning of a round and is not inductive. The step is
`VerifyStep`: what was fed is context and drafts (`ForwardedIsText`), the i-th
prediction is the target's choice after i - 1 of them (`PredOfText`), and the
cut after m accepted drafts leaves the same beginning in each of the three caches.

*With the engine's own forward pass*, for any sizes of n-grams, kernels and blocks, any
budget, routing and texts. `OwnInv` says that the caches hold windows of the text fed so far
(`CachesHold`: its last tokens, padded where it has fewer), that this is the prompt and what was
yielded but for the last token, and `EveryPositionAsWhole`. `AdvanceKeeps` is the
lemma that carries it, for a call of any length after any text: a window of the old text and the
chunk is a window of the new text (`WindowMoves`), and each position reads from them
what `View` reads from the text up to it:

* a convolution's taps: `TapsReadTheText`;
* the n-grams: `ShiftedIsNgram`, where a segment ends for the chunk as it does for the text
  (`SegmentReaches`); then the flat list of ids is looked up by rank, and each comes back to its
  place (`RanksTell`, `LookupAnswers`, `EmbeddedIs`);
* the attended positions: a query's blocks are complete within the text up to it
  (`AttentionIs`), so later keys of the call change nothing;
* the experts: each is at its own place in the stack, whatever other experts the positions of
  the call need (`ExpertsAreTheirOwn`).

The hypotheses are in `EngineCounts`. `Bertrand`, that there is a prime between v + 1 and 2 v + 2: the
model searches there for the sizes of the heads, where the program searches until it finds one, and
the theorem of that name is not in the prover's library. `ShardsHaveRows`: without rows the program
divides by zero. `MixesToNumbers` and `ScoresCompare`: the mix of an n-gram and the
score of a block are integers, where the program has wrapped 64-bit integers and floats; only order and
remainders are used. And the engine answers with tokens (`EngineGivesTokens`). TLC evaluated
the first, up to 60, and the second for the run's instance; the others hold there by the definitions of its operators.

* `SpecInvariant`, `EngineInvariant`: the two invariants, each trivial for the other engine.
* `CacheIsTheContext`, `DraftsAreConditionedRight`, `DraftCacheChangesNothing`,
  `PositionsAreWhole`: consequences.
* `RowsAreInTheTable`: sizes of the heads are distinct primes (`PrimesFound`), their offsets add up
  (`OffsetsAre`), so a hash modulo the size is one of the head's rows (`RowIsOfHead`). For
  every number of shards, whether it divides the padded table or not: the shards hold all rows but fewer
  than there are shards (`ShardsHoldMost`), so only the last can be without one (`RowIsInShard`).
* `SpeculationIsLossless`: `GenerationSpec => RefinesGreedy`. `Emit` is `Yield`, as the head
  of the waiting tokens is the target's choice (`NextIsGreedy`); drafts and
  verification stutter. `OwnYield` is `Yield` when the engine's answer is a function of
  `View` that the target computes (`EngineIsTarget`): the last position of a call was computed
  from the whole text (`LastIsWhole`).

**Placement, fetch and engine** (`Slice_proofs`, `Network_proofs`). `ScoreAssumption` says that
digests of two names differ.

* `RosterDivides`, `GrowthOnlyShrinks`: under a roster an expert has one owner; a
  roster that grows takes experts from its machines and gives them none. A
  greatest score exists because scores are bounded (`TopExists`), and one that is greatest
  in the larger roster is in the smaller.
* `FetchCompletes`, `VerifiedSurvives`: `FetchInv` is inductive for any answers of the peers, of any
  length. It says which layers are behind (`LayersBehind`), that of the
  layer at hand all is there but what is still to come (`PresentLayer`, `ToCome`), and that
  a file without its size holds nothing (`UnsizedIsEmpty`), without which truncating it
  could lose a verified block. A write in another length happens only where a block has no hash
  (`LooseWrite`), so it is confined to the layers neither theorem speaks of (`LooseInv`).
* `EngineReadsWell`, `EngineReturnsAllAsked`: the engine runs on files at rest, with the list it
  found when it started (`EngineAlone`); a list names only blocks that are there, however runs
  end (`Listed`); so what the engine reads, caches and returns is real (`EngineInv`). What a
  call has read stays with it when the cache evicts it, which is why a cache of any positive size does. With a size of 0 the
  `popitem` of an empty dictionary raises; `CacheSizeAssumption` excludes it.
* `RowsAnswerAsAsked`: a row falls into the range of the last opener before it, and that
  range goes on to it (`CutOutIsRow`); the sweeps of gets and puts keep every row under its own
  number (`TouchedKeepsRows`, `StoredAllKeepsRows`).
* `TablesAreWhole`: for any number of tables and workers.
* `NetworkDivides`: `NoOrphan`, from the assumption that a machine joins under the name it
  places experts by; without it the property is false (`network_names`). The machine that
  has the greatest score among those that serve has it in the smaller roster it saw
  itself, whatever the others saw.
* `GrownRosterServes`: `GrowthOnlyShrinks` with the fetch's invariant, through the phases of
  the newcomer's node (`NewcomerInvariant`).

**Preprocessing** (`Preprocess_proofs`), for any layers, any finite set of shards, any layouts and
any number of kills. `PrepInv` says that the tensors of a shard that is behind are in whole
layer files or in memory, and its pinned ones in a part (`BehindSafe`, `Safe`); that the shard at hand is still
there and has been read (`ShardInHand`); that no complete layer is left between two shards
(`LayersFlushed`); that a part is torn only while its shard is there (`PartsKept`).

* `NothingIsLost`, `MergeComesLast`: with `KillsSpanning` false, that is, where no kill meets a
  layer that spans two shards; else the first is false (`preprocess_carry`). It is then
  that memory holds tensors of the shard at hand only (`HeldOfShard`), so what a kill
  forgets is on disk.
* `DeletedAreFreed`: without that hypothesis. What is unread is held or of a layer found written
  (`MapInv`), and all that is held is read when it is carried.

**The llama.cpp cache** (`LlamaExpertCache_proofs`), for any threads, tensors, budget and
memory, while builds and loads interleave.

* `BuffersAreOwnedOnce`: `CacheInv` adds to the property that whoever
  evicts, loads or allocates holds the mutex, and that its key is no entry
  (`MissInv`): else an insertion would put a key into the list twice.
* `StaysWithinBudget`: the bytes counted are those of the entries, and what a load was given
  room for stays free until it is in (`RoomKept`). That the count follows each change of the list
  is in `FrontTotal`, `PushTotal` and `PopTotal`.
* `AdviceReachesEveryPage`: arithmetic of the rounded start and the longer length (`AdviceOfOne`).
* `PacksWhatIsAsked`: while no call begins during a build (`mixed` is false), each thread's place is
  that of its method (`LocalInv`), only the slot being filled may hold other bytes than its
  key's, and the active buffer is what was asked up to the id at hand (`Apart`).

*Recursive functions.* What a function over `0 .. n` computes is proved without induction on
operators: that the function exists, and what holds of its values, is shown for the set of the
indices for which it does, which holds 0 and with i - 1 also i, and so all (lemma `UpTo`, by the
least counterexample). The lemmas `TotalExists`, `PackedExists`, `TouchedSweeps`, `ContinuationGives`
and `PrimesFound` are of this kind.

*Only model-checked:* liveness (`CallsReturn`, `BackfillsSettle`, `Finishes`,
`RecordCatchesUp`), which the prover does not do under fairness. The five runs that
end in a violation state what is not so; where such a property is a theorem too, it has the
hypothesis that excludes the case.

## 5. Not modelled, and what comes next

*Not modelled, and why:*

* Tensor arithmetic (engines, layers, `make_forward`): out of reach. With a routing bias the
  target's answer depends on what is cached, and speculation is then lossless only
  for the experts that were picked; the models have a bias of zero.
* `engine_next` with drafts: its recurrent caches have no `trim`, a rejected draft raises.
* Speeds, credits and attestations of `net/fetch_partition.py`: they choose whom to ask. That
  three tries reach only three peers, while the docstring of `order` promises
  that failover walks the rest, is listed as a hazard.
* The trunk of `net/hf_source.py` is in `HFDownloads`, torn states included, but no
  property: its docstring speaks of a parts directory which does not exist. Tables of several per-layer
  embeddings would share file names (`net/hf_source.py:301`); one set is modelled.
* `close` of the distributed and of the Hugging Face reader: nothing is read after
  it, and a read that meets a closed descriptor fills a future nobody takes.
* The wire format of `net/protocol.py`, command line, chat formatting, the race
  page: no state.
* Calibration and the request router: sequential measurements and text heuristics
  over HTTP servers.
* `mlx/engine_gemma4.py`, `mlx/engine_olmoe.py` and `mlx/engine_30b.py`: tensor arithmetic over the
  same reader and generators. The layer module the Gemma engine imports,
  `mlx/models/gemma4.py`, is not in the repository.

*What comes next, most important first:*

1. The n-gram tables of preprocessing, with `layout.json`, which is rewritten in place
   (`mlx/download.py:272`): a kill may leave a torn file that every later run fails to load.
2. A table whose padded rows the number of shards does not divide: how a generation ends that asks for
   one of the last rows.
3. A node that is restarted with a smaller roster: what a fetch for it must add.
4. The server pool of the router.
