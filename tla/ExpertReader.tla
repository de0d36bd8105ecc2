---------------------------- MODULE ExpertReader ----------------------------
(***************************************************************************)
(* MoEExpertReader of src/mlx_expert_sniper/expert_io.py: one caller       *)
(* thread, a pool of read workers, one backfill worker, and the LRU cache  *)
(* the caller and the backfill worker share.                               *)
(*                                                                         *)
(* The caller makes one call at a time.  A Future of the read pool is an   *)
(* element of FutureIds; one that nobody references any more is garbage    *)
(* and its id is used again.  A parsed expert is the key of the block it   *)
(* was read from and whether every tensor comes from that block (whole) or *)
(* down_proj comes from the fallback buffer (mixed).                       *)
(***************************************************************************)
EXTENDS LRUExpertCache

CONSTANTS
  LruEnabled,    \* cache_size > 0
  Fallback,      \* a fallback buffer is configured
  ReadsMayFail,  \* a pread or the parse of what it read may raise
  IdLists,       \* the expert id lists callers pass
  Workers,       \* the threads of the read pool
  VictimCap,     \* victim_cap
  FutureIds,     \* Future objects alive at a time: a bound of the model
  Nobody         \* no layer, no future

ASSUME FlagsAssumption == LruEnabled \in BOOLEAN /\ Fallback \in BOOLEAN /\ ReadsMayFail \in BOOLEAN
ASSUME VictimAssumption == VictimCap \in Nat \ {0}
ASSUME IdListsAssumption == IdLists \subseteq Seq(Experts) \ {<<>>}
ASSUME FutureIdsAssumption == IsFiniteSet(FutureIds)
ASSUME NobodyAssumption == Nobody \notin Layers \cup FutureIds
ASSUME ValuesAssumption == Values = [block : Key, whole : BOOLEAN]

VARIABLES
  victim,    \* OrderedDict (layer, expert) -> expert read ahead and not asked for
  futures,   \* per id: the block its read is for, and its state
  prefetch,  \* prefetch_futures: per layer, ids in insertion order
  queue,     \* work queue of the read pool
  worker,    \* per worker: what it does and the future it works for
  fds,       \* layers whose file is open
  pc,        \* the caller: where it is in its call
  call,      \* the caller's local variables
  jobs,      \* queue of the backfill executor: the futures of each job
  job        \* futures the running job has still to wait for, <<>> when idle

readerVars == <<cache, byLayer, victim, futures, prefetch, queue, worker, fds, pc, call, jobs, job>>

Whole(k) == [block |-> k, whole |-> TRUE]
Mixed(k) == [block |-> k, whole |-> FALSE]

IdOf(f) == futures[f].block[2]

Unused == [block |-> Nobody, state |-> "unused"]

NoCall == [layer |-> Nobody, ids |-> <<>>, pos |-> 1, held |-> <<>>, backfill |-> <<>>, experts |-> {}]

Members(s) == {s[i] : i \in DOMAIN s}

\* The futures some object still refers to.
Referenced ==
  (UNION {Members(prefetch[l]) : l \in Layers})
    \cup Members(queue) \cup {worker[w].future : w \in Workers}
    \cup Members(call.held) \cup Members(call.backfill)
    \cup (UNION {Members(jobs[i]) : i \in DOMAIN jobs}) \cup Members(job)

\* The futures become g; the ones nobody refers to after the step are garbage.
FuturesBecome(g) ==
  LET live == Referenced'
  IN  futures' = [f \in FutureIds |-> IF f \in live THEN g[f] ELSE Unused]

Fresh == CHOOSE f \in FutureIds : f \notin Referenced

\* executor.submit(self._read_expert, *k), by way of the future f; its maker keeps f.
Submit(k) ==
  /\ queue' = Append(queue, Fresh)
  /\ FuturesBecome([futures EXCEPT ![Fresh] = [block |-> k, state |-> "pending"]])

\* The bound on Future objects: a call begins when it could submit all its ids.
RoomFor(ids) == Cardinality(FutureIds \ Referenced) >= Len(ids)

\* fut.cancel() on each of S: a read that has started goes on.
Cancelled(S) ==
  [f \in FutureIds |->
     IF f \in S /\ futures[f].state = "pending" THEN [futures[f] EXCEPT !.state = "cancelled"]
                                                ELSE futures[f]]

LruHas(k) == LruEnabled /\ HasKey(cache, k)

LruPut(k, v) == IF LruEnabled THEN Put(k, v) ELSE UNCHANGED lruVars

ReaderInit ==
  /\ LruInit
  /\ victim = <<>>
  /\ futures = [f \in FutureIds |-> Unused]
  /\ prefetch = [l \in Layers |-> <<>>]
  /\ queue = <<>>
  /\ worker = [w \in Workers |-> [state |-> "idle", future |-> Nobody]]
  /\ fds = {}
  /\ pc = "idle"
  /\ call = NoCall
  /\ jobs = <<>>
  /\ job = <<>>

-----------------------------------------------------------------------------
(* The caller: prefetch_experts and reset_prefetch.                        *)

CurrentId == call.ids[call.pos]
CurrentKey == <<call.layer, CurrentId>>

\* Mutant: the loop over the ids stops one short.
LastIdEarly == call.pos + 1 >= Len(call.ids)

LastId == call.pos = Len(call.ids)

\* Mutant: a repeat call replaces the layer's dictionary of futures.
CallPrefetchAnew(l, ids) ==
  /\ pc = "idle"
  /\ RoomFor(ids)
  /\ pc' = "prefetch"
  /\ call' = [NoCall EXCEPT !.layer = l, !.ids = ids]
  /\ prefetch' = [prefetch EXCEPT ![l] = <<>>]
  /\ UNCHANGED <<cache, byLayer, victim, queue, worker, fds, jobs, job>>
  /\ FuturesBecome(futures)

CallPrefetch(l, ids) ==
  /\ pc = "idle"
  /\ RoomFor(ids)
  /\ pc' = "prefetch"
  /\ call' = [NoCall EXCEPT !.layer = l, !.ids = ids]
  /\ UNCHANGED <<cache, byLayer, victim, futures, prefetch, queue, worker, fds, jobs, job>>

NextPrefetch ==
  IF LastId THEN pc' = "idle" /\ call' = NoCall
            ELSE pc' = pc /\ call' = [call EXCEPT !.pos = @ + 1]

InFlight(k) == \E f \in Members(prefetch[k[1]]) : IdOf(f) = k[2]

SkipPrefetch ==
  /\ pc = "prefetch"
  /\ InFlight(CurrentKey) \/ LruHas(CurrentKey)
  /\ NextPrefetch
  /\ UNCHANGED <<cache, byLayer, victim, futures, prefetch, queue, worker, fds, jobs, job>>

SubmitPrefetch ==
  /\ pc = "prefetch"
  /\ ~InFlight(CurrentKey) /\ ~LruHas(CurrentKey)
  /\ NextPrefetch
  /\ prefetch' = [prefetch EXCEPT ![call.layer] = Append(@, Fresh)]
  /\ UNCHANGED <<cache, byLayer, victim, worker, fds, jobs, job>>
  /\ Submit(CurrentKey)

DropPrefetches ==
  /\ prefetch' = [l \in Layers |-> <<>>]
  /\ FuturesBecome(Cancelled(UNION {Members(prefetch[l]) : l \in Layers}))

ResetPrefetch ==
  /\ pc = "idle"
  /\ UNCHANGED <<cache, byLayer, victim, queue, worker, fds, pc, call, jobs, job>>
  /\ DropPrefetches

-----------------------------------------------------------------------------
(* The caller: get_experts.                                                *)

CallGet(l, ids) ==
  /\ pc = "idle"
  /\ Fallback => RoomFor(ids)
  /\ pc' = "lookup"
  /\ call' = [NoCall EXCEPT !.layer = l, !.ids = ids, !.held = prefetch[l]]
  /\ prefetch' = [prefetch EXCEPT ![l] = <<>>]
  /\ UNCHANGED <<cache, byLayer, victim, futures, queue, worker, fds, jobs, job>>

\* Mutant: experts are numbered by their position in the list.
ServePosition(v, bf) ==
  /\ call' = [call EXCEPT !.experts = @ \cup {[id |-> call.pos, val |-> v]},
                          !.backfill = @ \o bf,
                          !.pos = @ + 1]
  /\ pc' = IF LastId THEN "leftovers" ELSE "lookup"

\* The current id is served by v; bf are the backfill reads it started.
Serve(v, bf) ==
  /\ call' = [call EXCEPT !.experts = @ \cup {[id |-> CurrentId, val |-> v]},
                          !.backfill = @ \o bf,
                          !.pos = @ + 1]
  /\ pc' = IF LastId THEN "leftovers" ELSE "lookup"

LookupHit ==
  /\ pc = "lookup"
  /\ LruHas(CurrentKey)
  /\ GetHit(CurrentKey)
  /\ Serve(ValueAt(cache, CurrentKey), <<>>)
  /\ UNCHANGED <<victim, futures, prefetch, queue, worker, fds, jobs, job>>

LookupMiss ==
  /\ pc = "lookup"
  /\ ~LruHas(CurrentKey)
  /\ pc' = "fetch"
  /\ UNCHANGED <<cache, byLayer, victim, futures, prefetch, queue, worker, fds, call, jobs, job>>

\* Mutant: a promoted expert stays in the victim buffer.
PromoteVictimCopy ==
  /\ pc = "fetch"
  /\ HasKey(victim, CurrentKey)
  /\ LruPut(CurrentKey, ValueAt(victim, CurrentKey))
  /\ Serve(ValueAt(victim, CurrentKey), <<>>)
  /\ UNCHANGED <<victim, futures, prefetch, queue, worker, fds, jobs, job>>

PromoteVictim ==
  /\ pc = "fetch"
  /\ HasKey(victim, CurrentKey)
  /\ victim' = Delete(victim, CurrentKey)
  /\ LruPut(CurrentKey, ValueAt(victim, CurrentKey))
  /\ Serve(ValueAt(victim, CurrentKey), <<>>)
  /\ UNCHANGED <<futures, prefetch, queue, worker, fds, jobs, job>>

\* futures[eid].result() returns once the read is done.
TakePrefetched ==
  /\ pc = "fetch"
  /\ ~HasKey(victim, CurrentKey)
  /\ \E f \in Members(call.held) :
       /\ IdOf(f) = CurrentId
       /\ futures[f].state = "done"
       /\ LruPut(CurrentKey, Whole(futures[f].block))
       /\ Serve(Whole(futures[f].block), <<>>)
  /\ UNCHANGED <<victim, futures, prefetch, queue, worker, fds, jobs, job>>

Missed ==
  /\ pc = "fetch"
  /\ ~HasKey(victim, CurrentKey)
  /\ \A f \in Members(call.held) : IdOf(f) # CurrentId

\* Without a fallback buffer the caller reads the block itself.
ReadMiss ==
  /\ Missed
  /\ ~Fallback
  /\ fds' = fds \cup {call.layer}
  /\ LruPut(CurrentKey, Whole(CurrentKey))
  /\ Serve(Whole(CurrentKey), <<>>)
  /\ UNCHANGED <<victim, futures, prefetch, queue, worker, jobs, job>>

\* Mutants: the stand-in is cached; no backfill read is started.
ReadPartialCached ==
  /\ Missed
  /\ Fallback
  /\ fds' = fds \cup {call.layer}
  /\ LruPut(CurrentKey, Mixed(CurrentKey))
  /\ Serve(Mixed(CurrentKey), <<Fresh>>)
  /\ UNCHANGED <<victim, prefetch, worker, jobs, job>>
  /\ Submit(CurrentKey)

ReadPartialOnly ==
  /\ Missed
  /\ Fallback
  /\ fds' = fds \cup {call.layer}
  /\ Serve(Mixed(CurrentKey), <<>>)
  /\ UNCHANGED <<cache, byLayer, victim, futures, prefetch, queue, worker, jobs, job>>

\* With one it reads gate and up only, and leaves the whole block to a
\* backfill read.  What it returns now is not cached.
ReadPartial ==
  /\ Missed
  /\ Fallback
  /\ fds' = fds \cup {call.layer}
  /\ Serve(Mixed(CurrentKey), <<Fresh>>)
  /\ UNCHANGED <<cache, byLayer, victim, prefetch, worker, jobs, job>>
  /\ Submit(CurrentKey)

\* An exception leaves get_experts at once: the popped prefetches and the
\* backfill reads of this call are dropped, neither cancelled nor scheduled.
Raise ==
  /\ pc' = "idle"
  /\ call' = NoCall
  /\ UNCHANGED <<cache, byLayer, victim, prefetch, queue, worker, jobs, job>>
  /\ FuturesBecome(futures)

PrefetchedReadFailed ==
  /\ pc = "fetch"
  /\ ~HasKey(victim, CurrentKey)
  /\ \E f \in Members(call.held) : IdOf(f) = CurrentId /\ futures[f].state \in {"failed", "cancelled"}
  /\ UNCHANGED fds
  /\ Raise

OwnReadFails ==
  /\ Missed
  /\ ReadsMayFail
  /\ fds' \in {fds, fds \cup {call.layer}}
  /\ Raise

\* One leftover prefetch: its read is parked when it is done and not needed,
\* dropped when it failed, and cancelled when it has not started.
Served(id) == \E x \in call.experts : x.id = id

\* Mutant: the victim buffer is not trimmed.
ParkedUntrimmed(k, v) == Assign(victim, k, v)

Parked(k, v) ==
  LET d == Assign(victim, k, v)
  IN  IF Len(d) > VictimCap THEN PopOldest(d) ELSE d

\* Mutant: a finished leftover goes straight into the LRU cache.
LeftoverIntoCache ==
  /\ pc = "leftovers"
  /\ call.held # <<>>
  /\ LET f == Head(call.held)
         unasked == ~Served(IdOf(f))
     IN  /\ IF unasked /\ futures[f].state = "done"
            THEN LruPut(<<call.layer, IdOf(f)>>, Whole(futures[f].block)) ELSE UNCHANGED lruVars
         /\ call' = [call EXCEPT !.held = Tail(@)]
         /\ UNCHANGED <<victim, prefetch, queue, worker, fds, pc, jobs, job>>
         /\ FuturesBecome(IF unasked THEN Cancelled({f}) ELSE futures)

Leftover ==
  /\ pc = "leftovers"
  /\ call.held # <<>>
  /\ LET f == Head(call.held)
         unasked == ~Served(IdOf(f))
     IN  /\ victim' = IF unasked /\ futures[f].state = "done"
                      THEN Parked(<<call.layer, IdOf(f)>>, Whole(futures[f].block)) ELSE victim
         /\ call' = [call EXCEPT !.held = Tail(@)]
         /\ UNCHANGED <<cache, byLayer, prefetch, queue, worker, fds, pc, jobs, job>>
         /\ FuturesBecome(IF unasked THEN Cancelled({f}) ELSE futures)

\* The backfill reads go to the backfill executor as one job.
Scheduled == IF call.backfill = <<>> THEN jobs ELSE Append(jobs, call.backfill)

ReturnExperts ==
  /\ pc = "leftovers"
  /\ call.held = <<>>
  /\ jobs' = Scheduled
  /\ pc' = "idle"
  /\ call' = NoCall
  /\ UNCHANGED <<cache, byLayer, victim, futures, prefetch, queue, worker, fds, job>>

-----------------------------------------------------------------------------
(* The caller: close.                                                      *)

CallClose ==
  /\ pc = "idle"
  /\ pc' = "close"
  /\ UNCHANGED <<cache, byLayer, victim, queue, worker, fds, call, jobs, job>>
  /\ DropPrefetches

\* Mutant: the queue is emptied, its futures are left pending.
ShutdownReadsPending ==
  /\ pc = "close"
  /\ pc' = "join reads"
  /\ queue' = <<>>
  /\ UNCHANGED <<cache, byLayer, victim, prefetch, worker, fds, call, jobs, job>>
  /\ FuturesBecome(futures)

\* executor.shutdown(wait=True, cancel_futures=True): empties the queue ...
ShutdownReads ==
  /\ pc = "close"
  /\ pc' = "join reads"
  /\ queue' = <<>>
  /\ UNCHANGED <<cache, byLayer, victim, prefetch, worker, fds, call, jobs, job>>
  /\ FuturesBecome(Cancelled(Members(queue)))

\* Mutant: shutdown(wait=False).
ReadersNotAwaited == TRUE

ReadersDone == \A w \in Workers : worker[w].state = "idle"

\* ... and joins the workers; then the same of the backfill executor.
ShutdownBackfill ==
  /\ pc = "join reads"
  /\ ReadersDone
  /\ pc' = "join backfill"
  /\ jobs' = <<>>
  /\ UNCHANGED <<cache, byLayer, victim, prefetch, queue, worker, fds, call, job>>
  /\ FuturesBecome(futures)

CloseFiles ==
  /\ pc = "join backfill"
  /\ job = <<>>
  /\ pc' = "closed"
  /\ fds' = {}
  /\ UNCHANGED <<cache, byLayer, victim, futures, prefetch, queue, worker, call, jobs, job>>

\* A closed reader is not used again.
Closed == pc = "closed" /\ UNCHANGED readerVars

-----------------------------------------------------------------------------
(* The read pool.                                                          *)

\* A worker free for a read.  Mutant: backfill jobs run on the read pool.
FreeUnlessJob(w) == worker[w].state = "idle" /\ job = <<>>

Free(w) == worker[w].state = "idle"

\* A worker takes the next item; it runs it unless the future is cancelled.
StartRead(w) ==
  /\ Free(w)
  /\ queue # <<>>
  /\ queue' = Tail(queue)
  /\ UNCHANGED <<cache, byLayer, victim, prefetch, fds, pc, call, jobs, job>>
  /\ LET f == Head(queue)
     IN  IF futures[f].state = "pending"
         THEN /\ worker' = [worker EXCEPT ![w] = [state |-> "opening", future |-> f]]
              /\ FuturesBecome([futures EXCEPT ![f].state = "running"])
         ELSE UNCHANGED worker /\ FuturesBecome(futures)

\* _get_fd opens the layer's file unless it is open.
OpenFile(w) ==
  /\ worker[w].state = "opening"
  /\ worker' = [worker EXCEPT ![w].state = "reading"]
  /\ fds' = fds \cup {futures[worker[w].future].block[1]}
  /\ UNCHANGED <<cache, byLayer, victim, futures, prefetch, queue, pc, call, jobs, job>>

FinishRead(w, outcome) ==
  /\ worker' = [worker EXCEPT ![w] = [state |-> "idle", future |-> Nobody]]
  /\ UNCHANGED <<cache, byLayer, victim, prefetch, queue, fds, pc, call, jobs, job>>
  /\ FuturesBecome([futures EXCEPT ![worker[w].future].state = outcome])

ReadDone(w) == worker[w].state = "reading" /\ FinishRead(w, "done")

\* open or pread raises
ReadFails(w) == ReadsMayFail /\ worker[w].state # "idle" /\ FinishRead(w, "failed")

-----------------------------------------------------------------------------
(* The backfill worker: _do_backfill.                                      *)

StartJob ==
  /\ job = <<>>
  /\ jobs # <<>>
  /\ job' = Head(jobs)
  /\ jobs' = Tail(jobs)
  /\ UNCHANGED <<cache, byLayer, victim, futures, prefetch, queue, worker, fds, pc, call>>

\* future.result() returned or raised: the expert is cached, or the error is
\* counted, and the loop goes on to the next future.
Backfill ==
  /\ job # <<>>
  /\ LET f == Head(job)
     IN  \/ futures[f].state = "done" /\ LruPut(futures[f].block, Whole(futures[f].block))
         \/ futures[f].state \in {"failed", "cancelled"} /\ UNCHANGED lruVars
  /\ job' = Tail(job)
  /\ UNCHANGED <<victim, prefetch, queue, worker, fds, pc, call, jobs>>
  /\ FuturesBecome(futures)

-----------------------------------------------------------------------------

GetStep ==
  LookupHit \/ LookupMiss \/ PromoteVictim \/ TakePrefetched \/ ReadMiss \/ ReadPartial
    \/ PrefetchedReadFailed \/ OwnReadFails \/ Leftover \/ ReturnExperts

CloseStep == ShutdownReads \/ ShutdownBackfill \/ CloseFiles

WorkerStep(w) == StartRead(w) \/ OpenFile(w) \/ ReadDone(w) \/ ReadFails(w)

BackfillStep == StartJob \/ Backfill

ReaderNext ==
  \/ \E l \in Layers, ids \in IdLists : CallPrefetch(l, ids) \/ CallGet(l, ids)
  \/ SkipPrefetch \/ SubmitPrefetch \/ ResetPrefetch
  \/ GetStep
  \/ CallClose \/ CloseStep \/ Closed
  \/ \E w \in Workers : WorkerStep(w)
  \/ BackfillStep

ReaderSpec == ReaderInit /\ [][ReaderNext]_readerVars

\* A call that has begun goes on while it can, and so do the threads of the
\* two executors; nothing obliges a caller to make a call.
ReaderFairness ==
  /\ WF_readerVars(SkipPrefetch \/ SubmitPrefetch)
  /\ WF_readerVars(GetStep)
  /\ WF_readerVars(CloseStep)
  /\ \A w \in Workers : WF_readerVars(WorkerStep(w))
  /\ WF_readerVars(BackfillStep)

FairReaderSpec == ReaderSpec /\ ReaderFairness
-----------------------------------------------------------------------------
(* Properties.                                                             *)

CallerStates ==
  {"idle", "prefetch", "lookup", "fetch", "leftovers", "close", "join reads", "join backfill", "closed"}

FutureStates == {"unused", "pending", "running", "done", "failed", "cancelled"}

ReaderTypeOK ==
  /\ LruTypeOK
  /\ victim \in Seq([key : Key, val : Values])
  /\ futures \in [FutureIds -> [block : Key \cup {Nobody}, state : FutureStates]]
  /\ prefetch \in [Layers -> Seq(FutureIds)]
  /\ queue \in Seq(FutureIds)
  /\ worker \in [Workers -> [state : {"idle", "opening", "reading"}, future : FutureIds \cup {Nobody}]]
  /\ fds \subseteq Layers
  /\ pc \in CallerStates
  /\ call \in [layer : Layers \cup {Nobody}, ids : Seq(Experts), pos : Nat \ {0},
               held : Seq(FutureIds), backfill : Seq(FutureIds),
               experts : SUBSET [id : Experts, val : Values]]
  /\ jobs \in Seq(Seq(FutureIds))
  /\ job \in Seq(FutureIds)

\* What the LRU cache and the victim buffer hold for an expert is that expert's
\* own block with all its tensors, never another block and never the mixed
\* precision stand-in; the victim buffer keeps to its capacity.
CachesHoldWholeExperts ==
  /\ \A i \in DOMAIN cache : cache[i].val = Whole(cache[i].key)
  /\ \A i \in DOMAIN victim : victim[i].val = Whole(victim[i].key)
  /\ UniqueKeys(victim)
  /\ Len(victim) <= VictimCap

\* Every expert get_experts has collected so far is the one asked for, and one
\* served with the fallback's down_proj has a read of its whole block going.
ServedAsAsked ==
  \A x \in call.experts :
    /\ x.val.block = <<call.layer, x.id>>
    /\ x.val.whole \/ \E f \in Members(call.backfill) : futures[f].block = x.val.block

\* No worker preads a file that close has closed, and close leaves no file open.
FilesOutliveReads ==
  /\ \A w \in Workers : worker[w].state = "reading" => futures[worker[w].future].block[1] \in fds
  /\ pc = "closed" => fds = {} /\ queue = <<>> /\ job = <<>> /\ jobs = <<>>

\* Without a fallback buffer an expert is in the LRU cache or in the victim
\* buffer, never in both: a promotion moves it.
SpeculationApart == ~Fallback => Keys(cache) \cap Keys(victim) = {}

\* A call whose experts all fit the LRU cache leaves them all there for the next
\* token: neither a later miss of the call nor a promotion evicts one of them.
\* (A mixed-precision stand-in is not cached, its block comes in with the backfill.)
WorkingSetStays ==
  LruEnabled /\ ~Fallback /\ pc = "leftovers" /\ Len(call.ids) <= MaxExperts =>
    \A x \in call.experts : HasKey(cache, <<call.layer, x.id>>)

\* Only an expert a get_experts call demanded enters the LRU cache, so a wrong
\* guess of the prefetcher never costs a proven expert its slot.
SpeculationNeverEvicts ==
  [][\A k \in Keys(cache') \ Keys(cache) :
       \/ pc = "fetch" /\ k = CurrentKey
       \/ job # <<>> /\ futures[Head(job)].state = "done" /\ k = futures[Head(job)].block
    ]_readerVars

\* A prefetch_experts call adds to the reads in flight for the layer: it neither
\* forgets nor cancels one an earlier call started, and starts none twice.
PrefetchMerges ==
  [][pc = "prefetch" \/ pc' = "prefetch" =>
       \A l \in Layers :
         /\ Members(prefetch[l]) \subseteq Members(prefetch'[l])
         /\ \A f \in Members(prefetch[l]) : futures'[f].block = futures[f].block
                                            /\ futures'[f].state # "cancelled"
         /\ \A f, g \in Members(prefetch'[l]) : futures'[f].block = futures'[g].block => f = g
    ]_readerVars

\* A get_experts call that returns has every expert it was asked for.
ReturnsAllAsked ==
  [][pc = "leftovers" /\ pc' = "idle" => {x.id : x \in call.experts} = Members(call.ids)]_readerVars

\* Every call returns: get_experts does not wait for ever on a read, and close
\* does not wait for ever on a thread.
CallsReturn == (pc \notin {"idle", "closed"}) ~> (pc \in {"idle", "closed"})

\* Every read handed to the backfill executor is in the end taken from it.
AwaitsBackfill(f) == f \in Members(job) \cup UNION {Members(jobs[i]) : i \in DOMAIN jobs}

BackfillsSettle == \A f \in FutureIds : AwaitsBackfill(f) ~> ~AwaitsBackfill(f)
=============================================================================
