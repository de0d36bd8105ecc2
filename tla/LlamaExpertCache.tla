-------------------------- MODULE LlamaExpertCache --------------------------
(***************************************************************************)
(* The byte-budgeted expert cache of src/llama-cpp/patches/src:            *)
(* llama_expert_cache and the llama_expert_cache_ctx that packs the chosen *)
(* experts and advises the kernel of their pages.  A method runs under the *)
(* cache's mutex; what build_active_buffer does with the pointer it got    *)
(* runs outside it.  Statistics are left out, a buffer's contents are the  *)
(* key they belong to, and what a write to freed memory breaks in the      *)
(* allocator is not modelled.                                              *)
(***************************************************************************)
EXTENDS Integers, Sequences

CONSTANTS
  Threads, Null,
  Addrs, Free, Junk,   \* addresses; what freed and what new memory holds
  Tensors,      \* expert tensors: a layer and up, gate or down
  NumExperts,   \* n_expert
  Stride,       \* nb[2] of a tensor, 0 for one that is not stacked
  DataOf,       \* where a tensor's data is mapped
  OnHost,       \* tensors in memory the CPU can read
  Page,         \* ALLOC_ALIGNMENT, the page size
  MaxBytes,     \* max_bytes
  IdLists       \* the lists of expert ids asked for

ExpertIds == 0 .. NumExperts - 1

EntryKeys == Tensors \X ExpertIds

ASSUME LlamaAssumption ==
  /\ NumExperts \in Nat /\ MaxBytes \in Nat /\ Page \in Nat \ {0}
  /\ Stride \in [Tensors -> Nat] /\ DataOf \in [Tensors -> Nat]
  /\ OnHost \subseteq Tensors
  /\ IdLists \subseteq Seq(Int)
  /\ Free \notin EntryKeys \cup {Junk} /\ Null \notin Threads \cup Addrs \cup EntryKeys

VARIABLES
  entries,   \* cache_: the keys that are there, with data and size_bytes
  order,     \* lru_order_, most recent first
  used,      \* used_bytes_
  heap,      \* contents of every address
  mutex,     \* who holds mutex_
  thr,       \* per thread, where it is and its local variables
  activeBuf,    \* what active_buffer is packed with while a call uses it
  advised,   \* a call of the eval callback and the pages it advised
  mixed      \* another call of ensure or build began during a build

cacheVars == <<entries, order, used, heap>>
vars == <<cacheVars, mutex, thr, activeBuf, advised, mixed>>

Idle == [pc |-> "idle", op |-> "none", key |-> Null, buf |-> Null, todo |-> <<>>, asked |-> <<>>]

NoAdvice == [tensor |-> Null, ids |-> <<>>, pages |-> {}]

\* The constructor of the cache, called by init of the context.
Init ==
  /\ entries = << >> /\ order = <<>> /\ used = 0
  /\ heap = [a \in Addrs |-> Free]
  /\ mutex = Null
  /\ thr = [t \in Threads |-> Idle]
  /\ activeBuf = <<>>
  /\ advised = NoAdvice
  /\ mixed = FALSE

\* align_up(size, ALLOC_ALIGNMENT)
Aligned(n) == ((n + Page - 1) \div Page) * Page

Needed(k) == Aligned(Stride[k[1]])

Has(k) == k \in DOMAIN entries

Building == \E t \in Threads : thr[t].op = "build"

-----------------------------------------------------------------------------
\* lru_order_.erase(it); lru_order_.push_front(k): those ahead of k move back.
ToFront(k) ==
  LET at == CHOOSE i \in DOMAIN order : order[i] = k
  IN  [i \in 1 .. Len(order) |-> IF i = 1 THEN k ELSE IF i <= at THEN order[i - 1] ELSE order[i]]

\* The part ensure, get_or_alloc and touch share: a hit under the mutex.
HitEntry(k) ==
  /\ mutex = Null /\ Has(k)
  /\ order' = ToFront(k)
  /\ UNCHANGED <<entries, used, heap, mutex>>

Miss(t, k) ==
  /\ mutex = Null /\ ~Has(k)
  /\ mutex' = t
  /\ UNCHANGED cacheVars

Touch(t, k) ==
  /\ thr[t] = Idle
  /\ HitEntry(k)
  /\ UNCHANGED <<thr, activeBuf, advised, mixed>>

Ensure(t, k) ==
  /\ thr[t] = Idle /\ Stride[k[1]] # 0
  /\ \/ HitEntry(k) /\ UNCHANGED thr
     \/ Miss(t, k) /\ thr' = [thr EXCEPT ![t] = [Idle EXCEPT !.pc = "evict", !.op = "ensure", !.key = k]]
  /\ mixed' = (mixed \/ Building)
  /\ UNCHANGED <<activeBuf, advised>>

\* build_active_buffer; it returns at once for a tensor that is not stacked.
Build(t, x, ids) ==
  /\ thr[t] = Idle /\ Stride[x] # 0
  /\ LET asked == [i \in DOMAIN ids |-> <<x, ids[i]>>]
     IN  thr' = [thr EXCEPT ![t] = [Idle EXCEPT !.pc = "next", !.op = "build",
                                               !.todo = asked, !.asked = asked]]
  /\ activeBuf' = <<>>
  /\ mixed' = (mixed \/ Building)
  /\ UNCHANGED <<cacheVars, mutex, advised>>

\* An id out of range takes no place in the buffer.
SkipId(t) ==
  /\ thr[t].pc = "next" /\ thr[t].todo # <<>>
  /\ Head(thr[t].todo) \notin EntryKeys
  /\ thr' = [thr EXCEPT ![t].todo = Tail(@)]
  /\ UNCHANGED <<cacheVars, mutex, activeBuf, advised, mixed>>

GetOrAlloc(t) ==
  /\ thr[t].pc = "next" /\ thr[t].todo # <<>>
  /\ LET k == Head(thr[t].todo)
     IN  /\ k \in EntryKeys
         /\ \/ /\ HitEntry(k)
               /\ thr' = [thr EXCEPT ![t].pc = "copy", ![t].key = k, ![t].buf = entries[k].data]
            \/ /\ Miss(t, k)
               /\ thr' = [thr EXCEPT ![t].pc = "evict", ![t].key = k]
  /\ UNCHANGED <<activeBuf, advised, mixed>>

-----------------------------------------------------------------------------
\* Mutant: the buffers of evicted entries are not freed.
EvictLeaking(t) ==
  /\ thr[t].pc = "evict"
  /\ used + Needed(thr[t].key) > MaxBytes /\ order # <<>>
  /\ LET old == order[Len(order)]
     IN  /\ order' = SubSeq(order, 1, Len(order) - 1)
         /\ used' = used - entries[old].size
         /\ entries' = [k \in DOMAIN entries \ {old} |-> entries[k]]
  /\ UNCHANGED <<heap, mutex, thr, activeBuf, advised, mixed>>

\* Mutant: what is taken from the count is not aligned.
EvictUnaligned(t) ==
  /\ thr[t].pc = "evict"
  /\ used + Needed(thr[t].key) > MaxBytes /\ order # <<>>
  /\ LET old == order[Len(order)]
     IN  /\ order' = SubSeq(order, 1, Len(order) - 1)
         /\ used' = used - Stride[old[1]]
         /\ heap' = [heap EXCEPT ![entries[old].data] = Free]
         /\ entries' = [k \in DOMAIN entries \ {old} |-> entries[k]]
  /\ UNCHANGED <<mutex, thr, activeBuf, advised, mixed>>

\* One turn of the loop of evict_until_free, from the back of the list.
Evict(t) ==
  /\ thr[t].pc = "evict"
  /\ used + Needed(thr[t].key) > MaxBytes /\ order # <<>>
  /\ LET old == order[Len(order)]
     IN  /\ order' = SubSeq(order, 1, Len(order) - 1)
         /\ used' = used - entries[old].size
         /\ heap' = [heap EXCEPT ![entries[old].data] = Free]
         /\ entries' = [k \in DOMAIN entries \ {old} |-> entries[k]]
  /\ UNCHANGED <<mutex, thr, activeBuf, advised, mixed>>

Evicted(t) ==
  /\ thr[t].pc = "evict"
  /\ used + Needed(thr[t].key) <= MaxBytes \/ order = <<>>

\* push_front, cache_[key] = entry, used_bytes_ += alloc_size
Insert(k, a) ==
  /\ order' = <<k>> \o order
  /\ entries' = [x \in DOMAIN entries \cup {k} |->
                   IF x = k THEN [data |-> a, size |-> Needed(k)] ELSE entries[x]]
  /\ used' = used + Needed(k)

\* ensure reads the slice from disk into a buffer of its own, under the mutex, ...
AllocForLoad(t, a) ==
  /\ Evicted(t) /\ thr[t].op = "ensure" /\ heap[a] = Free
  /\ heap' = [heap EXCEPT ![a] = Junk]
  /\ thr' = [thr EXCEPT ![t].pc = "load", ![t].buf = a]
  /\ UNCHANGED <<entries, order, used, mutex, activeBuf, advised, mixed>>

Load(t) ==
  /\ thr[t].pc = "load"
  /\ heap' = [heap EXCEPT ![thr[t].buf] = thr[t].key]
  /\ Insert(thr[t].key, thr[t].buf)
  /\ mutex' = Null
  /\ thr' = [thr EXCEPT ![t] = Idle]
  /\ UNCHANGED <<activeBuf, advised, mixed>>

\* ... and frees it when a pread fails or ends early.
LoadFails(t) ==
  /\ thr[t].pc = "load"
  /\ heap' = [heap EXCEPT ![thr[t].buf] = Free]
  /\ mutex' = Null
  /\ thr' = [thr EXCEPT ![t] = Idle]
  /\ UNCHANGED <<entries, order, used, activeBuf, advised, mixed>>

\* get_or_alloc puts the slot in the map before its caller has filled it.
AllocSlot(t, a) ==
  /\ Evicted(t) /\ thr[t].op = "build" /\ heap[a] = Free
  /\ heap' = [heap EXCEPT ![a] = Junk]
  /\ Insert(thr[t].key, a)
  /\ mutex' = Null
  /\ thr' = [thr EXCEPT ![t].pc = "fill", ![t].buf = a]
  /\ UNCHANGED <<activeBuf, advised, mixed>>

\* No memory: ensure returns nullptr, build reads the tensor itself.
AllocFails(t) ==
  /\ Evicted(t)
  /\ mutex' = Null
  /\ thr' = [thr EXCEPT ![t] = IF @.op = "ensure" THEN Idle
                               ELSE [@ EXCEPT !.pc = "copy", !.buf = Null]]
  /\ UNCHANGED <<cacheVars, activeBuf, advised, mixed>>

-----------------------------------------------------------------------------
\* memcpy(buf, src, stride): the memory may be another's by then, or nobody's.
Fill(t) ==
  /\ thr[t].pc = "fill"
  /\ heap' = [heap EXCEPT ![thr[t].buf] = IF @ = Free THEN Free ELSE thr[t].key]
  /\ thr' = [thr EXCEPT ![t].pc = "copy"]
  /\ UNCHANGED <<entries, order, used, mutex, activeBuf, advised, mixed>>

\* Mutant: a new slot is handed out as if it were filled.
CopyUnfilled(t) ==
  /\ thr[t].pc \in {"fill", "copy"}
  /\ activeBuf' = Append(activeBuf, IF thr[t].buf = Null THEN thr[t].key ELSE heap[thr[t].buf])
  /\ thr' = [thr EXCEPT ![t] = [thr[t] EXCEPT !.pc = "next", !.key = Null, !.buf = Null, !.todo = Tail(@)]]
  /\ UNCHANGED <<cacheVars, mutex, advised, mixed>>

\* memcpy(dst, expert_src, stride)
Copy(t) ==
  /\ thr[t].pc = "copy"
  /\ activeBuf' = Append(activeBuf, IF thr[t].buf = Null THEN thr[t].key ELSE heap[thr[t].buf])
  /\ thr' = [thr EXCEPT ![t] = [thr[t] EXCEPT !.pc = "next", !.key = Null, !.buf = Null, !.todo = Tail(@)]]
  /\ UNCHANGED <<cacheVars, mutex, advised, mixed>>

Built(t) ==
  /\ thr[t].pc = "next" /\ thr[t].todo = <<>>
  /\ thr' = [thr EXCEPT ![t] = Idle]
  /\ activeBuf' = <<>>
  /\ UNCHANGED <<cacheVars, mutex, advised, mixed>>

\* The destructor of the context's cache, and a context made anew.
Destroy ==
  /\ \A t \in Threads : thr[t] = Idle
  /\ heap' = [a \in Addrs |-> IF \E k \in DOMAIN entries : entries[k].data = a THEN Free ELSE heap[a]]
  /\ entries' = << >> /\ order' = <<>> /\ used' = 0
  /\ activeBuf' = <<>> /\ advised' = NoAdvice /\ mixed' = FALSE
  /\ UNCHANGED <<mutex, thr>>

-----------------------------------------------------------------------------
Slice(x, e) == DataOf[x] + e * Stride[x]

PagesOf(first, len) == {b \div Page : b \in first .. first + len - 1}

\* Mutant: the length is not extended by what the start was moved back.
AdviceOfStride(x, e) == PagesOf(Slice(x, e) - (Slice(x, e) % Page), Stride[x])

\* madvise(page_start, stride + (src - page_start), MADV_WILLNEED)
Advice(x, e) ==
  LET start == Slice(x, e) - (Slice(x, e) % Page)
  IN  PagesOf(start, Stride[x] + (Slice(x, e) - start))

\* eval_callback before a MUL_MAT_ID of an expert tensor.  It never uses the cache.
Callback(t, x, ids) ==
  /\ thr[t] = Idle
  /\ Stride[x] # 0 /\ x \in OnHost
  /\ thr' = [thr EXCEPT ![t].pc = "advised"]
  /\ advised' = [tensor |-> x, ids |-> ids,
       pages |-> UNION {Advice(x, ids[i]) : i \in {j \in DOMAIN ids : ids[j] \in ExpertIds}}]
  /\ UNCHANGED <<cacheVars, mutex, activeBuf, mixed>>

CallbackReturns(t) ==
  /\ thr[t].pc = "advised"
  /\ thr' = [thr EXCEPT ![t] = Idle]
  /\ advised' = NoAdvice
  /\ UNCHANGED <<cacheVars, mutex, activeBuf, mixed>>

Next ==
  \/ \E t \in Threads :
       \/ \E k \in EntryKeys : Touch(t, k) \/ Ensure(t, k)
       \/ \E x \in Tensors, ids \in IdLists : Build(t, x, ids) \/ Callback(t, x, ids)
       \/ SkipId(t) \/ GetOrAlloc(t)
       \/ Evict(t) \/ \E a \in Addrs : AllocForLoad(t, a) \/ AllocSlot(t, a)
       \/ Load(t) \/ LoadFails(t) \/ AllocFails(t)
       \/ Fill(t) \/ Copy(t) \/ Built(t) \/ CallbackReturns(t)
  \/ Destroy

Spec == Init /\ [][Next]_vars

-----------------------------------------------------------------------------
\* The buffers a load that holds the mutex has taken and not yet handed over.
Loading == {thr[t].buf : t \in {u \in Threads : thr[u].pc = "load"}}

\* Whatever the threads call, list and map name the same keys, each once, every
\* buffer in use belongs to exactly one entry or to the load under way, and none
\* that was freed is still an entry's: no leak, no double free.
BuffersOwnedOnce ==
  /\ {order[i] : i \in DOMAIN order} = DOMAIN entries
  /\ \A i, j \in DOMAIN order : order[i] = order[j] => i = j
  /\ \A k, l \in DOMAIN entries : entries[k].data = entries[l].data => k = l
  /\ {a \in Addrs : heap[a] # Free} = {entries[k].data : k \in DOMAIN entries} \cup Loading
  /\ \A k \in DOMAIN entries : entries[k].data \notin Loading

\* The bytes of the first n keys of a list.
Total(s) ==
  LET total[n \in 0 .. Len(s)] == IF n = 0 THEN 0 ELSE total[n - 1] + Needed(s[n])
  IN  total

\* The bytes counted are those of the entries, each with its slice in whole pages,
\* and they stay within the budget but for an expert larger than all of it, which
\* is then alone.
WithinBudget ==
  /\ \A k \in DOMAIN entries : entries[k].size = Needed(k)
  /\ used = Total(order)[Len(order)]
  /\ used <= MaxBytes \/ Len(order) = 1

\* The advice of the callback reaches every page of every expert it was given,
\* wherever the tensor's data lies between two pages.
AdviceCoversExperts ==
  \A i \in DOMAIN advised.ids :
    advised.ids[i] \in ExpertIds =>
      PagesOf(Slice(advised.tensor, advised.ids[i]), Stride[advised.tensor]) \subseteq advised.pages

\* What the first n of the ids asked for leave in the buffer: one out of range takes
\* no place.
Packed(asked) ==
  LET packed[n \in 0 .. Len(asked)] ==
        IF n = 0 THEN <<>>
        ELSE IF asked[n] \in EntryKeys THEN Append(packed[n - 1], asked[n]) ELSE packed[n - 1]
  IN  packed

\* While calls do not overlap a build, the packed buffer holds the bytes of the
\* experts asked for, in their order, those out of range left out:
\* no slot is handed on unfilled and none is evicted before it is copied.
PackedAsAsked ==
  ~mixed =>
    /\ \A t \in Threads : thr[t].op = "build" =>
         activeBuf = Packed(thr[t].asked)[Len(thr[t].asked) - Len(thr[t].todo)]
    /\ Building \/ \A k \in DOMAIN entries : heap[entries[k].data] = k
=============================================================================
