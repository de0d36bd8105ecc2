----------------------- MODULE LlamaExpertCache_proofs -----------------------
(***************************************************************************)
(* That the llama.cpp expert cache neither leaks nor frees twice nor hands  *)
(* out a freed buffer as an entry's, keeps its budget, advises every page   *)
(* and packs what it is asked for while calls do not overlap: for any       *)
(* threads, tensors, budgets and memory.                                    *)
(***************************************************************************)
EXTENDS LlamaExpertCache, SequenceTheorems, WellFoundedInduction, TLAPS

-----------------------------------------------------------------------------
(* The list of keys.                                                       *)

Members(s) == {s[i] : i \in DOMAIN s}
Distinct(s) == \A i, j \in DOMAIN s : s[i] = s[j] => i = j

\* Moving a key to the front keeps the keys.
LEMMA FrontMembers ==
  ASSUME order \in Seq(EntryKeys), Distinct(order), NEW k \in EntryKeys, k \in Members(order)
  PROVE  ToFront(k) \in Seq(EntryKeys) /\ Distinct(ToFront(k)) /\ Members(ToFront(k)) = Members(order)
<1> DEFINE at == CHOOSE i \in DOMAIN order : order[i] = k
           f == [i \in 1 .. Len(order) |-> IF i = 1 THEN k ELSE IF i <= at THEN order[i - 1] ELSE order[i]]
<1>1. at \in DOMAIN order /\ order[at] = k
  BY DEF Members
<1>2. ToFront(k) = f
  BY DEF ToFront
<1>3. DOMAIN order = 1 .. Len(order) /\ Len(order) \in Nat /\ \A i \in 1 .. Len(order) : order[i] \in EntryKeys
  BY LenProperties, ElementOfSeq
<1> HIDE DEF at
<1>4. DOMAIN f = 1 .. Len(order) /\ at \in 1 .. Len(order)
  BY <1>1, <1>3
<1>5. /\ f[1] = k
      /\ \A i \in 2 .. at : f[i] = order[i - 1]
      /\ \A i \in at + 1 .. Len(order) : f[i] = order[i]
  BY <1>3, <1>4
<1>6. f \in Seq(EntryKeys)
  <2>1. \A i \in 1 .. Len(order) : f[i] \in EntryKeys
    BY <1>3, <1>4
  <2>2. QED
    BY <1>3, <2>1
<1>7. Distinct(f)
  <2>1. SUFFICES ASSUME NEW i \in 1 .. Len(order), NEW j \in 1 .. Len(order), f[i] = f[j] PROVE i = j
    BY <1>4 DEF Distinct
  <2> DEFINE from(x) == IF x = 1 THEN at ELSE IF x <= at THEN x - 1 ELSE x
  <2>2. \A x \in 1 .. Len(order) : from(x) \in 1 .. Len(order) /\ f[x] = order[from(x)]
    BY <1>1, <1>3, <1>4, <1>5
  <2>3. from(i) = from(j)
    BY <1>3, <2>1, <2>2 DEF Distinct
  <2>4. QED
    BY <1>3, <1>4, <2>1, <2>3
<1>8. Members(f) = Members(order)
  <2>1. ASSUME NEW i \in 1 .. Len(order) PROVE f[i] \in Members(order)
    <3>1. f[i] = k \/ f[i] = order[i] \/ (i - 1 \in 1 .. Len(order) /\ f[i] = order[i - 1])
      BY <1>3, <1>4, <2>1
    <3>2. QED
      BY <1>3, <3>1 DEF Members
  <2>2. ASSUME NEW i \in 1 .. Len(order) PROVE order[i] \in Members(f)
    <3>1. CASE i = at
      BY <1>1, <1>3, <1>4, <1>5, <3>1 DEF Members
    <3>2. CASE i < at
      <4>1. i + 1 \in 2 .. at /\ i + 1 \in DOMAIN f
        BY <1>3, <1>4, <3>2
      <4>2. f[i + 1] = order[i]
        BY <1>3, <1>5, <4>1
      <4>3. QED
        BY <4>1, <4>2 DEF Members
    <3>3. CASE i > at
      <4>1. f[i] = order[i] /\ i \in DOMAIN f
        BY <1>3, <1>4, <1>5, <3>3
      <4>2. QED
        BY <4>1 DEF Members
    <3>4. QED
      BY <1>3, <1>4, <3>1, <3>2, <3>3
  <2>3. QED
    BY <1>3, <1>4, <2>1, <2>2 DEF Members
<1> HIDE DEF f
<1>9. QED
  BY <1>2, <1>6, <1>7, <1>8

\* Pushing a new key adds it.
LEMMA PushMembers ==
  ASSUME NEW s \in Seq(EntryKeys), Distinct(s), NEW k \in EntryKeys, k \notin Members(s)
  PROVE  <<k>> \o s \in Seq(EntryKeys) /\ Distinct(<<k>> \o s) /\ Members(<<k>> \o s) = Members(s) \cup {k}
<1> DEFINE f == <<k>> \o s
<1>1. <<k>> \in Seq(EntryKeys) /\ Len(<<k>>) = 1 /\ <<k>>[1] = k
  OBVIOUS
<1>2. DOMAIN s = 1 .. Len(s) /\ Len(s) \in Nat
  BY LenProperties
<1>3. f \in Seq(EntryKeys) /\ Len(f) = 1 + Len(s) /\ \A i \in 1 .. 1 + Len(s) : f[i] = IF i <= 1 THEN <<k>>[i] ELSE s[i - 1]
  BY <1>1, ConcatProperties
<1> HIDE DEF f
<1>4. DOMAIN f = 1 .. Len(s) + 1 /\ f[1] = k /\ \A i \in 1 .. Len(s) : f[i + 1] = s[i]
  BY <1>1, <1>2, <1>3
<1>5. \A i \in 2 .. Len(s) + 1 : i - 1 \in 1 .. Len(s) /\ f[i] = s[i - 1]
  BY <1>2, <1>3
<1>6. Distinct(f)
  <2>1. SUFFICES ASSUME NEW i \in 1 .. Len(s) + 1, NEW j \in 1 .. Len(s) + 1, f[i] = f[j] PROVE i = j
    BY <1>4 DEF Distinct
  <2>2. \A x \in 2 .. Len(s) + 1 : f[x] # k
    BY <1>2, <1>5 DEF Members
  <2>3. CASE i = 1 \/ j = 1
    BY <1>2, <1>4, <2>1, <2>2, <2>3
  <2>4. CASE i # 1 /\ j # 1
    <3>1. i \in 2 .. Len(s) + 1 /\ j \in 2 .. Len(s) + 1
      BY <1>2, <2>4
    <3>2. i - 1 \in DOMAIN s /\ j - 1 \in DOMAIN s /\ s[i - 1] = s[j - 1]
      BY <1>2, <1>5, <2>1, <3>1
    <3>3. i - 1 = j - 1
      BY <3>2 DEF Distinct
    <3>4. QED
      BY <1>2, <3>1, <3>3
  <2>5. QED
    BY <2>3, <2>4
<1>7. Members(f) = Members(s) \cup {k}
  <2>1. ASSUME NEW x \in Members(f) PROVE x \in Members(s) \cup {k}
    BY <1>2, <1>4, <1>5 DEF Members
  <2>2. ASSUME NEW x \in Members(s) PROVE x \in Members(f)
    <3>1. PICK i \in 1 .. Len(s) : x = s[i]
      BY <1>2 DEF Members
    <3>2. i + 1 \in DOMAIN f /\ f[i + 1] = x
      BY <1>2, <1>4, <3>1
    <3>3. QED
      BY <3>2 DEF Members
  <2>3. k \in Members(f)
    BY <1>2, <1>4 DEF Members
  <2>4. QED
    BY <2>1, <2>2, <2>3
<1>8. QED
  BY <1>3, <1>6, <1>7 DEF f

\* Taking the last key away leaves the others.
LEMMA PopMembers ==
  ASSUME NEW s \in Seq(EntryKeys), s # <<>>, Distinct(s)
  PROVE  /\ s[Len(s)] \in Members(s)
         /\ SubSeq(s, 1, Len(s) - 1) \in Seq(EntryKeys)
         /\ Distinct(SubSeq(s, 1, Len(s) - 1))
         /\ Members(SubSeq(s, 1, Len(s) - 1)) = Members(s) \ {s[Len(s)]}
<1> DEFINE f == SubSeq(s, 1, Len(s) - 1)
<1>1. DOMAIN s = 1 .. Len(s) /\ Len(s) \in Nat \ {0} /\ \A i \in 1 .. Len(s) : s[i] \in EntryKeys
  BY LenProperties, EmptySeq, ElementOfSeq
<1>2. f \in Seq(EntryKeys) /\ Len(f) = Len(s) - 1 /\ \A i \in 1 .. Len(s) - 1 : f[i] = s[i]
  BY <1>1, SubSeqProperties
<1> HIDE DEF f
<1>3. DOMAIN f = 1 .. Len(s) - 1
  BY <1>2, LenProperties
<1>4. Distinct(f)
  BY <1>1, <1>2, <1>3 DEF Distinct
<1>5. Members(f) = Members(s) \ {s[Len(s)]}
  <2>1. ASSUME NEW x \in Members(f) PROVE x \in Members(s) \ {s[Len(s)]}
    <3>1. PICK i \in 1 .. Len(s) - 1 : x = f[i]
      BY <1>3 DEF Members
    <3>2. i \in 1 .. Len(s) /\ i # Len(s) /\ Len(s) \in 1 .. Len(s)
      <4>1. Len(s) \in Nat /\ Len(s) >= 1
        BY <1>1
      <4>2. QED
        BY <4>1
    <3>3. x = s[i]
      BY <1>2, <3>1
    <3>4. s[i] # s[Len(s)]
      BY <1>1, <3>2 DEF Distinct
    <3>5. QED
      BY <1>1, <3>2, <3>3, <3>4 DEF Members
  <2>2. ASSUME NEW x \in Members(s) \ {s[Len(s)]} PROVE x \in Members(f)
    <3>1. PICK i \in 1 .. Len(s) : x = s[i]
      BY <1>1 DEF Members
    <3>2. i \in 1 .. Len(s) - 1 /\ f[i] = x
      BY <1>1, <1>2, <2>2, <3>1
    <3>3. QED
      BY <1>3, <3>2 DEF Members
  <2>3. QED
    BY <2>1, <2>2
<1>6. s[Len(s)] \in Members(s)
  BY <1>1 DEF Members
<1>7. QED
  BY <1>2, <1>4, <1>5, <1>6 DEF f

-----------------------------------------------------------------------------
(* The invariant.                                                          *)

PCs == {"idle", "evict", "load", "next", "fill", "copy", "advised"}

Local ==
  [pc : PCs, op : {"none", "ensure", "build"}, key : EntryKeys \cup {Null}, buf : Addrs \cup {Null},
   todo : Seq(Tensors \X Int), asked : Seq(Tensors \X Int)]

TypeInv ==
  /\ order \in Seq(EntryKeys)
  /\ \A k \in DOMAIN entries : entries[k].data \in Addrs
  /\ heap \in [Addrs -> EntryKeys \cup {Free, Junk}]
  /\ thr \in [Threads -> Local]

\* Who works on a miss holds the mutex, and its key is in the map of nobody.
MissInv ==
  \A t \in Threads :
    /\ thr[t].pc \in {"evict", "load"} => mutex = t /\ thr[t].key \in EntryKeys /\ ~Has(thr[t].key)
    /\ thr[t].pc \in {"load", "fill"} => thr[t].buf \in Addrs /\ thr[t].key \in EntryKeys
    /\ thr[t].pc \in {"fill", "copy"} \/ (thr[t].pc = "evict" /\ thr[t].op # "ensure") => thr[t].todo # <<>>

Owned(a) == (\E k \in DOMAIN entries : entries[k].data = a) \/ a \in Loading

\* The parts of BuffersOwnedOnce.
ListInv == Distinct(order) /\ Members(order) = DOMAIN entries
HeapInv ==
  /\ \A k, l \in DOMAIN entries : entries[k].data = entries[l].data => k = l
  /\ \A a \in Addrs : heap[a] # Free <=> Owned(a)
  /\ \A k \in DOMAIN entries : entries[k].data \notin Loading

CacheInv == TypeInv /\ MissInv /\ ListInv /\ HeapInv

LEMMA CacheInvOwns == CacheInv => BuffersOwnedOnce
<1> SUFFICES ASSUME CacheInv PROVE BuffersOwnedOnce
  OBVIOUS
<1>1. Loading \subseteq Addrs
  BY DEF CacheInv, MissInv, Loading
<1>2. {a \in Addrs : heap[a] # Free} = {entries[k].data : k \in DOMAIN entries} \cup Loading
  BY <1>1 DEF CacheInv, TypeInv, HeapInv, Owned
<1>3. QED
  BY <1>2 DEF CacheInv, ListInv, HeapInv, Members, Distinct, BuffersOwnedOnce

LEMMA IdleIsLocal == Idle \in Local
BY EmptySeq DEF Idle, Local, PCs

LEMMA InitCacheInv == Init => CacheInv
<1> SUFFICES ASSUME Init PROVE CacheInv
  OBVIOUS
<1>1. DOMAIN entries = {} /\ DOMAIN order = {}
  BY DEF Init
<1>2. TypeInv
  BY <1>1, IdleIsLocal, EmptySeq DEF Init, TypeInv
<1>3. MissInv
  BY DEF Init, MissInv, Idle
<1>4. Loading = {}
  BY DEF Init, Loading, Idle
<1>5. ListInv /\ HeapInv
  BY <1>1, <1>4 DEF Init, ListInv, HeapInv, Owned, Members, Distinct
<1>6. QED
  BY <1>2, <1>3, <1>5 DEF CacheInv

-----------------------------------------------------------------------------
(* The steps.                                                              *)

\* A thread that is not between taking and handing over a buffer before or after
\* a step leaves the buffers being loaded as they are.
LEMMA SameLoading ==
  ASSUME NEW t \in Threads, \A u \in Threads : u # t => thr'[u] = thr[u],
         thr[t].pc # "load", thr'[t].pc # "load"
  PROVE  Loading' = Loading
<1>1. \A u \in Threads : thr[u].pc = "load" <=> thr'[u].pc = "load"
  OBVIOUS
<1>2. \A u \in Threads : thr[u].pc = "load" => thr'[u].buf = thr[u].buf
  OBVIOUS
<1>3. QED
  BY <1>1, <1>2 DEF Loading

\* A step of one thread that touches neither map nor buffers.
LEMMA QuietInv ==
  ASSUME CacheInv, NEW t \in Threads, NEW r \in Local, thr' = [thr EXCEPT ![t] = r],
         UNCHANGED <<entries, heap>>, ListInv', order' \in Seq(EntryKeys),
         thr[t].pc # "load", r.pc # "load",
         mutex' = mutex \/ (mutex = Null /\ mutex' = t) \/ (mutex = t /\ mutex' = Null),
         r.pc = "evict" => mutex' = t /\ r.key \in EntryKeys /\ ~Has(r.key),
         r.pc = "fill" => r.buf \in Addrs /\ r.key \in EntryKeys,
         r.pc \in {"fill", "copy"} \/ (r.pc = "evict" /\ r.op # "ensure") => r.todo # <<>>
  PROVE  CacheInv'
<1>1. thr'[t] = r /\ \A u \in Threads : u # t => thr'[u] = thr[u]
  BY DEF CacheInv, TypeInv
<1>2. Loading' = Loading
  BY <1>1, SameLoading
<1>3. TypeInv'
  BY DEF CacheInv, TypeInv
<1>4. MissInv'
  <2>1. Null \notin Threads
    BY LlamaAssumption
  <2>2. QED
    BY <1>1, <2>1 DEF CacheInv, MissInv, Has
<1>5. HeapInv'
  BY <1>2 DEF CacheInv, HeapInv, Owned
<1>6. QED
  BY <1>3, <1>4, <1>5 DEF CacheInv

LEMMA HitList ==
  ASSUME CacheInv, NEW k \in EntryKeys, HitEntry(k)
  PROVE  ListInv' /\ order' \in Seq(EntryKeys)
BY FrontMembers DEF CacheInv, TypeInv, ListInv, HitEntry, Has

LEMMA TailLocal ==
  ASSUME NEW r \in Local, r.todo # <<>>
  PROVE  Tail(r.todo) \in Seq(Tensors \X Int)
BY HeadTailProperties DEF Local

\* A new entry takes over a buffer that is in use and is no entry's.
LEMMA InsertList ==
  ASSUME CacheInv, NEW k \in EntryKeys, ~Has(k), NEW a, Insert(k, a)
  PROVE  ListInv' /\ order' \in Seq(EntryKeys)
BY PushMembers DEF CacheInv, TypeInv, ListInv, Insert, Has

LEMMA TouchInv ==
  ASSUME CacheInv, NEW t \in Threads, NEW k \in EntryKeys, Touch(t, k)
  PROVE  CacheInv'
<1>1. ListInv' /\ order' \in Seq(EntryKeys)
  BY HitList DEF Touch
<1>2. Loading' = Loading
  BY DEF Touch, Loading
<1>3. QED
  BY <1>1, <1>2 DEF Touch, HitEntry, CacheInv, TypeInv, MissInv, HeapInv, Owned, Has

LEMMA EnsureInv ==
  ASSUME CacheInv, NEW t \in Threads, NEW k \in EntryKeys, Ensure(t, k)
  PROVE  CacheInv'
<1>1. CASE HitEntry(k) /\ UNCHANGED thr
  <2>1. ListInv' /\ order' \in Seq(EntryKeys)
    BY <1>1, HitList
  <2>2. Loading' = Loading
    BY <1>1 DEF Loading
  <2>3. QED
    BY <1>1, <2>1, <2>2 DEF HitEntry, CacheInv, TypeInv, MissInv, HeapInv, Owned, Has
<1>2. CASE Miss(t, k) /\ thr' = [thr EXCEPT ![t] = [Idle EXCEPT !.pc = "evict", !.op = "ensure", !.key = k]]
  <2> DEFINE r == [Idle EXCEPT !.pc = "evict", !.op = "ensure", !.key = k]
  <2>1. r \in Local /\ r.pc = "evict" /\ r.key = k /\ r.op = "ensure"
    BY IdleIsLocal DEF Idle, Local, PCs
  <2>2. thr[t].pc = "idle"
    BY DEF Ensure, Idle
  <2>3. ListInv' /\ order' \in Seq(EntryKeys)
    BY <1>2 DEF Miss, cacheVars, CacheInv, TypeInv, ListInv
  <2> HIDE DEF r
  <2>4. thr' = [thr EXCEPT ![t] = r]
    BY <1>2 DEF r
  <2>5. QED
    BY <1>2, <2>1, <2>2, <2>3, <2>4, QuietInv DEF Miss, cacheVars
<1>3. QED
  BY <1>1, <1>2 DEF Ensure

LEMMA BuildInv ==
  ASSUME CacheInv, NEW t \in Threads, NEW x \in Tensors, NEW ids \in IdLists, Build(t, x, ids)
  PROVE  CacheInv'
<1> DEFINE asked == [i \in DOMAIN ids |-> <<x, ids[i]>>]
           r == [Idle EXCEPT !.pc = "next", !.op = "build", !.todo = asked, !.asked = asked]
<1>1. asked \in Seq(Tensors \X Int)
  <2>1. ids \in Seq(Int)
    BY LlamaAssumption
  <2>2. DOMAIN ids = 1 .. Len(ids) /\ Len(ids) \in Nat /\ \A i \in 1 .. Len(ids) : ids[i] \in Int
    BY <2>1, LenProperties, ElementOfSeq
  <2>3. QED
    BY <2>2
<1>2. r \in Local /\ r.pc = "next"
  BY <1>1, IdleIsLocal DEF Idle, Local, PCs
<1>3. thr[t].pc = "idle" /\ thr' = [thr EXCEPT ![t] = r]
  BY DEF Build, Idle
<1>4. ListInv' /\ order' \in Seq(EntryKeys)
  BY DEF Build, cacheVars, CacheInv, TypeInv, ListInv
<1> HIDE DEF r
<1>5. QED
  BY <1>2, <1>3, <1>4, QuietInv DEF Build, cacheVars

\* The steps of build_active_buffer outside the mutex, and of the callback.
LEMMA OutsideInv ==
  ASSUME CacheInv, NEW t \in Threads,
         \/ SkipId(t) \/ Copy(t) \/ Built(t) \/ CallbackReturns(t)
         \/ \E x \in Tensors, ids \in IdLists : Callback(t, x, ids)
  PROVE  CacheInv'
<1>1. thr[t] \in Local
  BY DEF CacheInv, TypeInv
<1>2. ListInv' /\ order' \in Seq(EntryKeys) /\ UNCHANGED <<entries, heap, mutex>> /\ thr[t].pc # "load"
  BY DEF SkipId, Copy, Built, CallbackReturns, Callback, cacheVars, CacheInv, TypeInv, ListInv, Idle
<1>3. PICK r \in Local : thr' = [thr EXCEPT ![t] = r] /\ r.pc \in {"idle", "next", "advised"}
  <2>1. CASE SkipId(t)
    <3> DEFINE r == [thr[t] EXCEPT !.todo = Tail(@)]
    <3>1. Tail(thr[t].todo) \in Seq(Tensors \X Int)
      BY <1>1, <2>1, TailLocal DEF SkipId
    <3>2. r \in Local /\ r.pc = "next"
      BY <1>1, <2>1, <3>1 DEF SkipId, Local
    <3>3. thr' = [thr EXCEPT ![t] = r]
      BY <2>1 DEF SkipId
    <3>4. QED
      BY <3>2, <3>3
  <2>2. CASE Copy(t)
    <3> DEFINE r == [thr[t] EXCEPT !.pc = "next", !.key = Null, !.buf = Null, !.todo = Tail(@)]
    <3>1. Tail(thr[t].todo) \in Seq(Tensors \X Int)
      BY <1>1, <2>2, TailLocal DEF Copy, CacheInv, MissInv
    <3>2. r \in Local /\ r.pc = "next"
      BY <1>1, <3>1 DEF Local, PCs
    <3>3. thr' = [thr EXCEPT ![t] = r]
      BY <2>2 DEF Copy
    <3>4. QED
      BY <3>2, <3>3
  <2>3. CASE Built(t) \/ CallbackReturns(t)
    BY <2>3, IdleIsLocal DEF Built, CallbackReturns, Idle
  <2>4. ASSUME NEW x \in Tensors, NEW ids \in IdLists, Callback(t, x, ids)
        PROVE  \E r \in Local : thr' = [thr EXCEPT ![t] = r] /\ r.pc \in {"idle", "next", "advised"}
    <3> DEFINE r == [thr[t] EXCEPT !.pc = "advised"]
    <3>1. r \in Local /\ r.pc = "advised"
      BY <1>1 DEF Local, PCs
    <3>2. thr' = [thr EXCEPT ![t] = r]
      BY <2>4 DEF Callback
    <3>3. QED
      BY <3>1, <3>2
  <2>5. QED
    BY <2>1, <2>2, <2>3, <2>4
<1>4. QED
  BY <1>2, <1>3, QuietInv

LEMMA GetOrAllocInv ==
  ASSUME CacheInv, NEW t \in Threads, GetOrAlloc(t)
  PROVE  CacheInv'
<1> DEFINE k == Head(thr[t].todo)
<1>1. thr[t] \in Local /\ thr[t].pc = "next" /\ thr[t].todo # <<>> /\ k \in EntryKeys
  BY DEF GetOrAlloc, CacheInv, TypeInv
<1>2. CASE HitEntry(k) /\ thr' = [thr EXCEPT ![t].pc = "copy", ![t].key = k, ![t].buf = entries[k].data]
  <2> DEFINE r == [thr[t] EXCEPT !.pc = "copy", !.key = k, !.buf = entries[k].data]
  <2>1. entries[k].data \in Addrs
    BY <1>2 DEF HitEntry, Has, CacheInv, TypeInv
  <2>2. r \in Local /\ r.pc = "copy" /\ r.todo # <<>>
    BY <1>1, <2>1 DEF Local, PCs
  <2>3. thr' = [thr EXCEPT ![t] = r]
    BY <1>2
  <2>4. ListInv' /\ order' \in Seq(EntryKeys) /\ UNCHANGED <<entries, heap, mutex>>
    BY <1>1, <1>2, HitList DEF HitEntry
  <2> HIDE DEF r, k
  <2>5. QED
    BY <1>1, <2>2, <2>3, <2>4, QuietInv
<1>3. CASE Miss(t, k) /\ thr' = [thr EXCEPT ![t].pc = "evict", ![t].key = k]
  <2> DEFINE r == [thr[t] EXCEPT !.pc = "evict", !.key = k]
  <2>1. r \in Local /\ r.pc = "evict" /\ r.todo # <<>> /\ r.key = k
    BY <1>1 DEF Local, PCs
  <2>2. thr' = [thr EXCEPT ![t] = r]
    BY <1>3
  <2>3. ListInv' /\ order' \in Seq(EntryKeys) /\ UNCHANGED <<entries, heap>> /\ ~Has(k)
    BY <1>3 DEF Miss, cacheVars, CacheInv, TypeInv, ListInv
  <2>4. mutex = Null /\ mutex' = t
    BY <1>3 DEF Miss
  <2> HIDE DEF r, k
  <2>5. QED
    BY <1>1, <2>1, <2>2, <2>3, <2>4, QuietInv
<1>4. QED
  BY <1>2, <1>3 DEF GetOrAlloc

\* No memory: the mutex is released.
LEMMA AllocFailsInv ==
  ASSUME CacheInv, NEW t \in Threads, AllocFails(t)
  PROVE  CacheInv'
<1>1. thr[t] \in Local /\ thr[t].pc = "evict" /\ mutex = t
  BY DEF AllocFails, Evicted, CacheInv, TypeInv, MissInv
<1>2. ListInv' /\ order' \in Seq(EntryKeys) /\ UNCHANGED <<entries, heap>> /\ mutex' = Null
  BY DEF AllocFails, cacheVars, CacheInv, TypeInv, ListInv
<1>3. PICK r \in Local : /\ thr' = [thr EXCEPT ![t] = r] /\ r.pc \in {"idle", "copy"}
                         /\ r.pc = "copy" => r.todo # <<>>
  <2>1. CASE thr[t].op = "ensure"
    BY <2>1, IdleIsLocal DEF AllocFails, Idle
  <2>2. CASE thr[t].op # "ensure"
    <3> DEFINE r == [thr[t] EXCEPT !.pc = "copy", !.buf = Null]
    <3>1. r \in Local /\ r.pc = "copy" /\ r.todo # <<>>
      BY <1>1, <2>2 DEF Local, PCs, CacheInv, MissInv
    <3>2. thr' = [thr EXCEPT ![t] = r]
      BY <2>2 DEF AllocFails
    <3>3. QED
      BY <3>1, <3>2
  <2>3. QED
    BY <2>1, <2>2
<1>4. QED
  BY <1>1, <1>2, <1>3, QuietInv

\* An eviction frees the buffer of the entry it takes out, and no other's.
LEMMA EvictInv ==
  ASSUME CacheInv, NEW t \in Threads, Evict(t)
  PROVE  CacheInv'
<1> DEFINE old == order[Len(order)]
<1>1. /\ old \in DOMAIN entries /\ order' \in Seq(EntryKeys) /\ Distinct(order')
      /\ Members(order') = DOMAIN entries \ {old}
  BY PopMembers DEF Evict, CacheInv, TypeInv, ListInv
<1> HIDE DEF old
<1>2. /\ DOMAIN entries' = DOMAIN entries \ {old}
      /\ \A k \in DOMAIN entries' : entries'[k] = entries[k]
  BY DEF Evict, old
<1>3. heap' = [heap EXCEPT ![entries[old].data] = Free] /\ UNCHANGED <<mutex, thr>>
  BY DEF Evict, old
<1>4. Loading' = Loading
  BY <1>3 DEF Loading
<1>5. TypeInv'
  BY <1>1, <1>2, <1>3 DEF CacheInv, TypeInv
<1>6. MissInv'
  BY <1>2, <1>3 DEF CacheInv, MissInv, Has
<1>7. ListInv'
  BY <1>1, <1>2 DEF ListInv
<1>8. HeapInv'
  <2>1. \A k, l \in DOMAIN entries' : entries'[k].data = entries'[l].data => k = l
    BY <1>2 DEF CacheInv, HeapInv
  <2>2. \A k \in DOMAIN entries' : entries'[k].data \notin Loading'
    BY <1>2, <1>4 DEF CacheInv, HeapInv
  <2>3. ASSUME NEW a \in Addrs PROVE heap'[a] # Free <=> Owned(a)'
    <3>1. CASE a = entries[old].data
      <4>1. heap'[a] = Free
        BY <1>3, <3>1 DEF CacheInv, TypeInv
      <4>2. a \notin Loading' /\ \A k \in DOMAIN entries' : entries'[k].data # a
        BY <1>1, <1>2, <1>4, <3>1 DEF CacheInv, HeapInv
      <4>3. QED
        BY <4>1, <4>2 DEF Owned
    <3>2. CASE a # entries[old].data
      <4>1. heap'[a] = heap[a]
        BY <1>3, <3>2 DEF CacheInv, TypeInv
      <4>2. (\E k \in DOMAIN entries' : entries'[k].data = a) <=> \E k \in DOMAIN entries : entries[k].data = a
        BY <1>2, <3>2
      <4>3. QED
        BY <1>4, <4>1, <4>2 DEF CacheInv, HeapInv, Owned
    <3>3. QED
      BY <3>1, <3>2
  <2>4. QED
    BY <2>1, <2>2, <2>3 DEF HeapInv
<1>9. QED
  BY <1>5, <1>6, <1>7, <1>8 DEF CacheInv

\* A load takes a free buffer, ...
LEMMA AllocForLoadInv ==
  ASSUME CacheInv, NEW t \in Threads, NEW a \in Addrs, AllocForLoad(t, a)
  PROVE  CacheInv'
<1> DEFINE r == [thr[t] EXCEPT !.pc = "load", !.buf = a]
<1>1. thr[t] \in Local /\ thr[t].pc = "evict" /\ mutex = t /\ heap[a] = Free
  BY DEF AllocForLoad, Evicted, CacheInv, TypeInv, MissInv
<1>2. r \in Local /\ r.pc = "load" /\ r.buf = a /\ r.key = thr[t].key
  BY <1>1 DEF Local, PCs
<1>3. thr' = [thr EXCEPT ![t] = r]
  BY DEF AllocForLoad
<1> HIDE DEF r
<1>4. thr'[t] = r /\ \A u \in Threads : u # t => thr'[u] = thr[u]
  BY <1>3 DEF CacheInv, TypeInv
<1>5. UNCHANGED <<entries, order, mutex>> /\ heap' = [heap EXCEPT ![a] = Junk]
  BY DEF AllocForLoad
<1>6. Loading' = Loading \cup {a}
  <2>1. \A u \in Threads : thr'[u].pc = "load" <=> (thr[u].pc = "load" \/ u = t)
    BY <1>1, <1>2, <1>4
  <2>2. \A u \in Threads : thr[u].pc = "load" => thr'[u].buf = thr[u].buf
    BY <1>1, <1>4
  <2>3. thr'[t].buf = a
    BY <1>2, <1>4
  <2>4. QED
    BY <2>1, <2>2, <2>3 DEF Loading
<1>7. TypeInv'
  BY <1>2, <1>3, <1>5 DEF CacheInv, TypeInv
<1>8. MissInv'
  BY <1>1, <1>2, <1>4, <1>5 DEF CacheInv, MissInv, Has
<1>9. ListInv'
  BY <1>5 DEF CacheInv, ListInv
<1>10. HeapInv'
  <2>1. \A k \in DOMAIN entries : entries[k].data # a
    BY <1>1 DEF CacheInv, HeapInv, Owned
  <2>2. Junk # Free
    BY LlamaAssumption
  <2>3. \A b \in Addrs : heap'[b] = IF b = a THEN Junk ELSE heap[b]
    BY <1>5 DEF CacheInv, TypeInv
  <2>4. \A b \in Addrs : heap'[b] # Free <=> Owned(b)'
    BY <1>5, <1>6, <2>2, <2>3 DEF CacheInv, HeapInv, Owned
  <2>5. QED
    BY <1>5, <1>6, <2>1, <2>4 DEF CacheInv, HeapInv
<1>11. QED
  BY <1>7, <1>8, <1>9, <1>10 DEF CacheInv

\* Whoever loads holds the mutex: no other does.
LEMMA LoadsAlone ==
  ASSUME CacheInv, NEW t \in Threads, thr[t].pc = "load", thr' = [thr EXCEPT ![t] = Idle]
  PROVE  /\ Loading = {thr[t].buf} /\ Loading' = {}
         /\ thr'[t] = Idle /\ \A u \in Threads : u # t => thr'[u] = thr[u] /\ thr[u].pc # "load"
<1>1. \A u \in Threads : thr[u].pc = "load" => mutex = u
  BY DEF CacheInv, MissInv
<1>2. \A u \in Threads : thr[u].pc = "load" <=> u = t
  BY <1>1
<1>3. thr'[t] = Idle /\ \A u \in Threads : u # t => thr'[u] = thr[u]
  BY DEF CacheInv, TypeInv
<1>4. \A u \in Threads : thr'[u].pc # "load"
  BY <1>2, <1>3 DEF Idle
<1>5. QED
  BY <1>2, <1>3, <1>4 DEF Loading

\* ... which becomes an entry's when it is read, ...
LEMMA LoadInv ==
  ASSUME CacheInv, NEW t \in Threads, Load(t)
  PROVE  CacheInv'
<1> DEFINE k == thr[t].key
           a == thr[t].buf
<1>1. k \in EntryKeys /\ a \in Addrs /\ ~Has(k) /\ mutex = t
  BY DEF Load, CacheInv, MissInv
<1>2. ListInv' /\ order' \in Seq(EntryKeys)
  BY <1>1, InsertList DEF Load
<1>3. /\ DOMAIN entries' = DOMAIN entries \cup {k} /\ entries'[k].data = a
      /\ \A x \in DOMAIN entries : entries'[x] = entries[x]
  BY <1>1 DEF Load, Insert, Has
<1>4. /\ Loading = {a} /\ Loading' = {}
      /\ thr'[t] = Idle /\ \A u \in Threads : u # t => thr'[u] = thr[u] /\ thr[u].pc # "load"
  BY LoadsAlone DEF Load
<1>5. heap' = [heap EXCEPT ![a] = k] /\ mutex' = Null
  BY DEF Load
<1>6. TypeInv'
  BY <1>1, <1>2, <1>3, <1>5, IdleIsLocal DEF Load, CacheInv, TypeInv
<1>7. MissInv'
  <2>1. \A u \in Threads : u # t => thr[u].pc # "evict"
    BY <1>1 DEF CacheInv, MissInv
  <2>2. QED
    BY <1>4, <2>1 DEF CacheInv, MissInv, Idle
<1> HIDE DEF k, a
<1>8. HeapInv'
  <2>1. heap[a] # Free /\ \A x \in DOMAIN entries : entries[x].data # a
    BY <1>1, <1>4 DEF CacheInv, HeapInv, Owned
  <2>2. k # Free
    BY <1>1, LlamaAssumption
  <2>3. \A b \in Addrs : heap'[b] = IF b = a THEN k ELSE heap[b]
    BY <1>5 DEF CacheInv, TypeInv
  <2>4. \A b \in Addrs : Owned(b)' <=> Owned(b)
    BY <1>3, <1>4 DEF Owned
  <2>5. \A b \in Addrs : heap'[b] # Free <=> Owned(b)'
    BY <2>1, <2>2, <2>3, <2>4 DEF CacheInv, HeapInv
  <2>6. \A x, y \in DOMAIN entries' : entries'[x].data = entries'[y].data => x = y
    BY <1>3, <2>1 DEF CacheInv, HeapInv
  <2>7. QED
    BY <1>4, <2>5, <2>6 DEF HeapInv
<1>9. QED
  BY <1>2, <1>6, <1>7, <1>8 DEF CacheInv

\* ... and is freed when it cannot be.
LEMMA LoadFailsInv ==
  ASSUME CacheInv, NEW t \in Threads, LoadFails(t)
  PROVE  CacheInv'
<1> DEFINE a == thr[t].buf
<1>1. a \in Addrs /\ mutex = t
  BY DEF LoadFails, CacheInv, MissInv
<1>2. /\ Loading = {a} /\ Loading' = {}
      /\ thr'[t] = Idle /\ \A u \in Threads : u # t => thr'[u] = thr[u] /\ thr[u].pc # "load"
  BY LoadsAlone DEF LoadFails
<1>3. heap' = [heap EXCEPT ![a] = Free] /\ mutex' = Null /\ UNCHANGED <<entries, order>>
  BY DEF LoadFails
<1>4. TypeInv'
  BY <1>1, <1>3, IdleIsLocal DEF LoadFails, CacheInv, TypeInv
<1>5. MissInv'
  <2>1. \A u \in Threads : u # t => thr[u].pc # "evict"
    BY <1>1 DEF CacheInv, MissInv
  <2>2. QED
    BY <1>2, <1>3, <2>1 DEF CacheInv, MissInv, Idle, Has
<1>6. ListInv'
  BY <1>3 DEF CacheInv, ListInv
<1> HIDE DEF a
<1>7. HeapInv'
  <2>1. \A b \in Addrs : heap'[b] = IF b = a THEN Free ELSE heap[b]
    BY <1>3 DEF CacheInv, TypeInv
  <2>2. \A x \in DOMAIN entries : entries[x].data # a
    BY <1>2 DEF CacheInv, HeapInv
  <2>3. \A b \in Addrs : heap'[b] # Free <=> Owned(b)'
    BY <1>2, <1>3, <2>1, <2>2 DEF CacheInv, HeapInv, Owned
  <2>4. QED
    BY <1>2, <1>3, <2>3 DEF CacheInv, HeapInv
<1>8. QED
  BY <1>4, <1>5, <1>6, <1>7 DEF CacheInv

\* A slot of build_active_buffer is an entry before it is filled.
LEMMA AllocSlotInv ==
  ASSUME CacheInv, NEW t \in Threads, NEW a \in Addrs, AllocSlot(t, a)
  PROVE  CacheInv'
<1> DEFINE k == thr[t].key
           r == [thr[t] EXCEPT !.pc = "fill", !.buf = a]
<1>1. thr[t] \in Local /\ thr[t].pc = "evict" /\ thr[t].op = "build" /\ mutex = t /\ heap[a] = Free
  BY DEF AllocSlot, Evicted, CacheInv, TypeInv, MissInv
<1>2. k \in EntryKeys /\ ~Has(k) /\ thr[t].todo # <<>>
  BY <1>1 DEF CacheInv, MissInv
<1>3. r \in Local /\ r.pc = "fill" /\ r.buf = a /\ r.key = k /\ r.todo # <<>>
  BY <1>1, <1>2 DEF Local, PCs
<1>4. thr' = [thr EXCEPT ![t] = r]
  BY DEF AllocSlot
<1>5. ListInv' /\ order' \in Seq(EntryKeys)
  BY <1>2, InsertList DEF AllocSlot
<1>6. /\ DOMAIN entries' = DOMAIN entries \cup {k} /\ entries'[k].data = a
      /\ \A x \in DOMAIN entries : entries'[x] = entries[x]
  BY <1>2 DEF AllocSlot, Insert, Has
<1>7. heap' = [heap EXCEPT ![a] = Junk] /\ mutex' = Null
  BY DEF AllocSlot
<1> HIDE DEF r
<1>8. thr'[t] = r /\ \A u \in Threads : u # t => thr'[u] = thr[u]
  BY <1>4 DEF CacheInv, TypeInv
<1>9. Loading' = Loading
  BY <1>1, <1>3, <1>8, SameLoading
<1>10. TypeInv'
  BY <1>3, <1>4, <1>5, <1>6, <1>7 DEF CacheInv, TypeInv
<1>11. MissInv'
  <2>1. \A u \in Threads : u # t => thr[u].pc \notin {"evict", "load"}
    BY <1>1 DEF CacheInv, MissInv
  <2>2. QED
    BY <1>2, <1>3, <1>8, <2>1 DEF CacheInv, MissInv
<1> HIDE DEF k
<1>12. HeapInv'
  <2>1. ~Owned(a)
    BY <1>1 DEF CacheInv, HeapInv
  <2>2. Junk # Free
    BY LlamaAssumption
  <2>3. \A b \in Addrs : heap'[b] = IF b = a THEN Junk ELSE heap[b]
    BY <1>7 DEF CacheInv, TypeInv
  <2>4. \A b \in Addrs : Owned(b)' <=> (Owned(b) \/ b = a)
    BY <1>6, <1>9 DEF Owned
  <2>5. \A b \in Addrs : heap'[b] # Free <=> Owned(b)'
    BY <2>2, <2>3, <2>4 DEF CacheInv, HeapInv
  <2>6. \A x \in DOMAIN entries : entries[x].data # a
    BY <2>1 DEF Owned
  <2>7. \A x, y \in DOMAIN entries' : entries'[x].data = entries'[y].data => x = y
    BY <1>6, <2>6 DEF CacheInv, HeapInv
  <2>8. \A x \in DOMAIN entries' : entries'[x].data \notin Loading'
    BY <1>6, <1>9, <2>1 DEF CacheInv, HeapInv, Owned
  <2>9. QED
    BY <2>5, <2>7, <2>8 DEF HeapInv
<1>13. QED
  BY <1>5, <1>10, <1>11, <1>12 DEF CacheInv

\* A write into a slot outside the mutex frees and takes no buffer.
LEMMA FillInv ==
  ASSUME CacheInv, NEW t \in Threads, Fill(t)
  PROVE  CacheInv'
<1> DEFINE r == [thr[t] EXCEPT !.pc = "copy"]
           a == thr[t].buf
<1>1. thr[t] \in Local /\ thr[t].pc = "fill" /\ a \in Addrs /\ thr[t].key \in EntryKeys /\ thr[t].todo # <<>>
  BY DEF Fill, CacheInv, TypeInv, MissInv
<1>2. r \in Local /\ r.pc = "copy" /\ r.todo # <<>>
  BY <1>1 DEF Local, PCs
<1>3. thr' = [thr EXCEPT ![t] = r]
  BY DEF Fill
<1> HIDE DEF r
<1>4. thr'[t] = r /\ \A u \in Threads : u # t => thr'[u] = thr[u]
  BY <1>3 DEF CacheInv, TypeInv
<1>5. Loading' = Loading
  BY <1>1, <1>2, <1>4, SameLoading
<1>6. UNCHANGED <<entries, order, mutex>> /\ heap' = [heap EXCEPT ![a] = IF heap[a] = Free THEN Free ELSE thr[t].key]
  BY DEF Fill
<1>7. thr[t].key # Free
  BY <1>1, LlamaAssumption
<1>8. \A b \in Addrs : heap'[b] # Free <=> heap[b] # Free
  BY <1>6, <1>7 DEF CacheInv, TypeInv
<1>9. TypeInv'
  BY <1>1, <1>2, <1>3, <1>6 DEF CacheInv, TypeInv
<1>10. MissInv'
  BY <1>2, <1>4, <1>6 DEF CacheInv, MissInv, Has
<1>11. ListInv' /\ HeapInv'
  BY <1>5, <1>6, <1>8 DEF CacheInv, ListInv, HeapInv, Owned
<1>12. QED
  BY <1>9, <1>10, <1>11 DEF CacheInv

\* The destructor frees every buffer once.
LEMMA DestroyInv ==
  ASSUME CacheInv, Destroy
  PROVE  CacheInv'
<1>1. Loading = {} /\ Loading' = {}
  BY DEF Destroy, Loading, Idle
<1>2. DOMAIN entries' = {} /\ DOMAIN order' = {} /\ order' = <<>>
  BY DEF Destroy
<1>3. \A a \in Addrs : heap'[a] = Free
  BY <1>1 DEF Destroy, CacheInv, HeapInv, Owned
<1>4. heap' \in [Addrs -> EntryKeys \cup {Free, Junk}]
  BY DEF Destroy, CacheInv, TypeInv
<1>5. TypeInv'
  BY <1>2, <1>4, EmptySeq DEF Destroy, CacheInv, TypeInv
<1>6. MissInv'
  BY DEF Destroy, MissInv, Idle
<1>7. ListInv' /\ HeapInv'
  BY <1>1, <1>2, <1>3 DEF ListInv, HeapInv, Owned, Members, Distinct
<1>8. QED
  BY <1>5, <1>6, <1>7 DEF CacheInv

LEMMA CacheInvStep == CacheInv /\ [Next]_vars => CacheInv'
<1>1. SUFFICES ASSUME CacheInv, [Next]_vars PROVE CacheInv'
  OBVIOUS
<1>2. CASE UNCHANGED vars
  BY <1>1, <1>2 DEF vars, cacheVars, CacheInv, TypeInv, MissInv, ListInv, HeapInv, Owned, Has, Loading
<1>3. CASE Destroy
  BY <1>1, <1>3, DestroyInv
<1>4. ASSUME NEW t \in Threads, NEW k \in EntryKeys, Touch(t, k) \/ Ensure(t, k) PROVE CacheInv'
  BY <1>1, <1>4, TouchInv, EnsureInv
<1>5. ASSUME NEW t \in Threads, NEW x \in Tensors, NEW ids \in IdLists, Build(t, x, ids) PROVE CacheInv'
  BY <1>1, <1>5, BuildInv
<1>6. ASSUME NEW t \in Threads, NEW a \in Addrs, AllocForLoad(t, a) \/ AllocSlot(t, a) PROVE CacheInv'
  BY <1>1, <1>6, AllocForLoadInv, AllocSlotInv
<1>7. ASSUME NEW t \in Threads,
             \/ SkipId(t) \/ Copy(t) \/ Built(t) \/ CallbackReturns(t)
             \/ \E x \in Tensors, ids \in IdLists : Callback(t, x, ids)
      PROVE  CacheInv'
  BY <1>1, <1>7, OutsideInv
<1>8. ASSUME NEW t \in Threads,
             GetOrAlloc(t) \/ Evict(t) \/ Load(t) \/ LoadFails(t) \/ AllocFails(t) \/ Fill(t)
      PROVE  CacheInv'
  BY <1>1, <1>8, GetOrAllocInv, EvictInv, LoadInv, LoadFailsInv, AllocFailsInv, FillInv
<1>9. QED
  BY <1>1, <1>2, <1>3, <1>4, <1>5, <1>6, <1>7, <1>8 DEF Next

LEMMA CacheInvHolds == Spec => []CacheInv
BY InitCacheInv, CacheInvStep, PTL DEF Spec

\* Whatever the threads do, whatever allocations and reads fail and however small
\* the budget: every buffer in use has exactly one owner.
THEOREM BuffersAreOwnedOnce == Spec => []BuffersOwnedOnce
<1>1. CacheInv => BuffersOwnedOnce
  BY CacheInvOwns
<1>2. QED
  BY <1>1, CacheInvHolds, PTL

-----------------------------------------------------------------------------
(* Functions defined by recursion on a number.                             *)

\* What holds of 0, and of i when of i - 1, holds up to n.
LEMMA UpTo ==
  ASSUME NEW n \in Nat, NEW G, 0 \in G, \A i \in 1 .. n : i - 1 \in G => i \in G
  PROVE  0 .. n \subseteq G
<1> DEFINE D == {i \in 0 .. n : i \notin G}
<1>1. SUFFICES ASSUME D # {} PROVE FALSE
  OBVIOUS
<1>2. D \subseteq Nat
  OBVIOUS
<1>3. PICK d \in D : \A y \in D : ~(<<y, d>> \in OpToRel(<, Nat))
  BY <1>1, <1>2, NatLessThanWellFounded, WFMin
<1>4. d \in 1 .. n /\ d \notin G
  OBVIOUS
<1>5. d - 1 \in G
  <2>1. SUFFICES ASSUME d - 1 \notin G PROVE FALSE
    OBVIOUS
  <2>2. d - 1 \in D /\ d - 1 < d /\ d - 1 \in Nat /\ d \in Nat
    BY <1>4, <2>1
  <2> HIDE DEF D
  <2>3. QED
    BY <1>3, <2>2 DEF OpToRel
<1>6. QED
  BY <1>4, <1>5

LEMMA NeededIsNat ==
  ASSUME NEW k \in EntryKeys
  PROVE  Needed(k) \in Nat
<1>1. k[1] \in Tensors
  BY DEF EntryKeys
<1>2. PICK s \in Nat : s = Stride[k[1]]
  BY <1>1, LlamaAssumption
<1>3. PICK p \in Nat \ {0} : p = Page
  BY LlamaAssumption
<1>4. (s + p - 1) \div p \in Nat
  BY <1>2, <1>3
<1>5. QED
  BY <1>2, <1>3, <1>4 DEF Needed, Aligned

LEMMA TotalExists ==
  ASSUME NEW s \in Seq(EntryKeys)
  PROVE  \E f : f = [n \in 0 .. Len(s) |-> IF n = 0 THEN 0 ELSE f[n - 1] + Needed(s[n])]
<1> DEFINE P(n) == \E f : f = [m \in 0 .. n |-> IF m = 0 THEN 0 ELSE f[m - 1] + Needed(s[m])]
           G == {n \in 0 .. Len(s) : P(n)}
<1>1. Len(s) \in Nat
  BY LenProperties
<1>2. P(0)
  <2> DEFINE f == [m \in 0 .. 0 |-> 0]
  <2>1. f = [m \in 0 .. 0 |-> IF m = 0 THEN 0 ELSE f[m - 1] + Needed(s[m])]
    OBVIOUS
  <2>2. QED
    BY <2>1
<1>3. ASSUME NEW i \in 1 .. Len(s), P(i - 1) PROVE P(i)
  <2>1. PICK f : f = [m \in 0 .. i - 1 |-> IF m = 0 THEN 0 ELSE f[m - 1] + Needed(s[m])]
    BY <1>3
  <2> DEFINE g == [m \in 0 .. i |-> IF m = 0 THEN 0 ELSE f[m - 1] + Needed(s[m])]
  <2>2. \A m \in 0 .. i : g[m] = IF m = 0 THEN 0 ELSE f[m - 1] + Needed(s[m])
    OBVIOUS
  <2>3. \A m \in 0 .. i - 1 : f[m] = IF m = 0 THEN 0 ELSE f[m - 1] + Needed(s[m])
    BY <2>1
  <2> HIDE DEF g
  <2>4. ASSUME NEW m \in 0 .. i - 1 PROVE g[m] = f[m]
    <3>1. m \in 0 .. i
      OBVIOUS
    <3>2. QED
      BY <2>2, <2>3, <3>1
  <2>5. \A m \in 0 .. i : m # 0 => m - 1 \in 0 .. i - 1
    OBVIOUS
  <2>6. \A m \in 0 .. i : m # 0 => g[m - 1] = f[m - 1]
    BY <2>4, <2>5
  <2>7. g = [m \in 0 .. i |-> IF m = 0 THEN 0 ELSE g[m - 1] + Needed(s[m])]
    BY <2>6 DEF g
  <2>8. QED
    BY <2>7
<1> HIDE DEF P
<1>4. 0 \in G /\ \A i \in 1 .. Len(s) : i - 1 \in G => i \in G
  BY <1>1, <1>2, <1>3
<1>5. Len(s) \in G
  <2>1. 0 .. Len(s) \subseteq G
    BY <1>1, <1>4, UpTo
  <2>2. QED
    BY <1>1, <2>1
<1>6. QED
  BY <1>5 DEF P

\* The total of no keys is 0, and each key adds its own bytes.
LEMMA TotalSteps ==
  ASSUME NEW s \in Seq(EntryKeys)
  PROVE  /\ Total(s)[0] = 0
         /\ \A i \in 1 .. Len(s) : Total(s)[i] = Total(s)[i - 1] + Needed(s[i])
         /\ \A i \in 0 .. Len(s) : Total(s)[i] \in Nat
<1> DEFINE f == Total(s)
           G == {i \in 0 .. Len(s) : f[i] \in Nat}
<1>1. Len(s) \in Nat /\ \A i \in 1 .. Len(s) : s[i] \in EntryKeys
  BY LenProperties, ElementOfSeq
<1>2. f = [n \in 0 .. Len(s) |-> IF n = 0 THEN 0 ELSE f[n - 1] + Needed(s[n])]
  BY TotalExists DEF Total
<1> HIDE DEF f
<1>3. f[0] = 0 /\ \A i \in 1 .. Len(s) : f[i] = f[i - 1] + Needed(s[i])
  BY <1>1, <1>2
<1>4. 0 \in G
  BY <1>1, <1>3
<1>5. ASSUME NEW i \in 1 .. Len(s), i - 1 \in G PROVE i \in G
  BY <1>1, <1>3, <1>5, NeededIsNat
<1>6. 0 .. Len(s) \subseteq G
  BY <1>1, <1>4, <1>5, UpTo
<1>7. QED
  BY <1>3, <1>6 DEF f

\* Lists that begin alike count alike.
LEMMA TotalAgree ==
  ASSUME NEW s \in Seq(EntryKeys), NEW t \in Seq(EntryKeys), NEW n \in Nat, n <= Len(s), n <= Len(t),
         \A i \in 1 .. n : s[i] = t[i]
  PROVE  \A i \in 0 .. n : Total(s)[i] = Total(t)[i]
<1> DEFINE G == {i \in 0 .. n : Total(s)[i] = Total(t)[i]}
<1>1. Len(s) \in Nat /\ Len(t) \in Nat
  BY LenProperties
<1>2. 0 \in G
  BY TotalSteps
<1>3. ASSUME NEW i \in 1 .. n, i - 1 \in G PROVE i \in G
  <2>1. i \in 1 .. Len(s) /\ i \in 1 .. Len(t)
    BY <1>1
  <2>2. Total(s)[i] = Total(s)[i - 1] + Needed(s[i]) /\ Total(t)[i] = Total(t)[i - 1] + Needed(t[i])
    BY <2>1, TotalSteps
  <2>3. QED
    BY <1>3, <2>2
<1>4. 0 .. n \subseteq G
  BY <1>2, <1>3, UpTo
<1>5. QED
  BY <1>4

\* A list moved back by a key of n bytes counts n more.
LEMMA TotalShift ==
  ASSUME NEW s \in Seq(EntryKeys), NEW t \in Seq(EntryKeys), NEW n \in Nat, n <= Len(s), n + 1 <= Len(t),
         \A i \in 1 .. n : t[i + 1] = s[i]
  PROVE  \A i \in 0 .. n : Total(t)[i + 1] = Needed(t[1]) + Total(s)[i]
<1> DEFINE G == {i \in 0 .. n : Total(t)[i + 1] = Needed(t[1]) + Total(s)[i]}
<1>1. Len(s) \in Nat /\ Len(t) \in Nat /\ 1 \in 1 .. Len(t) /\ t[1] \in EntryKeys
  BY LenProperties, ElementOfSeq
<1>2. 0 \in G
  <2>1. Total(t)[1] = Total(t)[1 - 1] + Needed(t[1]) /\ Total(t)[0] = 0 /\ Total(s)[0] = 0
    BY <1>1, TotalSteps
  <2>2. Needed(t[1]) \in Nat
    BY <1>1, NeededIsNat
  <2>3. QED
    BY <2>1, <2>2
<1>3. ASSUME NEW i \in 1 .. n, i - 1 \in G PROVE i \in G
  <2>1. i \in 1 .. Len(s) /\ i + 1 \in 1 .. Len(t) /\ i - 1 \in 0 .. Len(s)
    BY <1>1
  <2>2. /\ Total(s)[i] = Total(s)[i - 1] + Needed(s[i])
        /\ Total(t)[i + 1] = Total(t)[i + 1 - 1] + Needed(t[i + 1])
        /\ Total(s)[i - 1] \in Nat
    BY <2>1, TotalSteps
  <2>3. Needed(t[1]) \in Nat /\ Needed(s[i]) \in Nat
    BY <1>1, <2>1, NeededIsNat, ElementOfSeq
  <2>4. Total(t)[i + 1 - 1] = Total(t)[i - 1 + 1]
    OBVIOUS
  <2>5. QED
    BY <1>3, <2>2, <2>3, <2>4
<1>4. 0 .. n \subseteq G
  BY <1>2, <1>3, UpTo
<1>5. QED
  BY <1>4

-----------------------------------------------------------------------------
(* The budget.                                                             *)

\* An expert fits beside the others, or is alone.
Fits(k) == used + Needed(k) <= MaxBytes \/ order = <<>>

\* What a load was made room for stays free until it is in.
RoomKept == \A t \in Threads : thr[t].pc = "load" => Fits(thr[t].key)

BudgetInv == WithinBudget /\ RoomKept

\* The order a hit leaves counts what it counted.
LEMMA FrontTotal ==
  ASSUME order \in Seq(EntryKeys), Distinct(order), NEW k \in EntryKeys, k \in Members(order)
  PROVE  /\ Len(ToFront(k)) = Len(order)
         /\ Total(ToFront(k))[Len(order)] = Total(order)[Len(order)]
<1> DEFINE at == CHOOSE i \in DOMAIN order : order[i] = k
           f == [i \in 1 .. Len(order) |-> IF i = 1 THEN k ELSE IF i <= at THEN order[i - 1] ELSE order[i]]
<1>1. at \in DOMAIN order /\ order[at] = k
  BY DEF Members
<1>2. ToFront(k) = f /\ f \in Seq(EntryKeys)
  BY FrontMembers DEF ToFront
<1> HIDE DEF at
<1>3. DOMAIN order = 1 .. Len(order) /\ Len(order) \in Nat /\ at \in 1 .. Len(order)
  BY <1>1, LenProperties
<1>4. DOMAIN f = 1 .. Len(order) /\ Len(f) = Len(order)
  BY <1>2, <1>3, LenProperties
<1>5. /\ f[1] = k
      /\ \A i \in 2 .. at : f[i] = order[i - 1]
      /\ \A i \in at + 1 .. Len(order) : f[i] = order[i]
  BY <1>3
<1> HIDE DEF f
<1>6. \A i \in 0 .. at - 1 : Total(f)[i + 1] = Needed(f[1]) + Total(order)[i]
  <2>1. \A i \in 1 .. at - 1 : f[i + 1] = order[i]
    <3>1. \A i \in 1 .. at - 1 : i + 1 \in 2 .. at /\ (i + 1) - 1 = i
      BY <1>3
    <3>2. QED
      BY <1>5, <3>1
  <2>2. at - 1 \in Nat /\ at - 1 <= Len(order) /\ (at - 1) + 1 <= Len(f)
    BY <1>3, <1>4
  <2>3. QED
    BY <1>2, <2>1, <2>2, TotalShift
<1>7. Total(f)[at] = Total(order)[at]
  <2>1. at - 1 \in 0 .. at - 1 /\ (at - 1) + 1 = at
    BY <1>3
  <2>2. Total(f)[at] = Needed(k) + Total(order)[at - 1]
    BY <1>5, <1>6, <2>1
  <2>3. Total(order)[at] = Total(order)[at - 1] + Needed(k) /\ Total(order)[at - 1] \in Nat
    <3>1. at - 1 \in 0 .. Len(order)
      BY <1>3
    <3>2. QED
      BY <1>1, <1>3, <3>1, TotalSteps
  <2>4. Needed(k) \in Nat
    BY NeededIsNat
  <2>5. QED
    BY <2>2, <2>3, <2>4
<1> DEFINE G == {i \in 0 .. Len(order) : i < at \/ Total(f)[i] = Total(order)[i]}
<1>8. 0 \in G
  BY <1>3
<1>9. ASSUME NEW i \in 1 .. Len(order), i - 1 \in G PROVE i \in G
  <2>1. CASE i <= at
    BY <1>3, <1>7, <2>1
  <2>2. CASE i > at
    <3>1. Total(f)[i - 1] = Total(order)[i - 1] /\ i \in at + 1 .. Len(order)
      BY <1>3, <1>9, <2>2
    <3>2. Total(f)[i] = Total(f)[i - 1] + Needed(f[i]) /\ Total(order)[i] = Total(order)[i - 1] + Needed(order[i])
      BY <1>2, <1>4, TotalSteps
    <3>3. f[i] = order[i]
      BY <1>5, <3>1
    <3>4. QED
      BY <3>1, <3>2, <3>3
  <2>3. QED
    BY <1>3, <2>1, <2>2
<1>10. Len(order) \in G
  <2>1. 0 .. Len(order) \subseteq G
    BY <1>3, <1>8, <1>9, UpTo
  <2>2. QED
    BY <1>3, <2>1
<1>11. Total(f)[Len(order)] = Total(order)[Len(order)]
  BY <1>3, <1>7, <1>10
<1>12. QED
  BY <1>2, <1>4, <1>11

\* A new key adds its bytes, ...
LEMMA PushTotal ==
  ASSUME NEW s \in Seq(EntryKeys), NEW k \in EntryKeys
  PROVE  /\ Len(<<k>> \o s) = Len(s) + 1
         /\ Total(<<k>> \o s)[Len(s) + 1] = Total(s)[Len(s)] + Needed(k)
<1> DEFINE f == <<k>> \o s
<1>1. <<k>> \in Seq(EntryKeys) /\ Len(<<k>>) = 1 /\ <<k>>[1] = k /\ Len(s) \in Nat
  BY LenProperties
<1>2. f \in Seq(EntryKeys) /\ Len(f) = 1 + Len(s) /\ \A i \in 1 .. 1 + Len(s) : f[i] = IF i <= 1 THEN <<k>>[i] ELSE s[i - 1]
  BY <1>1, ConcatProperties
<1> HIDE DEF f
<1>3. f[1] = k /\ \A i \in 1 .. Len(s) : f[i + 1] = s[i]
  BY <1>1, <1>2
<1>4. \A i \in 0 .. Len(s) : Total(f)[i + 1] = Needed(f[1]) + Total(s)[i]
  BY <1>1, <1>2, <1>3, TotalShift
<1>5. Total(s)[Len(s)] \in Nat /\ Needed(k) \in Nat
  BY <1>1, TotalSteps, NeededIsNat
<1>6. Total(f)[Len(s) + 1] = Total(s)[Len(s)] + Needed(k)
  BY <1>1, <1>3, <1>4, <1>5
<1>7. QED
  BY <1>1, <1>2, <1>6 DEF f

\* ... and the last one takes its own away.
LEMMA PopTotal ==
  ASSUME NEW s \in Seq(EntryKeys), s # <<>>, NEW f, f = SubSeq(s, 1, Len(s) - 1)
  PROVE  /\ f \in Seq(EntryKeys) /\ Len(f) = Len(s) - 1 /\ Len(s) \in Nat \ {0} /\ s[Len(s)] \in EntryKeys
         /\ Total(f)[Len(f)] \in Nat
         /\ Total(s)[Len(s)] = Total(f)[Len(f)] + Needed(s[Len(s)])
<1>1. DOMAIN s = 1 .. Len(s) /\ Len(s) \in Nat \ {0} /\ \A i \in 1 .. Len(s) : s[i] \in EntryKeys
  BY LenProperties, EmptySeq, ElementOfSeq
<1>2. f \in Seq(EntryKeys) /\ Len(f) = Len(s) - 1 /\ \A i \in 1 .. Len(s) - 1 : f[i] = s[i]
  BY <1>1, SubSeqProperties
<1>3. Total(f)[Len(s) - 1] = Total(s)[Len(s) - 1]
  <2>1. Len(s) - 1 \in Nat /\ Len(s) - 1 <= Len(f) /\ Len(s) - 1 <= Len(s) /\ Len(s) - 1 \in 0 .. Len(s) - 1
    BY <1>1, <1>2
  <2>2. QED
    BY <1>2, <2>1, TotalAgree
<1>4. Len(s) \in 1 .. Len(s) /\ Len(s) - 1 \in 0 .. Len(s)
  BY <1>1
<1>5. Total(s)[Len(s)] = Total(s)[Len(s) - 1] + Needed(s[Len(s)]) /\ Total(s)[Len(s) - 1] \in Nat
  BY <1>4, TotalSteps
<1>6. QED
  BY <1>1, <1>2, <1>3, <1>4, <1>5

\* A step that leaves the entries and begins no load keeps the budget.
LEMMA QuietBudget ==
  ASSUME BudgetInv, UNCHANGED <<entries, order, used>>,
         \A u \in Threads : thr'[u].pc = "load" => thr[u].pc = "load" /\ thr'[u].key = thr[u].key
  PROVE  BudgetInv'
BY DEF BudgetInv, WithinBudget, RoomKept, Fits

LEMMA HitBudget ==
  ASSUME CacheInv, BudgetInv, NEW k \in EntryKeys, HitEntry(k),
         \A u \in Threads : thr'[u].pc = "load" => thr[u].pc = "load" /\ thr'[u].key = thr[u].key
  PROVE  BudgetInv'
<1>1. /\ Len(ToFront(k)) = Len(order)
      /\ Total(ToFront(k))[Len(order)] = Total(order)[Len(order)]
      /\ ToFront(k) \in Seq(EntryKeys) /\ order \in Seq(EntryKeys)
  BY FrontTotal, FrontMembers DEF CacheInv, TypeInv, ListInv, HitEntry, Has
<1>2. order' = ToFront(k) /\ UNCHANGED <<entries, used>>
  BY DEF HitEntry
<1>3. WithinBudget'
  BY <1>1, <1>2 DEF BudgetInv, WithinBudget
<1>4. order' = <<>> <=> order = <<>>
  BY <1>1, <1>2, EmptySeq
<1>5. RoomKept'
  BY <1>2, <1>4 DEF BudgetInv, RoomKept, Fits
<1>6. QED
  BY <1>3, <1>5 DEF BudgetInv

LEMMA EvictBudget ==
  ASSUME CacheInv, BudgetInv, NEW t \in Threads, Evict(t)
  PROVE  BudgetInv'
<1> DEFINE old == order[Len(order)]
<1>1. order \in Seq(EntryKeys) /\ order # <<>> /\ order' = SubSeq(order, 1, Len(order) - 1)
  BY DEF Evict, CacheInv, TypeInv
<1>2. /\ order' \in Seq(EntryKeys) /\ Len(order') = Len(order) - 1 /\ Len(order) \in Nat \ {0} /\ old \in EntryKeys
      /\ Total(order')[Len(order')] \in Nat
      /\ Total(order)[Len(order)] = Total(order')[Len(order')] + Needed(old)
  BY <1>1, PopTotal
<1>3. old \in DOMAIN entries
  BY <1>1, PopMembers DEF CacheInv, ListInv
<1>4. used' = used - entries[old].size
  BY DEF Evict
<1>5. DOMAIN entries' \subseteq DOMAIN entries /\ \A k \in DOMAIN entries' : entries'[k] = entries[k]
  BY DEF Evict
<1> HIDE DEF old
<1>6. Needed(old) \in Nat /\ MaxBytes \in Nat
  BY <1>2, NeededIsNat, LlamaAssumption
<1>7. used = Total(order)[Len(order)] /\ entries[old].size = Needed(old) /\ (used <= MaxBytes \/ Len(order) = 1)
  BY <1>3 DEF BudgetInv, WithinBudget
<1>8. used' = Total(order')[Len(order')]
  BY <1>2, <1>4, <1>6, <1>7
<1>9. used' <= MaxBytes
  <2>1. CASE used <= MaxBytes
    BY <1>2, <1>6, <1>7, <1>8, <2>1
  <2>2. CASE Len(order) = 1
    <3>1. Len(order') = 0
      BY <1>2, <2>2
    <3>2. Total(order')[0] = 0
      BY <1>2, TotalSteps
    <3>3. QED
      BY <1>6, <1>8, <3>1, <3>2
  <2>3. QED
    BY <1>7, <2>1, <2>2
<1>10. WithinBudget'
  BY <1>5, <1>8, <1>9 DEF BudgetInv, WithinBudget
<1>11. RoomKept'
  <2>1. thr' = thr /\ \A u \in Threads : thr[u].pc # "load"
    BY DEF Evict, CacheInv, MissInv
  <2>2. QED
    BY <2>1 DEF RoomKept
<1>12. QED
  BY <1>10, <1>11 DEF BudgetInv

LEMMA InsertBudget ==
  ASSUME CacheInv, BudgetInv, NEW k \in EntryKeys, ~Has(k), Fits(k), NEW a, Insert(k, a),
         \A u \in Threads : thr'[u].pc # "load"
  PROVE  BudgetInv'
<1>1. order \in Seq(EntryKeys) /\ order' = <<k>> \o order
  BY DEF CacheInv, TypeInv, Insert
<1>2. Len(order') = Len(order) + 1 /\ Total(order')[Len(order) + 1] = Total(order)[Len(order)] + Needed(k)
  BY <1>1, PushTotal
<1>3. used' = used + Needed(k)
  BY DEF Insert
<1>4. /\ DOMAIN entries' = DOMAIN entries \cup {k} /\ entries'[k].size = Needed(k)
      /\ \A x \in DOMAIN entries : entries'[x] = entries[x]
  BY DEF Insert, Has
<1>5. used' <= MaxBytes \/ Len(order') = 1
  <2>1. CASE order = <<>>
    BY <1>1, <1>2, <2>1, EmptySeq
  <2>2. QED
    BY <1>3, <2>1 DEF Fits
<1>6. WithinBudget'
  BY <1>2, <1>3, <1>4, <1>5 DEF BudgetInv, WithinBudget
<1>7. QED
  BY <1>6 DEF BudgetInv, RoomKept

\* The loop of evict_until_free has ended: there is room.
LEMMA EvictedFits ==
  ASSUME NEW t \in Threads, Evicted(t)
  PROVE  Fits(thr[t].key)
BY DEF Evicted, Fits

LEMMA AllocForLoadBudget ==
  ASSUME CacheInv, BudgetInv, NEW t \in Threads, NEW a \in Addrs, AllocForLoad(t, a)
  PROVE  BudgetInv'
<1>1. Fits(thr[t].key) /\ UNCHANGED <<entries, order, used>>
  BY EvictedFits DEF AllocForLoad
<1>2. \A u \in Threads : thr'[u].key = thr[u].key /\ (u # t => thr'[u] = thr[u])
  BY DEF AllocForLoad, CacheInv, TypeInv, Local
<1>3. RoomKept'
  BY <1>1, <1>2 DEF BudgetInv, RoomKept, Fits
<1>4. QED
  BY <1>1, <1>3 DEF BudgetInv, WithinBudget

LEMMA LoadBudget ==
  ASSUME CacheInv, BudgetInv, NEW t \in Threads, Load(t)
  PROVE  BudgetInv'
<1>1. thr[t].key \in EntryKeys /\ ~Has(thr[t].key) /\ thr[t].pc = "load"
  BY DEF Load, CacheInv, MissInv
<1>2. Fits(thr[t].key)
  BY <1>1 DEF BudgetInv, RoomKept
<1>3. \A u \in Threads : thr'[u].pc # "load"
  <2>1. thr'[t] = Idle /\ \A u \in Threads : u # t => thr'[u] = thr[u] /\ thr[u].pc # "load"
    BY <1>1, LoadsAlone DEF Load
  <2>2. QED
    BY <2>1 DEF Idle
<1>4. QED
  BY <1>1, <1>2, <1>3, InsertBudget DEF Load

LEMMA AllocSlotBudget ==
  ASSUME CacheInv, BudgetInv, NEW t \in Threads, NEW a \in Addrs, AllocSlot(t, a)
  PROVE  BudgetInv'
<1>1. thr[t].pc = "evict" /\ Fits(thr[t].key)
  BY EvictedFits DEF AllocSlot, Evicted
<1>2. mutex = t /\ thr[t].key \in EntryKeys /\ ~Has(thr[t].key)
  BY <1>1 DEF CacheInv, MissInv
<1>3. \A u \in Threads : thr'[u].pc # "load"
  <2>1. \A u \in Threads : thr[u].pc # "load"
    BY <1>1, <1>2 DEF CacheInv, MissInv
  <2>2. thr'[t].pc = "fill" /\ \A u \in Threads : u # t => thr'[u] = thr[u]
    BY DEF AllocSlot, CacheInv, TypeInv, Local
  <2>3. QED
    BY <2>1, <2>2
<1>4. QED
  BY <1>1, <1>2, <1>3, InsertBudget DEF AllocSlot

LEMMA EmptyBudget ==
  ASSUME DOMAIN entries' = {}, order' = <<>>, used' = 0, \A u \in Threads : thr'[u].pc # "load"
  PROVE  BudgetInv'
<1>1. <<>> \in Seq(EntryKeys) /\ Len(<<>>) = 0
  BY EmptySeq
<1>2. Total(<<>>)[0] = 0
  BY <1>1, TotalSteps
<1>3. used' = Total(order')[Len(order')] /\ used' <= MaxBytes
  BY <1>1, <1>2, LlamaAssumption
<1>4. QED
  BY <1>3 DEF BudgetInv, WithinBudget, RoomKept

LEMMA InitBudget == Init => BudgetInv
<1> SUFFICES ASSUME Init PROVE BudgetInv
  OBVIOUS
<1>1. <<>> \in Seq(EntryKeys) /\ Len(<<>>) = 0
  BY EmptySeq
<1>2. Total(<<>>)[0] = 0
  BY <1>1, TotalSteps
<1>3. used = Total(order)[Len(order)] /\ used <= MaxBytes
  BY <1>1, <1>2, LlamaAssumption DEF Init
<1>4. DOMAIN entries = {} /\ \A t \in Threads : thr[t].pc # "load"
  BY DEF Init, Idle
<1>5. QED
  BY <1>3, <1>4 DEF BudgetInv, WithinBudget, RoomKept

LEMMA BudgetStep ==
  ASSUME CacheInv, BudgetInv, [Next]_vars
  PROVE  BudgetInv'
<1> DEFINE NoNewLoad == \A u \in Threads : thr'[u].pc = "load" => thr[u].pc = "load" /\ thr'[u].key = thr[u].key
<1>1. CASE UNCHANGED vars
  BY <1>1, QuietBudget DEF vars, cacheVars
<1>2. CASE Destroy
  <2>1. DOMAIN entries' = {} /\ order' = <<>> /\ used' = 0 /\ \A u \in Threads : thr'[u].pc # "load"
    BY <1>2 DEF Destroy, Idle
  <2>2. QED
    BY <2>1, EmptyBudget
<1>3. ASSUME NEW t \in Threads, NEW k \in EntryKeys, Touch(t, k) PROVE BudgetInv'
  <2>1. NoNewLoad /\ HitEntry(k)
    BY <1>3 DEF Touch
  <2>2. QED
    BY <2>1, HitBudget
<1>4. ASSUME NEW t \in Threads, NEW k \in EntryKeys, Ensure(t, k) PROVE BudgetInv'
  <2>1. NoNewLoad
    <3>1. \A u \in Threads : u # t => thr'[u] = thr[u]
      BY <1>4 DEF Ensure, CacheInv, TypeInv
    <3>2. thr'[t].pc # "load"
      <4>1. thr[t].pc = "idle"
        BY <1>4 DEF Ensure, Idle
      <4>2. CASE thr' = thr
        BY <4>1, <4>2
      <4>3. CASE thr' = [thr EXCEPT ![t] = [Idle EXCEPT !.pc = "evict", !.op = "ensure", !.key = k]]
        BY <4>3 DEF CacheInv, TypeInv, Idle
      <4>4. QED
        BY <1>4, <4>2, <4>3 DEF Ensure
    <3>3. QED
      BY <3>1, <3>2
  <2>2. CASE HitEntry(k)
    BY <2>1, <2>2, HitBudget
  <2>3. CASE Miss(t, k)
    BY <2>1, <2>3, QuietBudget DEF Miss, cacheVars
  <2>4. QED
    BY <1>4, <2>2, <2>3 DEF Ensure
<1>5. ASSUME NEW t \in Threads, GetOrAlloc(t) PROVE BudgetInv'
  <2> DEFINE k == Head(thr[t].todo)
  <2>1. k \in EntryKeys
    BY <1>5 DEF GetOrAlloc
  <2>2. NoNewLoad
    <3>1. \A u \in Threads : u # t => thr'[u] = thr[u]
      BY <1>5 DEF GetOrAlloc, CacheInv, TypeInv
    <3>2. thr'[t].pc # "load"
      BY <1>5 DEF GetOrAlloc, CacheInv, TypeInv, Local
    <3>3. QED
      BY <3>1, <3>2
  <2>3. CASE HitEntry(k)
    BY <2>1, <2>2, <2>3, HitBudget
  <2>4. CASE Miss(t, k)
    BY <2>2, <2>4, QuietBudget DEF Miss, cacheVars
  <2>5. QED
    BY <1>5, <2>3, <2>4 DEF GetOrAlloc
<1>6. ASSUME NEW t \in Threads,
             \/ SkipId(t) \/ Copy(t) \/ Built(t) \/ CallbackReturns(t) \/ LoadFails(t) \/ AllocFails(t) \/ Fill(t)
             \/ \E x \in Tensors, ids \in IdLists : Build(t, x, ids) \/ Callback(t, x, ids)
      PROVE  BudgetInv'
  <2>1. UNCHANGED <<entries, order, used>>
    BY <1>6 DEF SkipId, Copy, Built, CallbackReturns, LoadFails, AllocFails, Fill, Build, Callback, cacheVars
  <2>2. \A u \in Threads : u # t => thr'[u] = thr[u]
    BY <1>6 DEF SkipId, Copy, Built, CallbackReturns, LoadFails, AllocFails, Fill, Build, Callback, CacheInv, TypeInv
  <2>3. thr[t] \in Local
    BY DEF CacheInv, TypeInv
  <2>4. thr'[t].pc # "load"
    <3>1. CASE SkipId(t)
      <4>1. thr'[t] = [thr[t] EXCEPT !.todo = Tail(@)] /\ thr[t].pc = "next"
        BY <3>1 DEF SkipId, CacheInv, TypeInv
      <4>2. QED
        BY <2>3, <4>1 DEF Local
    <3>2. CASE Built(t) \/ CallbackReturns(t) \/ LoadFails(t)
      BY <3>2 DEF Built, CallbackReturns, LoadFails, CacheInv, TypeInv, Idle
    <3>3. CASE AllocFails(t)
      <4>1. thr'[t] = Idle \/ thr'[t] = [thr[t] EXCEPT !.pc = "copy", !.buf = Null]
        BY <3>3 DEF AllocFails, CacheInv, TypeInv
      <4>2. CASE thr'[t] = Idle
        BY <4>2 DEF Idle
      <4>3. CASE thr'[t] = [thr[t] EXCEPT !.pc = "copy", !.buf = Null]
        BY <2>3, <4>3 DEF Local
      <4>4. QED
        BY <4>1, <4>2, <4>3
    <3>4. CASE Fill(t)
      <4>1. thr'[t] = [thr[t] EXCEPT !.pc = "copy"]
        BY <3>4 DEF Fill, CacheInv, TypeInv
      <4>2. QED
        BY <2>3, <4>1 DEF Local
    <3>5. CASE Copy(t)
      <4>1. thr'[t] = [thr[t] EXCEPT !.pc = "next", !.key = Null, !.buf = Null, !.todo = Tail(@)]
        BY <3>5 DEF Copy, CacheInv, TypeInv
      <4>2. QED
        BY <2>3, <4>1 DEF Local
    <3>6. ASSUME NEW x \in Tensors, NEW ids \in IdLists, Build(t, x, ids) \/ Callback(t, x, ids)
          PROVE  thr'[t].pc # "load"
      <4>1. CASE Callback(t, x, ids)
        <5>1. thr'[t] = [thr[t] EXCEPT !.pc = "advised"]
          BY <4>1 DEF Callback, CacheInv, TypeInv
        <5>2. QED
          BY <2>3, <5>1 DEF Local
      <4>2. CASE Build(t, x, ids)
        BY <4>2 DEF Build, CacheInv, TypeInv, Idle
      <4>3. QED
        BY <3>6, <4>1, <4>2
    <3>7. QED
      BY <1>6, <3>1, <3>2, <3>3, <3>4, <3>5, <3>6
  <2>5. NoNewLoad
    BY <2>2, <2>4
  <2>6. QED
    BY <2>1, <2>5, QuietBudget
<1>7. QED
  BY <1>1, <1>2, <1>3, <1>4, <1>5, <1>6, EvictBudget, AllocForLoadBudget, LoadBudget, AllocSlotBudget DEF Next

\* Whatever is asked for, evicted and failed, in any order of the threads: the bytes
\* counted are those of the entries, and within the budget.
THEOREM StaysWithinBudget == Spec => []WithinBudget
<1>1. CacheInv /\ BudgetInv /\ [Next]_vars => BudgetInv'
  BY BudgetStep
<1>2. BudgetInv => WithinBudget
  BY DEF BudgetInv
<1>3. QED
  BY <1>1, <1>2, InitBudget, CacheInvHolds, PTL DEF Spec

-----------------------------------------------------------------------------
(* The advice.                                                             *)

\* What was advised, and for what.
AdvisedInv ==
  advised = NoAdvice \/
    /\ advised.tensor \in Tensors /\ advised.ids \in IdLists
    /\ advised.pages = UNION {Advice(advised.tensor, advised.ids[i]) :
                                i \in {j \in DOMAIN advised.ids : advised.ids[j] \in ExpertIds}}

\* The pages from a start moved back to a page's, with the length extended by as much,
\* are at least those of the slice.
LEMMA AdviceOfOne ==
  ASSUME NEW x \in Tensors, NEW e \in ExpertIds
  PROVE  PagesOf(Slice(x, e), Stride[x]) \subseteq Advice(x, e)
<1>1. PICK st \in Nat : st = Stride[x]
  BY LlamaAssumption
<1>2. PICK d \in Nat : d = DataOf[x]
  BY LlamaAssumption
<1>3. PICK p \in Nat \ {0} : p = Page
  BY LlamaAssumption
<1>4. e \in Nat
  BY LlamaAssumption DEF ExpertIds
<1>5. PICK m \in Nat : m = e * st
  BY <1>1, <1>4
<1>6. PICK s \in Nat : s = Slice(x, e) /\ s = d + m
  BY <1>1, <1>2, <1>5 DEF Slice
<1>7. PICK r \in 0 .. p - 1 : r = s % p
  BY <1>3, <1>6
<1>8. \A b \in s .. s + st - 1 : b \in (s - r) .. (s - r) + (st + (s - (s - r))) - 1
  BY <1>1, <1>6, <1>7
<1>9. Advice(x, e) = PagesOf(s - r, st + (s - (s - r)))
  BY <1>1, <1>3, <1>6, <1>7 DEF Advice
<1>10. QED
  BY <1>1, <1>6, <1>8, <1>9 DEF PagesOf

LEMMA AdvisedCovers == AdvisedInv => AdviceCoversExperts
<1> SUFFICES ASSUME AdvisedInv, NEW i \in DOMAIN advised.ids, advised.ids[i] \in ExpertIds
             PROVE  PagesOf(Slice(advised.tensor, advised.ids[i]), Stride[advised.tensor]) \subseteq advised.pages
  BY DEF AdviceCoversExperts
<1>1. CASE advised = NoAdvice
  <2>1. advised.ids = <<>> /\ DOMAIN <<>> = {}
    BY <1>1 DEF NoAdvice
  <2>2. QED
    BY <2>1
<1>2. CASE advised # NoAdvice
  <2>1. /\ advised.tensor \in Tensors
        /\ Advice(advised.tensor, advised.ids[i]) \subseteq advised.pages
    BY <1>2 DEF AdvisedInv
  <2>2. QED
    BY <2>1, AdviceOfOne
<1>3. QED
  BY <1>1, <1>2

LEMMA AdvisedStep ==
  ASSUME AdvisedInv, [Next]_vars
  PROVE  AdvisedInv'
<1>1. CASE UNCHANGED advised
  BY <1>1 DEF AdvisedInv
<1>2. CASE advised' = NoAdvice
  BY <1>2 DEF AdvisedInv
<1>3. ASSUME NEW t \in Threads, NEW x \in Tensors, NEW ids \in IdLists, Callback(t, x, ids) PROVE AdvisedInv'
  <2> DEFINE pages == UNION {Advice(x, ids[i]) : i \in {j \in DOMAIN ids : ids[j] \in ExpertIds}}
  <2>1. advised' = [tensor |-> x, ids |-> ids, pages |-> pages]
    BY <1>3 DEF Callback
  <2>2. advised'.tensor = x /\ advised'.ids = ids /\ advised'.pages = pages
    BY <2>1
  <2>3. QED
    BY <2>2 DEF AdvisedInv
<1>4. QED
  BY <1>1, <1>2, <1>3
     DEF Next, vars, cacheVars, Touch, Ensure, Build, SkipId, GetOrAlloc, Evict, AllocForLoad, AllocSlot,
         Load, LoadFails, AllocFails, Fill, Copy, Built, CallbackReturns, Destroy

\* Wherever the tensors' data lies and however long their slices are, the kernel is told
\* of every page of every expert the callback was given.
THEOREM AdviceReachesEveryPage == Spec => []AdviceCoversExperts
<1>1. Init => AdvisedInv
  BY DEF Init, AdvisedInv
<1>2. AdvisedInv /\ [Next]_vars => AdvisedInv'
  BY AdvisedStep
<1>3. QED
  BY <1>1, <1>2, AdvisedCovers, PTL DEF Spec

-----------------------------------------------------------------------------
(* What is packed.                                                         *)

LEMMA PackedExists ==
  ASSUME NEW asked \in Seq(Tensors \X Int)
  PROVE  \E f : f = [n \in 0 .. Len(asked) |->
                       IF n = 0 THEN <<>>
                       ELSE IF asked[n] \in EntryKeys THEN Append(f[n - 1], asked[n]) ELSE f[n - 1]]
<1> DEFINE Body(f, n) == [m \in 0 .. n |->
                            IF m = 0 THEN <<>>
                            ELSE IF asked[m] \in EntryKeys THEN Append(f[m - 1], asked[m]) ELSE f[m - 1]]
           P(n) == \E f : f = Body(f, n)
           G == {n \in 0 .. Len(asked) : P(n)}
<1>1. Len(asked) \in Nat
  BY LenProperties
<1>2. P(0)
  <2> DEFINE f == [m \in 0 .. 0 |-> <<>>]
  <2>1. f = Body(f, 0)
    OBVIOUS
  <2>2. QED
    BY <2>1
<1>3. ASSUME NEW i \in 1 .. Len(asked), P(i - 1) PROVE P(i)
  <2>1. PICK f : f = Body(f, i - 1)
    BY <1>3
  <2> DEFINE g == Body(f, i)
  <2>2. \A m \in 0 .. i : g[m] = IF m = 0 THEN <<>>
                                 ELSE IF asked[m] \in EntryKeys THEN Append(f[m - 1], asked[m]) ELSE f[m - 1]
    OBVIOUS
  <2>3. \A m \in 0 .. i - 1 : f[m] = IF m = 0 THEN <<>>
                                     ELSE IF asked[m] \in EntryKeys THEN Append(f[m - 1], asked[m]) ELSE f[m - 1]
    BY <2>1
  <2> HIDE DEF g
  <2>4. ASSUME NEW m \in 0 .. i - 1 PROVE g[m] = f[m]
    <3>1. m \in 0 .. i
      OBVIOUS
    <3>2. QED
      BY <2>2, <2>3, <3>1
  <2>5. \A m \in 0 .. i : m # 0 => m - 1 \in 0 .. i - 1
    OBVIOUS
  <2>6. \A m \in 0 .. i : m # 0 => g[m - 1] = f[m - 1]
    BY <2>4, <2>5
  <2>7. g = Body(g, i)
    BY <2>6 DEF g
  <2>8. QED
    BY <2>7
<1> HIDE DEF P
<1>4. 0 \in G /\ \A i \in 1 .. Len(asked) : i - 1 \in G => i \in G
  BY <1>1, <1>2, <1>3
<1>5. Len(asked) \in G
  <2>1. 0 .. Len(asked) \subseteq G
    BY <1>1, <1>4, UpTo
  <2>2. QED
    BY <1>1, <2>1
<1>6. QED
  BY <1>5 DEF P

LEMMA PackedSteps ==
  ASSUME NEW asked \in Seq(Tensors \X Int)
  PROVE  /\ Packed(asked)[0] = <<>>
         /\ \A i \in 1 .. Len(asked) :
              /\ asked[i] \in EntryKeys => Packed(asked)[i] = Append(Packed(asked)[i - 1], asked[i])
              /\ asked[i] \notin EntryKeys => Packed(asked)[i] = Packed(asked)[i - 1]
<1> DEFINE f == Packed(asked)
<1>1. Len(asked) \in Nat
  BY LenProperties
<1>2. f = [n \in 0 .. Len(asked) |->
             IF n = 0 THEN <<>>
             ELSE IF asked[n] \in EntryKeys THEN Append(f[n - 1], asked[n]) ELSE f[n - 1]]
  BY PackedExists DEF Packed
<1> HIDE DEF f
<1>3. QED
  <2>1. f[0] = <<>>
    BY <1>1, <1>2
  <2>2. ASSUME NEW i \in 1 .. Len(asked)
        PROVE  f[i] = IF asked[i] \in EntryKeys THEN Append(f[i - 1], asked[i]) ELSE f[i - 1]
    <3>1. i \in 0 .. Len(asked) /\ i # 0
      BY <1>1
    <3>2. f[i] = IF i = 0 THEN <<>>
                 ELSE IF asked[i] \in EntryKeys THEN Append(f[i - 1], asked[i]) ELSE f[i - 1]
      BY <1>2, <3>1, Zenon
    <3>3. QED
      BY <3>1, <3>2
  <2>3. QED
    BY <2>1, <2>2 DEF f

\* What is still to pack is the rest of what was asked for.
Rest(todo, asked) ==
  /\ Len(todo) <= Len(asked)
  /\ \A i \in 1 .. Len(todo) : todo[i] = asked[Len(asked) - Len(todo) + i]

LEMMA RestOfTail ==
  ASSUME NEW S, NEW todo \in Seq(S), NEW asked \in Seq(S), todo # <<>>, Rest(todo, asked)
  PROVE  LET n == Len(asked) - Len(todo)
         IN  /\ Rest(Tail(todo), asked)
             /\ Len(asked) - Len(Tail(todo)) = n + 1 /\ n \in Nat
             /\ n + 1 \in 1 .. Len(asked) /\ asked[n + 1] = Head(todo)
<1>1. Len(todo) \in Nat \ {0} /\ Len(asked) \in Nat
  BY LenProperties, EmptySeq
<1>2. /\ Tail(todo) \in Seq(S) /\ Len(Tail(todo)) = Len(todo) - 1 /\ Head(todo) = todo[1]
      /\ \A i \in 1 .. Len(Tail(todo)) : Tail(todo)[i] = todo[i + 1]
  BY <1>1, HeadTailProperties
<1>3. \A i \in 1 .. Len(Tail(todo)) : i + 1 \in 1 .. Len(todo)
  BY <1>1, <1>2
<1>4. \A i \in 1 .. Len(Tail(todo)) : Tail(todo)[i] = asked[Len(asked) - Len(todo) + (i + 1)]
  BY <1>2, <1>3 DEF Rest
<1>5. Rest(Tail(todo), asked)
  BY <1>1, <1>2, <1>4 DEF Rest
<1>6. asked[Len(asked) - Len(todo) + 1] = Head(todo)
  BY <1>1, <1>2 DEF Rest
<1>7. QED
  BY <1>1, <1>2, <1>5, <1>6 DEF Rest

\* What a thread is about, at each place.
LocalOk(r) ==
  /\ r.op = "none" <=> r.pc \in {"idle", "advised"}
  /\ r.op = "ensure" <=> r.pc = "load" \/ (r.pc = "evict" /\ r.op # "build")
  /\ r.op = "build" /\ r.pc # "next" => r.todo # <<>> /\ r.key = Head(r.todo) /\ r.key \in EntryKeys
  /\ r.op = "build" => Rest(r.todo, r.asked)

LocalInv == \A t \in Threads : LocalOk(thr[t])

LEMMA OneThread ==
  ASSUME CacheInv, LocalInv, NEW t \in Threads, NEW r, thr' = [thr EXCEPT ![t] = r], LocalOk(r)
  PROVE  LocalInv'
<1>1. thr'[t] = r /\ \A u \in Threads : u # t => thr'[u] = thr[u]
  BY DEF CacheInv, TypeInv
<1>2. \A u \in Threads : LocalOk(thr'[u])
  BY <1>1 DEF LocalInv
<1>3. QED
  BY <1>2 DEF LocalInv

LEMMA IdleOk == LocalOk(Idle)
BY DEF Idle, LocalOk

\* What every step does to the record of its thread.
LEMMA LocalStep ==
  ASSUME CacheInv, LocalInv, [Next]_vars
  PROVE  LocalInv'
<1>1. CASE UNCHANGED thr
  BY <1>1 DEF LocalInv
<1>2. ASSUME NEW t \in Threads PROVE thr[t] \in Local /\ LocalOk(thr[t]) /\ thr = [thr EXCEPT ![t] = thr[t]]
  BY DEF CacheInv, TypeInv, LocalInv
<1>3. ASSUME NEW t \in Threads, NEW k \in EntryKeys, Ensure(t, k) PROVE LocalInv'
  <2> DEFINE r == [Idle EXCEPT !.pc = "evict", !.op = "ensure", !.key = k]
  <2>1. LocalOk(r)
    BY DEF Idle, LocalOk
  <2> HIDE DEF r
  <2>2. UNCHANGED thr \/ thr' = [thr EXCEPT ![t] = r]
    BY <1>3 DEF Ensure, r
  <2>3. QED
    BY <1>1, <2>1, <2>2, OneThread
<1>4. ASSUME NEW t \in Threads, NEW x \in Tensors, NEW ids \in IdLists, Build(t, x, ids) PROVE LocalInv'
  <2> DEFINE asked == [i \in DOMAIN ids |-> <<x, ids[i]>>]
             r == [Idle EXCEPT !.pc = "next", !.op = "build", !.todo = asked, !.asked = asked]
  <2>1. Len(asked) \in Nat
    <3>1. ids \in Seq(Int)
      BY LlamaAssumption
    <3>2. DOMAIN ids = 1 .. Len(ids) /\ Len(ids) \in Nat
      BY <3>1, LenProperties
    <3>3. QED
      BY <3>2
  <2> HIDE DEF asked
  <2>2. Rest(asked, asked)
    BY <2>1 DEF Rest
  <2>3. r.op = "build" /\ r.pc = "next" /\ r.todo = asked /\ r.asked = asked
    BY DEF Idle
  <2>4. thr' = [thr EXCEPT ![t] = r]
    BY <1>4 DEF Build, asked
  <2> HIDE DEF r
  <2>5. LocalOk(r)
    BY <2>2, <2>3 DEF LocalOk
  <2>6. QED
    BY <2>4, <2>5, OneThread
<1>5. ASSUME NEW t \in Threads, NEW x \in Tensors, NEW ids \in IdLists, Callback(t, x, ids) PROVE LocalInv'
  <2> DEFINE r == [thr[t] EXCEPT !.pc = "advised"]
  <2>1. r.pc = "advised" /\ r.op = thr[t].op
    BY <1>2 DEF Local
  <2>2. thr[t].op = "none"
    BY <1>5 DEF Callback, Idle
  <2>3. thr' = [thr EXCEPT ![t] = r]
    BY <1>5 DEF Callback
  <2> HIDE DEF r
  <2>4. QED
    BY <2>1, <2>2, <2>3, OneThread DEF LocalOk
<1>6. ASSUME NEW t \in Threads, SkipId(t) \/ Copy(t) PROVE LocalInv'
  <2>1. PICK k, b : thr' = [thr EXCEPT ![t] = [thr[t] EXCEPT !.pc = "next", !.key = k, !.buf = b, !.todo = Tail(@)]]
    <3>1. CASE SkipId(t)
      <4>1. [thr[t] EXCEPT !.todo = Tail(@)]
              = [thr[t] EXCEPT !.pc = "next", !.key = thr[t].key, !.buf = thr[t].buf, !.todo = Tail(@)]
        BY <1>2, <3>1 DEF SkipId, Local
      <4>2. QED
        BY <3>1, <4>1 DEF SkipId
    <3>2. CASE Copy(t)
      BY <3>2 DEF Copy
    <3>3. QED
      BY <1>6, <3>1, <3>2
  <2> DEFINE r == [thr[t] EXCEPT !.pc = "next", !.key = k, !.buf = b, !.todo = Tail(@)]
  <2>2. r.pc = "next" /\ r.op = thr[t].op /\ r.todo = Tail(thr[t].todo) /\ r.asked = thr[t].asked
    BY <1>2 DEF Local
  <2> HIDE DEF r
  <2>3. thr[t].op = "build" /\ thr[t].todo # <<>>
    <3>1. thr[t].pc \in {"next", "copy"} /\ thr[t].todo # <<>>
      BY <1>6 DEF SkipId, Copy, CacheInv, MissInv
    <3>2. thr[t].op \in {"none", "ensure", "build"}
      BY <1>2 DEF Local
    <3>3. QED
      BY <1>2, <3>1, <3>2 DEF LocalOk
  <2>4. Rest(Tail(thr[t].todo), thr[t].asked)
    <3>1. thr[t].todo \in Seq(Tensors \X Int) /\ thr[t].asked \in Seq(Tensors \X Int)
      BY <1>2 DEF Local
    <3>2. Rest(thr[t].todo, thr[t].asked)
      BY <1>2, <2>3 DEF LocalOk
    <3>3. QED
      BY <2>3, <3>1, <3>2, RestOfTail
  <2>5. LocalOk(r)
    BY <2>2, <2>3, <2>4 DEF LocalOk
  <2>6. QED
    BY <2>1, <2>5, OneThread DEF r
<1>7. ASSUME NEW t \in Threads, GetOrAlloc(t) PROVE LocalInv'
  <2> DEFINE k == Head(thr[t].todo)
  <2>1. PICK pc \in {"copy", "evict"}, b \in {entries[k].data, thr[t].buf} : thr' = [thr EXCEPT ![t] = [thr[t] EXCEPT !.pc = pc, !.key = k, !.buf = b]]
    <3>1. CASE thr' = [thr EXCEPT ![t].pc = "copy", ![t].key = k, ![t].buf = entries[k].data]
      BY <3>1
    <3>2. CASE thr' = [thr EXCEPT ![t].pc = "evict", ![t].key = k]
      <4>1. [thr[t] EXCEPT !.pc = "evict", !.key = k] = [thr[t] EXCEPT !.pc = "evict", !.key = k, !.buf = thr[t].buf]
        BY <1>2 DEF Local
      <4>2. QED
        BY <3>2, <4>1
    <3>3. QED
      BY <1>7, <3>1, <3>2 DEF GetOrAlloc
  <2> DEFINE r == [thr[t] EXCEPT !.pc = pc, !.key = k, !.buf = b]
  <2>2. r.pc = pc /\ r.op = thr[t].op /\ r.todo = thr[t].todo /\ r.asked = thr[t].asked /\ r.key = k
    BY <1>2 DEF Local
  <2>3. thr[t].pc = "next" /\ k \in EntryKeys /\ thr[t].todo # <<>> /\ thr[t].op \in {"none", "ensure", "build"}
    BY <1>2, <1>7 DEF GetOrAlloc, Local
  <2> HIDE DEF r
  <2>4. LocalOk(r)
    BY <1>2, <2>2, <2>3 DEF LocalOk
  <2>5. QED
    BY <2>1, <2>4, OneThread DEF r
<1>8. ASSUME NEW t \in Threads, NEW a \in Addrs, AllocForLoad(t, a) \/ AllocSlot(t, a) PROVE LocalInv'
  <2>1. PICK pc \in {"load", "fill"} :
          /\ thr' = [thr EXCEPT ![t] = [thr[t] EXCEPT !.pc = pc, !.buf = a]]
          /\ pc = "load" <=> thr[t].op = "ensure"
    BY <1>8 DEF AllocForLoad, AllocSlot
  <2> DEFINE r == [thr[t] EXCEPT !.pc = pc, !.buf = a]
  <2>2. r.pc = pc /\ r.op = thr[t].op /\ r.todo = thr[t].todo /\ r.asked = thr[t].asked /\ r.key = thr[t].key
    BY <1>2 DEF Local
  <2>3. thr[t].pc = "evict" /\ thr[t].op \in {"ensure", "build"}
    BY <1>8 DEF AllocForLoad, AllocSlot, Evicted
  <2> HIDE DEF r
  <2>4. LocalOk(r)
    BY <1>2, <2>1, <2>2, <2>3 DEF LocalOk
  <2>5. QED
    BY <2>1, <2>4, OneThread DEF r
<1>9. ASSUME NEW t \in Threads, Load(t) \/ LoadFails(t) \/ Built(t) \/ CallbackReturns(t) PROVE LocalInv'
  BY <1>9, IdleOk, OneThread DEF Load, LoadFails, Built, CallbackReturns
<1>10. ASSUME NEW t \in Threads, AllocFails(t) PROVE LocalInv'
  <2> DEFINE r == [thr[t] EXCEPT !.pc = "copy", !.buf = Null]
  <2>1. r.pc = "copy" /\ r.op = thr[t].op /\ r.todo = thr[t].todo /\ r.asked = thr[t].asked /\ r.key = thr[t].key
    BY <1>2 DEF Local
  <2>2. thr[t].pc = "evict" /\ thr[t].op \in {"none", "ensure", "build"}
    BY <1>2, <1>10 DEF AllocFails, Evicted, Local
  <2>3. thr' = [thr EXCEPT ![t] = IF thr[t].op = "ensure" THEN Idle ELSE r]
    BY <1>10 DEF AllocFails
  <2> HIDE DEF r
  <2>4. thr[t].op # "ensure" => LocalOk(r)
    BY <1>2, <2>1, <2>2 DEF LocalOk
  <2>5. QED
    BY <2>3, <2>4, IdleOk, OneThread
<1>11. ASSUME NEW t \in Threads, Fill(t) PROVE LocalInv'
  <2> DEFINE r == [thr[t] EXCEPT !.pc = "copy"]
  <2>1. r.pc = "copy" /\ r.op = thr[t].op /\ r.todo = thr[t].todo /\ r.asked = thr[t].asked /\ r.key = thr[t].key
    BY <1>2 DEF Local
  <2>2. thr[t].pc = "fill" /\ thr[t].op \in {"none", "ensure", "build"}
    BY <1>2, <1>11 DEF Fill, Local
  <2>3. thr' = [thr EXCEPT ![t] = r]
    BY <1>11 DEF Fill
  <2> HIDE DEF r
  <2>4. LocalOk(r)
    BY <1>2, <2>1, <2>2 DEF LocalOk
  <2>5. QED
    BY <2>3, <2>4, OneThread
<1>12. QED
  BY <1>1, <1>3, <1>4, <1>5, <1>6, <1>7, <1>8, <1>9, <1>10, <1>11
     DEF Next, vars, Touch, Evict, Destroy

-----------------------------------------------------------------------------
(* While no call overlaps a build.                                         *)

\* One thread builds, and between a slot and its copy nobody loads.
BuildsAlone ==
  \A t \in Threads : thr[t].op = "build" =>
    \A u \in Threads \ {t} :
      thr[u].op # "build" /\ (thr[t].pc \in {"fill", "copy"} => thr[u].op # "ensure")

\* The slot a build is at is the entry's, and filled when it is copied.
SlotInv ==
  \A t \in Threads : thr[t].pc = "fill" \/ (thr[t].pc = "copy" /\ thr[t].buf # Null) =>
    /\ Has(thr[t].key) /\ entries[thr[t].key].data = thr[t].buf
    /\ thr[t].pc = "copy" => heap[thr[t].buf] = thr[t].key

\* An entry's buffer holds its expert, but for the slot that is being filled.
FilledInv ==
  \A k \in DOMAIN entries :
    heap[entries[k].data] = k \/ \E t \in Threads : thr[t].pc = "fill" /\ thr[t].key = k

\* The buffer holds what the ids handled so far leave in it.
ActiveInv ==
  \A t \in Threads : thr[t].op = "build" =>
    activeBuf = Packed(thr[t].asked)[Len(thr[t].asked) - Len(thr[t].todo)]

Apart == BuildsAlone /\ SlotInv /\ FilledInv /\ ActiveInv

PackInv == LocalInv /\ (~mixed => Apart)

\* Whoever fills or copies is building; nobody is while another is in a miss.
LEMMA FillersBuild ==
  ASSUME CacheInv, LocalInv, NEW t \in Threads, thr[t].pc \in {"next", "fill", "copy"}
  PROVE  thr[t].op = "build"
<1>1. thr[t].op \in {"none", "ensure", "build"}
  BY DEF CacheInv, TypeInv, Local
<1>2. QED
  BY <1>1 DEF LocalInv, LocalOk

LEMMA NoSlots ==
  ASSUME CacheInv, LocalInv, BuildsAlone, NEW t \in Threads, thr[t].pc \in {"evict", "load"}
  PROVE  \A u \in Threads : thr[u].pc \notin {"fill", "copy"}
<1> SUFFICES ASSUME NEW u \in Threads, thr[u].pc \in {"fill", "copy"} PROVE FALSE
  OBVIOUS
<1>1. thr[u].op = "build" /\ t # u
  BY FillersBuild
<1>2. thr[t].op # "build" /\ thr[t].op # "ensure"
  BY <1>1 DEF BuildsAlone
<1>3. thr[t].op = "none"
  BY <1>2 DEF CacheInv, TypeInv, Local
<1>4. QED
  BY <1>3 DEF LocalInv, LocalOk

\* Where the mutex is free, or held by one thread, no other works on a miss.
LEMMA NoEnsure ==
  ASSUME CacheInv, LocalInv, NEW t \in Threads, mutex \in {Null, t}, NEW u \in Threads, u # t
  PROVE  thr[u].op # "ensure" /\ thr[u].pc \notin {"evict", "load"}
<1>1. Null \notin Threads
  BY LlamaAssumption
<1>2. thr[u].pc \notin {"evict", "load"}
  BY <1>1 DEF CacheInv, MissInv
<1>3. QED
  BY <1>2 DEF LocalInv, LocalOk

\* A thread's step that leaves cache and buffer alone and is at no slot.
LEMMA QuietApart ==
  ASSUME CacheInv, LocalInv, Apart, NEW t \in Threads, NEW r, thr' = [thr EXCEPT ![t] = r],
         UNCHANGED <<entries, heap, activeBuf>>, thr[t].pc # "fill",
         r.pc \notin {"fill", "copy"} \/ (r.pc = "copy" /\ r.buf = Null /\ mutex = t),
         r.op = "build" => thr[t].op = "build" /\ r.todo = thr[t].todo /\ r.asked = thr[t].asked,
         r.op = "ensure" => thr[t].op = "ensure"
  PROVE  Apart'
<1>1. thr'[t] = r /\ \A u \in Threads : u # t => thr'[u] = thr[u]
  BY DEF CacheInv, TypeInv
<1>2. BuildsAlone'
  <2>1. SUFFICES ASSUME NEW v \in Threads, thr'[v].op = "build", NEW u \in Threads \ {v}
                 PROVE  thr'[u].op # "build" /\ (thr'[v].pc \in {"fill", "copy"} => thr'[u].op # "ensure")
    BY DEF BuildsAlone
  <2>2. thr[v].op = "build"
    BY <1>1, <2>1
  <2>3. thr[u].op # "build" /\ (thr[v].pc \in {"fill", "copy"} => thr[u].op # "ensure")
    BY <2>2 DEF Apart, BuildsAlone
  <2>4. CASE v = t
    BY <1>1, <2>1, <2>3, <2>4, NoEnsure
  <2>5. CASE v # t
    BY <1>1, <2>1, <2>3, <2>5
  <2>6. QED
    BY <2>4, <2>5
<1>3. SlotInv'
  BY <1>1 DEF Apart, SlotInv, Has
<1>4. FilledInv'
  BY <1>1 DEF Apart, FilledInv
<1>5. ActiveInv'
  <2>1. SUFFICES ASSUME NEW u \in Threads, thr'[u].op = "build"
                 PROVE  activeBuf' = Packed(thr'[u].asked)[Len(thr'[u].asked) - Len(thr'[u].todo)]
    BY DEF ActiveInv
  <2>2. thr[u].op = "build" /\ thr'[u].todo = thr[u].todo /\ thr'[u].asked = thr[u].asked
    BY <1>1, <2>1
  <2>3. QED
    BY <2>2 DEF Apart, ActiveInv
<1>6. QED
  BY <1>2, <1>3, <1>4, <1>5 DEF Apart

\* A call that begins while none builds.
LEMMA BeginsApart ==
  ASSUME CacheInv, LocalInv, Apart, ~Building, NEW t \in Threads, NEW r, thr' = [thr EXCEPT ![t] = r],
         UNCHANGED <<entries, heap>>, r.pc \notin {"fill", "copy"},
         r.op = "build" => activeBuf' = Packed(r.asked)[Len(r.asked) - Len(r.todo)]
  PROVE  Apart'
<1>1. thr'[t] = r /\ \A u \in Threads : u # t => thr'[u] = thr[u]
  BY DEF CacheInv, TypeInv
<1>2. \A u \in Threads : thr[u].op # "build" /\ thr[u].pc \notin {"fill", "copy"}
  BY FillersBuild DEF Building
<1>3. \A u \in Threads : thr'[u].pc \notin {"fill", "copy"} /\ (u # t => thr'[u].op # "build")
  BY <1>1, <1>2
<1>4. BuildsAlone' /\ SlotInv'
  BY <1>3 DEF BuildsAlone, SlotInv
<1>5. FilledInv'
  BY <1>2 DEF Apart, FilledInv
<1>6. ActiveInv'
  BY <1>1, <1>3 DEF ActiveInv
<1>7. QED
  BY <1>4, <1>5, <1>6 DEF Apart

LEMMA EnsureApart ==
  ASSUME CacheInv, LocalInv, Apart, ~Building, NEW t \in Threads, NEW k \in EntryKeys, Ensure(t, k)
  PROVE  Apart'
<1> DEFINE r == [Idle EXCEPT !.pc = "evict", !.op = "ensure", !.key = k]
<1>1. CASE UNCHANGED thr /\ UNCHANGED <<entries, heap>>
  BY <1>1 DEF Ensure, Apart, BuildsAlone, SlotInv, FilledInv, ActiveInv, Has
<1>2. CASE thr' = [thr EXCEPT ![t] = r] /\ UNCHANGED <<entries, heap>>
  <2>1. r.op = "ensure" /\ r.pc = "evict"
    BY DEF Idle
  <2> HIDE DEF r
  <2>2. QED
    BY <1>2, <2>1, BeginsApart
<1>3. QED
  BY <1>1, <1>2 DEF Ensure, HitEntry, Miss, cacheVars

LEMMA BuildApart ==
  ASSUME CacheInv, LocalInv, Apart, ~Building,
         NEW t \in Threads, NEW x \in Tensors, NEW ids \in IdLists, Build(t, x, ids)
  PROVE  Apart'
<1> DEFINE asked == [i \in DOMAIN ids |-> <<x, ids[i]>>]
           r == [Idle EXCEPT !.pc = "next", !.op = "build", !.todo = asked, !.asked = asked]
<1>1. asked \in Seq(Tensors \X Int)
  <2>1. ids \in Seq(Int)
    BY LlamaAssumption
  <2>2. DOMAIN ids = 1 .. Len(ids) /\ Len(ids) \in Nat /\ \A i \in 1 .. Len(ids) : ids[i] \in Int
    BY <2>1, LenProperties, ElementOfSeq
  <2>3. QED
    BY <2>2
<1>2. thr' = [thr EXCEPT ![t] = r] /\ UNCHANGED <<entries, heap>> /\ activeBuf' = <<>>
  BY DEF Build, cacheVars
<1> HIDE DEF asked
<1>3. r.op = "build" /\ r.pc = "next" /\ r.todo = asked /\ r.asked = asked
  BY DEF Idle
<1>4. Len(asked) - Len(asked) = 0 /\ Packed(asked)[0] = <<>>
  BY <1>1, LenProperties, PackedSteps
<1> HIDE DEF r
<1>5. QED
  BY <1>2, <1>3, <1>4, BeginsApart

\* An id that is skipped leaves the buffer, and what is packed, as they are; ...
LEMMA SkipApart ==
  ASSUME CacheInv, LocalInv, Apart, NEW t \in Threads, SkipId(t)
  PROVE  Apart'
<1> DEFINE todo == thr[t].todo
           asked == thr[t].asked
<1>1. thr'[t] = [thr[t] EXCEPT !.todo = Tail(@)] /\ \A u \in Threads : u # t => thr'[u] = thr[u]
  BY DEF SkipId, CacheInv, TypeInv
<1>2. /\ thr'[t].pc = "next" /\ thr'[t].op = thr[t].op /\ thr'[t].todo = Tail(todo)
      /\ thr'[t].asked = asked /\ thr[t].pc = "next"
  BY <1>1 DEF SkipId, CacheInv, TypeInv, Local
<1>3. todo \in Seq(Tensors \X Int) /\ asked \in Seq(Tensors \X Int) /\ todo # <<>> /\ Head(todo) \notin EntryKeys
  BY DEF SkipId, CacheInv, TypeInv, Local
<1>4. thr[t].op = "build"
  BY <1>2, FillersBuild
<1>5. Rest(todo, asked)
  BY <1>4 DEF LocalInv, LocalOk
<1> HIDE DEF todo, asked
<1>6. PICK n \in Nat : n = Len(asked) - Len(todo)
  BY <1>3, <1>5, RestOfTail
<1>7. /\ Len(asked) - Len(Tail(todo)) = n + 1
      /\ n + 1 \in 1 .. Len(asked) /\ asked[n + 1] = Head(todo)
  BY <1>3, <1>5, <1>6, RestOfTail
<1>8. Packed(asked)[n + 1] = Packed(asked)[n]
  <2>1. PICK i \in 1 .. Len(asked) : i = n + 1 /\ i - 1 = n
    BY <1>6, <1>7
  <2>2. asked[i] \notin EntryKeys
    BY <1>3, <1>7, <2>1
  <2>3. Packed(asked)[i] = Packed(asked)[i - 1]
    BY <1>3, <2>2, PackedSteps
  <2>4. QED
    BY <2>1, <2>3
<1>9. UNCHANGED <<entries, heap, activeBuf>>
  BY DEF SkipId, cacheVars
<1>10. activeBuf' = Packed(thr'[t].asked)[Len(thr'[t].asked) - Len(thr'[t].todo)]
  BY <1>2, <1>4, <1>6, <1>7, <1>8, <1>9 DEF Apart, ActiveInv, todo, asked
<1>11. \A u \in Threads : thr'[u].op = thr[u].op /\ thr'[u].pc = thr[u].pc
  BY <1>1, <1>2
<1>12. BuildsAlone'
  BY <1>11 DEF Apart, BuildsAlone
<1>13. SlotInv'
  BY <1>1, <1>2, <1>9 DEF Apart, SlotInv, Has
<1>14. FilledInv'
  BY <1>1, <1>2, <1>9 DEF Apart, FilledInv
<1>15. ActiveInv'
  BY <1>1, <1>9, <1>10 DEF Apart, ActiveInv
<1>16. QED
  BY <1>12, <1>13, <1>14, <1>15 DEF Apart

\* ... one that is copied adds its expert, as the slot holds it.
LEMMA CopyApart ==
  ASSUME CacheInv, LocalInv, Apart, NEW t \in Threads, Copy(t)
  PROVE  Apart'
<1> DEFINE todo == thr[t].todo
           asked == thr[t].asked
           key == thr[t].key
<1>1. /\ thr'[t] = [thr[t] EXCEPT !.pc = "next", !.key = Null, !.buf = Null, !.todo = Tail(@)]
      /\ \A u \in Threads : u # t => thr'[u] = thr[u]
  BY DEF Copy, CacheInv, TypeInv
<1>2. /\ thr'[t].pc = "next" /\ thr'[t].op = thr[t].op /\ thr'[t].todo = Tail(todo)
      /\ thr'[t].asked = asked /\ thr[t].pc = "copy"
  BY <1>1 DEF Copy, CacheInv, TypeInv, Local
<1>3. thr[t].op = "build"
  BY <1>2, FillersBuild
<1>4. todo \in Seq(Tensors \X Int) /\ asked \in Seq(Tensors \X Int)
  BY DEF CacheInv, TypeInv, Local
<1>5. Rest(todo, asked) /\ todo # <<>> /\ key = Head(todo) /\ key \in EntryKeys
  BY <1>2, <1>3 DEF LocalInv, LocalOk
<1>6. activeBuf' = Append(activeBuf, key)
  BY <1>2 DEF Copy, Apart, SlotInv
<1> HIDE DEF todo, asked, key
<1>7. PICK n \in Nat : n = Len(asked) - Len(todo)
  BY <1>4, <1>5, RestOfTail
<1>8. /\ Len(asked) - Len(Tail(todo)) = n + 1
      /\ n + 1 \in 1 .. Len(asked) /\ asked[n + 1] = key
  BY <1>4, <1>5, <1>7, RestOfTail
<1>9. Packed(asked)[n + 1] = Append(Packed(asked)[n], key)
  <2>1. PICK i \in 1 .. Len(asked) : i = n + 1 /\ i - 1 = n
    BY <1>7, <1>8
  <2>2. asked[i] = key /\ asked[i] \in EntryKeys
    BY <1>5, <1>8, <2>1
  <2>3. Packed(asked)[i] = Append(Packed(asked)[i - 1], asked[i])
    BY <1>4, <2>2, PackedSteps
  <2>4. QED
    BY <2>1, <2>2, <2>3
<1>10. activeBuf = Packed(asked)[n]
  BY <1>3, <1>7 DEF Apart, ActiveInv, todo, asked
<1>11. activeBuf' = Packed(thr'[t].asked)[Len(thr'[t].asked) - Len(thr'[t].todo)]
  BY <1>2, <1>6, <1>8, <1>9, <1>10
<1>12. UNCHANGED <<entries, heap>>
  BY DEF Copy, cacheVars
<1>13. \A u \in Threads : thr'[u].op = thr[u].op /\ (thr'[u].pc \in {"fill", "copy"} => thr[u].pc \in {"fill", "copy"})
  BY <1>1, <1>2
<1>14. BuildsAlone'
  BY <1>13 DEF Apart, BuildsAlone
<1>15. SlotInv'
  BY <1>1, <1>2, <1>12 DEF Apart, SlotInv, Has
<1>16. FilledInv'
  BY <1>1, <1>2, <1>12 DEF Apart, FilledInv
<1>17. ActiveInv'
  <2>1. \A u \in Threads : u # t => thr'[u].op # "build"
    BY <1>1, <1>3 DEF Apart, BuildsAlone
  <2>2. QED
    BY <1>11, <2>1 DEF ActiveInv
<1>18. QED
  BY <1>14, <1>15, <1>16, <1>17 DEF Apart

\* A thread's step that leaves what it is about as it was: where it builds, what is
\* packed is what it was.
LEMMA SameActive ==
  ASSUME Apart, UNCHANGED activeBuf, NEW t \in Threads, \A u \in Threads : u # t => thr'[u] = thr[u],
         thr'[t].op = "build" => thr[t].op = "build" /\ thr'[t].todo = thr[t].todo /\ thr'[t].asked = thr[t].asked
  PROVE  ActiveInv'
<1> SUFFICES ASSUME NEW u \in Threads, thr'[u].op = "build"
             PROVE  activeBuf' = Packed(thr'[u].asked)[Len(thr'[u].asked) - Len(thr'[u].todo)]
  BY DEF ActiveInv
<1>1. thr[u].op = "build" /\ thr'[u].todo = thr[u].todo /\ thr'[u].asked = thr[u].asked
  OBVIOUS
<1>2. QED
  BY <1>1 DEF Apart, ActiveInv

LEMMA GetOrAllocApart ==
  ASSUME CacheInv, LocalInv, Apart, NEW t \in Threads, GetOrAlloc(t)
  PROVE  Apart'
<1> DEFINE k == Head(thr[t].todo)
<1>1. thr[t] \in Local /\ thr[t].pc = "next" /\ k \in EntryKeys /\ UNCHANGED activeBuf
  BY DEF GetOrAlloc, CacheInv, TypeInv
<1>2. thr[t].op = "build"
  BY <1>1, FillersBuild
<1>3. mutex = Null
  BY DEF GetOrAlloc, HitEntry, Miss
<1>4. CASE Miss(t, k) /\ thr' = [thr EXCEPT ![t].pc = "evict", ![t].key = k]
  <2> DEFINE r == [thr[t] EXCEPT !.pc = "evict", !.key = k]
  <2>1. thr' = [thr EXCEPT ![t] = r] /\ UNCHANGED <<entries, heap>>
    BY <1>4 DEF Miss, cacheVars
  <2>2. r.pc = "evict" /\ r.op = thr[t].op /\ r.todo = thr[t].todo /\ r.asked = thr[t].asked
    BY <1>1 DEF Local
  <2> HIDE DEF r, k
  <2>3. QED
    BY <1>1, <1>2, <2>1, <2>2, QuietApart
<1>5. CASE HitEntry(k) /\ thr' = [thr EXCEPT ![t].pc = "copy", ![t].key = k, ![t].buf = entries[k].data]
  <2>1. /\ thr'[t] = [thr[t] EXCEPT !.pc = "copy", !.key = k, !.buf = entries[k].data]
        /\ \A u \in Threads : u # t => thr'[u] = thr[u]
    BY <1>5 DEF CacheInv, TypeInv
  <2>2. /\ thr'[t].pc = "copy" /\ thr'[t].key = k /\ thr'[t].buf = entries[k].data /\ thr'[t].op = "build"
        /\ thr'[t].todo = thr[t].todo /\ thr'[t].asked = thr[t].asked
    BY <1>1, <1>2, <2>1 DEF Local
  <2> HIDE DEF k
  <2>3. Has(k) /\ UNCHANGED <<entries, heap>>
    BY <1>5 DEF HitEntry
  <2>4. \A u \in Threads : u # t => thr[u].op \notin {"build", "ensure"} /\ thr[u].pc \notin {"fill", "copy"}
    <3>1. \A u \in Threads : u # t => thr[u].op # "build" /\ thr[u].op # "ensure"
      BY <1>2, <1>3, NoEnsure DEF Apart, BuildsAlone
    <3>2. QED
      BY <3>1, FillersBuild
  <2>5. heap[entries[k].data] = k
    BY <1>1, <2>3, <2>4 DEF Apart, FilledInv, Has
  <2>6. BuildsAlone'
    BY <2>1, <2>2, <2>4 DEF BuildsAlone
  <2>7. SlotInv'
    BY <2>1, <2>2, <2>3, <2>4, <2>5 DEF SlotInv, Has
  <2>8. FilledInv'
    BY <1>1, <2>1, <2>3 DEF Apart, FilledInv
  <2>9. ActiveInv'
    BY <1>1, <1>2, <2>1, <2>2, SameActive
  <2>10. QED
    BY <2>6, <2>7, <2>8, <2>9 DEF Apart
<1>6. QED
  BY <1>4, <1>5 DEF GetOrAlloc

\* No slot is open while an entry is evicted: what is left is filled.
LEMMA EvictApart ==
  ASSUME CacheInv, LocalInv, Apart, NEW t \in Threads, Evict(t)
  PROVE  Apart'
<1> DEFINE old == order[Len(order)]
<1>1. order \in Seq(EntryKeys) /\ order # <<>> /\ Distinct(order) /\ Members(order) = DOMAIN entries
  BY DEF Evict, CacheInv, TypeInv, ListInv
<1>2. old \in DOMAIN entries
  BY <1>1, PopMembers
<1>3. /\ DOMAIN entries' = DOMAIN entries \ {old} /\ \A k \in DOMAIN entries' : entries'[k] = entries[k]
      /\ heap' = [heap EXCEPT ![entries[old].data] = Free] /\ UNCHANGED <<thr, activeBuf>>
  BY DEF Evict
<1> HIDE DEF old
<1>4. \A u \in Threads : thr[u].pc \notin {"fill", "copy"}
  BY NoSlots DEF Evict, Apart
<1>5. \A k \in DOMAIN entries' : heap'[entries'[k].data] = k
  <2>1. ASSUME NEW k \in DOMAIN entries' PROVE heap'[entries'[k].data] = k
    <3>1. entries[k].data # entries[old].data /\ entries[k].data \in Addrs /\ heap[entries[k].data] = k
      BY <1>2, <1>3, <1>4 DEF CacheInv, TypeInv, HeapInv, Apart, FilledInv
    <3>2. QED
      BY <1>3, <3>1 DEF CacheInv, TypeInv
  <2>2. QED
    BY <2>1
<1>6. BuildsAlone' /\ ActiveInv'
  BY <1>3 DEF Apart, BuildsAlone, ActiveInv
<1>7. SlotInv' /\ FilledInv'
  BY <1>3, <1>4, <1>5 DEF SlotInv, FilledInv
<1>8. QED
  BY <1>6, <1>7 DEF Apart

\* A load's buffer is no entry's before it is read, when it has failed, and when it is in.
LEMMA LoadsApart ==
  ASSUME CacheInv, LocalInv, Apart, NEW t \in Threads,
         \/ Load(t) \/ LoadFails(t) \/ \E a \in Addrs : AllocForLoad(t, a)
  PROVE  Apart'
<1>1. thr[t] \in Local /\ thr[t].op # "build"
  <2>1. thr[t] \in Local /\ LocalOk(thr[t])
    BY DEF CacheInv, TypeInv, LocalInv
  <2>2. QED
    BY <2>1 DEF Load, LoadFails, AllocForLoad, LocalOk
<1>2. \A u \in Threads : thr[u].pc \notin {"fill", "copy"}
  BY NoSlots DEF Load, LoadFails, AllocForLoad, Evicted, Apart
<1>3. \A u \in Threads : u # t => thr'[u] = thr[u]
  BY DEF Load, LoadFails, AllocForLoad, CacheInv, TypeInv
<1>4. thr'[t].op # "build" /\ thr'[t].pc \notin {"fill", "copy"}
  <2>1. CASE Load(t) \/ LoadFails(t)
    BY <2>1 DEF Load, LoadFails, Idle, CacheInv, TypeInv
  <2>2. ASSUME NEW a \in Addrs, AllocForLoad(t, a) PROVE thr'[t].op = thr[t].op /\ thr'[t].pc = "load"
    BY <1>1, <2>2 DEF AllocForLoad, CacheInv, TypeInv, Local
  <2>3. QED
    BY <1>1, <2>1, <2>2
<1>5. \A k \in DOMAIN entries : entries[k].data \in Addrs /\ heap[entries[k].data] = k
  BY <1>2 DEF CacheInv, TypeInv, Apart, FilledInv
<1>6. \A k \in DOMAIN entries' : heap'[entries'[k].data] = k
  <2>1. CASE Load(t) \/ LoadFails(t)
    <3> DEFINE b == thr[t].buf
               key == thr[t].key
    <3>1. b \in Loading /\ b \in Addrs /\ key \in EntryKeys /\ ~Has(key)
      BY <2>1 DEF Load, LoadFails, Loading, CacheInv, MissInv
    <3>2. \A k \in DOMAIN entries : entries[k].data # b
      BY <3>1 DEF CacheInv, HeapInv
    <3>3. \A c \in Addrs : c # b => heap'[c] = heap[c]
      BY <2>1 DEF Load, LoadFails, CacheInv, TypeInv
    <3>4. CASE LoadFails(t)
      BY <1>5, <3>2, <3>3, <3>4 DEF LoadFails
    <3>5. CASE Load(t)
      <4>1. /\ DOMAIN entries' = DOMAIN entries \cup {key} /\ entries'[key].data = b
            /\ \A k \in DOMAIN entries : entries'[k] = entries[k]
        BY <3>1, <3>5 DEF Load, Insert, Has
      <4>2. heap'[b] = key
        BY <3>1, <3>5 DEF Load, CacheInv, TypeInv
      <4> HIDE DEF b, key
      <4>3. QED
        BY <1>5, <3>2, <3>3, <4>1, <4>2
    <3>6. QED
      BY <2>1, <3>4, <3>5
  <2>2. ASSUME NEW a \in Addrs, AllocForLoad(t, a) PROVE \A k \in DOMAIN entries' : heap'[entries'[k].data] = k
    <3>1. \A k \in DOMAIN entries : entries[k].data # a
      BY <2>2 DEF AllocForLoad, CacheInv, HeapInv, Owned
    <3>2. entries' = entries /\ \A c \in Addrs : c # a => heap'[c] = heap[c]
      BY <2>2 DEF AllocForLoad, CacheInv, TypeInv
    <3>3. QED
      BY <1>5, <3>1, <3>2
  <2>3. QED
    BY <2>1, <2>2
<1>7. \A u \in Threads : thr'[u].pc \notin {"fill", "copy"}
  BY <1>2, <1>3, <1>4
<1>8. BuildsAlone'
  BY <1>3, <1>4, <1>7 DEF Apart, BuildsAlone
<1>9. SlotInv' /\ FilledInv'
  BY <1>6, <1>7 DEF SlotInv, FilledInv
<1>10. ActiveInv'
  <2>1. UNCHANGED activeBuf
    BY DEF Load, LoadFails, AllocForLoad
  <2>2. QED
    BY <1>3, <1>4, <2>1, SameActive
<1>11. QED
  BY <1>8, <1>9, <1>10 DEF Apart

\* A slot that is taken is the one entry that is not filled.
LEMMA AllocSlotApart ==
  ASSUME CacheInv, LocalInv, Apart, NEW t \in Threads, NEW a \in Addrs, AllocSlot(t, a)
  PROVE  Apart'
<1> DEFINE key == thr[t].key
<1>1. thr[t] \in Local /\ thr[t].pc = "evict" /\ thr[t].op = "build" /\ mutex = t /\ heap[a] = Free
  BY DEF AllocSlot, Evicted, CacheInv, TypeInv, MissInv
<1>2. key \in EntryKeys /\ ~Has(key)
  BY <1>1 DEF CacheInv, MissInv
<1>3. thr'[t] = [thr[t] EXCEPT !.pc = "fill", !.buf = a] /\ \A u \in Threads : u # t => thr'[u] = thr[u]
  BY DEF AllocSlot, CacheInv, TypeInv
<1>4. /\ thr'[t].pc = "fill" /\ thr'[t].buf = a /\ thr'[t].key = key /\ thr'[t].op = "build"
      /\ thr'[t].todo = thr[t].todo /\ thr'[t].asked = thr[t].asked
  BY <1>1, <1>3 DEF Local
<1>5. /\ DOMAIN entries' = DOMAIN entries \cup {key} /\ entries'[key].data = a
      /\ \A k \in DOMAIN entries : entries'[k] = entries[k]
  BY <1>2 DEF AllocSlot, Insert, Has
<1> HIDE DEF key
<1>6. \A u \in Threads : u # t => thr[u].op \notin {"build", "ensure"}
  BY <1>1, NoEnsure DEF Apart, BuildsAlone
<1>7. \A u \in Threads : thr[u].pc \notin {"fill", "copy"}
  BY <1>1, NoSlots DEF Apart
<1>8. BuildsAlone'
  BY <1>3, <1>4, <1>6 DEF BuildsAlone
<1>9. SlotInv'
  BY <1>3, <1>4, <1>5, <1>7 DEF SlotInv, Has
<1>10. FilledInv'
  <2>1. \A k \in DOMAIN entries : entries[k].data \in Addrs /\ heap[entries[k].data] = k /\ entries[k].data # a
    BY <1>1, <1>7 DEF CacheInv, TypeInv, HeapInv, Owned, Apart, FilledInv
  <2>2. \A c \in Addrs : c # a => heap'[c] = heap[c]
    BY DEF AllocSlot, CacheInv, TypeInv
  <2>3. \A k \in DOMAIN entries : heap'[entries'[k].data] = k
    BY <1>5, <2>1, <2>2
  <2>4. QED
    BY <1>4, <1>5, <2>3 DEF FilledInv
<1>11. ActiveInv'
  BY <1>1, <1>3, <1>4, SameActive DEF AllocSlot
<1>12. QED
  BY <1>8, <1>9, <1>10, <1>11 DEF Apart

\* What is written into the slot is its own expert, and the slot is still there.
LEMMA FillApart ==
  ASSUME CacheInv, LocalInv, Apart, NEW t \in Threads, Fill(t)
  PROVE  Apart'
<1> DEFINE key == thr[t].key
           b == thr[t].buf
<1>1. thr[t] \in Local /\ thr[t].pc = "fill" /\ b \in Addrs
  BY DEF Fill, CacheInv, TypeInv, MissInv
<1>2. thr[t].op = "build"
  BY <1>1, FillersBuild
<1>3. Has(key) /\ entries[key].data = b
  BY <1>1 DEF Apart, SlotInv
<1>4. heap[b] # Free
  BY <1>1, <1>3 DEF CacheInv, HeapInv, Owned, Has
<1>5. thr'[t] = [thr[t] EXCEPT !.pc = "copy"] /\ \A u \in Threads : u # t => thr'[u] = thr[u]
  BY DEF Fill, CacheInv, TypeInv
<1>6. /\ thr'[t].pc = "copy" /\ thr'[t].buf = b /\ thr'[t].key = key /\ thr'[t].op = "build"
      /\ thr'[t].todo = thr[t].todo /\ thr'[t].asked = thr[t].asked
  BY <1>1, <1>2, <1>5 DEF Local
<1>7. heap'[b] = key /\ \A c \in Addrs : c # b => heap'[c] = heap[c]
  BY <1>1, <1>4 DEF Fill, CacheInv, TypeInv
<1>8. UNCHANGED <<entries, activeBuf>>
  BY DEF Fill
<1> HIDE DEF key, b
<1>9. \A u \in Threads : u # t => thr[u].op \notin {"build", "ensure"} /\ thr[u].pc \notin {"fill", "copy"}
  <2>1. \A u \in Threads : u # t => thr[u].op # "build" /\ thr[u].op # "ensure"
    BY <1>1, <1>2 DEF Apart, BuildsAlone
  <2>2. QED
    BY <2>1, FillersBuild
<1>10. BuildsAlone'
  BY <1>5, <1>6, <1>9 DEF BuildsAlone
<1>11. SlotInv'
  BY <1>3, <1>5, <1>6, <1>7, <1>8, <1>9 DEF SlotInv, Has
<1>12. FilledInv'
  <2>1. ASSUME NEW k \in DOMAIN entries, k # key PROVE heap'[entries[k].data] = k
    <3>1. entries[k].data \in Addrs /\ entries[k].data # b
      BY <1>3, <2>1 DEF CacheInv, TypeInv, HeapInv, Has
    <3>2. heap[entries[k].data] = k
      BY <1>9, <2>1 DEF Apart, FilledInv, key
    <3>3. QED
      BY <1>7, <3>1, <3>2
  <2>2. QED
    BY <1>3, <1>7, <1>8, <2>1 DEF FilledInv
<1>13. ActiveInv'
  BY <1>2, <1>5, <1>6, <1>8, SameActive
<1>14. QED
  BY <1>10, <1>11, <1>12, <1>13 DEF Apart

LEMMA AllocFailsApart ==
  ASSUME CacheInv, LocalInv, Apart, NEW t \in Threads, AllocFails(t)
  PROVE  Apart'
<1> DEFINE s == [thr[t] EXCEPT !.pc = "copy", !.buf = Null]
<1>1. thr[t] \in Local /\ thr[t].pc = "evict" /\ mutex = t /\ UNCHANGED <<entries, heap, activeBuf>>
  BY DEF AllocFails, Evicted, CacheInv, TypeInv, MissInv, cacheVars
<1>2. thr' = [thr EXCEPT ![t] = Idle] \/ (thr' = [thr EXCEPT ![t] = s] /\ thr[t].op # "ensure")
  BY DEF AllocFails
<1>3. s.pc = "copy" /\ s.buf = Null /\ s.op = thr[t].op /\ s.todo = thr[t].todo /\ s.asked = thr[t].asked
  BY <1>1 DEF Local
<1>4. Idle.pc = "idle" /\ Idle.op = "none"
  BY DEF Idle
<1> HIDE DEF s
<1>5. CASE thr' = [thr EXCEPT ![t] = Idle]
  BY <1>1, <1>4, <1>5, QuietApart
<1>6. CASE thr' = [thr EXCEPT ![t] = s] /\ thr[t].op # "ensure"
  BY <1>1, <1>3, <1>6, QuietApart
<1>7. QED
  BY <1>2, <1>5, <1>6

LEMMA BuiltApart ==
  ASSUME CacheInv, LocalInv, Apart, NEW t \in Threads, Built(t)
  PROVE  Apart'
<1>1. thr'[t] = Idle /\ (\A u \in Threads : u # t => thr'[u] = thr[u]) /\ thr[t].pc = "next"
  BY DEF Built, CacheInv, TypeInv
<1>2. thr[t].op = "build"
  BY <1>1, FillersBuild
<1>3. \A u \in Threads : thr'[u].op # "build" /\ thr'[u].pc \notin {"fill", "copy"}
  <2>1. \A u \in Threads : u # t => thr[u].op # "build"
    BY <1>2 DEF Apart, BuildsAlone
  <2>2. QED
    BY <1>1, <2>1, FillersBuild DEF Idle
<1>4. UNCHANGED <<entries, heap>>
  BY DEF Built, cacheVars
<1>5. FilledInv'
  BY <1>1, <1>4 DEF Apart, FilledInv
<1>6. QED
  BY <1>3, <1>5 DEF Apart, BuildsAlone, SlotInv, ActiveInv

LEMMA CallbackApart ==
  ASSUME CacheInv, LocalInv, Apart, NEW t \in Threads,
         CallbackReturns(t) \/ \E x \in Tensors, ids \in IdLists : Callback(t, x, ids)
  PROVE  Apart'
<1> DEFINE s == [thr[t] EXCEPT !.pc = "advised"]
<1>1. UNCHANGED <<entries, heap, activeBuf>> /\ thr[t].pc \in {"idle", "advised"}
  BY DEF CallbackReturns, Callback, cacheVars, Idle
<1>2. thr' = [thr EXCEPT ![t] = Idle] \/ thr' = [thr EXCEPT ![t] = s]
  BY DEF CallbackReturns, Callback
<1>3. s.pc = "advised" /\ s.op = thr[t].op /\ s.todo = thr[t].todo /\ s.asked = thr[t].asked
  BY DEF CacheInv, TypeInv, Local
<1>4. Idle.pc = "idle" /\ Idle.op = "none"
  BY DEF Idle
<1> HIDE DEF s
<1>5. QED
  BY <1>1, <1>2, <1>3, <1>4, QuietApart

LEMMA InitPack == Init => PackInv
<1> SUFFICES ASSUME Init PROVE PackInv
  OBVIOUS
<1>1. DOMAIN entries = {} /\ \A t \in Threads : thr[t] = Idle
  BY DEF Init
<1>2. LocalInv
  BY <1>1, IdleOk DEF LocalInv
<1>3. \A t \in Threads : thr[t].op = "none" /\ thr[t].pc = "idle"
  <2>1. Idle.op = "none" /\ Idle.pc = "idle"
    BY DEF Idle
  <2>2. QED
    BY <1>1, <2>1
<1>4. BuildsAlone /\ SlotInv /\ ActiveInv
  BY <1>3 DEF BuildsAlone, SlotInv, ActiveInv
<1>5. FilledInv
  BY <1>1 DEF FilledInv
<1>6. QED
  BY <1>2, <1>4, <1>5 DEF PackInv, Apart

LEMMA PackStep ==
  ASSUME CacheInv, PackInv, [Next]_vars
  PROVE  PackInv'
<1>1. LocalInv'
  BY LocalStep DEF PackInv
<1>2. SUFFICES ASSUME ~mixed' PROVE Apart'
  BY <1>1 DEF PackInv
<1>3. CASE Destroy
  <2>1. DOMAIN entries' = {} /\ \A t \in Threads : thr'[t].op = "none" /\ thr'[t].pc = "idle"
    BY <1>3 DEF Destroy, Idle
  <2>2. BuildsAlone' /\ SlotInv' /\ ActiveInv'
    BY <2>1 DEF BuildsAlone, SlotInv, ActiveInv
  <2>3. FilledInv'
    BY <2>1 DEF FilledInv
  <2>4. QED
    BY <2>2, <2>3 DEF Apart
<1>4. CASE UNCHANGED <<entries, heap, thr, activeBuf, mixed>>
  BY <1>2, <1>4 DEF PackInv, Apart, BuildsAlone, SlotInv, FilledInv, ActiveInv, Has
<1>5. ASSUME NEW t \in Threads, NEW k \in EntryKeys, Touch(t, k) \/ Ensure(t, k) PROVE Apart'
  <2>1. CASE Touch(t, k)
    BY <1>4, <2>1 DEF Touch, HitEntry
  <2>2. CASE Ensure(t, k)
    <3>1. ~mixed /\ ~Building
      BY <1>2, <2>2 DEF Ensure
    <3>2. QED
      BY <2>2, <3>1, EnsureApart DEF PackInv
  <2>3. QED
    BY <1>5, <2>1, <2>2
<1>6. ASSUME NEW t \in Threads, NEW x \in Tensors, NEW ids \in IdLists, Build(t, x, ids) PROVE Apart'
  <2>1. ~mixed /\ ~Building
    BY <1>2, <1>6 DEF Build
  <2>2. QED
    BY <1>6, <2>1, BuildApart DEF PackInv
<1>7. ASSUME NEW t \in Threads,
             \/ SkipId(t) \/ GetOrAlloc(t) \/ Evict(t) \/ \E a \in Addrs : AllocForLoad(t, a) \/ AllocSlot(t, a)
             \/ Load(t) \/ LoadFails(t) \/ AllocFails(t) \/ Fill(t) \/ Copy(t) \/ Built(t) \/ CallbackReturns(t)
             \/ \E x \in Tensors, ids \in IdLists : Callback(t, x, ids)
      PROVE  Apart'
  <2>1. ~mixed
    BY <1>2, <1>7
       DEF SkipId, GetOrAlloc, Evict, AllocForLoad, AllocSlot, Load, LoadFails, AllocFails, Fill, Copy, Built,
           CallbackReturns, Callback
  <2>2. CacheInv /\ LocalInv /\ Apart
    BY <2>1 DEF PackInv
  <2>3. QED
    BY <1>7, <2>2, SkipApart, GetOrAllocApart, EvictApart, LoadsApart, AllocSlotApart, AllocFailsApart,
       FillApart, CopyApart, BuiltApart, CallbackApart
<1>8. QED
  BY <1>3, <1>4, <1>5, <1>6, <1>7 DEF Next, vars, cacheVars

LEMMA PackInvPacks == CacheInv /\ PackInv => PackedAsAsked
<1> SUFFICES ASSUME CacheInv, PackInv, ~mixed
             PROVE  /\ \A t \in Threads : thr[t].op = "build" =>
                         activeBuf = Packed(thr[t].asked)[Len(thr[t].asked) - Len(thr[t].todo)]
                    /\ Building \/ \A k \in DOMAIN entries : heap[entries[k].data] = k
  BY DEF PackedAsAsked
<1>1. Apart /\ LocalInv
  BY DEF PackInv
<1>2. Building \/ \A t \in Threads : thr[t].pc # "fill"
  BY <1>1, FillersBuild DEF Building
<1>3. QED
  BY <1>1, <1>2 DEF Apart, ActiveInv, FilledInv

\* However the builds evict each other's experts and whatever allocations fail, as long
\* as no call begins during a build: it packs the bytes of what it was asked for.
THEOREM PacksWhatIsAsked == Spec => []PackedAsAsked
<1>1. CacheInv /\ PackInv /\ [Next]_vars => PackInv'
  BY PackStep
<1>2. QED
  BY <1>1, InitPack, PackInvPacks, CacheInvHolds, PTL DEF Spec
=============================================================================
