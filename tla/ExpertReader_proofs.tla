-------------------------- MODULE ExpertReader_proofs --------------------------
(***************************************************************************)
(* The expert reader, for any layers, experts, id lists, workers and       *)
(* capacities: its caches hold whole experts only, what get_experts        *)
(* returns is what was asked, a speculative read never costs a demanded    *)
(* expert its place, and close leaves no read on a closed file.            *)
(***************************************************************************)
EXTENDS ExpertReader, LRUExpertCache_proofs

GetStates == {"lookup", "fetch", "leftovers"}
ClosingStates == {"close", "join reads", "join backfill", "closed"}

Spare == FutureIds \ Referenced

\* A future somebody refers to is for a block.
FuturesHaveBlocks == \A f \in Referenced \cap FutureIds : futures[f].block \in Key

\* Where the caller is in the list of its call.
CallPlace ==
  /\ pc \in {"idle"} \cup ClosingStates => call = NoCall
  /\ pc \in {"prefetch", "lookup", "fetch"} => call.layer \in Layers /\ call.pos \in 1 .. Len(call.ids)
  /\ pc = "leftovers" => call.layer \in Layers /\ call.pos = Len(call.ids) + 1

\* The ids left to be submitted find a spare future each.
RoomLeft ==
  pc = "prefetch" \/ (Fallback /\ pc \in {"lookup", "fetch"}) =>
    Cardinality(Spare) + call.pos >= Len(call.ids) + 1

ReaderBase ==
  /\ ReaderTypeOK
  /\ LruInv
  /\ ~LruEnabled => cache = <<>>
  /\ victim \in Dicts(Key, Values)
  /\ Len(victim) <= VictimCap
  /\ FuturesHaveBlocks
  /\ CallPlace
  /\ RoomLeft
  /\ \A w \in Workers : worker[w].state # "idle" => worker[w].future \in FutureIds

\* What the caches and the call hold is whole and in its place.
BlocksInPlace ==
  /\ CachesHoldWholeExperts
  /\ ServedAsAsked
  /\ \A l \in Layers : \A f \in Members(prefetch[l]) : futures[f].block[1] = l
  /\ \A f \in Members(call.held) : futures[f].block[1] = call.layer

Winding ==
  /\ FilesOutliveReads
  /\ pc \in ClosingStates => \A l \in Layers : prefetch[l] = <<>>
  /\ pc \in ClosingStates \ {"close"} => queue = <<>>
  /\ pc \in {"join backfill", "closed"} => ReadersDone /\ jobs = <<>>
  /\ pc = "closed" => job = <<>>

Merging ==
  /\ pc \in GetStates => prefetch[call.layer] = <<>>
  /\ \A l \in Layers : \A f \in Members(prefetch[l]) : futures[f].state # "cancelled"
  /\ \A l \in Layers : \A f, g \in Members(prefetch[l]) : futures[f].block = futures[g].block => f = g

Asked == {x.id : x \in call.experts}
AskedKeys == {<<call.layer, x.id>> : x \in call.experts}

CallProgress ==
  pc \in GetStates => Asked = {call.ids[i] : i \in 1 .. call.pos - 1}

Apart ==
  ~Fallback =>
    /\ call.backfill = <<>> /\ jobs = <<>> /\ job = <<>>
    /\ Keys(cache) \cap Keys(victim) = {}
    /\ \A l \in Layers : \A f \in Members(prefetch[l]) : futures[f].block \notin Keys(cache)
    /\ \A f \in Members(call.held) : futures[f].block \in Keys(cache) => Served(IdOf(f))

MostRecent ==
  LruEnabled /\ ~Fallback /\ pc \in GetStates /\ Len(call.ids) <= MaxExperts =>
    /\ AskedKeys \subseteq Keys(cache)
    /\ \A k \in Keys(cache) \ AskedKeys, s \in AskedKeys : <<k, s>> \in Older(cache)
-----------------------------------------------------------------------------
(* Sequences of futures, and who refers to a future.                       *)

USE FlagsAssumption, VictimAssumption, IdListsAssumption, NobodyAssumption, FutureIdsAssumption

FutureType == [block : Key \cup {Nobody}, state : FutureStates]

\* The members of a sequence are of its type; an item appended is one more.
LEMMA MembersOf ==
  ASSUME NEW S, NEW s \in Seq(S)
  PROVE  Members(s) \subseteq S /\ \A i \in 1 .. Len(s) : s[i] \in Members(s)
BY DEF Members

\* An item appended is one more member.
LEMMA MembersAppend ==
  ASSUME NEW S, NEW s \in Seq(S), NEW x \in S
  PROVE  Append(s, x) \in Seq(S) /\ Members(Append(s, x)) = Members(s) \cup {x}
<1>1. /\ Append(s, x) \in Seq(S)
      /\ DOMAIN Append(s, x) = 1 .. Len(s) + 1
      /\ \A i \in 1 .. Len(s) : Append(s, x)[i] = s[i]
      /\ Append(s, x)[Len(s) + 1] = x
  OBVIOUS
<1> DEFINE t == Append(s, x)
<1>2. DOMAIN s = 1 .. Len(s) /\ Len(s) \in Nat
  OBVIOUS
<1> HIDE DEF t
<1>3. ASSUME NEW i \in 1 .. Len(s) + 1 PROVE t[i] \in Members(s) \cup {x}
  BY <1>1, <1>2 DEF Members, t
<1>4. ASSUME NEW i \in 1 .. Len(s) PROVE s[i] \in Members(t)
  <2>1. i \in DOMAIN t /\ t[i] = s[i]
    BY <1>1, <1>2 DEF t
  <2>2. QED
    BY <2>1 DEF Members
<1>5. x \in Members(t)
  <2>1. Len(s) + 1 \in DOMAIN t /\ t[Len(s) + 1] = x
    BY <1>1, <1>2 DEF t
  <2>2. QED
    BY <2>1 DEF Members
<1>6. Members(t) = Members(s) \cup {x}
  <2>1. ASSUME NEW y \in Members(t) PROVE y \in Members(s) \cup {x}
    BY <1>1, <1>3 DEF Members, t
  <2>2. ASSUME NEW y \in Members(s) PROVE y \in Members(t)
    BY <1>2, <1>4 DEF Members
  <2>3. QED
    BY <1>5, <2>1, <2>2
<1>7. QED
  BY <1>1, <1>6 DEF t

\* Head and tail of a sequence that is not empty.
LEMMA MembersTail ==
  ASSUME NEW S, NEW s \in Seq(S), s # <<>>
  PROVE  /\ Head(s) \in S
         /\ Tail(s) \in Seq(S)
         /\ Head(s) \in Members(s)
         /\ Members(Tail(s)) \subseteq Members(s)
<1>1. /\ Tail(s) \in Seq(S)
      /\ Len(Tail(s)) = Len(s) - 1
      /\ \A i \in 1 .. Len(Tail(s)) : Tail(s)[i] = s[i + 1]
      /\ Head(s) = s[1] /\ Head(s) \in S
  BY HeadTailProperties
<1>2. Len(s) \in Nat \ {0} /\ DOMAIN s = 1 .. Len(s)
  BY EmptySeq
<1> DEFINE t == Tail(s)
<1>3. DOMAIN t = 1 .. Len(s) - 1
  BY <1>1
<1> HIDE DEF t
<1>4. ASSUME NEW i \in 1 .. Len(s) - 1 PROVE t[i] \in Members(s)
  <2>1. i + 1 \in DOMAIN s /\ t[i] = s[i + 1]
    BY <1>1, <1>2 DEF t
  <2>2. QED
    BY <2>1 DEF Members
<1>5. Members(t) \subseteq Members(s)
  BY <1>3, <1>4 DEF Members
<1>6. Head(s) \in Members(s)
  <2>1. 1 \in DOMAIN s
    BY <1>2
  <2>2. QED
    BY <1>1, <2>1 DEF Members
<1>7. QED
  BY <1>1, <1>5, <1>6 DEF t

\* The members of a concatenation.
LEMMA MembersCat ==
  ASSUME NEW S, NEW s \in Seq(S), NEW t \in Seq(S)
  PROVE  s \o t \in Seq(S) /\ Members(s \o t) = Members(s) \cup Members(t)
<1> DEFINE u == s \o t
<1>1. /\ u \in Seq(S)
      /\ Len(u) = Len(s) + Len(t)
      /\ \A i \in 1 .. Len(u) : u[i] = IF i <= Len(s) THEN s[i] ELSE t[i - Len(s)]
  BY ConcatProperties
<1>2. /\ Len(s) \in Nat /\ DOMAIN s = 1 .. Len(s)
      /\ Len(t) \in Nat /\ DOMAIN t = 1 .. Len(t)
      /\ DOMAIN u = 1 .. Len(s) + Len(t)
  BY <1>1
<1> HIDE DEF u
<1>3. ASSUME NEW i \in 1 .. Len(s) + Len(t) PROVE u[i] \in Members(s) \cup Members(t)
  <2>1. CASE i <= Len(s)
    BY <1>1, <1>2, <2>1 DEF Members
  <2>2. CASE ~(i <= Len(s))
    <3>1. i - Len(s) \in DOMAIN t /\ u[i] = t[i - Len(s)]
      BY <1>1, <1>2, <2>2
    <3>2. QED
      BY <3>1 DEF Members
  <2>3. QED
    BY <2>1, <2>2
<1>4. ASSUME NEW i \in 1 .. Len(s) PROVE s[i] \in Members(u)
  <2>1. i \in DOMAIN u /\ u[i] = s[i]
    BY <1>1, <1>2
  <2>2. QED
    BY <2>1 DEF Members
<1>5. ASSUME NEW i \in 1 .. Len(t) PROVE t[i] \in Members(u)
  <2>1. i + Len(s) \in DOMAIN u /\ u[i + Len(s)] = t[i]
    BY <1>1, <1>2
  <2>2. QED
    BY <2>1 DEF Members
<1>6. Members(u) = Members(s) \cup Members(t)
  <2>1. ASSUME NEW y \in Members(u) PROVE y \in Members(s) \cup Members(t)
    BY <1>2, <1>3 DEF Members
  <2>2. ASSUME NEW y \in Members(s) \cup Members(t) PROVE y \in Members(u)
    BY <1>2, <1>4, <1>5 DEF Members
  <2>3. QED
    BY <2>1, <2>2
<1>7. QED
  BY <1>1, <1>6 DEF u

\* The empty sequence has none.
LEMMA MembersEmpty == Members(<<>>) = {}
BY DEF Members

\* What refers to a future.
LEMMA RefsContain ==
  /\ \A l \in Layers : Members(prefetch[l]) \subseteq Referenced
  /\ Members(queue) \subseteq Referenced
  /\ \A w \in Workers : worker[w].future \in Referenced
  /\ Members(call.held) \subseteq Referenced
  /\ Members(call.backfill) \subseteq Referenced
  /\ \A i \in DOMAIN jobs : Members(jobs[i]) \subseteq Referenced
  /\ Members(job) \subseteq Referenced
<1> DEFINE P == UNION {Members(prefetch[l]) : l \in Layers}
           J == UNION {Members(jobs[i]) : i \in DOMAIN jobs}
<1>1. Referenced = P \cup Members(queue) \cup {worker[w].future : w \in Workers}
                     \cup Members(call.held) \cup Members(call.backfill) \cup J \cup Members(job)
  BY DEF Referenced
<1>2. \A l \in Layers : Members(prefetch[l]) \subseteq P
  OBVIOUS
<1>3. \A i \in DOMAIN jobs : Members(jobs[i]) \subseteq J
  OBVIOUS
<1> HIDE DEF P, J
<1>4. QED
  BY <1>1, <1>2, <1>3

\* After a step only what it put somewhere can be referred to.
LEMMA RefsWithin ==
  ASSUME NEW R,
         \A l \in Layers : Members(prefetch'[l]) \subseteq R,
         Members(queue') \subseteq R,
         \A w \in Workers : worker'[w].future \in R,
         Members(call'.held) \subseteq R,
         Members(call'.backfill) \subseteq R,
         \A i \in DOMAIN jobs' : Members(jobs'[i]) \subseteq R,
         Members(job') \subseteq R
  PROVE  Referenced' \subseteq R
<1> DEFINE P == UNION {Members(prefetch'[l]) : l \in Layers}
           J == UNION {Members(jobs'[i]) : i \in DOMAIN jobs'}
<1>1. Referenced' = P \cup Members(queue') \cup {worker'[w].future : w \in Workers}
                      \cup Members(call'.held) \cup Members(call'.backfill) \cup J \cup Members(job')
  BY DEF Referenced, Members
<1>2. P \subseteq R
  BY Zenon
<1>3. J \subseteq R
  BY Zenon
<1> HIDE DEF P, J
<1>4. QED
  BY <1>1, <1>2, <1>3

\* FuturesBecome gives the futures still referred to their new value.
LEMMA BecomeValue ==
  ASSUME NEW g, FuturesBecome(g), NEW f \in FutureIds, f \in Referenced'
  PROVE  futures'[f] = g[f]
BY DEF FuturesBecome

\* The futures keep their type when their new values have it.
LEMMA BecomeType ==
  ASSUME NEW g \in [FutureIds -> FutureType], FuturesBecome(g)
  PROVE  futures' \in [FutureIds -> FutureType]
<1>1. Unused \in FutureType
  BY DEF Unused, FutureType, FutureStates
<1>2. futures' = [f \in FutureIds |-> IF f \in Referenced' THEN g[f] ELSE Unused]
  BY DEF FuturesBecome
<1>3. QED
  BY <1>1, <1>2

\* Cancelling changes no block, and only the state of a pending future it names.
LEMMA CancelledProps ==
  ASSUME futures \in [FutureIds -> FutureType], NEW S
  PROVE  /\ Cancelled(S) \in [FutureIds -> FutureType]
         /\ \A f \in FutureIds :
              /\ Cancelled(S)[f].block = futures[f].block
              /\ f \notin S \/ futures[f].state # "pending" => Cancelled(S)[f] = futures[f]
BY DEF Cancelled, FutureType, FutureStates

\* While ids are left to be submitted there is a spare future.
LEMMA FreshIsSpare ==
  ASSUME CallPlace, RoomLeft, call.ids \in Seq(Experts), pc = "prefetch" \/ (Fallback /\ pc = "fetch")
  PROVE  Fresh \in FutureIds /\ Fresh \notin Referenced
<1>1. call.pos \in 1 .. Len(call.ids) /\ Cardinality(Spare) + call.pos >= Len(call.ids) + 1
  BY DEF CallPlace, RoomLeft
<1>2. IsFiniteSet(Spare) /\ Cardinality(Spare) \in Nat
  BY FS_Subset, FS_CardinalityType DEF Spare
<1>3. Cardinality(Spare) # 0
  BY <1>1, <1>2
<1>4. PICK f \in FutureIds : f \notin Referenced
  BY <1>2, <1>3, FS_EmptySet DEF Spare
<1>5. QED
  BY <1>4 DEF Fresh

-----------------------------------------------------------------------------
(* The caches.                                                             *)

\* The block the caller is at, and what is read from a block, have their types.
LEMMA CurrentKeyType ==
  ASSUME ReaderBase, pc \in {"prefetch", "lookup", "fetch"}
  PROVE  /\ call.layer \in Layers
         /\ CurrentId \in Experts
         /\ CurrentKey \in Key
         /\ call.ids \in Seq(Experts)
         /\ call.pos \in 1 .. Len(call.ids)
<1>1. call.ids \in Seq(Experts) /\ call.layer \in Layers /\ call.pos \in 1 .. Len(call.ids)
  BY DEF ReaderBase, ReaderTypeOK, CallPlace
<1>2. CurrentId \in Experts
  BY <1>1 DEF CurrentId
<1>3. QED
  BY <1>1, <1>2 DEF CurrentKey, Key

\* Whole and mixed experts are values of the cache.
LEMMA BlockValues ==
  ASSUME NEW k \in Key
  PROVE  Whole(k) \in Values /\ Mixed(k) \in Values
BY ValuesAssumption DEF Whole, Mixed

\* A future the call holds, or a job waits for, is of a block.
LEMMA BlockOf ==
  ASSUME ReaderBase, NEW f \in Referenced, f \in FutureIds
  PROVE  /\ futures[f] \in FutureType
         /\ futures[f].block \in Key
         /\ futures[f].block[1] \in Layers
         /\ IdOf(f) \in Experts
         /\ futures[f].block = <<futures[f].block[1], IdOf(f)>>
<1>1. futures[f] \in FutureType /\ futures[f].block \in Key
  BY DEF ReaderBase, ReaderTypeOK, FuturesHaveBlocks, FutureType
<1>2. QED
  BY <1>1, KeyParts DEF IdOf

\* The futures held, awaited or prefetched are futures, and referred to.
LEMMA HeldFutures ==
  ASSUME ReaderBase
  PROVE  /\ Members(call.held) \subseteq FutureIds \cap Referenced
         /\ Members(call.backfill) \subseteq FutureIds \cap Referenced
         /\ Members(job) \subseteq FutureIds \cap Referenced
         /\ \A l \in Layers : Members(prefetch[l]) \subseteq FutureIds \cap Referenced
<1>1. /\ call.held \in Seq(FutureIds)
      /\ call.backfill \in Seq(FutureIds)
      /\ job \in Seq(FutureIds)
      /\ \A l \in Layers : prefetch[l] \in Seq(FutureIds)
  BY DEF ReaderBase, ReaderTypeOK
<1>2. QED
  BY <1>1, MembersOf, RefsContain

\* An item put in a dictionary is its only new key, and the youngest.
LEMMA AssignKeys ==
  ASSUME NEW K, NEW V, NEW d \in Dicts(K, V), NEW k \in K, NEW v \in V
  PROVE  /\ Assign(d, k, v) \in Dicts(K, V)
         /\ Keys(Assign(d, k, v)) = Keys(d) \cup {k}
         /\ Len(Assign(d, k, v)) = IF HasKey(d, k) THEN Len(d) ELSE Len(d) + 1
<1>1. CASE HasKey(d, k)
  BY <1>1, RefreshKeys, KeysHasKey DEF Assign
<1>2. CASE ~HasKey(d, k)
  BY <1>2, Append1Keys DEF Assign
<1>3. QED
  BY <1>1, <1>2

\* The victim buffer keeps to its capacity, whatever is parked in it.
LEMMA ParkedKeys ==
  ASSUME NEW V, victim \in Dicts(Key, V), Len(victim) <= VictimCap, NEW k \in Key, NEW v \in V
  PROVE  /\ Parked(k, v) \in Dicts(Key, V)
         /\ Keys(Parked(k, v)) \subseteq Keys(victim) \cup {k}
         /\ Len(Parked(k, v)) <= VictimCap
<1> DEFINE d == Assign(victim, k, v)
<1>1. d \in Dicts(Key, V) /\ Keys(d) = Keys(victim) \cup {k} /\ Len(d) <= VictimCap + 1
  BY AssignKeys, DictShape
<1>2. Parked(k, v) = IF Len(d) > VictimCap THEN PopOldest(d) ELSE d
  BY DEF Parked
<1> HIDE DEF d
<1>3. Len(d) \in Nat
  BY <1>1, DictShape
<1>4. CASE Len(d) > VictimCap
  <2>1. Len(d) > 0
    BY <1>3, <1>4
  <2>2. /\ PopOldest(d) \in Dicts(Key, V)
        /\ Keys(PopOldest(d)) = Keys(d) \ {d[1].key}
        /\ Len(PopOldest(d)) = Len(d) - 1
    BY <1>1, <2>1, PopOldestKeys
  <2>3. QED
    BY <1>1, <1>2, <1>3, <1>4, <2>2
<1>5. CASE ~(Len(d) > VictimCap)
  BY <1>1, <1>2, <1>3, <1>5
<1>6. QED
  BY <1>4, <1>5

\* LruPut is a put of the cache, or nothing.
LEMMA LruPutStep ==
  ASSUME NEW k \in Key, NEW v \in Values, LruPut(k, v)
  PROVE  [LruNext]_lruVars
BY DEF LruPut, LruNext

\* The reader uses its cache by gets that hit and puts only.
LEMMA ReaderStepOfCache ==
  ASSUME ReaderBase, [ReaderNext]_readerVars
  PROVE  [LruNext]_lruVars
<1>1. ASSUME NEW l \in Layers, NEW ids \in IdLists, CallPrefetch(l, ids) \/ CallGet(l, ids)
      PROVE  UNCHANGED lruVars
  BY <1>1 DEF CallPrefetch, CallGet, lruVars
<1>2. CASE SkipPrefetch \/ SubmitPrefetch \/ ResetPrefetch
  BY <1>2 DEF SkipPrefetch, SubmitPrefetch, ResetPrefetch, lruVars
<1>3. CASE LookupHit
  <2>1. CurrentKey \in Key /\ GetHit(CurrentKey)
    BY <1>3, CurrentKeyType DEF LookupHit
  <2>2. QED
    BY <2>1 DEF LruNext
<1>4. CASE PromoteVictim
  <2>1. CurrentKey \in Key
    BY <1>4, CurrentKeyType DEF PromoteVictim
  <2>2. ValueAt(victim, CurrentKey) \in Values
    BY <1>4, ValueAtType DEF PromoteVictim, ReaderBase
  <2>3. QED
    BY <1>4, <2>1, <2>2, LruPutStep DEF PromoteVictim
<1>5. CASE TakePrefetched
  <2>1. CurrentKey \in Key
    BY <1>5, CurrentKeyType DEF TakePrefetched
  <2>2. PICK f \in Members(call.held) : LruPut(CurrentKey, Whole(futures[f].block))
    BY <1>5 DEF TakePrefetched
  <2>3. Whole(futures[f].block) \in Values
    BY HeldFutures, BlockOf, BlockValues
  <2>4. QED
    BY <2>1, <2>2, <2>3, LruPutStep
<1>6. CASE ReadMiss
  <2>1. CurrentKey \in Key
    BY <1>6, CurrentKeyType DEF ReadMiss, Missed
  <2>2. QED
    BY <1>6, <2>1, BlockValues, LruPutStep DEF ReadMiss
<1>7. CASE LookupMiss \/ ReadPartial \/ PrefetchedReadFailed \/ OwnReadFails \/ Leftover \/ ReturnExperts
  BY <1>7 DEF LookupMiss, ReadPartial, PrefetchedReadFailed, OwnReadFails, Raise, Leftover, ReturnExperts, lruVars
<1>8. CASE CallClose \/ CloseStep \/ Closed
  BY <1>8 DEF CallClose, CloseStep, Closed, ShutdownReads, ShutdownBackfill, CloseFiles, readerVars, lruVars
<1>9. ASSUME NEW w \in Workers, WorkerStep(w)
      PROVE  UNCHANGED lruVars
  BY <1>9 DEF WorkerStep, StartRead, OpenFile, ReadDone, ReadFails, FinishRead, lruVars
<1>10. CASE StartJob
  BY <1>10 DEF StartJob, lruVars
<1>11. CASE Backfill
  <2>1. job \in Seq(FutureIds) /\ job # <<>>
    BY <1>11 DEF Backfill, ReaderBase, ReaderTypeOK
  <2>2. Head(job) \in Members(job)
    BY <2>1, MembersTail
  <2>3. futures[Head(job)].block \in Key
    BY <2>2, HeldFutures, BlockOf
  <2>4. CASE LruPut(futures[Head(job)].block, Whole(futures[Head(job)].block))
    BY <2>3, <2>4, BlockValues, LruPutStep
  <2>5. CASE UNCHANGED lruVars
    BY <2>5
  <2>6. QED
    BY <1>11, <2>4, <2>5 DEF Backfill
<1>12. CASE UNCHANGED readerVars
  BY <1>12 DEF readerVars, lruVars
<1>13. QED
  BY <1>1, <1>2, <1>3, <1>4, <1>5, <1>6, <1>7, <1>8, <1>9, <1>10, <1>11, <1>12
  DEF ReaderNext, GetStep, BackfillStep

-----------------------------------------------------------------------------
(* Types, the caller's place, and the futures referred to.                 *)

CallType ==
  [layer : Layers \cup {Nobody}, ids : Seq(Experts), pos : Nat \ {0},
   held : Seq(FutureIds), backfill : Seq(FutureIds),
   experts : SUBSET [id : Experts, val : Values]]

WorkerType == [state : {"idle", "opening", "reading"}, future : FutureIds \cup {Nobody}]

\* The types of what the threads share, and of the caller.
SharedTypes ==
  /\ victim \in Dicts(Key, Values)
  /\ Len(victim) <= VictimCap
  /\ futures \in [FutureIds -> FutureType]
  /\ prefetch \in [Layers -> Seq(FutureIds)]
  /\ queue \in Seq(FutureIds)
  /\ worker \in [Workers -> WorkerType]
  /\ \A w \in Workers : worker[w].state # "idle" => worker[w].future \in FutureIds
  /\ fds \subseteq Layers
  /\ jobs \in Seq(Seq(FutureIds))
  /\ job \in Seq(FutureIds)

CallerTypes == pc \in CallerStates /\ call \in CallType /\ CallPlace

\* The base invariant says what has which type.
LEMMA BaseTypes ==
  ASSUME ReaderBase
  PROVE  SharedTypes /\ CallerTypes
BY DEF ReaderBase, ReaderTypeOK, SharedTypes, CallerTypes, CallType, WorkerType, FutureType

\* No call is a call, as far as types go.
LEMMA NoCallType == NoCall \in CallType
BY EmptySeq DEF NoCall, CallType

\* No new reference, or one to the fresh future of the current block; no
\* future still referred to changes its block.
RefsStay ==
  /\ Referenced' \subseteq Referenced \cup {Nobody}
  /\ \A f \in FutureIds : f \in Referenced' => futures'[f].block = futures[f].block

RefsGrow ==
  /\ Fresh \in FutureIds /\ Fresh \notin Referenced
  /\ Referenced' \subseteq Referenced \cup {Fresh}
  /\ \A f \in FutureIds :
       f \in Referenced' => futures'[f].block = IF f = Fresh THEN CurrentKey ELSE futures[f].block

\* With no new reference there is no less room, with one there is one less.
LEMMA StayRoom ==
  ASSUME RefsStay
  PROVE  Cardinality(Spare)' \in Nat /\ Cardinality(Spare) \in Nat
         /\ Cardinality(Spare)' >= Cardinality(Spare)
<1> DEFINE S == FutureIds \ Referenced
           T == FutureIds \ Referenced'
<1>1. S \subseteq T /\ T \subseteq FutureIds
  BY DEF RefsStay
<1>2. IsFiniteSet(T)
  BY <1>1, FS_Subset
<1>3. IsFiniteSet(S) /\ Cardinality(S) <= Cardinality(T)
  BY <1>1, <1>2, FS_Subset
<1>4. Cardinality(S) \in Nat /\ Cardinality(T) \in Nat
  BY <1>2, <1>3, FS_CardinalityType
<1>5. Cardinality(Spare) = Cardinality(S) /\ Cardinality(Spare)' = Cardinality(T)
  BY DEF Spare
<1> HIDE DEF S, T
<1>6. QED
  BY <1>3, <1>4, <1>5

\* With one new reference there is one spare future less, at most.
LEMMA GrowRoom ==
  ASSUME RefsGrow
  PROVE  Cardinality(Spare)' \in Nat /\ Cardinality(Spare) \in Nat
         /\ Cardinality(Spare)' + 1 >= Cardinality(Spare)
<1> DEFINE S == FutureIds \ Referenced
           T == FutureIds \ Referenced'
<1>1. S \subseteq T \cup {Fresh} /\ T \subseteq FutureIds
  BY DEF RefsGrow
<1>2. IsFiniteSet(T)
  BY <1>1, FS_Subset
<1>3. IsFiniteSet(T \cup {Fresh}) /\ Cardinality(T) \in Nat
  BY <1>2, FS_AddElement, FS_CardinalityType
<1>4. Cardinality(T \cup {Fresh}) <= Cardinality(T) + 1
  <2>1. PICK n : n = Fresh
    OBVIOUS
  <2> HIDE DEF T
  <2>2. Cardinality(T \cup {n}) = IF n \in T THEN Cardinality(T) ELSE Cardinality(T) + 1
    BY <1>2, FS_AddElement
  <2>3. Cardinality(T \cup {n}) <= Cardinality(T) + 1
    BY <1>3, <2>2
  <2>4. QED
    BY <2>1, <2>3
<1>5. IsFiniteSet(S) /\ Cardinality(S) <= Cardinality(T \cup {Fresh}) /\ Cardinality(S) \in Nat
  BY <1>1, <1>3, FS_Subset, FS_CardinalityType
<1>6. Cardinality(T \cup {Fresh}) \in Nat
  BY <1>3, FS_CardinalityType
<1>7. Cardinality(Spare) = Cardinality(S) /\ Cardinality(Spare)' = Cardinality(T)
  BY DEF Spare
<1> HIDE DEF S, T
<1>8. QED
  BY <1>3, <1>4, <1>5, <1>6, <1>7

\* A step that changes no future and refers to no other.
LEMMA RefsStayQuiet ==
  ASSUME UNCHANGED futures, Referenced' \subseteq Referenced \cup {Nobody}
  PROVE  RefsStay
BY DEF RefsStay

\* A step whose new futures have the blocks of the old.
LEMMA RefsStayBecome ==
  ASSUME NEW g, FuturesBecome(g), Referenced' \subseteq Referenced \cup {Nobody},
         \A f \in FutureIds : g[f].block = futures[f].block
  PROVE  RefsStay
BY BecomeValue DEF RefsStay

\* prefetch_experts and reset_prefetch.
LEMMA CallPrefetchBase ==
  ASSUME ReaderBase, NEW l \in Layers, NEW ids \in IdLists, CallPrefetch(l, ids)
  PROVE  SharedTypes' /\ CallerTypes' /\ RefsStay /\ RoomLeft'
<1>1. SharedTypes /\ CallerTypes
  BY BaseTypes
<1>2. ids \in Seq(Experts) /\ ids # <<>> /\ Len(ids) \in Nat \ {0}
  BY EmptySeq
<1>3. call' = [layer |-> l, ids |-> ids, pos |-> 1, held |-> <<>>, backfill |-> <<>>, experts |-> {}]
  BY DEF CallPrefetch, NoCall
<1>4. SharedTypes'
  BY <1>1 DEF CallPrefetch, SharedTypes
<1>5. CallerTypes'
  <2>1. call' \in CallType
    BY <1>2, <1>3, EmptySeq DEF CallType
  <2>2. call'.layer \in Layers /\ call'.pos \in 1 .. Len(call'.ids)
    BY <1>2, <1>3
  <2>3. pc' = "prefetch"
    BY DEF CallPrefetch
  <2>4. QED
    BY <2>1, <2>2, <2>3 DEF CallerTypes, CallerStates, CallPlace, ClosingStates
<1>6. Referenced' \subseteq Referenced
  <2>1. call'.held = <<>> /\ call'.backfill = <<>>
    BY <1>3
  <2>2. UNCHANGED <<prefetch, queue, worker, jobs, job>>
    BY DEF CallPrefetch
  <2>3. QED
    BY <2>1, <2>2, RefsContain, RefsWithin, MembersEmpty
<1>7. RefsStay
  BY <1>6, RefsStayQuiet DEF CallPrefetch
<1>8. RoomLeft'
  <2>1. Cardinality(Spare) >= Len(ids)
    BY DEF CallPrefetch, RoomFor, Spare
  <2>2. Cardinality(Spare)' >= Cardinality(Spare) /\ Cardinality(Spare)' \in Nat /\ Cardinality(Spare) \in Nat
    BY <1>7, StayRoom
  <2>3. call'.pos = 1 /\ call'.ids = ids
    BY <1>3
  <2>4. Cardinality(Spare') + call'.pos >= Len(call'.ids) + 1
    BY <1>2, <2>1, <2>2, <2>3
  <2>5. QED
    BY <2>4 DEF RoomLeft
<1>9. QED
  BY <1>4, <1>5, <1>7, <1>8

\* One more id of the call is dealt with: where the caller is then.
LEMMA NextPrefetchBase ==
  ASSUME ReaderBase, pc = "prefetch", NextPrefetch
  PROVE  /\ CallerTypes'
         /\ call'.held = <<>> \/ call'.held = call.held
         /\ call'.backfill = <<>> \/ call'.backfill = call.backfill
         /\ pc' = "idle" \/ (pc' = "prefetch" /\ call'.ids = call.ids /\ call'.pos = call.pos + 1)
<1>1. call \in CallType /\ CallPlace /\ pc \in CallerStates
  BY BaseTypes DEF CallerTypes
<1>2. CASE LastId
  <2>1. pc' = "idle" /\ call' = NoCall
    BY <1>2 DEF NextPrefetch
  <2>2. call'.held = <<>> /\ call'.backfill = <<>>
    BY <2>1 DEF NoCall
  <2>3. CallerTypes'
    BY <2>1, NoCallType DEF CallerTypes, CallerStates, CallPlace, ClosingStates
  <2>4. QED
    BY <2>1, <2>2, <2>3
<1>3. CASE ~LastId
  <2>1. call' = [call EXCEPT !.pos = @ + 1] /\ pc' = "prefetch"
    BY <1>3 DEF NextPrefetch
  <2>2. call' \in CallType
    <3>1. call.pos + 1 \in Nat \ {0}
      BY <1>1 DEF CallType
    <3>2. PICK p \in Nat \ {0} : call' = [call EXCEPT !.pos = p]
      BY <2>1, <3>1
    <3>3. QED
      BY <1>1, <3>2 DEF CallType
  <2>3. call.pos \in 1 .. Len(call.ids) /\ call.pos # Len(call.ids)
    BY <1>1, <1>3 DEF CallPlace, LastId
  <2>4. /\ call'.pos = call.pos + 1 /\ call'.ids = call.ids /\ call'.layer = call.layer
        /\ call'.held = call.held /\ call'.backfill = call.backfill
    BY <1>1, <2>1 DEF CallType
  <2>5. call'.pos \in 1 .. Len(call'.ids)
    BY <1>1, <2>3, <2>4 DEF CallType
  <2>6. CallPlace'
    BY <1>1, <2>1, <2>4, <2>5 DEF CallPlace, ClosingStates
  <2>7. QED
    BY <2>1, <2>2, <2>4, <2>6 DEF CallerTypes, CallerStates
<1>4. QED
  BY <1>2, <1>3

\* An id that is in flight or cached already.
LEMMA SkipPrefetchBase ==
  ASSUME ReaderBase, SkipPrefetch
  PROVE  SharedTypes' /\ CallerTypes' /\ RefsStay /\ RoomLeft'
<1>1. SharedTypes /\ CallerTypes
  BY BaseTypes
<1>2. pc = "prefetch" /\ NextPrefetch
  BY DEF SkipPrefetch
<1>3. SharedTypes'
  BY <1>1 DEF SkipPrefetch, SharedTypes
<1>4. UNCHANGED <<prefetch, queue, worker, jobs, job>>
  BY DEF SkipPrefetch
<1>5. Members(call'.held) \subseteq Referenced /\ Members(call'.backfill) \subseteq Referenced
  BY <1>2, NextPrefetchBase, RefsContain, MembersEmpty
<1>6. RefsStay
  <2>1. Referenced' \subseteq Referenced
    BY <1>4, <1>5, RefsContain, RefsWithin
  <2>2. QED
    BY <2>1, RefsStayQuiet DEF SkipPrefetch
<1>7. RoomLeft'
  <2>1. Cardinality(Spare)' >= Cardinality(Spare) /\ Cardinality(Spare)' \in Nat /\ Cardinality(Spare) \in Nat
    BY <1>6, StayRoom
  <2>2. CASE pc' = "idle"
    BY <2>2 DEF RoomLeft
  <2>3. CASE pc' = "prefetch" /\ call'.ids = call.ids /\ call'.pos = call.pos + 1
    <3>1. Cardinality(Spare) + call.pos >= Len(call.ids) + 1
      BY <1>2 DEF RoomLeft, ReaderBase
    <3>2. call.pos \in Nat /\ Len(call.ids) \in Nat
      BY <1>1 DEF CallerTypes, CallType
    <3>3. Cardinality(Spare') + call'.pos >= Len(call'.ids) + 1
      BY <2>1, <2>3, <3>1, <3>2
    <3>4. QED
      BY <3>3 DEF RoomLeft
  <2>4. QED
    BY <1>2, <2>2, <2>3, NextPrefetchBase
<1>8. QED
  BY <1>2, <1>3, <1>6, <1>7, NextPrefetchBase

\* Submit puts the fresh future in the queue.
LEMMA SubmitProps ==
  ASSUME ReaderBase, Submit(CurrentKey), pc = "prefetch" \/ (Fallback /\ pc = "fetch")
  PROVE  /\ Fresh \in FutureIds /\ Fresh \notin Referenced
         /\ futures' \in [FutureIds -> FutureType]
         /\ queue' \in Seq(FutureIds)
         /\ Members(queue') = Members(queue) \cup {Fresh}
         /\ \A f \in FutureIds :
              f \in Referenced' =>
                futures'[f] = IF f = Fresh THEN [block |-> CurrentKey, state |-> "pending"] ELSE futures[f]
<1> DEFINE n == Fresh
<1>1. n \in FutureIds /\ n \notin Referenced
  BY FreshIsSpare DEF ReaderBase, ReaderTypeOK
<1>2. queue \in Seq(FutureIds) /\ futures \in [FutureIds -> FutureType]
  BY BaseTypes DEF SharedTypes
<1>3. CurrentKey \in Key
  BY CurrentKeyType
<1> DEFINE g == [futures EXCEPT ![n] = [block |-> CurrentKey, state |-> "pending"]]
<1>4. queue' = Append(queue, n) /\ FuturesBecome(g)
  BY DEF Submit
<1> HIDE DEF n
<1>5. g \in [FutureIds -> FutureType]
  BY <1>1, <1>2, <1>3 DEF FutureType, FutureStates
<1>6. \A f \in FutureIds : g[f] = IF f = n THEN [block |-> CurrentKey, state |-> "pending"] ELSE futures[f]
  BY <1>1, <1>2
<1> HIDE DEF g
<1>7. futures' \in [FutureIds -> FutureType]
  BY <1>4, <1>5, BecomeType
<1>8. \A f \in FutureIds : f \in Referenced' => futures'[f] = g[f]
  BY <1>4, BecomeValue
<1>9. queue' \in Seq(FutureIds) /\ Members(queue') = Members(queue) \cup {n}
  BY <1>1, <1>2, <1>4, MembersAppend
<1>10. QED
  BY <1>1, <1>6, <1>7, <1>8, <1>9 DEF n

\* A prefetch submitted: the fresh future is queued and kept for its layer.
LEMMA SubmitPrefetchBase ==
  ASSUME ReaderBase, SubmitPrefetch
  PROVE  SharedTypes' /\ CallerTypes' /\ RefsGrow /\ RoomLeft'
<1>1. SharedTypes /\ CallerTypes
  BY BaseTypes
<1>2. pc = "prefetch" /\ NextPrefetch /\ Submit(CurrentKey)
  BY DEF SubmitPrefetch
<1>3. /\ Fresh \in FutureIds /\ Fresh \notin Referenced
      /\ futures' \in [FutureIds -> FutureType]
      /\ queue' \in Seq(FutureIds)
      /\ Members(queue') = Members(queue) \cup {Fresh}
      /\ \A f \in FutureIds :
           f \in Referenced' =>
             futures'[f] = IF f = Fresh THEN [block |-> CurrentKey, state |-> "pending"] ELSE futures[f]
  BY <1>2, SubmitProps
<1>4. call.layer \in Layers
  BY <1>2, CurrentKeyType
<1>5. prefetch' = [prefetch EXCEPT ![call.layer] = Append(@, Fresh)]
  BY DEF SubmitPrefetch
<1>6. ASSUME NEW l \in Layers
      PROVE  prefetch'[l] \in Seq(FutureIds) /\ Members(prefetch'[l]) \subseteq Members(prefetch[l]) \cup {Fresh}
  <2>1. prefetch[l] \in Seq(FutureIds)
    BY <1>1 DEF SharedTypes
  <2>2. prefetch'[l] = IF l = call.layer THEN Append(prefetch[l], Fresh) ELSE prefetch[l]
    BY <1>1, <1>5 DEF SharedTypes
  <2>3. QED
    BY <1>3, <2>1, <2>2, MembersAppend
<1>7. prefetch' \in [Layers -> Seq(FutureIds)]
  BY <1>1, <1>5, <1>6 DEF SharedTypes
<1>8. UNCHANGED <<victim, worker, fds, jobs, job>>
  BY DEF SubmitPrefetch
<1>9. SharedTypes'
  BY <1>1, <1>3, <1>7, <1>8 DEF SharedTypes
<1>10. Referenced' \subseteq Referenced \cup {Fresh}
  <2>1. Members(call'.held) \subseteq Referenced /\ Members(call'.backfill) \subseteq Referenced
    BY <1>2, NextPrefetchBase, RefsContain, MembersEmpty
  <2> DEFINE R == Referenced \cup {Fresh}
  <2>2. /\ \A l \in Layers : Members(prefetch'[l]) \subseteq R
        /\ Members(queue') \subseteq R
        /\ \A w \in Workers : worker'[w].future \in R
        /\ Members(call'.held) \subseteq R
        /\ Members(call'.backfill) \subseteq R
        /\ \A i \in DOMAIN jobs' : Members(jobs'[i]) \subseteq R
        /\ Members(job') \subseteq R
    BY <1>3, <1>6, <1>8, <2>1, RefsContain
  <2> HIDE DEF R
  <2>3. Referenced' \subseteq R
    BY <2>2, RefsWithin
  <2>4. QED
    BY <2>3 DEF R
<1>11. RefsGrow
  BY <1>3, <1>10 DEF RefsGrow
<1>12. RoomLeft'
  <2>1. Cardinality(Spare)' + 1 >= Cardinality(Spare) /\ Cardinality(Spare)' \in Nat /\ Cardinality(Spare) \in Nat
    BY <1>11, GrowRoom
  <2>2. CASE pc' = "idle"
    BY <2>2 DEF RoomLeft
  <2>3. CASE pc' = "prefetch" /\ call'.ids = call.ids /\ call'.pos = call.pos + 1
    <3>1. Cardinality(Spare) + call.pos >= Len(call.ids) + 1
      BY <1>2 DEF RoomLeft, ReaderBase
    <3>2. call.pos \in Nat /\ Len(call.ids) \in Nat
      BY <1>1 DEF CallerTypes, CallType
    <3>3. Cardinality(Spare') + call'.pos >= Len(call'.ids) + 1
      BY <2>1, <2>3, <3>1, <3>2
    <3>4. QED
      BY <3>3 DEF RoomLeft
  <2>4. QED
    BY <1>2, <2>2, <2>3, NextPrefetchBase
<1>13. QED
  BY <1>2, <1>9, <1>11, <1>12, NextPrefetchBase

\* reset_prefetch and close drop all prefetches.
LEMMA DropBase ==
  ASSUME ReaderBase, DropPrefetches, UNCHANGED <<victim, queue, worker, fds, call, jobs, job>>
  PROVE  SharedTypes' /\ RefsStay
<1>1. SharedTypes /\ CallerTypes
  BY BaseTypes
<1> DEFINE S == UNION {Members(prefetch[l]) : l \in Layers}
           g == Cancelled(S)
<1>2. prefetch' = [l \in Layers |-> <<>>] /\ FuturesBecome(g)
  BY DEF DropPrefetches
<1> HIDE DEF S
<1>3. g \in [FutureIds -> FutureType] /\ \A f \in FutureIds : g[f].block = futures[f].block
  BY <1>1, CancelledProps DEF SharedTypes
<1> HIDE DEF g
<1>4. SharedTypes'
  BY <1>1, <1>2, <1>3, BecomeType DEF SharedTypes
<1>5. \A l \in Layers : Members(prefetch'[l]) = {}
  BY <1>2, MembersEmpty
<1>6. Referenced' \subseteq Referenced
  BY <1>5, RefsContain, RefsWithin
<1>7. QED
  BY <1>2, <1>3, <1>4, <1>6, RefsStayBecome

\* reset_prefetch drops the prefetches and leaves the caller idle.
LEMMA ResetPrefetchBase ==
  ASSUME ReaderBase, ResetPrefetch
  PROVE  SharedTypes' /\ CallerTypes' /\ RefsStay /\ RoomLeft'
<1>1. SharedTypes' /\ RefsStay
  BY DropBase DEF ResetPrefetch
<1>2. CallerTypes
  BY BaseTypes
<1>3. pc = "idle" /\ UNCHANGED <<pc, call>>
  BY DEF ResetPrefetch
<1>4. CallerTypes'
  BY <1>2, <1>3 DEF CallerTypes, CallPlace
<1>5. RoomLeft'
  BY <1>3 DEF RoomLeft
<1>6. QED
  BY <1>1, <1>4, <1>5

\* get_experts begins: the prefetches of the layer are the call's from now on.
LEMMA CallGetBase ==
  ASSUME ReaderBase, NEW l \in Layers, NEW ids \in IdLists, CallGet(l, ids)
  PROVE  SharedTypes' /\ CallerTypes' /\ RefsStay /\ RoomLeft'
<1>1. SharedTypes /\ CallerTypes
  BY BaseTypes
<1>2. ids \in Seq(Experts) /\ ids # <<>> /\ Len(ids) \in Nat \ {0}
  BY EmptySeq
<1>3. call' = [layer |-> l, ids |-> ids, pos |-> 1, held |-> prefetch[l], backfill |-> <<>>, experts |-> {}]
  BY DEF CallGet, NoCall
<1>4. prefetch' = [prefetch EXCEPT ![l] = <<>>] /\ prefetch[l] \in Seq(FutureIds)
  BY <1>1 DEF CallGet, SharedTypes
<1>5. prefetch' \in [Layers -> Seq(FutureIds)]
      /\ \A m \in Layers : Members(prefetch'[m]) \subseteq Members(prefetch[m])
  BY <1>1, <1>4, EmptySeq, MembersEmpty DEF SharedTypes
<1>6. SharedTypes'
  BY <1>1, <1>5 DEF CallGet, SharedTypes
<1>7. CallerTypes'
  <2>1. call' \in CallType
    BY <1>2, <1>3, <1>4, EmptySeq DEF CallType
  <2>2. call'.layer \in Layers /\ call'.pos \in 1 .. Len(call'.ids)
    BY <1>2, <1>3
  <2>3. pc' = "lookup"
    BY DEF CallGet
  <2>4. QED
    BY <2>1, <2>2, <2>3 DEF CallerTypes, CallerStates, CallPlace, ClosingStates
<1>8. Referenced' \subseteq Referenced
  <2>1. call'.held = prefetch[l] /\ call'.backfill = <<>>
    BY <1>3
  <2>2. UNCHANGED <<queue, worker, jobs, job>>
    BY DEF CallGet
  <2>3. Members(call'.held) \subseteq Referenced /\ Members(call'.backfill) \subseteq Referenced
    BY <2>1, RefsContain, MembersEmpty
  <2>4. \A m \in Layers : Members(prefetch'[m]) \subseteq Referenced
    BY <1>5, RefsContain
  <2>5. QED
    BY <2>2, <2>3, <2>4, RefsContain, RefsWithin
<1>9. RefsStay
  BY <1>8, RefsStayQuiet DEF CallGet
<1>10. RoomLeft'
  <2>1. ASSUME Fallback PROVE Cardinality(Spare) >= Len(ids)
    BY <2>1 DEF CallGet, RoomFor, Spare
  <2>2. Cardinality(Spare)' >= Cardinality(Spare) /\ Cardinality(Spare)' \in Nat /\ Cardinality(Spare) \in Nat
    BY <1>9, StayRoom
  <2>3. call'.pos = 1 /\ call'.ids = ids
    BY <1>3
  <2>4. ASSUME Fallback PROVE Cardinality(Spare') + call'.pos >= Len(call'.ids) + 1
    BY <1>2, <2>1, <2>2, <2>3, <2>4
  <2>5. pc' = "lookup"
    BY DEF CallGet
  <2>6. QED
    BY <2>4, <2>5 DEF RoomLeft
<1>11. QED
  BY <1>6, <1>7, <1>9, <1>10

\* Serving the current id moves the caller on.
LEMMA ServeBase ==
  ASSUME ReaderBase, pc \in {"lookup", "fetch"}, NEW v \in Values, NEW bf \in Seq(FutureIds), Serve(v, bf)
  PROVE  /\ CallerTypes'
         /\ call'.layer = call.layer /\ call'.ids = call.ids /\ call'.held = call.held
         /\ call'.pos = call.pos + 1
         /\ call'.experts = call.experts \cup {[id |-> CurrentId, val |-> v]}
         /\ call'.backfill = call.backfill \o bf
         /\ Members(call'.backfill) = Members(call.backfill) \cup Members(bf)
         /\ pc' \in {"lookup", "leftovers"}
         /\ pc' = "leftovers" <=> call.pos = Len(call.ids)
<1>1. call \in CallType /\ CallPlace /\ pc \in CallerStates
  BY BaseTypes DEF CallerTypes
<1>2. /\ call.layer \in Layers /\ CurrentId \in Experts
      /\ call.ids \in Seq(Experts) /\ call.pos \in 1 .. Len(call.ids)
  BY CurrentKeyType
<1>3. call.pos + 1 \in Nat \ {0}
  BY <1>2
<1>4. /\ call.backfill \in Seq(FutureIds)
      /\ call.backfill \o bf \in Seq(FutureIds)
      /\ Members(call.backfill \o bf) = Members(call.backfill) \cup Members(bf)
  <2>1. call.backfill \in Seq(FutureIds)
    BY <1>1 DEF CallType
  <2>2. QED
    BY <2>1, MembersCat
<1>5. [id |-> CurrentId, val |-> v] \in [id : Experts, val : Values]
  BY <1>2
<1>6. PICK p, b, x : /\ p = call.pos + 1
                     /\ b = call.backfill \o bf
                     /\ x = call.experts \cup {[id |-> CurrentId, val |-> v]}
  OBVIOUS
<1>7. p \in Nat \ {0} /\ b \in Seq(FutureIds) /\ x \in SUBSET [id : Experts, val : Values]
  BY <1>1, <1>3, <1>4, <1>5, <1>6 DEF CallType
<1>8. call' = [call EXCEPT !.experts = x, !.backfill = b, !.pos = p]
  BY <1>6 DEF Serve
<1>9. call' \in CallType
  BY <1>1, <1>7, <1>8 DEF CallType
<1>10. /\ call'.layer = call.layer /\ call'.ids = call.ids /\ call'.held = call.held
       /\ call'.pos = p /\ call'.experts = x /\ call'.backfill = b
  BY <1>1, <1>8 DEF CallType
<1>11. pc' = IF call.pos = Len(call.ids) THEN "leftovers" ELSE "lookup"
  BY DEF Serve, LastId
<1>12. CallPlace'
  <2>1. CASE call.pos = Len(call.ids)
    <3>1. pc' = "leftovers" /\ call'.layer \in Layers /\ call'.pos = Len(call'.ids) + 1
      BY <1>2, <1>6, <1>10, <1>11, <2>1
    <3>2. QED
      BY <3>1 DEF CallPlace, ClosingStates
  <2>2. CASE call.pos # Len(call.ids)
    <3>1. pc' = "lookup" /\ call'.layer \in Layers /\ call'.pos \in 1 .. Len(call'.ids)
      BY <1>2, <1>6, <1>10, <1>11, <2>2
    <3>2. QED
      BY <3>1 DEF CallPlace, ClosingStates
  <2>3. QED
    BY <2>1, <2>2
<1>13. CallerTypes'
  BY <1>9, <1>11, <1>12 DEF CallerTypes, CallerStates
<1>14. QED
  BY <1>4, <1>6, <1>10, <1>11, <1>13

\* The room after an id is served: enough without a new reference, and with one.
LEMMA ServeRoom ==
  ASSUME ReaderBase, pc \in {"lookup", "fetch"}, NEW v \in Values, NEW bf \in Seq(FutureIds), Serve(v, bf),
         RefsStay \/ RefsGrow
  PROVE  RoomLeft'
<1>1. call'.pos = call.pos + 1 /\ call'.ids = call.ids /\ pc' \in {"lookup", "leftovers"}
  BY ServeBase
<1>2. call.pos \in Nat /\ Len(call.ids) \in Nat
  BY CurrentKeyType
<1>3. Cardinality(Spare)' + 1 >= Cardinality(Spare) /\ Cardinality(Spare)' \in Nat /\ Cardinality(Spare) \in Nat
  BY StayRoom, GrowRoom
<1>4. ASSUME Fallback PROVE Cardinality(Spare') + call'.pos >= Len(call'.ids) + 1
  <2>1. Cardinality(Spare) + call.pos >= Len(call.ids) + 1
    BY <1>4 DEF ReaderBase, RoomLeft
  <2>2. QED
    BY <1>1, <1>2, <1>3, <2>1
<1>5. QED
  BY <1>1, <1>4 DEF RoomLeft

\* The current id is served without a new read of the pool.
LEMMA ServeQuietBase ==
  ASSUME ReaderBase, pc \in {"lookup", "fetch"}, NEW v \in Values, Serve(v, <<>>),
         victim' \in Dicts(Key, Values), Len(victim') <= VictimCap, fds' \subseteq Layers,
         UNCHANGED <<futures, prefetch, queue, worker, jobs, job>>
  PROVE  SharedTypes' /\ CallerTypes' /\ RefsStay /\ RoomLeft'
<1>1. SharedTypes /\ CallerTypes
  BY BaseTypes
<1>2. <<>> \in Seq(FutureIds) /\ Members(<<>>) = {}
  BY EmptySeq, MembersEmpty
<1>3. SharedTypes'
  BY <1>1 DEF SharedTypes
<1>4. CallerTypes' /\ call'.held = call.held /\ Members(call'.backfill) = Members(call.backfill)
  BY <1>2, ServeBase
<1>5. Referenced' \subseteq Referenced
  BY <1>4, RefsContain, RefsWithin
<1>6. RefsStay
  BY <1>5, RefsStayQuiet
<1>7. QED
  BY <1>2, <1>3, <1>4, <1>6, ServeRoom

\* The steps of get_experts, one by one: a hit of the cache.
LEMMA LookupHitBase ==
  ASSUME ReaderBase, LookupHit
  PROVE  SharedTypes' /\ CallerTypes' /\ RefsStay /\ RoomLeft'
<1>1. SharedTypes
  BY BaseTypes
<1>2. HasKey(cache, CurrentKey) /\ cache \in Dicts(Key, Values)
  BY DEF LookupHit, GetHit, ReaderBase, LruInv
<1>3. ValueAt(cache, CurrentKey) \in Values
  BY <1>2, ValueAtType
<1>4. QED
  BY <1>1, <1>3, ServeQuietBase DEF LookupHit, SharedTypes

\* A miss: the caller goes on to fetch.
LEMMA LookupMissBase ==
  ASSUME ReaderBase, LookupMiss
  PROVE  SharedTypes' /\ CallerTypes' /\ RefsStay /\ RoomLeft'
<1>1. SharedTypes /\ CallerTypes
  BY BaseTypes
<1>2. pc = "lookup" /\ pc' = "fetch" /\ UNCHANGED <<victim, futures, prefetch, queue, worker, fds, call, jobs, job>>
  BY DEF LookupMiss
<1>3. SharedTypes'
  BY <1>1, <1>2 DEF SharedTypes
<1>4. CallerTypes'
  BY <1>1, <1>2 DEF CallerTypes, CallerStates, CallPlace, ClosingStates
<1>5. Referenced' \subseteq Referenced
  BY <1>2, RefsContain, RefsWithin
<1>6. RefsStay
  BY <1>2, <1>5, RefsStayQuiet
<1>7. RoomLeft'
  <2>1. Cardinality(Spare)' >= Cardinality(Spare) /\ Cardinality(Spare)' \in Nat /\ Cardinality(Spare) \in Nat
    BY <1>6, StayRoom
  <2>2. call.pos \in Nat /\ Len(call.ids) \in Nat
    BY <1>1 DEF CallerTypes, CallType
  <2>3. ASSUME Fallback PROVE Cardinality(Spare') + call'.pos >= Len(call'.ids) + 1
    <3>1. Cardinality(Spare) + call.pos >= Len(call.ids) + 1
      BY <1>2, <2>3 DEF ReaderBase, RoomLeft
    <3>2. QED
      BY <1>2, <2>1, <2>2, <3>1
  <2>4. QED
    BY <1>2, <2>3 DEF RoomLeft
<1>8. QED
  BY <1>3, <1>4, <1>6, <1>7

\* An expert promoted from the victim buffer.
LEMMA PromoteVictimBase ==
  ASSUME ReaderBase, PromoteVictim
  PROVE  SharedTypes' /\ CallerTypes' /\ RefsStay /\ RoomLeft'
<1>1. SharedTypes
  BY BaseTypes
<1>2. HasKey(victim, CurrentKey) /\ victim \in Dicts(Key, Values) /\ Len(victim) <= VictimCap
  BY DEF PromoteVictim, ReaderBase
<1>3. ValueAt(victim, CurrentKey) \in Values
  BY <1>2, ValueAtType
<1>4. /\ Delete(victim, CurrentKey) \in Dicts(Key, Values)
      /\ Len(Delete(victim, CurrentKey)) = Len(victim) - 1
      /\ Len(victim) \in Nat
  BY <1>2, DeleteKeys, DictShape
<1>5. victim' \in Dicts(Key, Values) /\ Len(victim') <= VictimCap
  BY <1>2, <1>4 DEF PromoteVictim
<1>6. QED
  BY <1>1, <1>3, <1>5, ServeQuietBase DEF PromoteVictim, SharedTypes

\* A prefetch that is done.
LEMMA TakePrefetchedBase ==
  ASSUME ReaderBase, TakePrefetched
  PROVE  SharedTypes' /\ CallerTypes' /\ RefsStay /\ RoomLeft'
<1>1. SharedTypes
  BY BaseTypes
<1>2. PICK f \in Members(call.held) : Serve(Whole(futures[f].block), <<>>)
  BY DEF TakePrefetched
<1>3. Whole(futures[f].block) \in Values
  BY HeldFutures, BlockOf, BlockValues
<1>4. victim \in Dicts(Key, Values) /\ Len(victim) <= VictimCap
  BY DEF ReaderBase
<1>5. QED
  BY <1>1, <1>2, <1>3, <1>4, ServeQuietBase DEF TakePrefetched, SharedTypes

\* A read on the caller's thread.
LEMMA ReadMissBase ==
  ASSUME ReaderBase, ReadMiss
  PROVE  SharedTypes' /\ CallerTypes' /\ RefsStay /\ RoomLeft'
<1>1. SharedTypes
  BY BaseTypes
<1>2. pc = "fetch" /\ call.layer \in Layers /\ CurrentKey \in Key
  BY CurrentKeyType DEF ReadMiss, Missed
<1>3. Whole(CurrentKey) \in Values /\ fds' \subseteq Layers
  BY <1>1, <1>2, BlockValues DEF ReadMiss, SharedTypes
<1>4. victim \in Dicts(Key, Values) /\ Len(victim) <= VictimCap
  BY DEF ReaderBase
<1>5. QED
  BY <1>2, <1>3, <1>4, ServeQuietBase DEF ReadMiss

\* A read of gate and up, with a backfill read submitted for the rest.
LEMMA ReadPartialBase ==
  ASSUME ReaderBase, ReadPartial
  PROVE  SharedTypes' /\ CallerTypes' /\ RefsGrow /\ RoomLeft'
<1>1. SharedTypes /\ CallerTypes
  BY BaseTypes
<1>2. pc = "fetch" /\ Fallback /\ call.layer \in Layers /\ CurrentKey \in Key
  BY CurrentKeyType DEF ReadPartial, Missed
<1>3. /\ Fresh \in FutureIds /\ Fresh \notin Referenced
      /\ futures' \in [FutureIds -> FutureType]
      /\ queue' \in Seq(FutureIds)
      /\ Members(queue') = Members(queue) \cup {Fresh}
      /\ \A f \in FutureIds :
           f \in Referenced' =>
             futures'[f] = IF f = Fresh THEN [block |-> CurrentKey, state |-> "pending"] ELSE futures[f]
  BY <1>2, SubmitProps DEF ReadPartial
<1>4. Mixed(CurrentKey) \in Values /\ fds' \subseteq Layers
  BY <1>1, <1>2, BlockValues DEF ReadPartial, SharedTypes
<1>5. PICK bf : bf = <<Fresh>>
  OBVIOUS
<1>6. bf \in Seq(FutureIds) /\ Members(bf) = {Fresh}
  <2>1. bf \in Seq(FutureIds)
    BY <1>3, <1>5
  <2>2. DOMAIN bf = {1} /\ bf[1] = Fresh
    BY <1>5
  <2>3. QED
    BY <2>1, <2>2 DEF Members
<1>7. Serve(Mixed(CurrentKey), bf)
  BY <1>5 DEF ReadPartial
<1>8. UNCHANGED <<victim, prefetch, worker, jobs, job>>
  BY DEF ReadPartial
<1>9. SharedTypes'
  BY <1>1, <1>3, <1>4, <1>8 DEF SharedTypes
<1>10. CallerTypes' /\ call'.held = call.held /\ Members(call'.backfill) = Members(call.backfill) \cup {Fresh}
  BY <1>2, <1>4, <1>6, <1>7, ServeBase
<1>11. Referenced' \subseteq Referenced \cup {Fresh}
  <2> DEFINE R == Referenced \cup {Fresh}
  <2>1. /\ \A l \in Layers : Members(prefetch'[l]) \subseteq R
        /\ Members(queue') \subseteq R
        /\ \A w \in Workers : worker'[w].future \in R
        /\ Members(call'.held) \subseteq R
        /\ Members(call'.backfill) \subseteq R
        /\ \A i \in DOMAIN jobs' : Members(jobs'[i]) \subseteq R
        /\ Members(job') \subseteq R
    BY <1>3, <1>8, <1>10, RefsContain
  <2> HIDE DEF R
  <2>2. Referenced' \subseteq R
    BY <2>1, RefsWithin
  <2>3. QED
    BY <2>2 DEF R
<1>12. RefsGrow
  BY <1>3, <1>11 DEF RefsGrow
<1>13. RoomLeft'
  BY <1>2, <1>4, <1>6, <1>7, <1>12, ServeRoom
<1>14. QED
  BY <1>9, <1>10, <1>12, <1>13

\* The call is over: nothing of it is kept.
LEMMA EndBase ==
  ASSUME ReaderBase, pc' = "idle", call' = NoCall
  PROVE  CallerTypes' /\ RoomLeft' /\ Members(call'.held) = {} /\ Members(call'.backfill) = {}
<1>1. CallerTypes'
  BY NoCallType DEF CallerTypes, CallerStates, CallPlace, ClosingStates
<1>2. RoomLeft'
  BY DEF RoomLeft
<1>3. call'.held = <<>> /\ call'.backfill = <<>>
  BY DEF NoCall
<1>4. QED
  BY <1>1, <1>2, <1>3, MembersEmpty

\* An exception.
LEMMA RaiseBase ==
  ASSUME ReaderBase, PrefetchedReadFailed \/ OwnReadFails
  PROVE  SharedTypes' /\ CallerTypes' /\ RefsStay /\ RoomLeft'
<1>1. SharedTypes /\ CallerTypes
  BY BaseTypes
<1>2. /\ pc' = "idle" /\ call' = NoCall
      /\ UNCHANGED <<victim, prefetch, queue, worker, jobs, job>>
      /\ FuturesBecome(futures)
      /\ pc = "fetch"
  BY DEF PrefetchedReadFailed, OwnReadFails, Missed, Raise
<1>3. fds' \subseteq Layers
  BY <1>1, <1>2, CurrentKeyType DEF PrefetchedReadFailed, OwnReadFails, SharedTypes
<1>4. SharedTypes'
  BY <1>1, <1>2, <1>3, BecomeType DEF SharedTypes
<1>5. Referenced' \subseteq Referenced
  BY <1>2, EndBase, RefsContain, RefsWithin
<1>6. RefsStay
  BY <1>2, <1>5, RefsStayBecome
<1>7. QED
  BY <1>2, <1>4, <1>6, EndBase

\* What Leftover makes of the futures: the head of the list is cancelled or not.
LEMMA LeftoverFutures ==
  ASSUME ReaderBase, Leftover
  PROVE  LET f == Head(call.held)
         IN  /\ f \in FutureIds /\ f \in Members(call.held)
             /\ Tail(call.held) \in Seq(FutureIds)
             /\ Members(Tail(call.held)) \subseteq Members(call.held)
             /\ call' = [call EXCEPT !.held = Tail(@)]
             /\ \E g \in [FutureIds -> FutureType] :
                  /\ FuturesBecome(g)
                  /\ \A h \in FutureIds : g[h].block = futures[h].block /\ (h # f => g[h] = futures[h])
<1> DEFINE f == Head(call.held)
           unasked == ~Served(IdOf(f))
           g == IF unasked THEN Cancelled({f}) ELSE futures
<1>1. SharedTypes /\ CallerTypes
  BY BaseTypes
<1>2. call.held \in Seq(FutureIds) /\ call.held # <<>>
  BY <1>1 DEF Leftover, CallerTypes, CallType
<1>3. /\ f \in FutureIds /\ f \in Members(call.held)
      /\ Tail(call.held) \in Seq(FutureIds)
      /\ Members(Tail(call.held)) \subseteq Members(call.held)
  BY <1>2, MembersTail
<1>4. call' = [call EXCEPT !.held = Tail(@)]
  BY DEF Leftover
<1>5. FuturesBecome(g)
  BY DEF Leftover
<1> HIDE DEF f, unasked
<1>6. g \in [FutureIds -> FutureType]
      /\ \A h \in FutureIds : g[h].block = futures[h].block /\ (h # f => g[h] = futures[h])
  BY <1>1, CancelledProps DEF SharedTypes
<1> HIDE DEF g
<1>7. \E gg \in [FutureIds -> FutureType] :
        /\ FuturesBecome(gg)
        /\ \A h \in FutureIds : gg[h].block = futures[h].block /\ (h # f => gg[h] = futures[h])
  BY <1>5, <1>6
<1>8. QED
  BY <1>3, <1>4, <1>7 DEF f

\* A leftover parked, dropped or cancelled.
LEMMA LeftoverBase ==
  ASSUME ReaderBase, Leftover
  PROVE  SharedTypes' /\ CallerTypes' /\ RefsStay /\ RoomLeft'
<1>1. SharedTypes /\ CallerTypes
  BY BaseTypes
<1> DEFINE f == Head(call.held)
           k == <<call.layer, IdOf(f)>>
           v == Whole(futures[f].block)
<1>2. /\ f \in FutureIds /\ f \in Members(call.held)
      /\ Tail(call.held) \in Seq(FutureIds)
      /\ Members(Tail(call.held)) \subseteq Members(call.held)
      /\ call' = [call EXCEPT !.held = Tail(@)]
  BY LeftoverFutures
<1>3. PICK g \in [FutureIds -> FutureType] :
             FuturesBecome(g) /\ \A h \in FutureIds : g[h].block = futures[h].block
  BY LeftoverFutures
<1>4. pc = "leftovers" /\ UNCHANGED <<prefetch, queue, worker, fds, pc, jobs, job>>
  BY DEF Leftover
<1>5. k \in Key /\ v \in Values
  <2>1. f \in Referenced
    BY <1>2, RefsContain
  <2>2. IdOf(f) \in Experts /\ futures[f].block \in Key
    BY <1>2, <2>1, BlockOf
  <2>3. call.layer \in Layers
    BY <1>1, <1>4 DEF CallerTypes, CallPlace
  <2>4. QED
    BY <2>2, <2>3, BlockValues DEF Key
<1>6. victim' = victim \/ victim' = Parked(k, v)
  BY DEF Leftover
<1>7. futures' \in [FutureIds -> FutureType]
  BY <1>3, BecomeType
<1> HIDE DEF f, k, v
<1>8. victim' \in Dicts(Key, Values) /\ Len(victim') <= VictimCap
  <2>1. victim \in Dicts(Key, Values) /\ Len(victim) <= VictimCap
    BY <1>1 DEF SharedTypes
  <2>2. QED
    BY <1>5, <1>6, <2>1, ParkedKeys
<1>9. SharedTypes'
  BY <1>1, <1>4, <1>7, <1>8 DEF SharedTypes
<1>10. call' \in CallType /\ call'.layer = call.layer /\ call'.ids = call.ids /\ call'.pos = call.pos
       /\ call'.held = Tail(call.held) /\ call'.backfill = call.backfill
  BY <1>1, <1>2 DEF CallerTypes, CallType
<1>11. CallerTypes'
  BY <1>1, <1>4, <1>10 DEF CallerTypes, CallPlace, ClosingStates
<1>12. Referenced' \subseteq Referenced
  <2>1. Members(call'.held) \subseteq Referenced /\ Members(call'.backfill) \subseteq Referenced
    BY <1>2, <1>10, RefsContain
  <2>2. QED
    BY <1>4, <2>1, RefsContain, RefsWithin
<1>13. RefsStay
  BY <1>3, <1>12, RefsStayBecome
<1>14. RoomLeft'
  BY <1>4 DEF RoomLeft
<1>15. QED
  BY <1>9, <1>11, <1>13, <1>14

\* The return, which hands over the backfill reads.
LEMMA ReturnExpertsBase ==
  ASSUME ReaderBase, ReturnExperts
  PROVE  SharedTypes' /\ CallerTypes' /\ RefsStay /\ RoomLeft'
<1>1. SharedTypes /\ CallerTypes
  BY BaseTypes
<1>2. /\ pc' = "idle" /\ call' = NoCall /\ jobs' = Scheduled
      /\ UNCHANGED <<victim, futures, prefetch, queue, worker, fds, job>>
  BY DEF ReturnExperts
<1>3. call.backfill \in Seq(FutureIds) /\ jobs \in Seq(Seq(FutureIds))
  BY <1>1 DEF SharedTypes, CallerTypes, CallType
<1>4. CASE call.backfill = <<>>
  <2>1. jobs' = jobs
    BY <1>2, <1>4 DEF Scheduled
  <2>2. SharedTypes'
    BY <1>1, <1>2, <2>1 DEF SharedTypes
  <2>3. Referenced' \subseteq Referenced
    BY <1>2, <2>1, EndBase, RefsContain, RefsWithin
  <2>4. RefsStay
    BY <1>2, <2>3, RefsStayQuiet
  <2>5. QED
    BY <1>2, <2>2, <2>4, EndBase
<1>5. CASE call.backfill # <<>>
  <2>1. jobs' = Append(jobs, call.backfill)
    BY <1>2, <1>5 DEF Scheduled
  <2>2. jobs' \in Seq(Seq(FutureIds)) /\ Members(jobs') = Members(jobs) \cup {call.backfill}
    BY <1>3, <2>1, MembersAppend
  <2>3. SharedTypes'
    BY <1>1, <1>2, <2>2 DEF SharedTypes
  <2>4. ASSUME NEW i \in DOMAIN jobs'
        PROVE  Members(jobs'[i]) \subseteq Referenced
    <3>1. jobs'[i] \in Members(jobs')
      BY DEF Members
    <3>2. jobs'[i] = call.backfill \/ \E j \in DOMAIN jobs : jobs'[i] = jobs[j]
      BY <2>2, <3>1 DEF Members
    <3>3. QED
      BY <3>2, RefsContain
  <2>5. Referenced' \subseteq Referenced
    BY <1>2, <2>4, EndBase, RefsContain, RefsWithin
  <2>6. RefsStay
    BY <1>2, <2>5, RefsStayQuiet
  <2>7. QED
    BY <1>2, <2>3, <2>6, EndBase
<1>6. QED
  BY <1>4, <1>5

\* close.
LEMMA CloseBase ==
  ASSUME ReaderBase, CallClose \/ CloseStep
  PROVE  SharedTypes' /\ CallerTypes' /\ RefsStay /\ RoomLeft'
<1>1. SharedTypes /\ CallerTypes
  BY BaseTypes
<1>2. pc' \in ClosingStates /\ pc \in {"idle"} \cup ClosingStates /\ call' = call
  BY DEF CallClose, CloseStep, ShutdownReads, ShutdownBackfill, CloseFiles, ClosingStates
<1>3. CallerTypes'
  BY <1>1, <1>2 DEF CallerTypes, CallerStates, CallPlace, ClosingStates
<1>4. RoomLeft'
  BY <1>2 DEF RoomLeft, ClosingStates
<1>5. CASE CallClose
  BY <1>3, <1>4, <1>5, DropBase DEF CallClose
<1>6. CASE ShutdownReads
  <2>1. /\ queue' = <<>> /\ FuturesBecome(Cancelled(Members(queue)))
        /\ UNCHANGED <<victim, prefetch, worker, fds, jobs, job>>
    BY <1>6 DEF ShutdownReads
  <2> DEFINE g == Cancelled(Members(queue))
  <2>2. g \in [FutureIds -> FutureType] /\ \A f \in FutureIds : g[f].block = futures[f].block
    BY <1>1, CancelledProps DEF SharedTypes
  <2>3. FuturesBecome(g)
    BY <2>1
  <2> HIDE DEF g
  <2>4. SharedTypes'
    BY <1>1, <2>1, <2>2, <2>3, BecomeType, EmptySeq DEF SharedTypes
  <2>5. Referenced' \subseteq Referenced
    BY <1>2, <2>1, MembersEmpty, RefsContain, RefsWithin
  <2>6. QED
    BY <1>3, <1>4, <2>2, <2>3, <2>4, <2>5, RefsStayBecome
<1>7. CASE ShutdownBackfill
  <2>1. /\ jobs' = <<>> /\ FuturesBecome(futures)
        /\ UNCHANGED <<victim, prefetch, queue, worker, fds, job>>
    BY <1>7 DEF ShutdownBackfill
  <2>2. jobs' \in Seq(Seq(FutureIds)) /\ DOMAIN jobs' = {}
    BY <2>1, EmptySeq
  <2>3. SharedTypes'
    BY <1>1, <2>1, <2>2, BecomeType DEF SharedTypes
  <2>4. Referenced' \subseteq Referenced
    BY <1>2, <2>1, <2>2, RefsContain, RefsWithin
  <2>5. QED
    BY <1>3, <1>4, <2>1, <2>3, <2>4, RefsStayBecome
<1>8. CASE CloseFiles
  <2>1. fds' = {} /\ UNCHANGED <<victim, futures, prefetch, queue, worker, jobs, job>>
    BY <1>8 DEF CloseFiles
  <2>2. SharedTypes'
    BY <1>1, <2>1 DEF SharedTypes
  <2>3. Referenced' \subseteq Referenced
    BY <1>2, <2>1, RefsContain, RefsWithin
  <2>4. QED
    BY <1>3, <1>4, <2>1, <2>2, <2>3, RefsStayQuiet
<1>9. QED
  BY <1>5, <1>6, <1>7, <1>8 DEF CloseStep

\* The caller is where it was: the room is what it was, or more.
LEMMA CallerWaits ==
  ASSUME ReaderBase, UNCHANGED <<pc, call>>, RefsStay
  PROVE  CallerTypes' /\ RoomLeft'
<1>1. CallerTypes
  BY BaseTypes
<1>2. CallerTypes'
  BY <1>1 DEF CallerTypes, CallPlace
<1>3. RoomLeft'
  <2>1. Cardinality(Spare)' >= Cardinality(Spare) /\ Cardinality(Spare)' \in Nat /\ Cardinality(Spare) \in Nat
    BY StayRoom
  <2>2. call.pos \in Nat /\ Len(call.ids) \in Nat
    BY <1>1 DEF CallerTypes, CallType
  <2>3. ASSUME pc = "prefetch" \/ (Fallback /\ pc \in {"lookup", "fetch"})
        PROVE  Cardinality(Spare') + call'.pos >= Len(call'.ids) + 1
    <3>1. Cardinality(Spare) + call.pos >= Len(call.ids) + 1
      BY <2>3 DEF ReaderBase, RoomLeft
    <3>2. QED
      BY <2>1, <2>2, <3>1
  <2>4. QED
    BY <2>3 DEF RoomLeft
<1>4. QED
  BY <1>2, <1>3

\* The futures after a worker changed the state of one of them.
LEMMA StateChange ==
  ASSUME ReaderBase, NEW f \in FutureIds, NEW st \in FutureStates,
         FuturesBecome([futures EXCEPT ![f].state = st]), Referenced' \subseteq Referenced \cup {Nobody}
  PROVE  /\ futures' \in [FutureIds -> FutureType]
         /\ RefsStay
         /\ \A h \in FutureIds : h \in Referenced' /\ h # f => futures'[h] = futures[h]
         /\ f \in Referenced' => futures'[f].state = st
<1>1. futures \in [FutureIds -> FutureType]
  BY BaseTypes DEF SharedTypes
<1> DEFINE g == [futures EXCEPT ![f].state = st]
<1>2. /\ g \in [FutureIds -> FutureType]
      /\ \A h \in FutureIds : g[h].block = futures[h].block /\ (h # f => g[h] = futures[h])
      /\ g[f].state = st
  BY <1>1 DEF FutureType
<1>3. FuturesBecome(g)
  OBVIOUS
<1> HIDE DEF g
<1>4. \A h \in FutureIds : h \in Referenced' => futures'[h] = g[h]
  BY <1>3, BecomeValue
<1>5. futures' \in [FutureIds -> FutureType]
  BY <1>2, <1>3, BecomeType
<1>6. RefsStay
  BY <1>2, <1>3, RefsStayBecome
<1>7. QED
  BY <1>2, <1>4, <1>5, <1>6

\* A worker takes an item off the queue.
LEMMA StartReadBase ==
  ASSUME ReaderBase, NEW w \in Workers, StartRead(w)
  PROVE  SharedTypes' /\ CallerTypes' /\ RefsStay /\ RoomLeft'
<1>1. SharedTypes /\ CallerTypes
  BY BaseTypes
<1> DEFINE f == Head(queue)
<1>2. UNCHANGED <<victim, prefetch, fds, pc, call, jobs, job>> /\ queue' = Tail(queue) /\ queue # <<>>
  BY DEF StartRead
<1>3. /\ f \in FutureIds /\ f \in Members(queue)
      /\ queue' \in Seq(FutureIds) /\ Members(queue') \subseteq Members(queue)
  BY <1>1, <1>2, MembersTail DEF SharedTypes
<1>4. \/ /\ worker' = [worker EXCEPT ![w] = [state |-> "opening", future |-> f]]
         /\ FuturesBecome([futures EXCEPT ![f].state = "running"])
      \/ worker' = worker /\ FuturesBecome(futures)
  BY DEF StartRead
<1> HIDE DEF f
<1>5. CASE /\ worker' = [worker EXCEPT ![w] = [state |-> "opening", future |-> f]]
           /\ FuturesBecome([futures EXCEPT ![f].state = "running"])
  <2>1. \A v \in Workers : worker'[v] = IF v = w THEN [state |-> "opening", future |-> f] ELSE worker[v]
    BY <1>1, <1>5 DEF SharedTypes
  <2>2. worker' \in [Workers -> WorkerType]
        /\ \A v \in Workers : worker'[v].state # "idle" => worker'[v].future \in FutureIds
    BY <1>1, <1>3, <1>5, <2>1 DEF SharedTypes, WorkerType
  <2>3. \A v \in Workers : worker'[v].future \in Referenced
    BY <1>3, <2>1, RefsContain
  <2>4. Members(queue') \subseteq Referenced
    BY <1>3, RefsContain
  <2>5. Referenced' \subseteq Referenced
    BY <1>2, <2>3, <2>4, RefsContain, RefsWithin
  <2>6. "running" \in FutureStates
    BY DEF FutureStates
  <2>7. futures' \in [FutureIds -> FutureType] /\ RefsStay
    BY <1>3, <1>5, <2>5, <2>6, StateChange
  <2>8. SharedTypes'
    BY <1>1, <1>2, <1>3, <2>2, <2>7 DEF SharedTypes
  <2>9. QED
    BY <1>2, <2>7, <2>8, CallerWaits
<1>6. CASE worker' = worker /\ FuturesBecome(futures)
  <2>1. Members(queue') \subseteq Referenced
    BY <1>3, RefsContain
  <2>2. Referenced' \subseteq Referenced
    BY <1>2, <1>6, <2>1, RefsContain, RefsWithin
  <2>3. RefsStay
    BY <1>6, <2>2, RefsStayBecome
  <2>4. SharedTypes'
    BY <1>1, <1>2, <1>3, <1>6, BecomeType DEF SharedTypes
  <2>5. QED
    BY <1>2, <2>3, <2>4, CallerWaits
<1>7. QED
  BY <1>4, <1>5, <1>6

\* A worker opens the file.
LEMMA OpenFileBase ==
  ASSUME ReaderBase, NEW w \in Workers, OpenFile(w)
  PROVE  SharedTypes' /\ CallerTypes' /\ RefsStay /\ RoomLeft'
<1>1. SharedTypes /\ CallerTypes
  BY BaseTypes
<1>2. /\ UNCHANGED <<victim, futures, prefetch, queue, pc, call, jobs, job>>
      /\ worker[w].state = "opening"
      /\ worker' = [worker EXCEPT ![w].state = "reading"]
      /\ fds' = fds \cup {futures[worker[w].future].block[1]}
  BY DEF OpenFile
<1>3. worker[w].future \in FutureIds /\ worker[w].future \in Referenced
  BY <1>1, <1>2, RefsContain DEF SharedTypes
<1>4. fds' \subseteq Layers
  BY <1>1, <1>2, <1>3, BlockOf DEF SharedTypes
<1>5. \A v \in Workers : worker'[v] = IF v = w THEN [worker[v] EXCEPT !.state = "reading"] ELSE worker[v]
  BY <1>1, <1>2 DEF SharedTypes
<1>6. \A v \in Workers : worker'[v].future = worker[v].future
                         /\ worker'[v] \in WorkerType
                         /\ (worker'[v].state # "idle" => worker'[v].future \in FutureIds)
  BY <1>1, <1>3, <1>5 DEF SharedTypes, WorkerType
<1>7. worker' \in [Workers -> WorkerType]
  BY <1>1, <1>2, <1>6 DEF SharedTypes
<1>8. SharedTypes'
  BY <1>1, <1>2, <1>4, <1>6, <1>7 DEF SharedTypes
<1>9. Referenced' \subseteq Referenced
  BY <1>2, <1>6, RefsContain, RefsWithin
<1>10. RefsStay
  BY <1>2, <1>9, RefsStayQuiet
<1>11. QED
  BY <1>2, <1>8, <1>10, CallerWaits

\* A read ends, well or not.
LEMMA FinishReadBase ==
  ASSUME ReaderBase, NEW w \in Workers, worker[w].state # "idle", NEW st \in FutureStates, FinishRead(w, st)
  PROVE  SharedTypes' /\ CallerTypes' /\ RefsStay /\ RoomLeft'
<1>1. SharedTypes /\ CallerTypes
  BY BaseTypes
<1> DEFINE f == worker[w].future
<1>2. /\ UNCHANGED <<victim, prefetch, queue, fds, pc, call, jobs, job>>
      /\ worker' = [worker EXCEPT ![w] = [state |-> "idle", future |-> Nobody]]
      /\ FuturesBecome([futures EXCEPT ![f].state = st])
  BY DEF FinishRead
<1>3. f \in FutureIds
  BY <1>1 DEF SharedTypes
<1> HIDE DEF f
<1>4. \A v \in Workers : worker'[v] = IF v = w THEN [state |-> "idle", future |-> Nobody] ELSE worker[v]
  BY <1>1, <1>2 DEF SharedTypes
<1>5. worker' \in [Workers -> WorkerType]
      /\ \A v \in Workers : worker'[v].state # "idle" => worker'[v].future \in FutureIds
  BY <1>1, <1>2, <1>4 DEF SharedTypes, WorkerType
<1>6. Referenced' \subseteq Referenced \cup {Nobody}
  <2> DEFINE R == Referenced \cup {Nobody}
  <2>1. /\ \A l \in Layers : Members(prefetch'[l]) \subseteq R
        /\ Members(queue') \subseteq R
        /\ \A v \in Workers : worker'[v].future \in R
        /\ Members(call'.held) \subseteq R
        /\ Members(call'.backfill) \subseteq R
        /\ \A i \in DOMAIN jobs' : Members(jobs'[i]) \subseteq R
        /\ Members(job') \subseteq R
    BY <1>2, <1>4, RefsContain
  <2> HIDE DEF R
  <2>2. Referenced' \subseteq R
    BY <2>1, RefsWithin
  <2>3. QED
    BY <2>2 DEF R
<1>7. futures' \in [FutureIds -> FutureType] /\ RefsStay
  BY <1>2, <1>3, <1>6, StateChange
<1>8. SharedTypes'
  BY <1>1, <1>2, <1>5, <1>7 DEF SharedTypes
<1>9. QED
  BY <1>2, <1>7, <1>8, CallerWaits

\* The read pool: every step of a worker.
LEMMA WorkerBase ==
  ASSUME ReaderBase, NEW w \in Workers, WorkerStep(w)
  PROVE  SharedTypes' /\ CallerTypes' /\ RefsStay /\ RoomLeft'
<1>1. CASE ReadDone(w)
  <2>1. worker[w].state # "idle" /\ FinishRead(w, "done") /\ "done" \in FutureStates
    BY <1>1 DEF ReadDone, FutureStates
  <2>2. QED
    BY <2>1, FinishReadBase
<1>2. CASE ReadFails(w)
  <2>1. worker[w].state # "idle" /\ FinishRead(w, "failed") /\ "failed" \in FutureStates
    BY <1>2 DEF ReadFails, FutureStates
  <2>2. QED
    BY <2>1, FinishReadBase
<1>3. QED
  BY <1>1, <1>2, StartReadBase, OpenFileBase DEF WorkerStep

\* The backfill worker.
LEMMA BackfillBase ==
  ASSUME ReaderBase, BackfillStep
  PROVE  SharedTypes' /\ CallerTypes' /\ RefsStay /\ RoomLeft'
<1>1. SharedTypes /\ CallerTypes
  BY BaseTypes
<1>2. UNCHANGED <<victim, prefetch, queue, worker, fds, pc, call>>
  BY DEF BackfillStep, StartJob, Backfill
<1>3. CASE StartJob
  <2>1. job' = Head(jobs) /\ jobs' = Tail(jobs) /\ jobs # <<>> /\ futures' = futures
    BY <1>3 DEF StartJob
  <2>2. jobs \in Seq(Seq(FutureIds))
    BY <1>1 DEF SharedTypes
  <2>3. /\ job' \in Seq(FutureIds) /\ job' \in Members(jobs)
        /\ jobs' \in Seq(Seq(FutureIds)) /\ Members(jobs') \subseteq Members(jobs)
    BY <2>1, <2>2, MembersTail
  <2>4. \A s \in Members(jobs) : Members(s) \subseteq Referenced
    <3>1. SUFFICES ASSUME NEW s \in Members(jobs) PROVE Members(s) \subseteq Referenced
      OBVIOUS
    <3>2. PICK i \in DOMAIN jobs : s = jobs[i]
      BY DEF Members
    <3>3. QED
      BY <3>2, RefsContain
  <2>5. \A i \in DOMAIN jobs' : jobs'[i] \in Members(jobs)
    BY <2>3 DEF Members
  <2>6. Referenced' \subseteq Referenced
    BY <1>2, <2>3, <2>4, <2>5, RefsContain, RefsWithin
  <2>7. RefsStay
    BY <2>1, <2>6, RefsStayQuiet
  <2>8. SharedTypes'
    BY <1>1, <1>2, <2>1, <2>3 DEF SharedTypes
  <2>9. QED
    BY <1>2, <2>7, <2>8, CallerWaits
<1>4. CASE Backfill
  <2>1. job' = Tail(job) /\ job # <<>> /\ jobs' = jobs /\ FuturesBecome(futures)
    BY <1>4 DEF Backfill
  <2>2. job' \in Seq(FutureIds) /\ Members(job') \subseteq Members(job)
    BY <1>1, <2>1, MembersTail DEF SharedTypes
  <2>3. Members(job') \subseteq Referenced
    BY <2>2, RefsContain
  <2>4. Referenced' \subseteq Referenced
    BY <1>2, <2>1, <2>3, RefsContain, RefsWithin
  <2>5. RefsStay
    BY <2>1, <2>4, RefsStayBecome
  <2>6. SharedTypes'
    BY <1>1, <1>2, <2>1, <2>2, BecomeType DEF SharedTypes
  <2>7. QED
    BY <1>2, <2>5, <2>6, CallerWaits
<1>5. QED
  BY <1>3, <1>4 DEF BackfillStep

\* A step of something else.
LEMMA StutterBase ==
  ASSUME ReaderBase, UNCHANGED readerVars
  PROVE  SharedTypes' /\ CallerTypes' /\ RefsStay /\ RoomLeft'
<1>1. SharedTypes /\ CallerTypes
  BY BaseTypes
<1>2. UNCHANGED <<victim, futures, prefetch, queue, worker, fds, pc, call, jobs, job>>
  BY DEF readerVars
<1>3. SharedTypes'
  BY <1>1, <1>2 DEF SharedTypes
<1>4. Referenced' \subseteq Referenced
  BY <1>2, RefsContain, RefsWithin
<1>5. RefsStay
  BY <1>2, <1>4, RefsStayQuiet
<1>6. QED
  BY <1>2, <1>3, <1>5, CallerWaits

\* Every step keeps the types; only SubmitPrefetch and ReadPartial make a future.
LEMMA ReaderStepBase ==
  ASSUME ReaderBase, [ReaderNext]_readerVars
  PROVE  /\ SharedTypes' /\ CallerTypes' /\ RoomLeft'
         /\ RefsStay \/ RefsGrow
         /\ RefsStay \/ SubmitPrefetch \/ ReadPartial
<1>1. CASE GetStep
  BY <1>1, LookupHitBase, LookupMissBase, PromoteVictimBase, TakePrefetchedBase, ReadMissBase,
     ReadPartialBase, RaiseBase, LeftoverBase, ReturnExpertsBase DEF GetStep
<1>2. CASE SkipPrefetch \/ SubmitPrefetch \/ ResetPrefetch
  BY <1>2, SkipPrefetchBase, SubmitPrefetchBase, ResetPrefetchBase
<1>3. CASE CallClose \/ CloseStep
  BY <1>3, CloseBase
<1>4. CASE Closed \/ UNCHANGED readerVars
  BY <1>4, StutterBase DEF Closed
<1>5. CASE BackfillStep
  BY <1>5, BackfillBase
<1>6. CASE \E w \in Workers : WorkerStep(w)
  BY <1>6, WorkerBase
<1>7. CASE \E l \in Layers, ids \in IdLists : CallPrefetch(l, ids) \/ CallGet(l, ids)
  BY <1>7, CallPrefetchBase, CallGetBase
<1>8. QED
  BY <1>1, <1>2, <1>3, <1>4, <1>5, <1>6, <1>7 DEF ReaderNext

\* Without an LRU cache the list stays empty.
LEMMA NoLruStep ==
  ASSUME ReaderBase, [ReaderNext]_readerVars, ~LruEnabled
  PROVE  cache' = <<>>
<1>1. cache = <<>>
  BY DEF ReaderBase
<1>2. \A k, v : LruPut(k, v) => cache' = cache
  BY DEF LruPut, lruVars
<1>3. cache' = cache
  <2>1. CASE GetStep
    BY <1>2, <2>1 DEF GetStep, LookupHit, LruHas, LookupMiss, PromoteVictim, TakePrefetched, ReadMiss,
       ReadPartial, PrefetchedReadFailed, OwnReadFails, Raise, Leftover, ReturnExperts
  <2>2. CASE BackfillStep
    BY <1>2, <2>2 DEF BackfillStep, StartJob, Backfill, lruVars
  <2>3. CASE SkipPrefetch \/ SubmitPrefetch \/ ResetPrefetch
             \/ CallClose \/ CloseStep \/ Closed \/ UNCHANGED readerVars
    BY <2>3 DEF SkipPrefetch, SubmitPrefetch, ResetPrefetch, CallClose, CloseStep, ShutdownReads,
       ShutdownBackfill, CloseFiles, Closed, readerVars
  <2>4. CASE \E w \in Workers : WorkerStep(w)
    BY <2>4 DEF WorkerStep, StartRead, OpenFile, ReadDone, ReadFails, FinishRead
  <2>5. CASE \E l \in Layers, ids \in IdLists : CallPrefetch(l, ids) \/ CallGet(l, ids)
    BY <2>5 DEF CallPrefetch, CallGet
  <2>6. QED
    BY <2>1, <2>2, <2>3, <2>4, <2>5 DEF ReaderNext
<1>4. QED
  BY <1>1, <1>3

\* The base invariant is inductive.
LEMMA ReaderBaseStep ==
  ASSUME ReaderBase, [ReaderNext]_readerVars
  PROVE  ReaderBase'
<1>1. LruInv'
  BY ReaderStepOfCache, LruInvStep DEF ReaderBase
<1>2. SharedTypes' /\ CallerTypes' /\ RoomLeft'
  BY ReaderStepBase
<1>3. (~LruEnabled => cache = <<>>)'
  BY NoLruStep
<1>4. FuturesHaveBlocks'
  <2>1. ASSUME NEW f \in FutureIds, f \in Referenced'
        PROVE  futures'[f].block \in Key
    <3>1. CASE RefsStay
      <4>1. f \in Referenced /\ futures'[f].block = futures[f].block
        BY <2>1, <3>1 DEF RefsStay
      <4>2. QED
        BY <4>1 DEF ReaderBase, FuturesHaveBlocks
    <3>2. CASE RefsGrow /\ (SubmitPrefetch \/ ReadPartial)
      <4>1. CurrentKey \in Key
        BY <3>2, CurrentKeyType DEF SubmitPrefetch, ReadPartial, Missed
      <4>2. futures'[f].block = IF f = Fresh THEN CurrentKey ELSE futures[f].block
        BY <2>1, <3>2 DEF RefsGrow
      <4>3. f = Fresh \/ f \in Referenced
        BY <2>1, <3>2 DEF RefsGrow
      <4>4. QED
        BY <4>1, <4>2, <4>3 DEF ReaderBase, FuturesHaveBlocks
    <3>3. QED
      BY <3>1, <3>2, ReaderStepBase
  <2>2. QED
    BY <2>1 DEF FuturesHaveBlocks
<1>5. LruTypeOK'
  BY <1>1 DEF LruInv, LruTypeOK, Dicts
<1>6. (victim \in Seq([key : Key, val : Values]))'
  BY <1>2 DEF SharedTypes, Dicts
<1>7. ReaderTypeOK'
  BY <1>2, <1>5, <1>6 DEF ReaderTypeOK, SharedTypes, CallerTypes, CallType, WorkerType, FutureType
<1>8. QED
  BY <1>1, <1>2, <1>3, <1>4, <1>7 DEF ReaderBase, SharedTypes, CallerTypes

\* It holds when the reader is made.
LEMMA ReaderInitBase == ReaderInit => ReaderBase
<1>1. SUFFICES ASSUME ReaderInit PROVE ReaderBase
  OBVIOUS
<1>2. /\ cache = <<>> /\ byLayer = [l \in Layers |-> {}]
      /\ victim = <<>> /\ futures = [f \in FutureIds |-> Unused]
      /\ prefetch = [l \in Layers |-> <<>>] /\ queue = <<>>
      /\ worker = [w \in Workers |-> [state |-> "idle", future |-> Nobody]]
      /\ fds = {} /\ pc = "idle" /\ call = NoCall /\ jobs = <<>> /\ job = <<>>
  BY <1>1 DEF ReaderInit, LruInit
<1>3. LruInv
  BY <1>2, EmptyDict, EmptySeq, MaxExpertsAssumption DEF LruInv
<1>4. LruTypeOK
  BY <1>3 DEF LruInv, LruTypeOK, Dicts
<1>5. victim \in Dicts(Key, Values) /\ Len(victim) <= VictimCap
  BY <1>2, EmptyDict, EmptySeq
<1>6. Unused \in FutureType
  BY DEF Unused, FutureType, FutureStates
<1>7. call \in CallType /\ call.held = <<>> /\ call.backfill = <<>>
  BY <1>2, NoCallType DEF NoCall
<1>8. Referenced \cap FutureIds = {}
  <2>1. \A l \in Layers : Members(prefetch[l]) = {}
    BY <1>2, MembersEmpty
  <2>2. UNION {Members(prefetch[l]) : l \in Layers} = {}
    BY <2>1
  <2>3. {worker[w].future : w \in Workers} \subseteq {Nobody}
    BY <1>2
  <2>4. UNION {Members(jobs[i]) : i \in DOMAIN jobs} = {}
    BY <1>2
  <2>5. Referenced \subseteq {Nobody}
    BY <1>2, <1>7, <2>2, <2>3, <2>4, MembersEmpty DEF Referenced
  <2>6. QED
    BY <2>5
<1>9. ReaderTypeOK
  BY <1>2, <1>4, <1>6, <1>7, EmptySeq DEF ReaderTypeOK, CallType, CallerStates, FutureType
<1>10. FuturesHaveBlocks /\ CallPlace /\ RoomLeft
  BY <1>2, <1>8 DEF FuturesHaveBlocks, CallPlace, RoomLeft
<1>11. QED
  BY <1>2, <1>3, <1>5, <1>9, <1>10 DEF ReaderBase

\* So it always holds.
LEMMA ReaderBaseInvariant == ReaderSpec => []ReaderBase
<1>1. ReaderBase /\ [ReaderNext]_readerVars => ReaderBase'
  BY ReaderBaseStep
<1>2. QED
  BY <1>1, ReaderInitBase, PTL DEF ReaderSpec

\* The variables of the reader always have their types.
THEOREM ReaderTypeCorrect == ReaderSpec => []ReaderTypeOK
<1>1. ReaderBase => ReaderTypeOK
  BY DEF ReaderBase
<1>2. QED
  BY <1>1, ReaderBaseInvariant, PTL

\* The caller and the backfill worker use the shared cache by gets that hit and
\* puts only, so it behaves as LRUExpertCache specifies.
THEOREM ReaderUsesCache == ReaderSpec => LruSpec
<1>1. ReaderInit => LruInit
  BY DEF ReaderInit
<1>2. ReaderBase /\ [ReaderNext]_readerVars => [LruNext]_lruVars
  BY ReaderStepOfCache
<1>3. QED
  BY <1>1, <1>2, ReaderBaseInvariant, PTL DEF ReaderSpec, LruSpec

-----------------------------------------------------------------------------
(* What the caches hold, and what a call has served.                       *)

AllWhole(d) == \A x \in Pairs(d) : x[2] = Whole(x[1])

\* The same said of the items and of the pairs of a dictionary.
LEMMA WholePairs ==
  ASSUME NEW d
  PROVE  (\A i \in DOMAIN d : d[i].val = Whole(d[i].key)) <=> AllWhole(d)
<1>1. ASSUME \A i \in DOMAIN d : d[i].val = Whole(d[i].key), NEW x \in Pairs(d)
      PROVE  x[2] = Whole(x[1])
  BY <1>1 DEF Pairs
<1>2. ASSUME AllWhole(d), NEW i \in DOMAIN d
      PROVE  d[i].val = Whole(d[i].key)
  <2>1. <<d[i].key, d[i].val>> \in Pairs(d)
    BY DEF Pairs
  <2>2. QED
    BY <1>2, <2>1 DEF AllWhole
<1>3. QED
  BY <1>1, <1>2 DEF AllWhole

\* A future referred to before and after a step is for the block it was for.
LEMMA StableBlock ==
  ASSUME ReaderBase, [ReaderNext]_readerVars, NEW f \in FutureIds, f \in Referenced, f \in Referenced'
  PROVE  futures'[f].block = futures[f].block
BY ReaderStepBase DEF RefsStay, RefsGrow

\* RefsContain, after a step.
LEMMA RefsContainNext ==
  /\ \A l \in Layers : Members(prefetch'[l]) \subseteq Referenced'
  /\ Members(call'.held) \subseteq Referenced'
  /\ Members(call'.backfill) \subseteq Referenced'
  /\ \A w \in Workers : worker'[w].future \in Referenced'
<1> DEFINE P == UNION {Members(prefetch'[l]) : l \in Layers}
           J == UNION {Members(jobs'[i]) : i \in DOMAIN jobs'}
<1>1. Referenced' = P \cup Members(queue') \cup {worker'[w].future : w \in Workers}
                      \cup Members(call'.held) \cup Members(call'.backfill) \cup J \cup Members(job')
  BY DEF Referenced, Members
<1>2. \A l \in Layers : Members(prefetch'[l]) \subseteq P
  OBVIOUS
<1> HIDE DEF P, J
<1>3. QED
  BY <1>1, <1>2

\* A future the call holds is for a block of the call's layer.
LEMMA HeldBlock ==
  ASSUME ReaderBase, BlocksInPlace, NEW f \in Members(call.held)
  PROVE  f \in FutureIds /\ IdOf(f) \in Experts
         /\ futures[f].block = <<call.layer, IdOf(f)>> /\ futures[f].block \in Key
BY HeldFutures, BlockOf DEF BlocksInPlace

\* A whole block put under its own key keeps the cache whole.
LEMMA LruPutWhole ==
  ASSUME LruInv, AllWhole(cache), NEW k \in Key, LruPut(k, Whole(k))
  PROVE  AllWhole(cache')
<1>1. CASE LruEnabled
  <2>1. Put(k, Whole(k))
    BY <1>1 DEF LruPut
  <2>2. PICK v \in Values : v = Whole(k)
    BY BlockValues
  <2>3. Pairs(cache') \subseteq Pairs(cache) \cup {<<k, v>>}
    BY <2>1, <2>2, PutEffect
  <2>4. QED
    BY <2>2, <2>3 DEF AllWhole
<1>2. CASE ~LruEnabled
  BY <1>2 DEF LruPut, lruVars
<1>3. QED
  BY <1>1, <1>2

\* A whole block parked under its own key keeps the victim buffer whole.
LEMMA ParkedWhole ==
  ASSUME victim \in Dicts(Key, Values), AllWhole(victim), NEW k \in Key
  PROVE  AllWhole(Parked(k, Whole(k)))
<1> DEFINE v == Whole(k)
           d == Assign(victim, k, v)
<1>1. v \in Values
  BY BlockValues
<1>2. d \in Dicts(Key, Values) /\ Len(d) \in Nat
  BY <1>1, AssignKeys, DictShape
<1>3. Pairs(d) \subseteq Pairs(victim) \cup {<<k, v>>}
  <2> HIDE DEF v
  <2>1. CASE HasKey(victim, k)
    BY <1>1, <2>1, RefreshOrder DEF Assign
  <2>2. CASE ~HasKey(victim, k)
    BY <1>1, <2>2, Append1Order DEF Assign
  <2>3. QED
    BY <2>1, <2>2
<1>4. Parked(k, v) = IF Len(d) > VictimCap THEN PopOldest(d) ELSE d
  BY DEF Parked
<1> HIDE DEF d
<1>5. Pairs(Parked(k, v)) \subseteq Pairs(d)
  <2>1. CASE Len(d) > VictimCap
    <3>1. Len(d) > 0
      BY <1>2, <2>1
    <3>2. Pairs(PopOldest(d)) \subseteq Pairs(d)
      BY <1>2, <3>1, PopOldestOrder
    <3>3. QED
      BY <1>4, <2>1, <3>2
  <2>2. QED
    BY <1>4, <2>1
<1>6. QED
  BY <1>3, <1>5 DEF AllWhole

\* The LRU cache and the victim buffer stay whole.
LEMMA CachesWholeStep ==
  ASSUME ReaderBase, BlocksInPlace, [ReaderNext]_readerVars
  PROVE  AllWhole(cache') /\ AllWhole(victim')
<1>1. /\ AllWhole(cache) /\ AllWhole(victim)
      /\ LruInv /\ victim \in Dicts(Key, Values)
  BY WholePairs DEF BlocksInPlace, CachesHoldWholeExperts, ReaderBase
<1>2. CASE LookupHit
  <2>1. CurrentKey \in Key /\ GetHit(CurrentKey) /\ victim' = victim
    BY <1>2, CurrentKeyType DEF LookupHit
  <2>2. Pairs(cache') \subseteq Pairs(cache)
    BY <1>1, <2>1, GetHitEffect
  <2>3. QED
    BY <1>1, <2>1, <2>2 DEF AllWhole
<1>3. CASE PromoteVictim
  <2>1. /\ CurrentKey \in Key /\ HasKey(victim, CurrentKey)
        /\ LruPut(CurrentKey, ValueAt(victim, CurrentKey))
        /\ victim' = Delete(victim, CurrentKey)
    BY <1>3, CurrentKeyType DEF PromoteVictim
  <2>2. ValueAt(victim, CurrentKey) = Whole(CurrentKey)
    <3>1. PICK v : v = ValueAt(victim, CurrentKey)
      OBVIOUS
    <3>2. <<CurrentKey, v>> \in Pairs(victim)
      BY <2>1, <3>1, PairAt
    <3>3. <<CurrentKey, v>>[2] = Whole(<<CurrentKey, v>>[1])
      BY <1>1, <3>2 DEF AllWhole
    <3>4. QED
      BY <3>1, <3>3
  <2>3. Pairs(victim') \subseteq Pairs(victim)
    BY <1>1, <2>1, DeleteOrder
  <2>4. QED
    BY <1>1, <2>1, <2>2, <2>3, LruPutWhole DEF AllWhole
<1>4. CASE TakePrefetched
  <2>1. PICK f \in Members(call.held) : IdOf(f) = CurrentId /\ LruPut(CurrentKey, Whole(futures[f].block))
    BY <1>4 DEF TakePrefetched
  <2>2. futures[f].block = CurrentKey /\ CurrentKey \in Key
    BY <2>1, HeldBlock DEF CurrentKey
  <2>3. victim' = victim
    BY <1>4 DEF TakePrefetched
  <2>4. QED
    BY <1>1, <2>1, <2>2, <2>3, LruPutWhole
<1>5. CASE ReadMiss
  <2>1. CurrentKey \in Key /\ LruPut(CurrentKey, Whole(CurrentKey)) /\ victim' = victim
    BY <1>5, CurrentKeyType DEF ReadMiss, Missed
  <2>2. QED
    BY <1>1, <2>1, LruPutWhole
<1>6. CASE Backfill
  <2>1. job \in Seq(FutureIds) /\ job # <<>>
    BY <1>6 DEF Backfill, ReaderBase, ReaderTypeOK
  <2>2. Head(job) \in Members(job)
    BY <2>1, MembersTail
  <2>3. futures[Head(job)].block \in Key
    BY <2>2, HeldFutures, BlockOf
  <2>4. victim' = victim
    BY <1>6 DEF Backfill
  <2>5. CASE LruPut(futures[Head(job)].block, Whole(futures[Head(job)].block))
    BY <1>1, <2>3, <2>4, <2>5, LruPutWhole
  <2>6. CASE UNCHANGED lruVars
    BY <1>1, <2>4, <2>6 DEF lruVars
  <2>7. QED
    BY <1>6, <2>5, <2>6 DEF Backfill
<1>7. CASE Leftover
  <2> DEFINE f == Head(call.held)
  <2>1. f \in Members(call.held)
    BY <1>7, LeftoverFutures
  <2>2. futures[f].block = <<call.layer, IdOf(f)>> /\ futures[f].block \in Key
    BY <2>1, HeldBlock
  <2>3. victim' = victim \/ victim' = Parked(<<call.layer, IdOf(f)>>, Whole(futures[f].block))
    BY <1>7 DEF Leftover
  <2>4. cache' = cache
    BY <1>7 DEF Leftover
  <2> HIDE DEF f
  <2>5. QED
    BY <1>1, <2>2, <2>3, <2>4, ParkedWhole
<1>8. ASSUME UNCHANGED <<cache, victim>> PROVE AllWhole(cache') /\ AllWhole(victim')
  BY <1>1, <1>8
<1>9. CASE SkipPrefetch \/ SubmitPrefetch \/ ResetPrefetch \/ LookupMiss \/ ReadPartial
           \/ PrefetchedReadFailed \/ OwnReadFails \/ ReturnExperts \/ CallClose \/ CloseStep \/ Closed
           \/ StartJob \/ UNCHANGED readerVars
  BY <1>8, <1>9 DEF SkipPrefetch, SubmitPrefetch, ResetPrefetch, LookupMiss, ReadPartial,
     PrefetchedReadFailed, OwnReadFails, Raise, ReturnExperts, CallClose, CloseStep, ShutdownReads,
     ShutdownBackfill, CloseFiles, Closed, StartJob, readerVars
<1>10. CASE \E w \in Workers : WorkerStep(w)
  BY <1>8, <1>10 DEF WorkerStep, StartRead, OpenFile, ReadDone, ReadFails, FinishRead
<1>11. CASE \E l \in Layers, ids \in IdLists : CallPrefetch(l, ids) \/ CallGet(l, ids)
  BY <1>8, <1>11 DEF CallPrefetch, CallGet
<1>12. QED
  BY <1>2, <1>3, <1>4, <1>5, <1>6, <1>7, <1>9, <1>10, <1>11 DEF ReaderNext, GetStep, BackfillStep

\* What a step adds to the prefetches of a layer is the fresh future of a submit.
LEMMA PrefetchStep ==
  ASSUME ReaderBase, [ReaderNext]_readerVars, NEW l \in Layers, NEW f \in Members(prefetch'[l])
  PROVE  \/ f \in Members(prefetch[l])
         \/ SubmitPrefetch /\ l = call.layer /\ f = Fresh
<1>1. prefetch \in [Layers -> Seq(FutureIds)]
  BY BaseTypes DEF SharedTypes
<1>2. CASE SubmitPrefetch
  <2>1. prefetch' = [prefetch EXCEPT ![call.layer] = Append(@, Fresh)] /\ call.layer \in Layers /\ pc = "prefetch"
    BY <1>2, CurrentKeyType DEF SubmitPrefetch
  <2>2. Fresh \in FutureIds
    BY <2>1, FreshIsSpare DEF ReaderBase, ReaderTypeOK
  <2>3. CASE l = call.layer
    <3>1. prefetch'[l] = Append(prefetch[l], Fresh) /\ prefetch[l] \in Seq(FutureIds)
      BY <1>1, <2>1, <2>3
    <3>2. PICK n \in FutureIds : n = Fresh
      BY <2>2
    <3>3. Members(prefetch'[l]) = Members(prefetch[l]) \cup {n}
      BY <3>1, <3>2, MembersAppend
    <3>4. QED
      BY <1>2, <2>3, <3>2, <3>3
  <2>4. CASE l # call.layer
    BY <1>1, <2>1, <2>4
  <2>5. QED
    BY <2>3, <2>4
<1>3. ASSUME NEW m \in Layers, prefetch' = [prefetch EXCEPT ![m] = <<>>]
      PROVE  f \in Members(prefetch[l])
  <2>1. prefetch'[l] = <<>> \/ prefetch'[l] = prefetch[l]
    BY <1>1, <1>3
  <2>2. QED
    BY <2>1, MembersEmpty
<1>4. ASSUME prefetch' = [m \in Layers |-> <<>>]
      PROVE  f \in Members(prefetch[l])
  BY <1>4, MembersEmpty
<1>5. ASSUME prefetch' = prefetch PROVE f \in Members(prefetch[l])
  BY <1>5
<1>6. CASE GetStep \/ SkipPrefetch \/ CloseStep \/ Closed \/ BackfillStep \/ UNCHANGED readerVars
  BY <1>5, <1>6 DEF GetStep, LookupHit, LookupMiss, PromoteVictim, TakePrefetched, ReadMiss, ReadPartial,
     PrefetchedReadFailed, OwnReadFails, Raise, Leftover, ReturnExperts, SkipPrefetch, CloseStep, ShutdownReads,
     ShutdownBackfill, CloseFiles, Closed, BackfillStep, StartJob, Backfill, readerVars
<1>7. CASE ResetPrefetch \/ CallClose
  BY <1>4, <1>7 DEF ResetPrefetch, CallClose, DropPrefetches
<1>8. CASE \E w \in Workers : WorkerStep(w)
  BY <1>5, <1>8 DEF WorkerStep, StartRead, OpenFile, ReadDone, ReadFails, FinishRead
<1>9. CASE \E m \in Layers, ids \in IdLists : CallPrefetch(m, ids) \/ CallGet(m, ids)
  BY <1>3, <1>5, <1>9 DEF CallPrefetch, CallGet
<1>10. QED
  BY <1>2, <1>6, <1>7, <1>8, <1>9 DEF ReaderNext

\* The prefetches of a layer are reads of its blocks.
LEMMA PrefetchLayerStep ==
  ASSUME ReaderBase, BlocksInPlace, [ReaderNext]_readerVars, NEW l \in Layers, NEW f \in Members(prefetch'[l])
  PROVE  futures'[f].block[1] = l
<1>1. f \in Referenced'
  BY RefsContainNext
<1>2. CASE f \in Members(prefetch[l])
  <2>1. f \in FutureIds /\ f \in Referenced /\ futures[f].block[1] = l
    BY <1>2, HeldFutures DEF BlocksInPlace
  <2>2. QED
    BY <1>1, <2>1, StableBlock
<1>3. CASE SubmitPrefetch /\ l = call.layer /\ f = Fresh
  <2>1. f \in FutureIds /\ futures'[f].block = CurrentKey
    BY <1>1, <1>3, SubmitPrefetchBase DEF RefsGrow
  <2>2. QED
    BY <1>3, <2>1 DEF CurrentKey
<1>4. QED
  BY <1>2, <1>3, PrefetchStep

\* A call that goes on, with what it held or less, after a step.
LEMMA CallGoesOn ==
  ASSUME ReaderBase, BlocksInPlace, [ReaderNext]_readerVars,
         call'.layer = call.layer, Members(call'.held) \subseteq Members(call.held)
  PROVE  \A f \in Members(call'.held) : futures'[f].block[1] = call'.layer
<1>1. SUFFICES ASSUME NEW f \in Members(call'.held) PROVE futures'[f].block[1] = call.layer
  OBVIOUS
<1>2. f \in FutureIds /\ f \in Referenced /\ f \in Referenced' /\ futures[f].block[1] = call.layer
  BY HeldFutures, RefsContainNext DEF BlocksInPlace
<1>3. QED
  BY <1>2, StableBlock

\* What a call has served stays served when its backfill reads stay its own.
LEMMA ServedStays ==
  ASSUME ReaderBase, BlocksInPlace, [ReaderNext]_readerVars,
         call'.layer = call.layer, Members(call.backfill) \subseteq Members(call'.backfill),
         NEW x \in call.experts
  PROVE  /\ x.val.block = <<call'.layer, x.id>>
         /\ x.val.whole \/ \E f \in Members(call'.backfill) : futures'[f].block = x.val.block
<1>1. /\ x.val.block = <<call.layer, x.id>>
      /\ x.val.whole \/ \E f \in Members(call.backfill) : futures[f].block = x.val.block
  BY DEF BlocksInPlace, ServedAsAsked
<1>2. ASSUME NEW f \in Members(call.backfill) PROVE futures'[f].block = futures[f].block
  BY HeldFutures, RefsContainNext, StableBlock
<1>3. QED
  BY <1>1, <1>2

\* One more expert served, from the block asked for.
LEMMA ServeServed ==
  ASSUME ReaderBase, BlocksInPlace, [ReaderNext]_readerVars, pc \in {"lookup", "fetch"},
         NEW v \in Values, NEW bf \in Seq(FutureIds), Serve(v, bf),
         v.block = CurrentKey,
         v.whole \/ \E f \in Members(call'.backfill) : futures'[f].block = CurrentKey
  PROVE  ServedAsAsked' /\ (\A f \in Members(call'.held) : futures'[f].block[1] = call'.layer)
<1>1. /\ call'.layer = call.layer /\ call'.held = call.held
      /\ call'.experts = call.experts \cup {[id |-> CurrentId, val |-> v]}
      /\ Members(call'.backfill) = Members(call.backfill) \cup Members(bf)
  BY ServeBase
<1>2. \A f \in Members(call'.held) : futures'[f].block[1] = call'.layer
  BY <1>1, CallGoesOn
<1>3. ASSUME NEW x \in call'.experts
      PROVE  /\ x.val.block = <<call'.layer, x.id>>
             /\ x.val.whole \/ \E f \in Members(call'.backfill) : futures'[f].block = x.val.block
  <2>1. CASE x \in call.experts
    BY <1>1, <2>1, ServedStays
  <2>2. CASE x = [id |-> CurrentId, val |-> v]
    <3>1. x.id = CurrentId /\ x.val = v
      BY <2>2
    <3>2. x.val.block = <<call'.layer, x.id>>
      BY <1>1, <3>1 DEF CurrentKey
    <3>3. QED
      BY <3>1, <3>2
  <2>3. QED
    BY <1>1, <2>1, <2>2
<1>4. ServedAsAsked'
  BY <1>3 DEF ServedAsAsked
<1>5. QED
  BY <1>2, <1>4

\* A call that has served nothing yet, or no call.
LEMMA NothingServed ==
  ASSUME call'.experts = {}
  PROVE  ServedAsAsked'
BY DEF ServedAsAsked

\* What a call has served and what it holds stay its own.
LEMMA ServedStep ==
  ASSUME ReaderBase, BlocksInPlace, [ReaderNext]_readerVars
  PROVE  ServedAsAsked' /\ (\A f \in Members(call'.held) : futures'[f].block[1] = call'.layer)
<1> DEFINE G == ServedAsAsked' /\ (\A f \in Members(call'.held) : futures'[f].block[1] = call'.layer)
<1>1. ASSUME call'.layer = call.layer, Members(call'.held) \subseteq Members(call.held),
             call'.experts = call.experts, call'.backfill = call.backfill
      PROVE  G
  BY <1>1, CallGoesOn, ServedStays DEF ServedAsAsked
<1>2. ASSUME call'.experts = {}, call'.held = <<>>
      PROVE  G
  BY <1>2, NothingServed, MembersEmpty
<1>3. ASSUME call' = call PROVE G
  BY <1>1, <1>3
<1>4. ASSUME call' = NoCall PROVE G
  BY <1>2, <1>4 DEF NoCall
<1>5. <<>> \in Seq(FutureIds)
  BY EmptySeq
<1>6. CASE LookupHit
  <2>1. pc = "lookup" /\ HasKey(cache, CurrentKey) /\ Serve(ValueAt(cache, CurrentKey), <<>>)
    BY <1>6 DEF LookupHit, GetHit
  <2>2. PICK v \in Values : v = ValueAt(cache, CurrentKey)
    BY <2>1, ValueAtType DEF ReaderBase, LruInv
  <2>3. v = Whole(CurrentKey)
    <3>1. <<CurrentKey, v>> \in Pairs(cache)
      BY <2>1, <2>2, PairAt
    <3>2. AllWhole(cache)
      BY WholePairs DEF BlocksInPlace, CachesHoldWholeExperts
    <3>3. <<CurrentKey, v>>[2] = Whole(<<CurrentKey, v>>[1])
      BY <3>1, <3>2 DEF AllWhole
    <3>4. QED
      BY <3>3
  <2>4. v.block = CurrentKey /\ v.whole
    BY <2>3 DEF Whole
  <2>5. QED
    BY <1>5, <2>1, <2>2, <2>4, ServeServed
<1>7. CASE PromoteVictim
  <2>1. pc = "fetch" /\ HasKey(victim, CurrentKey) /\ Serve(ValueAt(victim, CurrentKey), <<>>)
    BY <1>7 DEF PromoteVictim
  <2>2. PICK v \in Values : v = ValueAt(victim, CurrentKey)
    BY <2>1, ValueAtType DEF ReaderBase
  <2>3. v = Whole(CurrentKey)
    <3>1. <<CurrentKey, v>> \in Pairs(victim)
      BY <2>1, <2>2, PairAt
    <3>2. AllWhole(victim)
      BY WholePairs DEF BlocksInPlace, CachesHoldWholeExperts
    <3>3. <<CurrentKey, v>>[2] = Whole(<<CurrentKey, v>>[1])
      BY <3>1, <3>2 DEF AllWhole
    <3>4. QED
      BY <3>3
  <2>4. v.block = CurrentKey /\ v.whole
    BY <2>3 DEF Whole
  <2>5. QED
    BY <1>5, <2>1, <2>2, <2>4, ServeServed
<1>8. CASE TakePrefetched
  <2>1. pc = "fetch"
    BY <1>8 DEF TakePrefetched
  <2>2. PICK f \in Members(call.held) : IdOf(f) = CurrentId /\ Serve(Whole(futures[f].block), <<>>)
    BY <1>8 DEF TakePrefetched
  <2>3. futures[f].block = CurrentKey /\ futures[f].block \in Key
    BY <2>2, HeldBlock DEF CurrentKey
  <2>4. PICK v \in Values : v = Whole(futures[f].block)
    BY <2>3, BlockValues
  <2>5. v.block = CurrentKey /\ v.whole
    BY <2>3, <2>4 DEF Whole
  <2>6. QED
    BY <1>5, <2>1, <2>2, <2>4, <2>5, ServeServed
<1>9. CASE ReadMiss
  <2>1. pc = "fetch" /\ CurrentKey \in Key /\ Serve(Whole(CurrentKey), <<>>)
    BY <1>9, CurrentKeyType DEF ReadMiss, Missed
  <2>2. PICK v \in Values : v = Whole(CurrentKey)
    BY <2>1, BlockValues
  <2>3. v.block = CurrentKey /\ v.whole
    BY <2>2 DEF Whole
  <2>4. QED
    BY <1>5, <2>1, <2>2, <2>3, ServeServed
<1>10. CASE ReadPartial
  <2>1. pc = "fetch" /\ Fallback /\ CurrentKey \in Key /\ Serve(Mixed(CurrentKey), <<Fresh>>)
    BY <1>10, CurrentKeyType DEF ReadPartial, Missed
  <2>2. PICK v \in Values : v = Mixed(CurrentKey)
    BY <2>1, BlockValues
  <2>3. v.block = CurrentKey
    BY <2>2 DEF Mixed
  <2>4. RefsGrow
    BY <1>10, ReadPartialBase
  <2>5. PICK n \in FutureIds : n = Fresh
    BY <2>4 DEF RefsGrow
  <2> DEFINE bf == <<n>>
  <2>6. bf \in Seq(FutureIds) /\ n \in Members(bf)
    <3>1. bf \in Seq(FutureIds) /\ 1 \in DOMAIN bf /\ bf[1] = n
      OBVIOUS
    <3>2. QED
      BY <3>1 DEF Members
  <2>7. Serve(v, bf)
    BY <2>1, <2>2, <2>5
  <2> HIDE DEF bf
  <2>8. n \in Members(call'.backfill)
    BY <2>1, <2>6, <2>7, ServeBase
  <2>9. futures'[n].block = CurrentKey
    BY <2>4, <2>5, <2>8, RefsContainNext DEF RefsGrow
  <2>10. QED
    BY <2>1, <2>3, <2>6, <2>7, <2>8, <2>9, ServeServed
<1>11. CASE Leftover
  <2>1. /\ call' = [call EXCEPT !.held = Tail(@)]
        /\ Members(Tail(call.held)) \subseteq Members(call.held)
    BY <1>11, LeftoverFutures
  <2>2. call \in CallType
    BY BaseTypes DEF CallerTypes
  <2>3. /\ call'.layer = call.layer /\ call'.held = Tail(call.held)
        /\ call'.experts = call.experts /\ call'.backfill = call.backfill
    BY <2>1, <2>2 DEF CallType
  <2>4. QED
    BY <1>1, <2>1, <2>3
<1>12. CASE SkipPrefetch \/ SubmitPrefetch
  <2>1. NextPrefetch /\ call \in CallType
    BY <1>12, BaseTypes DEF SkipPrefetch, SubmitPrefetch, CallerTypes
  <2>2. CASE LastId
    BY <1>4, <2>1, <2>2 DEF NextPrefetch
  <2>3. CASE ~LastId
    <3>1. PICK p : call' = [call EXCEPT !.pos = p]
      BY <2>1, <2>3 DEF NextPrefetch
    <3>2. /\ call'.layer = call.layer /\ call'.held = call.held
          /\ call'.experts = call.experts /\ call'.backfill = call.backfill
      BY <2>1, <3>1 DEF CallType
    <3>3. QED
      BY <1>1, <3>2
  <2>4. QED
    BY <2>2, <2>3
<1>13. ASSUME NEW l \in Layers, NEW ids \in IdLists, CallPrefetch(l, ids)
       PROVE  G
  <2>1. call' = [layer |-> l, ids |-> ids, pos |-> 1, held |-> <<>>, backfill |-> <<>>, experts |-> {}]
    BY <1>13 DEF CallPrefetch, NoCall
  <2>2. QED
    BY <1>2, <2>1
<1>14. ASSUME NEW l \in Layers, NEW ids \in IdLists, CallGet(l, ids)
       PROVE  G
  <2>1. call' = [layer |-> l, ids |-> ids, pos |-> 1, held |-> prefetch[l], backfill |-> <<>>, experts |-> {}]
    BY <1>14 DEF CallGet, NoCall
  <2>2. call'.layer = l /\ call'.held = prefetch[l] /\ call'.experts = {}
    BY <2>1
  <2>3. ASSUME NEW f \in Members(call'.held) PROVE futures'[f].block[1] = l
    <3>1. f \in FutureIds /\ f \in Referenced /\ f \in Referenced' /\ futures[f].block[1] = l
      BY <2>2, HeldFutures, RefsContainNext DEF BlocksInPlace
    <3>2. QED
      BY <3>1, StableBlock
  <2>4. QED
    BY <2>2, <2>3, NothingServed
<1>15. CASE LookupMiss \/ ResetPrefetch \/ CallClose \/ CloseStep \/ Closed \/ BackfillStep
            \/ UNCHANGED readerVars
  BY <1>3, <1>15 DEF LookupMiss, ResetPrefetch, CallClose, CloseStep, ShutdownReads, ShutdownBackfill,
     CloseFiles, Closed, BackfillStep, StartJob, Backfill, readerVars
<1>16. CASE PrefetchedReadFailed \/ OwnReadFails \/ ReturnExperts
  BY <1>4, <1>16 DEF PrefetchedReadFailed, OwnReadFails, Raise, ReturnExperts
<1>17. CASE \E w \in Workers : WorkerStep(w)
  BY <1>3, <1>17 DEF WorkerStep, StartRead, OpenFile, ReadDone, ReadFails, FinishRead
<1>18. QED
  BY <1>6, <1>7, <1>8, <1>9, <1>10, <1>11, <1>12, <1>13, <1>14, <1>15, <1>16, <1>17
  DEF ReaderNext, GetStep

\* Blocks stay in their places.
LEMMA BlocksStep ==
  ASSUME ReaderBase, BlocksInPlace, [ReaderNext]_readerVars
  PROVE  BlocksInPlace'
<1>1. AllWhole(cache') /\ AllWhole(victim')
  BY CachesWholeStep
<1>2. victim' \in Dicts(Key, Values) /\ Len(victim') <= VictimCap
  BY ReaderBaseStep DEF ReaderBase
<1>3. UniqueKeys(victim')
  BY <1>2 DEF Dicts
<1>4. CachesHoldWholeExperts'
  BY <1>1, <1>2, <1>3, WholePairs DEF CachesHoldWholeExperts, UniqueKeys
<1>5. ServedAsAsked' /\ (\A f \in Members(call'.held) : futures'[f].block[1] = call'.layer)
  BY ServedStep
<1>6. \A l \in Layers : \A f \in Members(prefetch'[l]) : futures'[f].block[1] = l
  BY PrefetchLayerStep
<1>7. QED
  BY <1>4, <1>5, <1>6 DEF BlocksInPlace, Members

-----------------------------------------------------------------------------
(* close.                                                                  *)

\* A worker that is reading after a step has its file open.
LEMMA ReadingStep ==
  ASSUME ReaderBase, Winding, [ReaderNext]_readerVars, NEW w \in Workers, worker'[w].state = "reading"
  PROVE  futures'[worker'[w].future].block[1] \in fds'
<1>1. worker \in [Workers -> WorkerType] /\ \A v \in Workers : worker[v].state # "idle" => worker[v].future \in FutureIds
  BY BaseTypes DEF SharedTypes
<1>2. ASSUME worker'[w] = worker[w], fds \subseteq fds'
      PROVE  futures'[worker'[w].future].block[1] \in fds'
  <2>1. futures[worker[w].future].block[1] \in fds /\ worker[w].future \in FutureIds
    BY <1>1, <1>2 DEF Winding, FilesOutliveReads
  <2>2. worker[w].future \in Referenced /\ worker[w].future \in Referenced'
    BY <1>2, RefsContain, RefsContainNext
  <2>3. futures'[worker[w].future].block = futures[worker[w].future].block
    BY <2>1, <2>2, StableBlock
  <2>4. QED
    BY <1>2, <2>1, <2>3
<1>3. ASSUME NEW v \in Workers, WorkerStep(v)
      PROVE  futures'[worker'[w].future].block[1] \in fds'
  <2>1. fds \subseteq fds'
    BY <1>3 DEF WorkerStep, StartRead, OpenFile, ReadDone, ReadFails, FinishRead
  <2>2. CASE v # w
    <3>1. worker'[w] = worker[w]
      BY <1>1, <1>3, <2>2 DEF WorkerStep, StartRead, OpenFile, ReadDone, ReadFails, FinishRead
    <3>2. QED
      BY <1>2, <2>1, <3>1
  <2>3. CASE v = w /\ OpenFile(w)
    <3>1. /\ worker' = [worker EXCEPT ![w].state = "reading"]
          /\ fds' = fds \cup {futures[worker[w].future].block[1]}
          /\ futures' = futures
      BY <2>3 DEF OpenFile
    <3>2. worker'[w].future = worker[w].future
      BY <1>1, <3>1 DEF WorkerType
    <3>3. QED
      BY <3>1, <3>2
  <2>4. CASE v = w /\ StartRead(w)
    <3>1. worker'[w] = worker[w] \/ worker'[w].state = "opening"
      BY <1>1, <2>4 DEF StartRead
    <3>2. QED
      BY <1>2, <2>1, <3>1
  <2>5. CASE v = w /\ (ReadDone(w) \/ ReadFails(w))
    <3>1. worker' = [worker EXCEPT ![w] = [state |-> "idle", future |-> Nobody]]
      BY <2>5 DEF ReadDone, ReadFails, FinishRead
    <3>2. worker'[w].state = "idle"
      BY <1>1, <3>1
    <3>3. QED
      BY <3>2
  <2>6. QED
    BY <1>3, <2>2, <2>3, <2>4, <2>5 DEF WorkerStep
<1>4. CASE CloseFiles
  <2>1. worker'[w] = worker[w] /\ worker[w].state = "idle"
    BY <1>4 DEF CloseFiles, Winding, ReadersDone
  <2>2. QED
    BY <2>1
<1>5. ASSUME worker' = worker, fds \subseteq fds'
      PROVE  futures'[worker'[w].future].block[1] \in fds'
  BY <1>2, <1>5
<1>6. CASE GetStep \/ SkipPrefetch \/ SubmitPrefetch \/ ResetPrefetch
  BY <1>5, <1>6 DEF GetStep, LookupHit, LookupMiss, PromoteVictim, TakePrefetched, ReadMiss, ReadPartial,
     PrefetchedReadFailed, OwnReadFails, Raise, Leftover, ReturnExperts, SkipPrefetch, SubmitPrefetch, ResetPrefetch
<1>7. CASE CallClose \/ ShutdownReads \/ ShutdownBackfill \/ Closed \/ BackfillStep \/ UNCHANGED readerVars
  BY <1>5, <1>7 DEF CallClose, ShutdownReads, ShutdownBackfill, Closed, BackfillStep, StartJob, Backfill, readerVars
<1>8. CASE \E l \in Layers, ids \in IdLists : CallPrefetch(l, ids) \/ CallGet(l, ids)
  BY <1>5, <1>8 DEF CallPrefetch, CallGet
<1>9. QED
  BY <1>3, <1>4, <1>6, <1>7, <1>8 DEF ReaderNext, CloseStep

\* Only close and its steps lead to where close is under way.
LEMMA ClosingSteps ==
  ASSUME [ReaderNext]_readerVars, pc' \in ClosingStates
  PROVE  \/ CallClose \/ CloseStep \/ BackfillStep \/ UNCHANGED readerVars
         \/ \E w \in Workers : WorkerStep(w)
<1>1. CASE GetStep
  BY <1>1 DEF GetStep, LookupHit, LookupMiss, PromoteVictim, TakePrefetched, ReadMiss, ReadPartial, Serve,
     PrefetchedReadFailed, OwnReadFails, Raise, Leftover, ReturnExperts, Missed, ClosingStates
<1>2. CASE SkipPrefetch \/ SubmitPrefetch \/ ResetPrefetch
  BY <1>2 DEF SkipPrefetch, SubmitPrefetch, ResetPrefetch, NextPrefetch, ClosingStates
<1>3. CASE \E l \in Layers, ids \in IdLists : CallPrefetch(l, ids) \/ CallGet(l, ids)
  BY <1>3 DEF CallPrefetch, CallGet, ClosingStates
<1>4. QED
  BY <1>1, <1>2, <1>3 DEF ReaderNext, Closed

\* What close has done stays done, and it does the next thing only then.
LEMMA WindingStep ==
  ASSUME ReaderBase, Winding, [ReaderNext]_readerVars
  PROVE  Winding'
<1> DEFINE Wound ==
      /\ \A l \in Layers : prefetch'[l] = <<>>
      /\ pc' \in ClosingStates \ {"close"} => queue' = <<>>
      /\ pc' \in {"join backfill", "closed"} => ReadersDone' /\ jobs' = <<>>
      /\ pc' = "closed" => job' = <<>> /\ fds' = {}
<1>1. \A w \in Workers : worker'[w].state = "reading" => futures'[worker'[w].future].block[1] \in fds'
  BY ReadingStep
<1>2. CASE pc' \notin ClosingStates
  BY <1>1, <1>2 DEF Winding, FilesOutliveReads, ClosingStates
<1>3. CASE pc' \in ClosingStates
  <2>1. CASE CallClose
    <3>1. pc' = "close" /\ prefetch' = [l \in Layers |-> <<>>]
      BY <2>1 DEF CallClose, DropPrefetches
    <3>2. Wound
      BY <3>1
    <3>3. QED
      BY <1>1, <3>1, <3>2 DEF Winding, FilesOutliveReads, ClosingStates
  <2> SUFFICES ASSUME ~CallClose PROVE Wound
    BY <1>1, <1>3, <2>1 DEF Winding, FilesOutliveReads, ClosingStates
  <2>2. CASE ShutdownReads
    BY <2>2 DEF ShutdownReads, Winding, ClosingStates
  <2>3. CASE ShutdownBackfill
    BY <2>3 DEF ShutdownBackfill, Winding, ClosingStates, ReadersDone
  <2>4. CASE CloseFiles
    BY <2>4 DEF CloseFiles, Winding, ClosingStates, ReadersDone
  <2>5. CASE BackfillStep
    <3>1. UNCHANGED <<prefetch, queue, worker, fds, pc>>
      BY <2>5 DEF BackfillStep, StartJob, Backfill
    <3>2. pc \notin {"closed"}
      BY <2>5 DEF BackfillStep, StartJob, Backfill, Winding
    <3>3. pc \in {"join backfill"} => jobs' = <<>>
      BY <2>5 DEF BackfillStep, StartJob, Backfill, Winding
    <3>4. QED
      BY <1>3, <3>1, <3>2, <3>3 DEF Winding, ClosingStates, ReadersDone
  <2>6. ASSUME NEW w \in Workers, WorkerStep(w) PROVE Wound
    <3>1. UNCHANGED <<prefetch, pc, job, jobs>> /\ (queue # <<>> \/ worker[w].state # "idle")
      BY <2>6 DEF WorkerStep, StartRead, OpenFile, ReadDone, ReadFails, FinishRead
    <3>2. pc \in ClosingStates \ {"close"} => queue = <<>> /\ ~StartRead(w)
      BY <2>6 DEF Winding, StartRead
    <3>3. pc \notin {"join backfill", "closed"}
      BY <3>1, <3>2 DEF Winding, ReadersDone, ClosingStates
    <3>4. pc \in ClosingStates \ {"close"} => queue' = <<>>
      BY <2>6, <3>2 DEF WorkerStep, OpenFile, ReadDone, ReadFails, FinishRead
    <3>5. QED
      BY <1>3, <3>1, <3>3, <3>4 DEF Winding
  <2>7. CASE UNCHANGED readerVars
    BY <1>3, <2>7 DEF readerVars, Winding, FilesOutliveReads, ReadersDone
  <2>8. QED
    BY <1>3, <2>2, <2>3, <2>4, <2>5, <2>6, <2>7, ClosingSteps DEF CloseStep
<1>4. QED
  BY <1>2, <1>3

-----------------------------------------------------------------------------
(* The prefetches.                                                         *)

\* A get that is under way after a step began with it, or goes on.
LEMMA GetGoesOn ==
  ASSUME ReaderBase, [ReaderNext]_readerVars, pc' \in GetStates
  PROVE  \/ \E l \in Layers, ids \in IdLists : CallGet(l, ids)
         \/ /\ pc \in GetStates
            /\ call'.layer = call.layer /\ call'.ids = call.ids
            /\ prefetch' = prefetch
<1>1. call \in CallType /\ CallPlace
  BY BaseTypes DEF CallerTypes
<1>2. \A v, bf : Serve(v, bf) => call'.layer = call.layer /\ call'.ids = call.ids
  BY <1>1 DEF Serve, CallType
<1>3. CASE GetStep
  <2>1. CASE Leftover
    BY <1>1, <2>1 DEF Leftover, GetStates, CallType
  <2>2. CASE LookupHit \/ PromoteVictim \/ TakePrefetched \/ ReadMiss \/ ReadPartial
    BY <1>2, <2>2 DEF LookupHit, PromoteVictim, TakePrefetched, ReadMiss, ReadPartial, Missed, GetStates
  <2>3. CASE LookupMiss
    BY <2>3 DEF LookupMiss, GetStates
  <2>4. CASE PrefetchedReadFailed \/ OwnReadFails \/ ReturnExperts
    BY <2>4 DEF PrefetchedReadFailed, OwnReadFails, Raise, ReturnExperts, GetStates
  <2>5. QED
    BY <1>3, <2>1, <2>2, <2>3, <2>4 DEF GetStep
<1>4. CASE SkipPrefetch \/ SubmitPrefetch \/ ResetPrefetch
  BY <1>4 DEF SkipPrefetch, SubmitPrefetch, ResetPrefetch, NextPrefetch, GetStates
<1>5. CASE CallClose \/ CloseStep \/ Closed
  BY <1>5 DEF CallClose, CloseStep, Closed, ShutdownReads, ShutdownBackfill, CloseFiles, GetStates, readerVars
<1>6. CASE BackfillStep \/ UNCHANGED readerVars
  BY <1>6 DEF BackfillStep, StartJob, Backfill, readerVars
<1>7. CASE \E w \in Workers : WorkerStep(w)
  BY <1>7 DEF WorkerStep, StartRead, OpenFile, ReadDone, ReadFails, FinishRead
<1>8. CASE \E l \in Layers, ids \in IdLists : CallPrefetch(l, ids)
  BY <1>8 DEF CallPrefetch, GetStates
<1>9. QED
  BY <1>3, <1>4, <1>5, <1>6, <1>7, <1>8 DEF ReaderNext

\* The prefetches of the layer of a get were popped when it began.
LEMMA PoppedStep ==
  ASSUME ReaderBase, Merging, [ReaderNext]_readerVars, pc' \in GetStates
  PROVE  prefetch'[call'.layer] = <<>>
<1>1. ASSUME NEW l \in Layers, NEW ids \in IdLists, CallGet(l, ids)
      PROVE  prefetch'[call'.layer] = <<>>
  <2>1. prefetch \in [Layers -> Seq(FutureIds)]
    BY BaseTypes DEF SharedTypes
  <2>2. prefetch' = [prefetch EXCEPT ![l] = <<>>] /\ call'.layer = l
    BY <1>1 DEF CallGet, NoCall
  <2>3. QED
    BY <2>1, <2>2
<1>2. CASE pc \in GetStates /\ call'.layer = call.layer /\ prefetch' = prefetch
  BY <1>2 DEF Merging
<1>3. QED
  BY <1>1, <1>2, GetGoesOn

\* Nothing cancels a prefetch that stays one.
LEMMA NotCancelledStep ==
  ASSUME ReaderBase, BlocksInPlace, Winding, Merging, [ReaderNext]_readerVars,
         NEW l \in Layers, NEW f \in Members(prefetch'[l])
  PROVE  futures'[f].state # "cancelled"
<1>1. f \in Referenced'
  BY RefsContainNext
<1>2. CASE SubmitPrefetch
  <2>1. Submit(CurrentKey) /\ pc = "prefetch"
    BY <1>2 DEF SubmitPrefetch
  <2>2. f \in FutureIds
    <3>1. prefetch' \in [Layers -> Seq(FutureIds)]
      BY ReaderStepBase DEF SharedTypes
    <3>2. QED
      BY <3>1, MembersOf
  <2>3. futures'[f] = IF f = Fresh THEN [block |-> CurrentKey, state |-> "pending"] ELSE futures[f]
    BY <1>1, <2>1, <2>2, SubmitProps
  <2>4. CASE f = Fresh
    BY <2>3, <2>4
  <2>5. CASE f # Fresh
    <3>1. f \in Members(prefetch[l])
      BY <2>5, PrefetchStep
    <3>2. QED
      BY <2>3, <2>5, <3>1 DEF Merging
  <2>6. QED
    BY <2>4, <2>5
<1>3. SUFFICES ASSUME ~SubmitPrefetch PROVE futures'[f].state # "cancelled"
  BY <1>2
<1>4. f \in Members(prefetch[l])
  BY <1>3, PrefetchStep
<1>5. f \in FutureIds /\ f \in Referenced /\ futures[f].state # "cancelled"
  BY <1>4, HeldFutures DEF Merging
<1>6. ASSUME NEW g, FuturesBecome(g), g[f] = futures[f]
      PROVE  futures'[f].state # "cancelled"
  BY <1>1, <1>5, <1>6, BecomeValue
<1>7. CASE futures' = futures
  BY <1>5, <1>7
<1>8. CASE FuturesBecome(futures)
  BY <1>6, <1>8
<1>9. CASE ReadPartial
  <2>1. Submit(CurrentKey) /\ pc = "fetch" /\ Fallback
    BY <1>9 DEF ReadPartial, Missed
  <2>2. QED
    BY <1>1, <1>5, <2>1, SubmitProps
<1>10. CASE Leftover
  <2> DEFINE h == Head(call.held)
  <2>1. /\ h \in FutureIds /\ h \in Members(call.held)
        /\ \E g \in [FutureIds -> FutureType] :
             FuturesBecome(g) /\ \A i \in FutureIds : g[i].block = futures[i].block /\ (i # h => g[i] = futures[i])
    BY <1>10, LeftoverFutures
  <2>2. futures[h].block[1] = call.layer /\ futures[f].block[1] = l
    BY <1>4, <2>1 DEF BlocksInPlace
  <2>3. prefetch[call.layer] = <<>>
    BY <1>10 DEF Leftover, Merging, GetStates
  <2>4. f # h
    BY <1>4, <2>2, <2>3, MembersEmpty
  <2> HIDE DEF h
  <2>5. QED
    BY <1>5, <1>6, <2>1, <2>4
<1>11. CASE ResetPrefetch \/ CallClose
  <2>1. prefetch'[l] = <<>>
    BY <1>11 DEF ResetPrefetch, CallClose, DropPrefetches
  <2>2. QED
    BY <2>1, MembersEmpty
<1>12. CASE ShutdownReads
  <2>1. prefetch[l] = <<>>
    BY <1>12 DEF ShutdownReads, Winding, ClosingStates
  <2>2. QED
    BY <1>4, <2>1, MembersEmpty
<1>13. ASSUME NEW w \in Workers, WorkerStep(w)
       PROVE  futures'[f].state # "cancelled"
  <2> DEFINE Changes == \E h \in FutureIds, st \in FutureStates \ {"cancelled"} :
                           FuturesBecome([futures EXCEPT ![h].state = st])
  <2>1. CASE Changes
    <3>1. PICK h \in FutureIds, st \in FutureStates \ {"cancelled"} :
                 FuturesBecome([futures EXCEPT ![h].state = st])
      BY <2>1
    <3>2. Referenced' \subseteq Referenced \cup {Nobody}
      BY <1>13, WorkerBase DEF RefsStay
    <3>3. (f # h => futures'[f] = futures[f]) /\ (f = h => futures'[f].state = st)
      BY <1>1, <1>5, <3>1, <3>2, StateChange
    <3>4. QED
      BY <1>5, <3>3
  <2>2. worker[w].state # "idle" => worker[w].future \in FutureIds
    BY DEF ReaderBase
  <2>3. "done" \in FutureStates \ {"cancelled"} /\ "failed" \in FutureStates \ {"cancelled"}
        /\ "running" \in FutureStates \ {"cancelled"}
    BY DEF FutureStates
  <2>4. CASE ReadDone(w)
    <3>1. worker[w].future \in FutureIds /\ FuturesBecome([futures EXCEPT ![worker[w].future].state = "done"])
      BY <2>2, <2>4 DEF ReadDone, FinishRead
    <3>2. QED
      BY <2>1, <2>3, <3>1
  <2>5. CASE ReadFails(w)
    <3>1. worker[w].future \in FutureIds /\ FuturesBecome([futures EXCEPT ![worker[w].future].state = "failed"])
      BY <2>2, <2>5 DEF ReadFails, FinishRead
    <3>2. QED
      BY <2>1, <2>3, <3>1
  <2>6. CASE StartRead(w)
    <3>1. Head(queue) \in FutureIds
      <4>1. queue \in Seq(FutureIds) /\ queue # <<>>
        BY <2>6, BaseTypes DEF SharedTypes, StartRead
      <4>2. QED
        BY <4>1, MembersTail
    <3>2. \/ FuturesBecome([futures EXCEPT ![Head(queue)].state = "running"])
          \/ FuturesBecome(futures)
      BY <2>6 DEF StartRead
    <3>3. QED
      BY <1>8, <2>1, <2>3, <3>1, <3>2
  <2>7. CASE OpenFile(w)
    BY <1>7, <2>7 DEF OpenFile
  <2>8. QED
    BY <1>13, <2>4, <2>5, <2>6, <2>7 DEF WorkerStep
<1>14. CASE SkipPrefetch \/ LookupHit \/ LookupMiss \/ PromoteVictim \/ TakePrefetched \/ ReadMiss
            \/ ReturnExperts \/ CloseFiles \/ Closed \/ StartJob \/ UNCHANGED readerVars
  BY <1>7, <1>14 DEF SkipPrefetch, LookupHit, LookupMiss, PromoteVictim, TakePrefetched, ReadMiss,
     ReturnExperts, CloseFiles, Closed, StartJob, readerVars
<1>15. CASE PrefetchedReadFailed \/ OwnReadFails \/ ShutdownBackfill \/ Backfill
  BY <1>8, <1>15 DEF PrefetchedReadFailed, OwnReadFails, Raise, ShutdownBackfill, Backfill
<1>16. CASE \E m \in Layers, ids \in IdLists : CallPrefetch(m, ids) \/ CallGet(m, ids)
  BY <1>7, <1>16 DEF CallPrefetch, CallGet
<1>17. QED
  BY <1>3, <1>9, <1>10, <1>11, <1>12, <1>13, <1>14, <1>15, <1>16
  DEF ReaderNext, GetStep, CloseStep, BackfillStep

\* No two prefetches are of one block.
LEMMA OncePrefetchedStep ==
  ASSUME ReaderBase, BlocksInPlace, Merging, [ReaderNext]_readerVars, NEW l \in Layers,
         NEW f \in Members(prefetch'[l]), NEW g \in Members(prefetch'[l]),
         futures'[f].block = futures'[g].block
  PROVE  f = g
<1>1. ASSUME NEW h \in Members(prefetch[l]), h \in Members(prefetch'[l])
      PROVE  /\ h \in FutureIds /\ futures'[h].block = futures[h].block
             /\ futures[h].block = <<l, IdOf(h)>>
  <2>1. h \in FutureIds /\ h \in Referenced /\ h \in Referenced' /\ futures[h].block[1] = l
    BY <1>1, HeldFutures, RefsContainNext DEF BlocksInPlace
  <2>2. QED
    BY <2>1, StableBlock, BlockOf
<1>2. CASE f \in Members(prefetch[l]) /\ g \in Members(prefetch[l])
  BY <1>1, <1>2 DEF Merging
<1>3. ASSUME NEW h \in Members(prefetch[l]), NEW n \in Members(prefetch'[l]), h \in Members(prefetch'[l]),
             SubmitPrefetch, l = call.layer, n = Fresh
      PROVE  futures'[n].block # futures'[h].block
  <2>1. n \in FutureIds /\ n \in Referenced'
    BY <1>3, RefsContainNext, SubmitPrefetchBase DEF RefsGrow
  <2>2. futures'[n].block = CurrentKey
    BY <1>3, <2>1, SubmitPrefetchBase DEF RefsGrow
  <2>3. ~InFlight(CurrentKey)
    BY <1>3 DEF SubmitPrefetch
  <2>4. IdOf(h) # CurrentId
    BY <1>3, <2>3 DEF InFlight, CurrentKey
  <2>5. futures'[h].block = <<l, IdOf(h)>>
    BY <1>1, <1>3
  <2>6. QED
    BY <2>2, <2>4, <2>5 DEF CurrentKey
<1>4. QED
  BY <1>2, <1>3, PrefetchStep

\* Prefetches are of blocks of their own and go on.
LEMMA MergingStep ==
  ASSUME ReaderBase, BlocksInPlace, Winding, Merging, [ReaderNext]_readerVars
  PROVE  Merging'
<1>1. pc' \in GetStates => prefetch'[call'.layer] = <<>>
  BY PoppedStep
<1>2. \A l \in Layers : \A f \in Members(prefetch'[l]) : futures'[f].state # "cancelled"
  BY NotCancelledStep
<1>3. \A l \in Layers : \A f, g \in Members(prefetch'[l]) : futures'[f].block = futures'[g].block => f = g
  BY OncePrefetchedStep
<1>4. QED
  BY <1>1, <1>2, <1>3 DEF Merging, Members, GetStates

-----------------------------------------------------------------------------
(* What a call has collected.                                              *)

\* What serving does to the call, whatever it serves.
LEMMA ServeCall ==
  ASSUME ReaderBase, NEW v, NEW bf, Serve(v, bf)
  PROVE  /\ call'.layer = call.layer /\ call'.ids = call.ids /\ call'.held = call.held
         /\ call'.pos = call.pos + 1
         /\ call'.experts = call.experts \cup {[id |-> CurrentId, val |-> v]}
         /\ call'.backfill = call.backfill \o bf
<1>1. call \in CallType
  BY BaseTypes DEF CallerTypes
<1>2. PICK E, b, p : /\ E = call.experts \cup {[id |-> CurrentId, val |-> v]}
                     /\ b = call.backfill \o bf
                     /\ p = call.pos + 1
  OBVIOUS
<1>3. call' = [call EXCEPT !.experts = E, !.backfill = b, !.pos = p]
  BY <1>2 DEF Serve
<1>4. QED
  BY <1>1, <1>2, <1>3 DEF CallType

\* A get that is under way after a step began with it, served one more of its
\* ids, or holds what it held or less.
LEMMA GetServes ==
  ASSUME ReaderBase, [ReaderNext]_readerVars, pc' \in GetStates
  PROVE  \/ \E l \in Layers, ids \in IdLists : CallGet(l, ids)
         \/ pc \in {"lookup", "fetch"} /\ \E v, bf : Serve(v, bf)
         \/ /\ pc \in GetStates
            /\ call'.layer = call.layer /\ call'.ids = call.ids /\ call'.pos = call.pos
            /\ call'.experts = call.experts /\ Members(call'.held) \subseteq Members(call.held)
<1>1. call \in CallType
  BY BaseTypes DEF CallerTypes
<1>2. CASE GetStep
  <2>1. CASE Leftover
    <3>1. call' = [call EXCEPT !.held = Tail(@)] /\ Members(Tail(call.held)) \subseteq Members(call.held)
      BY <2>1, LeftoverFutures
    <3>2. QED
      BY <1>1, <2>1, <3>1 DEF Leftover, GetStates, CallType
  <2>2. CASE LookupHit \/ PromoteVictim \/ TakePrefetched \/ ReadMiss \/ ReadPartial
    BY <2>2 DEF LookupHit, PromoteVictim, TakePrefetched, ReadMiss, ReadPartial, Missed
  <2>3. CASE LookupMiss
    BY <2>3 DEF LookupMiss, GetStates
  <2>4. CASE PrefetchedReadFailed \/ OwnReadFails \/ ReturnExperts
    BY <2>4 DEF PrefetchedReadFailed, OwnReadFails, Raise, ReturnExperts, GetStates
  <2>5. QED
    BY <1>2, <2>1, <2>2, <2>3, <2>4 DEF GetStep
<1>3. CASE SkipPrefetch \/ SubmitPrefetch \/ ResetPrefetch
  BY <1>3 DEF SkipPrefetch, SubmitPrefetch, ResetPrefetch, NextPrefetch, GetStates
<1>4. CASE CallClose \/ CloseStep \/ Closed
  BY <1>4 DEF CallClose, CloseStep, Closed, ShutdownReads, ShutdownBackfill, CloseFiles, GetStates, readerVars
<1>5. CASE BackfillStep \/ UNCHANGED readerVars
  BY <1>5 DEF BackfillStep, StartJob, Backfill, readerVars
<1>6. CASE \E w \in Workers : WorkerStep(w)
  BY <1>6 DEF WorkerStep, StartRead, OpenFile, ReadDone, ReadFails, FinishRead
<1>7. CASE \E l \in Layers, ids \in IdLists : CallPrefetch(l, ids)
  BY <1>7 DEF CallPrefetch, GetStates
<1>8. QED
  BY <1>2, <1>3, <1>4, <1>5, <1>6, <1>7 DEF ReaderNext

\* A call has collected the experts of the ids before its position.
LEMMA CallProgressStep ==
  ASSUME ReaderBase, CallProgress, [ReaderNext]_readerVars
  PROVE  CallProgress'
<1> DEFINE Collected == {x.id : x \in call'.experts} = {call'.ids[i] : i \in 1 .. call'.pos - 1}
<1>1. ASSUME pc' \in GetStates PROVE Collected
  <2>1. ASSUME NEW l \in Layers, NEW ids \in IdLists, CallGet(l, ids) PROVE Collected
    <3>1. call' = [layer |-> l, ids |-> ids, pos |-> 1, held |-> prefetch[l], backfill |-> <<>>, experts |-> {}]
      BY <2>1 DEF CallGet, NoCall
    <3>2. call'.pos = 1 /\ call'.experts = {}
      BY <3>1
    <3>3. 1 .. call'.pos - 1 = {}
      BY <3>2
    <3>4. QED
      BY <3>2, <3>3
  <2>2. ASSUME pc \in {"lookup", "fetch"}, NEW v, NEW bf, Serve(v, bf) PROVE Collected
    <3>1. /\ call'.ids = call.ids /\ call'.pos = call.pos + 1
          /\ call'.experts = call.experts \cup {[id |-> CurrentId, val |-> v]}
      BY <2>2, ServeCall
    <3>2. call.pos \in Nat \ {0} /\ CurrentId = call.ids[call.pos]
      BY BaseTypes DEF CallerTypes, CallType, CurrentId
    <3>3. {x.id : x \in call.experts} = {call.ids[i] : i \in 1 .. call.pos - 1}
      BY <2>2 DEF CallProgress, GetStates, Asked
    <3>4. {x.id : x \in call'.experts} = {x.id : x \in call.experts} \cup {CurrentId}
      <4>1. PICK y : y = [id |-> CurrentId, val |-> v]
        OBVIOUS
      <4>2. y.id = CurrentId /\ call'.experts = call.experts \cup {y}
        BY <3>1, <4>1
      <4>3. QED
        BY <4>2
    <3>5. 1 .. call'.pos - 1 = (1 .. call.pos - 1) \cup {call.pos}
      BY <3>1, <3>2
    <3>6. {call'.ids[i] : i \in 1 .. call'.pos - 1} = {call.ids[i] : i \in 1 .. call.pos - 1} \cup {CurrentId}
      BY <3>1, <3>2, <3>5
    <3>7. QED
      BY <3>3, <3>4, <3>6
  <2>3. CASE pc \in GetStates /\ call'.ids = call.ids /\ call'.pos = call.pos /\ call'.experts = call.experts
    BY <2>3 DEF CallProgress, Asked
  <2>4. QED
    BY <1>1, <2>1, <2>2, <2>3, GetServes
<1>2. QED
  BY <1>1 DEF CallProgress, Asked, GetStates

-----------------------------------------------------------------------------
(* Speculation and demand.                                                 *)

\* A put of the cache brings in its key and no other.
LEMMA LruPutKeys ==
  ASSUME LruInv, NEW k \in Key, NEW v \in Values, LruPut(k, v)
  PROVE  Keys(cache') \subseteq Keys(cache) \cup {k}
<1>1. CASE LruEnabled
  <2>1. Put(k, v)
    BY <1>1 DEF LruPut
  <2>2. QED
    BY <2>1, PutEffect
<1>2. CASE ~LruEnabled
  BY <1>2 DEF LruPut, lruVars
<1>3. QED
  BY <1>1, <1>2

\* What enters the cache was demanded: the current expert of a get that missed
\* it, or a block of a backfill.
LEMMA DemandOnly ==
  ASSUME ReaderBase, BlocksInPlace, [ReaderNext]_readerVars, NEW k \in Keys(cache') \ Keys(cache)
  PROVE  \/ PromoteVictim /\ k = CurrentKey
         \/ (TakePrefetched \/ ReadMiss) /\ k = CurrentKey
         \/ Backfill /\ futures[Head(job)].state = "done" /\ k = futures[Head(job)].block
<1>1. LruInv
  BY DEF ReaderBase
<1>2. CASE LookupHit
  <2>1. CurrentKey \in Key /\ GetHit(CurrentKey)
    BY <1>2, CurrentKeyType DEF LookupHit
  <2>2. QED
    BY <1>1, <2>1, GetHitEffect
<1>3. CASE PromoteVictim
  <2>1. CurrentKey \in Key /\ HasKey(victim, CurrentKey) /\ LruPut(CurrentKey, ValueAt(victim, CurrentKey))
    BY <1>3, CurrentKeyType DEF PromoteVictim
  <2>2. PICK v \in Values : v = ValueAt(victim, CurrentKey)
    BY <2>1, ValueAtType DEF ReaderBase
  <2>3. QED
    BY <1>1, <1>3, <2>1, <2>2, LruPutKeys
<1>4. CASE TakePrefetched
  <2>1. PICK f \in Members(call.held) : LruPut(CurrentKey, Whole(futures[f].block))
    BY <1>4 DEF TakePrefetched
  <2>2. CurrentKey \in Key
    BY <1>4, CurrentKeyType DEF TakePrefetched
  <2>3. PICK v \in Values : v = Whole(futures[f].block)
    BY <2>1, HeldBlock, BlockValues
  <2>4. QED
    BY <1>1, <1>4, <2>1, <2>2, <2>3, LruPutKeys
<1>5. CASE ReadMiss
  <2>1. CurrentKey \in Key /\ LruPut(CurrentKey, Whole(CurrentKey))
    BY <1>5, CurrentKeyType DEF ReadMiss, Missed
  <2>2. PICK v \in Values : v = Whole(CurrentKey)
    BY <2>1, BlockValues
  <2>3. QED
    BY <1>1, <1>5, <2>1, <2>2, LruPutKeys
<1>6. CASE Backfill
  <2>1. job \in Seq(FutureIds) /\ job # <<>>
    BY <1>6 DEF Backfill, ReaderBase, ReaderTypeOK
  <2>2. Head(job) \in Members(job)
    BY <2>1, MembersTail
  <2>3. PICK b \in Key : b = futures[Head(job)].block
    BY <2>2, HeldFutures, BlockOf
  <2>4. PICK v \in Values : v = Whole(b)
    BY BlockValues
  <2>5. CASE futures[Head(job)].state = "done" /\ LruPut(b, v)
    <3>1. k = b
      BY <1>1, <2>5, LruPutKeys
    <3>2. QED
      BY <1>6, <2>3, <2>5, <3>1
  <2>6. CASE UNCHANGED lruVars
    BY <2>6 DEF lruVars
  <2>7. QED
    BY <1>6, <2>3, <2>4, <2>5, <2>6 DEF Backfill
<1>7. cache' # cache
  OBVIOUS
<1>8. CASE GetStep
  BY <1>2, <1>3, <1>4, <1>5, <1>7, <1>8 DEF GetStep, LookupMiss, ReadPartial, PrefetchedReadFailed,
     OwnReadFails, Raise, Leftover, ReturnExperts
<1>9. CASE SkipPrefetch \/ SubmitPrefetch \/ ResetPrefetch \/ CallClose \/ CloseStep \/ Closed
           \/ StartJob \/ UNCHANGED readerVars
  BY <1>7, <1>9 DEF SkipPrefetch, SubmitPrefetch, ResetPrefetch, CallClose, CloseStep, ShutdownReads,
     ShutdownBackfill, CloseFiles, Closed, StartJob, readerVars
<1>10. CASE \E w \in Workers : WorkerStep(w)
  BY <1>7, <1>10 DEF WorkerStep, StartRead, OpenFile, ReadDone, ReadFails, FinishRead
<1>11. CASE \E l \in Layers, ids \in IdLists : CallPrefetch(l, ids) \/ CallGet(l, ids)
  BY <1>7, <1>11 DEF CallPrefetch, CallGet
<1>12. QED
  BY <1>6, <1>8, <1>9, <1>10, <1>11 DEF ReaderNext, BackfillStep

\* What enters the victim buffer is a prefetch of the call that it did not serve.
LEMMA ParkedOnly ==
  ASSUME ReaderBase, BlocksInPlace, [ReaderNext]_readerVars, NEW k \in Keys(victim') \ Keys(victim)
  PROVE  Leftover /\ \E f \in Members(call.held) : k = futures[f].block /\ ~Served(IdOf(f))
<1>1. victim \in Dicts(Key, Values) /\ Len(victim) <= VictimCap
  BY DEF ReaderBase
<1>2. CASE PromoteVictim
  <2>1. HasKey(victim, CurrentKey) /\ victim' = Delete(victim, CurrentKey)
    BY <1>2 DEF PromoteVictim
  <2>2. QED
    BY <1>1, <2>1, DeleteKeys
<1>3. CASE Leftover
  <2> DEFINE f == Head(call.held)
  <2>1. f \in Members(call.held)
    BY <1>3, LeftoverFutures
  <2>2. futures[f].block = <<call.layer, IdOf(f)>> /\ futures[f].block \in Key
    BY <2>1, HeldBlock
  <2>3. ~Served(IdOf(f)) /\ victim' = Parked(<<call.layer, IdOf(f)>>, Whole(futures[f].block))
    BY <1>3 DEF Leftover
  <2> HIDE DEF f
  <2>4. PICK v \in Values : v = Whole(futures[f].block)
    BY <2>2, BlockValues
  <2>5. Keys(victim') \subseteq Keys(victim) \cup {futures[f].block}
    BY <1>1, <2>2, <2>3, <2>4, ParkedKeys
  <2>6. QED
    BY <1>3, <2>1, <2>3, <2>5
<1>4. victim' # victim
  OBVIOUS
<1>5. CASE GetStep
  BY <1>2, <1>3, <1>4, <1>5 DEF GetStep, LookupHit, LookupMiss, TakePrefetched, ReadMiss, ReadPartial,
     PrefetchedReadFailed, OwnReadFails, Raise, ReturnExperts
<1>6. CASE SkipPrefetch \/ SubmitPrefetch \/ ResetPrefetch \/ CallClose \/ CloseStep \/ Closed
           \/ BackfillStep \/ UNCHANGED readerVars
  BY <1>4, <1>6 DEF SkipPrefetch, SubmitPrefetch, ResetPrefetch, CallClose, CloseStep, ShutdownReads,
     ShutdownBackfill, CloseFiles, Closed, BackfillStep, StartJob, Backfill, readerVars
<1>7. CASE \E w \in Workers : WorkerStep(w)
  BY <1>4, <1>7 DEF WorkerStep, StartRead, OpenFile, ReadDone, ReadFails, FinishRead
<1>8. CASE \E l \in Layers, ids \in IdLists : CallPrefetch(l, ids) \/ CallGet(l, ids)
  BY <1>4, <1>8 DEF CallPrefetch, CallGet
<1>9. QED
  BY <1>5, <1>6, <1>7, <1>8 DEF ReaderNext

\* What a call holds it took from the prefetches of its layer, or held before.
LEMMA HeldStep ==
  ASSUME ReaderBase, [ReaderNext]_readerVars, NEW f \in Members(call'.held)
  PROVE  \/ UNCHANGED <<cache, futures>> /\ \E l \in Layers : f \in Members(prefetch[l])
         \/ f \in Members(call.held) /\ call.experts \subseteq call'.experts
<1>1. call \in CallType
  BY BaseTypes DEF CallerTypes
<1>2. ASSUME NEW l \in Layers, NEW ids \in IdLists, CallGet(l, ids)
      PROVE  UNCHANGED <<cache, futures>> /\ f \in Members(prefetch[l])
  BY <1>2 DEF CallGet, NoCall
<1>3. ASSUME NEW l \in Layers, NEW ids \in IdLists, CallPrefetch(l, ids)
      PROVE  FALSE
  <2>1. call'.held = <<>>
    BY <1>3 DEF CallPrefetch, NoCall
  <2>2. QED
    BY <2>1, MembersEmpty
<1>4. CASE call' = NoCall
  <2>1. call'.held = <<>>
    BY <1>4 DEF NoCall
  <2>2. QED
    BY <2>1, MembersEmpty
<1>5. CASE call' = call
  BY <1>5
<1>6. CASE \E v, bf : Serve(v, bf)
  BY <1>6, ServeCall
<1>7. CASE Leftover
  <2>1. call' = [call EXCEPT !.held = Tail(@)] /\ Members(Tail(call.held)) \subseteq Members(call.held)
    BY <1>7, LeftoverFutures
  <2>2. QED
    BY <1>1, <2>1 DEF CallType
<1>8. CASE NextPrefetch
  <2>1. CASE ~LastId
    <3>1. PICK p : call' = [call EXCEPT !.pos = p]
      BY <1>8, <2>1 DEF NextPrefetch
    <3>2. QED
      BY <1>1, <3>1 DEF CallType
  <2>2. QED
    BY <1>4, <1>8, <2>1 DEF NextPrefetch
<1>9. CASE GetStep
  BY <1>4, <1>5, <1>6, <1>7, <1>9 DEF GetStep, LookupHit, LookupMiss, PromoteVictim, TakePrefetched, ReadMiss,
     ReadPartial, PrefetchedReadFailed, OwnReadFails, Raise, ReturnExperts
<1>10. CASE SkipPrefetch \/ SubmitPrefetch
  BY <1>8, <1>10 DEF SkipPrefetch, SubmitPrefetch
<1>11. CASE ResetPrefetch \/ CallClose \/ CloseStep \/ Closed \/ BackfillStep \/ UNCHANGED readerVars
  BY <1>5, <1>11 DEF ResetPrefetch, CallClose, CloseStep, ShutdownReads, ShutdownBackfill, CloseFiles, Closed,
     BackfillStep, StartJob, Backfill, readerVars
<1>12. CASE \E w \in Workers : WorkerStep(w)
  BY <1>5, <1>12 DEF WorkerStep, StartRead, OpenFile, ReadDone, ReadFails, FinishRead
<1>13. QED
  BY <1>2, <1>3, <1>9, <1>10, <1>11, <1>12 DEF ReaderNext

\* Without a fallback buffer there is no backfill.
LEMMA NoBackfillStep ==
  ASSUME ReaderBase, Apart, ~Fallback, [ReaderNext]_readerVars
  PROVE  call'.backfill = <<>> /\ jobs' = <<>> /\ job' = <<>>
<1>1. call \in CallType /\ call.backfill = <<>> /\ jobs = <<>> /\ job = <<>>
  BY BaseTypes DEF CallerTypes, Apart
<1>2. NoCall.backfill = <<>>
  BY DEF NoCall
<1>3. \A v : Serve(v, <<>>) => call'.backfill = <<>>
  <2>1. ASSUME NEW v, Serve(v, <<>>) PROVE call'.backfill = <<>>
    <3>1. call'.backfill = <<>> \o <<>>
      BY <1>1, <2>1, ServeCall
    <3>2. QED
      BY <3>1
  <2>2. QED
    BY <2>1
<1>4. CASE LookupHit \/ PromoteVictim \/ TakePrefetched \/ ReadMiss
  BY <1>1, <1>3, <1>4 DEF LookupHit, PromoteVictim, TakePrefetched, ReadMiss
<1>5. CASE LookupMiss \/ ResetPrefetch \/ CallClose \/ CloseStep \/ Closed \/ BackfillStep \/ UNCHANGED readerVars
  BY <1>1, <1>5 DEF LookupMiss, ResetPrefetch, CallClose, CloseStep, ShutdownReads, ShutdownBackfill, CloseFiles,
     Closed, BackfillStep, StartJob, Backfill, readerVars
<1>6. CASE PrefetchedReadFailed \/ OwnReadFails \/ ReturnExperts
  BY <1>1, <1>2, <1>6 DEF PrefetchedReadFailed, OwnReadFails, Raise, ReturnExperts, Scheduled
<1>7. CASE Leftover
  <2>1. call' = [call EXCEPT !.held = Tail(@)] /\ UNCHANGED <<jobs, job>>
    BY <1>7 DEF Leftover
  <2>2. QED
    BY <1>1, <2>1 DEF CallType
<1>8. CASE SkipPrefetch \/ SubmitPrefetch
  <2>1. NextPrefetch /\ UNCHANGED <<jobs, job>>
    BY <1>8 DEF SkipPrefetch, SubmitPrefetch
  <2>2. CASE ~LastId
    <3>1. PICK p : call' = [call EXCEPT !.pos = p]
      BY <2>1, <2>2 DEF NextPrefetch
    <3>2. QED
      BY <1>1, <2>1, <3>1 DEF CallType
  <2>3. QED
    BY <1>1, <1>2, <2>1, <2>2 DEF NextPrefetch
<1>9. CASE \E w \in Workers : WorkerStep(w)
  BY <1>1, <1>9 DEF WorkerStep, StartRead, OpenFile, ReadDone, ReadFails, FinishRead
<1>10. CASE \E l \in Layers, ids \in IdLists : CallPrefetch(l, ids) \/ CallGet(l, ids)
  BY <1>1, <1>10 DEF CallPrefetch, CallGet, NoCall
<1>11. ~ReadPartial
  BY DEF ReadPartial
<1>12. QED
  BY <1>4, <1>5, <1>6, <1>7, <1>8, <1>9, <1>10, <1>11 DEF ReaderNext, GetStep

\* What enters the cache then is the current block, which the call serves.
LEMMA DemandedNow ==
  ASSUME ReaderBase, BlocksInPlace, Apart, ~Fallback, [ReaderNext]_readerVars, NEW k \in Keys(cache') \ Keys(cache)
  PROVE  /\ pc = "fetch" /\ k = CurrentKey /\ k \notin Keys(victim')
         /\ \E v : call'.experts = call.experts \cup {[id |-> CurrentId, val |-> v]}
         /\ UNCHANGED prefetch
<1>1. ~Backfill
  BY DEF Backfill, Apart
<1>2. CASE PromoteVictim /\ k = CurrentKey
  <2>1. victim \in Dicts(Key, Values) /\ HasKey(victim, CurrentKey) /\ victim' = Delete(victim, CurrentKey)
    BY <1>2 DEF PromoteVictim, ReaderBase
  <2>2. k \notin Keys(victim')
    BY <1>2, <2>1, DeleteKeys
  <2>3. \E v : Serve(v, <<>>)
    BY <1>2 DEF PromoteVictim
  <2>4. QED
    BY <1>2, <2>2, <2>3, ServeCall DEF PromoteVictim
<1>3. CASE (TakePrefetched \/ ReadMiss) /\ k = CurrentKey
  <2>1. ~HasKey(victim, CurrentKey) /\ victim' = victim
    BY <1>3 DEF TakePrefetched, ReadMiss, Missed
  <2>2. k \notin Keys(victim')
    BY <1>3, <2>1, KeysHasKey
  <2>3. \E v : Serve(v, <<>>)
    BY <1>3 DEF TakePrefetched, ReadMiss
  <2>4. QED
    BY <1>3, <2>2, <2>3, ServeCall DEF TakePrefetched, ReadMiss, Missed
<1>4. QED
  BY <1>1, <1>2, <1>3, DemandOnly

\* Speculation stays apart from demand.
LEMMA ApartStep ==
  ASSUME ReaderBase, BlocksInPlace, Merging, Apart, ~Fallback, [ReaderNext]_readerVars
  PROVE  Apart'
<1>1. call'.backfill = <<>> /\ jobs' = <<>> /\ job' = <<>>
  BY NoBackfillStep
<1>2. ASSUME NEW k \in Keys(cache'), k \in Keys(victim') PROVE FALSE
  <2>1. CASE k \notin Keys(cache)
    BY <1>2, <2>1, DemandedNow
  <2>2. CASE k \in Keys(cache)
    <3>1. k \notin Keys(victim)
      BY <2>2 DEF Apart
    <3>2. PICK f \in Members(call.held) : k = futures[f].block /\ ~Served(IdOf(f))
      BY <1>2, <3>1, ParkedOnly
    <3>3. QED
      BY <2>2, <3>2 DEF Apart
  <2>3. QED
    BY <2>1, <2>2
<1>3. ASSUME NEW l \in Layers, NEW f \in Members(prefetch'[l]), futures'[f].block \in Keys(cache')
      PROVE  FALSE
  <2>1. f \in Referenced'
    BY RefsContainNext
  <2>2. CASE f \in Members(prefetch[l])
    <3>1. f \in FutureIds /\ f \in Referenced /\ futures[f].block[1] = l /\ futures[f].block \notin Keys(cache)
      BY <2>2, HeldFutures DEF BlocksInPlace, Apart
    <3>2. futures'[f].block = futures[f].block
      BY <2>1, <3>1, StableBlock
    <3>3. pc = "fetch" /\ futures[f].block = CurrentKey
      BY <1>3, <3>1, <3>2, DemandedNow
    <3>4. l = call.layer /\ prefetch[call.layer] = <<>>
      BY <3>1, <3>3 DEF CurrentKey, Merging, GetStates
    <3>5. QED
      BY <2>2, <3>4, MembersEmpty
  <2>3. CASE SubmitPrefetch /\ f = Fresh
    <3>1. f \in FutureIds /\ futures'[f].block = CurrentKey
      BY <2>1, <2>3, SubmitPrefetchBase DEF RefsGrow
    <3>2. cache' = cache /\ ~LruHas(CurrentKey)
      BY <2>3 DEF SubmitPrefetch
    <3>3. HasKey(cache, CurrentKey)
      BY <1>3, <3>1, <3>2, KeysHasKey
    <3>4. ~LruEnabled /\ cache = <<>>
      BY <3>2, <3>3 DEF LruHas, ReaderBase
    <3>5. QED
      BY <1>3, <3>2, <3>4, EmptyDict
  <2>4. QED
    BY <2>2, <2>3, PrefetchStep
<1>4. ASSUME NEW f \in Members(call'.held), futures'[f].block \in Keys(cache')
      PROVE  \E x \in call'.experts : x.id = futures'[f].block[2]
  <2>1. CASE UNCHANGED <<cache, futures>> /\ \E l \in Layers : f \in Members(prefetch[l])
    BY <1>4, <2>1 DEF Apart
  <2>2. CASE f \in Members(call.held) /\ call.experts \subseteq call'.experts
    <3>1. f \in FutureIds /\ f \in Referenced /\ f \in Referenced' /\ futures[f].block = <<call.layer, IdOf(f)>>
      BY <2>2, HeldFutures, HeldBlock, RefsContainNext
    <3>2. futures'[f].block = futures[f].block
      BY <3>1, StableBlock
    <3>3. CASE futures[f].block \in Keys(cache)
      <4>1. \E x \in call.experts : x.id = futures[f].block[2]
        BY <2>2, <3>3 DEF Apart, Served, IdOf
      <4>2. QED
        BY <2>2, <3>2, <4>1
    <3>4. CASE futures[f].block \notin Keys(cache)
      <4>1. PICK v : /\ futures[f].block = CurrentKey
                     /\ call'.experts = call.experts \cup {[id |-> CurrentId, val |-> v]}
        BY <1>4, <3>2, <3>4, DemandedNow
      <4>2. PICK x : x = [id |-> CurrentId, val |-> v]
        OBVIOUS
      <4>3. x \in call'.experts /\ x.id = CurrentId /\ futures'[f].block[2] = CurrentId
        BY <3>2, <4>1, <4>2 DEF CurrentKey
      <4>4. QED
        BY <4>3
    <3>5. QED
      BY <3>3, <3>4
  <2>3. QED
    BY <2>1, <2>2, HeldStep
<1>5. Keys(cache') \cap Keys(victim') = {}
  BY <1>2
<1>6. QED
  BY <1>1, <1>3, <1>4, <1>5 DEF Apart, Served, IdOf, Members, Keys

-----------------------------------------------------------------------------
(* The working set of a call.                                              *)

\* The keys asked for are in the dictionary, and none of the others is younger.
Recent(d, asked) ==
  /\ asked \subseteq Keys(d)
  /\ \A k \in Keys(d) \ asked, s \in asked : <<k, s>> \in Older(d)

\* No two keys are each older than the other.
LEMMA OlderOneWay ==
  ASSUME NEW K, NEW V, NEW d \in Dicts(K, V), NEW k, NEW m, <<k, m>> \in Older(d)
  PROVE  <<m, k>> \notin Older(d)
<1>1. DOMAIN d = 1 .. Len(d) /\ UniqueKeys(d)
  BY DictShape
<1>2. PICK i, j \in 1 .. Len(d) : i < j /\ d[i].key = k /\ d[j].key = m
  BY <1>1 DEF Older
<1>3. SUFFICES ASSUME <<m, k>> \in Older(d) PROVE FALSE
  OBVIOUS
<1>4. PICK a, b \in 1 .. Len(d) : a < b /\ d[a].key = m /\ d[b].key = k
  BY <1>1, <1>3 DEF Older
<1>5. a = j /\ b = i
  BY <1>1, <1>2, <1>4 DEF UniqueKeys
<1>6. QED
  BY <1>2, <1>4, <1>5

\* A get of one more key keeps the keys asked for the most recent ones.
LEMMA RecentHit ==
  ASSUME LruInv, NEW asked, Recent(cache, asked), NEW c \in Key, GetHit(c)
  PROVE  Recent(cache', asked \cup {c})
<1>1. /\ Keys(cache') = Keys(cache)
      /\ Older(cache') = {p \in Older(cache) : p[1] # c /\ p[2] # c} \cup ((Keys(cache) \ {c}) \X {c})
  BY GetHitEffect
<1>2. c \in Keys(cache)
  BY KeysHasKey DEF GetHit
<1>3. ASSUME NEW k \in Keys(cache') \ (asked \cup {c}), NEW s \in asked \cup {c}
      PROVE  <<k, s>> \in Older(cache')
  BY <1>1, <1>3 DEF Recent
<1>4. asked \cup {c} \subseteq Keys(cache')
  BY <1>1, <1>2 DEF Recent
<1>5. QED
  BY <1>3, <1>4 DEF Recent

\* So does a put, while fewer are asked for than the cache has places.
LEMMA RecentPut ==
  ASSUME LruInv, NEW asked, Recent(cache, asked), NEW c \in Key, NEW v \in Values, Put(c, v),
         IsFiniteSet(asked), Cardinality(asked) < MaxExperts
  PROVE  Recent(cache', asked \cup {c})
<1>1. cache \in Dicts(Key, Values)
  BY DEF LruInv
<1>2. PICK gone \in SUBSET Keys(cache) :
        /\ Keys(cache') = (Keys(cache) \ gone) \cup {c}
        /\ Older(cache') = {p \in Older(cache) : p[1] \notin gone \cup {c} /\ p[2] \notin gone \cup {c}}
                            \cup ((Keys(cache) \ (gone \cup {c})) \X {c})
        /\ \/ gone = {}
           \/ /\ gone = {cache[1].key} /\ c \notin Keys(cache)
              /\ Len(cache) = MaxExperts /\ Len(cache) > 0
  BY PutEffect
<1>3. gone \cap asked = {}
  <2>1. SUFFICES ASSUME gone # {}, cache[1].key \in asked PROVE FALSE
    BY <1>2
  <2>2. Len(cache) = MaxExperts /\ Len(cache) > 0
    BY <1>2, <2>1
  <2>3. Keys(cache) \subseteq asked
    <3>1. SUFFICES ASSUME NEW m \in Keys(cache), m \notin asked PROVE FALSE
      OBVIOUS
    <3>2. <<cache[1].key, m>> \in Older(cache)
      BY <1>1, <2>1, <2>2, <3>1, OldestIsOlder
    <3>3. <<m, cache[1].key>> \in Older(cache)
      BY <2>1, <3>1 DEF Recent
    <3>4. QED
      BY <1>1, <3>2, <3>3, OlderOneWay
  <2>4. Cardinality(Keys(cache)) = MaxExperts
    BY <1>1, <2>2, KeysCardinality
  <2>5. Cardinality(Keys(cache)) <= Cardinality(asked) /\ Cardinality(asked) \in Nat
    BY <2>3, FS_Subset, FS_CardinalityType
  <2>6. QED
    BY <2>4, <2>5, MaxExpertsAssumption
<1>4. ASSUME NEW k \in Keys(cache') \ (asked \cup {c}), NEW s \in asked \cup {c}
      PROVE  <<k, s>> \in Older(cache')
  <2>1. k \in Keys(cache) \ asked /\ k \notin gone \cup {c}
    BY <1>2, <1>4
  <2>2. CASE s = c
    BY <1>2, <2>1, <2>2
  <2>3. CASE s # c
    <3>1. s \in asked /\ s \notin gone \cup {c}
      BY <1>3, <1>4, <2>3
    <3>2. <<k, s>> \in Older(cache)
      BY <2>1, <3>1 DEF Recent
    <3>3. QED
      BY <1>2, <2>1, <3>1, <3>2
  <2>4. QED
    BY <2>2, <2>3
<1>5. asked \cup {c} \subseteq Keys(cache')
  BY <1>2, <1>3 DEF Recent
<1>6. QED
  BY <1>4, <1>5 DEF Recent

\* A call has collected fewer experts than it has ids before the current one.
LEMMA AskedFew ==
  ASSUME ReaderBase, CallProgress, pc \in {"lookup", "fetch"}
  PROVE  IsFiniteSet(AskedKeys) /\ Cardinality(AskedKeys) < Len(call.ids)
<1>1. call.pos \in 1 .. Len(call.ids) /\ Len(call.ids) \in Nat
  BY CurrentKeyType
<1>2. Asked = {call.ids[i] : i \in 1 .. call.pos - 1}
  BY DEF CallProgress, GetStates
<1>3. AskedKeys = {<<call.layer, call.ids[i]>> : i \in 1 .. call.pos - 1}
  <2>1. AskedKeys = {<<call.layer, e>> : e \in Asked}
    BY DEF AskedKeys, Asked
  <2>2. QED
    BY <1>2, <2>1
<1>4. PICK n \in Nat : n = call.pos - 1
  BY <1>1
<1> DEFINE f == [i \in 1 .. n |-> <<call.layer, call.ids[i]>>]
<1>5. f \in Surjection(1 .. n, AskedKeys)
  BY <1>3, <1>4 DEF Surjection
<1> HIDE DEF f
<1>6. ExistsSurjection(1 .. n, AskedKeys)
  BY <1>5 DEF ExistsSurjection
<1>7. Cardinality(AskedKeys) <= n
  BY <1>6, FS_SurjCardinalityBound
<1>8. IsFiniteSet(AskedKeys)
  <2>1. IsFiniteSet(1 .. n)
    BY FS_Interval
  <2>2. QED
    BY <1>5, <2>1, FS_Surjection
<1>9. Cardinality(AskedKeys) \in Nat
  BY <1>8, FS_CardinalityType
<1>10. QED
  BY <1>1, <1>4, <1>7, <1>8, <1>9

\* One more expert served makes its key one asked for.
LEMMA ServeAsks ==
  ASSUME ReaderBase, NEW v, NEW bf, Serve(v, bf)
  PROVE  {<<call'.layer, x.id>> : x \in call'.experts} = AskedKeys \cup {CurrentKey}
<1>1. PICK y : y = [id |-> CurrentId, val |-> v]
  OBVIOUS
<1>2. y.id = CurrentId /\ call'.experts = call.experts \cup {y} /\ call'.layer = call.layer
  BY <1>1, ServeCall
<1>3. QED
  BY <1>2 DEF AskedKeys, CurrentKey

\* The experts a call has collected stay the most recent ones of the cache.
LEMMA MostRecentStep ==
  ASSUME ReaderBase, BlocksInPlace, CallProgress, Apart, MostRecent, [ReaderNext]_readerVars
  PROVE  MostRecent'
<1> DEFINE asked == {<<call'.layer, x.id>> : x \in call'.experts}
<1>1. SUFFICES ASSUME LruEnabled, ~Fallback, pc' \in GetStates, Len(call'.ids) <= MaxExperts
               PROVE  Recent(cache', asked)
  BY DEF MostRecent, AskedKeys, GetStates, Keys, Older, Recent
<1>2. LruInv /\ call \in CallType
  BY BaseTypes DEF ReaderBase, CallerTypes
<1>3. ASSUME pc \in GetStates, call'.ids = call.ids
      PROVE  Recent(cache, AskedKeys)
  BY <1>1, <1>3 DEF MostRecent, Recent
<1>4. ASSUME pc \in GetStates, call'.ids = call.ids, call'.layer = call.layer, call'.experts = call.experts, cache' = cache
      PROVE  Recent(cache', asked)
  <2>1. asked = AskedKeys
    BY <1>4 DEF AskedKeys
  <2>2. QED
    BY <1>3, <1>4, <2>1
<1>5. ASSUME NEW v, NEW bf, Serve(v, bf), pc \in {"lookup", "fetch"}
      PROVE  /\ Recent(cache, AskedKeys) /\ asked = AskedKeys \cup {CurrentKey} /\ CurrentKey \in Key
             /\ IsFiniteSet(AskedKeys) /\ Cardinality(AskedKeys) < MaxExperts
  <2>1. asked = AskedKeys \cup {CurrentKey} /\ call'.ids = call.ids
    BY <1>5, ServeAsks, ServeCall
  <2>2. CurrentKey \in Key /\ Len(call.ids) \in Nat
    BY <1>5, CurrentKeyType
  <2>3. IsFiniteSet(AskedKeys) /\ Cardinality(AskedKeys) < Len(call.ids)
    BY <1>5, AskedFew
  <2>4. Cardinality(AskedKeys) \in Nat
    BY <2>3, FS_CardinalityType
  <2>5. Cardinality(AskedKeys) < MaxExperts
    BY <1>1, <2>1, <2>2, <2>3, <2>4, MaxExpertsAssumption
  <2>6. Recent(cache, AskedKeys)
    BY <1>3, <1>5, <2>1 DEF GetStates
  <2>7. QED
    BY <2>1, <2>2, <2>3, <2>5, <2>6
<1>6. ASSUME NEW v \in Values, NEW w, NEW bf, LruPut(CurrentKey, v), Serve(w, bf), pc = "fetch"
      PROVE  Recent(cache', asked)
  <2>1. Put(CurrentKey, v)
    BY <1>1, <1>6 DEF LruPut
  <2>2. /\ Recent(cache, AskedKeys) /\ asked = AskedKeys \cup {CurrentKey} /\ CurrentKey \in Key
        /\ IsFiniteSet(AskedKeys) /\ Cardinality(AskedKeys) < MaxExperts
    BY <1>5, <1>6
  <2> HIDE DEF asked
  <2>3. QED
    BY <1>2, <2>1, <2>2, RecentPut
<1>7. CASE LookupHit
  <2>1. GetHit(CurrentKey) /\ pc = "lookup" /\ \E v, bf : Serve(v, bf)
    BY <1>7 DEF LookupHit
  <2>2. Recent(cache, AskedKeys) /\ asked = AskedKeys \cup {CurrentKey} /\ CurrentKey \in Key
    BY <1>5, <2>1
  <2> HIDE DEF asked
  <2>3. QED
    BY <1>2, <2>1, <2>2, RecentHit
<1>8. CASE PromoteVictim
  <2>1. /\ HasKey(victim, CurrentKey) /\ LruPut(CurrentKey, ValueAt(victim, CurrentKey))
        /\ pc = "fetch" /\ \E w, bf : Serve(w, bf)
    BY <1>8 DEF PromoteVictim
  <2>2. PICK v \in Values : v = ValueAt(victim, CurrentKey)
    BY <2>1, ValueAtType DEF ReaderBase
  <2>3. QED
    BY <1>6, <2>1, <2>2
<1>9. CASE TakePrefetched
  <2>1. PICK f \in Members(call.held) : LruPut(CurrentKey, Whole(futures[f].block)) /\ \E w, bf : Serve(w, bf)
    BY <1>9 DEF TakePrefetched
  <2>2. PICK v \in Values : v = Whole(futures[f].block)
    BY <2>1, HeldBlock, BlockValues
  <2>3. pc = "fetch"
    BY <1>9 DEF TakePrefetched
  <2>4. QED
    BY <1>6, <2>1, <2>2, <2>3
<1>10. CASE ReadMiss
  <2>1. /\ CurrentKey \in Key /\ LruPut(CurrentKey, Whole(CurrentKey))
        /\ pc = "fetch" /\ \E w, bf : Serve(w, bf)
    BY <1>10, CurrentKeyType DEF ReadMiss, Missed
  <2>2. PICK v \in Values : v = Whole(CurrentKey)
    BY <2>1, BlockValues
  <2>3. QED
    BY <1>6, <2>1, <2>2
<1>11. CASE LookupMiss \/ UNCHANGED readerVars
  BY <1>1, <1>4, <1>11 DEF LookupMiss, GetStates, readerVars
<1>12. CASE Leftover
  <2>1. call' = [call EXCEPT !.held = Tail(@)] /\ pc = "leftovers" /\ cache' = cache
    BY <1>12 DEF Leftover
  <2>2. QED
    BY <1>2, <1>4, <2>1 DEF CallType, GetStates
<1>13. CASE \E w \in Workers : WorkerStep(w)
  BY <1>1, <1>4, <1>13 DEF WorkerStep, StartRead, OpenFile, ReadDone, ReadFails, FinishRead
<1>14. ASSUME NEW l \in Layers, NEW ids \in IdLists, CallGet(l, ids)
       PROVE  Recent(cache', asked)
  <2>1. call'.experts = {}
    BY <1>14 DEF CallGet, NoCall
  <2>2. QED
    BY <2>1 DEF Recent
<1>15. ~ReadPartial /\ ~BackfillStep
  BY <1>1 DEF ReadPartial, BackfillStep, StartJob, Backfill, Apart
<1>16. /\ ~(PrefetchedReadFailed \/ OwnReadFails \/ ReturnExperts)
       /\ ~(SkipPrefetch \/ SubmitPrefetch \/ ResetPrefetch \/ CallClose \/ CloseStep)
       /\ \A l \in Layers, ids \in IdLists : ~CallPrefetch(l, ids)
  BY <1>1 DEF PrefetchedReadFailed, OwnReadFails, Raise, ReturnExperts, SkipPrefetch, SubmitPrefetch, ResetPrefetch,
     NextPrefetch, CallClose, CloseStep, ShutdownReads, ShutdownBackfill, CloseFiles, CallPrefetch, GetStates
<1>17. QED
  BY <1>7, <1>8, <1>9, <1>10, <1>11, <1>12, <1>13, <1>14, <1>15, <1>16 DEF ReaderNext, GetStep, Closed

-----------------------------------------------------------------------------
(* The inductive invariant, and what follows from it.                      *)

ReaderInv ==
  /\ ReaderBase
  /\ BlocksInPlace
  /\ Winding
  /\ Merging
  /\ CallProgress
  /\ Apart
  /\ MostRecent

\* The invariant holds when the reader is made, every step keeps it, and so it always holds.
LEMMA ReaderInitInv == ReaderInit => ReaderInv
<1>1. SUFFICES ASSUME ReaderInit PROVE ReaderInv
  OBVIOUS
<1>2. /\ cache = <<>> /\ victim = <<>>
      /\ prefetch = [l \in Layers |-> <<>>] /\ queue = <<>>
      /\ worker = [w \in Workers |-> [state |-> "idle", future |-> Nobody]]
      /\ pc = "idle" /\ jobs = <<>> /\ job = <<>>
  BY <1>1 DEF ReaderInit, LruInit
<1>3. call.experts = {} /\ call.held = <<>> /\ call.backfill = <<>>
  BY <1>1 DEF ReaderInit, NoCall
<1>4. pc \notin GetStates /\ pc \notin ClosingStates
  BY <1>2 DEF GetStates, ClosingStates
<1>5. \A l \in Layers : Members(prefetch[l]) = {}
  BY <1>2, MembersEmpty
<1>6. Members(call.held) = {}
  BY <1>3, MembersEmpty
<1>7. Keys(cache) = {} /\ Keys(victim) = {}
  BY <1>2, EmptyDict
<1>8. BlocksInPlace
  <2>1. CachesHoldWholeExperts
    BY <1>2, EmptyDict DEF CachesHoldWholeExperts, UniqueKeys
  <2>2. QED
    BY <1>3, <1>5, <1>6, <2>1 DEF BlocksInPlace, ServedAsAsked
<1>9. Winding
  BY <1>2, <1>4 DEF Winding, FilesOutliveReads, ClosingStates
<1>10. Merging /\ CallProgress /\ MostRecent
  BY <1>4, <1>5 DEF Merging, CallProgress, MostRecent
<1>11. Apart
  BY <1>2, <1>3, <1>5, <1>6, <1>7 DEF Apart
<1>12. QED
  BY <1>1, <1>8, <1>9, <1>10, <1>11, ReaderInitBase DEF ReaderInv

\* Each part by its lemma.
LEMMA ReaderInvStep ==
  ASSUME ReaderInv, [ReaderNext]_readerVars
  PROVE  ReaderInv'
<1>1. ReaderBase /\ BlocksInPlace /\ Winding /\ Merging /\ CallProgress /\ Apart /\ MostRecent
  BY DEF ReaderInv
<1>2. ReaderBase' /\ BlocksInPlace' /\ Winding' /\ Merging' /\ CallProgress' /\ MostRecent'
  BY <1>1, ReaderBaseStep, BlocksStep, WindingStep, MergingStep, CallProgressStep, MostRecentStep
<1>3. Apart'
  BY <1>1, ApartStep DEF Apart
<1>4. QED
  BY <1>2, <1>3 DEF ReaderInv

\* The inductive invariant of the reader.
LEMMA ReaderInvariant == ReaderSpec => []ReaderInv
<1>1. ReaderInv /\ [ReaderNext]_readerVars => ReaderInv'
  BY ReaderInvStep
<1>2. QED
  BY <1>1, ReaderInitInv, PTL DEF ReaderSpec

\* The LRU cache and the victim buffer never hold a stand-in or another expert's block.
THEOREM ReaderCachesWhole == ReaderSpec => []CachesHoldWholeExperts
<1>1. ReaderInv => CachesHoldWholeExperts
  BY DEF ReaderInv, BlocksInPlace
<1>2. QED
  BY <1>1, ReaderInvariant, PTL

\* get_experts collects the experts it was asked for, and a stand-in is being replaced.
THEOREM ReaderServesAsAsked == ReaderSpec => []ServedAsAsked
<1>1. ReaderInv => ServedAsAsked
  BY DEF ReaderInv, BlocksInPlace
<1>2. QED
  BY <1>1, ReaderInvariant, PTL

\* close never closes a file under a pread, and leaves none open.
THEOREM ReaderFilesOutliveReads == ReaderSpec => []FilesOutliveReads
<1>1. ReaderInv => FilesOutliveReads
  BY DEF ReaderInv, Winding
<1>2. QED
  BY <1>1, ReaderInvariant, PTL

\* Without a fallback buffer no expert is both in the LRU cache and in the victim buffer.
THEOREM ReaderSpeculationApart == ReaderSpec => []SpeculationApart
<1>1. ReaderInv => SpeculationApart
  BY DEF ReaderInv, Apart, SpeculationApart
<1>2. QED
  BY <1>1, ReaderInvariant, PTL

\* A call never evicts what it itself asked for, when that fits the cache.
THEOREM ReaderWorkingSetStays == ReaderSpec => []WorkingSetStays
<1>1. ReaderInv => WorkingSetStays
  <2>1. SUFFICES ASSUME ReaderInv, LruEnabled, ~Fallback, pc = "leftovers", Len(call.ids) <= MaxExperts,
                        NEW x \in call.experts
                 PROVE  HasKey(cache, <<call.layer, x.id>>)
    BY DEF WorkingSetStays
  <2>2. AskedKeys \subseteq Keys(cache)
    BY <2>1 DEF ReaderInv, MostRecent, GetStates
  <2>3. <<call.layer, x.id>> \in AskedKeys
    BY <2>1 DEF AskedKeys
  <2>4. QED
    BY <2>2, <2>3, KeysHasKey
<1>2. QED
  BY <1>1, ReaderInvariant, PTL

\* The cache the caller and the backfill worker share stays consistent with its index.
THEOREM ReaderCacheConsistent == ReaderSpec => []CacheConsistent
<1>1. QED
  BY ReaderUsesCache, LruConsistent, PTL

\* The shared cache evicts as a true LRU cache does, whoever uses it.
THEOREM ReaderEvictsTrueLRU == ReaderSpec => EvictionIsTrueLRU
<1>1. QED
  BY ReaderUsesCache, LruImplementsTrueLRU, PTL

\* A speculative read never costs a demanded expert its slot.
THEOREM ReaderSpeculationNeverEvicts == ReaderSpec => SpeculationNeverEvicts
<1>1. ASSUME ReaderInv, [ReaderNext]_readerVars, NEW k \in Keys(cache') \ Keys(cache)
      PROVE  \/ pc = "fetch" /\ k = CurrentKey
             \/ job # <<>> /\ futures[Head(job)].state = "done" /\ k = futures[Head(job)].block
  BY <1>1, DemandOnly DEF ReaderInv, PromoteVictim, TakePrefetched, ReadMiss, Missed, Backfill
<1> DEFINE Demanded == \A k \in Keys(cache') \ Keys(cache) :
                          \/ pc = "fetch" /\ k = CurrentKey
                          \/ job # <<>> /\ futures[Head(job)].state = "done" /\ k = futures[Head(job)].block
<1>2. ReaderInv /\ [ReaderNext]_readerVars => [Demanded]_readerVars
  BY <1>1
<1>3. ReaderSpec => [][Demanded]_readerVars
  BY <1>2, ReaderInvariant, PTL DEF ReaderSpec
<1>4. QED
  BY <1>3 DEF SpeculationNeverEvicts

\* prefetch_experts adds to the prefetches of its layer and leaves the others be.
LEMMA PrefetchAdds ==
  ASSUME ReaderBase, [ReaderNext]_readerVars, pc = "prefetch" \/ pc' = "prefetch", NEW l \in Layers
  PROVE  Members(prefetch[l]) \subseteq Members(prefetch'[l])
<1>1. CASE SubmitPrefetch
  <2>1. prefetch' = [prefetch EXCEPT ![call.layer] = Append(@, Fresh)] /\ pc = "prefetch"
    BY <1>1 DEF SubmitPrefetch
  <2>2. PICK n \in FutureIds : n = Fresh
    BY <1>1, SubmitPrefetchBase DEF RefsGrow
  <2>3. prefetch[l] \in Seq(FutureIds) /\ prefetch'[l] \in {prefetch[l], Append(prefetch[l], n)}
    BY <2>1, <2>2, BaseTypes DEF SharedTypes
  <2>4. QED
    BY <2>3, MembersAppend
<1>2. CASE prefetch' = prefetch
  BY <1>2
<1>3. CASE SkipPrefetch \/ Closed \/ BackfillStep \/ UNCHANGED readerVars
  BY <1>2, <1>3 DEF SkipPrefetch, Closed, BackfillStep, StartJob, Backfill, readerVars
<1>4. CASE \E w \in Workers : WorkerStep(w)
  BY <1>2, <1>4 DEF WorkerStep, StartRead, OpenFile, ReadDone, ReadFails, FinishRead
<1>5. CASE \E m \in Layers, ids \in IdLists : CallPrefetch(m, ids) \/ CallGet(m, ids)
  BY <1>2, <1>5 DEF CallPrefetch, CallGet
<1>6. CASE GetStep
  <2>1. ~(pc \in {"prefetch"})
    BY <1>6 DEF GetStep, LookupHit, LookupMiss, PromoteVictim, TakePrefetched, ReadMiss, ReadPartial, Missed,
       PrefetchedReadFailed, OwnReadFails, Leftover, ReturnExperts
  <2>2. QED
    BY <1>2, <1>6 DEF GetStep, LookupHit, LookupMiss, PromoteVictim, TakePrefetched, ReadMiss, ReadPartial,
       PrefetchedReadFailed, OwnReadFails, Raise, Leftover, ReturnExperts
<1>7. ~ResetPrefetch /\ ~CallClose /\ ~CloseStep
  BY DEF ResetPrefetch, CallClose, CloseStep, ShutdownReads, ShutdownBackfill, CloseFiles
<1>8. QED
  BY <1>1, <1>3, <1>4, <1>5, <1>6, <1>7 DEF ReaderNext

\* A prefetch_experts call neither forgets nor cancels a read in flight, and starts none twice.
THEOREM ReaderPrefetchMerges == ReaderSpec => PrefetchMerges
<1> DEFINE Merges ==
      pc = "prefetch" \/ pc' = "prefetch" =>
        \A l \in Layers :
          /\ Members(prefetch[l]) \subseteq Members(prefetch'[l])
          /\ \A f \in Members(prefetch[l]) : futures'[f].block = futures[f].block
                                             /\ futures'[f].state # "cancelled"
          /\ \A f, g \in Members(prefetch'[l]) : futures'[f].block = futures'[g].block => f = g
<1>1. ASSUME ReaderInv, [ReaderNext]_readerVars, pc = "prefetch" \/ pc' = "prefetch", NEW l \in Layers
      PROVE  /\ Members(prefetch[l]) \subseteq Members(prefetch'[l])
             /\ \A f \in Members(prefetch[l]) : futures'[f].block = futures[f].block
                                                /\ futures'[f].state # "cancelled"
             /\ \A f, g \in Members(prefetch'[l]) : futures'[f].block = futures'[g].block => f = g
  <2>1. ReaderBase /\ BlocksInPlace /\ Winding /\ Merging
    BY <1>1 DEF ReaderInv
  <2>2. Members(prefetch[l]) \subseteq Members(prefetch'[l])
    BY <1>1, <2>1, PrefetchAdds
  <2>3. ASSUME NEW f \in Members(prefetch[l])
        PROVE  futures'[f].block = futures[f].block /\ futures'[f].state # "cancelled"
    <3>1. f \in FutureIds /\ f \in Referenced /\ f \in Members(prefetch'[l]) /\ f \in Referenced'
      BY <2>1, <2>2, HeldFutures, RefsContainNext
    <3>2. QED
      BY <1>1, <2>1, <3>1, StableBlock, NotCancelledStep
  <2>4. \A f, g \in Members(prefetch'[l]) : futures'[f].block = futures'[g].block => f = g
    BY <1>1, <2>1, OncePrefetchedStep
  <2>5. QED
    BY <2>2, <2>3, <2>4
<1>2. ReaderInv /\ [ReaderNext]_readerVars => [Merges]_readerVars
  BY <1>1
<1>3. ReaderSpec => [][Merges]_readerVars
  BY <1>2, ReaderInvariant, PTL DEF ReaderSpec
<1>4. QED
  BY <1>3 DEF PrefetchMerges

\* A get_experts call that returns has every expert it was asked for.
THEOREM ReaderReturnsAllAsked == ReaderSpec => ReturnsAllAsked
<1> DEFINE All == pc = "leftovers" /\ pc' = "idle" => {x.id : x \in call.experts} = Members(call.ids)
<1>1. ReaderInv => (pc = "leftovers" => {x.id : x \in call.experts} = Members(call.ids))
  <2>1. SUFFICES ASSUME ReaderInv, pc = "leftovers" PROVE Asked = Members(call.ids)
    BY DEF Asked
  <2>2. call.ids \in Seq(Experts) /\ call.pos = Len(call.ids) + 1
    BY <2>1, BaseTypes DEF ReaderInv, CallerTypes, CallType, CallPlace
  <2>3. 1 .. call.pos - 1 = DOMAIN call.ids
    BY <2>2
  <2>4. Asked = {call.ids[i] : i \in 1 .. call.pos - 1}
    BY <2>1 DEF ReaderInv, CallProgress, GetStates
  <2>5. QED
    BY <2>3, <2>4 DEF Members
<1>2. ReaderInv /\ [ReaderNext]_readerVars => [All]_readerVars
  BY <1>1
<1>3. ReaderSpec => [][All]_readerVars
  BY <1>2, ReaderInvariant, PTL DEF ReaderSpec
<1>4. QED
  BY <1>3, PTL DEF ReturnsAllAsked
=============================================================================
