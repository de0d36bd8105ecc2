----------------------- MODULE DistributedReader_proofs -----------------------
(***************************************************************************)
(* The hot-expert cache of the network reader is a true LRU cache, and     *)
(* while no fault meets a probe for an unknown owner it never changes a    *)
(* partial: for any nodes, experts, partitions, requests and workers.      *)
(***************************************************************************)
EXTENDS DistributedReader, LRUExpertCache_proofs, WellFoundedInduction

Owners == Nodes \cup {Unknown, None}

\* The compute thread's local variables.
RequestType ==
  [layer : Layers \cup {None}, active : SUBSET Experts, owners : [Experts -> Owners],
   plan : [Nodes -> {"open", "local", "remote", "done"}], got : SUBSET Experts,
   partial : [Nodes -> SUBSET (Experts \X Experts)], missing : SUBSET Experts]

FetchType ==
  [state : {"idle", "probe", "put", "finished"}, key : Key \cup {None},
   owner : Owners, left : SUBSET Nodes]

DriverTypeOK ==
  /\ owner \in [Experts -> Owners]
  /\ known \in [Nodes -> SUBSET Experts]
  /\ learned \subseteq Nodes
  /\ inflight \subseteq Key
  /\ fetchQueue \in Seq(Key)
  /\ fetcher \in [FetchWorkers -> FetchType]
  /\ \A w \in FetchWorkers : fetcher[w].state # "idle" => fetcher[w].key \in Key
  /\ pc \in {"idle", "plan", "partials", "warm", "sum"}
  /\ req \in RequestType
  /\ pc # "idle" => req.layer \in Layers

\* A set of naturals that is not empty has a least element.
LEMMA LeastOfSet ==
  ASSUME NEW S, S \subseteq Nat, S # {}
  PROVE  Least(S) \in S
<1>1. PICK m \in S : \A y \in S : ~(<<y, m>> \in OpToRel(<, Nat))
  BY NatLessThanWellFounded, WFMin
<1>2. \A y \in S : ~(y < m)
  BY <1>1 DEF OpToRel
<1>3. \A y \in S : m <= y
  BY <1>2
<1>4. QED
  BY <1>3 DEF Least

\* A key the cache has is a layer and an expert.
LEMMA CachedIsKey ==
  ASSUME LruInv, NEW k, HasKey(cache, k)
  PROVE  k \in Key
BY KeysHasKey, KeysType DEF LruInv

USE OwnerAssumption, ServesAssumption, NodesAssumption

LEMMA InitTypeOK == DriverInit => DriverTypeOK
<1>1. SUFFICES ASSUME DriverInit PROVE DriverTypeOK
  OBVIOUS
<1>2. PICK L \in SUBSET Nodes : Learned(L)
  BY <1>1 DEF DriverInit
<1>3. owner \in [Experts -> Owners]
  BY <1>2 DEF Learned, Owners
<1>4. known \in [Nodes -> SUBSET Experts] /\ learned \subseteq Nodes
  BY <1>2 DEF Learned
<1>5. fetcher \in [FetchWorkers -> FetchType]
  BY <1>1 DEF DriverInit, NoFetch, FetchType, Owners
<1>6. req \in RequestType
  BY <1>1 DEF DriverInit, NoRequest, RequestType, Owners
<1>7. QED
  BY <1>1, <1>3, <1>4, <1>5, <1>6, EmptySeq DEF DriverInit, DriverTypeOK, NoFetch

\* A step of the compute thread keeps the types.
LEMMA ComputeTypeOK ==
  ASSUME DriverTypeOK, LruInv, NEW l \in Layers, NEW A \in Requests, Compute(l, A)
  PROVE  DriverTypeOK'
<1>1. A \subseteq Experts
  BY RequestsAssumption
<1>2. NoRequest \in RequestType
  BY DEF NoRequest, RequestType, Owners
<1>3. req' \in RequestType /\ req'.layer \in Layers
  BY <1>1, <1>2 DEF Compute, RequestType, DriverTypeOK
<1>4. QED
  BY <1>3 DEF Compute, DriverTypeOK, beliefs, fetching

LEMMA ComputeStepTypeOK ==
  ASSUME DriverTypeOK, LruInv, ComputeStep
  PROVE  DriverTypeOK'
<1> USE DEF DriverTypeOK, beliefs, fetching
<1>1. ASSUME NEW n \in Nodes, PlanNode(n) PROVE DriverTypeOK'
  <2>1. Planned(n) \in {"local", "remote", "done"}
    BY DEF Planned
  <2>2. req' \in RequestType /\ req'.layer = req.layer
    BY <1>1, <2>1 DEF PlanNode, RequestType
  <2>3. QED
    BY <1>1, <2>2 DEF PlanNode
<1>2. ASSUME NEW n \in Nodes, GetOwn(n) PROVE DriverTypeOK'
  <2> DEFINE e == Least(Mine(n) \ req.got)
  <2>1. HasKey(cache, <<req.layer, e>>)
    BY <1>2 DEF GetOwn, GetHit
  <2>2. req' = [req EXCEPT !.got = @ \cup {e}]
    BY <1>2 DEF GetOwn
  <2> HIDE DEF e
  <2>3. e \in Experts
    <3>1. <<req.layer, e>> \in Layers \X Experts
      BY <2>1, CachedIsKey DEF Key
    <3>2. QED
      BY <3>1
  <2>4. req' \in RequestType /\ req'.layer = req.layer
    BY <2>2, <2>3 DEF RequestType
  <2>5. QED
    BY <1>2, <2>4 DEF GetOwn
<1>3. ASSUME NEW n \in Nodes, EvictedSincePlan(n) PROVE DriverTypeOK'
  <2>1. req' \in RequestType /\ req'.layer = req.layer
    BY <1>3 DEF EvictedSincePlan, RequestType
  <2>2. QED
    BY <1>3, <2>1 DEF EvictedSincePlan
<1>4. ASSUME NEW n \in Nodes, ComputeLocal(n) PROVE DriverTypeOK'
  <2>1. PartialOf(Mine(n), known[n]) \subseteq Experts \X Experts
    <3> DEFINE my == Mine(n) \cap known[n]
    <3>1. my \subseteq Experts /\ my \subseteq Nat
      BY ExpertsAssumption
    <3>2. my # {} => Least(my) \in Experts
      BY <3>1, LeastOfSet
    <3>3. req.active \subseteq Experts
      BY DEF RequestType
    <3>4. QED
      BY <3>1, <3>2, <3>3 DEF PartialOf
  <2>2. req' = [req EXCEPT !.plan[n] = "done", !.partial[n] = PartialOf(Mine(n), known[n])]
    BY <1>4 DEF ComputeLocal
  <2>3. req' \in RequestType /\ req'.layer = req.layer
    BY <2>1, <2>2 DEF RequestType
  <2>4. QED
    BY <1>4, <2>3 DEF ComputeLocal
<1>5. CASE PartialsDone
  <2>1. req' \in RequestType /\ req'.layer = req.layer
    BY <1>5 DEF PartialsDone, RequestType
  <2>2. QED
    BY <1>5, <2>1 DEF PartialsDone
<1>6. CASE Warm
  <2> DEFINE k == <<req.layer, NextMissing>>
  <2>1. req.missing # {} /\ req.missing \subseteq Experts /\ req.missing \subseteq Nat
    BY <1>6, ExpertsAssumption DEF Warm, RequestType
  <2>2. NextMissing \in Experts
    BY <2>1, LeastOfSet DEF NextMissing
  <2>3. k \in Key
    BY <1>6, <2>2 DEF Warm, Key
  <2>4. \/ UNCHANGED <<inflight, fetchQueue>>
        \/ inflight' = inflight \cup {k} /\ fetchQueue' = Append(fetchQueue, k)
    BY <1>6 DEF Warm
  <2>5. req' \in RequestType /\ req'.layer = req.layer
    BY <1>6 DEF Warm, RequestType
  <2> HIDE DEF k
  <2>6. Append(fetchQueue, k) \in Seq(Key)
    BY <2>3, AppendProperties
  <2>7. inflight' \subseteq Key
    BY <2>3, <2>4
  <2>8. fetchQueue' \in Seq(Key)
    BY <2>4, <2>6
  <2>9. QED
    BY <1>6, <2>5, <2>7, <2>8 DEF Warm
<1>7. CASE Post
  <2>1. \A n \in Nodes : NodePartial(n) \subseteq Experts \X Experts
    BY DEF NodePartial, RequestType
  <2>2. \A n \in Nodes : req.partial[n] \subseteq Experts \X Experts
    BY DEF RequestType
  <2>3. req' \in RequestType /\ req'.layer = req.layer
    BY <1>7, <2>1, <2>2 DEF Post, RequestType
  <2>4. QED
    BY <1>7, <2>3 DEF Post
<1>8. CASE PostFails \/ Return
  <2>1. NoRequest \in RequestType
    BY DEF NoRequest, RequestType, Owners
  <2>2. QED
    BY <1>8, <2>1 DEF PostFails, Return
<1>9. QED
  BY <1>1, <1>2, <1>3, <1>4, <1>5, <1>6, <1>7, <1>8 DEF ComputeStep

\* A step of a fetch worker keeps them.
LEMMA FetchStepTypeOK ==
  ASSUME DriverTypeOK, NEW w \in FetchWorkers, FetchStep(w)
  PROVE  DriverTypeOK'
<1> USE DEF DriverTypeOK, beliefs
<1> fetcher[w] \in FetchType
  OBVIOUS
<1>1. CASE StartFetch(w)
  <2> DEFINE k == Head(fetchQueue)
             o == owner[k[2]]
  <2>1. fetchQueue # <<>> /\ fetchQueue' = Tail(fetchQueue)
    BY <1>1 DEF StartFetch
  <2>2. fetchQueue' \in Seq(Key) /\ k \in Key
    BY <2>1, HeadTailProperties
  <2>3. o \in Owners
    BY <2>2 DEF Key
  <2>4. fetcher' = [fetcher EXCEPT ![w] =
           [state |-> "probe", key |-> k, owner |-> o,
            left |-> IF o = Unknown THEN Nodes ELSE {o} \cap Nodes]]
    BY <1>1 DEF StartFetch
  <2> HIDE DEF k, o
  <2>5. /\ fetcher' \in [FetchWorkers -> FetchType]
        /\ \A v \in FetchWorkers : fetcher'[v].state # "idle" => fetcher'[v].key \in Key
    BY <2>2, <2>3, <2>4 DEF FetchType
  <2>6. QED
    BY <1>1, <2>2, <2>5 DEF StartFetch, lruVars
<1>2. CASE ProbeHit(w)
  <2> DEFINE n == Least(fetcher[w].left)
             e == fetcher[w].key[2]
  <2>1. n \in Nodes
    <3>1. fetcher[w].left \subseteq Nodes /\ fetcher[w].left # {}
      BY <1>2 DEF ProbeHit, FetchType
    <3>2. fetcher[w].left \subseteq Nat
      BY <3>1 DEF Nodes
    <3>3. QED
      BY <3>1, <3>2, LeastOfSet
  <2>2. e \in Experts
    BY <1>2 DEF ProbeHit, Key
  <2>3. /\ owner' = [owner EXCEPT ![e] = n]
        /\ known' = [known EXCEPT ![n] = @ \cup {e}]
        /\ learned' = learned \cup {n}
    BY <1>2 DEF ProbeHit
  <2> HIDE DEF n, e
  <2>4. owner' \in [Experts -> Owners] /\ known' \in [Nodes -> SUBSET Experts] /\ learned' \subseteq Nodes
    BY <2>1, <2>2, <2>3 DEF Owners
  <2>5. /\ fetcher' \in [FetchWorkers -> FetchType]
        /\ \A v \in FetchWorkers : fetcher'[v].state # "idle" => fetcher'[v].key \in Key
    BY <1>2 DEF ProbeHit, FetchType
  <2>6. QED
    BY <1>2, <2>4, <2>5 DEF ProbeHit
<1>3. CASE ProbeMiss(w)
  <2>1. /\ fetcher' \in [FetchWorkers -> FetchType]
        /\ \A v \in FetchWorkers : fetcher'[v].state # "idle" => fetcher'[v].key \in Key
    BY <1>3 DEF ProbeMiss, FetchType
  <2>2. QED
    BY <1>3, <2>1 DEF ProbeMiss
<1>4. CASE GiveUp(w)
  <2>1. fetcher[w].key[2] \in Experts
    BY <1>4 DEF GiveUp, Key
  <2>2. OwnerOnFailure(w) \in Owners
    BY <2>1 DEF OwnerOnFailure, Owners
  <2>3. owner' \in [Experts -> Owners]
    BY <1>4, <2>1, <2>2 DEF GiveUp
  <2>4. /\ fetcher' \in [FetchWorkers -> FetchType]
        /\ \A v \in FetchWorkers : fetcher'[v].state # "idle" => fetcher'[v].key \in Key
    BY <1>4 DEF GiveUp, FetchType
  <2>5. QED
    BY <1>4, <2>3, <2>4 DEF GiveUp
<1>5. CASE Store(w)
  <2>1. /\ fetcher' \in [FetchWorkers -> FetchType]
        /\ \A v \in FetchWorkers : fetcher'[v].state # "idle" => fetcher'[v].key \in Key
    BY <1>5 DEF Store, FetchType
  <2>2. QED
    BY <1>5, <2>1 DEF Store
<1>6. CASE Settle(w)
  <2>1. NoFetch \in FetchType /\ NoFetch.state = "idle"
    BY DEF NoFetch, FetchType, Owners
  <2>2. /\ fetcher' \in [FetchWorkers -> FetchType]
        /\ \A v \in FetchWorkers : fetcher'[v].state # "idle" => fetcher'[v].key \in Key
    BY <1>6, <2>1 DEF Settle
  <2>3. QED
    BY <1>6, <2>2 DEF Settle
<1>7. QED
  BY <1>1, <1>2, <1>3, <1>4, <1>5, <1>6 DEF FetchStep

-----------------------------------------------------------------------------
(* The hot cache is used by gets that hit and puts only.                   *)

\* A step of the driver is a step of the cache or leaves it alone.
LEMMA DriverStepOfCache ==
  ASSUME DriverTypeOK, LruInv, [DriverNext]_driverVars
  PROVE  [LruNext]_lruVars
<1>1. ASSUME NEW l \in Layers, NEW A \in Requests, Compute(l, A)
      PROVE  UNCHANGED lruVars
  BY <1>1 DEF Compute
<1>2. ASSUME NEW n \in Nodes, GetOwn(n)
      PROVE  LruNext
  <2>1. PICK k : GetHit(k)
    BY <1>2 DEF GetOwn
  <2>2. k \in Key
    BY <2>1, CachedIsKey DEF GetHit
  <2>3. QED
    BY <2>1, <2>2 DEF LruNext
<1>3. ASSUME NEW n \in Nodes, PlanNode(n) \/ EvictedSincePlan(n) \/ ComputeLocal(n)
      PROVE  UNCHANGED lruVars
  BY <1>3 DEF PlanNode, EvictedSincePlan, ComputeLocal
<1>4. CASE PartialsDone \/ Warm \/ Post \/ PostFails \/ Return
  BY <1>4 DEF PartialsDone, Warm, Post, PostFails, Return
<1>5. ASSUME NEW w \in FetchWorkers, Store(w)
      PROVE  LruNext
  <2>1. fetcher[w].key \in Key /\ Put(fetcher[w].key, fetcher[w].key)
    BY <1>5 DEF Store, DriverTypeOK
  <2>2. QED
    BY <2>1, BlockAssumption DEF LruNext
<1>6. ASSUME NEW w \in FetchWorkers,
             StartFetch(w) \/ ProbeHit(w) \/ ProbeMiss(w) \/ GiveUp(w) \/ Settle(w)
      PROVE  UNCHANGED lruVars
  BY <1>6 DEF StartFetch, ProbeHit, ProbeMiss, GiveUp, Settle
<1>7. CASE UNCHANGED driverVars
  BY <1>7 DEF driverVars, lruVars
<1>8. QED
  BY <1>1, <1>2, <1>3, <1>4, <1>5, <1>6, <1>7 DEF DriverNext, ComputeStep, FetchStep

\* The types of the driver and the invariant of its cache.
DriverBase == DriverTypeOK /\ LruInv

\* They hold together: the cache needs its keys typed, a get only hits keys there.
LEMMA DriverBaseInvariant == DriverSpec => []DriverBase
<1>1. DriverInit => DriverBase
  BY InitTypeOK, EmptyDict, MaxExpertsAssumption DEF DriverInit, LruInit, LruInv, DriverBase
<1>2. DriverBase /\ [DriverNext]_driverVars => DriverBase'
  <2>1. SUFFICES ASSUME DriverBase, [DriverNext]_driverVars PROVE DriverBase'
    OBVIOUS
  <2>2. LruInv'
    BY <2>1, DriverStepOfCache, LruInvStep DEF DriverBase
  <2>3. ASSUME UNCHANGED driverVars PROVE DriverTypeOK'
    BY <2>1, <2>3 DEF DriverBase, driverVars, DriverTypeOK
  <2>4. ASSUME DriverNext PROVE DriverTypeOK'
    BY <2>1, <2>4, ComputeTypeOK, ComputeStepTypeOK, FetchStepTypeOK DEF DriverNext, DriverBase
  <2>5. DriverTypeOK'
    BY <2>1, <2>3, <2>4
  <2>6. QED
    BY <2>2, <2>5 DEF DriverBase
<1>3. QED
  BY <1>1, <1>2, PTL DEF DriverSpec

\* The driver uses the hot cache as LRUExpertCache specifies, from all its threads.
THEOREM DriverUsesCache == DriverSpec => LruSpec
<1>1. DriverInit => LruInit
  BY DEF DriverInit
<1>2. DriverBase /\ [DriverNext]_driverVars => [LruNext]_lruVars
  BY DriverStepOfCache DEF DriverBase
<1>3. QED
  BY <1>1, <1>2, DriverBaseInvariant, PTL DEF DriverSpec, LruSpec

-----------------------------------------------------------------------------
(* What the driver believes about owners.                                  *)

\* BeliefsSound is not inductive: what a worker that still probes has learned is
\* in its own variables.
ProbesSound ==
  \A w \in FetchWorkers :
    fetcher[w].state = "probe" /\ fetcher[w].owner = Unknown =>
      \A n \in Nodes \ fetcher[w].left : fetcher[w].key[2] \notin Serves[n]

\* A worker that gives up on an expert of unknown owner has asked every node.
LEMMA FetchKeepsBeliefs ==
  ASSUME BlockFaults = FALSE, DriverTypeOK, BeliefsSound, ProbesSound,
         NEW w \in FetchWorkers, FetchStep(w)
  PROVE  BeliefsSound' /\ ProbesSound'
<1> USE DEF beliefs
<1>0. fetcher[w] \in FetchType /\ fetcher \in [FetchWorkers -> FetchType]
  BY DEF DriverTypeOK
<1>1. CASE StartFetch(w)
  <2>1. /\ UNCHANGED <<owner, known, learned>>
        /\ \E k, o : fetcher' = [fetcher EXCEPT ![w] =
             [state |-> "probe", key |-> k, owner |-> o,
              left |-> IF o = Unknown THEN Nodes ELSE {o} \cap Nodes]]
    BY <1>1 DEF StartFetch
  <2>2. ProbesSound'
    BY <1>0, <2>1 DEF ProbesSound
  <2>3. QED
    BY <2>1, <2>2 DEF BeliefsSound
<1>2. CASE ProbeHit(w)
  <2> DEFINE n == Least(fetcher[w].left)
             e == fetcher[w].key[2]
  <2>1. n \in Nodes
    <3>1. fetcher[w].left \subseteq Nodes /\ fetcher[w].left # {}
      BY <1>0, <1>2 DEF ProbeHit, FetchType
    <3>2. fetcher[w].left \subseteq Nat
      BY <3>1 DEF Nodes
    <3>3. QED
      BY <3>1, <3>2, LeastOfSet
  <2>2. e \in Experts
    BY <1>2 DEF ProbeHit, Key, DriverTypeOK
  <2>3. /\ e \in Serves[n]
        /\ owner' = [owner EXCEPT ![e] = n]
        /\ known' = [known EXCEPT ![n] = @ \cup {e}]
        /\ learned' = learned \cup {n}
        /\ fetcher' = [fetcher EXCEPT ![w].state = "put"]
    BY <1>2 DEF ProbeHit
  <2> HIDE DEF n, e
  <2>4. owner \in [Experts -> Owners] /\ known \in [Nodes -> SUBSET Experts]
    BY DEF DriverTypeOK
  <2>5. \A m \in Nodes : e \in Serves[m] => m = n
    BY <2>1, <2>3
  <2>6. \A x \in Experts, m \in Nodes : owner'[x] = m => x \in Serves[m]
    BY <2>1, <2>2, <2>3, <2>4 DEF BeliefsSound
  <2>7. \A x \in Experts : owner'[x] = None => \A m \in Nodes : x \notin Serves[m]
    BY <2>1, <2>2, <2>3, <2>4 DEF BeliefsSound
  <2>8. ASSUME NEW m \in Nodes PROVE known'[m] = {x \in Experts : owner'[x] = m}
    <3>1. known[m] = {x \in Experts : owner[x] = m}
      BY DEF BeliefsSound
    <3>2. owner[e] = m => m = n
      BY <2>2, <2>5 DEF BeliefsSound
    <3>3. CASE m = n
      BY <2>1, <2>2, <2>3, <2>4, <3>1, <3>3
    <3>4. CASE m # n
      BY <2>1, <2>2, <2>3, <2>4, <3>1, <3>2, <3>4
    <3>5. QED
      BY <3>3, <3>4
  <2>9. \A m \in Nodes : known'[m] # {} => m \in learned'
    BY <2>1, <2>3, <2>4 DEF BeliefsSound
  <2>10. ProbesSound'
    BY <1>0, <2>3 DEF ProbesSound
  <2>11. QED
    BY <2>6, <2>7, <2>8, <2>9, <2>10 DEF BeliefsSound
<1>3. CASE ProbeMiss(w)
  <2> DEFINE n == Least(fetcher[w].left)
  <2>1. /\ fetcher[w].state = "probe"
        /\ fetcher[w].key[2] \notin Serves[n] \/ fetcher[w].owner # Unknown
        /\ fetcher' = [fetcher EXCEPT ![w].left = @ \ {n}]
        /\ UNCHANGED <<owner, known, learned>>
    BY <1>3 DEF ProbeMiss, MayFault
  <2> HIDE DEF n
  <2>2. ProbesSound'
    BY <1>0, <2>1 DEF ProbesSound, FetchType
  <2>3. QED
    BY <2>1, <2>2 DEF BeliefsSound
<1>4. CASE GiveUp(w)
  <2> DEFINE e == fetcher[w].key[2]
             o == OwnerOnFailure(w)
  <2>1. e \in Experts
    BY <1>4 DEF GiveUp, Key, DriverTypeOK
  <2>2. o = owner[e] \/ (o = None /\ \A n \in Nodes : e \notin Serves[n])
    BY <1>4 DEF GiveUp, OwnerOnFailure, ProbesSound
  <2>3. /\ owner' = [owner EXCEPT ![e] = o]
        /\ UNCHANGED <<known, learned>>
        /\ fetcher' = [fetcher EXCEPT ![w].state = "finished"]
    BY <1>4 DEF GiveUp
  <2> HIDE DEF e, o
  <2>4. owner \in [Experts -> Owners]
    BY DEF DriverTypeOK
  <2>5. \A x \in Experts, n \in Nodes : owner'[x] = n <=> owner[x] = n
    BY <2>1, <2>2, <2>3, <2>4 DEF BeliefsSound
  <2>6. \A x \in Experts : owner'[x] = None => \A n \in Nodes : x \notin Serves[n]
    BY <2>1, <2>2, <2>3, <2>4 DEF BeliefsSound
  <2>7. ProbesSound'
    BY <1>0, <2>3 DEF ProbesSound
  <2>8. \A n \in Nodes : known'[n] = {x \in Experts : owner'[x] = n}
    BY <2>3, <2>5 DEF BeliefsSound
  <2>9. QED
    BY <2>3, <2>5, <2>6, <2>7, <2>8 DEF BeliefsSound
<1>5. CASE Store(w)
  <2>1. UNCHANGED <<owner, known, learned>> /\ fetcher' = [fetcher EXCEPT ![w].state = "finished"]
    BY <1>5 DEF Store
  <2>2. QED
    BY <1>0, <2>1 DEF BeliefsSound, ProbesSound
<1>6. CASE Settle(w)
  <2>1. UNCHANGED <<owner, known, learned>> /\ fetcher' = [fetcher EXCEPT ![w] = NoFetch]
    BY <1>6 DEF Settle
  <2>2. QED
    BY <1>0, <2>1 DEF BeliefsSound, ProbesSound, NoFetch
<1>7. QED
  BY <1>1, <1>2, <1>3, <1>4, <1>5, <1>6 DEF FetchStep

-----------------------------------------------------------------------------
(* The partials of a request.                                              *)

\* The owners the plan was made from still are the owners, whatever was learned
\* since; a node is local by a plan that knew all owners, and what is computed
\* here is what the node would have returned.
PlanInv ==
  /\ pc # "idle" => \A e \in Experts : req.owners[e] # Unknown => owner[e] = req.owners[e]
  /\ \A n \in Nodes :
       /\ pc # "sum" /\ req.plan[n] = "open" => req.partial[n] = {}
       /\ req.plan[n] = "local" => AllKnown /\ Mine(n) # {}
       /\ req.plan[n] = "done" => req.partial[n] = NodePartial(n)
  /\ PartialsExact

\* With all owners known, the node's active experts are those it really serves.
LEMMA MineIsServed ==
  ASSUME DriverTypeOK, BeliefsSound, PlanInv, pc # "idle", AllKnown, NEW n \in Nodes
  PROVE  /\ Mine(n) = req.active \cap Serves[n]
         /\ Mine(n) = req.active \cap known[n]
<1>1. req.active \subseteq Experts /\ owner \in [Experts -> Owners]
  BY DEF DriverTypeOK, RequestType
<1>2. \A e \in req.active : req.owners[e] = owner[e] /\ owner[e] # Unknown
  BY <1>1 DEF AllKnown, PlanInv
<1>3. \A e \in req.active : owner[e] = n <=> e \in Serves[n]
  <2>1. \A e \in req.active : owner[e] \in Nodes \cup {None}
    BY <1>1, <1>2 DEF Owners
  <2>2. QED
    BY <1>1, <2>1 DEF BeliefsSound
<1>4. \A e \in req.active : owner[e] = n <=> e \in known[n]
  BY <1>1 DEF BeliefsSound
<1>5. QED
  BY <1>2, <1>3, <1>4 DEF Mine

\* A local partial is the node's own, term by term.
LEMMA LocalPartial ==
  ASSUME DriverTypeOK, BeliefsSound, PlanInv, pc # "idle", AllKnown, NEW n \in Nodes
  PROVE  PartialOf(Mine(n), known[n]) = NodePartial(n)
<1>1. Mine(n) \cap known[n] = Mine(n) /\ req.active \cap known[n] = Mine(n)
  BY MineIsServed
<1>2. NodePartial(n) = {<<e, e>> : e \in Mine(n)}
  BY MineIsServed DEF NodePartial
<1>3. CASE Mine(n) = {}
  BY <1>1, <1>2, <1>3 DEF PartialOf
<1>4. CASE Mine(n) # {}
  <2>1. PartialOf(Mine(n), known[n]) =
          {<<e, IF e \in Mine(n) THEN e ELSE Least(Mine(n))>> : e \in Mine(n)}
    BY <1>1, <1>4 DEF PartialOf
  <2>2. \A e \in Mine(n) : <<e, IF e \in Mine(n) THEN e ELSE Least(Mine(n))>> = <<e, e>>
    OBVIOUS
  <2>3. QED
    BY <1>2, <2>1, <2>2
<1>5. QED
  BY <1>3, <1>4

\* What the plan reads of a request, and what the node answers to it.
LEMMA SameRequest ==
  ASSUME req'.active = req.active, req'.owners = req.owners
  PROVE  /\ AllKnown' <=> AllKnown
         /\ \A n \in Nodes : Mine(n)' = Mine(n) /\ NodePartial(n)' = NodePartial(n)
BY DEF AllKnown, Mine, NodePartial

\* A step of the compute thread keeps the plan right.
LEMMA ComputeKeepsPlan ==
  ASSUME DriverTypeOK, LruInv, BeliefsSound, PlanInv, ComputeStep
  PROVE  PlanInv'
<1> USE DEF beliefs
<1>0. req \in RequestType
  BY DEF DriverTypeOK
<1>1. ASSUME NEW n \in Nodes, PlanNode(n) PROVE PlanInv'
  <2>1. /\ pc = "plan" /\ pc' \in {"plan", "partials"} /\ UNCHANGED owner
        /\ req.plan[n] = "open"
        /\ req' = [req EXCEPT !.plan[n] = Planned(n)]
    BY <1>1 DEF PlanNode
  <2>2. /\ req'.active = req.active /\ req'.owners = req.owners /\ req'.partial = req.partial
        /\ req'.plan = [req.plan EXCEPT ![n] = Planned(n)]
    BY <1>0, <2>1 DEF RequestType
  <2>3. Planned(n) \in {"local", "done", "remote"}
    BY DEF Planned
  <2>4. Planned(n) = "local" => AllKnown /\ Mine(n) # {}
    BY DEF Planned
  <2>5. Planned(n) = "done" => req.partial[n] = NodePartial(n)
    <3>1. SUFFICES ASSUME Planned(n) = "done" PROVE req.partial[n] = NodePartial(n)
      OBVIOUS
    <3>2. AllKnown /\ Mine(n) = {}
      BY <3>1 DEF Planned
    <3>3. req.active \cap Serves[n] = {}
      BY <2>1, <3>2, MineIsServed
    <3>4. NodePartial(n) = {}
      BY <3>3 DEF NodePartial
    <3>5. QED
      BY <2>1, <3>4 DEF PlanInv
  <2>6. req.plan \in [Nodes -> {"open", "local", "remote", "done"}]
    BY <1>0 DEF RequestType
  <2>7. QED
    BY <2>1, <2>2, <2>3, <2>4, <2>5, <2>6, SameRequest DEF PlanInv, PartialsExact
<1>2. ASSUME NEW n \in Nodes, GetOwn(n) PROVE PlanInv'
  <2>1. /\ pc' = pc /\ pc # "sum" /\ UNCHANGED owner
        /\ \E e : req' = [req EXCEPT !.got = @ \cup {e}]
    BY <1>2 DEF GetOwn, IsTurn
  <2>2. /\ req'.active = req.active /\ req'.owners = req.owners
        /\ req'.partial = req.partial /\ req'.plan = req.plan
    BY <1>0, <2>1 DEF RequestType
  <2>3. QED
    BY <2>1, <2>2, SameRequest DEF PlanInv, PartialsExact
<1>3. ASSUME NEW n \in Nodes, EvictedSincePlan(n) PROVE PlanInv'
  <2>1. /\ pc' = pc /\ pc # "sum" /\ UNCHANGED owner
        /\ req' = [req EXCEPT !.plan[n] = "remote"]
    BY <1>3 DEF EvictedSincePlan, IsTurn
  <2>2. /\ req'.active = req.active /\ req'.owners = req.owners /\ req'.partial = req.partial
        /\ req'.plan = [req.plan EXCEPT ![n] = "remote"]
    BY <1>0, <2>1 DEF RequestType
  <2>3. req.plan \in [Nodes -> {"open", "local", "remote", "done"}]
    BY <1>0 DEF RequestType
  <2>4. QED
    BY <2>1, <2>2, <2>3, SameRequest DEF PlanInv, PartialsExact
<1>4. ASSUME NEW n \in Nodes, ComputeLocal(n) PROVE PlanInv'
  <2>1. /\ pc = "partials" /\ pc' = pc /\ UNCHANGED owner
        /\ req.plan[n] = "local"
        /\ req' = [req EXCEPT !.plan[n] = "done", !.partial[n] = PartialOf(Mine(n), known[n])]
    BY <1>4 DEF ComputeLocal, IsTurn
  <2>2. PartialOf(Mine(n), known[n]) = NodePartial(n)
    <3>1. AllKnown
      BY <2>1 DEF PlanInv
    <3>2. QED
      BY <2>1, <3>1, LocalPartial
  <2>3. /\ req'.active = req.active /\ req'.owners = req.owners
        /\ req'.plan = [req.plan EXCEPT ![n] = "done"]
        /\ req'.partial = [req.partial EXCEPT ![n] = NodePartial(n)]
    BY <1>0, <2>1, <2>2 DEF RequestType
  <2>4. /\ req.plan \in [Nodes -> {"open", "local", "remote", "done"}]
        /\ req.partial \in [Nodes -> SUBSET (Experts \X Experts)]
    BY <1>0 DEF RequestType
  <2>5. QED
    BY <2>1, <2>3, <2>4, SameRequest DEF PlanInv, PartialsExact
<1>5. ASSUME PartialsDone \/ Warm PROVE PlanInv'
  <2>1. /\ pc \notin {"idle", "sum"} /\ pc' # "sum" /\ UNCHANGED owner
        /\ \E S : req' = [req EXCEPT !.missing = S]
    BY <1>5 DEF PartialsDone, Warm
  <2>2. /\ req'.active = req.active /\ req'.owners = req.owners
        /\ req'.partial = req.partial /\ req'.plan = req.plan
    BY <1>0, <2>1 DEF RequestType
  <2>3. QED
    BY <2>1, <2>2, SameRequest DEF PlanInv, PartialsExact
<1>6. ASSUME Post PROVE PlanInv'
  <2>1. /\ pc # "idle" /\ UNCHANGED owner
        /\ req' = [req EXCEPT !.partial =
             [n \in Nodes |-> IF n \in Local THEN req.partial[n] ELSE NodePartial(n)]]
    BY <1>6 DEF Post
  <2>2. /\ req'.active = req.active /\ req'.owners = req.owners /\ req'.plan = req.plan
        /\ \A n \in Nodes :
             req'.partial[n] = IF n \in Local THEN req.partial[n] ELSE NodePartial(n)
    BY <1>0, <2>1 DEF RequestType
  <2>3. \A n \in Nodes : req'.partial[n] = NodePartial(n)
    BY <2>2 DEF PlanInv, Local
  <2>4. pc' = "sum"
    BY <1>6 DEF Post
  <2>5. QED
    BY <2>1, <2>2, <2>3, <2>4, SameRequest DEF PlanInv, PartialsExact
<1>7. ASSUME PostFails \/ Return PROVE PlanInv'
  <2>1. pc' = "idle" /\ req' = NoRequest
    BY <1>7 DEF PostFails, Return
  <2>2. QED
    BY <2>1 DEF PlanInv, PartialsExact, NoRequest
<1>8. QED
  BY <1>1, <1>2, <1>3, <1>4, <1>5, <1>6, <1>7 DEF ComputeStep

\* A fetch changes the owner of an expert only when the plan did not know it.
LEMMA FetchKeepsPlan ==
  ASSUME BlockFaults = FALSE, DriverTypeOK, BeliefsSound, ProbesSound, PlanInv,
         NEW w \in FetchWorkers, FetchStep(w)
  PROVE  PlanInv'
<1>1. UNCHANGED <<pc, req>>
  BY DEF FetchStep, StartFetch, ProbeHit, ProbeMiss, GiveUp, Store, Settle
<1>2. BeliefsSound' /\ DriverTypeOK'
  BY FetchKeepsBeliefs, FetchStepTypeOK
<1>3. owner \in [Experts -> Owners] /\ owner' \in [Experts -> Owners]
  BY <1>2 DEF DriverTypeOK
<1>4. ASSUME NEW e \in Experts, owner[e] # Unknown
      PROVE  owner'[e] = owner[e]
  <2>1. owner'[e] # Unknown
    <3>1. CASE ProbeHit(w)
      <4> DEFINE n == Least(fetcher[w].left)
      <4>1. owner' = [owner EXCEPT ![fetcher[w].key[2]] = n]
        BY <3>1 DEF ProbeHit
      <4>2. n \in Nodes
        <5>1. fetcher[w].left \subseteq Nodes /\ fetcher[w].left # {}
          BY <3>1 DEF ProbeHit, FetchType, DriverTypeOK
        <5>2. fetcher[w].left \subseteq Nat
          BY <5>1 DEF Nodes
        <5>3. QED
          BY <5>1, <5>2, LeastOfSet
      <4> HIDE DEF n
      <4>3. QED
        BY <1>3, <1>4, <4>1, <4>2
    <3>2. CASE GiveUp(w)
      BY <1>3, <1>4, <3>2 DEF GiveUp, OwnerOnFailure
    <3>3. CASE StartFetch(w) \/ ProbeMiss(w) \/ Store(w) \/ Settle(w)
      BY <1>4, <3>3 DEF StartFetch, ProbeMiss, Store, Settle, beliefs
    <3>4. QED
      BY <3>1, <3>2, <3>3 DEF FetchStep
  <2>2. owner[e] \in Nodes \cup {None} /\ owner'[e] \in Nodes \cup {None}
    BY <1>3, <1>4, <2>1 DEF Owners
  <2>3. \A m \in Nodes : owner[e] = m \/ owner'[e] = m => e \in Serves[m]
    BY <1>2 DEF BeliefsSound
  <2>4. owner[e] = None \/ owner'[e] = None => \A m \in Nodes : e \notin Serves[m]
    BY <1>2 DEF BeliefsSound
  <2>5. QED
    BY <2>2, <2>3, <2>4
<1>5. pc # "idle" => \A e \in Experts : req.owners[e] # Unknown => owner'[e] = req.owners[e]
  BY <1>4 DEF PlanInv
<1>6. QED
  BY <1>1, <1>5 DEF PlanInv, PartialsExact, AllKnown, Mine, NodePartial

\* A new request starts with nothing planned, and the owners as they are.
LEMMA ComputeStartsPlan ==
  ASSUME DriverTypeOK, PlanInv, NEW l \in Layers, NEW A \in Requests, Compute(l, A)
  PROVE  PlanInv'
<1>1. /\ pc' = "plan" /\ UNCHANGED owner
      /\ req' = [NoRequest EXCEPT !.layer = l, !.active = A, !.owners = owner]
  BY DEF Compute, beliefs
<1>2. /\ req'.owners = owner
      /\ \A n \in Nodes : req'.plan[n] = "open" /\ req'.partial[n] = {}
  BY <1>1 DEF NoRequest
<1>3. QED
  BY <1>1, <1>2 DEF PlanInv, PartialsExact

DriverInv == DriverBase /\ BeliefsSound /\ ProbesSound /\ PlanInv

LEMMA DriverInvInit == DriverInit => DriverInv
<1>1. SUFFICES ASSUME DriverInit PROVE DriverInv
  OBVIOUS
<1>2. DriverBase
  BY <1>1, InitTypeOK, EmptyDict, MaxExpertsAssumption DEF DriverInit, LruInit, LruInv, DriverBase
<1>3. PICK L \in SUBSET Nodes : Learned(L)
  BY <1>1 DEF DriverInit
<1>4. BeliefsSound
  <2>1. ASSUME NEW e \in Experts, NEW n \in Nodes
        PROVE  /\ owner[e] = n => n \in L /\ e \in Serves[n]
               /\ n \in L /\ e \in Serves[n] => owner[e] = n
               /\ owner[e] # None
    <3>1. owner[e] = IF \E m \in L : e \in Serves[m]
                     THEN CHOOSE m \in L : e \in Serves[m] ELSE Unknown
      BY <1>3 DEF Learned
    <3>2. CASE \E m \in L : e \in Serves[m]
      <4>1. owner[e] \in L /\ e \in Serves[owner[e]]
        BY <3>1, <3>2
      <4>2. \A m \in Nodes : e \in Serves[m] => m = owner[e]
        BY <4>1
      <4>3. QED
        BY <4>1, <4>2
    <3>3. CASE ~ \E m \in L : e \in Serves[m]
      BY <3>1, <3>3
    <3>4. QED
      BY <3>2, <3>3
  <2>2. \A n \in Nodes : known[n] = IF n \in L THEN Serves[n] ELSE {}
    BY <1>3 DEF Learned
  <2>3. \A n \in Nodes : Serves[n] \subseteq Experts
    OBVIOUS
  <2>4. \A n \in Nodes : known[n] = {e \in Experts : owner[e] = n}
    BY <2>1, <2>2, <2>3
  <2>5. learned = L
    BY <1>3 DEF Learned
  <2>6. \A e \in Experts : owner[e] = None => \A n \in Nodes : e \notin Serves[n]
    BY <2>1
  <2>7. QED
    BY <2>1, <2>2, <2>4, <2>5, <2>6 DEF BeliefsSound
<1>5. ProbesSound
  BY <1>1 DEF DriverInit, ProbesSound, NoFetch
<1>6. PlanInv
  BY <1>1 DEF DriverInit, PlanInv, PartialsExact, NoRequest
<1>7. QED
  BY <1>2, <1>4, <1>5, <1>6 DEF DriverInv

LEMMA DriverInvStep ==
  ASSUME BlockFaults = FALSE, DriverBase', DriverInv, [DriverNext]_driverVars
  PROVE  DriverInv'
<1>1. ASSUME NEW l \in Layers, NEW A \in Requests, Compute(l, A)
      PROVE  BeliefsSound' /\ ProbesSound' /\ PlanInv'
  <2>1. PlanInv'
    BY <1>1, ComputeStartsPlan DEF DriverInv, DriverBase
  <2>2. UNCHANGED <<beliefs, fetching>>
    BY <1>1 DEF Compute
  <2>3. QED
    BY <2>1, <2>2 DEF DriverInv, BeliefsSound, ProbesSound, beliefs, fetching
<1>2. ASSUME ComputeStep
      PROVE  BeliefsSound' /\ ProbesSound' /\ PlanInv'
  <2>1. PlanInv'
    BY <1>2, ComputeKeepsPlan DEF DriverInv, DriverBase
  <2>2. UNCHANGED <<beliefs, fetcher>>
    BY <1>2 DEF ComputeStep, PlanNode, GetOwn, EvictedSincePlan, ComputeLocal, PartialsDone, Warm,
                Post, PostFails, Return, fetching
  <2>3. QED
    BY <2>1, <2>2 DEF DriverInv, BeliefsSound, ProbesSound, beliefs
<1>3. ASSUME NEW w \in FetchWorkers, FetchStep(w)
      PROVE  BeliefsSound' /\ ProbesSound' /\ PlanInv'
  BY <1>3, FetchKeepsBeliefs, FetchKeepsPlan DEF DriverInv, DriverBase
<1>4. ASSUME UNCHANGED driverVars
      PROVE  BeliefsSound' /\ ProbesSound' /\ PlanInv'
  BY <1>4 DEF DriverInv, BeliefsSound, ProbesSound, PlanInv, PartialsExact, AllKnown, Mine,
              NodePartial, driverVars
<1>5. QED
  BY <1>1, <1>2, <1>3, <1>4 DEF DriverNext, DriverInv

\* While no fault meets a probe for an unknown owner, the invariant holds ...
THEOREM DriverInvariant ==
  ASSUME BlockFaults = FALSE
  PROVE  DriverSpec => []DriverInv
<1>1. DriverInv /\ DriverBase' /\ [DriverNext]_driverVars => DriverInv'
  BY DriverInvStep
<1>2. QED
  BY <1>1, DriverInvInit, DriverBaseInvariant, PTL DEF DriverSpec

\* ... so each node's share of the sum is bit-identical to the node's own
\* partial, for every interleaving of the plan with fetches and evictions.
THEOREM DriverPartialsExact ==
  ASSUME BlockFaults = FALSE
  PROVE  DriverSpec => []PartialsExact
<1>1. DriverInv => PartialsExact
  BY DEF DriverInv, PlanInv
<1>2. QED
  BY <1>1, DriverInvariant, PTL

\* An owner believed in serves the expert; nobody is believed to when nobody does.
THEOREM DriverBeliefsSound ==
  ASSUME BlockFaults = FALSE
  PROVE  DriverSpec => []BeliefsSound
<1>1. DriverInv => BeliefsSound
  BY DEF DriverInv
<1>2. QED
  BY <1>1, DriverInvariant, PTL

-----------------------------------------------------------------------------
(* One fetch per block.                                                    *)

\* Every block queued or fetched is in _inflight, so _warm adds none twice.
FetchInv ==
  /\ \A i \in DOMAIN fetchQueue : fetchQueue[i] \in inflight
  /\ \A w \in FetchWorkers : fetcher[w].state # "idle" => fetcher[w].key \in inflight
  /\ \A w \in FetchWorkers : fetcher[w].state = "idle" => fetcher[w].key = None
  /\ OneFetchPerBlock

\* _warm keeps it: the block it queues was not in flight.
LEMMA WarmKeepsFetches ==
  ASSUME DriverBase, FetchInv, Warm
  PROVE  FetchInv'
<1> DEFINE k == <<req.layer, NextMissing>>
<1>1. CASE UNCHANGED <<inflight, fetchQueue>>
  BY <1>1 DEF Warm, FetchInv, OneFetchPerBlock
<1>2. CASE /\ k \notin inflight
           /\ inflight' = inflight \cup {k}
           /\ fetchQueue' = Append(fetchQueue, k)
  <2>1. fetchQueue \in Seq(Key)
    BY DEF DriverBase, DriverTypeOK
  <2>2. UNCHANGED fetcher
    BY DEF Warm
  <2> HIDE DEF k
  <2>3. /\ Len(fetchQueue) \in Nat
        /\ DOMAIN fetchQueue = 1 .. Len(fetchQueue)
        /\ DOMAIN fetchQueue' = 1 .. Len(fetchQueue) + 1
        /\ \A i \in 1 .. Len(fetchQueue) : fetchQueue'[i] = fetchQueue[i]
        /\ fetchQueue'[Len(fetchQueue) + 1] = k
    BY <1>2, <2>1
  <2>4. \A i \in DOMAIN fetchQueue' :
          \/ i \in DOMAIN fetchQueue /\ fetchQueue'[i] = fetchQueue[i]
          \/ i = Len(fetchQueue) + 1 /\ fetchQueue'[i] = k
    BY <2>3
  <2>5. QED
    BY <1>2, <2>2, <2>4 DEF FetchInv, OneFetchPerBlock
<1>3. QED
  BY <1>1, <1>2 DEF Warm, SkipWarm

\* A worker takes the first block of the queue, which is nowhere else in it.
LEMMA StartKeepsFetches ==
  ASSUME DriverBase, FetchInv, NEW w \in FetchWorkers, StartFetch(w)
  PROVE  FetchInv'
<1>1. fetchQueue \in Seq(Key) /\ fetchQueue # <<>> /\ fetchQueue' = Tail(fetchQueue)
  BY DEF StartFetch, DriverBase, DriverTypeOK
<1>2. /\ Len(fetchQueue) \in Nat
      /\ DOMAIN fetchQueue = 1 .. Len(fetchQueue)
      /\ DOMAIN fetchQueue' = 1 .. Len(fetchQueue) - 1
      /\ \A i \in 1 .. Len(fetchQueue) - 1 : fetchQueue'[i] = fetchQueue[i + 1]
      /\ Head(fetchQueue) = fetchQueue[1]
      /\ Len(fetchQueue) > 0
  BY <1>1
<1>3. \A i \in DOMAIN fetchQueue' :
        \E j \in DOMAIN fetchQueue : j # 1 /\ j = i + 1 /\ fetchQueue'[i] = fetchQueue[j]
  BY <1>2
<1>4. 1 \in DOMAIN fetchQueue /\ Head(fetchQueue) = fetchQueue[1] /\ Head(fetchQueue) \in Key
  BY <1>1, <1>2, ElementOfSeq
<1>5. \A i, j \in DOMAIN fetchQueue' : i + 1 = j + 1 => i = j
  BY <1>2
<1>6. /\ inflight' = inflight
      /\ fetcher[w].state = "idle"
      /\ fetcher'[w].state # "idle"
      /\ fetcher'[w].key = Head(fetchQueue)
      /\ \A v \in FetchWorkers \ {w} : fetcher'[v] = fetcher[v]
  BY DEF StartFetch, DriverBase, DriverTypeOK
<1>7. \A v \in FetchWorkers \ {w} : fetcher[v].key # Head(fetchQueue)
  BY <1>4 DEF FetchInv, OneFetchPerBlock
<1>8. \A i \in DOMAIN fetchQueue' : fetchQueue'[i] # Head(fetchQueue) /\ fetchQueue'[i] \in inflight
  BY <1>3, <1>4 DEF FetchInv, OneFetchPerBlock
<1>9. \A i, j \in DOMAIN fetchQueue' : fetchQueue'[i] = fetchQueue'[j] => i = j
  BY <1>3, <1>5 DEF FetchInv, OneFetchPerBlock
<1>10. \A v \in FetchWorkers \ {w} : fetcher[v].state # "idle" =>
         \A i \in DOMAIN fetchQueue' : fetchQueue'[i] # fetcher[v].key
  BY <1>3 DEF FetchInv, OneFetchPerBlock
<1>11. Head(fetchQueue) \in inflight
  BY <1>4 DEF FetchInv
<1>12. QED
  BY <1>6, <1>7, <1>8, <1>9, <1>10, <1>11 DEF FetchInv, OneFetchPerBlock

\* Every step keeps it.
LEMMA FetchInvStep ==
  ASSUME DriverBase, FetchInv, [DriverNext]_driverVars
  PROVE  FetchInv'
<1>1. CASE \/ UNCHANGED driverVars
           \/ \E l \in Layers, A \in Requests : Compute(l, A)
           \/ \E n \in Nodes : PlanNode(n) \/ GetOwn(n) \/ EvictedSincePlan(n) \/ ComputeLocal(n)
           \/ PartialsDone \/ Post \/ PostFails \/ Return
  <2>1. UNCHANGED fetching
    BY <1>1 DEF Compute, PlanNode, GetOwn, EvictedSincePlan, ComputeLocal, PartialsDone, Post,
                PostFails, Return, driverVars, fetching
  <2>2. QED
    BY <2>1 DEF FetchInv, OneFetchPerBlock, fetching
<1>2. CASE Warm
  BY <1>2, WarmKeepsFetches
<1>3. ASSUME NEW w \in FetchWorkers, StartFetch(w)
      PROVE  FetchInv'
  BY <1>3, StartKeepsFetches
<1>4. ASSUME NEW w \in FetchWorkers, ProbeHit(w) \/ ProbeMiss(w) \/ GiveUp(w) \/ Store(w)
      PROVE  FetchInv'
  <2>1. /\ UNCHANGED <<inflight, fetchQueue>>
        /\ fetcher[w].state # "idle" /\ fetcher'[w].state # "idle"
        /\ \A v \in FetchWorkers \ {w} : fetcher'[v] = fetcher[v]
        /\ fetcher'[w].key = fetcher[w].key
    BY <1>4 DEF ProbeHit, ProbeMiss, GiveUp, Store, DriverBase, DriverTypeOK, FetchType
  <2>2. QED
    BY <2>1 DEF FetchInv, OneFetchPerBlock
<1>5. ASSUME NEW w \in FetchWorkers, Settle(w)
      PROVE  FetchInv'
  <2>1. /\ inflight' = inflight \ {fetcher[w].key} /\ UNCHANGED fetchQueue
        /\ fetcher[w].state # "idle" /\ fetcher'[w] = NoFetch
        /\ \A v \in FetchWorkers \ {w} : fetcher'[v] = fetcher[v]
    BY <1>5 DEF Settle, DriverBase, DriverTypeOK
  <2>2. NoFetch.state = "idle" /\ NoFetch.key = None
    BY DEF NoFetch
  <2>3. \A v \in FetchWorkers : fetcher[v].state # "idle" => fetcher[v].key \in Key
    BY DEF DriverBase, DriverTypeOK
  <2>4. QED
    BY <2>1, <2>2, <2>3 DEF FetchInv, OneFetchPerBlock
<1>6. QED
  BY <1>1, <1>2, <1>3, <1>4, <1>5 DEF DriverNext, ComputeStep, FetchStep

\* A block has at most one fetch queued or running, whatever fails.
THEOREM DriverFetchesOnce == DriverSpec => []OneFetchPerBlock
<1>1. DriverInit => FetchInv
  BY DEF DriverInit, FetchInv, OneFetchPerBlock, NoFetch
<1>2. FetchInv /\ DriverBase /\ [DriverNext]_driverVars => FetchInv'
  BY FetchInvStep
<1>3. FetchInv => OneFetchPerBlock
  BY DEF FetchInv
<1>4. QED
  BY <1>1, <1>2, <1>3, DriverBaseInvariant, PTL DEF DriverSpec
=============================================================================
