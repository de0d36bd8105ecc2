-------------------------- MODULE DistributedReader --------------------------
(***************************************************************************)
(* DistributedExpertReader of src/expert_network/reader.py with its hot-   *)
(* expert cache on: the thread that computes a layer, the workers that     *)
(* warm the cache in the background, the LRU cache they share, and what    *)
(* the driver believes about which node serves which expert.               *)
(*                                                                         *)
(* A node's partial for a request is the set of terms it adds up: the pair *)
(* <<e, c>> is the routing weight of expert e applied to the output of     *)
(* expert c.  Two partials are bit-identical when they are the same set.   *)
(***************************************************************************)
EXTENDS LRUExpertCache

CONSTANTS
  NumNodes,       \* nodes, in node_urls order
  Serves,         \* per node, the experts it really serves
  Requests,       \* sets of active experts a layer can ask for
  FetchWorkers,   \* threads of the fetch executor
  BlockFaults,    \* a /block request may fail while the block's owner is being probed
  Unknown, None   \* what _owner.get can answer besides a node

Nodes == 1 .. NumNodes

ASSUME NodesAssumption == NumNodes \in Nat \ {0}
ASSUME ExpertsAssumption == Experts \subseteq Nat
ASSUME ServesAssumption ==
  /\ Serves \in [Nodes -> SUBSET Experts]
  /\ \A m, n \in Nodes : m # n => Serves[m] \cap Serves[n] = {}
ASSUME RequestsAssumption == Requests \subseteq (SUBSET Experts) \ {{}}
ASSUME OwnerAssumption == Unknown # None /\ Unknown \notin Nodes /\ None \notin Nodes /\ None \notin Key
ASSUME BlockAssumption == Values = Key

VARIABLES
  owner,     \* _owner
  known,     \* _partition: per node, the experts it is known to serve
  learned,   \* the nodes that are keys of _partition
  inflight,  \* keys of _inflight
  fetchQueue, fetcher,   \* the fetch executor: its queue, and what each worker does
  pc, req                \* the compute thread: where it is, and its local variables

driverVars == <<cache, byLayer, owner, known, learned, inflight, fetchQueue, fetcher, pc, req>>
beliefs == <<owner, known, learned>>
fetching == <<inflight, fetchQueue, fetcher>>

NoFetch == [state |-> "idle", key |-> None, owner |-> Unknown, left |-> {}]

NoRequest ==
  [layer |-> None, active |-> {}, owners |-> [e \in Experts |-> Unknown],
   plan |-> [n \in Nodes |-> "open"], got |-> {}, partial |-> [n \in Nodes |-> {}], missing |-> {}]

Least(S) == CHOOSE m \in S : \A x \in S : m <= x

\* _learn_partitions is best effort: the nodes of L answered /partition.
Learned(L) ==
  /\ learned = L
  /\ known = [n \in Nodes |-> IF n \in L THEN Serves[n] ELSE {}]
  /\ owner = [e \in Experts |->
                IF \E n \in L : e \in Serves[n] THEN CHOOSE n \in L : e \in Serves[n] ELSE Unknown]

DriverInit ==
  /\ LruInit
  /\ \E L \in SUBSET Nodes : Learned(L)
  /\ inflight = {}
  /\ fetchQueue = <<>>
  /\ fetcher = [w \in FetchWorkers |-> NoFetch]
  /\ pc = "idle"
  /\ req = NoRequest

-----------------------------------------------------------------------------
(* compute_distributed.                                                    *)

\* A layer asks for its active experts; _plan reads their owners at once.
Compute(l, A) ==
  /\ pc = "idle"
  /\ pc' = "plan"
  /\ req' = [NoRequest EXCEPT !.layer = l, !.active = A, !.owners = owner]
  /\ UNCHANGED <<lruVars, beliefs, fetching>>

AllKnown == \A e \in req.active : req.owners[e] # Unknown

Mine(n) == {e \in req.active : req.owners[e] = n}

\* A node is local when every expert it owns is cached, and its partial is
\* zeros when it owns none; the others are asked.
Planned(n) ==
  IF AllKnown /\ Mine(n) # {} /\ \A e \in Mine(n) : HasKey(cache, <<req.layer, e>>) THEN "local"
  ELSE IF AllKnown /\ Mine(n) = {} /\ n \in learned THEN "done"
  ELSE "remote"

PlanNode(n) ==
  /\ pc = "plan"
  /\ req.plan[n] = "open"
  /\ \A m \in 1 .. n - 1 : req.plan[m] # "open"
  /\ req' = [req EXCEPT !.plan[n] = Planned(n)]
  /\ pc' = IF n = NumNodes THEN "partials" ELSE pc
  /\ UNCHANGED <<lruVars, beliefs, fetching>>

\* compute_partial over the experts S of a node believed to serve P: a weight
\* is masked by P, and an expert outside S is looked up at index 0.
PartialOf(S, P) ==
  LET my == S \cap P
  IN  IF my = {} THEN {}
      ELSE {<<e, IF e \in my THEN e ELSE Least(my)>> : e \in req.active \cap P}

IsTurn(n) == pc = "partials" /\ req.plan[n] = "local" /\ \A m \in 1 .. n - 1 : req.plan[m] # "local"

\* _local_partial takes the node's experts one by one from the cache ...
GetOwn(n) ==
  /\ IsTurn(n)
  /\ LET e == Least(Mine(n) \ req.got)
     IN  /\ Mine(n) \ req.got # {}
         /\ GetHit(<<req.layer, e>>)
         /\ req' = [req EXCEPT !.got = @ \cup {e}]
  /\ UNCHANGED <<beliefs, fetching, pc>>

\* Mutant: an expert evicted since the plan is left out.
EvictedSkipped(n) ==
  /\ IsTurn(n)
  /\ LET e == Least(Mine(n) \ req.got)
     IN  /\ Mine(n) \ req.got # {}
         /\ ~HasKey(cache, <<req.layer, e>>)
         /\ req' = [req EXCEPT !.plan[n] = "done", !.partial[n] = PartialOf(Mine(n) \cap req.got, known[n])]
  /\ UNCHANGED <<lruVars, beliefs, fetching, pc>>

\* ... one of them was evicted since the plan: the node is asked after all ...
EvictedSincePlan(n) ==
  /\ IsTurn(n)
  /\ LET e == Least(Mine(n) \ req.got)
     IN  /\ Mine(n) \ req.got # {}
         /\ ~HasKey(cache, <<req.layer, e>>)
         /\ req' = [req EXCEPT !.plan[n] = "remote"]
  /\ UNCHANGED <<lruVars, beliefs, fetching, pc>>

\* ... it has them all, and computes the partial as the node would.
ComputeLocal(n) ==
  /\ IsTurn(n)
  /\ Mine(n) \subseteq req.got
  /\ req' = [req EXCEPT !.plan[n] = "done", !.partial[n] = PartialOf(Mine(n), known[n])]
  /\ UNCHANGED <<lruVars, beliefs, fetching, pc>>

Local == {n \in Nodes : req.plan[n] = "done"}

PartialsDone ==
  /\ pc = "partials"
  /\ \A n \in Nodes : req.plan[n] # "local"
  /\ pc' = "warm"
  /\ req' = [req EXCEPT !.missing = req.active \ UNION {Mine(n) : n \in Local}]
  /\ UNCHANGED <<lruVars, beliefs, fetching>>

NextMissing == Least(req.missing)

\* Mutant: only the cache is looked at, not the fetches in flight.
SkipOnlyCached(k) == HasKey(cache, k) \/ owner[k[2]] = None

SkipWarm(k) == k \in inflight \/ HasKey(cache, k) \/ owner[k[2]] = None

\* _warm, one missing expert, under _hot_lock.
Warm ==
  /\ pc = "warm"
  /\ req.missing # {}
  /\ LET k == <<req.layer, NextMissing>>
     IN  IF SkipWarm(k)
         THEN UNCHANGED <<inflight, fetchQueue>>
         ELSE /\ inflight' = inflight \cup {k}
              /\ fetchQueue' = Append(fetchQueue, k)
  /\ req' = [req EXCEPT !.missing = @ \ {NextMissing}]
  /\ UNCHANGED <<lruVars, beliefs, fetcher, pc>>

\* What node n answers to /compute_bin: it serves what is in its partition.
NodePartial(n) == {<<e, e>> : e \in req.active \cap Serves[n]}

\* The remote nodes are asked together; their answers depend on nothing here.
Post ==
  /\ pc = "warm"
  /\ req.missing = {}
  /\ pc' = "sum"
  /\ req' = [req EXCEPT !.partial =
               [n \in Nodes |-> IF n \in Local THEN req.partial[n] ELSE NodePartial(n)]]
  /\ UNCHANGED <<lruVars, beliefs, fetching>>

\* A node that does not answer makes compute_distributed raise.
PostFails ==
  /\ pc = "warm"
  /\ req.missing = {}
  /\ Local # Nodes
  /\ pc' = "idle"
  /\ req' = NoRequest
  /\ UNCHANGED <<lruVars, beliefs, fetching>>

Return ==
  /\ pc = "sum"
  /\ pc' = "idle"
  /\ req' = NoRequest
  /\ UNCHANGED <<lruVars, beliefs, fetching>>

-----------------------------------------------------------------------------
(* _fetch_block on the fetch executor.                                     *)

StartFetch(w) ==
  /\ fetcher[w].state = "idle"
  /\ fetchQueue # <<>>
  /\ fetchQueue' = Tail(fetchQueue)
  /\ LET k == Head(fetchQueue)
         o == owner[k[2]]
     IN  fetcher' = [fetcher EXCEPT ![w] =
           [state |-> "probe", key |-> k, owner |-> o,
            left |-> IF o = Unknown THEN Nodes ELSE {o} \cap Nodes]]
  /\ UNCHANGED <<lruVars, beliefs, inflight, pc, req>>

\* The next candidate sends the block: it is the owner, and it serves at least this.
ProbeHit(w) ==
  /\ fetcher[w].state = "probe"
  /\ fetcher[w].left # {}
  /\ LET n == Least(fetcher[w].left)
         e == fetcher[w].key[2]
     IN  /\ e \in Serves[n]
         /\ owner' = [owner EXCEPT ![e] = n]
         /\ known' = [known EXCEPT ![n] = @ \cup {e}]
         /\ learned' = learned \cup {n}
         /\ fetcher' = [fetcher EXCEPT ![w].state = "put"]
  /\ UNCHANGED <<lruVars, inflight, fetchQueue, pc, req>>

\* A transient fault, a timeout or a node that is down counts like a 404.
\* Without BlockFaults it meets only fetches whose owner is known.
MayFault(w) == BlockFaults \/ fetcher[w].owner # Unknown

ProbeMiss(w) ==
  /\ fetcher[w].state = "probe"
  /\ fetcher[w].left # {}
  /\ LET n == Least(fetcher[w].left)
     IN  /\ fetcher[w].key[2] \notin Serves[n] \/ MayFault(w)
         /\ fetcher' = [fetcher EXCEPT ![w].left = @ \ {n}]
  /\ UNCHANGED <<lruVars, beliefs, inflight, fetchQueue, pc, req>>

\* Mutant: an owner that did not answer is forgotten as well.
OwnerOnFailureAlways(w) == None

OwnerOnFailure(w) ==
  IF fetcher[w].owner = Unknown THEN None ELSE owner[fetcher[w].key[2]]

\* No candidate sent it: an expert nobody was known to serve is given up.
GiveUp(w) ==
  /\ fetcher[w].state = "probe"
  /\ fetcher[w].left = {}
  /\ owner' = [owner EXCEPT ![fetcher[w].key[2]] = OwnerOnFailure(w)]
  /\ fetcher' = [fetcher EXCEPT ![w].state = "finished"]
  /\ UNCHANGED <<lruVars, known, learned, inflight, fetchQueue, pc, req>>

Store(w) ==
  /\ fetcher[w].state = "put"
  /\ Put(fetcher[w].key, fetcher[w].key)
  /\ fetcher' = [fetcher EXCEPT ![w].state = "finished"]
  /\ UNCHANGED <<beliefs, inflight, fetchQueue, pc, req>>

\* The done callback, after the future has its result.
Settle(w) ==
  /\ fetcher[w].state = "finished"
  /\ inflight' = inflight \ {fetcher[w].key}
  /\ fetcher' = [fetcher EXCEPT ![w] = NoFetch]
  /\ UNCHANGED <<lruVars, beliefs, fetchQueue, pc, req>>

-----------------------------------------------------------------------------

ComputeStep ==
  \/ \E n \in Nodes : PlanNode(n) \/ GetOwn(n) \/ EvictedSincePlan(n) \/ ComputeLocal(n)
  \/ PartialsDone \/ Warm \/ Post \/ PostFails \/ Return

FetchStep(w) ==
  StartFetch(w) \/ ProbeHit(w) \/ ProbeMiss(w) \/ GiveUp(w) \/ Store(w) \/ Settle(w)

DriverNext ==
  \/ \E l \in Layers, A \in Requests : Compute(l, A)
  \/ ComputeStep
  \/ \E w \in FetchWorkers : FetchStep(w)

DriverSpec == DriverInit /\ [][DriverNext]_driverVars

-----------------------------------------------------------------------------
(* Properties.                                                             *)

\* Whatever the cache holds and whatever was learned about the nodes, each
\* node's share of the sum is bit-identical to the partial the node itself
\* returns: no term is lost, none is counted twice, none uses another expert.
PartialsExact == pc = "sum" => \A n \in Nodes : req.partial[n] = NodePartial(n)

\* An expert is believed to be served by the node that serves it or, once all
\* nodes were asked, by nobody when nobody does; _owner and _partition agree.
BeliefsSound ==
  /\ \A e \in Experts, n \in Nodes : owner[e] = n => e \in Serves[n]
  /\ \A e \in Experts : owner[e] = None => \A n \in Nodes : e \notin Serves[n]
  /\ \A n \in Nodes : known[n] = {e \in Experts : owner[e] = n}
  /\ \A n \in Nodes : known[n] # {} => n \in learned

\* A block has at most one fetch queued or running.
OneFetchPerBlock ==
  /\ \A i, j \in DOMAIN fetchQueue : fetchQueue[i] = fetchQueue[j] => i = j
  /\ \A w \in FetchWorkers : fetcher[w].state # "idle" =>
       /\ \A i \in DOMAIN fetchQueue : fetchQueue[i] # fetcher[w].key
       /\ \A v \in FetchWorkers : fetcher[v].key = fetcher[w].key => v = w
=============================================================================
