------------------------------- MODULE Network -------------------------------
(***************************************************************************)
(* The expert network: machines that serve, their coordinator, and one      *)
(* newcomer, which fetches its slice from the serving machines or from the  *)
(* checkpoint, and then serves in its turn.  The other machines hold the    *)
(* whole model.                                                             *)
(***************************************************************************)
EXTENDS ExpertNode, FetchPartition

CONSTANTS
  Newcomer,   \* the machine that fetches its slice, or none of the machines
  Damaged     \* machines whose copy of the model differs from the manifest's

VARIABLE absent   \* what each machine loaded as weights though its disk held no whole block

networkVars == <<nodeVars, fetchVars, absent>>

NetworkInit == NodeInit /\ FetchInit /\ absent = [m \in Machines |-> {}]

\* expert-fetch and expert-node are run one after the other on the newcomer.
FetchTurn == Newcomer \in Machines /\ phase[Newcomer] = "off"
NodeTurn(m) == m = Newcomer => Resting

-----------------------------------------------------------------------------
(* The newcomer's expert-fetch.                                            *)

\* What machine p answers for a block: /block serves the experts of its slice.
Answers(p, b) ==
  IF p \in Serving /\ p # Newcomer /\ b[2] \in share[p]
  THEN {IF p \in Damaged THEN "other" ELSE "right"} ELSE {}

AllAnswers(b) == UNION {Answers(p, b) : p \in job.peers}

\* The coordinator's peers are the names it has; it also gives the roster.
NewcomerAsks ==
  /\ FetchTurn
  /\ \/ \E mine \in Slices : FetchFromPeers(mine, Registered)
     \/ \E want \in {{}, Hashed}, roster \in {Registered, {}} : FetchFromHF(roster, Newcomer, want)
  /\ UNCHANGED <<nodeVars, absent>>

ProbePeers ==
  /\ fpc = "probe"
  /\ \E answers \in SUBSET AllAnswers(Current) : Probe(answers)
  /\ UNCHANGED <<nodeVars, absent>>

\* PeerRanker.order draws the peers one after the other by their measured speeds,
\* which record and penalize move.  None of them ever weighs nothing, so that any
\* order may be drawn.
Orders(peers) ==
  LET places == 0 .. Cardinality(peers) - 1
  IN  {order \in [places -> peers] : \A p \in peers : \E i \in places : order[i] = p}

Tries == 3

\* fetch_block: the peers are asked in a drawn order, over again when they are
\* fewer than the attempts, until one answers.
LandFromPeer ==
  /\ job.source = "peers" /\ todo # {}
  /\ \E order \in Orders(job.peers), attempt \in 0 .. Tries - 1 :
       \E c \in Answers(order[attempt % Cardinality(job.peers)], Current) : Land(c)
  /\ UNCHANGED <<nodeVars, absent>>

\* Peers may time out, so that a pull may fail whatever they hold.
FailFromPeers == job.source = "peers" /\ Unavailable /\ UNCHANGED <<nodeVars, absent>>

FetchRuns == FetchStep /\ UNCHANGED <<nodeVars, absent>>

FetchKilled == \E tears \in BOOLEAN : Kill(tears) /\ UNCHANGED <<nodeVars, absent>>

-----------------------------------------------------------------------------
(* The machines' expert-node.                                              *)

StartNode(m) ==
  /\ NodeTurn(m)
  /\ \E fits \in Rooms :
       \/ StartAuto(m, fits)
       \/ StartAlone(m, fits)
       \/ \E roster \in StaticRosters : StartStatic(m, roster, fits)
  /\ UNCHANGED <<fetchVars, absent>>

\* load_partition reads every block of the slice at its place, a hole as zeros.
Load(m) ==
  /\ m = Newcomer => sized = Layers
  /\ Loaded(m)
  /\ absent' = [absent EXCEPT ![m] =
       IF m = Newcomer THEN {b \in Layers \X share[m] : disk[b] \in {"hole", "torn"}} ELSE {}]
  /\ UNCHANGED fetchVars

LoadWithoutFiles(m) == m = Newcomer /\ sized # Layers /\ LoadFails(m) /\ UNCHANGED <<fetchVars, absent>>

NodeRuns(m) == (FirstJoin(m) \/ Heartbeat(m) \/ Stop(m)) /\ UNCHANGED <<fetchVars, absent>>

CoordinatorForgets == \E n \in Ids : Forget(n) /\ UNCHANGED <<fetchVars, absent>>

NetworkNext ==
  \/ NewcomerAsks \/ ProbePeers \/ LandFromPeer \/ FailFromPeers \/ FetchRuns \/ FetchKilled
  \/ \E m \in Machines : StartNode(m) \/ Load(m) \/ LoadWithoutFiles(m) \/ NodeRuns(m)
  \/ CoordinatorForgets

NetworkSpec == NetworkInit /\ [][NetworkNext]_networkVars

\* Programs that run go on: a start that is under way, the heartbeat thread.
NetworkFairness ==
  \A m \in Machines :
    /\ WF_networkVars(Load(m))
    /\ WF_networkVars(FirstJoin(m) /\ UNCHANGED <<fetchVars, absent>>)
    /\ WF_networkVars(Heartbeat(m) /\ UNCHANGED <<fetchVars, absent>>)

FairNetworkSpec == NetworkSpec /\ NetworkFairness

-----------------------------------------------------------------------------
\* A machine that finished the fetch of its slice from the checkpoint and then
\* starts with a roster that has only grown since loads no hole: its slice can
\* only have shrunk.
GrownRosterLoadsWhole ==
  Newcomer \in Serving /\ fpc = "done" /\ job.source = "hf" /\ job.roster \subseteq saw[Newcomer]
    => absent[Newcomer] = {}
=============================================================================
