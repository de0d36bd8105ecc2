---------------------------- MODULE Network_proofs ----------------------------
(***************************************************************************)
(* That nodes divide a model among themselves without negotiating, and that *)
(* a machine may start to serve with a larger roster than it fetched for:   *)
(* for any machines, names, scores, experts, memories and faults.           *)
(***************************************************************************)
EXTENDS Network, Slice_proofs

-----------------------------------------------------------------------------
(* Placement.                                                              *)

Top(roster, e, n) == n \in roster /\ \A m \in roster : Score[m][e] <= Score[n][e]

\* Whatever the roster, some name in it has the greatest score for an expert.
LEMMA TopExists ==
  ASSUME NEW roster, roster \subseteq Ids, roster # {}, NEW e \in Experts
  PROVE  \E n \in Ids : Top(roster, e, n)
<1> DEFINE below(n) == TopScore - Score[n][e]
           D == {below(n) : n \in roster}
<1>1. \A n \in roster : Score[n][e] \in 0 .. TopScore
  BY ScoreAssumption
<1>2. D \subseteq Nat /\ D # {}
  BY <1>1, ScoreAssumption
<1>3. PICK d \in D : \A y \in D : ~(<<y, d>> \in OpToRel(<, Nat))
  BY <1>2, NatLessThanWellFounded, WFMin
<1>4. PICK n \in roster : d = below(n)
  OBVIOUS
<1>5. ASSUME NEW m \in roster PROVE Score[m][e] <= Score[n][e]
  <2>1. below(m) \in D
    OBVIOUS
  <2>2. ~(below(m) < below(n))
    BY <1>2, <1>3, <1>4, <2>1 DEF OpToRel
  <2>3. QED
    BY <1>1, <2>2, ScoreAssumption
<1>6. QED
  BY <1>5 DEF Top

\* No two names of a roster have it.
LEMMA TopUnique ==
  ASSUME NEW roster, roster \subseteq Ids, NEW e \in Experts,
         NEW m \in Ids, NEW n \in Ids, Top(roster, e, m), Top(roster, e, n)
  PROVE  m = n
<1>1. Score[m][e] \in Nat /\ Score[n][e] \in Nat
  BY ScoreAssumption
<1>2. Score[m][e] = Score[n][e]
  BY <1>1 DEF Top
<1>3. QED
  BY <1>2, ScoreAssumption

\* The owner of an expert is the name of the roster with the greatest score.
LEMMA OwnerIsTop ==
  ASSUME NEW roster, roster \subseteq Ids, roster # {}, NEW e \in Experts
  PROVE  owner(roster, e) \in Ids /\ Top(roster, e, owner(roster, e))
BY TopExists DEF owner, Top

LEMMA TopIsOwner ==
  ASSUME NEW roster, roster \subseteq Ids, NEW e \in Experts, NEW n \in Ids, Top(roster, e, n)
  PROVE  owner(roster, e) = n
<1>1. roster # {}
  BY DEF Top
<1>2. QED
  BY <1>1, OwnerIsTop, TopUnique

\* A name owns of a larger roster at most what it owned of a smaller one it was
\* in: a newcomer takes experts over, and moves none between those before it.
THEOREM GrowthOnlyShrinks ==
  ASSUME NEW R, NEW S, R \subseteq S, S \subseteq Ids, NEW me \in R
  PROVE  partition(S, me) \subseteq partition(R, me)
<1>1. SUFFICES ASSUME NEW e \in Experts, owner(S, e) = me
               PROVE  owner(R, e) = me
  BY DEF partition
<1>2. Top(S, e, me)
  BY <1>1, OwnerIsTop
<1>3. Top(R, e, me)
  BY <1>2 DEF Top
<1>4. QED
  BY <1>3, TopIsOwner

\* Under one roster every expert belongs to exactly one name.
THEOREM RosterDivides ==
  ASSUME NEW roster, roster \subseteq Ids, roster # {}, NEW e \in Experts
  PROVE  /\ \E n \in roster : e \in partition(roster, n)
         /\ \A m, n \in roster : e \in partition(roster, m) /\ e \in partition(roster, n) => m = n
BY OwnerIsTop DEF partition, Top

-----------------------------------------------------------------------------
(* The machines.                                                           *)

\* What a machine counts on: itself, and names; and no more than its slice.
CountsOn(m) == m \in saw[m] /\ saw[m] \subseteq Ids /\ share[m] \subseteq partition(saw[m], m)

NodeInv ==
  /\ NodeTypeOK
  /\ \A m \in Machines : m \in saw[m] /\ (phase[m] # "off" => CountsOn(m))

LEMMA PartitionIsExperts ==
  ASSUME NEW roster, NEW m
  PROVE  partition(roster, m) \subseteq Experts
BY DEF partition

LEMMA FirstIdsFrom ==
  ASSUME NEW S, NEW k
  PROVE  FirstIds(S, k) \subseteq S
BY DEF FirstIds

LEMMA InitNodeInv == NodeInit => NodeInv
<1> SUFFICES ASSUME NodeInit PROVE NodeInv
  OBVIOUS
<1>1. 0 \in 0 .. MaxStarts /\ 0 \in 0 .. MaxFaults
  BY NodeBoundsAssumption
<1>2. NodeTypeOK
  BY <1>1, MachinesAssumption DEF NodeInit, NodeTypeOK, NoRecord
<1>3. QED
  BY <1>2 DEF NodeInit, NodeInv

LEMMA StartInv ==
  ASSUME NodeInv, NEW m \in Machines, NEW roster, roster \subseteq Ids, m \in roster, NEW fits,
         Start(m, roster, fits), faults' \in 0 .. MaxFaults
  PROVE  NodeInv'
<1>1. share'[m] = FirstIds(partition(roster, m), fits) /\ saw'[m] = roster
  BY DEF Start, NodeInv, NodeTypeOK
<1>2. share'[m] \subseteq partition(roster, m) /\ partition(roster, m) \subseteq Experts
  BY <1>1, PartitionIsExperts, FirstIdsFrom
<1>3. starts' \in 0 .. MaxStarts
  BY NodeBoundsAssumption DEF Start, NodeInv, NodeTypeOK
<1>4. NodeTypeOK'
  BY <1>1, <1>2, <1>3 DEF Start, NodeInv, NodeTypeOK
<1>5. ASSUME NEW n \in Machines
      PROVE  n \in saw'[n] /\ (phase'[n] # "off" => CountsOn(n)')
  <2>1. CASE n = m
    BY <1>1, <1>2, <2>1 DEF CountsOn
  <2>2. CASE n # m
    <3>1. saw'[n] = saw[n] /\ share'[n] = share[n] /\ phase'[n] = phase[n]
      BY <2>2 DEF Start, NodeInv, NodeTypeOK
    <3>2. QED
      BY <3>1 DEF NodeInv, CountsOn
  <2>3. QED
    BY <2>1, <2>2
<1>6. QED
  BY <1>4, <1>5 DEF NodeInv

LEMMA EndedInv ==
  ASSUME NodeInv, NEW m \in Machines, Ended(m), UNCHANGED <<record, starts, faults>>
  PROVE  NodeInv'
<1>1. NodeTypeOK'
  BY MachinesAssumption DEF Ended, NodeInv, NodeTypeOK
<1>2. ASSUME NEW n \in Machines
      PROVE  n \in saw'[n] /\ (phase'[n] # "off" => CountsOn(n)')
  BY DEF Ended, NodeInv, NodeTypeOK, CountsOn
<1>3. QED
  BY <1>1, <1>2 DEF NodeInv

\* A step that changes neither rosters nor shares, and starts no machine.
LEMMA ServiceInv ==
  ASSUME NodeInv, UNCHANGED <<saw, share, starts>>,
         phase' \in [Machines -> {"off", "loading", "joining", "serving"}],
         \A m \in Machines : phase'[m] # "off" => phase[m] # "off",
         joined' \in [Machines -> BOOLEAN], record' \in [Ids -> SUBSET Experts],
         faults' \in 0 .. MaxFaults
  PROVE  NodeInv'
BY DEF NodeInv, NodeTypeOK, CountsOn

LEMMA JoinTypes ==
  ASSUME NodeInv, NEW m \in Machines, Join(m)
  PROVE  /\ joined' \in [Machines -> BOOLEAN] /\ record' \in [Ids -> SUBSET Experts]
         /\ faults' \in 0 .. MaxFaults
<1>1. share[m] \subseteq Experts
  BY DEF NodeInv, NodeTypeOK
<1>2. CASE UNCHANGED faults
  BY <1>1, <1>2 DEF Join, NodeInv, NodeTypeOK
<1>3. CASE Fault
  <2>1. faults' \in 0 .. MaxFaults
    BY <1>3, NodeBoundsAssumption DEF Fault, NodeInv, NodeTypeOK
  <2>2. QED
    BY <1>1, <2>1 DEF Join, NodeInv, NodeTypeOK
<1>4. QED
  BY <1>2, <1>3 DEF Join

\* The steps of the machines and of the coordinator.
NodeActs ==
  \/ \E m \in Machines, roster \in SUBSET Ids, fits \in Rooms :
       m \in roster /\ Start(m, roster, fits) /\ (UNCHANGED faults \/ Fault)
  \/ \E m \in Machines : Loaded(m) \/ LoadFails(m) \/ FirstJoin(m) \/ Heartbeat(m) \/ Stop(m)
  \/ \E n \in Ids : Forget(n)

LEMMA NodeStepInv ==
  ASSUME NodeInv, NodeActs
  PROVE  NodeInv'
<1>1. ASSUME NEW m \in Machines, NEW roster \in SUBSET Ids, NEW fits \in Rooms,
             m \in roster, Start(m, roster, fits), UNCHANGED faults \/ Fault
      PROVE  NodeInv'
  <2>1. faults' \in 0 .. MaxFaults
    BY <1>1, NodeBoundsAssumption DEF Fault, NodeInv, NodeTypeOK
  <2>2. QED
    BY <1>1, <2>1, StartInv
<1>2. ASSUME NEW m \in Machines, Loaded(m) PROVE NodeInv'
  <2>1. phase' \in [Machines -> {"off", "loading", "joining", "serving"}]
    BY <1>2 DEF Loaded, NodeInv, NodeTypeOK
  <2>2. \A n \in Machines : phase'[n] # "off" => phase[n] # "off"
    BY <1>2 DEF Loaded, NodeInv, NodeTypeOK
  <2>3. QED
    BY <1>2, <2>1, <2>2, ServiceInv DEF Loaded, NodeInv, NodeTypeOK
<1>3. ASSUME NEW m \in Machines, LoadFails(m) \/ Stop(m) PROVE NodeInv'
  BY <1>3, EndedInv DEF LoadFails, Stop
<1>4. ASSUME NEW m \in Machines, FirstJoin(m) PROVE NodeInv'
  <2>1. phase' \in [Machines -> {"off", "loading", "joining", "serving"}]
    BY <1>4 DEF FirstJoin, NodeInv, NodeTypeOK
  <2>2. \A n \in Machines : phase'[n] # "off" => phase[n] # "off"
    BY <1>4 DEF FirstJoin, NodeInv, NodeTypeOK
  <2>3. QED
    BY <1>4, <2>1, <2>2, JoinTypes, ServiceInv DEF FirstJoin
<1>5. ASSUME NEW m \in Machines, Rejoin(m) PROVE NodeInv'
  BY <1>5, JoinTypes, ServiceInv DEF Rejoin, NodeInv, NodeTypeOK
<1>6. ASSUME NEW m \in Machines, HeartbeatRejected(m) PROVE NodeInv'
  BY <1>6, ServiceInv DEF HeartbeatRejected, NodeInv, NodeTypeOK
<1>7. ASSUME NEW n \in Ids, Forget(n) PROVE NodeInv'
  <2>1. faults' \in 0 .. MaxFaults
    BY <1>7, NodeBoundsAssumption DEF Forget, Fault, NodeInv, NodeTypeOK
  <2>2. record' \in [Ids -> SUBSET Experts]
    BY <1>7 DEF Forget, NoRecord, NodeInv, NodeTypeOK
  <2>3. QED
    BY <1>7, <2>1, <2>2, ServiceInv DEF Forget, NodeInv, NodeTypeOK
<1>8. QED
  BY <1>1, <1>2, <1>3, <1>4, <1>5, <1>6, <1>7 DEF NodeActs, Heartbeat

LEMMA NetworkStepNodes ==
  ASSUME [NetworkNext]_networkVars
  PROVE  NodeActs \/ UNCHANGED nodeVars
<1>1. CASE NewcomerAsks \/ ProbePeers \/ LandFromPeer \/ FailFromPeers \/ FetchRuns \/ FetchKilled
  BY <1>1 DEF NewcomerAsks, ProbePeers, LandFromPeer, FailFromPeers, FetchRuns, FetchKilled
<1>2. ASSUME NEW m \in Machines, StartNode(m) PROVE NodeActs
  <2>1. PICK fits \in Rooms : \/ StartAuto(m, fits) \/ StartAlone(m, fits)
                              \/ \E roster \in StaticRosters : StartStatic(m, roster, fits)
    BY <1>2 DEF StartNode
  <2>2. CASE StartAuto(m, fits)
    <3>1. Registered \cup {m} \in SUBSET Ids /\ m \in Registered \cup {m}
      BY MachinesAssumption DEF Registered
    <3>2. QED
      BY <2>2, <3>1 DEF StartAuto, NodeActs
  <2>3. CASE StartAlone(m, fits)
    BY <2>3, MachinesAssumption DEF StartAlone, NodeActs
  <2>4. CASE \E roster \in StaticRosters : StartStatic(m, roster, fits)
    BY <2>4, StaticRostersAssumption DEF StartStatic, NodeActs
  <2>5. QED
    BY <2>1, <2>2, <2>3, <2>4
<1>3. ASSUME NEW m \in Machines, Load(m) \/ LoadWithoutFiles(m) \/ NodeRuns(m) PROVE NodeActs
  BY <1>3 DEF Load, LoadWithoutFiles, NodeRuns, NodeActs
<1>4. CASE CoordinatorForgets
  BY <1>4 DEF CoordinatorForgets, NodeActs
<1>5. CASE UNCHANGED networkVars
  BY <1>5 DEF networkVars
<1>6. QED
  BY <1>1, <1>2, <1>3, <1>4, <1>5 DEF NetworkNext

\* Whatever rosters machines start with, each is in its own and serves no more
\* than that roster gives it.
THEOREM NodesInvariant == NetworkSpec => []NodeInv
<1>1. NetworkInit => NodeInv
  BY InitNodeInv DEF NetworkInit
<1>2. NodeInv /\ UNCHANGED nodeVars => NodeInv'
  BY DEF NodeInv, NodeTypeOK, CountsOn, nodeVars
<1>3. NodeInv /\ [NetworkNext]_networkVars => NodeInv'
  BY <1>2, NetworkStepNodes, NodeStepInv
<1>4. QED
  BY <1>1, <1>3, PTL DEF NetworkSpec

\* The machine that owns an expert among those that serve owned it among those
\* it counted on, for it counted on no others.
LEMMA NodeInvDivides ==
  ASSUME NodeInv, \A m \in Machines : JoinsAs[m] = m
  PROVE  NoOrphan
<1> SUFFICES ASSUME Serving # {}, \A m \in Serving : saw[m] \subseteq NamesOf(Serving) /\ Full(m),
                    NEW e \in Experts
             PROVE  \E m \in Serving : e \in share[m]
  BY DEF NoOrphan
<1>1. Serving \subseteq Ids /\ Serving \subseteq Machines /\ NamesOf(Serving) = Serving
  BY MachinesAssumption DEF Serving, NamesOf
<1>2. PICK n \in Serving : Top(Serving, e, n)
  BY <1>1, OwnerIsTop DEF Top
<1>3. n \in saw[n] /\ saw[n] \subseteq Serving
  BY <1>1, <1>2 DEF NodeInv
<1>4. Top(saw[n], e, n)
  BY <1>2, <1>3 DEF Top
<1>5. owner(saw[n], e) = n
  BY <1>1, <1>3, <1>4, TopIsOwner
<1>6. e \in share[n]
  BY <1>5 DEF Full, partition
<1>7. QED
  BY <1>6

\* When the machines that serve counted on no machine that does not, and each
\* joined under the name it places experts by, no expert is without a machine.
THEOREM NetworkDivides ==
  ASSUME \A m \in Machines : JoinsAs[m] = m
  PROVE  NetworkSpec => []NoOrphan
<1>1. NodeInv => NoOrphan
  BY NodeInvDivides
<1>2. QED
  BY <1>1, NodesInvariant, PTL

-----------------------------------------------------------------------------
(* The newcomer's fetch and the newcomer's node.                           *)

LEMMA AnswersKnown ==
  ASSUME NEW b
  PROVE  /\ AllAnswers(b) \subseteq {"right", "other"}
         /\ \A p : Answers(p, b) \subseteq {"right", "other"}
BY DEF AllAnswers, Answers

FetchesNow ==
  NewcomerAsks \/ ProbePeers \/ LandFromPeer \/ FailFromPeers \/ FetchRuns \/ FetchKilled

LEMMA NetworkStepFetches ==
  ASSUME FetchesNow
  PROVE  FetchActs
<1>1. CASE NewcomerAsks
  <2>1. Registered \in SUBSET Ids /\ {} \in SUBSET Ids /\ Newcomer \in Ids
    BY <1>1, MachinesAssumption DEF Registered, NewcomerAsks, FetchTurn
  <2>2. QED
    BY <1>1, <2>1 DEF NewcomerAsks, FetchActs
<1>2. CASE ProbePeers
  <2>1. AllAnswers(Current) \subseteq Answer
    BY AnswersKnown DEF Answer
  <2>2. QED
    BY <1>2, <2>1 DEF ProbePeers, FetchActs
<1>3. CASE LandFromPeer
  <2>1. PICK c \in {"right", "other"} : Land(c)
    BY <1>3, AnswersKnown DEF LandFromPeer
  <2>2. c \in Answer /\ job.source = "peers"
    BY <1>3 DEF LandFromPeer, Answer
  <2>3. QED
    BY <2>1, <2>2 DEF FetchActs
<1>4. CASE FailFromPeers
  BY <1>4 DEF FailFromPeers, FetchActs
<1>5. CASE FetchRuns
  BY <1>5, FetchStepActs DEF FetchRuns
<1>6. CASE FetchKilled
  BY <1>6 DEF FetchKilled, FetchActs
<1>7. QED
  BY <1>1, <1>2, <1>3, <1>4, <1>5, <1>6 DEF FetchesNow

LEMMA OtherStepsKeepFiles ==
  ASSUME [NetworkNext]_networkVars, ~FetchesNow
  PROVE  UNCHANGED fetchVars
BY DEF NetworkNext, FetchesNow, StartNode, Load, LoadWithoutFiles, NodeRuns, CoordinatorForgets, networkVars

\* From the checkpoint the newcomer fetches what placement gives it.
JobPlaced ==
  job.source = "hf" =>
    /\ job.roster \subseteq Ids /\ Newcomer \in job.roster
    /\ job.mine = partition(job.roster, Newcomer)

\* The two programs run one after the other.
OneProgram == Newcomer \in Machines /\ phase[Newcomer] # "off" => Resting

\* What the newcomer found missing when it loaded is what is missing.
AbsentIsMissing ==
  /\ absent \in [Machines -> SUBSET Block]
  /\ Newcomer \in Machines /\ phase[Newcomer] \in {"joining", "serving"} =>
       absent[Newcomer] = {b \in Layers \X share[Newcomer] : disk[b] \in {"hole", "torn"}}

NewcomerInv == NodeInv /\ FetchInv /\ JobPlaced /\ OneProgram /\ AbsentIsMissing

LEMMA FetchesNowInv ==
  ASSUME NewcomerInv, FetchesNow
  PROVE  JobPlaced' /\ OneProgram' /\ AbsentIsMissing'
<1>1. UNCHANGED <<nodeVars, absent>>
  BY DEF FetchesNow, NewcomerAsks, ProbePeers, LandFromPeer, FailFromPeers, FetchRuns, FetchKilled
<1>2. Newcomer \in Machines => phase[Newcomer] = "off"
  <2>1. CASE NewcomerAsks
    BY <2>1 DEF NewcomerAsks, FetchTurn
  <2>2. CASE ~NewcomerAsks
    <3>1. ~Resting
      BY <2>2 DEF FetchesNow, ProbePeers, LandFromPeer, FailFromPeers, FetchRuns, FetchKilled, FetchStep,
         Land, Unavailable, OpenLayer, LandFromHF, FailFromHF, NextLayer, Finish, Kill, Resting
    <3>2. QED
      BY <3>1 DEF NewcomerInv, OneProgram
  <2>3. QED
    BY <2>1, <2>2
<1>3. JobPlaced'
  <2>1. CASE NewcomerAsks
    <3>1. Newcomer \in Ids /\ Registered \subseteq Ids
      BY <2>1, MachinesAssumption DEF NewcomerAsks, FetchTurn, Registered
    <3>2. CASE \E mine \in Slices : FetchFromPeers(mine, Registered)
      BY <3>2 DEF FetchFromPeers, Begin, JobPlaced
    <3>3. ASSUME NEW want \in {{}, Hashed}, NEW roster \in {Registered, {}},
                 FetchFromHF(roster, Newcomer, want)
          PROVE  JobPlaced'
      BY <3>1, <3>3 DEF FetchFromHF, Begin, JobPlaced, partition, owner
    <3>4. QED
      BY <2>1, <3>2, <3>3 DEF NewcomerAsks
  <2>2. CASE ~NewcomerAsks
    <3>1. job' = job \/ job' = NoJob
      BY <2>2 DEF FetchesNow, ProbePeers, LandFromPeer, FailFromPeers, FetchRuns, FetchKilled, FetchStep,
         Probe, Land, Unavailable, OpenLayer, LandFromHF, FailFromHF, NextLayer, Finish, Kill, Gone
    <3>2. QED
      BY <3>1 DEF NewcomerInv, JobPlaced, NoJob, partition, owner
  <2>3. QED
    BY <2>1, <2>2
<1>4. QED
  BY <1>1, <1>2, <1>3 DEF nodeVars, OneProgram, AbsentIsMissing, NewcomerInv

LEMMA NodeRunsInv ==
  ASSUME NewcomerInv, [NetworkNext]_networkVars, ~FetchesNow
  PROVE  JobPlaced' /\ OneProgram' /\ AbsentIsMissing'
<1>1. UNCHANGED fetchVars
  BY OtherStepsKeepFiles
<1>2. JobPlaced'
  BY <1>1 DEF fetchVars, NewcomerInv, JobPlaced, partition, owner
<1>3. Resting' = Resting
  BY <1>1 DEF fetchVars, Resting
<1>4. phase \in [Machines -> {"off", "loading", "joining", "serving"}]
  BY DEF NewcomerInv, NodeInv, NodeTypeOK
<1>5. ASSUME NEW m \in Machines, StartNode(m) PROVE OneProgram' /\ AbsentIsMissing'
  <2>1. phase' = [phase EXCEPT ![m] = "loading"] /\ phase[m] = "off"
    BY <1>5 DEF StartNode, StartAuto, StartAlone, StartStatic, Start
  <2>2. \A n \in Machines : n # m => share'[n] = share[n]
    BY <1>5 DEF StartNode, StartAuto, StartAlone, StartStatic, Start, NewcomerInv, NodeInv, NodeTypeOK
  <2>3. OneProgram'
    BY <1>3, <1>4, <1>5, <2>1 DEF StartNode, NodeTurn, OneProgram, NewcomerInv
  <2>4. AbsentIsMissing'
    BY <1>1, <1>4, <1>5, <2>1, <2>2 DEF StartNode, AbsentIsMissing, NewcomerInv, fetchVars
  <2>5. QED
    BY <2>3, <2>4
<1>6. ASSUME NEW m \in Machines, Load(m) PROVE OneProgram' /\ AbsentIsMissing'
  <2>1. phase' = [phase EXCEPT ![m] = "joining"] /\ phase[m] = "loading" /\ UNCHANGED share
    BY <1>6 DEF Load, Loaded
  <2>2. OneProgram'
    BY <1>3, <1>4, <2>1 DEF OneProgram, NewcomerInv
  <2>3. share[m] \subseteq Experts
    BY DEF NewcomerInv, NodeInv, NodeTypeOK
  <2>4. absent' \in [Machines -> SUBSET Block]
    BY <1>6, <2>3 DEF Load, AbsentIsMissing, NewcomerInv, Block
  <2>5. AbsentIsMissing'
    <3>1. CASE m = Newcomer
      BY <1>1, <1>6, <2>1, <2>4, <3>1 DEF Load, AbsentIsMissing, NewcomerInv, fetchVars
    <3>2. CASE m # Newcomer
      BY <1>1, <1>4, <1>6, <2>1, <2>4, <3>2 DEF Load, AbsentIsMissing, NewcomerInv, fetchVars
    <3>3. QED
      BY <3>1, <3>2
  <2>6. QED
    BY <2>2, <2>5
<1>7. ASSUME NEW m \in Machines, LoadWithoutFiles(m) \/ (Stop(m) /\ UNCHANGED absent)
      PROVE  OneProgram' /\ AbsentIsMissing'
  <2>1. phase' = [phase EXCEPT ![m] = "off"] /\ share' = [share EXCEPT ![m] = {}] /\ UNCHANGED absent
    BY <1>7 DEF LoadWithoutFiles, LoadFails, Stop, Ended
  <2>2. share \in [Machines -> SUBSET Experts]
    BY DEF NewcomerInv, NodeInv, NodeTypeOK
  <2>3. QED
    BY <1>1, <1>3, <1>4, <2>1, <2>2 DEF OneProgram, AbsentIsMissing, NewcomerInv, fetchVars
<1>8. ASSUME NEW m \in Machines, FirstJoin(m), UNCHANGED absent PROVE OneProgram' /\ AbsentIsMissing'
  BY <1>1, <1>3, <1>4, <1>8 DEF FirstJoin, OneProgram, AbsentIsMissing, NewcomerInv, fetchVars
<1>9. ASSUME UNCHANGED <<phase, share, absent>> PROVE OneProgram' /\ AbsentIsMissing'
  BY <1>1, <1>3, <1>9 DEF OneProgram, AbsentIsMissing, NewcomerInv, fetchVars
<1>10. CASE UNCHANGED networkVars \/ CoordinatorForgets
  BY <1>2, <1>9, <1>10 DEF CoordinatorForgets, Forget, networkVars, nodeVars
<1>11. ASSUME NEW m \in Machines, NodeRuns(m) PROVE OneProgram' /\ AbsentIsMissing'
  BY <1>7, <1>8, <1>9, <1>11 DEF NodeRuns, Heartbeat, Rejoin, HeartbeatRejected
<1>12. QED
  BY <1>2, <1>5, <1>6, <1>7, <1>10, <1>11 DEF NetworkNext, FetchesNow

\* The newcomer's files and its node agree.
THEOREM NewcomerInvariant == NetworkSpec => []NewcomerInv
<1>1. NetworkInit => NewcomerInv
  <2>1. SUFFICES ASSUME NetworkInit PROVE JobPlaced /\ OneProgram /\ AbsentIsMissing
    BY InitNodeInv, InitFetchInv DEF NetworkInit, NewcomerInv
  <2>2. JobPlaced /\ OneProgram
    BY <2>1 DEF NetworkInit, NodeInit, FetchInit, NoJob, JobPlaced, OneProgram, Resting
  <2>3. AbsentIsMissing
    BY <2>1 DEF NetworkInit, NodeInit, AbsentIsMissing
  <2>4. QED
    BY <2>2, <2>3
<1>2. NewcomerInv /\ [NetworkNext]_networkVars => NewcomerInv'
  <2>1. SUFFICES ASSUME NewcomerInv, [NetworkNext]_networkVars PROVE NewcomerInv'
    OBVIOUS
  <2>2. NodeInv /\ UNCHANGED nodeVars => NodeInv'
    BY DEF NodeInv, NodeTypeOK, CountsOn, nodeVars
  <2>3. NodeInv'
    BY <2>1, <2>2, NetworkStepNodes, NodeStepInv DEF NewcomerInv
  <2>4. FetchInv'
    BY <2>1, NetworkStepFetches, OtherStepsKeepFiles, FetchStepInv, FetchStutterInv DEF NewcomerInv
  <2>5. JobPlaced' /\ OneProgram' /\ AbsentIsMissing'
    BY <2>1, FetchesNowInv, NodeRunsInv
  <2>6. QED
    BY <2>3, <2>4, <2>5 DEF NewcomerInv
<1>3. QED
  BY <1>1, <1>2, PTL DEF NetworkSpec

\* A machine that finished the fetch of its slice serves no hole, as long as its
\* roster has only grown since: its slice of the larger one is part of what it
\* fetched, and a finished fetch leaves no hole in that.
THEOREM GrownRosterServes == NetworkSpec => []GrownRosterLoadsWhole
<1>1. NewcomerInv => GrownRosterLoadsWhole
  <2>1. SUFFICES ASSUME NewcomerInv, Newcomer \in Serving, fpc = "done", job.source = "hf",
                        job.roster \subseteq saw[Newcomer], NEW b \in absent[Newcomer]
                 PROVE  FALSE
    BY DEF GrownRosterLoadsWhole
  <2>2. Newcomer \in Machines /\ phase[Newcomer] = "serving"
    BY <2>1 DEF Serving
  <2>3. b \in Layers \X share[Newcomer] /\ disk[b] \in {"hole", "torn"}
    BY <2>1, <2>2 DEF NewcomerInv, AbsentIsMissing
  <2>4. share[Newcomer] \subseteq partition(saw[Newcomer], Newcomer) /\ saw[Newcomer] \subseteq Ids
    BY <2>1, <2>2 DEF NewcomerInv, NodeInv, CountsOn
  <2>5. share[Newcomer] \subseteq job.mine
    BY <2>1, <2>4, GrowthOnlyShrinks DEF NewcomerInv, JobPlaced
  <2>6. b \in Layers \X job.mine
    BY <2>3, <2>5
  <2>7. DoneMeansComplete
    BY <2>1, FetchInvDone DEF NewcomerInv
  <2>8. disk[b] \in {"right", "other"}
    BY <2>1, <2>6, <2>7 DEF DoneMeansComplete, Sure
  <2>9. QED
    BY <2>3, <2>8
<1>2. QED
  BY <1>1, NewcomerInvariant, PTL
=============================================================================
