------------------------------ MODULE ExpertNode ------------------------------
(***************************************************************************)
(* expert-node, src/expert_network/node.py, on several machines: each reads *)
(* the roster when it starts, takes the slice placement gives it, loads it  *)
(* for minutes, joins the coordinator and serves.  The client of            *)
(* src/expert_network/yield_client.py then sends heartbeats and joins again *)
(* when it has been forgotten.  The coordinator is another program: it      *)
(* keeps a record per name, answers with the names it has, forgets, and     *)
(* its answers may be lost.                                                 *)
(***************************************************************************)
EXTENDS Placement

CONSTANTS
  Machines,      \* machines, each under the name it gives as --me
  JoinsAs,       \* per machine, the name it joins the coordinator under
  Rooms,         \* how many experts may fit in a machine's memory
  StaticRosters, \* rosters an operator may give on the command line
  MaxStarts,     \* how often nodes are started, all together
  MaxFaults      \* how many calls to the coordinator fail, or records are lost under a node

ASSUME MachinesAssumption == Machines \subseteq Ids /\ JoinsAs \in [Machines -> Ids]
ASSUME NodeBoundsAssumption == MaxStarts \in Nat /\ MaxFaults \in Nat
ASSUME StaticRostersAssumption == StaticRosters \subseteq SUBSET Ids

VARIABLES
  phase,    \* per machine: off, loading, joining or serving
  saw,      \* the roster it read when it started
  share,    \* the experts it serves
  joined,   \* YieldClient.joined
  record,   \* coordinator: per name, the experts it is known to serve
  starts, faults

\* The coordinator does not know a name; a node that joins serves an expert.
NoRecord == {}

nodeVars == <<phase, saw, share, joined, record, starts, faults>>

NodeInit ==
  /\ phase = [m \in Machines |-> "off"]
  /\ saw = [m \in Machines |-> {m}]
  /\ share = [m \in Machines |-> {}]
  /\ joined = [m \in Machines |-> FALSE]
  /\ record = [n \in Ids |-> NoRecord]
  /\ starts = 0 /\ faults = 0

Registered == {n \in Ids : record[n] # NoRecord}
Serving == {m \in Machines : phase[m] = "serving"}

Fault == faults < MaxFaults /\ faults' = faults + 1

-----------------------------------------------------------------------------
(* A node starts.                                                          *)

\* The slice of a roster, cut to what fits in memory; without an expert the
\* program stops at an assertion.
Start(m, roster, fits) ==
  /\ phase[m] = "off"
  /\ starts < MaxStarts /\ starts' = starts + 1
  /\ partition(roster, m) # {}
  /\ phase' = [phase EXCEPT ![m] = "loading"]
  /\ saw' = [saw EXCEPT ![m] = roster]
  /\ share' = [share EXCEPT ![m] = FirstIds(partition(roster, m), fits)]
  /\ UNCHANGED <<joined, record>>

\* The roster is asked of the coordinator, with the machine's own name ...
StartAuto(m, fits) == Start(m, Registered \cup {m}, fits) /\ UNCHANGED faults

\* ... which may not answer: the machine takes the whole model ...
StartAlone(m, fits) == Start(m, {m}, fits) /\ Fault

\* ... or the roster is given.
StartStatic(m, roster, fits) == m \in roster /\ Start(m, roster, fits) /\ UNCHANGED faults

\* The process of a machine is gone, with all it knew.
Ended(m) ==
  /\ phase' = [phase EXCEPT ![m] = "off"]
  /\ saw' = [saw EXCEPT ![m] = {m}]
  /\ share' = [share EXCEPT ![m] = {}]
  /\ joined' = [joined EXCEPT ![m] = FALSE]

Loaded(m) ==
  /\ phase[m] = "loading"
  /\ phase' = [phase EXCEPT ![m] = "joining"]
  /\ UNCHANGED <<saw, share, joined, record, starts, faults>>

\* A layer's file is missing: the program ends with an error.
LoadFails(m) ==
  /\ phase[m] = "loading"
  /\ Ended(m)
  /\ UNCHANGED <<record, starts, faults>>

\* Killed, or the machine goes away; its record stays until it expires.
Stop(m) ==
  /\ phase[m] # "off"
  /\ Ended(m)
  /\ UNCHANGED <<record, starts, faults>>

-----------------------------------------------------------------------------
(* YieldClient.                                                            *)

\* A join is recorded and answered; or it fails, recorded or not.
Join(m) ==
  \/ /\ record' = [record EXCEPT ![JoinsAs[m]] = share[m]]
     /\ joined' = [joined EXCEPT ![m] = TRUE]
     /\ UNCHANGED faults
  \/ /\ record' \in {record, [record EXCEPT ![JoinsAs[m]] = share[m]]}
     /\ joined' = [joined EXCEPT ![m] = FALSE]
     /\ Fault

\* The node joins before it listens, and serves whether or not it joined.
FirstJoin(m) ==
  /\ phase[m] = "joining"
  /\ Join(m)
  /\ phase' = [phase EXCEPT ![m] = "serving"]
  /\ UNCHANGED <<saw, share, starts>>

\* The heartbeat thread, every minute: not joined, it joins ...
Rejoin(m) ==
  /\ phase[m] = "serving" /\ ~joined[m]
  /\ Join(m)
  /\ UNCHANGED <<phase, saw, share, starts>>

\* Mutant: an answer with an error is taken for a heartbeat received.
HeartbeatIgnored(m) ==
  /\ phase[m] = "serving" /\ joined[m]
  /\ record[JoinsAs[m]] = NoRecord
  /\ UNCHANGED nodeVars

\* ... joined, it sends a heartbeat, which a coordinator that has forgotten the
\* name rejects; one that is accepted, or fails, changes nothing.
HeartbeatRejected(m) ==
  /\ phase[m] = "serving" /\ joined[m]
  /\ record[JoinsAs[m]] = NoRecord
  /\ joined' = [joined EXCEPT ![m] = FALSE]
  /\ UNCHANGED <<phase, saw, share, record, starts, faults>>

\* The coordinator forgets a name: the record of a machine that is gone
\* expires, that of one that serves is lost by a fault.
Forget(n) ==
  /\ n \in Registered
  /\ record' = [record EXCEPT ![n] = NoRecord]
  /\ IF \E m \in Machines : JoinsAs[m] = n /\ phase[m] # "off" THEN Fault ELSE UNCHANGED faults
  /\ UNCHANGED <<phase, saw, share, joined, starts>>

Heartbeat(m) == Rejoin(m) \/ HeartbeatRejected(m)

-----------------------------------------------------------------------------
NodeTypeOK ==
  /\ phase \in [Machines -> {"off", "loading", "joining", "serving"}]
  /\ saw \in [Machines -> SUBSET Ids]
  /\ share \in [Machines -> SUBSET Experts]
  /\ joined \in [Machines -> BOOLEAN]
  /\ record \in [Ids -> SUBSET Experts]
  /\ starts \in 0 .. MaxStarts /\ faults \in 0 .. MaxFaults

\* A machine that holds all it was given.
Full(m) == share[m] = partition(saw[m], m)

\* The names by which the machines of S are known.
NamesOf(S) == S \cup {JoinsAs[m] : m \in S}

\* However different the rosters the serving machines started with, when every
\* machine they counted on serves, and none is short of memory, no expert is
\* without a machine: "the network divides itself with no negotiation".
NoOrphan ==
  (Serving # {} /\ \A m \in Serving : saw[m] \subseteq NamesOf(Serving) /\ Full(m))
    => \A e \in Experts : \E m \in Serving : e \in share[m]

\* Whatever joins fail, answers are lost and records forgotten, a node that
\* goes on serving is in the end known for what it serves.
RecordCatchesUp ==
  \A m \in Machines : <>[](phase[m] = "serving" => joined[m] /\ record[JoinsAs[m]] = share[m])
=============================================================================
