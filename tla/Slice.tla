-------------------------------- MODULE Slice --------------------------------
(***************************************************************************)
(* One machine's slice of a model on disk: expert-fetch, run, killed and    *)
(* run again for this slice or another, from peers or from the checkpoint,  *)
(* and the engine that then reads the files, through HFExpertReader, with   *)
(* its n-gram rows.  Of the peers nothing is assumed: they may answer the   *)
(* published bytes, others, too few or too many.                            *)
(***************************************************************************)
EXTENDS HFReader, NGramRows, HFDownloads

CONSTANTS
  Me,        \* this machine's name
  Rosters,   \* rosters the coordinator may give, one after the other
  Peers      \* machines that serve the model

ASSUME MeAssumption == Me \in Ids /\ Rosters \subseteq SUBSET Ids /\ Peers \subseteq Ids

sliceVars == <<fetchVars, engineVars, rowVars, downloadVars>>

SliceInit == FetchInit /\ EngineOff /\ RowsInit /\ DownloadsInit

AskFetch ==
  /\ epc = "off"
  /\ \/ \E mine \in Slices : FetchFromPeers(mine, Peers)
     \/ \E want \in {{}, Hashed}, roster \in Rosters : FetchFromHF(roster, Me, want)

\* A peer answers anything, or not at all.
PeersAnswer ==
  \/ \E answers \in SUBSET Answer : Probe(answers)
  \/ job.source = "peers" /\ todo # {} /\ \E answer \in Answer : Land(answer)
  \/ job.source = "peers" /\ Unavailable

FetchProcess ==
  /\ AskFetch \/ PeersAnswer \/ FetchStep \/ \E tears \in BOOLEAN : Kill(tears)
  /\ UNCHANGED <<engineVars, rowVars, downloadVars>>

EngineProcess == Resting /\ EngineNext /\ UNCHANGED <<fetchVars, rowVars, downloadVars>>

RowsProcess == RowsNext /\ UNCHANGED <<fetchVars, engineVars, downloadVars>>
DownloadsProcess == DownloadsNext /\ UNCHANGED <<fetchVars, engineVars, rowVars>>

\* The blocks, the n-gram rows and the other downloads share no state, so a
\* behaviour is of one of the three.
BlocksUntouched == fetches = 0 /\ epc = "off"

SliceNext ==
  \/ rowCache = <<>> /\ downloads = 0 /\ (FetchProcess \/ EngineProcess)
  \/ BlocksUntouched /\ downloads = 0 /\ RowsProcess
  \/ BlocksUntouched /\ rowCache = <<>> /\ DownloadsProcess

SliceSpec == SliceInit /\ [][SliceNext]_sliceVars
=============================================================================
