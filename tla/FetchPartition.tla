--------------------------- MODULE FetchPartition ---------------------------
(***************************************************************************)
(* expert-fetch, src/expert_network/fetch_partition.py: one machine takes   *)
(* its slice of a model into sparse layer files, block by block, from peers *)
(* or from the checkpoint on Hugging Face, and may be killed and run again. *)
(*                                                                          *)
(* A block on disk is a hole, the bytes of the published manifest, other    *)
(* bytes, or torn: begun and never finished, or a piece of another answer.  *)
(* Which peers answer, and with what, is given by the module that composes  *)
(* this one with them.                                                      *)
(***************************************************************************)
EXTENDS Placement

CONSTANTS
  NumLayers,   \* layers of the model
  Hashed,      \* blocks of which the published manifest has a hash
  Revised,     \* blocks of which the checkpoint's bytes differ from the manifest's
  Slices,      \* slices named on the command line
  MaxFetches,  \* how often expert-fetch is started
  MaxKills,    \* how often it is killed
  NoFile,      \* manifest.partial.json does not exist
  TornFile     \* it is not valid JSON

Layers == 0 .. NumLayers - 1
Block == Layers \X Experts
Content == {"hole", "right", "other", "torn"}

\* What a peer may answer for a block: as many bytes as it has, the published
\* ones or others; fewer, or none; more.
Answer == {"right", "other", "short", "long"}

ASSUME LayersAssumption == NumLayers \in Nat \ {0}
ASSUME SlicesAssumption == Slices \subseteq SUBSET Experts
ASSUME FetchBoundsAssumption == MaxFetches \in Nat /\ MaxKills \in Nat
ASSUME HashedAssumption == Hashed \subseteq Block /\ Revised \subseteq Block

VARIABLES
  fpc,      \* where expert-fetch is
  job,      \* its arguments: the source, my slice, the peers and hashes it was told of, the roster
  layer, todo, probed,   \* the layer it is at, its blocks still to come, and whether it has probed
  sized,    \* layers whose file is there, with its full size or more
  grown,    \* those of them whose file has more
  disk,     \* what each block's place holds
  manifest, \* manifest.partial.json: the blocks it lists
  fetches, kills

fetchVars == <<fpc, job, layer, todo, probed, sized, grown, disk, manifest, fetches, kills>>
files == <<sized, grown, disk, manifest>>

NoJob == [source |-> "none", mine |-> {}, peers |-> {}, want |-> {}, roster |-> {}]

FetchInit ==
  /\ fpc = "idle" /\ job = NoJob
  /\ layer = 0 /\ todo = {} /\ probed = FALSE
  /\ sized = {} /\ grown = {} /\ disk = [b \in Block |-> "hole"] /\ manifest = NoFile
  /\ fetches = 0 /\ kills = 0

Resting == fpc \in {"idle", "done", "failed"}

\* The process is gone, and its variables with it.
Gone == job' = NoJob /\ layer' = 0 /\ todo' = {} /\ probed' = FALSE

Begin(j) ==
  /\ Resting
  /\ fetches < MaxFetches /\ fetches' = fetches + 1
  /\ fpc' = "layer" /\ job' = j /\ layer' = 0 /\ todo' = {} /\ probed' = FALSE
  /\ UNCHANGED <<files, kills>>

\* From peers: a slice named on the command line, the peers and the manifest
\* the coordinator tells of; without either the program exits.
FetchFromPeers(mine, peers) ==
  /\ peers # {} /\ Hashed # {}
  /\ Begin([source |-> "peers", mine |-> mine, peers |-> peers, want |-> Hashed, roster |-> {}])

\* Mutant: a machine that the roster does not name yet is not added to it.
FetchFromHFUnlisted(roster, me, want) ==
  LET known == IF roster = {} THEN {me} ELSE roster
  IN  Begin([source |-> "hf", mine |-> partition(known, me), peers |-> {}, want |-> want, roster |-> known])

\* From the checkpoint: the slice placement gives me under a roster I am part
\* of, checked against the manifest if there is one.
FetchFromHF(roster, me, want) ==
  Begin([source |-> "hf", mine |-> partition(roster \cup {me}, me), peers |-> {}, want |-> want,
         roster |-> roster \cup {me}])

\* Whether a block that is in its place verifies.
Have(places, b) == b \in job.want /\ places[b] = "right"

\* Mutant: the file is always opened anew.
KeptNever == [b \in Block |-> IF b[1] = layer THEN "hole" ELSE disk[b]]

\* A file of the wrong size is truncated, and sized with holes.
Kept == [b \in Block |-> IF b[1] = layer /\ layer \notin sized \ grown THEN "hole" ELSE disk[b]]

OpenLayer ==
  /\ fpc = "layer"
  /\ disk' = Kept
  /\ sized' = sized \cup {layer} /\ grown' = grown \ {layer}
  /\ LET missing == {e \in job.mine : ~Have(Kept, <<layer, e>>)}
     IN  /\ todo' = missing
         /\ fpc' = IF job.source = "peers" /\ missing # {} /\ ~probed THEN "probe" ELSE "pull"
  /\ UNCHANGED <<job, layer, probed, manifest, fetches, kills>>

Current == <<layer, CHOOSE e \in todo : \A x \in todo : e <= x>>

\* Mutant: any answer of the block's length is taken.
AcceptableUnchecked(b, answer) == answer \in Content

\* An answer is taken when no hash says otherwise; nothing asks for its length.
Acceptable(b, answer) == b \in job.want => answer = "right"

\* Fewer bytes leave the rest of what was there.
Patched(content) == {content, "torn"} \cup IF content = "hole" THEN {} ELSE {"right"}

WriteShort ==
  /\ \E left \in Patched(disk[Current]) : disk' = [disk EXCEPT ![Current] = left]
  /\ UNCHANGED grown

\* More bytes run on over the blocks after it, and past the last one make the
\* file longer.
WriteLong ==
  \E last \in {e \in Experts : Current[2] <= e}, brought \in [Experts -> {"right", "other", "torn"}] :
    /\ disk' = [b \in Block |-> IF b[1] = layer /\ b[2] \in Current[2] .. last THEN brought[b[2]] ELSE disk[b]]
    /\ brought[Current[2]] # "torn"
    /\ grown' = grown \/ (grown' = grown \cup {layer} /\ \A e \in Experts : e <= last)

\* An answer is written where its block begins, in its own length.
Write(answer) ==
  /\ \/ answer \in Content /\ disk' = [disk EXCEPT ![Current] = answer] /\ UNCHANGED grown
     \/ answer = "short" /\ WriteShort
     \/ answer = "long" /\ WriteLong
  /\ todo' = todo \ {Current[2]}

\* The first block needed is asked of every peer, and the last good answer is
\* written; when none is good the block is pulled like the others.
Probe(answers) ==
  /\ fpc = "probe"
  /\ probed' = TRUE
  /\ fpc' = "pull"
  /\ LET good == {c \in answers : Acceptable(Current, c)}
     IN  \/ good = {} /\ UNCHANGED <<grown, disk, todo>>
         \/ \E c \in good : Write(c)
  /\ UNCHANGED <<job, layer, sized, manifest, fetches, kills>>

\* One block arrives and is written, in the order of the slice ...
Land(answer) ==
  /\ fpc = "pull" /\ todo # {}
  /\ Acceptable(Current, answer)
  /\ Write(answer)
  /\ UNCHANGED <<fpc, job, layer, probed, sized, manifest, fetches, kills>>

\* ... or every try failed, and the program ends with an error.
Unavailable ==
  /\ fpc = "pull" /\ todo # {}
  /\ fpc' = "failed" /\ Gone
  /\ UNCHANGED <<files, fetches, kills>>

\* The bytes of a block in the checkpoint.
Checkpoint(b) == IF b \in Revised THEN "other" ELSE "right"

LandFromHF == job.source = "hf" /\ todo # {} /\ Land(Checkpoint(Current))

\* A block that does not match is not written; a read gives up after its tries.
FailFromHF == job.source = "hf" /\ Unavailable

NextLayer ==
  /\ fpc = "pull" /\ todo = {}
  /\ layer + 1 < NumLayers
  /\ fpc' = "layer" /\ layer' = layer + 1
  /\ UNCHANGED <<job, todo, probed, files, fetches, kills>>

\* All layers are there; from the checkpoint, what was fetched is listed.
Finish ==
  /\ fpc = "pull" /\ todo = {}
  /\ layer + 1 = NumLayers
  /\ fpc' = "done"
  /\ manifest' = IF job.source = "hf" THEN Layers \X job.mine ELSE manifest
  /\ UNCHANGED <<job, layer, todo, probed, sized, grown, disk, fetches, kills>>

\* The bytes being written differ from those there.  (An answer of another
\* length, cut off by a kill, is a shorter answer and a kill after it.)
Tearable ==
  /\ fpc \in {"probe", "pull"} /\ todo # {}
  /\ disk[Current] = "right" => job.source = "peers" \/ Current \in Revised

\* manifest.partial.json, opened for writing, is truncated first.
AtManifest == fpc = "pull" /\ todo = {} /\ layer + 1 = NumLayers /\ job.source = "hf"

\* Killed, while a block or the list is written or not.
Kill(tears) ==
  /\ ~Resting
  /\ kills < MaxKills /\ kills' = kills + 1
  /\ fpc' = "idle" /\ Gone
  /\ disk' = IF tears /\ Tearable THEN [disk EXCEPT ![Current] = "torn"] ELSE disk
  /\ manifest' = IF tears /\ AtManifest THEN TornFile ELSE manifest
  /\ UNCHANGED <<sized, grown, fetches>>

FetchStep == OpenLayer \/ LandFromHF \/ FailFromHF \/ NextLayer \/ Finish

-----------------------------------------------------------------------------
FetchTypeOK ==
  /\ fpc \in {"idle", "layer", "probe", "pull", "done", "failed"}
  /\ job \in [source : {"none", "peers", "hf"}, mine : SUBSET Experts, peers : SUBSET Ids,
              want : SUBSET Block, roster : SUBSET Ids]
  /\ layer \in Layers /\ todo \subseteq job.mine /\ probed \in BOOLEAN
  /\ grown \subseteq sized /\ sized \subseteq Layers /\ disk \in [Block -> Content]
  /\ manifest \in {NoFile, TornFile} \/ manifest \subseteq Block
  /\ fetches \in 0 .. MaxFetches /\ kills \in 0 .. MaxKills

\* The run was told a hash of every block of its slice in the layer, or takes
\* them from the checkpoint, whose ranges are read in their length.
Sure(l) == job.source = "peers" => {l} \X job.mine \subseteq job.want

\* A run that reports success leaves every block of its slice on disk, in a file
\* of the right size: the published bytes where it knew their hash, complete
\* bytes otherwise.  Of the layers in which the manifest has no hash for a block
\* of the slice nothing is said: there a peer's answer is taken unseen.
DoneMeansComplete ==
  fpc = "done" =>
    \A b \in Layers \X job.mine : Sure(b[1]) =>
      b[1] \in sized \ grown /\ disk[b] \in (IF b \in job.want THEN {"right"} ELSE {"right", "other"})

\* The published manifest has a hash of every block of the layer.
Published(l) == {l} \X Experts \subseteq Hashed

\* Whatever peers answer, and whatever runs are killed, fail or are started for
\* another slice, a block a run would verify is never lost from a layer that is
\* published ("r+b keeps a previous run's blocks").
VerifiedNeverLost ==
  [][\A b \in Block :
       disk[b] = "right" /\ b \in job.want /\ Published(b[1]) => disk'[b] = "right"]_fetchVars

\* "Every block is checked against the published manifest hash as it lands": when
\* a run from peers reports its blocks verified, they are the published ones.
DoneMeansVerified ==
  fpc = "done" /\ job.source = "peers" =>
    \A b \in Layers \X job.mine : b[1] \in sized \ grown /\ disk[b] = "right"
=============================================================================
