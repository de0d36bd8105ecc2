----------------------------- MODULE Slice_proofs -----------------------------
(***************************************************************************)
(* What a slice of a model on disk may be relied on for, after any runs of  *)
(* expert-fetch, failures and kills: for any model, slices, rosters, peers  *)
(* and hashes.                                                              *)
(***************************************************************************)
EXTENDS Slice, WellFoundedInduction, FunctionTheorems, TLAPS

-----------------------------------------------------------------------------
(* The inductive invariant of expert-fetch.                                *)

Running == fpc \in {"layer", "probe", "pull", "done"}

\* What the run may count as present: the published bytes, or any it cannot check.
Complete(b) == disk[b] \in (IF b \in job.want THEN {"right"} ELSE {"right", "other"})

\* Every block of the layers before the present one, and of the present one all
\* but those still to come, are complete, in the layers it can check.
LayersBehind ==
  Running => \A l \in Layers, e \in job.mine : l < layer =>
    l \in sized /\ (Sure(l) => l \notin grown /\ Complete(<<l, e>>))

PresentLayer ==
  fpc \in {"probe", "pull", "done"} =>
    /\ layer \in sized
    /\ Sure(layer) => layer \notin grown /\ \A e \in job.mine \ todo : Complete(<<layer, e>>)

AllDone == fpc = "done" => todo = {} /\ layer + 1 = NumLayers

\* A block still to come is one the run could not verify.
ToCome ==
  /\ fpc \in {"probe", "pull"} /\ Sure(layer) => \A e \in todo : ~Have(disk, <<layer, e>>)
  /\ fpc = "probe" => todo # {}

\* Peers are asked with all the hashes there are, and only they are probed.
JobKnown ==
  /\ job.source = "peers" => job.want = Hashed
  /\ fpc = "probe" => job.source = "peers"

\* A file outgrows its layout only where the manifest has not every block's hash.
GrownUnpublished == \A l \in grown : ~Published(l)

\* A file that is not there holds nothing.
UnsizedIsEmpty == \A b \in Block : disk[b] # "hole" => b[1] \in sized

FetchInv ==
  /\ FetchTypeOK /\ LayersBehind /\ PresentLayer /\ AllDone /\ ToCome
  /\ JobKnown /\ GrownUnpublished /\ UnsizedIsEmpty

\* The steps of expert-fetch, with any peers and any of their answers.
FetchActs ==
  \/ \E mine \in Slices, peers \in SUBSET Ids : FetchFromPeers(mine, peers)
  \/ \E roster \in SUBSET Ids, me \in Ids, want \in {{}, Hashed} : FetchFromHF(roster, me, want)
  \/ \E answers \in SUBSET Answer : Probe(answers)
  \/ \E c \in Answer : Land(c) /\ (job.source = "peers" \/ c \in {"right", "other"})
  \/ Unavailable \/ OpenLayer \/ NextLayer \/ Finish
  \/ \E tears \in BOOLEAN : Kill(tears)

\* The block being fetched is one of those still to come.
LEMMA CurrentIsToCome ==
  ASSUME FetchInv, todo # {}
  PROVE  Current \in Block /\ Current[1] = layer /\ Current[2] \in todo
<1>1. todo \subseteq Experts /\ todo \subseteq Nat /\ layer \in Layers
  BY PlacedExpertsAssumption DEF FetchInv, FetchTypeOK
<1>2. PICK e \in todo : \A y \in todo : ~(<<y, e>> \in OpToRel(<, Nat))
  BY <1>1, NatLessThanWellFounded, WFMin
<1>3. \A y \in todo : ~(y < e)
  BY <1>1, <1>2 DEF OpToRel
<1>4. \A y \in todo : e <= y
  BY <1>1, <1>3
<1> DEFINE first == CHOOSE x \in todo : \A y \in todo : x <= y
<1>5. first \in todo
  BY <1>4
<1>6. Current = <<layer, first>>
  BY DEF Current
<1> HIDE DEF first
<1>7. QED
  BY <1>1, <1>5, <1>6 DEF Block

JobType ==
  [source : {"none", "peers", "hf"}, mine : SUBSET Experts, peers : SUBSET Ids,
   want : SUBSET Block, roster : SUBSET Ids]

LEMMA InitFetchInv == FetchInit => FetchInv
<1> SUFFICES ASSUME FetchInit PROVE FetchInv
  OBVIOUS
<1>1. 0 \in Layers /\ 0 \in 0 .. MaxFetches /\ 0 \in 0 .. MaxKills
  BY LayersAssumption, FetchBoundsAssumption DEF Layers
<1>2. NoJob \in JobType /\ NoJob.mine = {}
  BY DEF NoJob, JobType
<1>3. disk \in [Block -> Content]
  BY DEF FetchInit, Content
<1>4. FetchTypeOK
  BY <1>1, <1>2, <1>3 DEF FetchInit, FetchTypeOK, JobType
<1>5. /\ LayersBehind /\ PresentLayer /\ AllDone /\ ToCome
      /\ JobKnown /\ GrownUnpublished /\ UnsizedIsEmpty
  BY DEF FetchInit, LayersBehind, PresentLayer, AllDone, ToCome, JobKnown, GrownUnpublished,
     UnsizedIsEmpty, Running, NoJob
<1>6. QED
  BY <1>4, <1>5 DEF FetchInv

\* A run begins: nothing is known to be complete but what is on disk.
LEMMA BeginInv ==
  ASSUME FetchInv, NEW j \in JobType, j.source = "peers" => j.want = Hashed, Begin(j)
  PROVE  FetchInv'
<1>1. FetchTypeOK'
  <2>1. layer' \in Layers
    BY LayersAssumption DEF Begin, Layers
  <2>2. fetches' \in 0 .. MaxFetches
    BY FetchBoundsAssumption DEF Begin, FetchInv, FetchTypeOK
  <2>3. QED
    BY <2>1, <2>2 DEF Begin, FetchInv, FetchTypeOK, JobType, files
<1>2. LayersBehind'
  BY DEF Begin, LayersBehind, Layers
<1>3. PresentLayer' /\ AllDone' /\ ToCome'
  BY DEF Begin, PresentLayer, AllDone, ToCome
<1>4. JobKnown' /\ GrownUnpublished' /\ UnsizedIsEmpty'
  BY DEF Begin, FetchInv, JobKnown, GrownUnpublished, Published, UnsizedIsEmpty, files
<1>5. QED
  BY <1>1, <1>2, <1>3, <1>4 DEF FetchInv

LEMMA FromPeersInv ==
  ASSUME FetchInv, NEW mine \in Slices, NEW peers \in SUBSET Ids, FetchFromPeers(mine, peers)
  PROVE  FetchInv'
BY BeginInv, SlicesAssumption, HashedAssumption DEF FetchFromPeers, JobType

LEMMA FromHFInv ==
  ASSUME FetchInv, NEW roster \in SUBSET Ids, NEW me \in Ids, NEW want \in {{}, Hashed},
         FetchFromHF(roster, me, want)
  PROVE  FetchInv'
BY BeginInv, HashedAssumption DEF FetchFromHF, partition, JobType

LEMMA OpenLayerInv ==
  ASSUME FetchInv, OpenLayer
  PROVE  FetchInv'
<1> USE DEF FetchInv
<1>1. FetchTypeOK'
  BY DEF OpenLayer, FetchTypeOK, Kept, Content
<1>2. \A b \in Block : disk'[b] = IF b[1] = layer /\ layer \notin sized \ grown THEN "hole" ELSE disk[b]
  BY DEF OpenLayer, Kept
<1>3. disk' = Kept /\ layer \in sized' /\ layer \notin grown' /\ UNCHANGED <<job, layer>>
  BY DEF OpenLayer
<1>4. ASSUME NEW l \in Layers, NEW e \in job.mine, l < layer
      PROVE  l \in sized' /\ (Sure(l) => l \notin grown' /\ Complete(<<l, e>>)')
  <2>1. <<l, e>> \in Block /\ l # layer
    BY <1>4 DEF FetchTypeOK, Block, Layers
  <2>2. disk'[<<l, e>>] = disk[<<l, e>>]
    BY <1>2, <2>1
  <2>3. QED
    BY <1>4, <2>2 DEF OpenLayer, LayersBehind, Running, Complete
<1>5. LayersBehind'
  BY <1>3, <1>4 DEF LayersBehind, Sure
<1>6. PresentLayer'
  <2>1. ASSUME NEW e \in job.mine \ todo' PROVE Complete(<<layer, e>>)'
    <3>1. Have(Kept, <<layer, e>>)
      BY DEF OpenLayer
    <3>2. QED
      BY <1>3, <3>1 DEF Have, Complete
  <2>2. QED
    BY <1>3, <2>1 DEF PresentLayer
<1>7. ToCome'
  <2>1. ASSUME NEW e \in todo' PROVE ~Have(disk, <<layer, e>>)'
    <3>1. ~Have(Kept, <<layer, e>>)
      BY DEF OpenLayer
    <3>2. QED
      BY <1>3, <3>1 DEF Have
  <2>2. QED
    BY <1>3, <2>1 DEF ToCome, OpenLayer
<1>8. UnsizedIsEmpty'
  BY <1>2 DEF UnsizedIsEmpty, OpenLayer
<1>9. JobKnown' /\ GrownUnpublished'
  BY DEF JobKnown, GrownUnpublished, Published, OpenLayer
<1>10. QED
  BY <1>1, <1>5, <1>6, <1>7, <1>8, <1>9 DEF AllDone, OpenLayer

\* A block is written whole: one of those still to come becomes complete.
LEMMA WriteInv ==
  ASSUME FetchInv, NEW c \in {"right", "other"}, todo # {}, fpc \in {"probe", "pull"},
         Acceptable(Current, c), Write(c), fpc' = "pull", probed' \in BOOLEAN,
         UNCHANGED <<job, layer, sized, manifest, fetches, kills>>
  PROVE  FetchInv'
<1> USE DEF FetchInv
<1>0. Current \in Block /\ Current[1] = layer /\ Current[2] \in todo
  BY CurrentIsToCome
<1>a. disk' = [disk EXCEPT ![Current] = c] /\ grown' = grown /\ todo' = todo \ {Current[2]}
  BY DEF Write
<1>1. FetchTypeOK'
  BY <1>a DEF FetchTypeOK, Content
<1>2. \A b \in Block : disk'[b] = IF b = Current THEN c ELSE disk[b]
  BY <1>0, <1>a DEF FetchTypeOK
<1>3. \A b \in Block : Complete(b) => Complete(b)'
  BY <1>2 DEF Complete, Acceptable
<1>4. disk'[Current] \in (IF Current \in job.want THEN {"right"} ELSE {"right", "other"})
  BY <1>0, <1>2 DEF Acceptable
<1>5. LayersBehind'
  BY <1>3, <1>a DEF LayersBehind, Running, FetchTypeOK, Block, Sure
<1>6. PresentLayer'
  <2>1. ASSUME NEW e \in job.mine \ todo', Sure(layer) PROVE Complete(<<layer, e>>)'
    <3>1. <<layer, e>> \in Block
      BY DEF FetchTypeOK, Block
    <3>2. CASE e \in todo
      <4>1. <<layer, e>> = Current
        BY <1>0, <1>a, <3>2 DEF Block
      <4>2. QED
        BY <1>4, <4>1 DEF Complete
    <3>3. CASE e \notin todo
      BY <1>3, <2>1, <3>1, <3>3 DEF PresentLayer
    <3>4. QED
      BY <3>2, <3>3
  <2>2. QED
    BY <1>a, <2>1 DEF PresentLayer, Sure
<1>7. ToCome'
  <2>1. ASSUME NEW e \in todo', Sure(layer) PROVE ~Have(disk, <<layer, e>>)'
    <3>1. <<layer, e>> \in Block /\ e \in todo /\ <<layer, e>> # Current
      BY <1>0, <1>a DEF FetchTypeOK, Block
    <3>2. QED
      BY <1>2, <2>1, <3>1 DEF ToCome, Have
  <2>2. QED
    BY <2>1 DEF ToCome, Sure
<1>8. UnsizedIsEmpty'
  BY <1>0, <1>2 DEF UnsizedIsEmpty, PresentLayer
<1>9. JobKnown' /\ GrownUnpublished'
  BY <1>a DEF JobKnown, GrownUnpublished, Published
<1>10. QED
  BY <1>1, <1>5, <1>6, <1>7, <1>8, <1>9 DEF AllDone

\* What an answer of another length may change: its layer's file, no other.
LEMMA LooseWrite ==
  ASSUME FetchInv, NEW c \in {"short", "long"}, todo # {}, Write(c)
  PROVE  /\ disk' \in [Block -> Content]
         /\ \A b \in Block : b[1] # layer => disk'[b] = disk[b]
         /\ grown \subseteq grown' /\ grown' \subseteq grown \cup {layer}
         /\ todo' = todo \ {Current[2]}
<1>1. Current \in Block /\ Current[1] = layer /\ disk \in [Block -> Content]
  BY CurrentIsToCome DEF FetchInv, FetchTypeOK
<1>2. todo' = todo \ {Current[2]}
  BY DEF Write
<1>3. CASE WriteShort
  <2>1. PICK left \in Content : disk' = [disk EXCEPT ![Current] = left] /\ grown' = grown
    <3>1. Patched(disk[Current]) \subseteq Content
      BY <1>1 DEF Patched, Content
    <3>2. QED
      BY <1>3, <3>1 DEF WriteShort
  <2>2. QED
    BY <1>1, <1>2, <2>1
<1>4. CASE WriteLong
  <2>1. PICK last \in Experts, brought \in [Experts -> {"right", "other", "torn"}] :
          /\ disk' = [b \in Block |-> IF b[1] = layer /\ b[2] \in Current[2] .. last THEN brought[b[2]] ELSE disk[b]]
          /\ grown' = grown \/ grown' = grown \cup {layer}
    BY <1>4 DEF WriteLong
  <2>2. \A b \in Block : b[2] \in Experts
    BY DEF Block
  <2>3. disk' \in [Block -> Content]
    BY <1>1, <2>1, <2>2 DEF Content
  <2>4. QED
    BY <1>2, <2>1, <2>3
<1>5. QED
  BY <1>3, <1>4 DEF Write, Content

\* An answer of another length is only taken in a layer the run cannot check.
LEMMA LooseInv ==
  ASSUME FetchInv, NEW c \in {"short", "long"}, todo # {}, fpc \in {"probe", "pull"},
         job.source = "peers", Acceptable(Current, c), Write(c), fpc' = "pull", probed' \in BOOLEAN,
         UNCHANGED <<job, layer, sized, manifest, fetches, kills>>
  PROVE  FetchInv'
<1> USE DEF FetchInv
<1>0. Current \in Block /\ Current[1] = layer /\ Current[2] \in todo /\ Current = <<Current[1], Current[2]>>
  BY CurrentIsToCome DEF Block
<1>1. /\ disk' \in [Block -> Content]
      /\ \A b \in Block : b[1] # layer => disk'[b] = disk[b]
      /\ grown \subseteq grown' /\ grown' \subseteq grown \cup {layer}
      /\ todo' = todo \ {Current[2]}
  BY LooseWrite
<1>2. Current \notin job.want /\ job.want = Hashed
  BY DEF Acceptable, JobKnown
<1>3. ~Sure(layer) /\ ~Sure(layer)'
  BY <1>0, <1>2 DEF Sure, FetchTypeOK
<1>4. ~Published(layer)
  BY <1>0, <1>2 DEF Published, FetchTypeOK
<1>5. layer \in sized
  BY DEF PresentLayer
<1>6. FetchTypeOK'
  BY <1>1, <1>5 DEF FetchTypeOK
<1>7. LayersBehind'
  <2>1. ASSUME NEW l \in Layers, NEW e \in job.mine, l < layer, Sure(l)
        PROVE  l \notin grown' /\ Complete(<<l, e>>)'
    <3>1. <<l, e>> \in Block /\ l # layer
      BY <2>1 DEF FetchTypeOK, Block, Layers
    <3>2. disk'[<<l, e>>] = disk[<<l, e>>]
      BY <1>1, <3>1
    <3>3. QED
      BY <1>1, <2>1, <3>1, <3>2 DEF LayersBehind, Running, Complete
  <2>2. QED
    BY <2>1 DEF LayersBehind, Running, Sure
<1>8. PresentLayer' /\ ToCome' /\ AllDone'
  BY <1>3, <1>5 DEF PresentLayer, ToCome, AllDone
<1>9. JobKnown' /\ GrownUnpublished'
  BY <1>1, <1>4 DEF JobKnown, GrownUnpublished, Published
<1>10. UnsizedIsEmpty'
  BY <1>1, <1>5 DEF UnsizedIsEmpty
<1>11. QED
  BY <1>6, <1>7, <1>8, <1>9, <1>10

\* A step that ends a run, or leaves the files and the place in the slice alone.
LEMMA EndInv ==
  ASSUME FetchInv, fpc' \in {"idle", "failed"}, Gone, sized' = sized, grown' = grown,
         disk' \in [Block -> Content], \A b \in Block : disk'[b] # disk[b] => b[1] \in sized,
         manifest' \in {NoFile, TornFile} \/ manifest' \subseteq Block,
         fetches' \in 0 .. MaxFetches, kills' \in 0 .. MaxKills
  PROVE  FetchInv'
<1> USE DEF FetchInv
<1>1. FetchTypeOK'
  <2>1. layer' \in Layers
    BY LayersAssumption DEF Gone, Layers
  <2>2. job' \in JobType
    BY DEF Gone, NoJob, JobType
  <2>3. QED
    BY <2>1, <2>2 DEF Gone, FetchTypeOK, JobType
<1>2. LayersBehind' /\ PresentLayer' /\ AllDone' /\ ToCome'
  BY DEF LayersBehind, PresentLayer, AllDone, ToCome, Running
<1>3. JobKnown' /\ GrownUnpublished' /\ UnsizedIsEmpty'
  BY DEF JobKnown, GrownUnpublished, Published, UnsizedIsEmpty, Gone, NoJob
<1>4. QED
  BY <1>1, <1>2, <1>3

LEMMA KillInv ==
  ASSUME FetchInv, NEW tears \in BOOLEAN, Kill(tears)
  PROVE  FetchInv'
<1>1. disk' \in [Block -> Content]
  BY DEF Kill, FetchInv, FetchTypeOK, Content
<1>2. kills' \in 0 .. MaxKills /\ fetches' \in 0 .. MaxFetches
  BY FetchBoundsAssumption DEF Kill, FetchInv, FetchTypeOK
<1>3. ASSUME NEW b \in Block, disk'[b] # disk[b] PROVE b[1] \in sized
  <2>1. Tearable /\ b = Current
    BY <1>3 DEF Kill, FetchInv, FetchTypeOK
  <2>2. Current[1] = layer
    BY <2>1, CurrentIsToCome DEF Tearable
  <2>3. QED
    BY <2>1, <2>2 DEF Tearable, FetchInv, PresentLayer
<1>4. manifest' \in {NoFile, TornFile} \/ manifest' \subseteq Block
  BY DEF Kill, FetchInv, FetchTypeOK
<1>5. QED
  BY <1>1, <1>2, <1>3, <1>4, EndInv DEF Kill

LEMMA NextLayerInv ==
  ASSUME FetchInv, NextLayer
  PROVE  FetchInv'
<1> USE DEF FetchInv
<1>1. FetchTypeOK'
  BY LayersAssumption DEF FetchTypeOK, NextLayer, files, Layers
<1>2. ASSUME NEW l \in Layers, NEW e \in job.mine, l < layer + 1
      PROVE  l \in sized /\ (Sure(l) => l \notin grown /\ Complete(<<l, e>>))
  <2>1. l < layer \/ l = layer
    BY <1>2 DEF FetchTypeOK, Layers
  <2>2. QED
    BY <2>1 DEF NextLayer, LayersBehind, PresentLayer, Running
<1>3. LayersBehind'
  BY <1>2 DEF LayersBehind, NextLayer, files, Complete, Sure
<1>4. QED
  BY <1>1, <1>3 DEF PresentLayer, AllDone, ToCome, JobKnown, GrownUnpublished, Published,
     UnsizedIsEmpty, NextLayer, files

LEMMA FinishInv ==
  ASSUME FetchInv, Finish
  PROVE  FetchInv'
<1> USE DEF FetchInv
<1>1. FetchTypeOK'
  BY DEF FetchTypeOK, Finish, Block
<1>2. LayersBehind' /\ PresentLayer'
  BY DEF LayersBehind, PresentLayer, Finish, Running, Complete, Sure
<1>3. QED
  BY <1>1, <1>2 DEF AllDone, ToCome, JobKnown, GrownUnpublished, Published, UnsizedIsEmpty, Finish

\* A probe takes a good answer, or goes on without one.
LEMMA ProbeInv ==
  ASSUME FetchInv, NEW answers \in SUBSET Answer, Probe(answers), todo # {}
  PROVE  FetchInv'
<1>1. CASE UNCHANGED <<grown, disk, todo>>
  BY <1>1 DEF FetchInv, FetchTypeOK, LayersBehind, PresentLayer, AllDone, ToCome, JobKnown,
     GrownUnpublished, Published, UnsizedIsEmpty, Running, Complete, Have, Sure, Probe
<1>2. CASE \E c \in {x \in answers : Acceptable(Current, x)} : Write(c)
  <2>1. PICK c \in Answer : Acceptable(Current, c) /\ Write(c)
    BY <1>2
  <2>2. CASE c \in {"right", "other"}
    BY <2>1, <2>2, WriteInv DEF Probe
  <2>3. CASE c \in {"short", "long"}
    BY <2>1, <2>3, LooseInv DEF Probe, FetchInv, JobKnown
  <2>4. QED
    BY <2>2, <2>3 DEF Answer
<1>3. QED
  BY <1>1, <1>2 DEF Probe

LEMMA FetchStepInv ==
  ASSUME FetchInv, FetchActs
  PROVE  FetchInv'
<1>1. ASSUME NEW mine \in Slices, NEW peers \in SUBSET Ids, FetchFromPeers(mine, peers) PROVE FetchInv'
  BY <1>1, FromPeersInv
<1>2. ASSUME NEW roster \in SUBSET Ids, NEW me \in Ids, NEW want \in {{}, Hashed}, FetchFromHF(roster, me, want)
      PROVE  FetchInv'
  BY <1>2, FromHFInv
<1>3. ASSUME NEW answers \in SUBSET Answer, Probe(answers) PROVE FetchInv'
  <2>1. todo # {}
    BY <1>3 DEF FetchInv, ToCome, Probe
  <2>2. QED
    BY <1>3, <2>1, ProbeInv
<1>4. ASSUME NEW c \in Answer, Land(c), job.source = "peers" \/ c \in {"right", "other"} PROVE FetchInv'
  <2>1. CASE c \in {"right", "other"}
    BY <1>4, <2>1, WriteInv DEF Land, FetchInv, FetchTypeOK
  <2>2. CASE c \in {"short", "long"}
    BY <1>4, <2>2, LooseInv DEF Land, FetchInv, FetchTypeOK
  <2>3. QED
    BY <2>1, <2>2 DEF Answer
<1>5. ASSUME Unavailable PROVE FetchInv'
  BY <1>5, EndInv DEF Unavailable, files, FetchInv, FetchTypeOK
<1>6. CASE OpenLayer
  BY <1>6, OpenLayerInv
<1>7. CASE NextLayer
  BY <1>7, NextLayerInv
<1>8. CASE Finish
  BY <1>8, FinishInv
<1>9. ASSUME NEW tears \in BOOLEAN, Kill(tears) PROVE FetchInv'
  BY <1>9, KillInv
<1>10. QED
  BY <1>1, <1>2, <1>3, <1>4, <1>5, <1>6, <1>7, <1>8, <1>9 DEF FetchActs

LEMMA FetchStutterInv ==
  ASSUME FetchInv, UNCHANGED fetchVars
  PROVE  FetchInv'
BY DEF FetchInv, FetchTypeOK, LayersBehind, PresentLayer, AllDone, ToCome, JobKnown, GrownUnpublished,
   Published, UnsizedIsEmpty, Running, Complete, Have, Sure, fetchVars

\* When a run reports success every block of its slice that it can check is there.
LEMMA FetchInvDone == FetchInv => DoneMeansComplete
<1> SUFFICES ASSUME FetchInv, fpc = "done", NEW b \in Layers \X job.mine, Sure(b[1])
             PROVE  b[1] \in sized /\ b[1] \notin grown /\ Complete(b)
  BY DEF DoneMeansComplete, Complete
<1>1. PICK l \in Layers, e \in job.mine : b = <<l, e>>
  OBVIOUS
<1>2. l < layer \/ l = layer
  BY <1>1 DEF FetchInv, AllDone, FetchTypeOK, Layers
<1>3. CASE l < layer
  BY <1>1, <1>3 DEF FetchInv, LayersBehind, Running
<1>4. CASE l = layer
  BY <1>1, <1>4 DEF FetchInv, PresentLayer, AllDone
<1>5. QED
  BY <1>2, <1>3, <1>4

Unlost ==
  \A b \in Block : disk[b] = "right" /\ b \in job.want /\ Published(b[1]) => disk'[b] = "right"

\* No step takes a block the run would verify from a layer that is published: not
\* the reopening of a file, not a write, not a kill in the middle of one.
LEMMA FetchStepUnlost ==
  ASSUME FetchInv, FetchActs
  PROVE  Unlost
<1> SUFFICES ASSUME NEW b \in Block, disk[b] = "right", b \in job.want, Published(b[1])
             PROVE  disk'[b] = "right"
  BY DEF Unlost
<1>1. b[1] \in sized \ grown
  BY DEF FetchInv, UnsizedIsEmpty, GrownUnpublished
<1>2. disk \in [Block -> Content]
  BY DEF FetchInv, FetchTypeOK
<1>3. ASSUME NEW c \in Answer, todo # {}, Acceptable(Current, c), Write(c),
             job.source = "peers" \/ c \in {"right", "other"}
      PROVE  disk'[b] = "right"
  <2>1. CASE c \in {"right", "other"}
    <3>1. disk' = [disk EXCEPT ![Current] = c]
      BY <1>3, <2>1 DEF Write
    <3>2. QED
      BY <1>2, <1>3, <3>1, CurrentIsToCome DEF Acceptable
  <2>2. CASE c \in {"short", "long"}
    <3>1. Current \notin Hashed
      BY <1>3, <2>2 DEF Acceptable, FetchInv, JobKnown
    <3>2. Current \in Block /\ Current[1] = layer
      BY <1>3, CurrentIsToCome
    <3>3. b[1] # layer
      BY <3>1, <3>2 DEF Published, Block
    <3>4. QED
      BY <1>3, <2>2, <3>3, LooseWrite
  <2>3. QED
    BY <2>1, <2>2 DEF Answer
<1>4. CASE OpenLayer
  BY <1>1, <1>2, <1>4 DEF OpenLayer, Kept
<1>5. ASSUME NEW answers \in SUBSET Answer, Probe(answers) PROVE disk'[b] = "right"
  BY <1>3, <1>5 DEF Probe, FetchInv, ToCome, JobKnown
<1>6. ASSUME NEW c \in Answer, Land(c), job.source = "peers" \/ c \in {"right", "other"}
      PROVE  disk'[b] = "right"
  BY <1>3, <1>6 DEF Land
<1>7. ASSUME NEW tears \in BOOLEAN, Kill(tears) PROVE disk'[b] = "right"
  <2>1. CASE tears /\ Tearable
    <3>1. Current[1] = layer /\ Current[2] \in todo /\ Current \in Block
      BY <2>1, CurrentIsToCome DEF Tearable
    <3>2. ASSUME b = Current PROVE FALSE
      <4>1. Sure(layer)
        BY <3>1, <3>2 DEF Sure, Published, FetchInv, FetchTypeOK, JobKnown
      <4>2. ~Have(disk, Current)
        BY <2>1, <3>1, <4>1 DEF Tearable, FetchInv, ToCome, Block
      <4>3. QED
        BY <3>2, <4>2 DEF Have
    <3>3. QED
      BY <1>2, <1>7, <3>1, <3>2 DEF Kill
  <2>2. CASE ~(tears /\ Tearable)
    BY <1>7, <2>2 DEF Kill
  <2>3. QED
    BY <2>1, <2>2
<1>8. CASE \E mine \in Slices, peers \in SUBSET Ids : FetchFromPeers(mine, peers)
  BY <1>8 DEF FetchFromPeers, Begin, files
<1>9. CASE \E roster \in SUBSET Ids, me \in Ids, want \in {{}, Hashed} : FetchFromHF(roster, me, want)
  BY <1>9 DEF FetchFromHF, Begin, files
<1>10. CASE Unavailable \/ NextLayer \/ Finish
  BY <1>10 DEF Unavailable, NextLayer, Finish, files
<1>11. QED
  BY <1>4, <1>5, <1>6, <1>7, <1>8, <1>9, <1>10 DEF FetchActs

-----------------------------------------------------------------------------
(* expert-fetch in the composition.                                        *)

\* The checkpoint answers with whole blocks.
LEMMA FetchStepActs ==
  ASSUME FetchStep
  PROVE  FetchActs
<1>1. Checkpoint(Current) \in Answer /\ Checkpoint(Current) \in {"right", "other"}
  BY DEF Checkpoint, Answer
<1>2. CASE LandFromHF
  BY <1>1, <1>2 DEF LandFromHF, FetchActs
<1>3. CASE FailFromHF
  BY <1>3 DEF FailFromHF, FetchActs
<1>4. QED
  BY <1>2, <1>3 DEF FetchStep, FetchActs

\* A step of the composition is one of expert-fetch, or leaves it alone.
LEMMA SliceStepFetches ==
  ASSUME [SliceNext]_sliceVars
  PROVE  FetchActs \/ UNCHANGED fetchVars
<1>1. CASE FetchProcess
  <2>1. CASE AskFetch
    BY <2>1, MeAssumption DEF AskFetch, FetchActs
  <2>2. CASE PeersAnswer
    BY <2>2 DEF PeersAnswer, FetchActs
  <2>3. CASE FetchStep
    BY <2>3, FetchStepActs
  <2>4. CASE \E tears \in BOOLEAN : Kill(tears)
    BY <2>4 DEF FetchActs
  <2>5. QED
    BY <1>1, <2>1, <2>2, <2>3, <2>4 DEF FetchProcess
<1>2. CASE EngineProcess \/ RowsProcess \/ DownloadsProcess \/ UNCHANGED sliceVars
  BY <1>2 DEF EngineProcess, RowsProcess, DownloadsProcess, sliceVars
<1>3. QED
  BY <1>1, <1>2 DEF SliceNext

\* What expert-fetch keeps true of its files.
THEOREM FetchInvariant == SliceSpec => []FetchInv
<1>1. SliceInit => FetchInv
  BY InitFetchInv DEF SliceInit
<1>2. FetchInv /\ [SliceNext]_sliceVars => FetchInv'
  BY SliceStepFetches, FetchStepInv, FetchStutterInv
<1>3. QED
  BY <1>1, <1>2, PTL DEF SliceSpec

\* Whatever peers answer, a run of expert-fetch that reports success leaves on disk
\* its slice of every layer for which it had all the hashes, as published, and what
\* it took from the checkpoint complete.
THEOREM FetchCompletes == SliceSpec => []DoneMeansComplete
BY FetchInvariant, FetchInvDone, PTL

\* No run of expert-fetch, however it ends and whatever peers answer, destroys a
\* block it would verify in a layer of which the manifest has every hash.
THEOREM VerifiedSurvives == SliceSpec => VerifiedNeverLost
<1>1. FetchInv /\ [SliceNext]_sliceVars =>
        [\A b \in Block :
           disk[b] = "right" /\ b \in job.want /\ Published(b[1]) => disk'[b] = "right"]_fetchVars
  BY SliceStepFetches, FetchStepUnlost DEF Unlost
<1>2. QED
  BY <1>1, FetchInvariant, PTL DEF SliceSpec, VerifiedNeverLost

-----------------------------------------------------------------------------
(* The n-gram tables.                                                      *)

\* While no table of the run has failed, every table is there, being downloaded
\* or still to come.
TablesInv ==
  /\ toFetch \subseteq Tables /\ active \subseteq Tables
  /\ table \in [Tables -> {"absent", "torn", "whole"}]
  /\ \A t \in Tables : table[t] # "torn"
  /\ dpc = "tables" /\ ~failed => \A t \in Tables : t \in toFetch \cup active \/ table[t] = "whole"
  /\ dpc = "done" => \A t \in Tables : table[t] = "whole"

LEMMA TablesStep ==
  ASSUME TablesInv, DownloadsNext
  PROVE  TablesInv'
<1> USE DEF TablesInv
<1>1. CASE BeginTrunk
  BY <1>1 DEF BeginTrunk, BeginTables, Wanted
<1>2. CASE OpenTrunk
  BY <1>2 DEF OpenTrunk
<1>3. CASE SaveTrunk
  BY <1>3 DEF SaveTrunk, BeginTables, Wanted
<1>4. CASE TablesDone
  BY <1>4 DEF TablesDone
<1>5. CASE DownloadsEnd
  BY <1>5 DEF DownloadsEnd
<1>6. ASSUME NEW t \in Tables, BeginTable(t) PROVE TablesInv'
  BY <1>6 DEF BeginTable
<1>7. ASSUME NEW t \in Tables, WriteTable(t) PROVE TablesInv'
  BY <1>7 DEF WriteTable
<1>8. ASSUME NEW t \in Tables, ReplaceTable(t) PROVE TablesInv'
  BY <1>8 DEF ReplaceTable
<1>9. ASSUME NEW t \in Tables, TableFails(t) PROVE TablesInv'
  BY <1>9 DEF TableFails
<1>10. CASE CancelTables
  BY <1>10 DEF CancelTables
<1>11. QED
  BY <1>1, <1>2, <1>3, <1>4, <1>5, <1>6, <1>7, <1>8, <1>9, <1>10 DEF DownloadsNext

\* A file at a table's name is whole, and a download that reports success leaves
\* all of them, whatever downloads failed or were killed before.
THEOREM TablesAreWhole == SliceSpec => []TablesWhole
<1>1. SliceInit => TablesInv
  BY DEF SliceInit, DownloadsInit, TablesInv
<1>2. TablesInv /\ [SliceNext]_sliceVars => TablesInv'
  <2>1. SUFFICES ASSUME TablesInv, [SliceNext]_sliceVars PROVE TablesInv'
    OBVIOUS
  <2>2. CASE UNCHANGED downloadVars
    BY <2>1, <2>2 DEF TablesInv, downloadVars
  <2>3. CASE DownloadsNext
    BY <2>1, <2>3, TablesStep
  <2>4. DownloadsNext \/ UNCHANGED downloadVars
    BY <2>1 DEF SliceNext, FetchProcess, EngineProcess, RowsProcess, DownloadsProcess, sliceVars
  <2>5. QED
    BY <2>2, <2>3, <2>4
<1>3. TablesInv => TablesWhole
  BY DEF TablesInv, TablesWhole
<1>4. QED
  BY <1>1, <1>2, <1>3, PTL DEF SliceSpec

-----------------------------------------------------------------------------
(* The engine that reads the files.                                        *)

\* A block of a published layer that was once fetched is there.
There(b) == b[1] \in sized /\ (Published(b[1]) => disk[b] # "hole")

\* What manifest.partial.json lists is there, and a run that fetched from the
\* checkpoint and ended well has listed its slice.
Listed ==
  /\ manifest \notin {NoFile, TornFile} => \A b \in manifest : There(b)
  /\ fpc = "done" /\ job.source = "hf" => manifest = Layers \X job.mine

\* While the engine runs, expert-fetch does not, and the engine's list is the file's.
EngineAlone ==
  /\ epc \in {"off", "idle", "lookup", "await", "leftover"}
  /\ epc = "off" => local = {} /\ cache = <<>>
  /\ epc # "off" =>
       Resting /\ manifest # TornFile /\ local = IF manifest = NoFile THEN {} ELSE manifest
  /\ prefetched \in [Layers -> SUBSET Experts]

\* What a read may have found.
RealReads ==
  {x \in Parsed :
     /\ Published(x.block[1]) => x.content # "hole"
     /\ fpc = "done" /\ job.source = "hf" /\ local # {} => x.content \in {"right", "other"}}

\* Under a block's key the cache holds that block.
RealItems == {Item(x.block, x) : x \in RealReads}

\* The experts of S, in layer l, are what was read.
Read(out, l, S) == {x.block : x \in out} = {<<l, e>> : e \in S}

CallType ==
  [layer : Layers, todo : SUBSET Experts, futs : SUBSET Experts, pending : SUBSET Experts,
   asked : SUBSET Experts, out : SUBSET RealReads]

\* What a call has read and has still to read is what it was asked for.
CallKnows ==
  /\ call.pending \subseteq call.asked
  /\ epc = "off" => call = NoCall
  /\ epc = "lookup" =>
       /\ call.todo \subseteq call.asked \ call.pending
       /\ Read(call.out, call.layer, call.asked \ (call.todo \cup call.pending))
  /\ epc = "await" =>
       /\ call.todo \subseteq call.pending
       /\ Read(call.out, call.layer, call.asked \ call.todo)
  /\ epc = "leftover" => Read(call.out, call.layer, call.asked)

EngineInv ==
  EngineAlone /\ cache \in Seq(RealItems) /\ call \in CallType /\ CallKnows

\* A set of expert ids has a least one.
LEMMA NextIsOne ==
  ASSUME NEW S, S \subseteq Experts, S # {}
  PROVE  NextOf(S) \in S
<1>1. S \subseteq Nat
  BY PlacedExpertsAssumption
<1>2. PICK e \in S : \A y \in S : ~(<<y, e>> \in OpToRel(<, Nat))
  BY <1>1, NatLessThanWellFounded, WFMin
<1>3. \A y \in S : ~(y < e)
  BY <1>1, <1>2 DEF OpToRel
<1>4. \A y \in S : e <= y
  BY <1>1, <1>3
<1>5. QED
  BY <1>4 DEF NextOf

\* A dictionary that loses an item holds items it held before.
LEMMA DeleteKeepsItems ==
  ASSUME NEW D, NEW d \in Seq(D), NEW k, HasKey(d, k)
  PROVE  Delete(d, k) \in Seq(D)
<1> DEFINE n == IndexOf(d, k)
<1>1. n \in 1 .. Len(d)
  BY DEF HasKey, IndexOf
<1> HIDE DEF n
<1>2. Len(d) \in Nat /\ \A i \in 1 .. Len(d) : d[i] \in D
  OBVIOUS
<1>3. \A i \in 1 .. Len(d) - 1 : (IF i < n THEN d[i] ELSE d[i + 1]) \in D
  BY <1>1, <1>2
<1>4. Remaining(d, n) \in [1 .. Len(d) - 1 -> D] /\ Len(d) - 1 \in Nat
  BY <1>1, <1>2, <1>3 DEF Remaining
<1>5. Remaining(d, n) \in Seq(D)
  BY <1>4
<1>6. QED
  BY <1>5 DEF Delete, n

\* What the dictionary has under a key is one of its items.
LEMMA ValueIsItem ==
  ASSUME NEW D, NEW d \in Seq(D), NEW k, HasKey(d, k)
  PROVE  \E i \in DOMAIN d : d[i] \in D /\ d[i].key = k /\ ValueAt(d, k) = d[i].val
<1>1. IndexOf(d, k) \in DOMAIN d /\ d[IndexOf(d, k)].key = k
  BY DEF HasKey, IndexOf
<1>2. QED
  BY <1>1 DEF ValueAt

\* The instance's operators on dictionaries are the reader's.
LEMMA SameDicts ==
  ASSUME NEW d, NEW k, NEW v
  PROVE  /\ Lru!HasKey(d, k) <=> HasKey(d, k)
         /\ Lru!Refresh(d, k, v) = Refresh(d, k, v)
         /\ Lru!Append1(d, k, v) = Append(d, Item(k, v))
         /\ Lru!PopOldest(d) = PopOldest(d)
         /\ Lru!ValueAt(d, k) = ValueAt(d, k)
BY DEF HasKey, Refresh, Append1, PopOldest, Delete, Remaining, IndexOf, Item, ValueAt,
   Lru!HasKey, Lru!Refresh, Lru!Append1, Lru!PopOldest, Lru!Delete, Lru!Remaining, Lru!IndexOf,
   Lru!Item, Lru!ValueAt

\* A put adds its item, and no other.
LEMMA PutKeepsItems ==
  ASSUME NEW D, cache \in Seq(D), NEW k, NEW v, Item(k, v) \in D, Lru!Put(k, v)
  PROVE  cache' \in Seq(D)
<1>1. CASE HasKey(cache, k) /\ cache' = Refresh(cache, k, v)
  <2>1. cache' = Append(Delete(cache, k), Item(k, v))
    BY <1>1 DEF Refresh, Append1
  <2>2. QED
    BY <1>1, <2>1, DeleteKeepsItems
<1>2. CASE ~HasKey(cache, k) /\ cache' = Append(cache, Item(k, v))
  BY <1>2
<1>3. CASE ~HasKey(cache, k) /\ Len(cache) >= CacheSize /\ cache' = Append(PopOldest(cache), Item(k, v))
  <2>1. cache # <<>>
    BY <1>3, CacheSizeAssumption
  <2>2. QED
    BY <1>3, <2>1 DEF PopOldest
<1>4. CASE Lru!PutExisting(k, v)
  BY <1>1, <1>4, SameDicts DEF Lru!PutExisting
<1>5. CASE Lru!PutNew(k, v)
  BY <1>2, <1>5, SameDicts DEF Lru!PutNew
<1>6. CASE Lru!PutEvicting(k, v)
  <2>1. ~HasKey(cache, k) /\ Len(cache) >= CacheSize /\ cache' = Lru!Append1(Lru!PopOldest(cache), k, v)
    BY <1>6, SameDicts DEF Lru!PutEvicting
  <2>2. Lru!Append1(Lru!PopOldest(cache), k, v) = Append(PopOldest(cache), Item(k, v))
    BY SameDicts
  <2>3. QED
    BY <1>3, <2>1, <2>2
<1>7. QED
  BY <1>4, <1>5, <1>6 DEF Lru!Put

\* A read by the running engine finds a block, whole if the list was written by a
\* run that has fetched from the checkpoint.
LEMMA FetchedIsReal ==
  ASSUME FetchInv, Listed, EngineAlone, epc # "off", NEW b \in Block
  PROVE  Fetched(b) \in RealReads /\ Fetched(b).block = b
<1>1. disk[b] \in Content /\ Checkpoint(b) \in {"right", "other"}
  BY DEF FetchInv, FetchTypeOK, Checkpoint
<1>2. PICK c \in Content : c = IF Here(b) THEN disk[b] ELSE Checkpoint(b)
  BY <1>1 DEF Content
<1>3. Fetched(b) = [block |-> b, content |-> c]
  BY <1>2 DEF Fetched
<1>4. ASSUME Here(b), local # {} PROVE b \in manifest /\ manifest \notin {NoFile, TornFile}
  BY <1>4 DEF EngineAlone, Here
<1>5. Published(b[1]) => c # "hole"
  BY <1>1, <1>2, <1>4 DEF Listed, There, Here
<1>6. ASSUME fpc = "done", job.source = "hf", local # {} PROVE c \in {"right", "other"}
  <2>1. CASE Here(b)
    <3>1. b \in Layers \X job.mine
      BY <1>4, <1>6, <2>1 DEF Listed
    <3>2. Sure(b[1])
      BY <1>6 DEF Sure
    <3>3. disk[b] \in {"right", "other"}
      BY <1>6, <3>1, <3>2, FetchInvDone DEF DoneMeansComplete
    <3>4. QED
      BY <1>2, <2>1, <3>3
  <2>2. CASE ~Here(b)
    BY <1>1, <1>2, <2>2
  <2>3. QED
    BY <2>1, <2>2
<1>7. QED
  BY <1>3, <1>5, <1>6 DEF RealReads, Parsed

\* No step of expert-fetch takes a listed block of a published layer away.
LEMMA ListedStep ==
  ASSUME FetchInv, Listed, FetchActs
  PROVE  Listed'
<1>1. disk \in [Block -> Content]
  BY DEF FetchInv, FetchTypeOK
<1> DEFINE Stays == \A b \in Block : There(b) => There(b)'
<1>2. (manifest \in {NoFile, TornFile}) \/ manifest \subseteq Block
  BY DEF FetchInv, FetchTypeOK
<1>3. ASSUME Stays, manifest' = manifest, fpc' = "done" => fpc = "done" /\ job' = job PROVE Listed'
  <2>1. ASSUME manifest \notin {NoFile, TornFile}, NEW b \in manifest PROVE There(b)'
    BY <1>2, <1>3, <2>1 DEF Listed
  <2>2. QED
    BY <1>3, <2>1 DEF Listed
<1>a. Stays <=> \A b \in Block : b[1] \in sized /\ (Published(b[1]) => disk[b] # "hole")
                    => b[1] \in sized' /\ (Published(b[1]) => disk'[b] # "hole")
  BY DEF There, Published
<1> HIDE DEF Stays
<1>4. ASSUME NEW c \in Answer, todo # {}, Acceptable(Current, c), Write(c), sized' = sized,
             job.source = "peers" \/ c \in {"right", "other"}
      PROVE  Stays
  <2>1. CASE c \in {"right", "other"}
    <3>1. disk' = [disk EXCEPT ![Current] = c]
      BY <1>4, <2>1 DEF Write
    <3>2. QED
      BY <1>1, <1>4, <1>a, <2>1, <3>1, CurrentIsToCome
  <2>2. CASE c \in {"short", "long"}
    <3>1. Current \notin Hashed /\ Current \in Block /\ Current[1] = layer
      BY <1>4, <2>2, CurrentIsToCome DEF Acceptable, FetchInv, JobKnown
    <3>2. ~Published(layer)
      BY <3>1 DEF Published, Block
    <3>3. \A b \in Block : b[1] # layer => disk'[b] = disk[b]
      BY <1>4, <2>2, LooseWrite
    <3>4. QED
      BY <1>4, <1>a, <3>2, <3>3
  <2>3. QED
    BY <2>1, <2>2 DEF Answer
<1>5. ASSUME disk' = disk, sized' = sized PROVE Stays
  BY <1>5, <1>a
<1>6. CASE OpenLayer
  <2>1. ASSUME NEW b \in Block, b[1] \in sized, Published(b[1]), disk[b] # "hole" PROVE disk'[b] # "hole"
    <3>1. b[1] \in sized \ grown
      BY <2>1 DEF FetchInv, GrownUnpublished
    <3>2. QED
      BY <1>6, <2>1, <3>1 DEF OpenLayer, Kept
  <2>2. Stays
    BY <1>6, <1>a, <2>1 DEF OpenLayer
  <2>3. QED
    BY <1>3, <1>6, <2>2 DEF OpenLayer
<1>7. ASSUME NEW answers \in SUBSET Answer, Probe(answers) PROVE Listed'
  <2>1. todo # {} /\ job.source = "peers"
    BY <1>7 DEF Probe, FetchInv, ToCome, JobKnown
  <2>2. CASE UNCHANGED <<grown, disk, todo>>
    BY <1>3, <1>5, <1>7, <2>2 DEF Probe
  <2>3. CASE \E c \in {x \in answers : Acceptable(Current, x)} : Write(c)
    <3>1. Stays
      BY <1>4, <1>7, <2>1, <2>3 DEF Probe
    <3>2. QED
      BY <1>3, <1>7, <3>1 DEF Probe
  <2>4. QED
    BY <1>7, <2>2, <2>3 DEF Probe
<1>8. ASSUME NEW c \in Answer, Land(c), job.source = "peers" \/ c \in {"right", "other"} PROVE Listed'
  <2>1. Stays
    BY <1>4, <1>8 DEF Land
  <2>2. QED
    BY <1>3, <1>8, <2>1 DEF Land
<1>9. ASSUME NEW tears \in BOOLEAN, Kill(tears) PROVE Listed'
  <2>1. Stays
    <3>1. ASSUME tears, Tearable PROVE disk' = [disk EXCEPT ![Current] = "torn"] /\ todo # {}
      BY <1>9, <3>1 DEF Kill, Tearable
    <3>2. ~(tears /\ Tearable) => disk' = disk
      BY <1>9 DEF Kill
    <3>3. sized' = sized
      BY <1>9 DEF Kill
    <3>4. CASE tears /\ Tearable
      BY <1>1, <1>a, <3>1, <3>3, <3>4, CurrentIsToCome
    <3>5. CASE ~(tears /\ Tearable)
      BY <1>5, <3>2, <3>3, <3>5
    <3>6. QED
      BY <3>4, <3>5
  <2>2. CASE manifest' = manifest
    BY <1>3, <1>9, <2>1, <2>2 DEF Kill
  <2>3. CASE manifest' = TornFile
    BY <1>9, <2>3 DEF Kill, Listed
  <2>4. QED
    BY <1>9, <2>2, <2>3 DEF Kill
<1>10. CASE Finish
  <2>1. CASE job.source = "hf"
    <3>1. FetchInv' => DoneMeansComplete'
      BY FetchInvDone, PTL
    <3>2. DoneMeansComplete' /\ fpc' = "done" /\ job' = job
      BY <1>10, <3>1, FetchStepInv DEF Finish
    <3>3. \A l \in Layers : Sure(l)'
      BY <2>1, <3>2 DEF Sure
    <3>4. ASSUME NEW b \in Layers \X job.mine PROVE There(b)'
      <4>1. b \in Layers \X job'.mine /\ b[1] \in Layers
        BY <3>2
      <4>2. b[1] \in sized' /\ disk'[b] \in {"right", "other"}
        BY <3>2, <3>3, <4>1 DEF DoneMeansComplete
      <4>3. QED
        BY <4>2 DEF There
    <3>5. QED
      BY <1>10, <2>1, <3>2, <3>4 DEF Finish, Listed
  <2>2. CASE job.source # "hf"
    <3>1. Stays
      BY <1>5, <1>10 DEF Finish
    <3>2. ASSUME manifest \notin {NoFile, TornFile}, NEW b \in manifest PROVE There(b)'
      BY <1>2, <1>a, <3>1, <3>2 DEF Listed, There, Stays
    <3>3. QED
      BY <1>10, <2>2, <3>2 DEF Finish, Listed
  <2>3. QED
    BY <2>1, <2>2
<1>11. CASE \E mine \in Slices, peers \in SUBSET Ids : FetchFromPeers(mine, peers)
  BY <1>3, <1>5, <1>11 DEF FetchFromPeers, Begin, files
<1>12. CASE \E roster \in SUBSET Ids, me \in Ids, want \in {{}, Hashed} : FetchFromHF(roster, me, want)
  BY <1>3, <1>5, <1>12 DEF FetchFromHF, Begin, files
<1>13. CASE Unavailable \/ NextLayer
  BY <1>3, <1>5, <1>13 DEF Unavailable, NextLayer, files
<1>14. QED
  BY <1>6, <1>7, <1>8, <1>9, <1>10, <1>11, <1>12, <1>13 DEF FetchActs

\* One more expert is read.
LEMMA ReadOneMore ==
  ASSUME NEW out, NEW l, NEW S, NEW e, NEW x, Read(out, l, S), x.block = <<l, e>>
  PROVE  Read(out \cup {x}, l, S \cup {e})
<1>1. \A y : y \in {z.block : z \in out} <=> y \in {<<l, f>> : f \in S}
  BY DEF Read
<1>2. \A y : y \in {z.block : z \in out \cup {x}} <=> y \in {<<l, f>> : f \in S \cup {e}}
  BY <1>1
<1>3. QED
  BY <1>2 DEF Read

\* While the files rest, what is real stays real.
LEMMA SameRealReads ==
  ASSUME UNCHANGED fetchVars, local' = local
  PROVE  RealReads' = RealReads /\ RealItems' = RealItems
BY DEF fetchVars, RealReads, RealItems

LEMMA InitEngineInv == EngineOff => EngineInv
<1> SUFFICES ASSUME EngineOff PROVE EngineInv
  OBVIOUS
<1>1. cache = <<>> /\ 0 \in Layers
  BY LayersAssumption DEF EngineOff, Lru!LruInit, Layers
<1>2. EngineAlone
  BY <1>1 DEF EngineOff, EngineAlone
<1>3. CallKnows /\ call \in CallType
  BY <1>1 DEF EngineOff, NoCall, CallKnows, CallType
<1>4. QED
  BY <1>1, <1>2, <1>3 DEF EngineInv

\* The engine starts on files at rest, and ends.
LEMMA StartEndInv ==
  ASSUME Listed, EngineInv, UNCHANGED fetchVars, EngineStart \/ EngineEnds
  PROVE  EngineInv'
<1>1. call' = NoCall /\ cache' = <<>>
  BY DEF EngineStart, EngineEnds, EngineInv, EngineAlone, CallKnows
<1>2. 0 \in Layers
  BY LayersAssumption DEF Layers
<1>3. EngineAlone'
  <2>1. CASE EngineStart
    BY <2>1 DEF EngineStart, EngineInv, EngineAlone, fetchVars, Resting
  <2>2. CASE EngineEnds
    BY <2>2, <1>1 DEF EngineEnds, EngineAlone
  <2>3. QED
    BY <2>1, <2>2
<1>4. epc' \in {"idle", "off"}
  BY DEF EngineStart, EngineEnds
<1>5. CallKnows' /\ (call \in CallType)'
  BY <1>1, <1>2, <1>4 DEF NoCall, CallKnows, CallType
<1>6. QED
  BY <1>1, <1>3, <1>5 DEF EngineInv

\* A step of the running engine keeps its list and the files.
LEMMA AloneStep ==
  ASSUME EngineInv, UNCHANGED fetchVars, local' = local, epc # "off",
         epc' \in {"idle", "lookup", "await", "leftover"}, prefetched' \in [Layers -> SUBSET Experts]
  PROVE  /\ EngineAlone' /\ RealReads' = RealReads /\ RealItems' = RealItems
         /\ CallType' = CallType
<1>1. RealReads' = RealReads /\ RealItems' = RealItems
  BY SameRealReads
<1>2. CallType' = CallType
  BY <1>1 DEF CallType
<1>3. QED
  BY <1>1, <1>2 DEF EngineInv, EngineAlone, fetchVars, Resting

\* A step from one call to the next, or to none.
LEMMA PrefetchInv ==
  ASSUME EngineInv, UNCHANGED fetchVars, ResetPrefetch \/ \E l \in Layers, ids \in IdSets : Prefetch(l, ids)
  PROVE  EngineInv'
<1>1. prefetched' \in [Layers -> SUBSET Experts]
  BY IdSetsAssumption DEF ResetPrefetch, Prefetch, EngineInv, EngineAlone
<1>2. UNCHANGED <<epc, local, cache, call>> /\ epc = "idle"
  BY DEF ResetPrefetch, Prefetch
<1>3. EngineAlone' /\ RealReads' = RealReads /\ RealItems' = RealItems /\ CallType' = CallType
  BY <1>1, <1>2, AloneStep
<1>4. CallKnows'
  BY <1>2 DEF EngineInv, CallKnows
<1>5. QED
  BY <1>2, <1>3, <1>4 DEF EngineInv

LEMMA GetInv ==
  ASSUME EngineInv, UNCHANGED fetchVars, NEW l \in Layers, NEW ids \in IdSets, Get(l, ids)
  PROVE  EngineInv'
<1>1. prefetched' \in [Layers -> SUBSET Experts] /\ prefetched[l] \subseteq Experts /\ ids \subseteq Experts
  BY IdSetsAssumption DEF Get, EngineInv, EngineAlone
<1>2. EngineAlone' /\ RealReads' = RealReads /\ RealItems' = RealItems /\ CallType' = CallType
  BY <1>1, AloneStep DEF Get
<1>3. PICK F \in SUBSET Experts : F = prefetched[l]
  BY <1>1
<1>4. call' = [layer |-> l, todo |-> ids, futs |-> F, pending |-> {}, asked |-> ids, out |-> {}]
  BY <1>3 DEF Get, NoCall
<1>5. call' \in CallType
  BY <1>1, <1>4 DEF CallType
<1>6. Read(call'.out, call'.layer, call'.asked \ (call'.todo \cup call'.pending))
  BY <1>4 DEF Read
<1>7. CallKnows'
  <2>1. call'.pending = {} /\ call'.todo = ids /\ call'.asked = ids
    BY <1>4
  <2>2. epc' = "lookup"
    BY DEF Get
  <2>3. QED
    BY <1>6, <2>1, <2>2 DEF CallKnows
<1>8. QED
  BY <1>2, <1>5, <1>7 DEF EngineInv, Get

\* A hit hands out what the cache has under the key, which is the key's block.
LEMMA LookupHitInv ==
  ASSUME EngineInv, UNCHANGED fetchVars, epc = "lookup", NEW e, e = NextOf(call.todo), call.todo # {},
         Lru!GetHit(CallKey(e)), UNCHANGED <<epc, local, prefetched>>,
         call' = [call EXCEPT !.todo = @ \ {e}, !.out = @ \cup {ValueAt(cache, CallKey(e))}]
  PROVE  EngineInv'
<1>1. EngineAlone' /\ RealReads' = RealReads /\ RealItems' = RealItems /\ CallType' = CallType
  BY AloneStep DEF EngineInv, EngineAlone
<1>2. e \in call.todo /\ e \in call.asked /\ e \notin call.pending
  <2>1. call.todo \subseteq Experts
    BY DEF EngineInv, CallType
  <2>2. QED
    BY <2>1, NextIsOne DEF EngineInv, CallKnows
<1>3. HasKey(cache, CallKey(e)) /\ cache' = Refresh(cache, CallKey(e), ValueAt(cache, CallKey(e)))
  BY SameDicts DEF Lru!GetHit
<1>4. cache \in Seq(RealItems)
  BY DEF EngineInv
<1>5. PICK i \in DOMAIN cache : /\ cache[i] \in RealItems /\ cache[i].key = CallKey(e)
                                /\ ValueAt(cache, CallKey(e)) = cache[i].val
  BY <1>3, <1>4, ValueIsItem
<1>6. PICK x \in RealReads : cache[i] = Item(x.block, x)
  BY <1>5 DEF RealItems
<1>7. x.block = CallKey(e) /\ ValueAt(cache, CallKey(e)) = x
  BY <1>5, <1>6 DEF Item
<1>8. cache' \in Seq(RealItems)
  <2>1. cache' = Append(Delete(cache, CallKey(e)), cache[i])
    BY <1>3, <1>6, <1>7 DEF Refresh, Append1
  <2>2. QED
    BY <1>3, <1>4, <1>5, <2>1, DeleteKeepsItems
<1>9. CallKnows' /\ call' \in CallType
  <2>1. call' = [call EXCEPT !.todo = @ \ {e}, !.out = @ \cup {x}]
    BY <1>7
  <2>2. Read(call.out \cup {x}, call.layer, (call.asked \ (call.todo \cup call.pending)) \cup {e})
    BY <1>7, ReadOneMore DEF EngineInv, CallKnows, CallKey
  <2>3. (call.asked \ (call.todo \cup call.pending)) \cup {e}
          = call.asked \ ((call.todo \ {e}) \cup call.pending)
    BY <1>2
  <2>4. call \in CallType
    BY DEF EngineInv
  <2>5. call' \in CallType
    <3>1. call.todo \ {e} \in SUBSET Experts /\ call.out \cup {x} \in SUBSET RealReads
      BY <2>4 DEF CallType
    <3>2. QED
      BY <2>1, <2>4, <3>1 DEF CallType
  <2>6. Read(call'.out, call'.layer, call'.asked \ (call'.todo \cup call'.pending))
    BY <2>1, <2>2, <2>3, <2>4 DEF CallType
  <2>7. QED
    BY <1>2, <2>1, <2>4, <2>5, <2>6 DEF EngineInv, CallKnows, CallType
<1>10. QED
  BY <1>1, <1>8, <1>9 DEF EngineInv

\* A miss leaves the expert to be read.
LEMMA LookupMissInv ==
  ASSUME EngineInv, UNCHANGED fetchVars, epc = "lookup", NEW e, e = NextOf(call.todo), call.todo # {},
         UNCHANGED <<epc, local, prefetched, cache>>,
         call' = [call EXCEPT !.todo = @ \ {e}, !.pending = @ \cup {e}]
  PROVE  EngineInv'
<1>1. EngineAlone' /\ RealReads' = RealReads /\ RealItems' = RealItems /\ CallType' = CallType
  BY AloneStep DEF EngineInv, EngineAlone
<1>2. call \in CallType
  BY DEF EngineInv
<1>3. e \in call.todo /\ e \in call.asked /\ call.todo \subseteq call.asked
  BY <1>2, NextIsOne DEF EngineInv, CallKnows, CallType
<1>4. (call.todo \ {e}) \cup (call.pending \cup {e}) = call.todo \cup call.pending
  BY <1>3
<1>5. call' \in CallType
  <2>1. call.todo \ {e} \in SUBSET Experts /\ call.pending \cup {e} \in SUBSET Experts
    BY <1>2, <1>3 DEF CallType
  <2>2. QED
    BY <1>2, <2>1 DEF CallType
<1>6. Read(call'.out, call'.layer, call'.asked \ (call'.todo \cup call'.pending))
  BY <1>2, <1>4 DEF EngineInv, CallKnows, CallType
<1>7. CallKnows'
  <2>1. /\ call'.todo = call.todo \ {e} /\ call'.pending = call.pending \cup {e}
        /\ call'.asked = call.asked
    BY <1>2 DEF CallType
  <2>2. call'.pending \subseteq call'.asked /\ call'.todo \subseteq call'.asked \ call'.pending
    BY <1>3, <2>1 DEF EngineInv, CallKnows
  <2>3. QED
    BY <1>6, <2>2 DEF CallKnows
<1>8. QED
  BY <1>1, <1>5, <1>7 DEF EngineInv

LEMMA LookupInv ==
  ASSUME EngineInv, UNCHANGED fetchVars, Lookup
  PROVE  EngineInv'
<1> DEFINE e == NextOf(call.todo)
<1>1. CASE /\ Lru!GetHit(CallKey(e))
           /\ call' = [call EXCEPT !.todo = @ \ {e}, !.out = @ \cup {ValueAt(cache, CallKey(e))}]
  <2>1. PICK f : f = e
    OBVIOUS
  <2>2. QED
    BY <1>1, <2>1, LookupHitInv DEF Lookup
<1>2. CASE /\ call' = [call EXCEPT !.todo = @ \ {e}, !.pending = @ \cup {e}]
           /\ UNCHANGED <<cache, byLayer>>
  <2>1. PICK f : f = e
    OBVIOUS
  <2>2. QED
    BY <1>2, <2>1, LookupMissInv DEF Lookup
<1>3. QED
  BY <1>1, <1>2 DEF Lookup

\* The awaits begin with all the misses, and the leftovers with what was prefetched
\* and not asked for.
LEMMA AwaitsInv ==
  ASSUME EngineInv, UNCHANGED fetchVars, Awaits
  PROVE  EngineInv'
<1>1. EngineAlone' /\ RealReads' = RealReads /\ RealItems' = RealItems /\ CallType' = CallType
  BY AloneStep DEF Awaits, EngineInv, EngineAlone
<1>2. call \in CallType /\ call' = [call EXCEPT !.todo = call.pending]
  BY DEF EngineInv, Awaits
<1>3. call' \in CallType /\ call'.out = call.out /\ call'.layer = call.layer
  BY <1>2 DEF CallType
<1>4. call'.todo = call.pending /\ call'.asked = call.asked /\ call'.pending = call.pending
  BY <1>2 DEF CallType
<1>5. Read(call'.out, call'.layer, call'.asked \ call'.todo) /\ call'.pending \subseteq call'.asked
  <2>1. call.todo \cup call.pending = call.pending
    BY DEF Awaits
  <2>2. QED
    BY <1>3, <1>4, <2>1 DEF EngineInv, CallKnows, Awaits
<1>6. CallKnows'
  BY <1>4, <1>5 DEF CallKnows, Awaits
<1>7. QED
  BY <1>1, <1>3, <1>6 DEF EngineInv, Awaits

LEMMA LeftoversInv ==
  ASSUME EngineInv, UNCHANGED fetchVars, Leftovers
  PROVE  EngineInv'
<1>1. EngineAlone' /\ RealReads' = RealReads /\ RealItems' = RealItems /\ CallType' = CallType
  BY AloneStep DEF Leftovers, EngineInv, EngineAlone
<1>2. call \in CallType /\ call' = [call EXCEPT !.todo = call.futs \ call.pending]
  BY DEF EngineInv, Leftovers
<1>3. call' \in CallType /\ call'.out = call.out /\ call'.layer = call.layer
  BY <1>2 DEF CallType
<1>4. call'.asked = call.asked /\ call'.pending = call.pending
  BY <1>2 DEF CallType
<1>5. Read(call'.out, call'.layer, call'.asked) /\ call'.pending \subseteq call'.asked
  <2>1. call.asked \ call.todo = call.asked
    BY DEF Leftovers
  <2>2. QED
    BY <1>3, <1>4, <2>1 DEF EngineInv, CallKnows, Leftovers
<1>6. CallKnows'
  BY <1>5 DEF CallKnows, Leftovers
<1>7. QED
  BY <1>1, <1>3, <1>6 DEF EngineInv, Leftovers

\* A call that ends, or raises, leaves nothing.
LEMMA CallEndsInv ==
  ASSUME EngineInv, UNCHANGED fetchVars, AwaitFails \/ Return
  PROVE  EngineInv'
<1>1. EngineAlone' /\ RealReads' = RealReads /\ RealItems' = RealItems /\ CallType' = CallType
  BY AloneStep DEF AwaitFails, Return, EngineInv, EngineAlone
<1>2. 0 \in Layers
  BY LayersAssumption DEF Layers
<1>3. epc' = "idle" /\ call' = NoCall /\ cache' = cache
  BY DEF AwaitFails, Return
<1>4. call' \in CallType /\ CallKnows'
  BY <1>2, <1>3 DEF NoCall, CallType, CallKnows
<1>5. QED
  BY <1>1, <1>3, <1>4 DEF EngineInv

\* A block that was read is what was asked for, and enters the cache under its key.
LEMMA KeepsRead ==
  ASSUME FetchInv, Listed, EngineInv, epc # "off", NEW e \in Experts,
         Lru!Put(CallKey(e), Fetched(CallKey(e)))
  PROVE  /\ cache' \in Seq(RealItems)
         /\ Fetched(CallKey(e)) \in RealReads /\ Fetched(CallKey(e)).block = CallKey(e)
<1>1. CallKey(e) \in Block
  BY DEF CallKey, Block, EngineInv, CallType
<1>2. Fetched(CallKey(e)) \in RealReads /\ Fetched(CallKey(e)).block = CallKey(e)
  BY <1>1, FetchedIsReal DEF EngineInv
<1>3. Item(CallKey(e), Fetched(CallKey(e))) \in RealItems
  BY <1>2 DEF RealItems
<1>4. QED
  BY <1>2, <1>3, PutKeepsItems DEF EngineInv

LEMMA AwaitInv ==
  ASSUME FetchInv, Listed, EngineInv, UNCHANGED fetchVars, Await
  PROVE  EngineInv'
<1>1. EngineAlone' /\ RealReads' = RealReads /\ RealItems' = RealItems /\ CallType' = CallType
  BY AloneStep DEF Await, EngineInv, EngineAlone
<1>2. call \in CallType
  BY DEF EngineInv
<1>3. PICK e : e = NextOf(call.todo)
  OBVIOUS
<1>4. e \in call.todo /\ e \in call.asked /\ e \in Experts
  BY <1>2, <1>3, NextIsOne DEF Await, EngineInv, CallKnows, CallType
<1>5. PICK x : x = Fetched(CallKey(e))
  OBVIOUS
<1>6. cache' \in Seq(RealItems) /\ x \in RealReads /\ x.block = CallKey(e)
  BY <1>3, <1>4, <1>5, KeepsRead DEF Await
<1>7. call' = [call EXCEPT !.todo = @ \ {e}, !.out = @ \cup {x}]
  BY <1>3, <1>5 DEF Await
<1>8. call' \in CallType
  <2>1. call.todo \ {e} \in SUBSET Experts /\ call.out \cup {x} \in SUBSET RealReads
    BY <1>2, <1>6 DEF CallType
  <2>2. QED
    BY <1>2, <1>7, <2>1 DEF CallType
<1>9. /\ call'.todo = call.todo \ {e} /\ call'.asked = call.asked /\ call'.pending = call.pending
      /\ call'.out = call.out \cup {x} /\ call'.layer = call.layer
  BY <1>2, <1>7 DEF CallType
<1>10. Read(call.out \cup {x}, call.layer, (call.asked \ call.todo) \cup {e})
  BY <1>6, ReadOneMore DEF Await, EngineInv, CallKnows, CallKey
<1>11. (call.asked \ call.todo) \cup {e} = call.asked \ (call.todo \ {e})
  BY <1>4
<1>12. CallKnows'
  BY <1>9, <1>10, <1>11 DEF CallKnows, EngineInv, Await
<1>13. QED
  BY <1>1, <1>6, <1>8, <1>12 DEF EngineInv

\* What is kept or dropped of the leftovers changes nothing of what was read.
LEMMA LeftoverInv ==
  ASSUME FetchInv, Listed, EngineInv, UNCHANGED fetchVars, NEW e \in Experts,
         KeepLeftover(e) \/ DropLeftover(e)
  PROVE  EngineInv'
<1>1. EngineAlone' /\ RealReads' = RealReads /\ RealItems' = RealItems /\ CallType' = CallType
  BY AloneStep DEF KeepLeftover, DropLeftover, EngineInv, EngineAlone
<1>2. call \in CallType /\ call' = [call EXCEPT !.todo = @ \ {e}]
  BY DEF EngineInv, KeepLeftover, DropLeftover
<1>3. call' \in CallType /\ call'.out = call.out /\ call'.layer = call.layer
  BY <1>2 DEF CallType
<1>4. call'.asked = call.asked /\ call'.pending = call.pending
  BY <1>2 DEF CallType
<1>5. CallKnows'
  BY <1>3, <1>4 DEF CallKnows, EngineInv, KeepLeftover, DropLeftover
<1>6. cache' \in Seq(RealItems)
  BY KeepsRead DEF KeepLeftover, DropLeftover, EngineInv
<1>7. QED
  BY <1>1, <1>3, <1>5, <1>6 DEF EngineInv

LEMMA EngineStepInv ==
  ASSUME FetchInv, Listed, EngineInv, EngineNext, UNCHANGED fetchVars
  PROVE  EngineInv'
<1>1. CASE EngineStart \/ EngineEnds
  BY <1>1, StartEndInv
<1>2. CASE ResetPrefetch \/ \E l \in Layers, ids \in IdSets : Prefetch(l, ids)
  BY <1>2, PrefetchInv
<1>3. CASE \E l \in Layers, ids \in IdSets : Get(l, ids)
  BY <1>3, GetInv
<1>4. CASE Lookup \/ Awaits \/ Await
  BY <1>4, LookupInv, AwaitsInv, AwaitInv
<1>5. CASE AwaitFails \/ Leftovers \/ Return
  BY <1>5, CallEndsInv, LeftoversInv
<1>6. CASE \E e \in Experts : KeepLeftover(e) \/ DropLeftover(e)
  BY <1>6, LeftoverInv
<1>7. QED
  BY <1>1, <1>2, <1>3, <1>4, <1>5, <1>6 DEF EngineNext

\* The engine is off while the files change.
LEMMA FetchLeavesEngine ==
  ASSUME EngineInv, UNCHANGED engineVars, UNCHANGED fetchVars \/ epc = "off"
  PROVE  EngineInv'
<1>1. UNCHANGED <<epc, local, cache, call, prefetched>>
  BY DEF engineVars
<1>2. CASE UNCHANGED fetchVars
  <2>1. RealReads' = RealReads /\ RealItems' = RealItems
    BY <1>1, <1>2, SameRealReads
  <2>2. CallType' = CallType
    BY <2>1 DEF CallType
  <2>3. QED
    BY <1>1, <1>2, <2>1, <2>2 DEF EngineInv, EngineAlone, CallKnows, fetchVars, Resting
<1>3. CASE epc = "off"
  <2>1. EngineAlone' /\ CallKnows'
    BY <1>1, <1>3 DEF EngineInv, EngineAlone, CallKnows
  <2>2. 0 \in Layers /\ call' = NoCall /\ cache' = <<>>
    BY <1>1, <1>3, LayersAssumption DEF EngineInv, EngineAlone, CallKnows, Layers
  <2>3. (call \in CallType)'
    BY <2>2 DEF NoCall, CallType
  <2>4. QED
    BY <2>1, <2>2, <2>3 DEF EngineInv
<1>4. QED
  BY <1>2, <1>3

\* A step of the composition is the engine's, on files at rest, or leaves the
\* engine alone, which is off when it is one of expert-fetch.
LEMMA SliceStepEngine ==
  ASSUME [SliceNext]_sliceVars, EngineInv
  PROVE  \/ EngineNext /\ UNCHANGED fetchVars
         \/ UNCHANGED engineVars /\ (UNCHANGED fetchVars \/ epc = "off")
<1>1. CASE FetchProcess
  <2>1. Resting => epc = "off" \/ AskFetch
    BY <1>1 DEF FetchProcess, PeersAnswer, FetchStep, Probe, Land, Unavailable, OpenLayer, LandFromHF,
       FailFromHF, NextLayer, Finish, Kill, Resting
  <2>2. epc = "off"
    BY <2>1 DEF AskFetch, EngineInv, EngineAlone
  <2>3. QED
    BY <1>1, <2>2 DEF FetchProcess
<1>2. CASE EngineProcess
  BY <1>2 DEF EngineProcess
<1>3. CASE RowsProcess \/ DownloadsProcess \/ UNCHANGED sliceVars
  BY <1>3 DEF RowsProcess, DownloadsProcess, sliceVars
<1>4. QED
  BY <1>1, <1>2, <1>3 DEF SliceNext

SliceInv == FetchInv /\ Listed /\ EngineInv

\* What expert-fetch, its files and the engine keep true together.
THEOREM SliceInvariant == SliceSpec => []SliceInv
<1>1. SliceInit => SliceInv
  BY InitFetchInv, InitEngineInv DEF SliceInit, SliceInv, Listed, FetchInit
<1>2. SliceInv /\ [SliceNext]_sliceVars => SliceInv'
  <2>1. SUFFICES ASSUME SliceInv, [SliceNext]_sliceVars PROVE SliceInv'
    OBVIOUS
  <2>2. FetchInv'
    BY <2>1, SliceStepFetches, FetchStepInv, FetchStutterInv DEF SliceInv
  <2>3. Listed'
    <3>1. CASE FetchActs
      BY <2>1, <3>1, ListedStep DEF SliceInv
    <3>2. CASE UNCHANGED fetchVars
      BY <2>1, <3>2 DEF SliceInv, Listed, There, fetchVars
    <3>3. QED
      BY <2>1, <3>1, <3>2, SliceStepFetches
  <2>4. EngineInv'
    BY <2>1, SliceStepEngine, EngineStepInv, FetchLeavesEngine DEF SliceInv
  <2>5. QED
    BY <2>2, <2>3, <2>4 DEF SliceInv
<1>3. QED
  BY <1>1, <1>2, PTL DEF SliceSpec

\* What the engine keeps or hands out was really on disk, or in the checkpoint: no
\* hole, and nothing torn after a run that listed what it fetched.
THEOREM EngineReadsWell == SliceSpec => []EngineReadsBlocks
<1>1. SliceInv => EngineReadsBlocks
  <2>1. SUFFICES ASSUME SliceInv, NEW x \in {cache[i].val : i \in DOMAIN cache} \cup call.out
                 PROVE  x \in RealReads
    BY <2>1 DEF EngineReadsBlocks, RealReads
  <2>2. CASE x \in call.out
    BY <2>1, <2>2 DEF SliceInv, EngineInv, CallType
  <2>3. ASSUME NEW i \in DOMAIN cache, x = cache[i].val PROVE x \in RealReads
    <3>1. cache[i] \in RealItems
      BY <2>1 DEF SliceInv, EngineInv
    <3>2. QED
      BY <2>3, <3>1 DEF RealItems, Item
  <2>4. QED
    BY <2>2, <2>3
<1>2. QED
  BY <1>1, SliceInvariant, PTL

\* A call of the engine's reader that returns has what it was asked for.
THEOREM EngineReturnsAllAsked == SliceSpec => []ReturnsWhatWasAsked
<1>1. SliceInv => ReturnsWhatWasAsked
  BY DEF SliceInv, EngineInv, CallKnows, Read, ReturnsWhatWasAsked
<1>2. QED
  BY <1>1, SliceInvariant, PTL

-----------------------------------------------------------------------------
(* The n-gram rows.                                                        *)

RowBytes(r) == [k \in Kinds |-> <<r>>]

\* The caches that map rows of the table to their own bytes.
RowItems == {Item(r, RowBytes(r)) : r \in 0 .. TableRows - 1}
RowDicts == {d \in Seq(RowItems) : UniqueKeys(d) /\ Len(d) <= MaxRows}

RowsInv ==
  /\ rowCache \in RowDicts
  /\ rows.answer = [i \in DOMAIN rows.ids |-> RowBytes(rows.ids[i])]

\* A set of numbers that holds 0, and each number of 1 .. n after the one before,
\* holds them all.
LEMMA UpTo ==
  ASSUME NEW n \in Nat, NEW G, 0 \in G, \A i \in 1 .. n : i - 1 \in G => i \in G
  PROVE  0 .. n \subseteq G
<1> DEFINE D == {i \in 0 .. n : i \notin G}
<1>1. SUFFICES ASSUME D # {} PROVE FALSE
  OBVIOUS
<1>2. D \subseteq Nat
  OBVIOUS
<1>3. PICK d \in D : \A y \in D : ~(<<y, d>> \in OpToRel(<, Nat))
  BY <1>1, <1>2, NatLessThanWellFounded, WFMin
<1>4. d \in 1 .. n /\ d \notin G
  OBVIOUS
<1>5. d - 1 \in G
  <2>1. SUFFICES ASSUME d - 1 \notin G PROVE FALSE
    OBVIOUS
  <2>2. d - 1 \in D /\ d - 1 < d /\ d - 1 \in Nat /\ d \in Nat
    BY <1>4, <2>1
  <2> HIDE DEF D
  <2>3. QED
    BY <1>3, <2>2 DEF OpToRel
<1>6. QED
  BY <1>4, <1>5

\* A set of row numbers with a member has a last one.
LEMMA LastExists ==
  ASSUME NEW S, S \subseteq 0 .. TableRows - 1, S # {}
  PROVE  LastOf(S) \in S /\ \A y \in S : y <= LastOf(S)
<1> DEFINE B == {b \in Nat : \A y \in S : y <= b}
<1>1. S \subseteq Nat /\ TableRows \in Nat
  BY RowsAssumption
<1>2. TableRows \in B
  BY <1>1
<1>3. PICK b \in B : \A y \in B : ~(<<y, b>> \in OpToRel(<, Nat))
  BY <1>2, NatLessThanWellFounded, WFMin
<1>4. \A y \in B : ~(y < b)
  BY <1>3 DEF OpToRel
<1>5. b \in S
  <2>1. SUFFICES ASSUME b \notin S PROVE FALSE
    OBVIOUS
  <2>2. PICK x \in S : TRUE
    OBVIOUS
  <2>3. \A y \in S : y < b
    BY <1>1, <2>1
  <2>4. b \in Nat /\ b # 0
    BY <1>1, <2>2, <2>3
  <2>5. b - 1 \in B /\ b - 1 < b
    BY <1>1, <2>3, <2>4
  <2>6. QED
    BY <1>4, <2>5
<1>6. \E x \in S : \A y \in S : y <= x
  BY <1>5
<1>7. QED
  BY <1>6 DEF LastOf

\* A row of S falls into the range of the last opener before it, and that range
\* goes on to it: what is cut out is the row.
LEMMA CutOutIsRow ==
  ASSUME NEW S, S \subseteq 0 .. TableRows - 1, NEW gap \in Nat, NEW r \in S
  PROVE  CutOut(S, gap, r) = <<r>>
<1> DEFINE before == {c \in Openers(S, gap) : c <= r}
           a == LastOf(before)
           range == {b \in S : b >= a /\ \A c \in Openers(S, gap) : c <= a \/ c > b}
<1>1. S \subseteq Nat /\ r \in Nat /\ Openers(S, gap) \subseteq S
  BY RowsAssumption DEF Openers
<1>2. PICK least \in S : \A y \in S : ~(<<y, least>> \in OpToRel(<, Nat))
  BY <1>1, NatLessThanWellFounded, WFMin
<1>3. \A y \in S : ~(y < least)
  BY <1>1, <1>2 DEF OpToRel
<1>4. least \in before
  BY <1>1, <1>3 DEF Openers
<1>5. before \subseteq 0 .. TableRows - 1 /\ before # {}
  BY <1>1, <1>4
<1>6. a \in before /\ \A y \in before : y <= a
  BY <1>5, LastExists
<1>7. a \in S /\ a <= r /\ a \in Nat
  BY <1>1, <1>6
<1>8. ASSUME NEW c \in Openers(S, gap) PROVE c <= a \/ c > r
  <2>1. c \in Nat
    BY <1>1
  <2>2. CASE c <= r
    BY <1>6, <2>2
  <2>3. QED
    BY <1>1, <2>1, <2>2
<1> HIDE DEF a
<1>9. r \in range
  BY <1>7, <1>8
<1>10. range \subseteq 0 .. TableRows - 1
  OBVIOUS
<1>11. r <= LastOf(range) /\ LastOf(range) \in Nat
  BY <1>1, <1>9, <1>10, LastExists
<1>12. EndOf(S, gap, a) = LastOf(range)
  BY DEF EndOf
<1> HIDE DEF range
<1>13. PICK e \in Nat : e = EndOf(S, gap, a) /\ r <= e
  BY <1>11, <1>12
<1> DEFINE blob == [i \in 0 .. e - a |-> a + i]
<1>14. r - a \in 0 .. e - a /\ blob[r - a] = r
  BY <1>1, <1>7, <1>13
<1>15. CutOut(S, gap, r) = IF r - a \in DOMAIN blob THEN <<blob[r - a]>> ELSE <<>>
  BY <1>13 DEF CutOut, a
<1>16. QED
  BY <1>14, <1>15

\* Both sources give every row of S in every kind.
LEMMA ReadsAreRows ==
  ASSUME NEW S, S \subseteq 0 .. TableRows - 1, NEW r \in S, NEW k \in Kinds
  PROVE  ReadFiles(S)[k][r] = <<r>> /\ ReadRanges(S)[k][r] = <<r>>
<1>1. Gaps[k] \in Nat
  BY RowsAssumption
<1>2. CutOut(S, Gaps[k], r) = <<r>>
  BY <1>1, CutOutIsRow
<1>3. QED
  BY <1>2 DEF ReadFiles, ReadRanges

\* A sweep of gets over the rows, unfolded: the recursive function exists, row by row.
LEMMA TouchedSweeps ==
  ASSUME NEW d, NEW S
  PROVE  \E f : /\ Touched(d, S) = f[TableRows] /\ f[0] = d
                /\ \A n \in 1 .. TableRows : f[n] = IF n - 1 \in S THEN Hit(f[n - 1], n - 1) ELSE f[n - 1]
<1> DEFINE P(n) == \E f : f = [m \in 0 .. n |->
                      IF m = 0 THEN d ELSE IF m - 1 \in S THEN Hit(f[m - 1], m - 1) ELSE f[m - 1]]
           G == {n \in 0 .. TableRows : P(n)}
<1>1. TableRows \in Nat
  BY RowsAssumption
<1>2. P(0)
  <2> DEFINE f == [m \in 0 .. 0 |-> d]
  <2>1. f = [m \in 0 .. 0 |-> IF m = 0 THEN d ELSE IF m - 1 \in S THEN Hit(f[m - 1], m - 1) ELSE f[m - 1]]
    OBVIOUS
  <2>2. QED
    BY <2>1
<1>3. ASSUME NEW i \in 1 .. TableRows, P(i - 1) PROVE P(i)
  <2>1. PICK f : f = [m \in 0 .. i - 1 |->
                      IF m = 0 THEN d ELSE IF m - 1 \in S THEN Hit(f[m - 1], m - 1) ELSE f[m - 1]]
    BY <1>3
  <2> DEFINE g == [m \in 0 .. i |->
                      IF m = 0 THEN d ELSE IF m - 1 \in S THEN Hit(f[m - 1], m - 1) ELSE f[m - 1]]
  <2>2. \A m \in 0 .. i : g[m] = IF m = 0 THEN d ELSE IF m - 1 \in S THEN Hit(f[m - 1], m - 1) ELSE f[m - 1]
    OBVIOUS
  <2>3. \A m \in 0 .. i - 1 : f[m] = IF m = 0 THEN d ELSE IF m - 1 \in S THEN Hit(f[m - 1], m - 1) ELSE f[m - 1]
    BY <2>1
  <2> HIDE DEF g
  <2>4. ASSUME NEW m \in 0 .. i - 1 PROVE g[m] = f[m]
    <3>1. m \in 0 .. i
      OBVIOUS
    <3>2. QED
      BY <2>2, <2>3, <3>1
  <2>5. \A m \in 0 .. i : m # 0 => m - 1 \in 0 .. i - 1
    OBVIOUS
  <2>6. \A m \in 0 .. i : m # 0 => g[m - 1] = f[m - 1]
    BY <2>4, <2>5
  <2>7. g = [m \in 0 .. i |-> IF m = 0 THEN d ELSE IF m - 1 \in S THEN Hit(g[m - 1], m - 1) ELSE g[m - 1]]
    BY <2>6 DEF g
  <2>8. QED
    BY <2>7
<1> HIDE DEF P
<1>4. 0 \in G /\ \A i \in 1 .. TableRows : i - 1 \in G => i \in G
  BY <1>1, <1>2, <1>3
<1>5. TableRows \in G
  <2>1. 0 .. TableRows \subseteq G
    BY <1>1, <1>4, UpTo
  <2>2. QED
    BY <1>1, <2>1
<1> DEFINE F(f) == f = [m \in 0 .. TableRows |->
                         IF m = 0 THEN d ELSE IF m - 1 \in S THEN Hit(f[m - 1], m - 1) ELSE f[m - 1]]
           then == CHOOSE f : F(f)
<1>6. F(then)
  <2>1. \E f : F(f)
    BY <1>5 DEF P
  <2> HIDE DEF F
  <2>2. QED
    BY <2>1
<1>7. Touched(d, S) = then[TableRows]
  BY DEF Touched
<1> HIDE DEF then
<1>8. \A n \in 0 .. TableRows : then[n] = IF n = 0 THEN d ELSE IF n - 1 \in S THEN Hit(then[n - 1], n - 1) ELSE then[n - 1]
  BY <1>6
<1>9. then[0] = d /\ \A n \in 1 .. TableRows : then[n] = IF n - 1 \in S THEN Hit(then[n - 1], n - 1) ELSE then[n - 1]
  BY <1>1, <1>8
<1>10. QED
  BY <1>7, <1>9

\* The same with a put of each row of S.
LEMMA StoredSweeps ==
  ASSUME NEW d, NEW S, NEW raw
  PROVE  \E f : /\ StoredAll(d, S, raw) = f[TableRows] /\ f[0] = d
                /\ \A n \in 1 .. TableRows : f[n] = IF n - 1 \in S THEN Stored(f[n - 1], n - 1, raw[n - 1]) ELSE f[n - 1]
<1> DEFINE P(n) == \E f : f = [m \in 0 .. n |->
                      IF m = 0 THEN d ELSE IF m - 1 \in S THEN Stored(f[m - 1], m - 1, raw[m - 1]) ELSE f[m - 1]]
           G == {n \in 0 .. TableRows : P(n)}
<1>1. TableRows \in Nat
  BY RowsAssumption
<1>2. P(0)
  <2> DEFINE f == [m \in 0 .. 0 |-> d]
  <2>1. f = [m \in 0 .. 0 |->
              IF m = 0 THEN d ELSE IF m - 1 \in S THEN Stored(f[m - 1], m - 1, raw[m - 1]) ELSE f[m - 1]]
    OBVIOUS
  <2>2. QED
    BY <2>1
<1>3. ASSUME NEW i \in 1 .. TableRows, P(i - 1) PROVE P(i)
  <2>1. PICK f : f = [m \in 0 .. i - 1 |->
                      IF m = 0 THEN d ELSE IF m - 1 \in S THEN Stored(f[m - 1], m - 1, raw[m - 1]) ELSE f[m - 1]]
    BY <1>3
  <2> DEFINE g == [m \in 0 .. i |->
                      IF m = 0 THEN d ELSE IF m - 1 \in S THEN Stored(f[m - 1], m - 1, raw[m - 1]) ELSE f[m - 1]]
  <2>2. \A m \in 0 .. i :
          g[m] = IF m = 0 THEN d ELSE IF m - 1 \in S THEN Stored(f[m - 1], m - 1, raw[m - 1]) ELSE f[m - 1]
    OBVIOUS
  <2>3. \A m \in 0 .. i - 1 :
          f[m] = IF m = 0 THEN d ELSE IF m - 1 \in S THEN Stored(f[m - 1], m - 1, raw[m - 1]) ELSE f[m - 1]
    BY <2>1
  <2> HIDE DEF g
  <2>4. ASSUME NEW m \in 0 .. i - 1 PROVE g[m] = f[m]
    <3>1. m \in 0 .. i
      OBVIOUS
    <3>2. QED
      BY <2>2, <2>3, <3>1
  <2>5. \A m \in 0 .. i : m # 0 => m - 1 \in 0 .. i - 1
    OBVIOUS
  <2>6. \A m \in 0 .. i : m # 0 => g[m - 1] = f[m - 1]
    BY <2>4, <2>5
  <2>7. g = [m \in 0 .. i |->
              IF m = 0 THEN d ELSE IF m - 1 \in S THEN Stored(g[m - 1], m - 1, raw[m - 1]) ELSE g[m - 1]]
    BY <2>6 DEF g
  <2>8. QED
    BY <2>7
<1> HIDE DEF P
<1>4. 0 \in G /\ \A i \in 1 .. TableRows : i - 1 \in G => i \in G
  BY <1>1, <1>2, <1>3
<1>5. TableRows \in G
  <2>1. 0 .. TableRows \subseteq G
    BY <1>1, <1>4, UpTo
  <2>2. QED
    BY <1>1, <2>1
<1> DEFINE F(f) == f = [m \in 0 .. TableRows |->
                         IF m = 0 THEN d ELSE IF m - 1 \in S THEN Stored(f[m - 1], m - 1, raw[m - 1]) ELSE f[m - 1]]
           then == CHOOSE f : F(f)
<1>6. F(then)
  <2>1. \E f : F(f)
    BY <1>5 DEF P
  <2> HIDE DEF F
  <2>2. QED
    BY <2>1
<1>7. StoredAll(d, S, raw) = then[TableRows]
  BY DEF StoredAll
<1> HIDE DEF then
<1>8. \A n \in 0 .. TableRows : then[n] = IF n = 0 THEN d ELSE IF n - 1 \in S THEN Stored(then[n - 1], n - 1, raw[n - 1]) ELSE then[n - 1]
  BY <1>6
<1>9. then[0] = d /\ \A n \in 1 .. TableRows : then[n] = IF n - 1 \in S THEN Stored(then[n - 1], n - 1, raw[n - 1]) ELSE then[n - 1]
  BY <1>1, <1>8
<1>10. QED
  BY <1>7, <1>9

\* What a dictionary of rows has under a key is that row.
LEMMA RowUnderKey ==
  ASSUME NEW d \in RowDicts, NEW r, HasKey(d, r)
  PROVE  r \in 0 .. TableRows - 1 /\ ValueAt(d, r) = RowBytes(r)
<1>1. d \in Seq(RowItems)
  BY DEF RowDicts
<1>2. PICK i \in DOMAIN d : d[i] \in RowItems /\ d[i].key = r /\ ValueAt(d, r) = d[i].val
  BY <1>1, ValueIsItem
<1>3. PICK q \in 0 .. TableRows - 1 : d[i] = Item(q, RowBytes(q))
  BY <1>2 DEF RowItems
<1>4. d[i].key = q /\ d[i].val = RowBytes(q)
  BY <1>3 DEF Item
<1>5. QED
  BY <1>2, <1>4

\* A row that is moved to the end stays the only one of its number.
LEMMA RefreshRow ==
  ASSUME NEW d \in RowDicts, NEW r, HasKey(d, r)
  PROVE  Refresh(d, r, RowBytes(r)) \in RowDicts
<1> DEFINE n == IndexOf(d, r)
           e == Remaining(d, n)
           f == Append(e, Item(r, RowBytes(r)))
<1>1. d \in Seq(RowItems) /\ UniqueKeys(d) /\ Len(d) <= MaxRows /\ r \in 0 .. TableRows - 1
  BY RowUnderKey DEF RowDicts
<1>2. n \in 1 .. Len(d) /\ d[n].key = r
  BY DEF HasKey, IndexOf
<1> HIDE DEF n
<1>3. e \in Seq(RowItems)
  BY <1>1, DeleteKeepsItems DEF Delete, n
<1>4. Len(d) \in Nat /\ Len(e) = Len(d) - 1 /\ DOMAIN e = 1 .. Len(d) - 1
  BY <1>1, <1>2 DEF Remaining
<1>5. \A i \in 1 .. Len(d) - 1 : e[i] = IF i < n THEN d[i] ELSE d[i + 1]
  BY DEF Remaining
<1>6. \A i \in 1 .. Len(d) - 1 : e[i].key # r
  BY <1>1, <1>2, <1>4, <1>5 DEF UniqueKeys
<1>7. \A i, j \in 1 .. Len(d) - 1 : e[i].key = e[j].key => i = j
  <2>1. SUFFICES ASSUME NEW i \in 1 .. Len(d) - 1, NEW j \in 1 .. Len(d) - 1, e[i].key = e[j].key
                 PROVE  i = j
    OBVIOUS
  <2>2. PICK a \in 1 .. Len(d) : e[i] = d[a] /\ a = IF i < n THEN i ELSE i + 1
    BY <1>4, <1>5
  <2>3. PICK b \in 1 .. Len(d) : e[j] = d[b] /\ b = IF j < n THEN j ELSE j + 1
    BY <1>4, <1>5
  <2>4. a = b
    BY <1>1, <2>1, <2>2, <2>3 DEF UniqueKeys
  <2>5. QED
    BY <1>2, <1>4, <2>2, <2>3, <2>4
<1> HIDE DEF e
<1>8. Item(r, RowBytes(r)) \in RowItems
  BY <1>1 DEF RowItems
<1>9. f \in Seq(RowItems) /\ Len(f) = Len(d)
  BY <1>3, <1>4, <1>8
<1>10. \A i \in 1 .. Len(d) : f[i] = IF i = Len(d) THEN Item(r, RowBytes(r)) ELSE e[i]
  BY <1>3, <1>4, <1>8
<1>11. DOMAIN f = 1 .. Len(d)
  BY <1>9
<1> HIDE DEF f
<1>12. f[Len(d)].key = r
  BY <1>2, <1>4, <1>10 DEF Item
<1>13. UniqueKeys(f)
  <2>1. SUFFICES ASSUME NEW i \in 1 .. Len(d), NEW j \in 1 .. Len(d), f[i].key = f[j].key
                 PROVE  i = j
    BY <1>11 DEF UniqueKeys
  <2>2. CASE i = Len(d) /\ j = Len(d)
    BY <2>2
  <2>3. CASE i # Len(d) /\ j # Len(d)
    BY <1>4, <1>7, <1>10, <2>1, <2>3
  <2>4. CASE i = Len(d) /\ j # Len(d)
    BY <1>4, <1>6, <1>10, <1>12, <2>1, <2>4
  <2>5. CASE i # Len(d) /\ j = Len(d)
    BY <1>4, <1>6, <1>10, <1>12, <2>1, <2>5
  <2>6. QED
    BY <2>2, <2>3, <2>4, <2>5
<1>14. f \in RowDicts
  BY <1>1, <1>9, <1>13 DEF RowDicts
<1>15. QED
  BY <1>14 DEF Refresh, Append1, Delete, f, e, n

\* A get leaves a dictionary of rows, and so does a put of a row's own bytes.
LEMMA HitKeepsRows ==
  ASSUME NEW d \in RowDicts, NEW r
  PROVE  Hit(d, r) \in RowDicts
BY RowUnderKey, RefreshRow DEF Hit

LEMMA StoredKeepsRows ==
  ASSUME NEW d \in RowDicts, NEW r \in 0 .. TableRows - 1
  PROVE  Stored(d, r, RowBytes(r)) \in RowDicts
<1>1. d \in Seq(RowItems) /\ UniqueKeys(d) /\ Len(d) <= MaxRows /\ Len(d) \in Nat /\ MaxRows \in Nat
  BY RowsAssumption DEF RowDicts
<1>2. CASE HasKey(d, r)
  <2>1. Assign(d, r, RowBytes(r)) \in RowDicts
    BY <1>2, RefreshRow DEF Assign
  <2>2. ~(Len(Assign(d, r, RowBytes(r))) > MaxRows)
    BY <1>1, <2>1 DEF RowDicts
  <2>3. QED
    BY <2>1, <2>2 DEF Stored
<1>3. CASE ~HasKey(d, r)
  <2> DEFINE e == Append(d, Item(r, RowBytes(r)))
  <2>1. e \in Seq(RowItems) /\ Len(e) = Len(d) + 1 /\ DOMAIN e = 1 .. Len(d) + 1
    BY <1>1 DEF RowItems
  <2>2. \A i \in 1 .. Len(d) : e[i] = d[i]
    BY <1>1
  <2>3. e[Len(d) + 1] = Item(r, RowBytes(r))
    BY <1>1
  <2> HIDE DEF e
  <2>4. e[Len(d) + 1].key = r
    BY <2>3 DEF Item
  <2>5. \A i \in 1 .. Len(d) : e[i].key # r
    BY <1>1, <1>3, <2>2 DEF HasKey
  <2>6. \A i, j \in 1 .. Len(d) + 1 : e[i].key = e[j].key => i = j
    <3>1. SUFFICES ASSUME NEW i \in 1 .. Len(d) + 1, NEW j \in 1 .. Len(d) + 1, e[i].key = e[j].key
                   PROVE  i = j
      OBVIOUS
    <3>2. CASE i \in 1 .. Len(d) /\ j \in 1 .. Len(d)
      BY <1>1, <2>2, <3>1, <3>2 DEF UniqueKeys
    <3>3. QED
      BY <1>1, <2>4, <2>5, <3>1, <3>2
  <2>7. Assign(d, r, RowBytes(r)) = e
    BY <1>3 DEF Assign, Append1, e
  <2>8. CASE Len(e) > MaxRows
    <3>1. /\ Tail(e) \in Seq(RowItems) /\ Len(Tail(e)) = Len(d) /\ DOMAIN Tail(e) = 1 .. Len(d)
          /\ \A i \in 1 .. Len(d) : Tail(e)[i] = e[i + 1]
      BY <1>1, <2>1
    <3>2. UniqueKeys(Tail(e))
      BY <1>1, <2>6, <3>1 DEF UniqueKeys
    <3>3. Tail(e) \in RowDicts
      BY <1>1, <3>1, <3>2 DEF RowDicts
    <3>4. QED
      BY <2>7, <2>8, <3>3 DEF Stored, PopOldest
  <2>9. CASE ~(Len(e) > MaxRows)
    <3>1. e \in RowDicts
      BY <1>1, <2>1, <2>6, <2>9 DEF RowDicts, UniqueKeys
    <3>2. QED
      BY <2>7, <2>9, <3>1 DEF Stored
  <2>10. QED
    BY <2>8, <2>9
<1>4. QED
  BY <1>2, <1>3

\* A sweep of gets, and one of puts, keeps the cache one of rows under their own keys.
LEMMA TouchedKeepsRows ==
  ASSUME NEW d \in RowDicts, NEW S
  PROVE  Touched(d, S) \in RowDicts
<1>1. TableRows \in Nat
  BY RowsAssumption
<1>2. PICK then : /\ Touched(d, S) = then[TableRows] /\ then[0] = d
                  /\ \A n \in 1 .. TableRows : then[n] = IF n - 1 \in S THEN Hit(then[n - 1], n - 1) ELSE then[n - 1]
  BY TouchedSweeps
<1> DEFINE G == {n \in 0 .. TableRows : then[n] \in RowDicts}
<1>5. 0 \in G
  BY <1>1, <1>2
<1>6. ASSUME NEW n \in 1 .. TableRows, n - 1 \in G PROVE n \in G
  <2>1. then[n] = IF n - 1 \in S THEN Hit(then[n - 1], n - 1) ELSE then[n - 1]
    BY <1>2
  <2>2. then[n] \in RowDicts
    BY <1>6, <2>1, HitKeepsRows
  <2>3. QED
    BY <1>1, <2>2
<1>7. 0 .. TableRows \subseteq G
  BY <1>1, <1>5, <1>6, UpTo
<1>8. QED
  BY <1>1, <1>2, <1>7

LEMMA StoredAllKeepsRows ==
  ASSUME NEW d \in RowDicts, NEW S, NEW raw, \A r \in S : raw[r] = RowBytes(r)
  PROVE  StoredAll(d, S, raw) \in RowDicts
<1>1. TableRows \in Nat
  BY RowsAssumption
<1>2. PICK then : /\ StoredAll(d, S, raw) = then[TableRows] /\ then[0] = d
                  /\ \A n \in 1 .. TableRows : then[n] = IF n - 1 \in S THEN Stored(then[n - 1], n - 1, raw[n - 1]) ELSE then[n - 1]
  BY StoredSweeps
<1> DEFINE G == {n \in 0 .. TableRows : then[n] \in RowDicts}
<1>5. 0 \in G
  BY <1>1, <1>2
<1>6. ASSUME NEW n \in 1 .. TableRows, n - 1 \in G PROVE n \in G
  <2>1. then[n] = IF n - 1 \in S THEN Stored(then[n - 1], n - 1, raw[n - 1]) ELSE then[n - 1]
    BY <1>2
  <2>2. n - 1 \in 0 .. TableRows - 1 /\ then[n - 1] \in RowDicts
    BY <1>1, <1>6
  <2>3. CASE n - 1 \in S
    <3>1. then[n] = Stored(then[n - 1], n - 1, RowBytes(n - 1))
      BY <2>1, <2>3
    <3>2. then[n] \in RowDicts
      BY <2>2, <3>1, StoredKeepsRows
    <3>3. QED
      BY <1>1, <3>2
  <2>4. QED
    BY <1>1, <2>1, <2>2, <2>3
<1>7. 0 .. TableRows \subseteq G
  BY <1>1, <1>5, <1>6, UpTo
<1>8. QED
  BY <1>1, <1>2, <1>7

\* A lookup that reads each missing row right answers every position with its own.
LEMMA LookupInRows ==
  ASSUME RowsInv, NEW ids \in Lookups, NEW read,
         \A k \in Kinds, r \in Missing(ids) : read[k][r] = <<r>>,
         LookupRows(ids, read)
  PROVE  RowsInv'
<1> DEFINE raw == [r \in Distinct(ids) |->
                     IF r \in Missing(ids) THEN [k \in Kinds |-> read[k][r]] ELSE ValueAt(rowCache, r)]
<1>1. ASSUME NEW r \in Distinct(ids) PROVE raw[r] = RowBytes(r)
  <2>1. CASE r \in Missing(ids)
    BY <2>1 DEF RowBytes
  <2>2. CASE r \notin Missing(ids)
    BY <2>2, RowUnderKey DEF Missing, RowsInv
  <2>3. QED
    BY <2>1, <2>2
<1>2. /\ rowCache' = StoredAll(Touched(rowCache, Distinct(ids)), Missing(ids), raw)
      /\ rows' = [ids |-> ids, answer |-> [i \in DOMAIN ids |-> raw[ids[i]]]]
  BY DEF LookupRows
<1> HIDE DEF raw
<1>3. rowCache' \in RowDicts
  BY <1>1, <1>2, TouchedKeepsRows, StoredAllKeepsRows DEF RowsInv, Missing
<1>4. rows'.ids = ids /\ rows'.answer = [i \in DOMAIN ids |-> RowBytes(ids[i])]
  BY <1>1, <1>2 DEF Distinct
<1>5. QED
  BY <1>3, <1>4 DEF RowsInv

\* Every lookup, whichever source it reads, preserves RowsInv.
LEMMA RowsStepInv ==
  ASSUME RowsInv, RowsNext
  PROVE  RowsInv'
<1>1. PICK ids \in Lookups : \/ LookupRows(ids, ReadFiles(Missing(ids)))
                            \/ LookupRows(ids, ReadRanges(Missing(ids)))
                            \/ LookupFails(ids)
  BY DEF RowsNext
<1>2. Missing(ids) \subseteq 0 .. TableRows - 1
  <2>1. PICK T : T = 0 .. TableRows - 1
    OBVIOUS
  <2>2. ids \in Seq(T)
    BY <2>1, RowsAssumption
  <2>3. \A i \in DOMAIN ids : ids[i] \in T
    BY <2>2
  <2>4. QED
    BY <2>1, <2>3 DEF Missing, Distinct
<1>3. CASE LookupFails(ids)
  <2>1. rowCache' \in RowDicts
    BY <1>3, TouchedKeepsRows DEF LookupFails, RowsInv
  <2>2. rows'.answer = <<>> /\ rows'.ids = <<>>
    BY <1>3 DEF LookupFails, NoLookup
  <2>3. QED
    BY <2>1, <2>2 DEF RowsInv
<1>4. CASE LookupRows(ids, ReadFiles(Missing(ids)))
  BY <1>2, <1>4, ReadsAreRows, LookupInRows
<1>5. CASE LookupRows(ids, ReadRanges(Missing(ids)))
  BY <1>2, <1>5, ReadsAreRows, LookupInRows
<1>6. QED
  BY <1>1, <1>3, <1>4, <1>5

\* Every position of a lookup is answered with its own row in every kind, for any
\* table, gaps, lookups and size of the cache, whichever source the rows come from.
THEOREM RowsAnswerAsAsked == SliceSpec => []RowsAsAsked
<1>1. SliceInit => RowsInv
  <2>1. SUFFICES ASSUME RowsInit PROVE RowsInv
    BY DEF SliceInit
  <2>2. <<>> \in RowDicts
    BY RowsAssumption DEF RowDicts, UniqueKeys
  <2>3. rows.answer = <<>> /\ rows.ids = <<>>
    BY <2>1 DEF RowsInit, NoLookup
  <2>4. QED
    BY <2>1, <2>2, <2>3 DEF RowsInit, RowsInv
<1>2. RowsInv /\ [SliceNext]_sliceVars => RowsInv'
  <2>1. SUFFICES ASSUME RowsInv, [SliceNext]_sliceVars PROVE RowsInv'
    OBVIOUS
  <2>2. CASE UNCHANGED rowVars
    BY <2>1, <2>2 DEF RowsInv, rowVars
  <2>3. CASE RowsNext
    BY <2>1, <2>3, RowsStepInv
  <2>4. RowsNext \/ UNCHANGED rowVars
    BY <2>1 DEF SliceNext, FetchProcess, EngineProcess, RowsProcess, DownloadsProcess, sliceVars
  <2>5. QED
    BY <2>2, <2>3, <2>4
<1>3. RowsInv => RowsAsAsked
  <2>1. SUFFICES ASSUME RowsInv PROVE RowsAsAsked
    OBVIOUS
  <2>2. rows.answer = [i \in DOMAIN rows.ids |-> [k \in Kinds |-> <<rows.ids[i]>>]]
    BY <2>1 DEF RowsInv, RowBytes
  <2>3. ASSUME NEW i \in DOMAIN rowCache
        PROVE  rowCache[i].val = [k \in Kinds |-> <<rowCache[i].key>>]
    <3>1. rowCache[i] \in RowItems
      BY <2>1 DEF RowsInv, RowDicts
    <3>2. PICK r \in 0 .. TableRows - 1 : rowCache[i] = Item(r, RowBytes(r))
      BY <3>1 DEF RowItems
    <3>3. rowCache[i].key = r /\ rowCache[i].val = RowBytes(r)
      BY <3>2 DEF Item
    <3>4. QED
      BY <3>3 DEF RowBytes
  <2>4. QED
    BY <2>1, <2>2, <2>3 DEF RowsAsAsked, RowsInv, RowDicts
<1>4. QED
  BY <1>1, <1>2, <1>3, PTL DEF SliceSpec
=============================================================================
