----------------------------- MODULE Preprocess -----------------------------
(***************************************************************************)
(* download_model and _preprocess of src/mlx_expert_sniper/download.py: a  *)
(* checkpoint of several shards becomes one file per MoE layer and one     *)
(* pinned file, shards being fetched and deleted one at a time, by a       *)
(* process that can be killed between any two steps and started again.     *)
(* What is on disk survives a kill; the rest of the variables do not.      *)
(* A tensor is loaded as a lazy array that maps its shard until its bytes  *)
(* are read, whichever variables refer to it.                              *)
(***************************************************************************)
EXTENDS Naturals, FiniteSets

CONSTANTS
  Layers, Shards,   \* numbers, which the code sorts
  Layouts,          \* checkpoints: the shards each layer's tensors lie in, the
                    \* shards with pinned tensors, the shards already here
  MaxKills,         \* a bound of the model: kills in a behaviour
  KillsSpanning     \* kills also happen while a layer spans two shards

ASSUME OrderAssumption == Layers \subseteq Nat /\ Shards \subseteq Nat /\ IsFiniteSet(Shards)
ASSUME LayoutsAssumption ==
  Layouts \subseteq [tensors : [Layers -> (SUBSET Shards) \ {{}}], pinned : SUBSET Shards, here : SUBSET Shards]
ASSUME KillsAssumption == MaxKills \in Nat /\ KillsSpanning \in BOOLEAN

VARIABLES
  layout,       \* the checkpoint
  shardFile,    \* disk: the shards in the download directory
  part,         \* disk: per shard its pinned part, "none", "torn" or "whole"
  layerFile,    \* disk: per layer moe_layer_NN.bin, "none", "torn" or "whole"
  pinnedFile,   \* disk: pinned.safetensors, and the shards whose tensors it has
  published,    \* disk: the layer_NN.bin links, config and tokenizer are written
  kills,        \* kills so far
  pc, todo,     \* the process: where it is, and the shards still to handle
  held,         \* expert_keys: the pairs <<layer, shard>> of tensors it holds
  unread,       \* of the tensors loaded, those whose bytes were never read
  pending,      \* the tensors that pending refers to
  last          \* the one that v, the variable of the loop over a shard, refers to

disk == <<shardFile, part, layerFile, pinnedFile, published>>
arrays == <<held, unread, pending, last>>
memory == <<pc, todo, arrays>>
prepVars == <<layout, disk, kills, memory>>

NoPinned == [exists |-> FALSE, from |-> {}]

\* The list of shards to handle: those here when the run began, then the others,
\* each in order.
NoShards == [here |-> {}, later |-> {}]

Least(S) == CHOOSE x \in S : \A y \in S : x <= y

Init ==
  /\ layout \in Layouts
  /\ shardFile = layout.here
  /\ part = [s \in Shards |-> "none"]
  /\ layerFile = [l \in Layers |-> "none"]
  /\ pinnedFile = NoPinned
  /\ published = FALSE
  /\ kills = 0
  /\ pc = "off" /\ todo = NoShards
  /\ held = {} /\ unread = {} /\ pending = {} /\ last = {}

\* The process has gone, or has only begun.
NoArrays == held' = {} /\ unread' = {} /\ pending' = {} /\ last' = {}

-----------------------------------------------------------------------------
(* download_model.                                                         *)

SeemsComplete == pinnedFile.exists /\ \E l \in Layers : layerFile[l] # "none"

\* A pinned file and anything in bin/ count as a finished model.
AlreadyThere ==
  /\ pc = "off"
  /\ SeemsComplete
  /\ pc' = "done"
  /\ UNCHANGED <<layout, disk, kills, todo, arrays>>

\* Shards that are here come first, the others are fetched later.
Start ==
  /\ pc = "off"
  /\ ~SeemsComplete
  /\ pc' = "shard"
  /\ todo' = [here |-> shardFile, later |-> Shards \ shardFile]
  /\ NoArrays
  /\ UNCHANGED <<layout, disk, kills>>

-----------------------------------------------------------------------------
(* _preprocess: one shard.                                                 *)

Shard == Least(IF todo.here # {} THEN todo.here ELSE todo.later)

\* Mutant: a shard that was here is not taken off the list.
OthersLater == [here |-> todo.here, later |-> todo.later \ {Shard}]

\* The shards after this one.
OthersToDo == [here |-> todo.here \ {Shard}, later |-> todo.later \ {Shard}]

AtShard == pc = "shard" /\ todo # NoShards

\* A shard that is gone and left a part was handled by an earlier run.
Processed(s) == s \notin shardFile /\ part[s] # "none"

SkipShard ==
  /\ AtShard
  /\ Processed(Shard)
  /\ todo' = OthersToDo
  /\ UNCHANGED <<layout, disk, kills, pc, arrays>>

FetchShard ==
  /\ AtShard
  /\ Shard \notin shardFile /\ ~Processed(Shard)
  /\ shardFile' = shardFile \cup {Shard}
  /\ UNCHANGED <<layout, part, layerFile, pinnedFile, published, kills, memory>>

TensorsIn(s) == {t \in Layers \X {s} : s \in layout.tensors[t[1]]}

\* The last tensor of the shard is one of a layer or another.
LoadShard ==
  /\ AtShard
  /\ Shard \in shardFile
  /\ held' = held \cup TensorsIn(Shard)
  /\ unread' = unread \cup TensorsIn(Shard)
  /\ last' \in {{}} \cup {{t} : t \in TensorsIn(Shard)}
  /\ pc' = "flush"
  /\ UNCHANGED <<layout, disk, kills, todo, pending>>

\* The layers of which every tensor is held.
Complete == {l \in Layers : {l} \X layout.tensors[l] \subseteq held}

TensorsOf(l) == {t \in held : t[1] = l}

\* Mutant: an existing file counts as written whatever its size.
WrittenIfExists(l) == layerFile[l] # "none"

\* _write_layer trusts a file of the expected size.
Written(l) == layerFile[l] = "whole"

\* The tensors of a layer that is written leave expert_keys.
Forget(l) == held' = held \ TensorsOf(l)

SkipLayer ==
  /\ pc = "flush"
  /\ Complete # {}
  /\ Written(Least(Complete))
  /\ Forget(Least(Complete))
  /\ UNCHANGED <<layout, disk, kills, pc, todo, unread, pending, last>>

BeginLayer ==
  /\ pc = "flush"
  /\ Complete # {}
  /\ ~Written(Least(Complete))
  /\ layerFile' = [layerFile EXCEPT ![Least(Complete)] = "torn"]
  /\ pc' = "write layer"
  /\ UNCHANGED <<layout, shardFile, part, pinnedFile, published, kills, todo, arrays>>

EndLayer ==
  /\ pc = "write layer"
  /\ layerFile' = [layerFile EXCEPT ![Least(Complete)] = "whole"]
  /\ unread' = unread \ TensorsOf(Least(Complete))
  /\ Forget(Least(Complete))
  /\ pc' = "flush"
  /\ UNCHANGED <<layout, shardFile, part, pinnedFile, published, kills, todo, pending, last>>

\* Mutant: the part is saved before the layers are flushed.
FlushedNever == TRUE

Flushed == Complete = {}

BeginPart ==
  /\ pc = "flush"
  /\ Flushed
  /\ part' = IF Shard \in layout.pinned THEN [part EXCEPT ![Shard] = "torn"] ELSE part
  /\ pc' = "write part"
  /\ UNCHANGED <<layout, shardFile, layerFile, pinnedFile, published, kills, todo, arrays>>

EndPart ==
  /\ pc = "write part"
  /\ part' = IF Shard \in layout.pinned THEN [part EXCEPT ![Shard] = "whole"] ELSE part
  /\ pc' = "carry"
  /\ UNCHANGED <<layout, shardFile, layerFile, pinnedFile, published, kills, todo, arrays>>

\* Mutant: the tensors are handed on as the lazy arrays they are.
CarriedNone == {}

\* The tensors of incomplete layers, all of them, are read and saved in a carry
\* file, from which expert_keys has them anew; pending keeps the old arrays.
Carried == held

Carry ==
  /\ pc = "carry"
  /\ unread' = unread \ Carried
  /\ pending' = held
  /\ pc' = "delete"
  /\ UNCHANGED <<layout, disk, kills, todo, held, last>>

DeleteShard ==
  /\ pc = "delete"
  /\ shardFile' = shardFile \ {Shard}
  /\ todo' = OthersToDo
  /\ pc' = "shard"
  /\ UNCHANGED <<layout, part, layerFile, pinnedFile, published, kills, arrays>>

-----------------------------------------------------------------------------
(* _preprocess: the end.  Layers still incomplete get a warning, no error. *)

BeginPinned ==
  /\ pc = "shard" /\ todo = NoShards
  /\ pinnedFile' = [exists |-> TRUE, from |-> {}]
  /\ held' = {}
  /\ pc' = "write pinned"
  /\ UNCHANGED <<layout, shardFile, part, layerFile, published, kills, todo, unread, pending, last>>

EndPinned ==
  /\ pc = "write pinned"
  /\ pinnedFile' = [exists |-> TRUE, from |-> {s \in Shards : part[s] = "whole"}]
  /\ pc' = "clean"
  /\ UNCHANGED <<layout, shardFile, part, layerFile, published, kills, todo, arrays>>

RemoveParts ==
  /\ pc = "clean"
  /\ part' = [s \in Shards |-> "none"]
  /\ pc' = "publish"
  /\ UNCHANGED <<layout, shardFile, layerFile, pinnedFile, published, kills, todo, arrays>>

Publish ==
  /\ pc = "publish"
  /\ published' = TRUE
  /\ pc' = "done"
  /\ UNCHANGED <<layout, shardFile, part, layerFile, pinnedFile, kills, todo, arrays>>

-----------------------------------------------------------------------------

Spanning == \E l \in Layers : Cardinality(layout.tensors[l]) > 1

Kill ==
  /\ pc \notin {"off", "done"}
  /\ kills < MaxKills
  /\ KillsSpanning \/ ~Spanning
  /\ kills' = kills + 1
  /\ pc' = "off" /\ todo' = NoShards /\ NoArrays
  /\ UNCHANGED <<layout, disk>>

\* download_model has returned True.
Done == pc = "done" /\ UNCHANGED prepVars

Run ==
  \/ AlreadyThere \/ Start
  \/ SkipShard \/ FetchShard \/ LoadShard \/ SkipLayer \/ BeginLayer \/ EndLayer
  \/ BeginPart \/ EndPart \/ Carry \/ DeleteShard
  \/ BeginPinned \/ EndPinned \/ RemoveParts \/ Publish

Next == Run \/ Kill \/ Done

PrepSpec == Init /\ [][Next]_prepVars

\* The process runs until it ends or is killed, and its user starts it again.
FairPrepSpec == PrepSpec /\ WF_prepVars(Run)

-----------------------------------------------------------------------------
(* Properties.                                                             *)

\* What a next run would not read again, a deleted shard with a part, has its
\* tensors in whole layer files or in the hands of the running process.
NothingLost ==
  \A s \in Shards : Processed(s) =>
    \A t \in TensorsIn(s) : layerFile[t[1]] = "whole" \/ t \in held

\* The tensors in memory that still map their shard.
Mapped == unread \cap (held \cup pending \cup last)

\* "Nothing references a shard's mmap by the time it is removed", so that its disk
\* is freed, but for one tensor: v, the last of the shard read last, when its layer
\* was already written by an earlier run and so nothing read its bytes.
DeletedShardsFreed ==
  \A t \in Mapped : t[2] \notin shardFile => t \in last /\ layerFile[t[1]] = "whole"

\* When a run reaches the merge, every layer file and every part is whole.
PinnedIsLast ==
  pc \in {"write pinned", "clean", "publish"} =>
    /\ \A l \in Layers : layerFile[l] = "whole"
    /\ pc = "write pinned" => \A s \in layout.pinned : part[s] = "whole"

\* download_model returning True means the model is all there.
ReadyMeansComplete ==
  pc = "done" =>
    /\ published
    /\ \A l \in Layers : layerFile[l] = "whole"
    /\ layout.pinned \subseteq pinnedFile.from

\* A download that is started again after every kill comes to its end.
Finishes == <>(pc = "done")
=============================================================================
