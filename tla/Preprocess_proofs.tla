--------------------------- MODULE Preprocess_proofs ---------------------------
(***************************************************************************)
(* That preprocessing, killed anywhere and started again, loses no tensor,  *)
(* maps a deleted shard by the loop variable at most, and merges only when  *)
(* all is written: for any layers, shards and layouts, where a kill never   *)
(* meets a layer that spans two shards.                                     *)
(***************************************************************************)
EXTENDS Preprocess, FiniteSetTheorems, WellFoundedInduction, TLAPS

-----------------------------------------------------------------------------
(* The invariant.                                                          *)

FileState == {"none", "torn", "whole"}

PrepTypeOK ==
  /\ layout \in Layouts
  /\ shardFile \subseteq Shards
  /\ part \in [Shards -> FileState] /\ layerFile \in [Layers -> FileState]
  /\ pc \in {"off", "shard", "flush", "write layer", "write part", "carry", "delete",
             "write pinned", "clean", "publish", "done"}
  /\ todo \in [here : SUBSET Shards, later : SUBSET Shards]
  /\ held \subseteq Layers \X Shards /\ \A t \in held : t[2] \in layout.tensors[t[1]]

ToDo == todo.here \cup todo.later

\* A run has its shards read, and is at one of them.
Reading == pc \in {"shard", "flush", "write layer", "write part", "carry", "delete"}
HasShard == pc \in {"flush", "write layer", "write part", "carry", "delete"}

\* The tensors of a shard are in whole layer files, or held.
Safe(s) == \A t \in TensorsIn(s) : layerFile[t[1]] = "whole" \/ t \in held

\* The shard that is handled is there, and all of it was read.
ShardInHand == HasShard => todo # NoShards /\ Shard \in shardFile /\ Safe(Shard)

\* Between two shards no complete layer is left, and without a run nothing is held.
LayersFlushed ==
  /\ pc \in {"shard", "write part", "carry", "delete"} => Complete = {}
  /\ pc = "write layer" => Complete # {}
  /\ ~Reading => held = {}

\* Where no layer spans two shards, only tensors of the one in hand are held.
HeldOfShard == ~Spanning /\ pc \in {"flush", "write layer"} => \A t \in held : t[2] = Shard

\* A part is of a shard with pinned tensors, and torn only while the shard is there.
PartsKept ==
  /\ \A s \in Shards : part[s] # "none" => s \in layout.pinned
  /\ \A s \in Shards : part[s] = "torn" => s \in shardFile
  /\ pc \in {"carry", "delete"} /\ Shard \in layout.pinned => part[Shard] = "whole"

\* What a run has behind it is safe, and its pinned tensors are in a part.
BehindSafe ==
  Reading => \A s \in Shards \ ToDo : Safe(s) /\ (s \in layout.pinned => part[s] = "whole")

\* What expert_keys and pending refer to was read when a shard is deleted, and what
\* v refers to is still held, or in a layer file, until then.
MapInv ==
  /\ \A t \in unread \cap (held \cup pending) : t[2] \in shardFile
  /\ pc \in {"shard", "delete"} => unread \cap held = {}
  /\ pc = "delete" => unread \cap pending = {}
  /\ \A t \in unread \cap last : t \in Layers \X Shards /\ (t \in held \/ layerFile[t[1]] = "whole")

PrepInv ==
  /\ PrepTypeOK /\ ShardInHand /\ LayersFlushed /\ HeldOfShard /\ PartsKept /\ BehindSafe
  /\ NothingLost /\ PinnedIsLast

-----------------------------------------------------------------------------
(* Least shards, layers in one shard.                                      *)

\* A set of numbers has a least one.
LEMMA LeastIsOne ==
  ASSUME NEW S, S \subseteq Nat, S # {}
  PROVE  Least(S) \in S
<1>1. PICK e \in S : \A y \in S : ~(<<y, e>> \in OpToRel(<, Nat))
  BY NatLessThanWellFounded, WFMin
<1>2. \A y \in S : ~(y < e)
  BY <1>1 DEF OpToRel
<1>3. \A y \in S : e <= y
  BY <1>2
<1>4. QED
  BY <1>3 DEF Least

\* The shard to handle next is one of those to handle.
LEMMA ShardToDo ==
  ASSUME PrepTypeOK, todo # NoShards
  PROVE  Shard \in ToDo /\ Shard \in Shards
<1>1. todo.here \subseteq Shards /\ todo.later \subseteq Shards
  BY DEF PrepTypeOK
<1>2. todo.here # {} \/ todo.later # {}
  BY DEF PrepTypeOK, NoShards
<1>3. CASE todo.here # {}
  BY <1>1, <1>3, LeastIsOne, OrderAssumption DEF Shard, ToDo
<1>4. CASE todo.here = {}
  BY <1>1, <1>2, <1>4, LeastIsOne, OrderAssumption DEF Shard, ToDo
<1>5. QED
  BY <1>3, <1>4

\* A complete layer is one.
LEMMA LeastComplete ==
  ASSUME Complete # {}
  PROVE  Least(Complete) \in Complete /\ Least(Complete) \in Layers
<1>1. Complete \subseteq Nat
  BY OrderAssumption DEF Complete
<1>2. QED
  BY <1>1, LeastIsOne DEF Complete

\* Every layer has a tensor in some shard.
LEMMA LayoutTensors ==
  ASSUME PrepTypeOK
  PROVE  \A l \in Layers : layout.tensors[l] # {} /\ layout.tensors[l] \subseteq Shards
BY LayoutsAssumption DEF PrepTypeOK

\* Where no layer spans two shards, a layer of which a tensor is held is complete.
LEMMA AlignedComplete ==
  ASSUME PrepTypeOK, ~Spanning, NEW t \in held
  PROVE  t[1] \in Complete
<1>0. t \in Layers \X Shards /\ t[2] \in layout.tensors[t[1]]
  BY DEF PrepTypeOK
<1>1. PICK l \in Layers, s \in Shards : t = <<l, s>>
  BY <1>0
<1>2. s \in layout.tensors[l] /\ layout.tensors[l] \subseteq Shards
  BY <1>0, <1>1, LayoutTensors
<1>3. IsFiniteSet(layout.tensors[l])
  BY <1>2, FS_Subset, OrderAssumption
<1>4. Cardinality(layout.tensors[l]) = 1
  <2>1. Cardinality(layout.tensors[l]) \in Nat
    BY <1>3, FS_CardinalityType
  <2>2. Cardinality(layout.tensors[l]) # 0
    BY <1>2, <1>3, FS_EmptySet
  <2>3. ~(Cardinality(layout.tensors[l]) > 1)
    BY DEF Spanning
  <2>4. QED
    BY <2>1, <2>2, <2>3
<1>5. PICK x : layout.tensors[l] = {x}
  BY <1>3, <1>4, FS_Singleton
<1>6. {l} \X layout.tensors[l] \subseteq held
  BY <1>1, <1>2, <1>5
<1>7. QED
  BY <1>1, <1>6 DEF Complete

-----------------------------------------------------------------------------
(* The steps.                                                              *)

LEMMA InitPrepInv == Init => PrepInv
<1> SUFFICES ASSUME Init PROVE PrepInv
  OBVIOUS
<1>1. layout \in Layouts /\ layout.here \subseteq Shards
  BY LayoutsAssumption DEF Init
<1>2. PrepTypeOK
  BY <1>1 DEF Init, PrepTypeOK, FileState, NoShards
<1>3. NothingLost /\ PartsKept
  BY DEF Init, NothingLost, Processed, PartsKept
<1>4. QED
  BY <1>2, <1>3 DEF Init, PrepInv, ShardInHand, LayersFlushed, HeldOfShard, BehindSafe, PinnedIsLast,
     Reading, HasShard

\* A step that leaves the files of the shards in hand and all tensors as they are.
LEMMA StartInv ==
  ASSUME PrepInv, Start
  PROVE  PrepInv'
<1> USE DEF PrepInv
<1>1. todo' = [here |-> shardFile, later |-> Shards \ shardFile] /\ held' = {} /\ pc' = "shard"
  BY DEF Start, NoArrays
<1>2. PrepTypeOK'
  BY <1>1 DEF Start, disk, PrepTypeOK
<1>3. Shards \ ToDo' = {}
  BY <1>1 DEF ToDo, PrepTypeOK
<1>4. Complete' = {}
  <2>1. ASSUME NEW l \in Layers PROVE ~({l} \X layout.tensors[l] \subseteq {})
    <3>1. PICK s : s \in layout.tensors[l]
      BY LayoutTensors
    <3>2. <<l, s>> \in {l} \X layout.tensors[l]
      BY <3>1
    <3>3. QED
      BY <3>2
  <2>2. QED
    BY <1>1, <2>1 DEF Start, Complete
<1>5. NothingLost'
  BY DEF Start, disk, NothingLost, Processed, TensorsIn, LayersFlushed, Reading
<1>6. PartsKept'
  BY <1>1 DEF Start, disk, PartsKept
<1>7. BehindSafe'
  BY <1>3 DEF BehindSafe
<1>8. ShardInHand' /\ LayersFlushed' /\ HeldOfShard' /\ PinnedIsLast'
  BY <1>1, <1>4 DEF ShardInHand, LayersFlushed, HeldOfShard, PinnedIsLast, HasShard, Reading
<1>9. QED
  BY <1>2, <1>5, <1>6, <1>7, <1>8

\* A finished model is not touched, and a run that is over does nothing.
LEMMA OverInv ==
  ASSUME PrepInv, AlreadyThere \/ Publish \/ UNCHANGED prepVars
  PROVE  PrepInv'
<1>1. CASE UNCHANGED prepVars
  <2>1. UNCHANGED <<layout, shardFile, part, layerFile, pc, todo, held>>
    BY <1>1 DEF prepVars, disk, memory, arrays
  <2>2. PrepTypeOK' /\ PinnedIsLast'
    BY <2>1 DEF PrepInv, PrepTypeOK, PinnedIsLast
  <2>3. NothingLost' /\ BehindSafe'
    BY <2>1 DEF PrepInv, NothingLost, BehindSafe, Processed, TensorsIn, Safe, ToDo, Reading
  <2>4. Shard' = Shard
    BY <2>1 DEF Shard, Least
  <2>5. ShardInHand' /\ HeldOfShard' /\ PartsKept'
    BY <2>1, <2>4 DEF PrepInv, ShardInHand, HeldOfShard, PartsKept, HasShard, Safe, TensorsIn, Spanning
  <2>6. LayersFlushed'
    BY <2>1 DEF PrepInv, LayersFlushed, Complete, Reading
  <2>7. QED
    BY <2>2, <2>3, <2>5, <2>6 DEF PrepInv
<1>2. CASE AlreadyThere \/ Publish
  <2>1. pc' = "done" /\ pc \in {"off", "publish"} /\ UNCHANGED <<layout, shardFile, part, layerFile, todo, held>>
    BY <1>2 DEF AlreadyThere, Publish, disk, arrays
  <2>2. PrepTypeOK'
    BY <2>1 DEF PrepInv, PrepTypeOK
  <2>3. NothingLost'
    BY <2>1 DEF PrepInv, NothingLost, Processed, TensorsIn
  <2>4. PartsKept'
    BY <2>1 DEF PrepInv, PartsKept
  <2>5. QED
    BY <2>1, <2>2, <2>3, <2>4 DEF PrepInv, ShardInHand, LayersFlushed, HeldOfShard, BehindSafe,
       PinnedIsLast, HasShard, Reading
<1>3. QED
  BY <1>1, <1>2

\* The shard is taken off the list when all of it is behind the run.
LEMMA OnwardInv ==
  ASSUME PrepInv, pc \in {"shard", "delete"}, todo # NoShards, Safe(Shard),
         Shard \in layout.pinned => part[Shard] = "whole",
         todo' = OthersToDo, pc' = "shard", UNCHANGED <<layout, part, layerFile, held>>,
         shardFile' = shardFile \ {Shard}, part[Shard] # "torn"
  PROVE  PrepInv'
<1> USE DEF PrepInv
<1>1. Shard \in ToDo /\ Shard \in Shards
  BY ShardToDo
<1>2. PrepTypeOK'
  BY DEF PrepTypeOK, OthersToDo
<1>3. ToDo' = ToDo \ {Shard}
  BY DEF ToDo, OthersToDo
<1>4. ASSUME NEW s \in Shards PROVE Safe(s)' <=> Safe(s)
  BY DEF Safe, TensorsIn
<1>5. BehindSafe'
  <2>1. ASSUME NEW s \in Shards \ ToDo' PROVE Safe(s) /\ (s \in layout.pinned => part[s] = "whole")
    BY <1>3, <2>1 DEF BehindSafe, Reading
  <2>2. QED
    BY <1>4, <2>1 DEF BehindSafe
<1>6. NothingLost'
  <2>1. \A s \in Shards : Processed(s)' => Processed(s) \/ s = Shard
    BY DEF Processed
  <2>2. \A s \in Shards : Processed(s)' => Safe(s)
    BY <2>1 DEF NothingLost, Safe
  <2>3. QED
    BY <1>4, <2>2 DEF NothingLost, Safe
<1>7. Complete' = {}
  BY DEF LayersFlushed, Complete
<1>8. LayersFlushed'
  BY <1>7 DEF LayersFlushed, Reading
<1>9. PartsKept'
  BY DEF PartsKept
<1>10. QED
  BY <1>2, <1>5, <1>6, <1>8, <1>9 DEF ShardInHand, HeldOfShard, PinnedIsLast, HasShard

LEMMA SkipShardInv ==
  ASSUME PrepInv, SkipShard
  PROVE  PrepInv'
<1> USE DEF PrepInv
<1>1. pc = "shard" /\ todo # NoShards /\ Processed(Shard)
  BY DEF SkipShard, AtShard
<1>2. Shard \in Shards
  BY <1>1, ShardToDo
<1>3. Safe(Shard)
  BY <1>1, <1>2 DEF NothingLost, Safe
<1>4. part[Shard] = "whole" /\ Shard \notin shardFile
  BY <1>1, <1>2 DEF Processed, PartsKept, PrepTypeOK, FileState
<1>5. UNCHANGED <<layout, part, layerFile, held, shardFile, pc>> /\ todo' = OthersToDo
  BY DEF SkipShard, disk, arrays
<1>6. QED
  BY <1>1, <1>3, <1>4, <1>5, OnwardInv

LEMMA DeleteShardInv ==
  ASSUME PrepInv, DeleteShard
  PROVE  PrepInv'
<1> USE DEF PrepInv
<1>1. pc = "delete" /\ todo # NoShards /\ Safe(Shard)
  BY DEF DeleteShard, ShardInHand, HasShard
<1>2. Shard \in Shards
  BY <1>1, ShardToDo
<1>3. Shard \in layout.pinned => part[Shard] = "whole"
  BY <1>1 DEF PartsKept
<1>4. part[Shard] # "torn"
  BY <1>2, <1>3 DEF PartsKept
<1>5. QED
  BY <1>1, <1>3, <1>4, OnwardInv DEF DeleteShard, arrays

LEMMA FetchShardInv ==
  ASSUME PrepInv, FetchShard
  PROVE  PrepInv'
<1> USE DEF PrepInv
<1>1. /\ pc = "shard" /\ shardFile' = shardFile \cup {Shard} /\ Shard \in Shards
      /\ UNCHANGED <<layout, part, layerFile, pc, todo, held>>
  BY ShardToDo DEF FetchShard, AtShard, memory, arrays
<1> HIDE DEF Shard
<1>2. PrepTypeOK'
  BY <1>1 DEF PrepTypeOK
<1>3. \A s \in Shards : Safe(s)' <=> Safe(s)
  BY <1>1 DEF Safe, TensorsIn
<1>4. BehindSafe'
  BY <1>1, <1>3 DEF BehindSafe, ToDo, Reading
<1>5. NothingLost'
  BY <1>1, <1>3 DEF NothingLost, Processed, Safe
<1>6. PartsKept'
  BY <1>1 DEF PartsKept
<1>7. LayersFlushed'
  BY <1>1 DEF LayersFlushed, Complete, Reading
<1>8. QED
  BY <1>1, <1>2, <1>4, <1>5, <1>6, <1>7 DEF ShardInHand, HeldOfShard, PinnedIsLast, HasShard

\* A shard is read: its tensors are held with those carried so far.
LEMMA LoadShardInv ==
  ASSUME PrepInv, LoadShard
  PROVE  PrepInv'
<1> USE DEF PrepInv
<1>1. /\ pc = "shard" /\ pc' = "flush" /\ todo # NoShards /\ Shard \in shardFile
      /\ held' = held \cup TensorsIn(Shard) /\ UNCHANGED <<layout, shardFile, part, layerFile, todo>>
  BY DEF LoadShard, AtShard, disk
<1>2. Shard \in Shards /\ Shard' = Shard
  BY <1>1, ShardToDo DEF Shard, Least
<1> HIDE DEF Shard
<1>3. PrepTypeOK'
  BY <1>1, <1>2 DEF PrepTypeOK, TensorsIn
<1>4. \A s \in Shards : Safe(s) => Safe(s)'
  BY <1>1 DEF Safe, TensorsIn
<1>5. Safe(Shard)'
  BY <1>1, <1>2 DEF Safe, TensorsIn
<1>6. ShardInHand'
  BY <1>1, <1>2, <1>5 DEF ShardInHand
<1>7. BehindSafe'
  BY <1>1, <1>4 DEF BehindSafe, ToDo, Reading
<1>8. NothingLost'
  BY <1>1, <1>4 DEF NothingLost, Processed, Safe
<1>9. PartsKept'
  BY <1>1, <1>2 DEF PartsKept
<1>10. HeldOfShard'
  <2>1. ~Spanning => held = {}
    BY <1>1, AlignedComplete DEF LayersFlushed
  <2>2. QED
    BY <1>1, <1>2, <2>1 DEF HeldOfShard, Spanning, TensorsIn
<1>11. LayersFlushed' /\ PinnedIsLast'
  BY <1>1 DEF LayersFlushed, PinnedIsLast, Reading
<1>12. QED
  BY <1>3, <1>6, <1>7, <1>8, <1>9, <1>10, <1>11

\* A step with the shard still in hand, that takes nothing from what was safe.
LEMMA WithinShard ==
  ASSUME PrepInv, HasShard, HasShard', UNCHANGED <<layout, shardFile, todo>>, PrepTypeOK',
         \A s \in Shards : Safe(s) => Safe(s)',
         \A s \in Shards : s # Shard => part'[s] = part[s],
         LayersFlushed', HeldOfShard', PartsKept'
  PROVE  PrepInv'
<1> USE DEF PrepInv
<1>1. Shard \in ToDo /\ Shard \in Shards /\ Shard' = Shard /\ ToDo' = ToDo
  BY ShardToDo DEF ShardInHand, Shard, Least, ToDo
<1> HIDE DEF Shard
<1>2. ShardInHand'
  BY <1>1 DEF ShardInHand, HasShard, Safe, TensorsIn
<1>3. BehindSafe'
  BY <1>1 DEF BehindSafe, Reading, HasShard
<1>4. NothingLost'
  <2>1. ASSUME NEW s \in Shards, Processed(s)' PROVE Safe(s)'
    <3>1. s # Shard
      BY <1>1, <2>1 DEF ShardInHand, Processed
    <3>2. Processed(s)
      BY <2>1, <3>1 DEF Processed
    <3>3. QED
      BY <3>2 DEF NothingLost, Safe
  <2>2. QED
    BY <2>1 DEF NothingLost, Safe
<1>5. PinnedIsLast'
  BY DEF PinnedIsLast, HasShard
<1>6. QED
  BY <1>2, <1>3, <1>4, <1>5

\* A layer that is whole, or becomes it, takes its tensors with it.
LEMMA ForgetInv ==
  ASSUME PrepInv, pc \in {"flush", "write layer"}, pc' = "flush", Complete # {},
         Forget(Least(Complete)), UNCHANGED <<layout, shardFile, part, todo>>,
         layerFile' \in [Layers -> FileState], layerFile'[Least(Complete)] = "whole",
         \A l \in Layers : layerFile[l] = "whole" => layerFile'[l] = "whole"
  PROVE  PrepInv'
<1> DEFINE l == Least(Complete)
<1>1. l \in Layers
  BY LeastComplete
<1>2. held' = {t \in held : t[1] # l}
  BY DEF Forget, TensorsOf
<1> HIDE DEF l
<1>3. PrepTypeOK'
  BY <1>2 DEF PrepInv, PrepTypeOK
<1>4. ASSUME NEW s \in Shards, Safe(s) PROVE Safe(s)'
  <2>1. ASSUME NEW t \in TensorsIn(s) PROVE layerFile'[t[1]] = "whole" \/ t \in held'
    <3>1. layerFile[t[1]] = "whole" \/ t \in held
      BY <1>4 DEF Safe
    <3>2. t[1] \in Layers
      BY DEF TensorsIn
    <3>3. CASE t[1] = l
      BY <3>3 DEF l
    <3>4. CASE t[1] # l
      BY <1>2, <3>1, <3>2, <3>4
    <3>5. QED
      BY <3>3, <3>4
  <2>2. QED
    BY <2>1 DEF Safe, TensorsIn
<1>5. LayersFlushed'
  BY DEF LayersFlushed, Reading
<1>6. Shard' = Shard
  BY DEF Shard, Least
<1>7. HeldOfShard'
  BY <1>2, <1>6 DEF PrepInv, HeldOfShard, Spanning
<1>8. PartsKept'
  BY <1>6 DEF PrepInv, PartsKept
<1>9. QED
  BY <1>3, <1>4, <1>5, <1>7, <1>8, WithinShard DEF HasShard

LEMMA LayerInv ==
  ASSUME PrepInv, SkipLayer \/ EndLayer
  PROVE  PrepInv'
<1>1. Complete # {} /\ pc \in {"flush", "write layer"} /\ pc' = "flush"
  BY DEF SkipLayer, EndLayer, PrepInv, LayersFlushed
<1>2. Least(Complete) \in Layers
  BY <1>1, LeastComplete
<1>3. layerFile \in [Layers -> FileState]
  BY DEF PrepInv, PrepTypeOK
<1>4. /\ layerFile' \in [Layers -> FileState] /\ layerFile'[Least(Complete)] = "whole"
      /\ \A l \in Layers : layerFile[l] = "whole" => layerFile'[l] = "whole"
  BY <1>2, <1>3 DEF SkipLayer, EndLayer, Written, disk, FileState
<1>5. QED
  BY <1>1, <1>4, ForgetInv DEF SkipLayer, EndLayer, disk

\* A layer is only written anew while all its tensors are held.
LEMMA BeginLayerInv ==
  ASSUME PrepInv, BeginLayer
  PROVE  PrepInv'
<1> DEFINE l == Least(Complete)
<1>1. l \in Layers /\ {l} \X layout.tensors[l] \subseteq held
  BY LeastComplete DEF BeginLayer, Complete
<1>2. layerFile' = [layerFile EXCEPT ![l] = "torn"] /\ UNCHANGED <<layout, shardFile, part, todo, held>>
  BY DEF BeginLayer, arrays
<1> HIDE DEF l
<1>3. PrepTypeOK'
  BY <1>2 DEF BeginLayer, PrepInv, PrepTypeOK, FileState
<1>4. ASSUME NEW s \in Shards, Safe(s) PROVE Safe(s)'
  <2>1. ASSUME NEW t \in TensorsIn(s) PROVE layerFile'[t[1]] = "whole" \/ t \in held'
    <3>1. t[1] \in Layers /\ s \in layout.tensors[t[1]] /\ t = <<t[1], s>>
      BY DEF TensorsIn
    <3>2. CASE t[1] = l
      BY <1>1, <1>2, <3>1, <3>2
    <3>3. CASE t[1] # l
      BY <1>2, <1>4, <3>1, <3>3 DEF Safe, PrepInv, PrepTypeOK
    <3>4. QED
      BY <3>2, <3>3
  <2>2. QED
    BY <1>2, <2>1 DEF Safe, TensorsIn
<1>5. Complete' = Complete
  BY <1>2 DEF Complete
<1>6. LayersFlushed'
  BY <1>5 DEF BeginLayer, LayersFlushed, Reading
<1>7. Shard' = Shard
  BY <1>2 DEF Shard, Least
<1>8. HeldOfShard' /\ PartsKept'
  BY <1>2, <1>7 DEF BeginLayer, PrepInv, HeldOfShard, PartsKept, Spanning
<1>9. QED
  BY <1>2, <1>3, <1>4, <1>6, <1>8, WithinShard DEF BeginLayer, HasShard

\* The part of the shard in hand is written, and its bytes are carried.
LEMMA PartInv ==
  ASSUME PrepInv, BeginPart \/ EndPart \/ Carry
  PROVE  PrepInv'
<1> USE DEF PrepInv
<1>1. /\ pc \in {"flush", "write part", "carry"} /\ pc' \in {"write part", "carry", "delete"}
      /\ UNCHANGED <<layout, shardFile, layerFile, todo, held>>
  BY DEF BeginPart, EndPart, Carry, disk, arrays
<1>2. todo # NoShards /\ Shard \in shardFile /\ Shard \in Shards /\ Shard' = Shard
  BY <1>1, ShardToDo DEF ShardInHand, HasShard, Shard, Least
<1>3. Complete = {} /\ Complete' = Complete
  BY <1>1 DEF BeginPart, EndPart, Carry, Flushed, LayersFlushed, Complete
<1> HIDE DEF Shard
<1>4. /\ \A s \in Shards : s # Shard => part'[s] = part[s]
      /\ part' \in [Shards -> FileState]
      /\ Shard \notin layout.pinned => part' = part
  BY <1>2 DEF BeginPart, EndPart, Carry, disk, PrepTypeOK, FileState
<1>5. pc' \in {"carry", "delete"} /\ Shard \in layout.pinned => part'[Shard] = "whole"
  BY <1>2 DEF BeginPart, EndPart, Carry, disk, PartsKept, PrepTypeOK
<1>6. PrepTypeOK'
  BY <1>1, <1>4 DEF PrepTypeOK
<1>7. PartsKept'
  BY <1>1, <1>2, <1>4, <1>5 DEF PartsKept
<1>8. LayersFlushed' /\ HeldOfShard'
  BY <1>1, <1>3 DEF LayersFlushed, HeldOfShard, Reading
<1>9. \A s \in Shards : Safe(s) => Safe(s)'
  BY <1>1 DEF Safe, TensorsIn
<1>10. QED
  BY <1>1, <1>4, <1>6, <1>7, <1>8, <1>9, WithinShard DEF HasShard

\* When the list is done, every layer file is whole.
LEMMA AllWhole ==
  ASSUME PrepInv, pc = "shard", todo = NoShards, NEW l \in Layers
  PROVE  layerFile[l] = "whole"
<1>1. Shards \ ToDo = Shards
  BY DEF ToDo, NoShards
<1>2. SUFFICES ASSUME layerFile[l] # "whole" PROVE l \in Complete
  BY DEF PrepInv, LayersFlushed
<1>3. ASSUME NEW s \in layout.tensors[l] PROVE <<l, s>> \in held
  <2>1. s \in Shards /\ <<l, s>> \in TensorsIn(s)
    BY <1>3, LayoutTensors DEF PrepInv, TensorsIn
  <2>2. Safe(s)
    BY <1>1, <2>1 DEF PrepInv, BehindSafe, Reading
  <2>3. QED
    BY <1>2, <2>1, <2>2 DEF Safe
<1>4. QED
  BY <1>3 DEF Complete

\* The merge: nothing is held any more, and nothing has to be.
LEMMA MergeInv ==
  ASSUME PrepInv, BeginPinned \/ EndPinned \/ RemoveParts
  PROVE  PrepInv'
<1> USE DEF PrepInv
<1>1. /\ \A l \in Layers : layerFile[l] = "whole"
      /\ held' = {} /\ UNCHANGED <<layout, shardFile, layerFile, todo>>
      /\ pc' \in {"write pinned", "clean", "publish"}
  BY AllWhole DEF BeginPinned, EndPinned, RemoveParts, PinnedIsLast, LayersFlushed, Reading, arrays
<1>2. \A s \in Shards : part'[s] = part[s] \/ part'[s] = "none"
  BY DEF BeginPinned, EndPinned, RemoveParts
<1>3. part' \in [Shards -> FileState]
  BY DEF BeginPinned, EndPinned, RemoveParts, PrepTypeOK, FileState
<1>4. PrepTypeOK'
  BY <1>1, <1>3 DEF PrepTypeOK
<1>5. NothingLost'
  BY <1>1 DEF NothingLost, TensorsIn
<1>6. PartsKept'
  BY <1>1, <1>2 DEF PartsKept
<1>7. PinnedIsLast'
  <2>1. ASSUME pc' = "write pinned", NEW s \in layout.pinned PROVE part'[s] = "whole"
    <3>1. pc = "shard" /\ todo = NoShards /\ part' = part
      BY <2>1 DEF BeginPinned, EndPinned, RemoveParts
    <3>2. s \in Shards /\ s \notin ToDo
      BY <3>1, LayoutsAssumption DEF ToDo, NoShards, PrepTypeOK
    <3>3. QED
      BY <3>1, <3>2 DEF BehindSafe, Reading
  <2>2. QED
    BY <1>1, <2>1 DEF PinnedIsLast
<1>8. QED
  BY <1>1, <1>4, <1>5, <1>6, <1>7 DEF ShardInHand, LayersFlushed, HeldOfShard, BehindSafe, HasShard, Reading

\* A kill loses what is held: tensors of a shard that is still there.
LEMMA KillInv ==
  ASSUME PrepInv, KillsSpanning = FALSE, Kill
  PROVE  PrepInv'
<1> USE DEF PrepInv
<1>1. /\ ~Spanning /\ pc' = "off" /\ todo' = NoShards /\ held' = {}
      /\ UNCHANGED <<layout, shardFile, part, layerFile>>
  BY DEF Kill, disk, NoArrays
<1>2. PrepTypeOK'
  BY <1>1 DEF PrepTypeOK, NoShards
<1>3. ASSUME NEW s \in Shards, Processed(s), NEW t \in TensorsIn(s) PROVE layerFile[t[1]] = "whole"
  <2>1. SUFFICES ASSUME t \in held PROVE FALSE
    BY <1>3 DEF NothingLost
  <2>2. t[1] \in Complete
    BY <1>1, <2>1, AlignedComplete
  <2>3. pc \in {"flush", "write layer"}
    BY <2>1, <2>2 DEF LayersFlushed, Reading
  <2>4. t[2] = Shard /\ t[2] = s
    BY <1>1, <2>1, <2>3 DEF HeldOfShard, TensorsIn
  <2>5. QED
    BY <1>3, <2>3, <2>4 DEF ShardInHand, HasShard, Processed
<1>4. NothingLost'
  BY <1>1, <1>3 DEF NothingLost, Processed, TensorsIn
<1>5. PartsKept'
  BY <1>1 DEF PartsKept
<1>6. QED
  BY <1>1, <1>2, <1>4, <1>5 DEF ShardInHand, LayersFlushed, HeldOfShard, BehindSafe, PinnedIsLast, HasShard, Reading

\* Where no kill meets a layer that spans two shards.
THEOREM PrepInvariant ==
  ASSUME KillsSpanning = FALSE
  PROVE  PrepSpec => []PrepInv
<1>1. PrepInv /\ [Next]_prepVars => PrepInv'
  <2>1. SUFFICES ASSUME PrepInv, [Next]_prepVars PROVE PrepInv'
    OBVIOUS
  <2>2. CASE Start
    BY <2>1, <2>2, StartInv
  <2>3. CASE AlreadyThere \/ Publish \/ Done \/ UNCHANGED prepVars
    BY <2>1, <2>3, OverInv DEF Done
  <2>4. CASE SkipShard \/ FetchShard \/ LoadShard \/ DeleteShard
    BY <2>1, <2>4, SkipShardInv, FetchShardInv, LoadShardInv, DeleteShardInv
  <2>5. CASE SkipLayer \/ EndLayer \/ BeginLayer
    BY <2>1, <2>5, LayerInv, BeginLayerInv
  <2>6. CASE BeginPart \/ EndPart \/ Carry
    BY <2>1, <2>6, PartInv
  <2>7. CASE BeginPinned \/ EndPinned \/ RemoveParts
    BY <2>1, <2>7, MergeInv
  <2>8. CASE Kill
    BY <2>1, <2>8, KillInv
  <2>9. QED
    BY <2>1, <2>2, <2>3, <2>4, <2>5, <2>6, <2>7, <2>8 DEF Next, Run
<1>2. QED
  BY <1>1, InitPrepInv, PTL DEF PrepSpec

\* What a next run takes for handled, a deleted shard with a part, has all its
\* tensors in whole layer files or held: whatever kills the runs before met.
THEOREM NothingIsLost ==
  ASSUME KillsSpanning = FALSE
  PROVE  PrepSpec => []NothingLost
<1>1. PrepInv => NothingLost
  BY DEF PrepInv
<1>2. QED
  BY <1>1, PrepInvariant, PTL

\* A run that reaches the merge has written every layer file and every part whole.
THEOREM MergeComesLast ==
  ASSUME KillsSpanning = FALSE
  PROVE  PrepSpec => []PinnedIsLast
<1>1. PrepInv => PinnedIsLast
  BY DEF PrepInv
<1>2. QED
  BY <1>1, PrepInvariant, PTL

-----------------------------------------------------------------------------
(* The arrays that map a shard.                                            *)

MapTypeOK == layerFile \in [Layers -> FileState] /\ shardFile \subseteq Shards

\* The layers' files change only where nothing is lost of what v refers to.
LEMMA MapLayers ==
  ASSUME MapInv, MapTypeOK, SkipLayer \/ BeginLayer \/ EndLayer
  PROVE  MapInv'
<1> DEFINE l == Least(Complete)
<1>1. shardFile' = shardFile /\ pending' = pending /\ last' = last /\ pc' \in {"flush", "write layer"}
  BY DEF SkipLayer, BeginLayer, EndLayer, disk, arrays
<1>2. unread' \subseteq unread /\ held' \subseteq held
  BY DEF SkipLayer, BeginLayer, EndLayer, Forget, arrays
<1>3. \A t \in unread' \cap (held' \cup pending') : t[2] \in shardFile'
  BY <1>1, <1>2 DEF MapInv
<1>4. ASSUME NEW t \in unread' \cap last'
      PROVE  t \in Layers \X Shards /\ (t \in held' \/ layerFile'[t[1]] = "whole")
  <2>1. t \in unread \cap last /\ t \in unread'
    BY <1>1, <1>2, <1>4
  <2>0. t \in Layers \X Shards /\ (t \in held \/ layerFile[t[1]] = "whole")
    BY <2>1 DEF MapInv
  <2>2. CASE SkipLayer
    <3>1. layerFile' = layerFile /\ layerFile[l] = "whole" /\ held' = held \ {x \in held : x[1] = l}
      BY <2>2 DEF SkipLayer, disk, Written, Forget, TensorsOf
    <3>2. QED
      BY <2>0, <3>1
  <2>3. CASE BeginLayer
    <3>1. held' = held /\ layerFile' = [layerFile EXCEPT ![l] = "torn"]
      BY <2>3 DEF BeginLayer, arrays
    <3>2. layerFile[l] # "whole"
      BY <2>3 DEF BeginLayer, Written
    <3>3. QED
      BY <2>0, <3>1, <3>2 DEF MapTypeOK
  <2>4. CASE EndLayer
    <3>1. /\ held' = held \ {x \in held : x[1] = l} /\ unread' = unread \ {x \in held : x[1] = l}
          /\ layerFile' = [layerFile EXCEPT ![l] = "whole"]
      BY <2>4 DEF EndLayer, Forget, TensorsOf
    <3>2. QED
      BY <2>0, <2>1, <3>1 DEF MapTypeOK
  <2>5. QED
    BY <2>0, <2>2, <2>3, <2>4
<1>5. QED
  BY <1>1, <1>3, <1>4 DEF MapInv

LEMMA MapStep ==
  ASSUME MapInv, MapTypeOK, PrepTypeOK, [Next]_prepVars
  PROVE  MapInv'
<1>1. CASE AlreadyThere \/ Publish \/ Done \/ UNCHANGED prepVars
  BY <1>1 DEF AlreadyThere, Publish, Done, prepVars, disk, memory, arrays, MapInv
<1>2. CASE Start \/ Kill
  BY <1>2 DEF Start, Kill, NoArrays, MapInv
<1>3. CASE SkipShard \/ BeginPart \/ EndPart \/ EndPinned \/ RemoveParts
  BY <1>3 DEF SkipShard, AtShard, BeginPart, EndPart, EndPinned, RemoveParts, disk, arrays, MapInv
<1>4. CASE FetchShard
  BY <1>4 DEF FetchShard, AtShard, memory, arrays, MapInv
<1>5. CASE LoadShard
  <2>1. /\ held' = held \cup TensorsIn(Shard) /\ unread' = unread \cup TensorsIn(Shard)
        /\ pending' = pending /\ shardFile' = shardFile /\ layerFile' = layerFile /\ pc' = "flush"
        /\ last' \subseteq TensorsIn(Shard) /\ Shard \in shardFile
    BY <1>5 DEF LoadShard, AtShard, disk
  <2>2. Shard \in Shards /\ \A t \in TensorsIn(Shard) : t \in Layers \X Shards /\ t[2] = Shard
    BY <1>5, ShardToDo DEF LoadShard, AtShard, TensorsIn
  <2> HIDE DEF Shard
  <2>3. QED
    BY <2>1, <2>2 DEF MapInv
<1>6. CASE SkipLayer \/ BeginLayer \/ EndLayer
  BY <1>6, MapLayers
<1>7. CASE Carry
  BY <1>7 DEF Carry, Carried, disk, MapInv
<1>8. CASE DeleteShard
  BY <1>8 DEF DeleteShard, arrays, MapInv
<1>9. CASE BeginPinned
  BY <1>9 DEF BeginPinned, MapInv
<1>10. QED
  BY <1>1, <1>2, <1>3, <1>4, <1>5, <1>6, <1>7, <1>8, <1>9 DEF Next, Run

\* The variables have their types, whatever spans what.
LEMMA TypeStep ==
  ASSUME PrepTypeOK, [Next]_prepVars
  PROVE  PrepTypeOK'
<1> USE DEF PrepTypeOK
<1>1. CASE AlreadyThere \/ Publish \/ Done \/ UNCHANGED prepVars
  BY <1>1 DEF AlreadyThere, Publish, Done, prepVars, disk, memory, arrays
<1>2. CASE Start \/ Kill
  <2>1. UNCHANGED <<layout, shardFile, part, layerFile>> /\ held' = {} /\ pc' \in {"shard", "off"}
    BY <1>2 DEF Start, Kill, NoArrays, disk
  <2>2. todo' = [here |-> shardFile, later |-> Shards \ shardFile] \/ todo' = [here |-> {}, later |-> {}]
    BY <1>2 DEF Start, Kill, NoShards
  <2>3. PICK A \in SUBSET Shards, B \in SUBSET Shards : todo' = [here |-> A, later |-> B]
    <3>1. shardFile \in SUBSET Shards /\ Shards \ shardFile \in SUBSET Shards /\ {} \in SUBSET Shards
      OBVIOUS
    <3> HIDE DEF PrepTypeOK
    <3>2. QED
      BY <2>2, <3>1, Zenon
  <2>4. todo' \in [here : SUBSET Shards, later : SUBSET Shards]
    BY <2>3
  <2>5. \A t \in held' : t[2] \in layout'.tensors[t[1]]
    BY <2>1
  <2>6. QED
    BY <2>1, <2>4, <2>5
<1>3. CASE SkipShard \/ DeleteShard
  <2>1. /\ UNCHANGED <<layout, part, layerFile, held>> /\ pc' = "shard"
        /\ shardFile' = shardFile \/ shardFile' = shardFile \ {Shard}
        /\ todo' = [here |-> todo.here \ {Shard}, later |-> todo.later \ {Shard}]
    BY <1>3 DEF SkipShard, DeleteShard, OthersToDo, AtShard, disk, arrays
  <2>2. QED
    BY <2>1
<1>4. CASE FetchShard \/ LoadShard
  <2>1. Shard \in Shards
    BY <1>4, ShardToDo DEF FetchShard, LoadShard, AtShard
  <2> HIDE DEF Shard
  <2>2. QED
    BY <1>4, <2>1 DEF FetchShard, LoadShard, AtShard, TensorsIn, disk, memory, arrays
<1>5. CASE SkipLayer \/ BeginLayer \/ EndLayer
  BY <1>5 DEF SkipLayer, BeginLayer, EndLayer, Forget, disk, arrays, FileState
<1>6. CASE BeginPart \/ EndPart \/ Carry
  BY <1>6 DEF BeginPart, EndPart, Carry, disk, arrays, FileState
<1>7. CASE BeginPinned \/ EndPinned \/ RemoveParts
  BY <1>7 DEF BeginPinned, EndPinned, RemoveParts, arrays, FileState
<1>8. QED
  BY <1>1, <1>2, <1>3, <1>4, <1>5, <1>6, <1>7 DEF Next, Run

\* No tensor in memory maps a shard that was deleted, whatever spans what and
\* whenever runs are killed, but the one that the loop variable v still refers to,
\* of a layer that was found written.
THEOREM DeletedAreFreed == PrepSpec => []DeletedShardsFreed
<1> DEFINE I == PrepTypeOK /\ MapInv
<1>1. Init => I
  BY InitPrepInv DEF PrepInv, Init, MapInv
<1>2. I /\ [Next]_prepVars => I'
  BY MapStep, TypeStep DEF PrepTypeOK, MapTypeOK
<1>3. I => DeletedShardsFreed
  BY DEF MapInv, DeletedShardsFreed, Mapped
<1>4. QED
  BY <1>1, <1>2, <1>3, PTL DEF PrepSpec
=============================================================================
