---------------------------- MODULE MCPreprocess ----------------------------
(* Three layers in three shards.                                           *)
EXTENDS Preprocess, TLC

\* Every layer in a shard of its own or sharing one; no layer spans two.
Aligned == {(0 :> {1} @@ 1 :> {2} @@ 2 :> {3}), (0 :> {1} @@ 1 :> {1} @@ 2 :> {3})}

\* A layer spans two shards, or three.
SpanningLayers == {(0 :> {1, 2} @@ 1 :> {2} @@ 2 :> {2, 3}), (0 :> {1, 2, 3} @@ 1 :> {1} @@ 2 :> {3})}

MCLayouts ==
  [tensors : Aligned \cup SpanningLayers, pinned : {{1}, {1, 2, 3}}, here : {{}, {2, 3}}]

MCAligned == [tensors : Aligned, pinned : {{1, 2, 3}}, here : {{}}]
MCSpanning == [tensors : SpanningLayers, pinned : {{1, 2, 3}}, here : {{}}]
=============================================================================
