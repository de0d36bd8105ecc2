------------------------------- MODULE MCSlice -------------------------------
(* Two layers of two experts, cached two at a time, and five n-gram rows.  *)
EXTENDS Slice, TLC

CONSTANTS a, b

MCScore == a :> (0 :> 1 @@ 1 :> 2) @@ b :> (0 :> 2 @@ 1 :> 1)
MCRosters == {{}, {b}}
MCSlices == {{0}, {0, 1}}
MCHashed == {<<0, 0>>, <<0, 1>>, <<1, 0>>}
MCRevised == {<<0, 1>>}
MCIdSets == {{0}, {0, 1}}
MCGaps == "weight" :> 0 @@ "scales" :> 1
MCLookups == {<<3, 1, 3>>, <<4, 2>>, <<0, 4, 1>>, <<2, 3, 0, 5>>}
=============================================================================
