------------------------ MODULE MCLlamaExpertCache ------------------------
(***************************************************************************)
(* Two threads, a tensor of small experts, one whose experts are larger    *)
(* than the budget, one that is not stacked.  The budget holds two of the  *)
(* small experts, which are not a whole number of pages.                   *)
(***************************************************************************)
EXTENDS LlamaExpertCache, TLC

CONSTANTS t1, t2, a1, a2, a3, small, large, plain

MCThreads == {t1, t2}
MCAddrs == {a1, a2, a3}
MCTensors == {small, large, plain}
MCStride == small :> 3 @@ large :> 10 @@ plain :> 0
MCDataOf == small :> 5 @@ large :> 18 @@ plain :> 0
MCIdLists == {<<0, 1, 2>>, <<-1, 2>>}
MCSymmetry == Permutations(MCThreads) \cup Permutations(MCAddrs)
===========================================================================
