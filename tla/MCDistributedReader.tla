------------------------ MODULE MCDistributedReader ------------------------
(* Two nodes and four experts; see the .cfg files for the rest.            *)
EXTENDS DistributedReader, TLC

MCValues == Key

\* Node 1 serves two experts, node 2 one; expert 3 was left out by every node
\* (a node serves only what fits its memory).
MCServes == (1 :> {0, 1} @@ 2 :> {2})

MCRequests == {{0, 1}, {1, 2, 3}, {0, 3}}

FetchSymmetry == Permutations(FetchWorkers)
=============================================================================
