--------------------------- MODULE MCExpertReader ---------------------------
(* Small instances of ExpertReader.                                        *)
EXTENDS ExpertReader, TLC

MCValues == [block : Key, whole : BOOLEAN]

\* The engine passes sorted ids, each once.
MCIdLists == {<<0>>, <<1>>, <<0, 1>>}

\* Fewer lists, for the instance that checks liveness.
MCFewLists == {<<0>>, <<0, 1>>}
WorkerSymmetry == Permutations(Workers)
=============================================================================
