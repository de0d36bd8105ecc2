----------------------------- MODULE MCLocalExperts -----------------------------
(* The expert blocks of a machine that runs by itself, in the two programs     *)
(* that keep them: the slice on disk of mlx_expert_sniper and its reader, and   *)
(* the cache of the llama.cpp patch.  They share no state and no process, so    *)
(* a behaviour is of one of the two, and the other stays in its first state.    *)
EXTENDS MCSlice, MCLlamaExpertCache

LocalInit == SliceInit /\ Init

LlamaUntouched == entries = << >> /\ (\A t \in Threads : thr[t] = Idle) /\ ~mixed

OnlySlice == LlamaUntouched /\ SliceNext /\ UNCHANGED vars
OnlyLlama == BlocksUntouched /\ rowCache = <<>> /\ downloads = 0 /\ Next /\ UNCHANGED sliceVars

LocalNext == OnlySlice \/ OnlyLlama

LocalSpec == LocalInit /\ [][LocalNext]_<<sliceVars, vars>>
=============================================================================
