---------------------------- MODULE GreedyDecode ----------------------------
(***************************************************************************)
(* What a decoding loop promises: generate_stream of                       *)
(* src/mlx_expert_sniper/generate.py.  A request yields, one by one, the   *)
(* tokens the target model picks greedily after everything before them,    *)
(* until it picks a stop token or max_tokens are out.                      *)
(***************************************************************************)
EXTENDS Naturals, Sequences

CONSTANTS
  Token,
  Stop,         \* EOS ids and tokens whose text holds a stop string
  Prompts,      \* tokenized prompts
  MaxTokens,    \* max_tokens
  Target(_)     \* the target model's argmax after a sequence of tokens

VARIABLES
  prompt,   \* the prompt of the request
  out,      \* the tokens yielded
  open      \* the generator has not ended

greedyVars == <<prompt, out, open>>

GreedyInit == prompt = <<>> /\ out = <<>> /\ open = FALSE

\* A request begins; the generator of the one before may have been left unfinished.
Begin ==
  /\ prompt' \in Prompts
  /\ out' = <<>>
  /\ open' = (MaxTokens > 0)

Next1 == Target(prompt \o out)

\* A token is yielded; the last of max_tokens ends the generator.
Yield ==
  /\ open
  /\ Next1 \notin Stop
  /\ out' = Append(out, Next1)
  /\ open' = (Len(out') < MaxTokens)
  /\ UNCHANGED prompt

StopToken ==
  /\ open
  /\ Next1 \in Stop
  /\ open' = FALSE
  /\ UNCHANGED <<prompt, out>>

GreedyNext == Begin \/ Yield \/ StopToken

GreedySpec == GreedyInit /\ [][GreedyNext]_greedyVars
=============================================================================
