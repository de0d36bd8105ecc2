----------------------------- MODULE Generation -----------------------------
(***************************************************************************)
(* The two ways a loaded model generates, as the server drives them: with  *)
(* make_forward and drafts (SpecDecode), and _generate_stream_own_forward  *)
(* of src/mlx_expert_sniper/generate.py for the engine that owns its       *)
(* forward pass (Qwen4Exp).  load_engine picks one when the server starts. *)
(***************************************************************************)
EXTENDS SpecDecode, Qwen4Exp

CONSTANTS
  Engines,     \* which engines to consider: "qwen" and "qwen4_exp"
  Predict(_)   \* argmax of the logits of a position

ASSUME EnginesAssumption == Engines \subseteq {"qwen", "qwen4_exp"}

VARIABLES
  engine,   \* the loaded engine
  ownPc     \* the generator of its own forward pass: "idle", "pick" or "yielded"

ownVars == <<ownPc, engineVars>>
generationVars == <<engine, specVars, ownVars>>

GenerationInit ==
  /\ engine \in Engines
  /\ SpecInit
  /\ EngineInit
  /\ ownPc = "idle"

-----------------------------------------------------------------------------
(* _generate_stream_own_forward                                            *)

\* What the drafts and their caches are to an engine that has none.
NoDrafts == UNCHANGED <<source, context, pc, cur, kv, drafts, tokens, draftVars>>

\* The whole prompt goes through in one call.
OwnRequest ==
  /\ ownPc \in {"idle", "yielded"}
  /\ \E p \in Prompts : prompt' = p /\ ResetForward(p)
  /\ out' = <<>>
  /\ open' = (MaxTokens > 0)
  /\ ownPc' = IF MaxTokens > 0 THEN "pick" ELSE "idle"
  /\ NoDrafts

Picked == Predict(LastOf(seen))

OwnStop ==
  /\ ownPc = "pick"
  /\ Picked \in Stop
  /\ open' = FALSE
  /\ ownPc' = "idle"
  /\ UNCHANGED <<prompt, out, engineVars>>
  /\ NoDrafts

OwnYield ==
  /\ ownPc = "pick"
  /\ Picked \notin Stop
  /\ out' = Append(out, Picked)
  /\ open' = (Len(out') < MaxTokens)
  /\ ownPc' = "yielded"
  /\ UNCHANGED <<prompt, engineVars>>
  /\ NoDrafts

\* The consumer asks for more: the token goes through, the last one as well.
OwnFeed ==
  /\ ownPc = "yielded"
  /\ Forward(<<LastOf(out)>>)
  /\ ownPc' = IF open THEN "pick" ELSE "idle"
  /\ UNCHANGED request
  /\ NoDrafts

-----------------------------------------------------------------------------

\* do_POST: the server takes one request at a time and leaves the generator where
\* it is when the client goes away.
Post ==
  \/ engine = "qwen" /\ Request /\ UNCHANGED ownVars
  \/ engine = "qwen4_exp" /\ OwnRequest

GenerationNext ==
  /\ UNCHANGED engine
  /\ \/ Post
     \/ engine = "qwen" /\ (Draft \/ Verify \/ EmitStop \/ Emit) /\ UNCHANGED ownVars
     \/ engine = "qwen4_exp" /\ (OwnStop \/ OwnYield \/ OwnFeed)

GenerationSpec == GenerationInit /\ [][GenerationNext]_generationVars
=============================================================================
