----------------------------- MODULE SpecDecode -----------------------------
(***************************************************************************)
(* spec_generate_stream and its drafts, of                                 *)
(* src/mlx_expert_sniper/speculative.py.  A round drafts up to k tokens,   *)
(* verifies them in one forward pass of the target, rolls the caches back  *)
(* over what was rejected and yields the rest.  A KV cache is the sequence *)
(* of the tokens fed to it; a forward pass predicts, after each token it   *)
(* is fed, from all the cache holds by then.  The hidden states the        *)
(* forward pass captures are the sequence of the tokens they belong to.    *)
(***************************************************************************)
EXTENDS Naturals, Sequences

CONSTANTS
  Token, Stop, Prompts, MaxTokens, Target(_),
  DraftModel(_),   \* argmax of the draft model after a sequence of tokens
  DFlashHead(_, _),   \* the block the head denoises from states and the last token
  K,               \* tokens to draft, k
  MaxNgram,        \* max_ngram
  Guesses,         \* what a remote server can propose
  Sources          \* the drafts requests use: "lookup", "model", "remote", "dflash"

ASSUME KAssumption == K \in Nat \ {0} /\ MaxTokens \in Nat /\ MaxNgram \in Nat
ASSUME TokenAssumption == Stop \subseteq Token
ASSUME PromptsAssumption == Prompts \subseteq Seq(Token) \ {<<>>}
ASSUME GuessesAssumption == Guesses \subseteq Seq(Token)
ASSUME SourcesAssumption == Sources \subseteq {"lookup", "model", "remote", "dflash"}

VARIABLES
  prompt, out, open,   \* as in GreedyDecode
  pc,        \* where the generator is: "idle", "draft", "verify" or "emit"
  source,    \* the draft of the request
  context,   \* prompt and yielded tokens
  cur,       \* the newest token, not in the KV cache
  kv,        \* the target's KV cache
  drafts,    \* this round's drafts
  tokens,    \* out_tokens still to be yielded
  cached,    \* ModelDraft._cached, and so its KV cache
  pending,   \* ModelDraft._pending
  capturing, \* a DFlashDraft was made: engine.capture_layers is set
  captured   \* engine.captured

request == <<prompt, out, open, source, context>>
modelDraft == <<cached, pending>>
dflash == <<capturing, captured>>
draftVars == <<modelDraft, dflash>>
specVars == <<request, pc, cur, kv, drafts, tokens, draftVars>>

First(s, n) == SubSeq(s, 1, n)
AllButLast(s) == First(s, Len(s) - 1)
LastOf(s) == s[Len(s)]

SpecInit ==
  /\ prompt = <<>> /\ out = <<>> /\ open = FALSE
  /\ pc = "idle"
  /\ source \in Sources
  /\ context = <<>> /\ cur \in Token /\ kv = <<>>
  /\ drafts = <<>> /\ tokens = <<>>
  /\ cached = <<>> /\ pending = 0
  /\ capturing = FALSE /\ captured = <<>>

-----------------------------------------------------------------------------

\* reset_cache and the prefill: the last prompt token stays out of the cache.
Prefilled(p) == AllButLast(p)

\* The hidden states kept after a forward pass over fed.
Capture(on, states, fed) == IF on THEN states \o fed ELSE states

\* A request begins, the generator of the one before having ended or been left
\* at one of its yields by a consumer that went away.  A ModelDraft kept between
\* requests is reset before a request uses it, so it is reset at each.
Request ==
  /\ pc \in {"idle", "draft", "emit"}
  /\ \E p \in Prompts, s \in Sources :
       /\ prompt' = p
       /\ context' = p
       /\ kv' = Prefilled(p)
       /\ cur' = LastOf(p)
       /\ source' = s
       /\ cached' = <<>>
       /\ pending' = 0
       /\ capturing' = (capturing \/ s = "dflash")
       /\ captured' = Capture(capturing', <<>>, Prefilled(p))
  /\ out' = <<>>
  /\ open' = (MaxTokens > 0)
  /\ pc' = IF MaxTokens > 0 THEN "draft" ELSE "idle"
  /\ drafts' = <<>>
  /\ tokens' = <<>>

\* The length of the longest common prefix of the cached tokens and the context.
Matching ==
  CHOOSE n \in 0 .. Len(cached) :
    /\ n <= Len(context)
    /\ First(cached, n) = First(context, n)
    /\ n < Len(cached) /\ n < Len(context) => cached[n + 1] # context[n + 1]

\* _sync: what of the draft's cache is kept.  With nothing new to feed the last
\* token is fed again.
Synced == First(cached, IF Matching < Len(context) THEN Matching ELSE Len(context) - 1)

\* Greedy tokens of the draft model, n of them, when its cache ends up with c.
Continuation(c) ==
  LET run[n \in 0 .. K] == IF n = 0 THEN <<>>
                           ELSE Append(run[n - 1], DraftModel(c \o run[n - 1]))
  IN  run[K]

\* Mutant: a later round feeds the target's correction and nothing else.
ModelDraftsOfCorrection ==
  /\ source = "model"
  /\ LET fed == IF cached = <<>> THEN context ELSE Append(cached, LastOf(context))
     IN  /\ drafts' = Continuation(fed)
         /\ cached' = fed \o AllButLast(Continuation(fed))
  /\ pending' = K - 1

\* draft(context, k)
ModelDrafts ==
  /\ source = "model"
  /\ LET fed == Synced \o SubSeq(context, Len(Synced) + 1, Len(context))
     IN  /\ drafts' = Continuation(fed)
         /\ cached' = fed \o AllButLast(Continuation(fed))
  /\ pending' = K - 1

\* Where the last n tokens of the context occur before, by the number of tokens ahead.
Earlier(n) ==
  {s \in 0 .. Len(context) - n - 1 :
     SubSeq(context, s + 1, s + n) = SubSeq(context, Len(context) - n + 1, Len(context))}

\* prompt_lookup_draft: what followed the newest match of the longest suffix.
LookedUp ==
  LET found == {n \in 1 .. MaxNgram : n < Len(context) /\ Earlier(n) # {}}
      n == CHOOSE n \in found : \A m \in found : m <= n
      s == CHOOSE s \in Earlier(n) : \A t \in Earlier(n) : t <= s
  IN  IF found = {} THEN <<>>
      ELSE SubSeq(context, s + n + 1, IF s + n + K < Len(context) THEN s + n + K ELSE Len(context))

LookupDrafts ==
  /\ source = "lookup"
  /\ drafts' = LookedUp
  /\ UNCHANGED modelDraft

\* RemoteDraft: what the server answered, encoded again; nothing when it failed.
RemoteDrafts ==
  /\ source = "remote"
  /\ drafts' \in {<<>>} \cup Guesses
  /\ UNCHANGED modelDraft

\* DFlashDraft: nothing before a forward pass was captured.
DFlashDrafts ==
  /\ source = "dflash"
  /\ LET block == DFlashHead(captured, LastOf(context))
     IN  drafts' = IF captured = <<>> THEN <<>>
                   ELSE First(block, IF K < Len(block) THEN K ELSE Len(block))
  /\ UNCHANGED modelDraft

Draft ==
  /\ pc = "draft"
  /\ pc' = "verify"
  /\ LookupDrafts \/ ModelDrafts \/ RemoteDrafts \/ DFlashDrafts
  /\ UNCHANGED <<request, cur, kv, tokens, dflash>>

\* The target's prediction after i of the tokens <<cur, d1, ..., dk>>.
Pred(i) == Target(kv \o First(<<cur>> \o drafts, i))

\* Mutant: the first draft is taken on trust.
AcceptedFromSecond ==
  CHOOSE m \in 0 .. Len(drafts) :
    /\ \A i \in 2 .. m : drafts[i] = Pred(i)
    /\ m < Len(drafts) => m > 0 /\ drafts[m + 1] # Pred(m + 1)

\* How many drafts match.
Accepted ==
  CHOOSE m \in 0 .. Len(drafts) :
    /\ \A i \in 1 .. m : drafts[i] = Pred(i)
    /\ m < Len(drafts) => drafts[m + 1] # Pred(m + 1)

\* The target's KV cache after the forward pass of a round.
Forwarded == kv \o <<cur>> \o drafts

\* Mutants: the target's cache is trimmed by one token less; the captured states
\* of rejected drafts stay.
KeptOneMore(m) == First(Forwarded, Len(kv) + 1 + (IF m < Len(drafts) THEN m + 1 ELSE m))
CapturedUntrimmed(rejected) == Capture(capturing, captured, <<cur>> \o drafts)

\* The KV cache after the rollback over the rejected drafts.
Kept(m) == First(Forwarded, Len(Forwarded) - (Len(drafts) - m))

\* ModelDraft.trim: the last draft was never fed, so one position less goes.
TrimmedTo(rejected) ==
  Len(cached) - (IF pending < rejected - 1 THEN pending ELSE rejected - 1)

\* The states captured in the verify pass, and DFlashDraft.trim.
CapturedThen(rejected) ==
  LET all == Capture(capturing, captured, <<cur>> \o drafts)
  IN  First(all, IF source = "dflash" THEN Len(all) - rejected ELSE Len(all))

Verify ==
  /\ pc = "verify"
  /\ pc' = "emit"
  /\ LET m == Accepted
         rejected == Len(drafts) - Accepted
     IN  /\ kv' = Kept(m)
         /\ tokens' = Append(First(drafts, m), Pred(m + 1))
         /\ IF source = "model" /\ rejected > 0 /\ pending > 0
            THEN cached' = First(cached, TrimmedTo(rejected)) /\ pending' = 0
            ELSE UNCHANGED modelDraft
         /\ captured' = CapturedThen(rejected)
  /\ drafts' = <<>>
  /\ UNCHANGED <<request, cur, capturing>>

\* A stop token ends the generator without being yielded.
EmitStop ==
  /\ pc = "emit"
  /\ open
  /\ Head(tokens) \in Stop
  /\ open' = FALSE
  /\ pc' = "idle"
  /\ tokens' = <<>>
  /\ UNCHANGED <<prompt, out, source, context, cur, kv, drafts, draftVars>>

AtLimit == Len(out) + 1 >= MaxTokens

\* The next token is yielded; after the last one of the round, the target's own
\* prediction is the new cur.
Emit ==
  /\ pc = "emit"
  /\ open
  /\ Head(tokens) \notin Stop
  /\ out' = Append(out, Head(tokens))
  /\ context' = Append(context, Head(tokens))
  /\ open' = ~AtLimit
  /\ tokens' = IF AtLimit THEN <<>> ELSE Tail(tokens)
  /\ pc' = IF AtLimit THEN "idle" ELSE IF Len(tokens) = 1 THEN "draft" ELSE "emit"
  /\ cur' = IF Len(tokens) = 1 THEN Head(tokens) ELSE cur
  /\ UNCHANGED <<prompt, source, kv, drafts, draftVars>>

SpecNext == Request \/ Draft \/ Verify \/ EmitStop \/ Emit

SpecDecodeSpec == SpecInit /\ [][SpecNext]_specVars

-----------------------------------------------------------------------------
(* Properties.                                                             *)

IsPrefixOf(s, t) == Len(s) <= Len(t) /\ \A i \in 1 .. Len(s) : s[i] = t[i]

Greedy == INSTANCE GreedyDecode

\* Whatever the drafts are, the consumer sees exactly the tokens greedy decoding
\* without drafts yields, and the generator ends at the same one.
RefinesGreedy == Greedy!GreedySpec

\* When a round begins, the target's KV cache holds the context without its last
\* token, which is cur: nothing of a rejected draft or of an earlier request.
KVMatchesContext ==
  pc = "draft" => kv = AllButLast(context) /\ cur = LastOf(context) /\ context = prompt \o out

\* What a draft is conditioned on then follows the target: the draft model's
\* cache holds a strict prefix of the context, so a round always has new tokens to
\* feed and _sync never drops any, and the captured states are those of the tokens
\* in the target's cache, whatever drafts and requests came before.
DraftStateFollows ==
  pc = "draft" =>
    /\ source = "model" => IsPrefixOf(cached, context) /\ Len(cached) < Len(context)
    /\ source = "dflash" => captured = kv

\* Drafting with the cache gives the draft of a draft model without one.
CachedDraftIsStateless ==
  pc = "verify" /\ source = "model" => drafts = Continuation(context)
=============================================================================
