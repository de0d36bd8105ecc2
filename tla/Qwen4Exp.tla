------------------------------ MODULE Qwen4Exp ------------------------------
(***************************************************************************)
(* The streaming forward pass of src/mlx_expert_sniper/models/qwen4_exp.py *)
(* and engine_qwen4exp.py: what each layer remembers between calls, and    *)
(* what a position of the stream therefore depends on.  One linear layer   *)
(* with a per-layer embedding, one attention layer and one layer's routed  *)
(* experts stand for the stack.                                            *)
(* A hidden state is the token of its position; Absent fills the zeros of  *)
(* a fresh state.                                                          *)
(***************************************************************************)
EXTENDS Integers, Sequences, FiniteSets, FiniteSetsExt

CONSTANTS
  Absent,
  Eos,            \* eos_id
  NgramSize,      \* ngram_size
  HeadsPerNgram,  \* heads_per_ngram
  VocabBase,      \* ngram_vocab_size_base
  DivisibleBy,    \* make_ngram_vocab_size_divisible_by
  Parts,          \* split_ngram_parts
  PleIndex,       \* index of the layer in ple_layer_ids
  Mix(_),         \* the multiplied and xored token ids of an n-gram
  ConvKernel,     \* linear_conv_kernel_dim
  PleKernel,      \* ple_conv_kernel_size
  Ratio,          \* indexer_compress_ratio
  Budget,         \* indexer_budget
  Score(_, _, _), \* the indexer's score of a query for a block and its keys
  Routable,       \* 0 .. num_experts - 1
  TopK,           \* num_experts_per_tok
  Gate(_, _)      \* the router's score of a hidden state for an expert

ASSUME SizesAssumption == {NgramSize, ConvKernel, PleKernel} \subseteq Nat \ {0, 1}
ASSUME TableAssumption ==
  {HeadsPerNgram, VocabBase, DivisibleBy, Parts} \subseteq Nat \ {0} /\ PleIndex \in Nat
ASSUME IndexerAssumption == Ratio \in Nat \ {0} /\ Budget \in Nat /\ Budget % Ratio = 0
ASSUME RouterAssumption == Routable \subseteq Nat /\ IsFiniteSet(Routable) /\ TopK \in Nat

VARIABLES
  gdnConv, gdnState,  \* ArraysCache slots 0 and 1: GatedDeltaNet
  pleConv,            \* slot 2: PLELayer.CONV_SLOT
  ngramContext,       \* slot 3: NGramEmbedding.CTX_SLOT
  keys,               \* QSAKVCache: the keys and values
  indexerKeys,        \* QSAKVCache.indexer_keys
  seen                \* what each position of the last call was computed from

engineVars == <<gdnConv, gdnState, pleConv, ngramContext, keys, indexerKeys, seen>>

LastN(s, n) == SubSeq(s, Len(s) - n + 1, Len(s))

-----------------------------------------------------------------------------
(* The hashed n-gram table.                                                *)

IsPrime(v) == v >= 2 /\ \A d \in 2 .. v - 1 : v % d # 0

\* _find_nth_prime_after: the next prime is never past the double.
NthPrimeAfter(start, count) ==
  LET prime[n \in 0 .. count] ==
        IF n = 0 THEN start
        ELSE CHOOSE p \in prime[n - 1] + 1 .. 2 * prime[n - 1] + 2 :
               IsPrime(p) /\ \A q \in prime[n - 1] + 1 .. p - 1 : ~IsPrime(q)
  IN  prime[count]

NgramHeads == (NgramSize - 1) * HeadsPerNgram

HeadSizes ==
  [h \in 1 .. NgramHeads |-> NthPrimeAfter(VocabBase - 1, PleIndex * NgramHeads + h)]

\* Where the rows of a head begin, and past the last head where all of them end.
HeadOffsets ==
  LET total[g \in 0 .. NgramHeads] == IF g = 0 THEN 0 ELSE total[g - 1] + HeadSizes[g]
  IN  [h \in 1 .. NgramHeads + 1 |-> total[h - 1]]

PaddedSize == ((HeadOffsets[NgramHeads + 1] + DivisibleBy - 1) \div DivisibleBy) * DivisibleBy

RowsPerShard == PaddedSize \div Parts

\* How many tokens of h before position i are in its segment, after the last EOS.
InSegment(h, i) == i - 1 - Max({0} \cup {j \in 1 .. i - 1 : h[j] = Eos})

\* _shift_right_ignore_eos
Shifted(h, i, s) == IF s > 0 /\ InSegment(h, i) < s THEN Eos ELSE h[i - s]

\* The n-gram a head is keyed with, and its row of the table.
HeadNgram(g) == 2 + (g - 1) \div HeadsPerNgram

\* Mutant: the offset of a head counts its own rows in.
RowOfNext(g, ngram) == (Mix(ngram) % HeadSizes[g]) + HeadOffsets[g + 1]

RowOf(g, ngram) == (Mix(ngram) % HeadSizes[g]) + HeadOffsets[g]

\* ngram_ids: the rows of position i of the history.
NgramIds(h, i) ==
  [g \in 1 .. NgramHeads |-> RowOf(g, [k \in 1 .. HeadNgram(g) |-> Shifted(h, i, k - 1)])]

\* The shard and the row in it.  Where the shards do not divide the padded table its
\* last rows are in no shard, and a call that looks one up raises.
InShard(id) == <<id \div RowsPerShard, id % RowsPerShard>>

\* NGramSource.lookup: the ids sorted by their shards, one read per shard, and
\* the rows in the order of the ids again.
Lookup(ids) ==
  LET shard(i) == InShard(ids[i])[1]
      before(i) == {j \in DOMAIN ids : shard(j) < shard(i) \/ (shard(j) = shard(i) /\ j < i)}
      inv == [i \in DOMAIN ids |-> Cardinality(before(i)) + 1]
      order == [k \in DOMAIN ids |-> CHOOSE i \in DOMAIN ids : inv[i] = k]
      rows == [k \in DOMAIN ids |-> InShard(ids[order[k]])]
  IN  [i \in DOMAIN ids |-> rows[inv[i]]]

-----------------------------------------------------------------------------
(* The layers.                                                             *)

\* A depthwise convolution reads kernel positions, dilation apart, of the state
\* and the chunk after it.
Taps(full, i, kernel, dilation) == [j \in 1 .. kernel |-> full[i + (j - 1) * dilation]]

GdnStateLen == ConvKernel - 1
PleStateLen == (PleKernel - 1) * NgramSize
BlockTopK == Budget \div Ratio

Fresh(n) == [i \in 1 .. n |-> Absent]

\* The blocks a query of position q (from 0) scores best, of those complete by then.
Selected(query, q, raw) ==
  LET block(b) == SubSeq(raw, b * Ratio + 1, (b + 1) * Ratio)
      score == [b \in 0 .. (q + 1) \div Ratio - 1 |-> Score(query, b, block(b))]
      ahead(b) == {c \in DOMAIN score : score[c] > score[b] \/ (score[c] = score[b] /\ c < b)}
  IN  {b \in DOMAIN score : Cardinality(ahead(b)) < BlockTopK}

\* The positions a query attends to when the caches hold raw: QSAIndexer's mask,
\* or the causal one when every complete block would be selected.
Attended(query, q, raw) ==
  IF Len(raw) \div Ratio <= BlockTopK
  THEN 0 .. q
  ELSE {t \in 0 .. Len(raw) - 1 :
          \/ t < ((q + 1) \div Ratio) * Ratio /\ t \div Ratio \in Selected(query, q, raw)
          \/ t >= ((q + 1) \div Ratio) * Ratio /\ t <= q}

\* NGramEmbedding: the rows of the last L positions of the history, looked up
\* all together.
Embedded(history, L) ==
  LET ids == [i \in 1 .. L |-> NgramIds(history, Len(history) - L + i)]
      rows == Lookup([x \in 1 .. L * NgramHeads |->
                        ids[1 + ((x - 1) \div NgramHeads)][1 + ((x - 1) % NgramHeads)]])
  IN  [i \in 1 .. L |-> [g \in 1 .. NgramHeads |-> rows[(i - 1) * NgramHeads + g]]]

\* PLELayer and its short convolution at position i of a call.
PleAt(full, i) == Taps(full, i, PleKernel, NgramSize)

\* GatedDeltaNet: the convolution, and the state its recurrence has reached.
GdnAt(full, state, chunk, i) ==
  <<Taps(full, i, ConvKernel, 1), state \o SubSeq(chunk, 1, i)>>

\* Attention, over keys that hold the call's own.
AttentionAt(all, raw, chunk, offset, i) ==
  {<<t, all[t + 1]>> : t \in Attended(chunk[i], offset + i - 1, raw)}

\* SparseMoeBlock.route: the experts with the greatest scores.
Routed(x) ==
  LET ahead(e) == {f \in Routable : Gate(x, f) > Gate(x, e) \/ (Gate(x, f) = Gate(x, e) /\ f < e)}
  IN  {e \in Routable : Cardinality(ahead(e)) < TopK}

\* The experts a call reads, which all its positions share.
ActiveIds(chunk) == UNION {Routed(chunk[i]) : i \in DOMAIN chunk}

\* run_expert_ffn at position i: the active experts are stacked in the order of
\* their ids, and each expert routed to is looked up in the stack, the first one
\* when it is not there; with it, whose weights it was computed with.
ExpertsAt(chunk, i) ==
  LET active == ActiveIds(chunk)
      place(e) == Cardinality({f \in active : f < e})
      stack == [k \in 0 .. Cardinality(active) - 1 |-> CHOOSE e \in active : place(e) = k]
      local(e) == IF e \in active THEN place(e) ELSE 0
  IN  {<<e, stack[local(e)]>> : e \in Routed(chunk[i])}

\* QSAKVCache.update_indexer
UpdateIndexer(iKeys, rawKeys) == iKeys \o rawKeys

\* Mutant: the context is cut from the call's tokens alone.
ContextOfChunk(history, chunk) == LastN(Fresh(NgramSize - 1) \o chunk, NgramSize - 1)

\* What the n-gram embedding keeps of a call.
ContextKept(history, chunk) == LastN(history, NgramSize - 1)

\* engine.forward: a chunk goes through the layers and every cache moves on.
Advance(chunk, gConv, gState, pConv, context0, kKeys, iKeys) ==
  LET conv == gConv \o chunk
      ple == pConv \o chunk
      history == context0 \o chunk
      all == kKeys \o chunk
      raw == UpdateIndexer(iKeys, chunk)
      rows == Embedded(history, Len(chunk))
  IN  /\ gdnConv' = LastN(conv, GdnStateLen)
      /\ gdnState' = gState \o chunk
      /\ pleConv' = LastN(ple, PleStateLen)
      /\ ngramContext' = ContextKept(history, chunk)
      /\ keys' = all
      /\ indexerKeys' = raw
      /\ seen' = [i \in 1 .. Len(chunk) |->
           [rows |-> rows[i],
            ple |-> PleAt(ple, i),
            gdn |-> GdnAt(conv, gState, chunk, i),
            attended |-> AttentionAt(all, raw, chunk, Len(kKeys), i),
            experts |-> ExpertsAt(chunk, i)]]

EngineInit ==
  /\ gdnConv = <<>> /\ gdnState = <<>> /\ pleConv = <<>> /\ ngramContext = <<>>
  /\ keys = <<>> /\ indexerKeys = <<>>
  /\ seen = <<>>

\* reset_cache and the forward pass over a prompt.
ResetForward(chunk) ==
  Advance(chunk, Fresh(GdnStateLen), <<>>, Fresh(PleStateLen),
          [i \in 1 .. NgramSize - 1 |-> Eos], <<>>, <<>>)

\* A forward pass that goes on from what the caches hold.
Forward(chunk) ==
  Advance(chunk, gdnConv, gdnState, pleConv, ngramContext, keys, indexerKeys)

-----------------------------------------------------------------------------
(* The reference: what the last position of a context depends on, without  *)
(* caches and without chunks.                                              *)

\* The last n tokens of a text, the newest first; EOS where its segment has fewer.
NgramAt(c, n) ==
  [k \in 1 .. n |->
     IF k = 1 \/ (k <= Len(c) /\ \A j \in Len(c) - k + 1 .. Len(c) - 1 : c[j] # Eos)
     THEN c[Len(c) - k + 1] ELSE Eos]

\* The token back positions before the last.
Before(c, back) == IF back < Len(c) THEN c[Len(c) - back] ELSE Absent

View(c) ==
  [rows |-> [g \in 1 .. NgramHeads |-> InShard(RowOf(g, NgramAt(c, HeadNgram(g))))],
   ple |-> [j \in 1 .. PleKernel |-> Before(c, (PleKernel - j) * NgramSize)],
   gdn |-> <<[j \in 1 .. ConvKernel |-> Before(c, ConvKernel - j)], c>>,
   attended |-> {<<t, c[t + 1]>> : t \in Attended(c[Len(c)], Len(c) - 1, c)},
   experts |-> {<<e, e>> : e \in Routed(c[Len(c)])}]

\* Whether a prompt goes through in one call or its answer token by token, every
\* position is computed from what the text up to it determines: its n-grams, the
\* windows of both convolutions, the recurrent state, the positions it attends to and
\* its own routed experts, whichever other experts the call stacks.
EveryPositionAsWhole ==
  \A i \in 1 .. Len(seen) : seen[i] = View(SubSeq(keys, 1, Len(keys) - Len(seen) + i))

\* Every row is one of its head's own, whichever shards the rows of a lookup lie in,
\* and in a shard of the table unless it is among the last rows of the padded table,
\* fewer than there are shards.
RowsInTable ==
  \A i \in 1 .. Len(seen), g \in 1 .. NgramHeads :
    LET row == seen[i].rows[g]
        id == row[1] * RowsPerShard + row[2]
    IN  /\ id \in HeadOffsets[g] .. HeadOffsets[g] + HeadSizes[g] - 1
        /\ row[2] \in 0 .. RowsPerShard - 1
        /\ row[1] \in 0 .. Parts - 1 \/ id > PaddedSize - Parts
=============================================================================
