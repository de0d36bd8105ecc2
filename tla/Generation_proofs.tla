-------------------------- MODULE Generation_proofs --------------------------
(***************************************************************************)
(* That generation is greedy decoding: with drafts, for any target, any     *)
(* drafts of any length, any stop tokens and limits, and requests that      *)
(* abandon others; and by the engine that owns its forward pass, whose      *)
(* caches make a position depend on nothing but the text up to it.          *)
(***************************************************************************)
EXTENDS Generation, SequenceTheorems, FiniteSetTheorems, WellFoundedInduction, TLAPS

-----------------------------------------------------------------------------
(* Beginnings of sequences.                                                *)

LEMMA FirstProps ==
  ASSUME NEW S, NEW s \in Seq(S), NEW n \in 0 .. Len(s)
  PROVE  /\ First(s, n) \in Seq(S) /\ Len(First(s, n)) = n
         /\ \A i \in 1 .. n : First(s, n)[i] = s[i]
<1>1. Len(s) \in Nat /\ n \in Int /\ 1 \in Int /\ n >= 0 /\ n <= Len(s)
  BY LenProperties
<1>2. \A i \in 1 .. n : s[i] \in S
  BY <1>1, ElementOfSeq
<1>3. /\ SubSeq(s, 1, n) \in Seq(S)
      /\ Len(SubSeq(s, 1, n)) = IF 1 <= n THEN n - 1 + 1 ELSE 0
      /\ \A i \in 1 .. n - 1 + 1 : SubSeq(s, 1, n)[i] = s[1 + i - 1]
  BY <1>1, <1>2, SubSeqProperties
<1>4. Len(SubSeq(s, 1, n)) = n
  BY <1>1, <1>3
<1>5. \A i \in 1 .. n : SubSeq(s, 1, n)[i] = s[i]
  BY <1>1, <1>3
<1>6. QED
  BY <1>3, <1>4, <1>5 DEF First

LEMMA SameSeq ==
  ASSUME NEW S, NEW s \in Seq(S), NEW t \in Seq(S), Len(s) = Len(t), \A i \in 1 .. Len(s) : s[i] = t[i]
  PROVE  s = t
BY SeqEqual

LEMMA FirstOfAll ==
  ASSUME NEW S, NEW s \in Seq(S)
  PROVE  First(s, Len(s)) = s
<1>1. Len(s) \in Nat /\ Len(s) \in 0 .. Len(s)
  BY LenProperties
<1>2. QED
  BY <1>1, FirstProps, SameSeq

\* What two sequences begin with is the same when they agree there.
LEMMA FirstAgree ==
  ASSUME NEW S, NEW s \in Seq(S), NEW t \in Seq(S), NEW n \in 0 .. Len(s), n \in 0 .. Len(t),
         \A i \in 1 .. n : s[i] = t[i]
  PROVE  First(s, n) = First(t, n)
<1>1. /\ First(s, n) \in Seq(S) /\ Len(First(s, n)) = n /\ \A i \in 1 .. n : First(s, n)[i] = s[i]
      /\ First(t, n) \in Seq(S) /\ Len(First(t, n)) = n /\ \A i \in 1 .. n : First(t, n)[i] = t[i]
  BY FirstProps
<1>2. QED
  BY <1>1, SameSeq

LEMMA CatProps ==
  ASSUME NEW S, NEW s \in Seq(S), NEW t \in Seq(S)
  PROVE  /\ s \o t \in Seq(S) /\ Len(s \o t) = Len(s) + Len(t)
         /\ Len(s) \in Nat /\ Len(t) \in Nat
         /\ \A i \in 1 .. Len(s) : (s \o t)[i] = s[i]
         /\ \A i \in 1 .. Len(t) : (s \o t)[Len(s) + i] = t[i]
<1>1. Len(s) \in Nat /\ Len(t) \in Nat
  BY LenProperties
<1>2. /\ s \o t \in Seq(S) /\ Len(s \o t) = Len(s) + Len(t)
      /\ \A i \in 1 .. Len(s) + Len(t) : (s \o t)[i] = IF i <= Len(s) THEN s[i] ELSE t[i - Len(s)]
  BY ConcatProperties
<1>3. \A i \in 1 .. Len(s) : (s \o t)[i] = s[i]
  BY <1>1, <1>2
<1>4. ASSUME NEW i \in 1 .. Len(t) PROVE (s \o t)[Len(s) + i] = t[i]
  <2>1. Len(s) + i \in 1 .. Len(s) + Len(t) /\ ~(Len(s) + i <= Len(s)) /\ Len(s) + i - Len(s) = i
    BY <1>1
  <2>2. QED
    BY <1>2, <2>1
<1>5. QED
  BY <1>1, <1>2, <1>3, <1>4

LEMMA FirstOfCat ==
  ASSUME NEW S, NEW s \in Seq(S), NEW t \in Seq(S), NEW n \in 0 .. Len(s)
  PROVE  First(s \o t, n) = First(s, n)
<1>1. /\ s \o t \in Seq(S) /\ Len(s \o t) = Len(s) + Len(t) /\ Len(s) \in Nat /\ Len(t) \in Nat
      /\ \A i \in 1 .. Len(s) : (s \o t)[i] = s[i]
  BY CatProps
<1>2. n \in 0 .. Len(s \o t) /\ \A i \in 1 .. n : (s \o t)[i] = s[i]
  BY <1>1
<1>3. QED
  BY <1>1, <1>2, FirstAgree

LEMMA FirstOfFirst ==
  ASSUME NEW S, NEW s \in Seq(S), NEW m \in 0 .. Len(s), NEW n \in 0 .. m
  PROVE  First(First(s, m), n) = First(s, n)
<1>1. Len(s) \in Nat /\ n \in 0 .. Len(s) /\ 1 .. n \subseteq 1 .. m
  BY LenProperties
<1>2. First(s, m) \in Seq(S) /\ Len(First(s, m)) = m /\ \A i \in 1 .. n : First(s, m)[i] = s[i]
  BY <1>1, FirstProps
<1>3. QED
  BY <1>1, <1>2, FirstAgree

LEMMA CatFirst ==
  ASSUME NEW S, NEW s \in Seq(S), NEW t \in Seq(S), NEW n \in 0 .. Len(t)
  PROVE  s \o First(t, n) = First(s \o t, Len(s) + n)
<1>1. First(t, n) \in Seq(S) /\ Len(First(t, n)) = n /\ \A i \in 1 .. n : First(t, n)[i] = t[i]
  BY FirstProps
<1>2. /\ s \o t \in Seq(S) /\ Len(s \o t) = Len(s) + Len(t) /\ Len(s) \in Nat /\ Len(t) \in Nat
      /\ \A i \in 1 .. Len(s) : (s \o t)[i] = s[i]
      /\ \A i \in 1 .. Len(t) : (s \o t)[Len(s) + i] = t[i]
  BY CatProps
<1>3. /\ s \o First(t, n) \in Seq(S) /\ Len(s \o First(t, n)) = Len(s) + n
      /\ \A i \in 1 .. Len(s) : (s \o First(t, n))[i] = s[i]
      /\ \A i \in 1 .. n : (s \o First(t, n))[Len(s) + i] = First(t, n)[i]
  <2>1. PICK u \in Seq(S) : u = First(t, n)
    BY <1>1
  <2>2. /\ s \o u \in Seq(S) /\ Len(s \o u) = Len(s) + Len(u)
        /\ \A i \in 1 .. Len(s) : (s \o u)[i] = s[i]
        /\ \A i \in 1 .. Len(u) : (s \o u)[Len(s) + i] = u[i]
    BY CatProps
  <2>3. Len(u) = n
    BY <1>1, <2>1
  <2>4. QED
    BY <2>1, <2>2, <2>3
<1>4. Len(s) + n \in 0 .. Len(s \o t)
  BY <1>2
<1>5. /\ First(s \o t, Len(s) + n) \in Seq(S) /\ Len(First(s \o t, Len(s) + n)) = Len(s) + n
      /\ \A i \in 1 .. Len(s) + n : First(s \o t, Len(s) + n)[i] = (s \o t)[i]
  BY <1>2, <1>4, FirstProps
<1>6. ASSUME NEW i \in 1 .. Len(s) + n PROVE (s \o First(t, n))[i] = First(s \o t, Len(s) + n)[i]
  <2>1. CASE i \in 1 .. Len(s)
    BY <1>2, <1>3, <1>5, <2>1
  <2>2. CASE i \notin 1 .. Len(s)
    <3>1. i - Len(s) \in 1 .. n /\ i - Len(s) \in 1 .. Len(t) /\ Len(s) + (i - Len(s)) = i
      BY <1>2, <2>2
    <3>2. QED
      BY <1>1, <1>2, <1>3, <1>5, <3>1
  <2>3. QED
    BY <2>1, <2>2
<1>7. QED
  BY <1>3, <1>5, <1>6, SameSeq

\* Up to the first bad index all are good.
LEMMA FirstBad ==
  ASSUME NEW L \in Nat, NEW B
  PROVE  \E m \in 0 .. L : (\A i \in 1 .. m : i \notin B) /\ (m < L => m + 1 \in B)
<1> DEFINE D == {i \in 1 .. L : i \in B}
<1>1. CASE D = {}
  <2>1. L \in 0 .. L /\ ~(L < L) /\ \A i \in 1 .. L : i \notin B
    BY <1>1
  <2>2. QED
    BY <2>1
<1>2. CASE D # {}
  <2>1. D \subseteq Nat
    OBVIOUS
  <2>2. PICK d \in D : \A y \in D : ~(<<y, d>> \in OpToRel(<, Nat))
    BY <1>2, <2>1, NatLessThanWellFounded, WFMin
  <2>3. \A y \in D : ~(y < d)
    BY <2>1, <2>2 DEF OpToRel
  <2>4. d - 1 \in 0 .. L /\ (d - 1) + 1 = d /\ d \in B
    OBVIOUS
  <2>5. \A i \in 1 .. d - 1 : i \notin B
    BY <2>3
  <2>6. QED
    BY <2>4, <2>5
<1>3. QED
  BY <1>1, <1>2

\* A set of numbers with a bound has a greatest.
LEMMA GreatestExists ==
  ASSUME NEW L \in Nat, NEW D, D \subseteq 0 .. L, D # {}
  PROVE  \E m \in D : \A x \in D : x <= m
<1> DEFINE E == {y \in 0 .. L : L - y \in D}
<1>1. E \subseteq Nat
  OBVIOUS
<1>2. ASSUME NEW x \in D PROVE L - x \in E
  <2>1. L - x \in 0 .. L /\ L - (L - x) = x
    OBVIOUS
  <2>2. QED
    BY <2>1
<1>3. E # {}
  BY <1>2
<1>4. PICK d \in E : \A y \in E : ~(<<y, d>> \in OpToRel(<, Nat))
  BY <1>1, <1>3, NatLessThanWellFounded, WFMin
<1>5. \A y \in E : ~(y < d)
  BY <1>1, <1>4 DEF OpToRel
<1>6. L - d \in D
  OBVIOUS
<1>7. ASSUME NEW x \in D PROVE x <= L - d
  <2>1. ~(L - x < d)
    BY <1>2, <1>5
  <2>2. x \in 0 .. L /\ d \in 0 .. L
    OBVIOUS
  <2>3. QED
    BY <2>1, <2>2
<1>8. QED
  BY <1>6, <1>7

\* A set of numbers that holds 0, and each number of 1 .. n after the one before,
\* holds them all.
LEMMA UpTo ==
  ASSUME NEW n \in Nat, NEW G, 0 \in G, \A i \in 1 .. n : i - 1 \in G => i \in G
  PROVE  0 .. n \subseteq G
<1> DEFINE D == {i \in 0 .. n : i \notin G}
<1>1. SUFFICES ASSUME D # {} PROVE FALSE
  OBVIOUS
<1>2. D \subseteq Nat
  OBVIOUS
<1>3. PICK d \in D : \A y \in D : ~(<<y, d>> \in OpToRel(<, Nat))
  BY <1>1, <1>2, NatLessThanWellFounded, WFMin
<1>4. d \in 1 .. n /\ d \notin G
  OBVIOUS
<1>5. d - 1 \in G
  <2>1. SUFFICES ASSUME d - 1 \notin G PROVE FALSE
    OBVIOUS
  <2>2. d - 1 \in D /\ d - 1 < d /\ d - 1 \in Nat /\ d \in Nat
    BY <1>4, <2>1
  <2> HIDE DEF D
  <2>3. QED
    BY <1>3, <2>2 DEF OpToRel
<1>6. QED
  BY <1>4, <1>5

\* The draft model, asked K times, gives K tokens.
LEMMA ContinuationGives ==
  ASSUME NEW c \in Seq(Token), \A s \in Seq(Token) : DraftModel(s) \in Token
  PROVE  Continuation(c) \in Seq(Token) /\ Len(Continuation(c)) = K
<1> DEFINE P(n) == \E f : f = [m \in 0 .. n |-> IF m = 0 THEN <<>>
                                               ELSE Append(f[m - 1], DraftModel(c \o f[m - 1]))]
           G == {n \in 0 .. K : P(n)}
<1>1. K \in Nat
  BY KAssumption
<1>2. P(0)
  <2> DEFINE f == [m \in 0 .. 0 |-> <<>>]
  <2>1. f = [m \in 0 .. 0 |-> IF m = 0 THEN <<>> ELSE Append(f[m - 1], DraftModel(c \o f[m - 1]))]
    OBVIOUS
  <2>2. QED
    BY <2>1
<1>3. ASSUME NEW i \in 1 .. K, P(i - 1) PROVE P(i)
  <2>1. PICK f : f = [m \in 0 .. i - 1 |-> IF m = 0 THEN <<>>
                                          ELSE Append(f[m - 1], DraftModel(c \o f[m - 1]))]
    BY <1>3
  <2> DEFINE g == [m \in 0 .. i |-> IF m = 0 THEN <<>> ELSE Append(f[m - 1], DraftModel(c \o f[m - 1]))]
  <2>2. \A m \in 0 .. i : g[m] = IF m = 0 THEN <<>> ELSE Append(f[m - 1], DraftModel(c \o f[m - 1]))
    OBVIOUS
  <2>3. \A m \in 0 .. i - 1 :
          f[m] = IF m = 0 THEN <<>> ELSE Append(f[m - 1], DraftModel(c \o f[m - 1]))
    BY <2>1
  <2> HIDE DEF g
  <2>4. ASSUME NEW m \in 0 .. i - 1 PROVE g[m] = f[m]
    <3>1. m \in 0 .. i
      OBVIOUS
    <3>2. QED
      BY <2>2, <2>3, <3>1
  <2>5. \A m \in 0 .. i : m # 0 => m - 1 \in 0 .. i - 1
    OBVIOUS
  <2>6. \A m \in 0 .. i : m # 0 => g[m - 1] = f[m - 1]
    BY <2>4, <2>5
  <2>7. g = [m \in 0 .. i |-> IF m = 0 THEN <<>> ELSE Append(g[m - 1], DraftModel(c \o g[m - 1]))]
    BY <2>6 DEF g
  <2>8. QED
    BY <2>7
<1> HIDE DEF P
<1>4. 0 \in G /\ \A i \in 1 .. K : i - 1 \in G => i \in G
  BY <1>1, <1>2, <1>3
<1>5. K \in G
  <2>1. 0 .. K \subseteq G
    BY <1>1, <1>4, UpTo
  <2>2. QED
    BY <1>1, <2>1
<1> DEFINE F(f) == f = [m \in 0 .. K |-> IF m = 0 THEN <<>> ELSE Append(f[m - 1], DraftModel(c \o f[m - 1]))]
           run == CHOOSE f : F(f)
<1>6. F(run)
  <2>1. \E f : F(f)
    BY <1>5 DEF P
  <2> HIDE DEF F
  <2>2. QED
    BY <2>1
<1>7. Continuation(c) = run[K]
  BY DEF Continuation
<1> HIDE DEF run
<1>8. \A m \in 0 .. K : run[m] = IF m = 0 THEN <<>> ELSE Append(run[m - 1], DraftModel(c \o run[m - 1]))
  BY <1>6
<1> DEFINE H == {n \in 0 .. K : run[n] \in Seq(Token) /\ Len(run[n]) = n}
<1>9. 0 \in H
  <2>1. run[0] = <<>>
    BY <1>1, <1>8
  <2>2. <<>> \in Seq(Token) /\ Len(<<>>) = 0
    BY EmptySeq
  <2>3. run[0] \in Seq(Token) /\ Len(run[0]) = 0
    BY <2>1, <2>2
  <2>4. QED
    BY <1>1, <2>3
<1>10. ASSUME NEW n \in 1 .. K, n - 1 \in H PROVE n \in H
  <2>1. run[n] = Append(run[n - 1], DraftModel(c \o run[n - 1]))
    <3>1. n \in 0 .. K /\ n # 0
      BY <1>1
    <3>2. QED
      BY <1>8, <3>1
  <2>2. PICK r : r = run[n - 1]
    OBVIOUS
  <2>3. r \in Seq(Token) /\ Len(r) = n - 1
    BY <1>10, <2>2
  <2>4. c \o r \in Seq(Token)
    BY <2>3, CatProps
  <2>5. DraftModel(c \o r) \in Token
    BY <2>4
  <2>6. Append(r, DraftModel(c \o r)) \in Seq(Token) /\ Len(Append(r, DraftModel(c \o r))) = Len(r) + 1
    BY <2>3, <2>5, AppendProperties
  <2>7. run[n] = Append(r, DraftModel(c \o r))
    BY <2>1, <2>2
  <2>8. Len(run[n]) = n /\ run[n] \in Seq(Token)
    BY <1>1, <2>3, <2>6, <2>7
  <2>9. QED
    BY <1>1, <2>8
<1>11. 0 .. K \subseteq H
  BY <1>1, <1>9, <1>10, UpTo
<1>12. QED
  BY <1>1, <1>7, <1>11

-----------------------------------------------------------------------------
(* The invariant.                                                          *)

\* The target, the draft model and the head answer with tokens of the vocabulary.
ModelsGiveTokens ==
  /\ \A s \in Seq(Token) : Target(s) \in Token
  /\ \A s \in Seq(Token) : DraftModel(s) \in Token
  /\ \A s \in Seq(Token), t \in Token : DFlashHead(s, t) \in Seq(Token)

\* What is decided: the context and the tokens of the round still to be yielded.
Text == context \o tokens

Active == pc # "idle"

Types ==
  /\ prompt \in Seq(Token) /\ out \in Seq(Token) /\ context \in Seq(Token)
  /\ kv \in Seq(Token) /\ drafts \in Seq(Token) /\ tokens \in Seq(Token)
  /\ cached \in Seq(Token) /\ captured \in Seq(Token)
  /\ cur \in Token /\ pc \in {"idle", "draft", "verify", "emit"} /\ capturing \in BOOLEAN
  /\ pending \in Nat

RequestInv == Active => open /\ prompt # <<>> /\ context = prompt \o out

RoundInv ==
  /\ pc = "emit" <=> tokens # <<>>
  /\ pc \in {"draft", "verify"} => cur = LastOf(context)

\* The target's cache holds all that is decided but the last token.
CacheInv == Active => kv = First(Text, Len(Text) - 1)

\* Each token still to be yielded is the target's choice after all before it.
GreedyInv == \A n \in Len(context) .. Len(Text) - 1 : Text[n + 1] = Target(First(Text, n))

\* The draft model's cache: a strict beginning of what is decided, and while its
\* drafts wait to be verified the context and all of them but the last.
ModelInv ==
  Active /\ source = "model" =>
    IF pc = "verify"
    THEN /\ drafts = Continuation(context) /\ cached = context \o AllButLast(drafts)
         /\ pending = K - 1
    ELSE Len(cached) < Len(Text) /\ cached = First(Text, Len(cached))

\* The captured states are those of the target's cache.
CaptureInv == Active /\ source = "dflash" => capturing /\ captured = kv

SpecInv ==
  Types /\ RequestInv /\ RoundInv /\ CacheInv /\ GreedyInv /\ ModelInv /\ CaptureInv

LEMMA TextProps ==
  ASSUME Types
  PROVE  /\ Text \in Seq(Token) /\ Len(Text) = Len(context) + Len(tokens)
         /\ Len(context) \in Nat /\ Len(tokens) \in Nat
         /\ \A i \in 1 .. Len(context) : Text[i] = context[i]
         /\ \A i \in 1 .. Len(tokens) : Text[Len(context) + i] = tokens[i]
BY CatProps DEF Types, Text

\* Between rounds what is decided is the context.
LEMMA TextIsContext ==
  ASSUME Types, tokens = <<>>
  PROVE  Text = context
BY ConcatEmptySeq DEF Types, Text

LEMMA ContextNotEmpty ==
  ASSUME SpecInv, Active
  PROVE  Len(context) \in Nat /\ Len(context) >= 1
<1>1. prompt \in Seq(Token) /\ out \in Seq(Token) /\ prompt # <<>> /\ context = prompt \o out
  BY DEF SpecInv, Types, RequestInv
<1>2. Len(prompt) \in Nat \ {0}
  BY <1>1, EmptySeq
<1>3. Len(context) = Len(prompt) + Len(out) /\ Len(out) \in Nat
  BY <1>1, CatProps
<1>4. QED
  BY <1>2, <1>3

LEMMA InitSpecInv == SpecInit => SpecInv
<1> SUFFICES ASSUME SpecInit PROVE SpecInv
  OBVIOUS
<1>1. Types
  BY EmptySeq DEF SpecInit, Types
<1>2. RequestInv /\ RoundInv /\ CacheInv /\ ModelInv /\ CaptureInv
  BY DEF SpecInit, Active, RequestInv, RoundInv, CacheInv, ModelInv, CaptureInv
<1>3. Len(context) = 0 /\ Len(Text) = 0
  BY <1>1, TextIsContext, EmptySeq DEF SpecInit
<1>4. GreedyInv
  BY <1>3 DEF GreedyInv
<1>5. QED
  BY <1>1, <1>2, <1>4 DEF SpecInv

LEMMA AllButLastProps ==
  ASSUME NEW S, NEW s \in Seq(S), s # <<>>
  PROVE  /\ Len(s) \in Nat /\ Len(s) >= 1 /\ AllButLast(s) = First(s, Len(s) - 1)
         /\ AllButLast(s) \in Seq(S) /\ Len(AllButLast(s)) = Len(s) - 1 /\ LastOf(s) \in S
         /\ \A i \in 1 .. Len(s) - 1 : AllButLast(s)[i] = s[i]
<1>1. Len(s) \in Nat \ {0}
  BY EmptySeq
<1>2. Len(s) - 1 \in 0 .. Len(s) /\ Len(s) \in 1 .. Len(s) /\ Len(s) >= 1
  BY <1>1
<1>3. QED
  BY <1>1, <1>2, FirstProps, ElementOfSeq DEF AllButLast, LastOf

LEMMA RequestStep ==
  ASSUME SpecInv, Request
  PROVE  SpecInv'
<1>1. PICK p \in Prompts, s \in Sources :
        /\ prompt' = p /\ context' = p /\ kv' = Prefilled(p) /\ cur' = LastOf(p) /\ source' = s
        /\ cached' = <<>> /\ pending' = 0 /\ capturing' = (capturing \/ s = "dflash")
        /\ captured' = Capture(capturing', <<>>, Prefilled(p))
  BY DEF Request
<1>2. p \in Seq(Token) /\ p # <<>>
  BY PromptsAssumption
<1>3. out' = <<>> /\ drafts' = <<>> /\ tokens' = <<>> /\ open' = (MaxTokens > 0)
      /\ pc' = IF MaxTokens > 0 THEN "draft" ELSE "idle"
  BY DEF Request
<1>4. /\ Len(p) \in Nat /\ Len(p) >= 1 /\ Prefilled(p) = First(p, Len(p) - 1)
      /\ Prefilled(p) \in Seq(Token) /\ LastOf(p) \in Token
  BY <1>2, AllButLastProps DEF Prefilled
<1>5. captured' \in Seq(Token) /\ (capturing' => captured' = Prefilled(p))
  BY <1>1, <1>4, ConcatEmptySeq, EmptySeq DEF Capture
<1>6. Types'
  BY <1>1, <1>2, <1>3, <1>4, <1>5, EmptySeq DEF SpecInv, Types
<1>7. Text' = p
  BY <1>1, <1>2, <1>3, ConcatEmptySeq DEF Text
<1>8. RequestInv'
  BY <1>1, <1>2, <1>3, ConcatEmptySeq DEF RequestInv, Active
<1>9. RoundInv' /\ CacheInv'
  BY <1>1, <1>3, <1>4, <1>7 DEF RoundInv, CacheInv
<1>10. GreedyInv'
  BY <1>1, <1>4, <1>7 DEF GreedyInv
<1>11. ModelInv'
  <2>1. Len(<<>>) = 0 /\ First(p, 0) = <<>>
    <3>1. 0 \in 0 .. Len(p)
      BY <1>4
    <3>2. First(p, 0) \in Seq(Token) /\ Len(First(p, 0)) = 0
      BY <1>2, <3>1, FirstProps
    <3>3. QED
      BY <3>2, EmptySeq
  <2>2. pc' # "verify"
    BY <1>3
  <2>3. QED
    BY <1>1, <1>4, <1>7, <2>1, <2>2 DEF ModelInv
<1>12. CaptureInv'
  BY <1>1, <1>5 DEF CaptureInv
<1>13. QED
  BY <1>6, <1>8, <1>9, <1>10, <1>11, <1>12 DEF SpecInv

-----------------------------------------------------------------------------
(* A round: the drafts.                                                    *)

\* What _sync keeps of the draft's cache agrees with the context.
LEMMA MatchingProps ==
  ASSUME Types
  PROVE  /\ Matching \in 0 .. Len(cached) /\ Matching <= Len(context)
         /\ First(cached, Matching) = First(context, Matching)
<1> DEFINE L == IF Len(cached) < Len(context) THEN Len(cached) ELSE Len(context)
           B == {i \in Nat : cached[i] # context[i]}
<1>1. Len(cached) \in Nat /\ Len(context) \in Nat /\ cached \in Seq(Token) /\ context \in Seq(Token)
  BY LenProperties DEF Types
<1>2. L \in Nat
  BY <1>1
<1>3. PICK m \in 0 .. L : (\A i \in 1 .. m : i \notin B) /\ (m < L => m + 1 \in B)
  BY <1>2, FirstBad
<1>4. m \in 0 .. Len(cached) /\ m \in 0 .. Len(context) /\ m <= Len(context)
  BY <1>1, <1>3
<1>5. \A i \in 1 .. m : cached[i] = context[i]
  BY <1>3, <1>4
<1>6. First(cached, m) = First(context, m)
  BY <1>1, <1>4, <1>5, FirstAgree
<1>7. m < Len(cached) /\ m < Len(context) => cached[m + 1] # context[m + 1]
  BY <1>1, <1>3
<1> HIDE DEF L, B
<1>8. \E n \in 0 .. Len(cached) :
        /\ n <= Len(context) /\ First(cached, n) = First(context, n)
        /\ n < Len(cached) /\ n < Len(context) => cached[n + 1] # context[n + 1]
  BY <1>4, <1>6, <1>7
<1>9. QED
  BY <1>8 DEF Matching

\* So what the draft model is fed makes its cache the context.
LEMMA SyncedToContext ==
  ASSUME SpecInv, Active
  PROVE  Synced \o SubSeq(context, Len(Synced) + 1, Len(context)) = context
<1> DEFINE x == IF Matching < Len(context) THEN Matching ELSE Len(context) - 1
<1>1. /\ Matching \in 0 .. Len(cached) /\ Matching <= Len(context)
      /\ First(cached, Matching) = First(context, Matching)
  BY MatchingProps DEF SpecInv
<1>2. Len(context) \in Nat /\ Len(context) >= 1 /\ Len(cached) \in Nat
  BY ContextNotEmpty, LenProperties DEF SpecInv, Types
<1>3. x \in 0 .. Matching /\ Matching \in 0 .. Len(context) /\ x \in 0 .. Len(context) /\ x \in 0 .. Len(cached)
  BY <1>1, <1>2
<1>4. cached \in Seq(Token) /\ context \in Seq(Token)
  BY DEF SpecInv, Types
<1>5. Synced = First(cached, x)
  BY DEF Synced
<1> HIDE DEF x
<1>6. First(cached, x) = First(context, x)
  <2>1. First(cached, x) = First(First(cached, Matching), x)
    BY <1>1, <1>3, <1>4, FirstOfFirst
  <2>2. First(context, x) = First(First(context, Matching), x)
    BY <1>3, <1>4, FirstOfFirst
  <2>3. QED
    BY <1>1, <2>1, <2>2
<1>7. Len(Synced) = x
  BY <1>3, <1>4, <1>5, FirstProps
<1>8. /\ 1 \in 1 .. Len(context) + 1 /\ x \in 1 - 1 .. Len(context) /\ Len(context) \in x .. Len(context)
  BY <1>2, <1>3
<1>9. SubSeq(context, 1, x) \o SubSeq(context, x + 1, Len(context)) = SubSeq(context, 1, Len(context))
  BY <1>4, <1>8, ConcatAdjacentSubSeq
<1>10. SubSeq(context, 1, Len(context)) = context
  BY <1>4, FirstOfAll DEF First
<1>11. QED
  BY <1>5, <1>6, <1>7, <1>9, <1>10 DEF First

LEMMA ModelDraftsFollow ==
  ASSUME SpecInv, Active, ModelDrafts
  PROVE  /\ drafts' = Continuation(context)
         /\ cached' = context \o AllButLast(Continuation(context)) /\ pending' = K - 1
BY SyncedToContext DEF ModelDrafts

\* A look-up proposes tokens of the context.
LEMMA LookedUpTokens ==
  ASSUME SpecInv, Active
  PROVE  LookedUp \in Seq(Token)
<1> DEFINE found == {n \in 1 .. MaxNgram : n < Len(context) /\ Earlier(n) # {}}
           n == CHOOSE x \in found : \A m \in found : m <= x
           s == CHOOSE x \in Earlier(n) : \A t \in Earlier(n) : t <= x
           upto == IF s + n + K < Len(context) THEN s + n + K ELSE Len(context)
<1>1. Len(context) \in Nat /\ context \in Seq(Token) /\ K \in Nat /\ MaxNgram \in Nat
  BY ContextNotEmpty, KAssumption DEF SpecInv, Types
<1>2. CASE found = {}
  BY <1>2, EmptySeq DEF LookedUp
<1>3. CASE found # {}
  <2>1. found \subseteq 0 .. MaxNgram
    BY <1>1
  <2>2. n \in found
    BY <1>1, <1>3, <2>1, GreatestExists
  <2> HIDE DEF n
  <2>3. Earlier(n) # {} /\ Earlier(n) \subseteq 0 .. Len(context)
    <3>1. Earlier(n) # {} /\ n \in 1 .. MaxNgram
      BY <2>2
    <3>2. ASSUME NEW x \in 0 .. Len(context) - n - 1 PROVE x \in 0 .. Len(context)
      BY <1>1, <3>1
    <3>3. Earlier(n) \subseteq 0 .. Len(context) - n - 1
      BY DEF Earlier
    <3>4. QED
      BY <3>1, <3>2, <3>3
  <2>4. s \in Earlier(n)
    BY <1>1, <2>3, GreatestExists
  <2>5. s \in Nat /\ n \in Nat
    BY <2>2, <2>3, <2>4
  <2>6. LookedUp = SubSeq(context, s + n + 1, upto)
    BY <1>3 DEF LookedUp, n
  <2> HIDE DEF found, n, s
  <2>7. s + n + 1 \in Int /\ upto \in Int /\ \A i \in s + n + 1 .. upto : i \in 1 .. Len(context)
    BY <1>1, <2>5
  <2> HIDE DEF upto
  <2>8. \A i \in s + n + 1 .. upto : context[i] \in Token
    BY <1>1, <2>7, ElementOfSeq
  <2>9. QED
    BY <2>6, <2>7, <2>8, SubSeqProperties
<1>4. QED
  BY <1>2, <1>3

LEMMA DraftStep ==
  ASSUME ModelsGiveTokens, SpecInv, Draft
  PROVE  SpecInv'
<1>1. Active /\ pc = "draft" /\ pc' = "verify" /\ tokens = <<>>
  BY DEF Draft, Active, SpecInv, RoundInv
<1>2. UNCHANGED <<prompt, out, open, source, context, cur, kv, tokens, capturing, captured>>
  BY DEF Draft, request, dflash
<1>3. context \in Seq(Token) /\ LastOf(context) \in Token /\ captured \in Seq(Token) /\ K \in Nat /\ K >= 1
  <2>1. context # <<>>
    BY <1>1, ContextNotEmpty, EmptySeq
  <2>2. QED
    BY <2>1, AllButLastProps, KAssumption DEF SpecInv, Types
<1>4. /\ drafts' \in Seq(Token) /\ cached' \in Seq(Token) /\ pending' \in Nat
      /\ source = "model" => /\ drafts' = Continuation(context) /\ pending' = K - 1
                             /\ cached' = context \o AllButLast(Continuation(context))
  <2>1. CASE ModelDrafts
    <3>1. /\ drafts' = Continuation(context) /\ pending' = K - 1
          /\ cached' = context \o AllButLast(Continuation(context))
      BY <1>1, <2>1, ModelDraftsFollow
    <3>2. Continuation(context) \in Seq(Token) /\ Len(Continuation(context)) = K
      BY <1>3, ContinuationGives DEF ModelsGiveTokens
    <3>3. AllButLast(Continuation(context)) \in Seq(Token)
      <4>1. Continuation(context) # <<>>
        BY <1>3, <3>2, EmptySeq
      <4>2. QED
        BY <3>2, <4>1, AllButLastProps
    <3>4. cached' \in Seq(Token)
      BY <1>3, <3>1, <3>3, CatProps
    <3>5. QED
      BY <1>3, <3>1, <3>2, <3>4
  <2>2. CASE LookupDrafts
    BY <1>1, <2>2, LookedUpTokens DEF LookupDrafts, modelDraft, SpecInv, Types
  <2>3. CASE RemoteDrafts
    BY <2>3, GuessesAssumption, EmptySeq DEF RemoteDrafts, modelDraft, SpecInv, Types
  <2>4. CASE DFlashDrafts
    <3> DEFINE block == DFlashHead(captured, LastOf(context))
               n == IF K < Len(block) THEN K ELSE Len(block)
    <3>1. block \in Seq(Token)
      BY <1>3 DEF ModelsGiveTokens
    <3>2. n \in 0 .. Len(block)
      BY <1>3, <3>1, LenProperties
    <3>3. First(block, n) \in Seq(Token)
      BY <3>1, <3>2, FirstProps
    <3>4. drafts' = IF captured = <<>> THEN <<>> ELSE First(block, n)
      BY <2>4 DEF DFlashDrafts
    <3> HIDE DEF block, n
    <3>5. QED
      BY <2>4, <3>3, <3>4, EmptySeq DEF DFlashDrafts, modelDraft, SpecInv, Types
  <2>5. QED
    BY <2>1, <2>2, <2>3, <2>4 DEF Draft
<1>5. Types'
  BY <1>1, <1>2, <1>4 DEF SpecInv, Types
<1>6. Text' = Text
  BY <1>2 DEF Text
<1>7. RequestInv' /\ RoundInv' /\ CacheInv'
  BY <1>1, <1>2, <1>6 DEF SpecInv, RequestInv, RoundInv, CacheInv, Active
<1>8. GreedyInv'
  BY <1>2, <1>6 DEF SpecInv, GreedyInv
<1>9. ModelInv'
  BY <1>1, <1>2, <1>4 DEF ModelInv
<1>10. CaptureInv'
  BY <1>1, <1>2 DEF SpecInv, CaptureInv, Active
<1>11. QED
  BY <1>5, <1>7, <1>8, <1>9, <1>10 DEF SpecInv

-----------------------------------------------------------------------------
(* A round: the verify pass.                                               *)

\* The tokens of the forward pass continue the target's cache to the context and
\* the drafts.
LEMMA ForwardedIsText ==
  ASSUME SpecInv, pc = "verify"
  PROVE  /\ context \o drafts \in Seq(Token)
         /\ kv \o (<<cur>> \o drafts) = context \o drafts
         /\ Forwarded = context \o drafts
         /\ Len(kv) = Len(context) - 1
<1>1. Active /\ tokens = <<>>
  BY DEF Active, SpecInv, RoundInv
<1>2. /\ context \in Seq(Token) /\ drafts \in Seq(Token) /\ kv \in Seq(Token)
      /\ <<cur>> \in Seq(Token) /\ Len(context) \in Nat /\ Len(context) >= 1
  BY <1>1, ContextNotEmpty DEF SpecInv, Types
<1>3. Text = context
  BY <1>1, TextIsContext DEF SpecInv
<1>4. kv = First(context, Len(context) - 1)
  BY <1>1, <1>3 DEF SpecInv, CacheInv
<1>5. Len(kv) = Len(context) - 1 /\ \A i \in 1 .. Len(context) - 1 : kv[i] = context[i]
  <2>1. Len(context) - 1 \in 0 .. Len(context)
    BY <1>2
  <2>2. QED
    BY <1>2, <1>4, <2>1, FirstProps
<1>6. cur = context[Len(context)]
  BY DEF SpecInv, RoundInv, LastOf
<1>7. kv \o <<cur>> = context
  <2>1. /\ kv \o <<cur>> \in Seq(Token) /\ Len(kv \o <<cur>>) = Len(kv) + Len(<<cur>>)
        /\ \A i \in 1 .. Len(kv) : (kv \o <<cur>>)[i] = kv[i]
        /\ \A i \in 1 .. Len(<<cur>>) : (kv \o <<cur>>)[Len(kv) + i] = <<cur>>[i]
    BY <1>2, CatProps
  <2>2. Len(<<cur>>) = 1 /\ <<cur>>[1] = cur
    OBVIOUS
  <2>3. Len(kv \o <<cur>>) = Len(context) /\ (kv \o <<cur>>)[Len(context)] = cur
    BY <1>2, <1>5, <2>1, <2>2
  <2>4. ASSUME NEW i \in 1 .. Len(context) PROVE (kv \o <<cur>>)[i] = context[i]
    <3>1. i = Len(context) \/ i \in 1 .. Len(context) - 1
      BY <1>2
    <3>2. QED
      BY <1>5, <1>6, <2>1, <2>3, <3>1
  <2>5. QED
    BY <1>2, <2>1, <2>3, <2>4, SameSeq
<1>8. (kv \o <<cur>>) \o drafts = kv \o (<<cur>> \o drafts)
  BY <1>2, ConcatAssociative
<1>9. QED
  BY <1>2, <1>5, <1>7, <1>8, CatProps DEF Forwarded

\* The target's i-th prediction is its choice after the context and i - 1 drafts.
LEMMA PredOfText ==
  ASSUME ModelsGiveTokens, SpecInv, pc = "verify", NEW i \in 0 .. Len(drafts) + 1
  PROVE  /\ Pred(i) = Target(First(context \o drafts, Len(context) - 1 + i))
         /\ Pred(i) \in Token
<1>1. /\ drafts \in Seq(Token) /\ kv \in Seq(Token) /\ <<cur>> \in Seq(Token)
      /\ Len(<<cur>>) = 1
  BY DEF SpecInv, Types
<1>2. PICK fed \in Seq(Token) : fed = <<cur>> \o drafts
  BY <1>1, CatProps
<1>3. Len(fed) = 1 + Len(drafts) /\ Len(drafts) \in Nat
  BY <1>1, <1>2, CatProps
<1>4. i \in 0 .. Len(fed)
  BY <1>3
<1>5. kv \o First(fed, i) = First(kv \o fed, Len(kv) + i)
  BY <1>1, <1>4, CatFirst
<1>6. First(fed, i) \in Seq(Token)
  BY <1>4, FirstProps
<1>7. kv \o First(fed, i) \in Seq(Token)
  BY <1>1, <1>6, CatProps
<1>8. Pred(i) = Target(kv \o First(fed, i))
  BY <1>2 DEF Pred
<1>9. kv \o fed = context \o drafts /\ Len(kv) = Len(context) - 1
  BY <1>2, ForwardedIsText
<1>10. QED
  BY <1>5, <1>7, <1>8, <1>9 DEF ModelsGiveTokens

LEMMA AcceptedProps ==
  ASSUME SpecInv
  PROVE  /\ Len(drafts) \in Nat /\ Accepted \in 0 .. Len(drafts)
         /\ \A i \in 1 .. Accepted : drafts[i] = Pred(i)
<1> DEFINE B == {i \in Nat : drafts[i] # Pred(i)}
<1>1. Len(drafts) \in Nat
  BY LenProperties DEF SpecInv, Types
<1>2. PICK m \in 0 .. Len(drafts) : (\A i \in 1 .. m : i \notin B) /\ (m < Len(drafts) => m + 1 \in B)
  BY <1>1, FirstBad
<1>3. \A i \in 1 .. m : drafts[i] = Pred(i)
  BY <1>2
<1>4. m < Len(drafts) => drafts[m + 1] # Pred(m + 1)
  BY <1>2
<1> HIDE DEF B
<1>5. \E n \in 0 .. Len(drafts) :
        /\ \A i \in 1 .. n : drafts[i] = Pred(i)
        /\ n < Len(drafts) => drafts[n + 1] # Pred(n + 1)
  BY <1>3, <1>4
<1>6. QED
  BY <1>1, <1>5 DEF Accepted

LEMMA VerifyStep ==
  ASSUME ModelsGiveTokens, SpecInv, Verify
  PROVE  SpecInv'
<1> DEFINE m == Accepted
           D == Len(drafts)
           C == Len(context)
           V == context \o drafts
           bonus == Pred(m + 1)
<1>1. /\ pc = "verify" /\ Active /\ tokens = <<>> /\ pc' = "emit" /\ drafts' = <<>>
      /\ UNCHANGED <<prompt, out, open, source, context, cur, capturing>>
  BY DEF Verify, Active, request, SpecInv, RoundInv
<1>2. /\ context \in Seq(Token) /\ drafts \in Seq(Token) /\ C \in Nat /\ C >= 1
      /\ D \in Nat /\ m \in 0 .. D /\ \A i \in 1 .. m : drafts[i] = Pred(i)
  BY <1>1, ContextNotEmpty, AcceptedProps DEF SpecInv, Types
<1>3. /\ V \in Seq(Token) /\ Len(V) = C + D
      /\ \A i \in 1 .. C : V[i] = context[i]
      /\ \A i \in 1 .. D : V[C + i] = drafts[i]
  BY <1>2, CatProps
<1>4. \A i \in 1 .. m + 1 : Pred(i) = Target(First(V, C - 1 + i)) /\ Pred(i) \in Token
  <2>1. ASSUME NEW i \in 1 .. m + 1 PROVE i \in 0 .. D + 1
    BY <1>2
  <2>2. QED
    BY <1>1, <2>1, PredOfText
<1>5. Forwarded = V /\ kv \o (<<cur>> \o drafts) = V
  BY <1>1, ForwardedIsText
<1>6. tokens' = Append(First(drafts, m), bonus) /\ kv' = Kept(m)
  BY DEF Verify
<1>7. kv' = First(V, C + m)
  <2>1. Kept(m) = First(Forwarded, Len(Forwarded) - (Len(drafts) - m))
    BY DEF Kept
  <2> HIDE DEF m, bonus
  <2>2. Kept(m) = First(V, Len(V) - (D - m))
    BY <1>5, <2>1
  <2>3. Len(V) = C + D /\ C \in Nat /\ D \in Nat /\ m \in 0 .. D
    BY <1>2, <1>3
  <2> HIDE DEF V, C, D
  <2>4. Len(V) - (D - m) = C + m
    BY <2>3
  <2>5. QED
    BY <1>6, <2>2, <2>4
<1>8. bonus \in Token
  <2>1. m + 1 \in 1 .. m + 1
    BY <1>2
  <2>2. QED
    BY <1>4, <2>1
<1> HIDE DEF m, bonus
<1>9. First(drafts, m) \in Seq(Token) /\ Len(First(drafts, m)) = m
      /\ \A i \in 1 .. m : First(drafts, m)[i] = drafts[i]
  BY <1>2, FirstProps
<1>10. /\ tokens' \in Seq(Token) /\ tokens' # <<>> /\ Len(tokens') = m + 1
       /\ \A i \in 1 .. m : tokens'[i] = drafts[i]
       /\ tokens'[m + 1] = bonus
  <2>1. PICK u \in Seq(Token) : u = First(drafts, m)
    BY <1>9
  <2>2. /\ Append(u, bonus) \in Seq(Token) /\ Append(u, bonus) # <<>> /\ Len(Append(u, bonus)) = Len(u) + 1
        /\ \A i \in 1 .. Len(u) : Append(u, bonus)[i] = u[i]
        /\ Append(u, bonus)[Len(u) + 1] = bonus
    BY <1>8, AppendProperties
  <2>3. QED
    BY <1>6, <1>9, <2>1, <2>2
<1>11. /\ Text' \in Seq(Token) /\ Len(Text') = C + m + 1
       /\ \A i \in 1 .. C : Text'[i] = context[i]
       /\ \A i \in 1 .. m + 1 : Text'[C + i] = tokens'[i]
  <2>1. PICK u \in Seq(Token) : u = tokens'
    BY <1>10
  <2>2. /\ context \o u \in Seq(Token) /\ Len(context \o u) = C + Len(u)
        /\ \A i \in 1 .. C : (context \o u)[i] = context[i]
        /\ \A i \in 1 .. Len(u) : (context \o u)[C + i] = u[i]
    BY <1>2, CatProps
  <2>3. Text' = context \o u /\ Len(u) = m + 1
    BY <1>1, <1>10, <2>1 DEF Text
  <2>4. QED
    BY <1>2, <2>1, <2>2, <2>3
<1>12. ASSUME NEW n \in 0 .. C + m PROVE First(Text', n) = First(V, n)
  <2>1. n \in 0 .. Len(Text') /\ n \in 0 .. Len(V)
    BY <1>2, <1>3, <1>11
  <2>2. ASSUME NEW i \in 1 .. n PROVE Text'[i] = V[i]
    <3>1. CASE i \in 1 .. C
      BY <1>3, <1>11, <3>1
    <3>2. CASE i \notin 1 .. C
      <4>1. i - C \in 1 .. m /\ i - C \in 1 .. D /\ i - C \in 1 .. m + 1 /\ C + (i - C) = i
        BY <1>2, <3>2
      <4>2. QED
        BY <1>3, <1>10, <1>11, <4>1
    <3>3. QED
      BY <3>1, <3>2
  <2>3. QED
    BY <1>3, <1>11, <2>1, <2>2, FirstAgree
<1>13. C + m \in 0 .. C + m /\ Len(Text') - 1 = C + m
  BY <1>2, <1>11
<1>14. CacheInv'
  BY <1>7, <1>12, <1>13 DEF CacheInv
<1>15. GreedyInv'
  <2>1. ASSUME NEW n \in C .. C + m PROVE Text'[n + 1] = Target(First(Text', n))
    <3>1. n + 1 - C \in 1 .. m + 1 /\ C + (n + 1 - C) = n + 1 /\ C - 1 + (n + 1 - C) = n /\ n \in 0 .. C + m
      BY <1>2, <2>1
    <3>2. Text'[n + 1] = tokens'[n + 1 - C]
      BY <1>11, <3>1
    <3>3. tokens'[n + 1 - C] = Pred(n + 1 - C)
      <4>1. CASE n + 1 - C = m + 1
        BY <1>10, <4>1 DEF bonus
      <4>2. CASE n + 1 - C \in 1 .. m
        BY <1>2, <1>10, <4>2 DEF m
      <4>3. QED
        BY <1>2, <3>1, <4>1, <4>2
    <3>4. Pred(n + 1 - C) = Target(First(V, n))
      BY <1>4, <3>1 DEF m
    <3>5. QED
      BY <1>12, <3>1, <3>2, <3>3, <3>4
  <2>2. QED
    BY <1>1, <1>13, <2>1 DEF GreedyInv
<1>16. RequestInv' /\ RoundInv'
  BY <1>1, <1>10 DEF SpecInv, RequestInv, RoundInv, Active
<1>17. kv' \in Seq(Token)
  <2>1. C + m \in 0 .. Len(V)
    BY <1>2, <1>3
  <2>2. QED
    BY <1>3, <1>7, <2>1, FirstProps
<1>18. captured' \in Seq(Token) /\ CaptureInv'
  <2> DEFINE all == Capture(capturing, captured, <<cur>> \o drafts)
             rest == D - m
  <2>1. captured' = First(all, IF source = "dflash" THEN Len(all) - rest ELSE Len(all))
    BY DEF Verify, CapturedThen, m
  <2>2. all \in Seq(Token) /\ (source = "dflash" => all = V)
    <3>1. <<cur>> \in Seq(Token) /\ captured \in Seq(Token)
      BY DEF SpecInv, Types
    <3>2. <<cur>> \o drafts \in Seq(Token)
      BY <1>2, <3>1, CatProps
    <3>3. captured \o (<<cur>> \o drafts) \in Seq(Token)
      BY <3>1, <3>2, CatProps
    <3>4. source = "dflash" => capturing /\ captured = kv
      BY <1>1 DEF SpecInv, CaptureInv
    <3>5. QED
      BY <1>5, <3>1, <3>3, <3>4 DEF Capture
  <2> HIDE DEF all
  <2>3. CASE source = "dflash"
    <3>1. Len(V) - rest = C + m
      BY <1>2, <1>3
    <3>2. captured' = First(V, C + m)
      BY <2>1, <2>2, <2>3, <3>1
    <3>3. capturing
      BY <1>1, <2>3 DEF SpecInv, CaptureInv
    <3>4. QED
      BY <1>1, <1>7, <1>17, <3>2, <3>3 DEF CaptureInv
  <2>4. CASE source # "dflash"
    <3>1. captured' = all
      BY <2>1, <2>2, <2>4, FirstOfAll
    <3>2. QED
      BY <1>1, <2>2, <2>4, <3>1 DEF CaptureInv
  <2>5. QED
    BY <2>3, <2>4
<1>19. cached' \in Seq(Token) /\ pending' \in Nat /\ ModelInv'
  <2> DEFINE dropping == source = "model" /\ D - m > 0 /\ pending > 0
  <2>1. IF dropping THEN cached' = First(cached, TrimmedTo(D - m)) /\ pending' = 0
                    ELSE cached' = cached /\ pending' = pending
    BY DEF Verify, modelDraft, m
  <2>2. CASE source # "model"
    BY <1>1, <2>1, <2>2 DEF ModelInv, SpecInv, Types
  <2>3. CASE source = "model"
    <3>1. /\ drafts = Continuation(context) /\ cached = context \o AllButLast(drafts)
          /\ pending = K - 1 /\ K \in Nat /\ K >= 1
      BY <1>1, <2>3, KAssumption DEF SpecInv, ModelInv
    <3>2. D = K
      BY <1>1, <1>2, <3>1, ContinuationGives DEF ModelsGiveTokens, SpecInv, Types
    <3>3. K - 1 \in 0 .. D /\ C + (K - 1) \in 0 .. Len(V) /\ AllButLast(drafts) = First(drafts, K - 1)
      BY <1>2, <1>3, <3>1, <3>2 DEF AllButLast
    <3>4. cached = First(V, C + (K - 1))
      BY <1>2, <3>1, <3>3, CatFirst
    <3>5. PICK y \in 0 .. C + m : y \in 0 .. C + (K - 1) /\ cached' = First(cached, y) /\ pending' \in Nat
      <4>1. Len(cached) = C + (K - 1) /\ First(cached, C + (K - 1)) = cached
        <5>1. Len(cached) = C + (K - 1) /\ cached \in Seq(Token)
          BY <1>3, <3>3, <3>4, FirstProps
        <5>2. QED
          BY <5>1, FirstOfAll
      <4>2. CASE dropping
        <5>1. D - m \in 1 .. K /\ ~(K - 1 < D - m - 1)
          BY <1>2, <3>2, <4>2
        <5>2. TrimmedTo(D - m) = C + (K - 1) - (D - m - 1)
          BY <3>1, <4>1, <5>1 DEF TrimmedTo
        <5>3. TrimmedTo(D - m) = C + m /\ C + m \in 0 .. C + m /\ C + m \in 0 .. C + (K - 1)
          BY <1>2, <3>2, <5>1, <5>2
        <5>4. QED
          BY <2>1, <4>2, <5>3
      <4>3. CASE ~dropping
        <5>1. m = K \/ K = 1
          BY <1>2, <2>3, <3>1, <3>2, <4>3
        <5>2. C + (K - 1) \in 0 .. C + m /\ C + (K - 1) \in 0 .. C + (K - 1)
          BY <1>2, <3>1, <5>1
        <5>3. cached' = cached /\ pending' = pending
          BY <2>1, <4>3
        <5> HIDE DEF dropping
        <5>4. cached' = First(cached, C + (K - 1))
          BY <4>1, <5>3
        <5>5. pending' \in Nat
          BY <3>1, <5>3
        <5>6. QED
          BY <5>2, <5>4, <5>5
      <4>4. QED
        BY <4>2, <4>3
    <3>6. cached' = First(V, y)
      BY <1>3, <3>3, <3>4, <3>5, FirstOfFirst
    <3>7. cached' \in Seq(Token) /\ Len(cached') = y
      <4>1. y \in 0 .. Len(V)
        BY <1>2, <1>3
      <4>2. QED
        BY <1>3, <3>6, <4>1, FirstProps
    <3>8. cached' = First(Text', Len(cached'))
      BY <1>12, <3>6, <3>7
    <3>9. Len(cached') < Len(Text')
      BY <1>2, <1>11, <3>7
    <3>10. QED
      BY <1>1, <3>5, <3>7, <3>8, <3>9 DEF ModelInv
  <2>4. QED
    BY <2>2, <2>3
<1>20. Types'
  BY <1>1, <1>10, <1>17, <1>18, <1>19, EmptySeq DEF SpecInv, Types
<1>21. QED
  BY <1>14, <1>15, <1>16, <1>18, <1>19, <1>20 DEF SpecInv

-----------------------------------------------------------------------------
(* A round: its tokens are yielded.                                        *)

\* The next token to be yielded is the target's choice after what was yielded.
LEMMA NextIsGreedy ==
  ASSUME SpecInv, pc = "emit"
  PROVE  /\ Head(tokens) = Target(prompt \o out) /\ Head(tokens) \in Token
         /\ Tail(tokens) \in Seq(Token) /\ Len(tokens) \in Nat /\ Len(tokens) >= 1
         /\ Len(Tail(tokens)) = Len(tokens) - 1
         /\ Head(tokens) = tokens[1] /\ \A i \in 1 .. Len(tokens) - 1 : Tail(tokens)[i] = tokens[i + 1]
<1>1. Types /\ tokens \in Seq(Token) /\ tokens # <<>> /\ context \in Seq(Token)
  BY DEF SpecInv, Types, RoundInv
<1>2. Len(tokens) \in Nat /\ Len(tokens) >= 1
  BY <1>1, EmptySeq
<1>3. /\ Head(tokens) \in Token /\ Tail(tokens) \in Seq(Token) /\ Len(Tail(tokens)) = Len(tokens) - 1
      /\ Head(tokens) = tokens[1] /\ \A i \in 1 .. Len(tokens) - 1 : Tail(tokens)[i] = tokens[i + 1]
  BY <1>1, HeadTailProperties
<1>4. /\ Len(Text) = Len(context) + Len(tokens) /\ Len(context) \in Nat
      /\ \A i \in 1 .. Len(tokens) : Text[Len(context) + i] = tokens[i]
  BY <1>1, TextProps
<1>5. Len(context) \in Len(context) .. Len(Text) - 1 /\ 1 \in 1 .. Len(tokens)
  BY <1>2, <1>4
<1>6. Text[Len(context) + 1] = Target(First(Text, Len(context)))
  BY <1>5 DEF SpecInv, GreedyInv
<1>7. First(Text, Len(context)) = context
  <2>1. Len(context) \in 0 .. Len(context)
    BY <1>4
  <2>2. QED
    BY <1>1, <2>1, FirstOfCat, FirstOfAll DEF Text
<1>8. context = prompt \o out
  BY DEF SpecInv, RequestInv, Active
<1>9. tokens[1] = Target(prompt \o out)
  BY <1>4, <1>5, <1>6, <1>7, <1>8
<1>10. QED
  BY <1>2, <1>3, <1>9

LEMMA EmitStep ==
  ASSUME SpecInv, Emit
  PROVE  SpecInv'
<1> DEFINE h == Head(tokens)
           C == Len(context)
           N == Len(tokens)
<1>1. /\ pc = "emit" /\ open /\ Active
      /\ UNCHANGED <<prompt, source, kv, drafts, cached, pending, capturing, captured>>
  BY DEF Emit, draftVars, modelDraft, dflash, Active
<1>2. /\ out' = Append(out, h) /\ context' = Append(context, h) /\ open' = ~AtLimit
      /\ tokens' = IF AtLimit THEN <<>> ELSE Tail(tokens)
      /\ pc' = IF AtLimit THEN "idle" ELSE IF N = 1 THEN "draft" ELSE "emit"
      /\ cur' = IF N = 1 THEN h ELSE cur
  BY DEF Emit
<1>3. /\ h \in Token /\ Tail(tokens) \in Seq(Token) /\ N \in Nat /\ N >= 1 /\ Len(Tail(tokens)) = N - 1
      /\ h = tokens[1] /\ \A i \in 1 .. N - 1 : Tail(tokens)[i] = tokens[i + 1]
  BY <1>1, NextIsGreedy
<1>4. Types /\ prompt \in Seq(Token) /\ out \in Seq(Token) /\ context \in Seq(Token) /\ prompt # <<>>
      /\ context = prompt \o out
  BY <1>1 DEF SpecInv, Types, RequestInv
<1> HIDE DEF h
<1>5. /\ context' \in Seq(Token) /\ Len(context') = C + 1 /\ context' = context \o <<h>>
      /\ \A i \in 1 .. C : context'[i] = context[i]
      /\ context'[C + 1] = h
  BY <1>2, <1>3, <1>4, AppendProperties, AppendIsConcat
<1>6. out' \in Seq(Token) /\ out' = out \o <<h>>
  BY <1>2, <1>3, <1>4, AppendProperties, AppendIsConcat
<1>7. context' = prompt \o out'
  <2>1. <<h>> \in Seq(Token)
    BY <1>3
  <2>2. (prompt \o out) \o <<h>> = prompt \o (out \o <<h>>)
    BY <1>4, <2>1, ConcatAssociative
  <2>3. QED
    BY <1>4, <1>5, <1>6, <2>2
<1>8. RequestInv'
  BY <1>1, <1>2, <1>4, <1>7 DEF RequestInv, Active
<1>9. tokens' \in Seq(Token)
  BY <1>2, <1>3, EmptySeq
<1>10. Types'
  <2>1. cur' \in Token
    BY <1>2, <1>3 DEF SpecInv, Types
  <2>2. QED
    BY <1>1, <1>2, <1>5, <1>6, <1>9, <2>1 DEF SpecInv, Types
<1>11. CASE AtLimit
  <2>1. pc' = "idle" /\ tokens' = <<>>
    BY <1>2, <1>11
  <2>2. Text' = context' /\ Len(context') \in Nat
    <3>1. context' \o <<>> = context' /\ Len(context') \in Nat
      BY <1>5, ConcatEmptySeq, LenProperties
    <3>2. QED
      BY <2>1, <3>1 DEF Text
  <2>3. GreedyInv'
    BY <2>2 DEF GreedyInv
  <2>4. RoundInv' /\ CacheInv' /\ ModelInv' /\ CaptureInv'
    BY <2>1 DEF RoundInv, CacheInv, ModelInv, CaptureInv, Active
  <2>5. QED
    BY <1>8, <1>10, <2>3, <2>4 DEF SpecInv
<1>12. CASE ~AtLimit
  <2>1. tokens' = Tail(tokens) /\ pc' = (IF N = 1 THEN "draft" ELSE "emit")
    BY <1>2, <1>12
  <2>2. /\ Text \in Seq(Token) /\ Len(Text) = C + N /\ C \in Nat
        /\ \A i \in 1 .. C : Text[i] = context[i]
        /\ \A i \in 1 .. N : Text[C + i] = tokens[i]
    BY <1>4, TextProps
  <2>3. /\ Text' \in Seq(Token) /\ Len(Text') = C + 1 + (N - 1)
        /\ \A i \in 1 .. C + 1 : Text'[i] = context'[i]
        /\ \A i \in 1 .. N - 1 : Text'[C + 1 + i] = Tail(tokens)[i]
    <3>1. PICK a \in Seq(Token), b \in Seq(Token) : a = context' /\ b = Tail(tokens)
      BY <1>3, <1>5
    <3>2. /\ a \o b \in Seq(Token) /\ Len(a \o b) = Len(a) + Len(b)
          /\ \A i \in 1 .. Len(a) : (a \o b)[i] = a[i]
          /\ \A i \in 1 .. Len(b) : (a \o b)[Len(a) + i] = b[i]
      BY CatProps
    <3>3. Text' = a \o b /\ Len(a) = C + 1 /\ Len(b) = N - 1
      BY <1>3, <1>5, <2>1, <3>1 DEF Text
    <3>4. QED
      BY <3>1, <3>2, <3>3
  <2>4. Text' = Text
    <3>1. ASSUME NEW i \in 1 .. C + N PROVE Text'[i] = Text[i]
      <4>1. CASE i \in 1 .. C
        <5>1. i \in 1 .. C + 1
          BY <2>2, <4>1
        <5>2. QED
          BY <1>5, <2>2, <2>3, <4>1, <5>1
      <4>2. CASE i = C + 1
        <5>1. 1 \in 1 .. N /\ C + 1 \in 1 .. C + 1
          BY <1>3, <2>2
        <5>2. QED
          BY <1>3, <1>5, <2>2, <2>3, <4>2, <5>1
      <4>3. CASE i \in C + 2 .. C + N
        <5>1. PICK j \in 1 .. N - 1 : i = C + 1 + j
          <6>1. i - C - 1 \in 1 .. N - 1 /\ i = C + 1 + (i - C - 1)
            BY <1>3, <2>2, <4>3
          <6>2. QED
            BY <6>1
        <5>2. j + 1 \in 1 .. N /\ C + (j + 1) = i
          BY <1>3, <2>2, <5>1
        <5>3. Text'[i] = Tail(tokens)[j]
          BY <2>3, <5>1
        <5>4. Text[i] = tokens[j + 1]
          BY <2>2, <5>2
        <5>5. QED
          BY <1>3, <5>3, <5>4
      <4>4. i \in 1 .. C \/ i = C + 1 \/ i \in C + 2 .. C + N
        BY <1>3, <2>2, <3>1
      <4>5. QED
        BY <4>1, <4>2, <4>3, <4>4
    <3>2. Len(Text') = Len(Text)
      BY <1>3, <2>2, <2>3
    <3>3. QED
      BY <2>2, <2>3, <3>1, <3>2, SameSeq
  <2>5. GreedyInv'
    <3>1. ASSUME NEW n \in C + 1 .. Len(Text) - 1 PROVE Text[n + 1] = Target(First(Text, n))
      <4>1. n \in C .. Len(Text) - 1
        BY <1>3, <2>2
      <4>2. QED
        BY <4>1 DEF SpecInv, GreedyInv
    <3>2. QED
      BY <1>5, <2>4, <3>1 DEF GreedyInv
  <2>6. RoundInv'
    <3>1. CASE N = 1
      <4>1. Tail(tokens) = <<>> /\ pc' = "draft"
        BY <1>3, <2>1, <3>1, EmptySeq
      <4>2. cur' = h /\ LastOf(context') = h
        BY <1>2, <1>5, <3>1 DEF LastOf
      <4>3. QED
        BY <2>1, <4>1, <4>2 DEF RoundInv
    <3>2. CASE N # 1
      <4>1. Tail(tokens) # <<>> /\ pc' = "emit"
        <5>1. Len(Tail(tokens)) # 0
          BY <1>3, <3>2
        <5>2. QED
          BY <2>1, <3>2, <5>1, EmptySeq
      <4>2. QED
        BY <2>1, <4>1 DEF RoundInv
    <3>3. QED
      BY <3>1, <3>2
  <2>7. CacheInv' /\ CaptureInv'
    BY <1>1, <2>4 DEF SpecInv, CacheInv, CaptureInv, Active
  <2>8. ModelInv'
    BY <1>1, <2>1, <2>4 DEF SpecInv, ModelInv, Active
  <2>9. QED
    BY <1>8, <1>10, <2>5, <2>6, <2>7, <2>8 DEF SpecInv
<1>13. QED
  BY <1>11, <1>12

LEMMA EmitStopStep ==
  ASSUME SpecInv, EmitStop
  PROVE  SpecInv'
<1>1. pc' = "idle" /\ tokens' = <<>>
  BY DEF EmitStop
<1>2. UNCHANGED <<prompt, out, source, context, cur, kv, drafts, cached, pending, capturing, captured>>
  BY DEF EmitStop, draftVars, modelDraft, dflash
<1>3. Types'
  BY <1>1, <1>2, EmptySeq DEF SpecInv, Types
<1>4. Text' = context /\ Len(context) \in Nat
  <2>1. context \o <<>> = context /\ Len(context) \in Nat
    BY ConcatEmptySeq, LenProperties DEF SpecInv, Types
  <2>2. QED
    BY <1>1, <1>2, <2>1 DEF Text
<1>5. GreedyInv'
  BY <1>2, <1>4 DEF GreedyInv
<1>6. RequestInv' /\ RoundInv' /\ CacheInv' /\ ModelInv' /\ CaptureInv'
  BY <1>1 DEF RequestInv, RoundInv, CacheInv, ModelInv, CaptureInv, Active
<1>7. QED
  BY <1>3, <1>5, <1>6 DEF SpecInv

LEMMA SpecStutter ==
  ASSUME SpecInv, UNCHANGED specVars
  PROVE  SpecInv'
<1>1. UNCHANGED <<prompt, out, open, source, context, pc, cur, kv, drafts, tokens, cached, pending,
                  capturing, captured>>
  BY DEF specVars, request, draftVars, modelDraft, dflash
<1>2. Text' = Text
  BY <1>1 DEF Text
<1>3. Types' /\ RequestInv' /\ RoundInv'
  BY <1>1 DEF SpecInv, Types, RequestInv, RoundInv, Active
<1>4. CacheInv' /\ GreedyInv'
  BY <1>1, <1>2 DEF SpecInv, CacheInv, GreedyInv, Active
<1>5. ModelInv' /\ CaptureInv'
  BY <1>1, <1>2 DEF SpecInv, ModelInv, CaptureInv, Active
<1>6. QED
  BY <1>3, <1>4, <1>5 DEF SpecInv

\* A window of n on a text: its last n tokens, x where it has fewer.
At(s, x, p) == IF p >= 1 THEN s[p] ELSE x
Window(s, x, n) == [k \in 1 .. n |-> At(s, x, Len(s) - n + k)]

LEMMA WindowProps ==
  ASSUME NEW S, NEW s \in Seq(S), NEW x \in S, NEW n \in Nat
  PROVE  /\ Window(s, x, n) \in Seq(S) /\ Len(Window(s, x, n)) = n
         /\ \A k \in 1 .. n :
              Window(s, x, n)[k] = At(s, x, Len(s) - n + k)
<1>1. Len(s) \in Nat
  BY LenProperties
<1>2. \A k \in 1 .. n : Window(s, x, n)[k] = At(s, x, Len(s) - n + k)
  BY DEF Window
<1>3. ASSUME NEW k \in 1 .. n PROVE Window(s, x, n)[k] \in S
  <2>1. CASE Len(s) - n + k >= 1
    <3>1. Len(s) - n + k \in 1 .. Len(s)
      BY <1>1, <2>1
    <3>2. QED
      BY <1>2, <2>1, <3>1, ElementOfSeq DEF At
  <2>2. CASE ~(Len(s) - n + k >= 1)
    BY <1>2, <2>2 DEF At
  <2>3. QED
    BY <2>1, <2>2
<1>4. Window(s, x, n) = [k \in 1 .. n |-> Window(s, x, n)[k]]
  BY DEF Window
<1>5. Window(s, x, n) \in [1 .. n -> S]
  BY <1>3, <1>4
<1>6. QED
  BY <1>2, <1>5, SeqDef, LenProperties

\* A call moves the window on.
LEMMA WindowMoves ==
  ASSUME NEW S, NEW s \in Seq(S), NEW t \in Seq(S), NEW x \in S, NEW n \in Nat
  PROVE  LastN(Window(s, x, n) \o t, n) = Window(s \o t, x, n)
<1>a. PICK w \in Seq(S) : w = Window(s, x, n)
  BY WindowProps
<1>1. /\ w \in Seq(S) /\ Len(w) = n
      /\ \A k \in 1 .. n : w[k] = At(s, x, Len(s) - n + k)
  BY <1>a, WindowProps
<1>b. PICK f : f = w \o t
  OBVIOUS
<1>c. w \in Seq(S) /\ Len(w) = n
  BY <1>1
<1>2. /\ f \in Seq(S) /\ Len(f) = n + Len(t) /\ Len(t) \in Nat
      /\ \A i \in 1 .. n : f[i] = w[i]
      /\ \A i \in 1 .. Len(t) : f[n + i] = t[i]
  <2>1. /\ w \o t \in Seq(S) /\ Len(w \o t) = Len(w) + Len(t) /\ Len(t) \in Nat
        /\ \A i \in 1 .. Len(w) : (w \o t)[i] = w[i]
        /\ \A i \in 1 .. Len(t) : (w \o t)[Len(w) + i] = t[i]
    BY CatProps
  <2>2. QED
    BY <1>b, <1>c, <2>1
<1>3. /\ s \o t \in Seq(S) /\ Len(s \o t) = Len(s) + Len(t) /\ Len(s) \in Nat
      /\ \A i \in 1 .. Len(s) : (s \o t)[i] = s[i]
      /\ \A i \in 1 .. Len(t) : (s \o t)[Len(s) + i] = t[i]
  BY CatProps
<1>4. PICK u \in Seq(S) : u = s \o t
  BY <1>3
<1>5. /\ Window(u, x, n) \in Seq(S) /\ Len(Window(u, x, n)) = n
      /\ \A k \in 1 .. n :
           Window(u, x, n)[k] = At(u, x, Len(u) - n + k)
  BY WindowProps
<1>6. LastN(f, n) = SubSeq(f, Len(t) + 1, n + Len(t))
  <2>1. n + Len(t) - n + 1 = Len(t) + 1
    BY <1>2
  <2>2. QED
    BY <1>2, <2>1 DEF LastN
<1>7. \A i \in Len(t) + 1 .. n + Len(t) : f[i] \in S
  BY <1>2, ElementOfSeq
<1>8. /\ LastN(f, n) \in Seq(S) /\ Len(LastN(f, n)) = n
      /\ \A k \in 1 .. n : LastN(f, n)[k] = f[Len(t) + k]
  <2>1. PICK lo \in Int, hi \in Int : lo = Len(t) + 1 /\ hi = n + Len(t)
    <3>1. Len(t) + 1 \in Int /\ n + Len(t) \in Int
      BY <1>2
    <3>2. QED
      BY <3>1
  <2>2. \A i \in lo .. hi : f[i] \in S
    BY <1>7, <2>1
  <2>3. /\ SubSeq(f, lo, hi) \in Seq(S)
        /\ Len(SubSeq(f, lo, hi)) = IF lo <= hi THEN hi - lo + 1 ELSE 0
        /\ \A k \in 1 .. hi - lo + 1 : SubSeq(f, lo, hi)[k] = f[lo + k - 1]
    BY <2>2, SubSeqProperties
  <2>4. hi - lo + 1 = n /\ (n > 0 => lo <= hi) /\ (n = 0 => ~(lo <= hi))
    BY <1>2, <2>1
  <2>5. \A k \in 1 .. n : lo + k - 1 = Len(t) + k
    BY <1>2, <2>1
  <2>6. LastN(f, n) = SubSeq(f, lo, hi)
    BY <1>6, <2>1
  <2>7. Len(SubSeq(f, lo, hi)) = n
    BY <2>3, <2>4
  <2>8. QED
    BY <2>3, <2>4, <2>5, <2>6, <2>7
<1>9. ASSUME NEW k \in 1 .. n PROVE LastN(f, n)[k] = Window(u, x, n)[k]
  <2>1. Len(u) - n + k = Len(s) + Len(t) - n + k /\ Len(u) \in Nat
    BY <1>3, <1>4
  <2>2. CASE Len(t) + k > n
    <3>1. PICK i \in 1 .. Len(t) : Len(t) + k = n + i
      <4>1. Len(t) + k - n \in 1 .. Len(t) /\ Len(t) + k = n + (Len(t) + k - n)
        BY <1>2, <2>2
      <4>2. QED
        BY <4>1
    <3>2. LastN(f, n)[k] = t[i]
      BY <1>2, <1>8, <3>1
    <3>3. Len(u) - n + k = Len(s) + i /\ Len(u) - n + k >= 1
      <4>1. Len(u) - n + k = Len(s) + (Len(t) + k) - n
        BY <1>2, <1>3, <2>1
      <4>2. Len(s) + (n + i) - n = Len(s) + i
        BY <1>2, <1>3
      <4>3. Len(u) - n + k = Len(s) + i
        BY <3>1, <4>1, <4>2
      <4>4. Len(s) + i >= 1
        BY <1>3
      <4>5. QED
        BY <4>3, <4>4
    <3>4. QED
      BY <1>3, <1>4, <1>5, <3>2, <3>3 DEF At
  <2>3. CASE ~(Len(t) + k > n)
    <3>1. Len(t) + k \in 1 .. n
      BY <1>2, <2>3
    <3>2. LastN(f, n)[k] = At(s, x, Len(s) - n + (Len(t) + k))
      BY <1>1, <1>2, <1>8, <3>1
    <3>3. Len(u) - n + k = Len(s) - n + (Len(t) + k) /\ Len(s) - n + (Len(t) + k) <= Len(s)
      BY <1>2, <1>3, <2>1, <2>3
    <3>4. CASE Len(u) - n + k >= 1
      <4>1. Len(u) - n + k \in 1 .. Len(s)
        BY <1>3, <3>3, <3>4, <2>1
      <4>2. u[Len(u) - n + k] = s[Len(u) - n + k]
        BY <1>3, <1>4, <4>1
      <4>3. QED
        BY <1>5, <3>2, <3>3, <3>4, <4>2 DEF At
    <3>5. CASE ~(Len(u) - n + k >= 1)
      BY <1>5, <3>2, <3>3, <3>5 DEF At
    <3>6. QED
      BY <3>4, <3>5
  <2>4. QED
    BY <2>2, <2>3
<1>10. LastN(f, n) = Window(u, x, n)
  BY <1>5, <1>8, <1>9, SameSeq
<1>11. QED
  BY <1>a, <1>b, <1>4, <1>10

\* What a call reads through the window and its own chunk t is what the text holds.
ReadsTheText(s, t, x, n) ==
  \A k \in 1 .. n + Len(t) : (Window(s, x, n) \o t)[k] = At(s \o t, x, Len(s) - n + k)

LEMMA WindowReads ==
  ASSUME NEW S, NEW s \in Seq(S), NEW t \in Seq(S), NEW x \in S, NEW n \in Nat
  PROVE  ReadsTheText(s, t, x, n)
<1> SUFFICES ASSUME NEW k \in 1 .. n + Len(t)
             PROVE  (Window(s, x, n) \o t)[k] = At(s \o t, x, Len(s) - n + k)
  BY DEF ReadsTheText
<1>a. PICK w : w = Window(s, x, n)
  OBVIOUS
<1>1. /\ w \in Seq(S) /\ Len(w) = n
      /\ \A j \in 1 .. n : w[j] = At(s, x, Len(s) - n + j)
  BY <1>a, WindowProps
<1>2. /\ Len(t) \in Nat
      /\ \A i \in 1 .. n : (w \o t)[i] = w[i]
      /\ \A i \in 1 .. Len(t) : (w \o t)[n + i] = t[i]
  BY <1>1, CatProps
<1>3. /\ Len(s) \in Nat
      /\ \A i \in 1 .. Len(s) : (s \o t)[i] = s[i]
      /\ \A i \in 1 .. Len(t) : (s \o t)[Len(s) + i] = t[i]
  BY CatProps
<1>4. CASE k \in 1 .. n
  <2>1. Len(s) - n + k >= 1 => Len(s) - n + k \in 1 .. Len(s)
    BY <1>3, <1>4
  <2>2. QED
    BY <1>a, <1>1, <1>2, <1>3, <1>4, <2>1 DEF At
<1>5. CASE k \notin 1 .. n
  <2>1. PICK i \in 1 .. Len(t) : k = n + i
    <3>1. k - n \in 1 .. Len(t) /\ k = n + (k - n)
      BY <1>2, <1>5
    <3>2. QED
      BY <3>1
  <2>2. Len(s) - n + k = Len(s) + i /\ Len(s) - n + k >= 1
    BY <1>2, <1>3, <2>1
  <2>3. QED
    BY <1>a, <1>2, <1>3, <2>1, <2>2 DEF At
<1>6. QED
  BY <1>4, <1>5

-----------------------------------------------------------------------------
(* The windows of the convolutions.                                        *)

\* What is back positions before the end of a beginning of a text.
LEMMA BeforeIs ==
  ASSUME NEW S, NEW u \in Seq(S), NEW m \in 1 .. Len(u), NEW back \in Nat
  PROVE  Before(SubSeq(u, 1, m), back) = At(u, Absent, m - back)
<1>1. Len(u) \in Nat /\ m \in 0 .. Len(u)
  BY LenProperties
<1>2. PICK c : c = First(u, m)
  OBVIOUS
<1>3. Len(c) = m /\ \A i \in 1 .. m : c[i] = u[i]
  BY <1>1, <1>2, FirstProps
<1>4. Before(c, back) = At(u, Absent, m - back)
  <2>1. CASE back < m
    <3>1. m - back \in 1 .. m /\ m - back >= 1
      BY <1>1, <2>1
    <3>2. QED
      BY <1>3, <2>1, <3>1 DEF Before, At
  <2>2. CASE ~(back < m)
    <3>1. ~(m - back >= 1)
      BY <1>1, <2>2
    <3>2. QED
      BY <1>3, <2>2, <3>1 DEF Before, At
  <2>3. QED
    BY <2>1, <2>2
<1>5. QED
  BY <1>2, <1>4 DEF First

\* A convolution over the window and the chunk sees what precedes the position in
\* the text, wherever the call began.
LEMMA TapsReadTheText ==
  ASSUME NEW S, Absent \in S, NEW s \in Seq(S), NEW t \in Seq(S), NEW i \in 1 .. Len(t),
         NEW kernel \in Nat, NEW d \in Nat, kernel > 0, d > 0
  PROVE  Taps(Window(s, Absent, (kernel - 1) * d) \o t, i, kernel, d) =
           [j \in 1 .. kernel |-> Before(SubSeq(s \o t, 1, Len(s) + i), (kernel - j) * d)]
<1>1. PICK n \in Nat : n = (kernel - 1) * d
  <2>1. (kernel - 1) * d \in Nat
    OBVIOUS
  <2>2. QED
    BY <2>1
<1>0. \A k \in 1 .. n + Len(t) :
        (Window(s, Absent, n) \o t)[k] = At(s \o t, Absent, Len(s) - n + k)
  <2>1. ReadsTheText(s, t, Absent, n)
    BY WindowReads
  <2>2. QED
    BY <2>1 DEF ReadsTheText
<1>2. /\ s \o t \in Seq(S) /\ Len(s \o t) = Len(s) + Len(t)
      /\ Len(s) \in Nat /\ Len(t) \in Nat
  BY CatProps
<1>3. Len(s) + i \in 1 .. Len(s \o t)
  BY <1>2
<1>4. ASSUME NEW j \in 1 .. kernel
      PROVE  (Window(s, Absent, n) \o t)[i + (j - 1) * d] =
               Before(SubSeq(s \o t, 1, Len(s) + i), (kernel - j) * d)
  <2>1. PICK a \in Nat, b \in Nat : a = (j - 1) * d /\ b = (kernel - j) * d
    <3>1. (j - 1) * d \in Nat /\ (kernel - j) * d \in Nat
      OBVIOUS
    <3>2. QED
      BY <3>1
  <2>2. a + b = n
    BY <1>1, <2>1
  <2>3. i + a \in 1 .. n + Len(t)
    BY <1>2, <2>2
  <2>4. (Window(s, Absent, n) \o t)[i + a] = At(s \o t, Absent, Len(s) - n + (i + a))
    <3>1. PICK k \in 1 .. n + Len(t) : k = i + a
      BY <2>3
    <3>2. (Window(s, Absent, n) \o t)[k] = At(s \o t, Absent, Len(s) - n + k)
      BY <1>0
    <3>3. QED
      BY <3>1, <3>2
  <2>5. Before(SubSeq(s \o t, 1, Len(s) + i), b) = At(s \o t, Absent, Len(s) + i - b)
    <3>1. PICK u \in Seq(S), m \in 1 .. Len(s \o t) : u = s \o t /\ m = Len(s) + i
      BY <1>2, <1>3
    <3>2. Before(SubSeq(u, 1, m), b) = At(u, Absent, m - b)
      BY <3>1, BeforeIs
    <3>3. QED
      BY <3>1, <3>2
  <2>6. Len(s) - n + (i + a) = Len(s) + i - b
    BY <1>2, <2>2
  <2>7. QED
    BY <2>1, <2>4, <2>5, <2>6
<1>5. QED
  BY <1>1, <1>4 DEF Taps

-----------------------------------------------------------------------------
(* The positions attended to.                                              *)

LEMMA DivFacts ==
  ASSUME NEW x \in Nat, NEW d \in Nat \ {0}
  PROVE  /\ x \div d \in Nat /\ x % d \in 0 .. d - 1
         /\ x = d * (x \div d) + (x % d)
OBVIOUS

\* A quotient is bounded by a multiple that bounds the number.
LEMMA DivBelow ==
  ASSUME NEW x \in Nat, NEW d \in Nat \ {0}, NEW q \in Nat
  PROVE  (x \div d < q) <=> (x < q * d)
<1>1. PICK y \in Nat, r \in 0 .. d - 1 : y = x \div d /\ x = d * y + r
  BY DivFacts
<1>2. ASSUME y < q PROVE x < q * d
  <2>1. y + 1 <= q
    BY <1>2
  <2>2. (y + 1) * d <= q * d
    BY <2>1
  <2>3. (y + 1) * d = d * y + d
    OBVIOUS
  <2>4. PICK a \in Nat, b \in Nat : a = d * y /\ b = q * d
    OBVIOUS
  <2>5. a + d <= b
    BY <2>2, <2>3, <2>4
  <2>6. QED
    BY <1>1, <2>4, <2>5
<1>3. ASSUME ~(y < q) PROVE ~(x < q * d)
  <2>1. q <= y
    BY <1>3
  <2>2. q * d <= y * d
    BY <2>1
  <2>3. PICK a \in Nat, b \in Nat : a = d * y /\ b = q * d
    OBVIOUS
  <2>4. b <= a
    BY <2>2, <2>3
  <2>5. QED
    BY <1>1, <2>3, <2>4
<1>4. QED
  BY <1>1, <1>2, <1>3

\* The indexer's scores compare.
ScoresCompare ==
  \A x \in Token, b \in Nat, block \in Seq(Token) : Score(x, b, block) \in Int

LEMMA PartAgrees ==
  ASSUME NEW S, NEW u \in Seq(S), NEW m \in 0 .. Len(u), NEW lo \in Nat, NEW hi \in Nat, lo > 0, hi <= m
  PROVE  SubSeq(First(u, m), lo, hi) = SubSeq(u, lo, hi) /\ SubSeq(u, lo, hi) \in Seq(S)
<1>1. Len(u) \in Nat
  BY LenProperties
<1>2. PICK c : c = First(u, m)
  OBVIOUS
<1>3. c \in Seq(S) /\ Len(c) = m /\ \A i \in 1 .. m : c[i] = u[i]
  BY <1>2, FirstProps
<1>4. \A i \in lo .. hi : u[i] \in S /\ c[i] \in S /\ c[i] = u[i]
  <2>1. \A i \in lo .. hi : i \in 1 .. m /\ i \in 1 .. Len(u)
    BY <1>1
  <2>2. QED
    BY <1>3, <2>1, ElementOfSeq
<1>5. /\ SubSeq(u, lo, hi) \in Seq(S)
      /\ Len(SubSeq(u, lo, hi)) = IF lo <= hi THEN hi - lo + 1 ELSE 0
      /\ \A i \in 1 .. hi - lo + 1 : SubSeq(u, lo, hi)[i] = u[lo + i - 1]
  BY <1>4, SubSeqProperties
<1>6. /\ SubSeq(c, lo, hi) \in Seq(S)
      /\ Len(SubSeq(c, lo, hi)) = IF lo <= hi THEN hi - lo + 1 ELSE 0
      /\ \A i \in 1 .. hi - lo + 1 : SubSeq(c, lo, hi)[i] = c[lo + i - 1]
  BY <1>3, <1>4, SubSeqProperties
<1>7. \A i \in 1 .. hi - lo + 1 : lo + i - 1 \in lo .. hi
  OBVIOUS
<1>8. \A i \in 1 .. Len(SubSeq(c, lo, hi)) : i \in 1 .. hi - lo + 1
  BY <1>6
<1>9. SubSeq(c, lo, hi) = SubSeq(u, lo, hi)
  BY <1>4, <1>5, <1>6, <1>7, <1>8, SameSeq
<1>10. QED
  BY <1>2, <1>5, <1>9

LEMMA SamePart ==
  ASSUME NEW u \in Seq(Token), NEW m \in 0 .. Len(u), NEW lo \in Nat, NEW hi \in Nat, lo > 0, hi <= m
  PROVE  SubSeq(First(u, m), lo, hi) = SubSeq(u, lo, hi)
BY PartAgrees

LEMMA RatioFacts == Ratio \in Nat /\ Ratio > 0 /\ BlockTopK \in Nat
<1>1. Ratio \in Nat /\ Ratio > 0 /\ Budget \in Nat
  BY IndexerAssumption
<1>2. Budget \div Ratio \in Nat
  BY <1>1
<1>3. QED
  BY <1>1, <1>2 DEF BlockTopK

\* What a query selects depends on the blocks complete by its own position.
LEMMA SelectedInPrefix ==
  ASSUME NEW u \in Seq(Token), NEW m \in 1 .. Len(u), NEW x
  PROVE  Selected(x, m - 1, u) = Selected(x, m - 1, First(u, m))
<1>1. Len(u) \in Nat /\ m \in Nat /\ m - 1 + 1 = m /\ m \in 0 .. Len(u)
  BY LenProperties
<1>0. \A lo \in Nat, hi \in Nat : lo > 0 /\ hi <= m => SubSeq(First(u, m), lo, hi) = SubSeq(u, lo, hi)
  BY <1>1, SamePart
<1>2. Ratio \in Nat /\ Ratio > 0
  BY RatioFacts
<1>3. PICK B \in Nat : B = m \div Ratio
  BY <1>1, <1>2
<1> DEFINE block(raw, b) == SubSeq(raw, b * Ratio + 1, (b + 1) * Ratio)
           score(raw) == [b \in 0 .. B - 1 |-> Score(x, b, block(raw, b))]
<1>4. ASSUME NEW b \in 0 .. B - 1 PROVE block(u, b) = block(First(u, m), b)
  <2>1. (b + 1) * Ratio <= B * Ratio
    BY <1>2
  <2>2. B * Ratio <= m
    BY <1>1, <1>2, <1>3, DivBelow
  <2>3. PICK lo \in Nat, hi \in Nat : lo = b * Ratio + 1 /\ hi = (b + 1) * Ratio /\ lo > 0
    <3>1. b * Ratio + 1 \in Nat /\ (b + 1) * Ratio \in Nat /\ b * Ratio + 1 > 0
      BY <1>2
    <3>2. QED
      BY <3>1
  <2>4. hi <= m
    <3>1. PICK y \in Nat : y = B * Ratio
      BY <1>2
    <3>2. QED
      BY <1>1, <2>1, <2>2, <2>3, <3>1
  <2>5. SubSeq(First(u, m), lo, hi) = SubSeq(u, lo, hi)
    BY <1>0, <2>3, <2>4
  <2>6. QED
    BY <2>3, <2>5
<1>5. score(u) = score(First(u, m))
  BY <1>4
<1>6. /\ Selected(x, m - 1, u) =
           {b \in DOMAIN score(u) :
              Cardinality({c \in DOMAIN score(u) :
                 score(u)[c] > score(u)[b] \/ (score(u)[c] = score(u)[b] /\ c < b)}) < BlockTopK}
      /\ Selected(x, m - 1, First(u, m)) =
           {b \in DOMAIN score(First(u, m)) :
              Cardinality({c \in DOMAIN score(First(u, m)) :
                 score(First(u, m))[c] > score(First(u, m))[b]
                   \/ (score(First(u, m))[c] = score(First(u, m))[b] /\ c < b)}) < BlockTopK}
  BY <1>1, <1>3 DEF Selected
<1> HIDE DEF score
<1>7. QED
  BY <1>5, <1>6

\* A query for which there are no more complete blocks than it may keep keeps all.
LEMMA AllSelected ==
  ASSUME ScoresCompare, NEW u \in Seq(Token), NEW m \in 1 .. Len(u), NEW x \in Token,
         m \div Ratio <= BlockTopK
  PROVE  Selected(x, m - 1, u) = 0 .. (m \div Ratio) - 1
<1>1. Len(u) \in Nat /\ m \in Nat /\ m - 1 + 1 = m /\ m \in 0 .. Len(u)
  BY LenProperties
<1>2. Ratio \in Nat /\ Ratio > 0 /\ BlockTopK \in Nat
  BY RatioFacts
<1>3. PICK B \in Nat : B = m \div Ratio
  BY <1>1, <1>2
<1> DEFINE block(b) == SubSeq(u, b * Ratio + 1, (b + 1) * Ratio)
           score == [b \in 0 .. B - 1 |-> Score(x, b, block(b))]
           ahead(b) == {c \in 0 .. B - 1 : score[c] > score[b] \/ (score[c] = score[b] /\ c < b)}
<1>4. ASSUME NEW b \in 0 .. B - 1 PROVE score[b] \in Int
  <2>1. (b + 1) * Ratio <= B * Ratio
    BY <1>2
  <2>2. B * Ratio <= m
    BY <1>1, <1>2, <1>3, DivBelow
  <2>3. PICK lo \in Nat, hi \in Nat : lo = b * Ratio + 1 /\ hi = (b + 1) * Ratio /\ lo > 0
    <3>1. b * Ratio + 1 \in Nat /\ (b + 1) * Ratio \in Nat /\ b * Ratio + 1 > 0
      BY <1>2
    <3>2. QED
      BY <3>1
  <2>4. hi <= m
    <3>1. PICK y \in Nat : y = B * Ratio
      BY <1>2
    <3>2. QED
      BY <1>1, <2>1, <2>2, <2>3, <3>1
  <2>5. SubSeq(u, lo, hi) \in Seq(Token)
    BY <1>1, <2>3, <2>4, PartAgrees
  <2>6. PICK bl \in Seq(Token) : bl = block(b)
    BY <2>3, <2>5
  <2>7. Score(x, b, bl) \in Int
    BY DEF ScoresCompare
  <2>8. QED
    BY <2>6, <2>7
<1> HIDE DEF score
<1>5. ASSUME NEW b \in 0 .. B - 1 PROVE Cardinality(ahead(b)) < BlockTopK
  <2>1. IsFiniteSet(0 .. B - 1) /\ Cardinality(0 .. B - 1) = B
    <3>1. 0 \in Int /\ B - 1 \in Int
      OBVIOUS
    <3>2. IsFiniteSet(0 .. B - 1) /\ Cardinality(0 .. B - 1) = IF 0 > B - 1 THEN 0 ELSE B - 1 - 0 + 1
      BY <3>1, FS_Interval
    <3>3. QED
      BY <3>2
  <2>2. PICK D : D = (0 .. B - 1) \ {b}
    OBVIOUS
  <2>3. IsFiniteSet(D) /\ Cardinality(D) = B - 1
    BY <2>1, <2>2, FS_RemoveElement
  <2>4. b \notin ahead(b)
    BY <1>4
  <2>5. ahead(b) \in SUBSET D
    BY <2>2, <2>4
  <2>6. IsFiniteSet(ahead(b)) /\ Cardinality(ahead(b)) <= Cardinality(D)
    BY <2>3, <2>5, FS_Subset
  <2>7. Cardinality(ahead(b)) \in Nat
    BY <2>6, FS_CardinalityType
  <2> HIDE DEF ahead
  <2>8. QED
    BY <1>2, <1>3, <2>3, <2>6, <2>7
<1>6. Selected(x, m - 1, u) = {b \in 0 .. B - 1 : Cardinality(ahead(b)) < BlockTopK}
  <2>1. Selected(x, m - 1, u) =
           {b \in DOMAIN score :
              Cardinality({c \in DOMAIN score :
                 score[c] > score[b] \/ (score[c] = score[b] /\ c < b)}) < BlockTopK}
    BY <1>1, <1>3 DEF Selected, score
  <2>2. DOMAIN score = 0 .. B - 1
    BY DEF score
  <2>3. QED
    BY <2>1, <2>2
<1>7. QED
  BY <1>3, <1>5, <1>6

\* A position attends to the same positions whether the caches end with it or go on
\* with the rest of its call.
LEMMA AttendedInPrefix ==
  ASSUME ScoresCompare, NEW u \in Seq(Token), NEW m \in 1 .. Len(u), NEW x \in Token
  PROVE  /\ Attended(x, m - 1, u) = Attended(x, m - 1, First(u, m))
         /\ Attended(x, m - 1, u) \subseteq 0 .. m - 1
<1>1. Len(u) \in Nat /\ m \in Nat /\ m - 1 + 1 = m /\ m \in 0 .. Len(u)
  BY LenProperties
<1>2. Ratio \in Nat /\ Ratio > 0 /\ BlockTopK \in Nat
  BY RatioFacts
<1>3. PICK B \in Nat, A \in Nat, E \in Nat : B = m \div Ratio /\ A = Len(u) \div Ratio /\ E = B * Ratio
  <2>1. m \div Ratio \in Nat /\ Len(u) \div Ratio \in Nat /\ (m \div Ratio) * Ratio \in Nat
    BY <1>1, <1>2
  <2>2. QED
    BY <2>1
<1>4. E <= m
  BY <1>1, <1>2, <1>3, DivBelow
<1>5. B <= A
  <2>1. ~(Len(u) < E)
    BY <1>1, <1>4
  <2>2. ~(A < B)
    BY <1>1, <1>2, <1>3, <2>1, DivBelow
  <2>3. QED
    BY <2>2
<1>6. PICK c \in Seq(Token) : c = First(u, m) /\ Len(c) = m
  BY <1>1, FirstProps
<1>15. PICK q \in Nat : q = m - 1 /\ q + 1 = m
  BY <1>1
<1>7. PICK T : T = Selected(x, q, u) /\ T = Selected(x, q, c)
  BY <1>6, <1>15, SelectedInPrefix
<1> DEFINE mask(n) == {t \in 0 .. n - 1 : \/ t < E /\ t \div Ratio \in T
                                          \/ t >= E /\ t <= q}
<1>8. Attended(x, q, u) = IF A <= BlockTopK THEN 0 .. q ELSE mask(Len(u))
  <2> DEFINE M == {t \in 0 .. Len(u) - 1 :
                  \/ t < ((q + 1) \div Ratio) * Ratio /\ t \div Ratio \in Selected(x, q, u)
                  \/ t >= ((q + 1) \div Ratio) * Ratio /\ t <= q}
  <2>1. Attended(x, q, u) = IF Len(u) \div Ratio <= BlockTopK THEN 0 .. q ELSE M
    BY DEF Attended
  <2>2. ((q + 1) \div Ratio) * Ratio = E
    BY <1>1, <1>3, <1>15
  <2>3. M = mask(Len(u))
    <3>1. ASSUME NEW t \in 0 .. Len(u) - 1 PROVE t \in M <=> t \in mask(Len(u))
      BY <1>1, <1>2, <1>7, <2>2
    <3>2. \A t : t \in M \/ t \in mask(Len(u)) => t \in 0 .. Len(u) - 1
      OBVIOUS
    <3> HIDE DEF M, mask
    <3>3. QED
      BY <3>1, <3>2
  <2> HIDE DEF M, mask
  <2>4. QED
    BY <1>3, <1>6, <2>1, <2>3
<1>9. Attended(x, q, c) = IF B <= BlockTopK THEN 0 .. q ELSE mask(m)
  <2> DEFINE M == {t \in 0 .. Len(c) - 1 :
                  \/ t < ((q + 1) \div Ratio) * Ratio /\ t \div Ratio \in Selected(x, q, c)
                  \/ t >= ((q + 1) \div Ratio) * Ratio /\ t <= q}
  <2>1. Attended(x, q, c) = IF Len(c) \div Ratio <= BlockTopK THEN 0 .. q ELSE M
    BY DEF Attended
  <2>2. ((q + 1) \div Ratio) * Ratio = E
    BY <1>1, <1>3, <1>15
  <2>3. M = mask(Len(c))
    BY <1>1, <1>2, <1>6, <1>7, <2>2
  <2> HIDE DEF M, mask
  <2>4. QED
    BY <1>3, <1>6, <2>1, <2>3
<1>10. mask(Len(u)) = mask(m) /\ mask(m) \subseteq 0 .. q
  BY <1>1, <1>4, <1>15
<1>11. B <= BlockTopK => mask(m) = 0 .. q
  <2>1. SUFFICES ASSUME B <= BlockTopK PROVE mask(m) = 0 .. q
    OBVIOUS
  <2>2. T = 0 .. B - 1
    BY <1>3, <1>7, <1>15, <2>1, AllSelected
  <2>3. ASSUME NEW t \in 0 .. q, t < E PROVE t \div Ratio \in T
    <3>1. t \in Nat /\ t \div Ratio \in Nat /\ t \div Ratio < B
      BY <1>1, <1>2, <1>3, <1>15, <2>3, DivBelow
    <3>2. QED
      BY <2>2, <3>1
  <2>4. QED
    BY <1>1, <1>15, <2>3
<1> HIDE DEF mask
<1>12. CASE B <= BlockTopK
  BY <1>6, <1>8, <1>9, <1>10, <1>11, <1>12, <1>15
<1>13. CASE ~(B <= BlockTopK)
  <2>1. ~(A <= BlockTopK)
    BY <1>2, <1>5, <1>13
  <2>2. QED
    BY <1>6, <1>8, <1>9, <1>10, <1>13, <1>15, <2>1
<1>14. QED
  BY <1>12, <1>13

-----------------------------------------------------------------------------
(* The geometry of the n-gram table.                                       *)

\* Bertrand's postulate, which the search for the next prime rests on.
Bertrand == \A v \in Nat : \E p \in v + 1 .. 2 * v + 2 : IsPrime(p)

\* The prime after v.
NextPrime(v) ==
  CHOOSE p \in v + 1 .. 2 * v + 2 : IsPrime(p) /\ \A q \in v + 1 .. p - 1 : ~IsPrime(q)

LEMMA NextPrimeIs ==
  ASSUME Bertrand, NEW v \in Nat
  PROVE  NextPrime(v) \in Nat /\ NextPrime(v) > v /\ IsPrime(NextPrime(v))
<1> DEFINE D == {p \in v + 1 .. 2 * v + 2 : IsPrime(p)}
<1>1. D # {} /\ D \subseteq Nat
  BY DEF Bertrand
<1>2. PICK d \in D : \A y \in D : ~(<<y, d>> \in OpToRel(<, Nat))
  BY <1>1, NatLessThanWellFounded, WFMin
<1>3. \A y \in D : ~(y < d)
  BY <1>1, <1>2 DEF OpToRel
<1>4. \A q \in v + 1 .. d - 1 : ~IsPrime(q)
  <2>1. SUFFICES ASSUME NEW q \in v + 1 .. d - 1, IsPrime(q) PROVE FALSE
    OBVIOUS
  <2>2. q \in D /\ q < d
    BY <2>1
  <2>3. QED
    BY <1>3, <2>2
<1>5. \E p \in v + 1 .. 2 * v + 2 : IsPrime(p) /\ \A q \in v + 1 .. p - 1 : ~IsPrime(q)
  BY <1>4
<1>6. NextPrime(v) \in v + 1 .. 2 * v + 2 /\ IsPrime(NextPrime(v))
  BY <1>5 DEF NextPrime
<1>7. QED
  BY <1>6

\* The number of rows of a head is a prime.
LEMMA PrimesFound ==
  ASSUME Bertrand, NEW start \in Nat, NEW count \in Nat, count > 0
  PROVE  NthPrimeAfter(start, count) \in Nat /\ NthPrimeAfter(start, count) > 0
<1> DEFINE P(n) == \E f : f = [m \in 0 .. n |-> IF m = 0 THEN start ELSE NextPrime(f[m - 1])]
           G == {n \in 0 .. count : P(n)}
<1>1. P(0)
  <2> DEFINE f == [m \in 0 .. 0 |-> start]
  <2>1. f = [m \in 0 .. 0 |-> IF m = 0 THEN start ELSE NextPrime(f[m - 1])]
    OBVIOUS
  <2>2. QED
    BY <2>1
<1>2. ASSUME NEW i \in 1 .. count, P(i - 1) PROVE P(i)
  <2>1. PICK f : f = [m \in 0 .. i - 1 |-> IF m = 0 THEN start ELSE NextPrime(f[m - 1])]
    BY <1>2
  <2> DEFINE g == [m \in 0 .. i |-> IF m = 0 THEN start ELSE NextPrime(f[m - 1])]
  <2>2. \A m \in 0 .. i : g[m] = IF m = 0 THEN start ELSE NextPrime(f[m - 1])
    OBVIOUS
  <2>3. \A m \in 0 .. i - 1 : f[m] = IF m = 0 THEN start ELSE NextPrime(f[m - 1])
    BY <2>1
  <2> HIDE DEF g
  <2>4. ASSUME NEW m \in 0 .. i - 1 PROVE g[m] = f[m]
    <3>1. m \in 0 .. i
      OBVIOUS
    <3>2. QED
      BY <2>2, <2>3, <3>1
  <2>5. \A m \in 0 .. i : m # 0 => m - 1 \in 0 .. i - 1
    OBVIOUS
  <2>6. \A m \in 0 .. i : m # 0 => g[m - 1] = f[m - 1]
    BY <2>4, <2>5
  <2>7. g = [m \in 0 .. i |-> IF m = 0 THEN start ELSE NextPrime(g[m - 1])]
    BY <2>6 DEF g
  <2>8. QED
    BY <2>7
<1> HIDE DEF P
<1>3. 0 \in G /\ \A i \in 1 .. count : i - 1 \in G => i \in G
  BY <1>1, <1>2
<1>4. count \in G
  <2>1. 0 .. count \subseteq G
    BY <1>3, UpTo
  <2>2. QED
    BY <2>1
<1> DEFINE F(f) == f = [m \in 0 .. count |-> IF m = 0 THEN start ELSE NextPrime(f[m - 1])]
           prime == CHOOSE f : F(f)
<1>5. F(prime)
  <2>1. \E f : F(f)
    BY <1>4 DEF P
  <2> HIDE DEF F
  <2>2. QED
    BY <2>1
<1>6. NthPrimeAfter(start, count) = prime[count]
  BY DEF NthPrimeAfter, NextPrime
<1> HIDE DEF prime
<1>7. \A m \in 0 .. count : prime[m] = IF m = 0 THEN start ELSE NextPrime(prime[m - 1])
  BY <1>5
<1> DEFINE H == {n \in 0 .. count : prime[n] \in Nat /\ (n > 0 => prime[n] > 0)}
<1>8. 0 \in H
  <2>1. prime[0] = start
    BY <1>7
  <2>2. QED
    BY <2>1
<1>9. ASSUME NEW n \in 1 .. count, n - 1 \in H PROVE n \in H
  <2>1. n \in 0 .. count /\ n # 0
    OBVIOUS
  <2>2. prime[n] = NextPrime(prime[n - 1])
    BY <1>7, <2>1
  <2>3. PICK v \in Nat : v = prime[n - 1]
    BY <1>9
  <2>4. NextPrime(v) \in Nat /\ NextPrime(v) > v
    BY NextPrimeIs
  <2>5. prime[n] \in Nat /\ prime[n] > 0
    BY <2>2, <2>3, <2>4
  <2>6. QED
    BY <2>1, <2>5
<1>10. 0 .. count \subseteq H
  BY <1>8, <1>9, UpTo
<1>11. count \in H
  BY <1>10
<1>12. QED
  BY <1>6, <1>11

LEMMA TableFacts ==
  /\ NgramSize \in Nat /\ NgramSize > 1 /\ HeadsPerNgram \in Nat /\ HeadsPerNgram > 0
  /\ NgramHeads \in Nat /\ NgramHeads > 0 /\ VocabBase \in Nat /\ VocabBase > 0 /\ PleIndex \in Nat
  /\ DivisibleBy \in Nat /\ DivisibleBy > 0 /\ Parts \in Nat /\ Parts > 0
<1>1. /\ NgramSize \in Nat /\ NgramSize > 1 /\ HeadsPerNgram \in Nat /\ HeadsPerNgram > 0
      /\ VocabBase \in Nat /\ VocabBase > 0 /\ PleIndex \in Nat
      /\ DivisibleBy \in Nat /\ DivisibleBy > 0 /\ Parts \in Nat /\ Parts > 0
  BY SizesAssumption, TableAssumption
<1>2. PICK a \in Nat : a = NgramSize - 1 /\ a > 0
  BY <1>1
<1>3. a * HeadsPerNgram \in Nat /\ a * HeadsPerNgram > 0
  BY <1>1, <1>2
<1>4. QED
  BY <1>1, <1>2, <1>3 DEF NgramHeads

LEMMA SizesAre ==
  ASSUME Bertrand, NEW h \in 1 .. NgramHeads
  PROVE  HeadSizes[h] \in Nat /\ HeadSizes[h] > 0
<1>1. PICK start \in Nat, count \in Nat :
        start = VocabBase - 1 /\ count = PleIndex * NgramHeads + h /\ count > 0
  <2>1. VocabBase - 1 \in Nat /\ PleIndex * NgramHeads \in Nat /\ NgramHeads \in Nat
    BY TableFacts
  <2>2. PleIndex * NgramHeads + h \in Nat /\ PleIndex * NgramHeads + h > 0
    BY <2>1
  <2>3. QED
    BY <2>1, <2>2
<1>2. HeadSizes[h] = NthPrimeAfter(start, count)
  BY <1>1 DEF HeadSizes
<1>3. QED
  BY <1>1, <1>2, PrimesFound

\* The heads' rows follow each other.
LEMMA OffsetsAre ==
  ASSUME Bertrand
  PROVE  /\ HeadOffsets[NgramHeads + 1] \in Nat
         /\ \A h \in 1 .. NgramHeads :
              HeadOffsets[h] \in Nat /\ HeadOffsets[h] + HeadSizes[h] <= HeadOffsets[NgramHeads + 1]
<1>0. PICK n \in Nat : n = NgramHeads
  BY TableFacts
<1> DEFINE P(k) == \E f : f = [g \in 0 .. k |-> IF g = 0 THEN 0 ELSE f[g - 1] + HeadSizes[g]]
           G == {k \in 0 .. n : P(k)}
<1>1. P(0)
  <2> DEFINE f == [g \in 0 .. 0 |-> 0]
  <2>1. f = [g \in 0 .. 0 |-> IF g = 0 THEN 0 ELSE f[g - 1] + HeadSizes[g]]
    OBVIOUS
  <2>2. QED
    BY <2>1
<1>2. ASSUME NEW i \in 1 .. n, P(i - 1) PROVE P(i)
  <2>1. PICK f : f = [g \in 0 .. i - 1 |-> IF g = 0 THEN 0 ELSE f[g - 1] + HeadSizes[g]]
    BY <1>2
  <2> DEFINE e == [g \in 0 .. i |-> IF g = 0 THEN 0 ELSE f[g - 1] + HeadSizes[g]]
  <2>2. \A g \in 0 .. i : e[g] = IF g = 0 THEN 0 ELSE f[g - 1] + HeadSizes[g]
    OBVIOUS
  <2>3. \A g \in 0 .. i - 1 : f[g] = IF g = 0 THEN 0 ELSE f[g - 1] + HeadSizes[g]
    BY <2>1
  <2> HIDE DEF e
  <2>4. ASSUME NEW g \in 0 .. i - 1 PROVE e[g] = f[g]
    <3>1. g \in 0 .. i
      OBVIOUS
    <3>2. QED
      BY <2>2, <2>3, <3>1
  <2>5. \A g \in 0 .. i : g # 0 => g - 1 \in 0 .. i - 1
    OBVIOUS
  <2>6. \A g \in 0 .. i : g # 0 => e[g - 1] = f[g - 1]
    BY <2>4, <2>5
  <2>7. e = [g \in 0 .. i |-> IF g = 0 THEN 0 ELSE e[g - 1] + HeadSizes[g]]
    BY <2>6 DEF e
  <2>8. QED
    BY <2>7
<1> HIDE DEF P
<1>3. 0 \in G /\ \A i \in 1 .. n : i - 1 \in G => i \in G
  BY <1>1, <1>2
<1>4. n \in G
  <2>1. 0 .. n \subseteq G
    BY <1>3, UpTo
  <2>2. QED
    BY <2>1
<1> DEFINE F(f) == f = [g \in 0 .. NgramHeads |-> IF g = 0 THEN 0 ELSE f[g - 1] + HeadSizes[g]]
           total == CHOOSE f : F(f)
<1>5. F(total)
  <2>1. \E f : F(f)
    BY <1>0, <1>4 DEF P
  <2> HIDE DEF F
  <2>2. QED
    BY <2>1
<1>6. HeadOffsets = [h \in 1 .. NgramHeads + 1 |-> total[h - 1]]
  BY DEF HeadOffsets
<1> HIDE DEF total
<1>7. \A g \in 0 .. n : total[g] = IF g = 0 THEN 0 ELSE total[g - 1] + HeadSizes[g]
  BY <1>0, <1>5
<1>8. \A g \in 1 .. n : total[g] = total[g - 1] + HeadSizes[g] /\ HeadSizes[g] \in Nat
  <2>1. ASSUME NEW g \in 1 .. n PROVE total[g] = total[g - 1] + HeadSizes[g] /\ HeadSizes[g] \in Nat
    <3>1. g \in 0 .. n /\ g # 0 /\ g \in 1 .. NgramHeads
      BY <1>0
    <3>2. QED
      BY <1>7, <3>1, SizesAre
  <2>2. QED
    BY <2>1
<1>9. \A g \in 0 .. n : total[g] \in Nat
  <2> DEFINE H == {g \in 0 .. n : total[g] \in Nat}
  <2>1. 0 \in H
    <3>1. total[0] = 0
      BY <1>7
    <3>2. QED
      BY <3>1
  <2>2. ASSUME NEW g \in 1 .. n, g - 1 \in H PROVE g \in H
    <3>1. total[g - 1] \in Nat
      BY <2>2
    <3>2. total[g] \in Nat
      BY <1>8, <3>1
    <3>3. QED
      BY <3>2
  <2>3. 0 .. n \subseteq H
    BY <2>1, <2>2, UpTo
  <2>4. QED
    BY <2>3
<1>10. ASSUME NEW h \in 1 .. n PROVE total[h] <= total[n]
  <2> DEFINE H == {g \in 0 .. n - h : total[h] <= total[h + g]}
  <2>1. n - h \in Nat /\ h \in 0 .. n
    OBVIOUS
  <2>2. 0 \in H
    <3>1. total[h] \in Nat /\ h + 0 = h /\ 0 \in 0 .. n - h
      BY <1>9, <2>1
    <3>2. QED
      BY <3>1
  <2>3. ASSUME NEW g \in 1 .. n - h, g - 1 \in H PROVE g \in H
    <3>1. h + g \in 1 .. n /\ h + (g - 1) = h + g - 1 /\ h + g - 1 \in 0 .. n
      OBVIOUS
    <3>2. total[h + g] = total[h + g - 1] + HeadSizes[h + g] /\ HeadSizes[h + g] \in Nat
      BY <1>8, <3>1
    <3>3. total[h] \in Nat /\ total[h + g - 1] \in Nat /\ total[h] <= total[h + g - 1]
      BY <1>9, <2>1, <2>3, <3>1
    <3>4. total[h] <= total[h + g]
      BY <3>2, <3>3
    <3>5. QED
      BY <3>4
  <2>4. 0 .. n - h \subseteq H
    BY <2>1, <2>2, <2>3, UpTo
  <2>5. n - h \in H /\ h + (n - h) = n
    BY <2>1, <2>4
  <2>6. QED
    BY <2>5
<1>11. HeadOffsets[NgramHeads + 1] = total[n] /\ total[n] \in Nat
  <2>1. PICK k \in 1 .. NgramHeads + 1 : k = NgramHeads + 1 /\ k - 1 = n
    BY <1>0
  <2>2. HeadOffsets[k] = total[k - 1]
    BY <1>6
  <2>3. total[n] \in Nat
    BY <1>9
  <2>4. QED
    BY <2>1, <2>2, <2>3
<1>12. ASSUME NEW h \in 1 .. NgramHeads
       PROVE  HeadOffsets[h] \in Nat /\ HeadOffsets[h] + HeadSizes[h] <= HeadOffsets[NgramHeads + 1]
  <2>1. h \in 1 .. NgramHeads + 1 /\ h - 1 \in 0 .. n /\ h \in 1 .. n
    BY <1>0
  <2>2. HeadOffsets[h] = total[h - 1]
    BY <1>6, <2>1
  <2>3. total[h] = total[h - 1] + HeadSizes[h] /\ HeadSizes[h] \in Nat
    BY <1>8, <2>1
  <2>4. total[h - 1] \in Nat /\ total[h] <= total[n]
    BY <1>9, <1>10, <2>1
  <2>5. QED
    BY <1>11, <2>2, <2>3, <2>4
<1>13. QED
  BY <1>11, <1>12

\* A shard has rows, and all of them together hold the table.
ShardsHaveRows == RowsPerShard > 0

\* The n-grams mix to numbers.
MixesToNumbers == \A ngram \in Seq(Token \cup {Eos}) : Mix(ngram) \in Int

LEMMA PaddedHoldsAll ==
  ASSUME Bertrand
  PROVE  PaddedSize \in Nat /\ HeadOffsets[NgramHeads + 1] <= PaddedSize /\ PaddedSize > 0
<1>1. PICK t \in Nat : t = HeadOffsets[NgramHeads + 1]
  BY OffsetsAre
<1>2. t > 0
  <2>1. 1 \in 1 .. NgramHeads
    BY TableFacts
  <2>2. HeadOffsets[1] \in Nat /\ HeadOffsets[1] + HeadSizes[1] <= t
    BY <1>1, <2>1, OffsetsAre
  <2>3. HeadSizes[1] \in Nat /\ HeadSizes[1] > 0
    BY <2>1, SizesAre
  <2>4. QED
    BY <2>2, <2>3
<1>3. PICK d \in Nat : d = DivisibleBy /\ d > 0
  BY TableFacts
<1>4. PICK x \in Nat : x = t + d - 1
  BY <1>3
<1>5. PICK q \in Nat, r \in 0 .. d - 1 : q = x \div d /\ x = d * q + r
  BY <1>3, DivFacts
<1>6. PICK y \in Nat : y = d * q /\ y = q * d
  OBVIOUS
<1>7. t <= y
  BY <1>3, <1>4, <1>5, <1>6
<1>8. PaddedSize = y
  BY <1>1, <1>3, <1>4, <1>5, <1>6 DEF PaddedSize
<1>9. QED
  BY <1>1, <1>2, <1>7, <1>8

\* The shards hold all rows of the padded table but fewer than there are shards.
LEMMA ShardsHoldMost ==
  ASSUME Bertrand
  PROVE  RowsPerShard \in Nat /\ Parts * RowsPerShard \in Nat /\ PaddedSize - Parts < Parts * RowsPerShard
<1>1. PICK x \in Nat, d \in Nat : x = PaddedSize /\ d = Parts /\ d > 0
  BY PaddedHoldsAll, TableFacts
<1>2. PICK q \in Nat, r \in 0 .. d - 1 : q = x \div d /\ x = d * q + r
  BY <1>1, DivFacts
<1>3. PICK y \in Nat : y = d * q
  OBVIOUS
<1>4. x - d < y
  BY <1>1, <1>2, <1>3
<1>5. QED
  BY <1>1, <1>2, <1>3, <1>4 DEF RowsPerShard

\* A row of a head is one of its own.
LEMMA RowIsOfHead ==
  ASSUME Bertrand, MixesToNumbers, NEW ngram \in Seq(Token \cup {Eos}), NEW g \in 1 .. NgramHeads
  PROVE  /\ RowOf(g, ngram) \in Nat
         /\ RowOf(g, ngram) \in HeadOffsets[g] .. HeadOffsets[g] + HeadSizes[g] - 1
         /\ RowOf(g, ngram) < HeadOffsets[NgramHeads + 1]
<1>1. PICK o \in Nat, z \in Nat, e \in Nat :
        o = HeadOffsets[g] /\ z = HeadSizes[g] /\ e = HeadOffsets[NgramHeads + 1] /\ z > 0 /\ o + z <= e
  BY OffsetsAre, SizesAre
<1>2. PICK x \in Int : x = Mix(ngram)
  BY DEF MixesToNumbers
<1>3. PICK y \in 0 .. z - 1 : y = x % z
  BY <1>1
<1>4. RowOf(g, ngram) = y + o
  BY <1>1, <1>2, <1>3 DEF RowOf
<1>5. PICK v \in Nat : v = y + o
  BY <1>1
<1>6. v \in o .. o + z - 1 /\ v < e
  <2>1. y \in Int /\ 0 <= y /\ y <= z - 1
    OBVIOUS
  <2>2. o + z <= e /\ v = y + o
    BY <1>1, <1>5
  <2>3. o <= v /\ v <= o + z - 1 /\ v < e
    BY <2>1, <2>2
  <2>4. QED
    BY <2>3
<1>7. RowOf(g, ngram) = v
  BY <1>4, <1>5
<1>8. HeadOffsets[g] .. HeadOffsets[g] + HeadSizes[g] - 1 = o .. o + z - 1
  BY <1>1
<1>9. QED
  BY <1>1, <1>6, <1>7, <1>8

\* A row of the table is found again from its shard, which there is for all rows but
\* the last.
LEMMA RowIsInShard ==
  ASSUME Bertrand, ShardsHaveRows, NEW id \in Nat
  PROVE  /\ InShard(id)[1] \in 0 .. Parts - 1 \/ id > PaddedSize - Parts
         /\ InShard(id)[2] \in 0 .. RowsPerShard - 1
         /\ InShard(id)[1] * RowsPerShard + InShard(id)[2] = id
<1>1. PICK n \in Nat, d \in Nat : n = Parts /\ d = RowsPerShard /\ d > 0 /\ n > 0
  BY ShardsHoldMost, TableFacts DEF ShardsHaveRows
<1>2. PICK y \in Nat, x \in Nat : y = n * d /\ x = PaddedSize /\ x - n < y
  BY <1>1, ShardsHoldMost, PaddedHoldsAll
<1>3. id < y => id \div d < n
  BY <1>1, <1>2, DivBelow
<1>4. id \div d \in Nat /\ id % d \in 0 .. d - 1 /\ id = d * (id \div d) + (id % d)
  <2>1. d \in Nat \ {0}
    BY <1>1
  <2>2. QED
    BY <2>1, DivFacts
<1>5. PICK q \in Nat, r \in 0 .. d - 1 : q = id \div d /\ r = id % d
  BY <1>4
<1>6. q * d + r = id
  BY <1>4, <1>5
<1>7. InShard(id)[1] = q /\ InShard(id)[2] = r
  BY <1>1, <1>5 DEF InShard
<1>8. q \in 0 .. n - 1 \/ id > x - n
  <2>1. CASE id < y
    BY <1>1, <1>3, <1>5, <2>1
  <2>2. CASE ~(id < y)
    BY <1>2, <2>2
  <2>3. QED
    BY <2>1, <2>2
<1>9. QED
  BY <1>1, <1>2, <1>5, <1>6, <1>7, <1>8

-----------------------------------------------------------------------------
(* The n-grams.                                                            *)

\* Whether the segment before position i reaches back k positions.
LEMMA SegmentReaches ==
  ASSUME NEW h, NEW i \in Nat, NEW k \in Nat, k > 0, k < i
  PROVE  InSegment(h, i) < k <=> \E j \in i - k .. i - 1 : h[j] = Eos
<1> DEFINE D == {0} \cup {j \in 1 .. i - 1 : h[j] = Eos}
<1>1. D \subseteq 0 .. i - 1 /\ 0 \in D /\ i - 1 \in Nat
  OBVIOUS
<1>2. \E m \in D : \A x \in D : x <= m
  <2>1. PICK L \in Nat : L = i - 1
    BY <1>1
  <2>2. D \subseteq 0 .. L /\ D # {}
    BY <1>1, <2>1
  <2> HIDE DEF D
  <2>3. QED
    BY <2>2, GreatestExists
<1>3. \E m \in D : \A x \in D : m >= x
  <2>1. PICK m \in D : \A x \in D : x <= m
    BY <1>2
  <2>2. \A x \in D : m >= x
    BY <1>1, <2>1
  <2>3. QED
    BY <2>2
<1>4. Max(D) \in D /\ \A x \in D : Max(D) >= x
  <2> HIDE DEF D
  <2>1. QED
    BY <1>3 DEF Max
<1>5. PICK m \in 0 .. i - 1 : m = Max(D)
  BY <1>1, <1>4
<1>6. InSegment(h, i) = i - 1 - m
  BY <1>5 DEF InSegment
<1>7. ASSUME i - 1 - m < k PROVE \E j \in i - k .. i - 1 : h[j] = Eos
  <2>1. m \in i - k .. i - 1 /\ m # 0 /\ m \in D
    BY <1>4, <1>5, <1>7
  <2>2. h[m] = Eos
    BY <2>1
  <2>3. QED
    BY <2>1, <2>2
<1>8. ASSUME NEW j \in i - k .. i - 1, h[j] = Eos PROVE i - 1 - m < k
  <2>1. j \in D
    BY <1>8
  <2>2. m >= j
    BY <1>4, <1>5, <2>1
  <2>3. QED
    BY <2>2
<1> HIDE DEF D
<1>9. QED
  BY <1>6, <1>7, <1>8

\* The shifted tokens of a position are the n-gram that ends the text there.
LEMMA ShiftedIsNgram ==
  ASSUME NEW S, Eos \in S, NEW s \in Seq(S), NEW t \in Seq(S), NEW i \in 1 .. Len(t),
         NEW n \in Nat, n <= NgramSize
  PROVE  /\ [k \in 1 .. n |-> Shifted(Window(s, Eos, NgramSize - 1) \o t, NgramSize - 1 + i, k - 1)] =
              NgramAt(First(s \o t, Len(s) + i), n)
         /\ NgramAt(First(s \o t, Len(s) + i), n) \in Seq(S)
<1>1. PICK w \in Nat : w = NgramSize - 1 /\ n <= w + 1
  BY TableFacts
<1>2. /\ s \o t \in Seq(S) /\ Len(s \o t) = Len(s) + Len(t)
      /\ Len(s) \in Nat /\ Len(t) \in Nat
  BY CatProps
<1>3. PICK u \in Seq(S), m \in 1 .. Len(s \o t) : u = s \o t /\ m = Len(s) + i
  <2>1. Len(s) + i \in 1 .. Len(s \o t)
    BY <1>2
  <2>2. QED
    BY <1>2, <2>1
<1>4. PICK c \in Seq(S) : c = First(u, m) /\ Len(c) = m /\ \A j \in 1 .. m : c[j] = u[j]
  <2>1. m \in 0 .. Len(u)
    BY <1>2, <1>3
  <2>2. QED
    BY <2>1, FirstProps
<1>5. PICK h : h = Window(s, Eos, w) \o t
  OBVIOUS
<1>6. PICK p \in Nat : p = w + i
  BY <1>2
<1>7. \A j \in 1 .. p : h[j] = At(u, Eos, j + m - p)
  <2>1. PICK x \in S : x = Eos
    OBVIOUS
  <2>2. ReadsTheText(s, t, x, w)
    BY WindowReads
  <2>3. \A j \in 1 .. w + Len(t) : h[j] = At(u, Eos, Len(s) - w + j)
    BY <1>3, <1>5, <2>1, <2>2 DEF ReadsTheText
  <2>4. ASSUME NEW j \in 1 .. p PROVE h[j] = At(u, Eos, j + m - p)
    <3>1. j \in 1 .. w + Len(t) /\ Len(s) - w + j = j + m - p
      BY <1>2, <1>3, <1>6
    <3>2. QED
      BY <2>3, <3>1
  <2>5. QED
    BY <2>4
<1>8. ASSUME NEW k \in 1 .. n
      PROVE  /\ Shifted(h, p, k - 1) = NgramAt(c, n)[k]
             /\ NgramAt(c, n)[k] \in S
  <2>1. NgramAt(c, n)[k] =
          IF k = 1 \/ (k <= Len(c) /\ \A j \in Len(c) - k + 1 .. Len(c) - 1 : c[j] # Eos)
          THEN c[Len(c) - k + 1] ELSE Eos
    BY DEF NgramAt
  <2>2. m \in Nat /\ m >= 1
    BY <1>2, <1>3
  <2>3. CASE k = 1
    <3>1. Shifted(h, p, 0) = h[p]
      BY <1>6, <2>3 DEF Shifted
    <3>2. h[p] = u[m]
      <4>1. p \in 1 .. p /\ p + m - p = m /\ m >= 1
        BY <1>6, <2>2
      <4>2. h[p] = At(u, Eos, m)
        BY <1>7, <4>1
      <4>3. QED
        BY <2>2, <4>2 DEF At
    <3>3. c[Len(c) - k + 1] = u[m] /\ c[m] \in S
      <4>1. Len(c) - k + 1 = m /\ m \in 1 .. m
        BY <1>4, <2>2, <2>3
      <4>2. QED
        BY <1>4, <4>1, ElementOfSeq
    <3>4. k - 1 = 0
      BY <2>3
    <3>5. NgramAt(c, n)[k] = u[m] /\ u[m] \in S
      <4>1. m \in 1 .. m
        BY <2>2
      <4>2. u[m] = c[m]
        BY <1>4, <4>1
      <4>3. QED
        BY <2>1, <2>3, <3>3, <4>2
    <3>6. QED
      BY <3>1, <3>2, <3>4, <3>5
  <2>4. CASE k # 1
    <3>1. PICK b \in Nat : b = k - 1 /\ b > 0 /\ b <= w /\ b < p
      BY <1>1, <1>6, <2>4
    <3>2. InSegment(h, p) < b <=> \E j \in p - b .. p - 1 : h[j] = Eos
      BY <3>1, SegmentReaches
    <3>3. Len(c) = m /\ Len(c) - k + 1 = m - b /\ (k <= Len(c) <=> b < m)
      BY <1>4, <2>2, <3>1
    <3>4. NgramAt(c, n)[k] =
            IF b < m /\ \A j \in m - b .. m - 1 : c[j] # Eos THEN c[m - b] ELSE Eos
      BY <2>1, <2>4, <3>3
    <3>5. CASE \E j \in p - b .. p - 1 : h[j] = Eos
      <4>1. Shifted(h, p, b) = Eos
        BY <3>1, <3>2, <3>5 DEF Shifted
      <4>2. ~(b < m /\ \A j \in m - b .. m - 1 : c[j] # Eos)
        <5>1. SUFFICES ASSUME b < m, \A j \in m - b .. m - 1 : c[j] # Eos PROVE FALSE
          OBVIOUS
        <5>2. PICK j \in p - b .. p - 1 : h[j] = Eos
          BY <3>5
        <5>3. PICK l \in m - b .. m - 1 : l = j + m - p
          <6>1. j + m - p \in m - b .. m - 1
            BY <2>2
          <6>2. QED
            BY <6>1
        <5>4. l >= 1 /\ l \in 1 .. m /\ j \in 1 .. p
          BY <2>2, <3>1, <5>1
        <5>5. h[j] = u[l]
          BY <1>7, <5>3, <5>4 DEF At
        <5>6. c[l] = Eos
          BY <1>4, <5>2, <5>4, <5>5
        <5>7. QED
          BY <5>1, <5>6
      <4>3. NgramAt(c, n)[k] = Eos
        BY <3>4, <4>2
      <4>4. QED
        BY <3>1, <4>1, <4>3
    <3>6. CASE ~ \E j \in p - b .. p - 1 : h[j] = Eos
      <4>1. Shifted(h, p, b) = h[p - b]
        BY <3>2, <3>6 DEF Shifted
      <4>2. p - b \in 1 .. p /\ p - b \in p - b .. p - 1 /\ p - b + m - p = m - b
        BY <2>2, <3>1
      <4>3. h[p - b] = At(u, Eos, m - b) /\ h[p - b] # Eos
        BY <1>7, <3>6, <4>2
      <4>4. m - b >= 1
        BY <4>3 DEF At
      <4>5. h[p - b] = u[m - b]
        BY <4>3, <4>4 DEF At
      <4>6. b < m /\ m - b \in 1 .. m
        BY <2>2, <4>4
      <4>7. \A j \in m - b .. m - 1 : c[j] # Eos
        <5>1. SUFFICES ASSUME NEW j \in m - b .. m - 1, c[j] = Eos PROVE FALSE
          OBVIOUS
        <5>2. PICK l \in p - b .. p - 1 : l = j + p - m
          <6>1. j + p - m \in p - b .. p - 1
            BY <2>2
          <6>2. QED
            BY <6>1
        <5>3. l \in 1 .. p /\ l + m - p = j /\ j >= 1 /\ j \in 1 .. m
          BY <2>2, <3>1, <4>4, <5>2
        <5>4. h[l] = u[j]
          BY <1>7, <5>3 DEF At
        <5>5. c[j] = u[j]
          BY <1>4, <5>3
        <5>6. QED
          BY <3>6, <5>1, <5>4, <5>5
      <4>8. NgramAt(c, n)[k] = c[m - b] /\ c[m - b] = u[m - b] /\ c[m - b] \in S
        BY <1>4, <3>4, <4>6, <4>7, ElementOfSeq
      <4>9. QED
        BY <3>1, <4>1, <4>5, <4>8
    <3>7. NgramAt(c, n)[k] \in S
      <4>1. b < m => c[m - b] \in S
        <5>1. SUFFICES ASSUME b < m PROVE c[m - b] \in S
          OBVIOUS
        <5>2. m - b \in 1 .. m
          BY <2>2, <3>1, <5>1
        <5>3. QED
          BY <1>4, <5>2, ElementOfSeq
      <4>2. QED
        BY <3>4, <4>1
    <3>8. QED
      BY <3>5, <3>6, <3>7
  <2>5. QED
    BY <2>3, <2>4
<1>9. NgramAt(c, n) = [k \in 1 .. n |-> NgramAt(c, n)[k]]
  BY DEF NgramAt
<1>10. NgramAt(c, n) \in [1 .. n -> S]
  BY <1>8, <1>9
<1>11. NgramAt(c, n) \in Seq(S)
  BY <1>10, SeqDef
<1>12. [k \in 1 .. n |-> Shifted(h, p, k - 1)] = NgramAt(c, n)
  BY <1>8, <1>9
<1>13. QED
  BY <1>1, <1>3, <1>4, <1>5, <1>6, <1>11, <1>12

\* The heads are keyed with n-grams of up to ngram_size tokens.
LEMMA HeadNgramIs ==
  ASSUME NEW g \in 1 .. NgramHeads
  PROVE  HeadNgram(g) \in Nat /\ HeadNgram(g) >= 2 /\ HeadNgram(g) <= NgramSize
<1>1. PICK x \in Nat, d \in Nat, q \in Nat :
        x = g - 1 /\ d = HeadsPerNgram /\ d > 0 /\ q = NgramSize - 1
  BY TableFacts
<1>2. x < q * d
  BY <1>1, TableFacts DEF NgramHeads
<1>3. x \div d < q /\ x \div d \in Nat
  BY <1>1, <1>2, DivBelow
<1>4. HeadNgram(g) = 2 + (x \div d)
  BY <1>1 DEF HeadNgram
<1>5. QED
  BY <1>1, <1>3, <1>4, TableFacts

-----------------------------------------------------------------------------
(* Orders by rank: of the ids of a lookup and of the experts of a stack.   *)

\* In a total order the number of those before it tells each from the others, and
\* is smaller than the number of all.
LEMMA RanksTell ==
  ASSUME NEW D, IsFiniteSet(D), NEW Below, 
         \A x \in D : <<x, x>> \notin Below,
         \A x, y, z \in D : <<x, y>> \in Below /\ <<y, z>> \in Below => <<x, z>> \in Below,
         \A x, y \in D : x # y => <<x, y>> \in Below \/ <<y, x>> \in Below
  PROVE  /\ \A x \in D : /\ Cardinality({y \in D : <<y, x>> \in Below}) \in Nat
                         /\ Cardinality({y \in D : <<y, x>> \in Below}) < Cardinality(D)
         /\ \A x, y \in D :
              Cardinality({z \in D : <<z, x>> \in Below}) = Cardinality({z \in D : <<z, y>> \in Below})
                => x = y
<1> DEFINE B(x) == {y \in D : <<y, x>> \in Below}
<1>1. ASSUME NEW x \in D
      PROVE  /\ IsFiniteSet(B(x)) /\ Cardinality(B(x)) \in Nat /\ Cardinality(B(x) \cup {x}) = Cardinality(B(x)) + 1
             /\ IsFiniteSet(B(x) \cup {x}) /\ x \notin B(x) /\ B(x) \subseteq D
  <2>1. B(x) \in SUBSET D /\ x \notin B(x)
    OBVIOUS
  <2> HIDE DEF B
  <2>2. IsFiniteSet(B(x))
    BY <2>1, FS_Subset
  <2>3. IsFiniteSet(B(x) \cup {x}) /\ Cardinality(B(x) \cup {x}) = Cardinality(B(x)) + 1
    BY <2>1, <2>2, FS_AddElement
  <2>4. Cardinality(B(x)) \in Nat
    BY <2>2, FS_CardinalityType
  <2>5. QED
    BY <2>1, <2>2, <2>3, <2>4
<1>2. ASSUME NEW x \in D PROVE Cardinality(B(x)) < Cardinality(D)
  <2>1. (B(x) \cup {x}) \in SUBSET D
    BY <1>1
  <2>2. Cardinality(B(x) \cup {x}) <= Cardinality(D) /\ Cardinality(D) \in Nat
    <3> HIDE DEF B
    <3>1. QED
      BY <2>1, FS_Subset, FS_CardinalityType
  <2> HIDE DEF B
  <2>3. QED
    BY <1>1, <2>2
<1>3. ASSUME NEW x \in D, NEW y \in D, <<x, y>> \in Below PROVE Cardinality(B(x)) < Cardinality(B(y))
  <2>1. (B(x) \cup {x}) \in SUBSET B(y)
    BY <1>3
  <2>2. Cardinality(B(x) \cup {x}) <= Cardinality(B(y)) /\ Cardinality(B(y)) \in Nat
    <3>1. IsFiniteSet(B(y)) /\ Cardinality(B(y)) \in Nat
      BY <1>1
    <3> HIDE DEF B
    <3>2. QED
      BY <2>1, <3>1, FS_Subset
  <2>3. Cardinality(B(x) \cup {x}) = Cardinality(B(x)) + 1 /\ Cardinality(B(x)) \in Nat
    BY <1>1
  <2> HIDE DEF B
  <2>4. QED
    BY <2>2, <2>3
<1>4. ASSUME NEW x \in D, NEW y \in D, Cardinality(B(x)) = Cardinality(B(y)) PROVE x = y
  <2>1. SUFFICES ASSUME x # y PROVE FALSE
    OBVIOUS
  <2>2. Cardinality(B(x)) \in Nat /\ Cardinality(B(y)) \in Nat
    BY <1>1
  <2>3. <<x, y>> \in Below \/ <<y, x>> \in Below
    BY <2>1
  <2>4. Cardinality(B(x)) < Cardinality(B(y)) \/ Cardinality(B(y)) < Cardinality(B(x))
    BY <1>3, <2>3
  <2> HIDE DEF B
  <2>5. QED
    BY <1>4, <2>2, <2>4
<1>5. QED
  BY <1>1, <1>2, <1>4

\* A lookup answers with the row of each id, in the order of the ids.
LEMMA LookupAnswers ==
  ASSUME NEW n \in Nat, NEW ids \in [1 .. n -> Nat], RowsPerShard \in Nat, RowsPerShard > 0
  PROVE  Lookup(ids) = [i \in 1 .. n |-> InShard(ids[i])]
<1> DEFINE D == 1 .. n
           shard(i) == InShard(ids[i])[1]
           Below == {e \in D \X D : shard(e[1]) < shard(e[2]) \/ (shard(e[1]) = shard(e[2]) /\ e[1] < e[2])}
           before(i) == {j \in D : shard(j) < shard(i) \/ (shard(j) = shard(i) /\ j < i)}
           inv == [i \in D |-> Cardinality(before(i)) + 1]
           order == [k \in D |-> CHOOSE i \in D : inv[i] = k]
           rows == [k \in D |-> InShard(ids[order[k]])]
<1>1. IsFiniteSet(D) /\ Cardinality(D) = n
  <2>1. 1 \in Int /\ n \in Int
    OBVIOUS
  <2>2. IsFiniteSet(1 .. n) /\ Cardinality(1 .. n) = IF 1 > n THEN 0 ELSE n - 1 + 1
    BY <2>1, FS_Interval
  <2>3. QED
    BY <2>2
<1>2. ASSUME NEW i \in D PROVE shard(i) \in Nat
  <2>1. PICK id \in Nat, d \in Nat : id = ids[i] /\ d = RowsPerShard /\ d > 0
    OBVIOUS
  <2>2. id \div d \in Nat
    BY <2>1
  <2>3. QED
    BY <2>1, <2>2 DEF InShard
<1>3. ASSUME NEW x \in D, NEW y \in D
      PROVE <<x, y>> \in Below <=> shard(x) < shard(y) \/ (shard(x) = shard(y) /\ x < y)
  OBVIOUS
<1> HIDE DEF Below, shard
<1>4. \A x \in D : <<x, x>> \notin Below
  BY <1>2, <1>3
<1>5. \A x, y, z \in D : <<x, y>> \in Below /\ <<y, z>> \in Below => <<x, z>> \in Below
  BY <1>2, <1>3
<1>6. \A x, y \in D : x # y => <<x, y>> \in Below \/ <<y, x>> \in Below
  BY <1>2, <1>3
<1>7. \A i \in D : before(i) = {j \in D : <<j, i>> \in Below}
  BY <1>3
<1> HIDE DEF before, D
<1>8. /\ \A i \in D : Cardinality(before(i)) \in Nat /\ Cardinality(before(i)) < n
      /\ \A i, j \in D : Cardinality(before(i)) = Cardinality(before(j)) => i = j
  <2>1. /\ \A x \in D : /\ Cardinality({y \in D : <<y, x>> \in Below}) \in Nat
                        /\ Cardinality({y \in D : <<y, x>> \in Below}) < Cardinality(D)
        /\ \A x, y \in D :
             Cardinality({z \in D : <<z, x>> \in Below}) = Cardinality({z \in D : <<z, y>> \in Below})
               => x = y
    BY <1>1, <1>4, <1>5, <1>6, RanksTell
  <2>2. QED
    BY <1>1, <1>7, <2>1
<1>9. ASSUME NEW i \in D PROVE inv[i] \in D /\ order[inv[i]] = i
  <2>1. inv[i] = Cardinality(before(i)) + 1
    OBVIOUS
  <2>2. Cardinality(before(i)) \in Nat /\ Cardinality(before(i)) < n
    BY <1>8
  <2>3. inv[i] \in D
    BY <2>1, <2>2 DEF D
  <2>4. \A j \in D : inv[j] = inv[i] => j = i
    <3>1. SUFFICES ASSUME NEW j \in D, inv[j] = inv[i] PROVE j = i
      OBVIOUS
    <3>2. inv[j] = Cardinality(before(j)) + 1 /\ Cardinality(before(j)) \in Nat
      BY <1>8
    <3> HIDE DEF inv
    <3>3. Cardinality(before(j)) = Cardinality(before(i))
      BY <2>1, <2>2, <3>1, <3>2
    <3>4. QED
      BY <1>8, <3>3
  <2>5. order[inv[i]] = CHOOSE j \in D : inv[j] = inv[i]
    BY <2>3
  <2> HIDE DEF inv, order
  <2>6. QED
    BY <2>3, <2>4, <2>5
<1>10. ASSUME NEW i \in D PROVE rows[inv[i]] = InShard(ids[i])
  <2>1. inv[i] \in D /\ order[inv[i]] = i
    BY <1>9
  <2> HIDE DEF inv, order
  <2>2. rows[inv[i]] = InShard(ids[order[inv[i]]])
    BY <2>1
  <2>3. QED
    BY <2>1, <2>2
<1>11. DOMAIN ids = D
  BY DEF D
<1>12. Lookup(ids) = [i \in D |-> rows[inv[i]]]
  BY <1>11 DEF Lookup, before, shard
<1> HIDE DEF rows, inv
<1>13. Lookup(ids) = [i \in D |-> InShard(ids[i])]
  BY <1>10, <1>12
<1>14. QED
  BY <1>13 DEF D

\* What the experts of a position are computed with.
LEMMA ExpertsAreTheirOwn ==
  ASSUME NEW chunk, NEW i \in DOMAIN chunk
  PROVE  ExpertsAt(chunk, i) = {<<e, e>> : e \in Routed(chunk[i])}
<1> DEFINE active == ActiveIds(chunk)
           place(e) == Cardinality({f \in active : f < e})
           stack == [k \in 0 .. Cardinality(active) - 1 |-> CHOOSE e \in active : place(e) = k]
           local(e) == IF e \in active THEN place(e) ELSE 0
           Below == {e \in active \X active : e[1] < e[2]}
<1>1. active \in SUBSET Routable /\ Routed(chunk[i]) \subseteq active
  BY DEF ActiveIds, Routed
<1>2. IsFiniteSet(active) /\ active \subseteq Nat
  <2> HIDE DEF active
  <2>1. QED
    BY <1>1, RouterAssumption, FS_Subset
<1>3. Cardinality(active) \in Nat
  BY <1>2, FS_CardinalityType
<1> HIDE DEF active
<1>4. \A x, y \in active : <<x, y>> \in Below <=> x < y
  OBVIOUS
<1> HIDE DEF Below
<1>5. \A x \in active : <<x, x>> \notin Below
  BY <1>2, <1>4
<1>6. \A x, y, z \in active : <<x, y>> \in Below /\ <<y, z>> \in Below => <<x, z>> \in Below
  BY <1>2, <1>4
<1>7. \A x, y \in active : x # y => <<x, y>> \in Below \/ <<y, x>> \in Below
  BY <1>2, <1>4
<1>8. \A e \in active : place(e) = Cardinality({f \in active : <<f, e>> \in Below})
  <2>1. \A e \in active : {f \in active : f < e} = {f \in active : <<f, e>> \in Below}
    BY <1>4
  <2>2. QED
    BY <2>1
<1> HIDE DEF place
<1>9. /\ \A e \in active : place(e) \in Nat /\ place(e) < Cardinality(active)
      /\ \A e, f \in active : place(e) = place(f) => e = f
  <2>1. /\ \A x \in active : /\ Cardinality({y \in active : <<y, x>> \in Below}) \in Nat
                             /\ Cardinality({y \in active : <<y, x>> \in Below}) < Cardinality(active)
        /\ \A x, y \in active :
             Cardinality({z \in active : <<z, x>> \in Below}) = Cardinality({z \in active : <<z, y>> \in Below})
               => x = y
    BY <1>2, <1>5, <1>6, <1>7, RanksTell
  <2>2. QED
    BY <1>8, <2>1
<1>10. ASSUME NEW e \in active PROVE stack[local(e)] = e
  <2>1. local(e) = place(e) /\ place(e) \in 0 .. Cardinality(active) - 1
    BY <1>3, <1>9
  <2>2. stack[place(e)] = CHOOSE f \in active : place(f) = place(e)
    BY <2>1
  <2> HIDE DEF stack, local
  <2>3. QED
    BY <1>9, <2>1, <2>2
<1>11. ExpertsAt(chunk, i) = {<<e, stack[local(e)]>> : e \in Routed(chunk[i])}
  BY DEF ExpertsAt, active, place
<1> HIDE DEF stack, local
<1>12. QED
  BY <1>1, <1>10, <1>11

\* The rows of a position are those of the n-grams that end the text there.
RowsAt(c) == [g \in 1 .. NgramHeads |-> InShard(RowOf(g, NgramAt(c, HeadNgram(g))))]

\* Position in a flat list of rows of h.
LEMMA FlatPlace ==
  ASSUME NEW i \in Nat, NEW h \in Nat, NEW g \in 1 .. h, i > 0
  PROVE  /\ ((i - 1) * h + g - 1) \div h = i - 1
         /\ ((i - 1) * h + g - 1) % h = g - 1
         /\ (i - 1) * h + g \in Nat /\ (i - 1) * h + g > 0
         /\ \A n \in Nat : i <= n => (i - 1) * h + g <= n * h
<1>1. PICK a \in Nat : a = (i - 1) * h
  <2>1. i - 1 \in Nat
    OBVIOUS
  <2>2. QED
    BY <2>1
<1>2. PICK x \in Nat : x = a + g - 1
  OBVIOUS
<1>3. h \in Nat \ {0}
  OBVIOUS
<1>4. PICK q \in Nat, r \in 0 .. h - 1 : q = x \div h /\ r = x % h /\ x = h * q + r
  BY <1>3, DivFacts
<1>5. ~(x < (i - 1) * h) /\ x < i * h
  <2>1. i * h = a + h
    BY <1>1
  <2>2. QED
    BY <1>1, <1>2, <2>1
<1>6. ~(q < i - 1) /\ q < i
  <2>1. i - 1 \in Nat
    OBVIOUS
  <2>2. q < i
    BY <1>3, <1>4, <1>5, DivBelow
  <2>3. ~(q < i - 1)
    BY <1>3, <1>4, <1>5, <2>1, DivBelow
  <2>4. QED
    BY <2>2, <2>3
<1>7. q = i - 1
  BY <1>6
<1>8. r = g - 1
  <2>1. h * q = a
    BY <1>1, <1>7
  <2>2. QED
    BY <1>2, <1>4, <2>1
<1>9. ASSUME NEW n \in Nat, i <= n PROVE a + g <= n * h
  <2>1. i * h <= n * h
    BY <1>9
  <2>2. PICK b \in Nat, c \in Nat : b = i * h /\ c = n * h
    OBVIOUS
  <2>3. b = a + h
    BY <1>1, <2>2
  <2>4. b <= c
    BY <2>1, <2>2
  <2>5. QED
    BY <2>2, <2>3, <2>4
<1>10. (i - 1) * h + g - 1 = x
  BY <1>1, <1>2
<1>11. QED
  BY <1>1, <1>4, <1>7, <1>8, <1>9, <1>10

LEMMA EmbeddedIs ==
  ASSUME Bertrand, ShardsHaveRows, MixesToNumbers,
         NEW s \in Seq(Token \cup {Eos}), NEW t \in Seq(Token \cup {Eos})
  PROVE  Embedded(Window(s, Eos, NgramSize - 1) \o t, Len(t)) =
           [i \in 1 .. Len(t) |-> RowsAt(First(s \o t, Len(s) + i))]
<1>1. PICK w \in Nat : w = NgramSize - 1
  BY TableFacts
<1>2. PICK L \in Nat, h \in Nat : L = Len(t) /\ h = NgramHeads /\ h > 0
  BY TableFacts, LenProperties
<1>3. PICK full \in Seq(Token \cup {Eos}) : full = Window(s, Eos, w) \o t /\ Len(full) = w + L
  <2>1. PICK A : A = Token \cup {Eos}
    OBVIOUS
  <2>2. s \in Seq(A) /\ t \in Seq(A)
    BY <2>1
  <2>6. PICK e \in A : e = Eos
    BY <2>1
  <2>3. PICK v \in Seq(A) : v = Window(s, e, w) /\ Len(v) = w
    <3>1. Window(s, e, w) \in Seq(A)
      BY <2>2, WindowProps
    <3>2. Len(Window(s, e, w)) = w
      BY <2>2, WindowProps
    <3>3. QED
      BY <3>1, <3>2
  <2>4. v \o t \in Seq(A) /\ Len(v \o t) = Len(v) + Len(t)
    BY <2>2, CatProps
  <2>5. QED
    BY <1>2, <2>1, <2>3, <2>4, <2>6
<1> DEFINE c(i) == First(s \o t, Len(s) + i)
           id(i, g) == RowOf(g, NgramAt(c(i), HeadNgram(g)))
           ids == [i \in 1 .. L |-> NgramIds(full, Len(full) - L + i)]
           flat == [x \in 1 .. L * NgramHeads |-> ids[1 + ((x - 1) \div NgramHeads)][1 + ((x - 1) % NgramHeads)]]
<1>4. ASSUME NEW i \in 1 .. L, NEW g \in 1 .. h
      PROVE  ids[i][g] = id(i, g) /\ id(i, g) \in Nat
  <2>1. Len(full) - L + i = w + i
    BY <1>3
  <2>2. PICK n \in Nat : n = HeadNgram(g) /\ n <= NgramSize
    BY <1>2, HeadNgramIs
  <2>3. /\ [k \in 1 .. n |-> Shifted(full, w + i, k - 1)] = NgramAt(c(i), n)
        /\ NgramAt(c(i), n) \in Seq(Token \cup {Eos})
    <3>1. i \in 1 .. Len(t)
      BY <1>2
    <3>2. QED
      BY <1>1, <1>3, <2>2, <3>1, ShiftedIsNgram
  <2>4. ids[i][g] = RowOf(g, [k \in 1 .. n |-> Shifted(full, w + i, k - 1)])
    BY <1>2, <2>1, <2>2 DEF NgramIds
  <2>5. RowOf(g, NgramAt(c(i), n)) \in Nat
    BY <1>2, <2>3, RowIsOfHead
  <2>6. QED
    BY <2>2, <2>3, <2>4, <2>5
<1> HIDE DEF ids, id
<1>5. ASSUME NEW x \in 1 .. L * h
      PROVE  /\ 1 + ((x - 1) \div h) \in 1 .. L /\ 1 + ((x - 1) % h) \in 1 .. h
  <2>1. PICK y \in Nat : y = x - 1 /\ y < L * h
    <3>1. L * h \in Nat
      OBVIOUS
    <3>2. QED
      BY <3>1
  <2>2. h \in Nat \ {0}
    BY <1>2
  <2>3. y \div h < L /\ y \div h \in Nat /\ y % h \in 0 .. h - 1
    BY <2>1, <2>2, DivBelow, DivFacts
  <2>4. QED
    BY <1>2, <2>1, <2>3
<1>6. flat \in [1 .. L * h -> Nat] /\ L * h \in Nat
  <2>1. ASSUME NEW x \in 1 .. L * h PROVE ids[1 + ((x - 1) \div h)][1 + ((x - 1) % h)] \in Nat
    BY <1>4, <1>5
  <2>2. QED
    BY <1>2, <2>1
<1>7. Embedded(full, L) = [i \in 1 .. L |-> [g \in 1 .. h |-> Lookup(flat)[(i - 1) * h + g]]]
  BY <1>2 DEF Embedded, ids
<1>8. Lookup(flat) = [x \in 1 .. L * h |-> InShard(flat[x])]
  <2>4. PICK n \in Nat : n = L * h
    BY <1>6
  <2>1. PICK f \in [1 .. n -> Nat] : f = flat
    BY <1>6, <2>4
  <2>2. RowsPerShard \in Nat /\ RowsPerShard > 0
    <3>1. PICK x \in Nat, d \in Nat \ {0} : x = PaddedSize /\ d = Parts
      BY PaddedHoldsAll, TableFacts
    <3>2. x \div d \in Nat
      BY DivFacts
    <3>3. QED
      BY <3>1, <3>2 DEF RowsPerShard, ShardsHaveRows
  <2>3. Lookup(f) = [x \in 1 .. n |-> InShard(f[x])]
    BY <2>2, LookupAnswers
  <2> HIDE DEF flat
  <2>5. QED
    BY <2>4, <2>1, <2>3
<1>9. ASSUME NEW i \in 1 .. L, NEW g \in 1 .. h
      PROVE  Lookup(flat)[(i - 1) * h + g] = InShard(id(i, g))
  <2>1. PICK x \in 1 .. L * h :
          /\ x = (i - 1) * h + g /\ (x - 1) \div h = i - 1 /\ (x - 1) % h = g - 1
    <3>1. /\ ((i - 1) * h + g - 1) \div h = i - 1
          /\ ((i - 1) * h + g - 1) % h = g - 1
          /\ (i - 1) * h + g \in Nat /\ (i - 1) * h + g > 0
          /\ \A n \in Nat : i <= n => (i - 1) * h + g <= n * h
      BY FlatPlace
    <3>2. (i - 1) * h + g <= L * h /\ L * h \in Nat
      BY <1>6, <3>1
    <3>3. (i - 1) * h + g \in 1 .. L * h
      BY <3>1, <3>2
    <3>4. QED
      BY <3>1, <3>3
  <2>2. 1 + ((x - 1) \div h) = i /\ 1 + ((x - 1) % h) = g
    BY <2>1
  <2>3. flat[x] = ids[i][g]
    BY <1>2, <2>2
  <2>4. Lookup(flat)[x] = InShard(flat[x])
    BY <1>8
  <2> HIDE DEF flat
  <2>5. QED
    BY <1>4, <2>1, <2>3, <2>4
<1> HIDE DEF flat
<1>10. Embedded(full, L) = [i \in 1 .. L |-> [g \in 1 .. h |-> InShard(id(i, g))]]
  BY <1>7, <1>9
<1>11. \A i \in 1 .. L : RowsAt(c(i)) = [g \in 1 .. h |-> InShard(id(i, g))]
  BY <1>2 DEF RowsAt, id
<1> HIDE DEF c
<1>12. Embedded(full, L) = [i \in 1 .. L |-> RowsAt(c(i))]
  BY <1>10, <1>11
<1>13. QED
  BY <1>1, <1>2, <1>3, <1>12 DEF c

-----------------------------------------------------------------------------
(* A call, of any length, after any text.                                  *)

\* What the engine's arithmetic rests on.
EngineCounts == Bertrand /\ ShardsHaveRows /\ MixesToNumbers /\ ScoresCompare

LEMMA KernelFacts ==
  /\ ConvKernel \in Nat /\ ConvKernel > 0 /\ PleKernel \in Nat /\ PleKernel > 0
  /\ NgramSize \in Nat /\ NgramSize > 0
  /\ GdnStateLen \in Nat /\ GdnStateLen = (ConvKernel - 1) * 1
  /\ PleStateLen \in Nat /\ PleStateLen = (PleKernel - 1) * NgramSize
<1>1. PICK a \in Nat, b \in Nat, c \in Nat :
        a = ConvKernel /\ b = PleKernel /\ c = NgramSize /\ a > 1 /\ b > 1 /\ c > 1
  BY SizesAssumption
<1>2. a - 1 \in Nat /\ (a - 1) * 1 = a - 1 /\ (b - 1) * c \in Nat
  <2>1. PICK d \in Nat : d = b - 1
    BY <1>1
  <2>2. d * c \in Nat
    OBVIOUS
  <2>3. QED
    BY <1>1, <2>1, <2>2
<1>3. QED
  BY <1>1, <1>2 DEF GdnStateLen, PleStateLen

\* Position i of a call with t after s ends the text c there, and attends to what the
\* end of c attends to.
AttendsAsTheEnd(s, t, i, c) ==
  /\ c \in Seq(Token) /\ Len(c) = Len(s) + i /\ c[Len(c)] = t[i]
  /\ AttentionAt(s \o t, s \o t, t, Len(s), i) =
       {<<x, c[x + 1]>> : x \in Attended(c[Len(c)], Len(c) - 1, c)}

LEMMA AttentionIs ==
  ASSUME ScoresCompare, NEW s \in Seq(Token), NEW t \in Seq(Token), NEW i \in 1 .. Len(t)
  PROVE  AttendsAsTheEnd(s, t, i, First(s \o t, Len(s) + i))
<1>0. PICK c : c = First(s \o t, Len(s) + i)
  OBVIOUS
<1>1. /\ s \o t \in Seq(Token) /\ Len(s \o t) = Len(s) + Len(t)
      /\ Len(s) \in Nat /\ Len(t) \in Nat
      /\ \A j \in 1 .. Len(t) : (s \o t)[Len(s) + j] = t[j]
  BY CatProps
<1>2. PICK u \in Seq(Token) : u = s \o t
  BY <1>1
<1>3. PICK m \in 1 .. Len(u) : m = Len(s) + i
  <2>1. Len(s) + i \in 1 .. Len(u)
    BY <1>1, <1>2
  <2>2. QED
    BY <2>1
<1>4. c \in Seq(Token) /\ Len(c) = m /\ c = First(u, m) /\ \A j \in 1 .. m : c[j] = u[j]
  <2>1. m \in 0 .. Len(u)
    BY <1>1, <1>2
  <2>2. QED
    BY <1>0, <1>2, <1>3, <2>1, FirstProps
<1>5. m \in Nat /\ m \in 1 .. m /\ m - 1 \in Nat
  BY <1>1, <1>3
<1>6. PICK x \in Token : x = t[i] /\ x = c[m]
  BY <1>1, <1>2, <1>3, <1>4, <1>5, ElementOfSeq
<1>7. PICK A : A = Attended(x, m - 1, u) /\ A = Attended(x, m - 1, c) /\ A \subseteq 0 .. m - 1
  BY <1>4, AttendedInPrefix
<1>8. \A y \in A : u[y + 1] = c[y + 1]
  <2>1. \A y \in A : y + 1 \in 1 .. m
    BY <1>5, <1>7
  <2>2. QED
    BY <1>4, <2>1
<1>9. AttentionAt(s \o t, s \o t, t, Len(s), i) = {<<y, u[y + 1]>> : y \in A}
  <2>1. AttentionAt(s \o t, s \o t, t, Len(s), i) =
          {<<y, (s \o t)[y + 1]>> : y \in Attended(t[i], Len(s) + i - 1, s \o t)}
    BY DEF AttentionAt
  <2>2. Len(s) + i - 1 = m - 1
    BY <1>3
  <2>3. Attended(t[i], Len(s) + i - 1, s \o t) = A
    BY <1>2, <1>6, <1>7, <2>2
  <2>4. QED
    BY <1>2, <2>1, <2>3
<1>10. {<<y, u[y + 1]>> : y \in A} = {<<y, c[y + 1]>> : y \in A}
  BY <1>8
<1>11. A = Attended(c[Len(c)], Len(c) - 1, c)
  BY <1>4, <1>6, <1>7
<1>12. QED
  BY <1>0, <1>3, <1>4, <1>6, <1>9, <1>10, <1>11 DEF AttendsAsTheEnd

\* The caches are windows of the text and the text itself.
CachesHold ==
  /\ gdnConv = Window(keys, Absent, GdnStateLen) /\ gdnState = keys
  /\ pleConv = Window(keys, Absent, PleStateLen)
  /\ ngramContext = Window(keys, Eos, NgramSize - 1)
  /\ indexerKeys = keys

\* A call after a text s leaves the caches at its end, and computes each position
\* from what the text up to it determines.
LEMMA AdvanceKeeps ==
  ASSUME EngineCounts, NEW s \in Seq(Token), NEW t \in Seq(Token),
         Advance(t, Window(s, Absent, GdnStateLen), s, Window(s, Absent, PleStateLen),
                 Window(s, Eos, NgramSize - 1), s, s)
  PROVE  /\ keys' = s \o t /\ CachesHold'
         /\ Len(seen') = Len(t)
         /\ \A i \in 1 .. Len(t) : seen'[i] = View(First(s \o t, Len(s) + i))
<1>0. Bertrand /\ ShardsHaveRows /\ MixesToNumbers /\ ScoresCompare
  BY DEF EngineCounts
<1>1. PICK A : A = Token \cup {Eos, Absent}
  OBVIOUS
<1>2. Token \subseteq A /\ Eos \in A /\ Absent \in A
  BY <1>1
<1>3. /\ s \in Seq(A) /\ t \in Seq(A)
      /\ s \in Seq(Token \cup {Eos}) /\ t \in Seq(Token \cup {Eos})
  BY <1>2
<1>4. PICK g \in Nat, p \in Nat, n \in Nat : g = GdnStateLen /\ p = PleStateLen /\ n = NgramSize - 1
  BY KernelFacts, TableFacts
<1>5. PICK conv, ple, history :
        /\ conv = Window(s, Absent, g) \o t
        /\ ple = Window(s, Absent, p) \o t
        /\ history = Window(s, Eos, n) \o t
  OBVIOUS
<1>6. PICK u \in Seq(Token) : u = s \o t /\ Len(u) = Len(s) + Len(t) /\ Len(s) \in Nat /\ Len(t) \in Nat
  BY CatProps
<1>7. PICK rows : rows = Embedded(history, Len(t))
  OBVIOUS
<1>8. /\ gdnConv' = LastN(conv, g) /\ gdnState' = u /\ pleConv' = LastN(ple, p)
      /\ ngramContext' = LastN(history, n) /\ keys' = u /\ indexerKeys' = u
      /\ seen' = [i \in 1 .. Len(t) |->
           [rows |-> rows[i],
            ple |-> PleAt(ple, i),
            gdn |-> GdnAt(conv, s, t, i),
            attended |-> AttentionAt(u, u, t, Len(s), i),
            experts |-> ExpertsAt(t, i)]]
  BY <1>4, <1>5, <1>6, <1>7 DEF Advance, ContextKept, UpdateIndexer
<1>9. CachesHold'
  <2>1. PICK e \in A, a \in A : e = Eos /\ a = Absent
    BY <1>2
  <2>2. LastN(Window(s, a, g) \o t, g) = Window(s \o t, a, g)
    BY <1>3, WindowMoves
  <2>3. LastN(Window(s, a, p) \o t, p) = Window(s \o t, a, p)
    BY <1>3, WindowMoves
  <2>4. LastN(Window(s, e, n) \o t, n) = Window(s \o t, e, n)
    BY <1>3, WindowMoves
  <2>5. QED
    BY <1>4, <1>5, <1>6, <1>8, <2>1, <2>2, <2>3, <2>4 DEF CachesHold
<1>10. Len(seen') = Len(t)
  BY <1>6, <1>8
<1>11. ASSUME NEW i \in 1 .. Len(t)
       PROVE  seen'[i] = View(First(s \o t, Len(s) + i))
  <2>1. PICK c : c = First(s \o t, Len(s) + i)
    OBVIOUS
  <2>2. /\ c \in Seq(Token) /\ Len(c) = Len(s) + i /\ c[Len(c)] = t[i]
        /\ AttentionAt(u, u, t, Len(s), i) =
              {<<x, c[x + 1]>> : x \in Attended(c[Len(c)], Len(c) - 1, c)}
    <3>1. AttendsAsTheEnd(s, t, i, First(s \o t, Len(s) + i))
      BY <1>0, AttentionIs
    <3>2. QED
      BY <1>6, <2>1, <3>1 DEF AttendsAsTheEnd
  <2>3. rows[i] = RowsAt(c)
    <3>1. rows = [j \in 1 .. Len(t) |-> RowsAt(First(s \o t, Len(s) + j))]
      BY <1>0, <1>3, <1>4, <1>5, <1>7, EmbeddedIs
    <3>2. QED
      BY <2>1, <3>1
  <2>4. c = SubSeq(s \o t, 1, Len(s) + i)
    BY <2>1 DEF First
  <2>5. PleAt(ple, i) = [j \in 1 .. PleKernel |-> Before(c, (PleKernel - j) * NgramSize)]
    <3>1. PICK k \in Nat, d \in Nat : k = PleKernel /\ d = NgramSize /\ k > 0 /\ d > 0
      BY KernelFacts
    <3>2. Taps(Window(s, Absent, (k - 1) * d) \o t, i, k, d) =
             [j \in 1 .. k |-> Before(SubSeq(s \o t, 1, Len(s) + i), (k - j) * d)]
      BY <1>2, <1>3, <3>1, TapsReadTheText
    <3>3. ple = Window(s, Absent, (k - 1) * d) \o t
      BY <1>4, <1>5, <3>1, KernelFacts
    <3>4. QED
      BY <2>4, <3>1, <3>2, <3>3 DEF PleAt
  <2>6. Taps(conv, i, ConvKernel, 1) = [j \in 1 .. ConvKernel |-> Before(c, ConvKernel - j)]
    <3>1. PICK k \in Nat, d \in Nat : k = ConvKernel /\ d = 1 /\ k > 0 /\ d > 0
      BY KernelFacts
    <3>2. Taps(Window(s, Absent, (k - 1) * d) \o t, i, k, d) =
             [j \in 1 .. k |-> Before(SubSeq(s \o t, 1, Len(s) + i), (k - j) * d)]
      BY <1>2, <1>3, <3>1, TapsReadTheText
    <3>3. conv = Window(s, Absent, (k - 1) * d) \o t
      BY <1>4, <1>5, <3>1, KernelFacts
    <3>4. \A j \in 1 .. k : (k - j) * d = k - j
      BY <3>1
    <3>5. QED
      BY <2>4, <3>1, <3>2, <3>3, <3>4
  <2>7. s \o SubSeq(t, 1, i) = c
    <3>1. i \in 0 .. Len(t)
      BY <1>6
    <3>2. s \o First(t, i) = First(s \o t, Len(s) + i)
      BY <3>1, CatFirst
    <3>3. QED
      BY <2>1, <3>2 DEF First
  <2>8. GdnAt(conv, s, t, i) = <<[j \in 1 .. ConvKernel |-> Before(c, ConvKernel - j)], c>>
    BY <2>6, <2>7 DEF GdnAt
  <2>9. ExpertsAt(t, i) = {<<e, e>> : e \in Routed(c[Len(c)])}
    <3>1. i \in DOMAIN t
      BY <1>6
    <3>2. ExpertsAt(t, i) = {<<e, e>> : e \in Routed(t[i])}
      BY <3>1, ExpertsAreTheirOwn
    <3>3. QED
      BY <2>2, <3>2
  <2>10. seen'[i] = [rows |-> rows[i], ple |-> PleAt(ple, i), gdn |-> GdnAt(conv, s, t, i),
                    attended |-> AttentionAt(u, u, t, Len(s), i), experts |-> ExpertsAt(t, i)]
    BY <1>8
  <2>11. View(c) = [rows |-> RowsAt(c),
                   ple |-> [j \in 1 .. PleKernel |-> Before(c, (PleKernel - j) * NgramSize)],
                   gdn |-> <<[j \in 1 .. ConvKernel |-> Before(c, ConvKernel - j)], c>>,
                   attended |-> {<<x, c[x + 1]>> : x \in Attended(c[Len(c)], Len(c) - 1, c)},
                   experts |-> {<<e, e>> : e \in Routed(c[Len(c)])}]
    BY DEF View, RowsAt
  <2>12. QED
    BY <2>1, <2>2, <2>3, <2>5, <2>8, <2>9, <2>10, <2>11
<1>12. QED
  BY <1>6, <1>8, <1>9, <1>10, <1>11

-----------------------------------------------------------------------------
(* The two generators together.                                            *)

\* With the engine that takes drafts the invariant of the rounds holds; the other
\* one never begins a round.
DraftSide == engine \in Engines /\ IF engine = "qwen" THEN SpecInv ELSE pc = "idle"

\* The engine with its own forward pass: its caches hold the text but for the token
\* it yielded last, and every position of its last call was computed as a whole.
OwnInv ==
  /\ prompt \in Seq(Token) /\ out \in Seq(Token) /\ keys \in Seq(Token)
  /\ Len(seen) \in Nat /\ Len(seen) <= Len(keys)
  /\ EveryPositionAsWhole
  /\ ownPc \in {"idle", "pick", "yielded"}
  /\ ownPc # "idle" => CachesHold /\ Len(seen) >= 1
  /\ ownPc = "pick" => open /\ keys = prompt \o out
  /\ ownPc = "yielded" => out # <<>> /\ keys = prompt \o AllButLast(out)

OwnSide ==
  /\ engine \in Engines
  /\ IF engine = "qwen" THEN keys = <<>> /\ seen = <<>> ELSE OwnInv

\* The engine picks tokens of the vocabulary.
EngineGivesTokens ==
  EngineCounts /\ \A c \in Seq(Token) : c # <<>> => Predict(View(c)) \in Token

\* An engine with its own forward pass is a target like the others.
EngineIsTarget ==
  EngineCounts /\ \A c \in Seq(Token) : c # <<>> => Predict(View(c)) = Target(c)

LEMMA DraftSideStep ==
  ASSUME ModelsGiveTokens, DraftSide, [GenerationNext]_generationVars
  PROVE  DraftSide'
<1>1. engine \in {"qwen", "qwen4_exp"}
  BY EnginesAssumption DEF DraftSide
<1>2. CASE UNCHANGED generationVars
  <2>1. engine' = engine /\ pc' = pc /\ UNCHANGED specVars
    BY <1>2 DEF generationVars, specVars
  <2>2. QED
    BY <2>1, SpecStutter DEF DraftSide
<1>3. CASE GenerationNext /\ engine = "qwen"
  <2>1. engine' = engine /\ SpecInv
    BY <1>3 DEF GenerationNext, DraftSide
  <2>2. Request \/ Draft \/ Verify \/ EmitStop \/ Emit
    BY <1>3 DEF GenerationNext, Post
  <2>3. SpecInv'
    BY <2>1, <2>2, RequestStep, DraftStep, VerifyStep, EmitStep, EmitStopStep
  <2>4. QED
    BY <1>3, <2>1, <2>3 DEF DraftSide
<1>4. CASE GenerationNext /\ engine = "qwen4_exp"
  <2>1. engine' = engine
    BY <1>4 DEF GenerationNext
  <2>2. OwnRequest \/ OwnStop \/ OwnYield \/ OwnFeed
    BY <1>4 DEF GenerationNext, Post
  <2>3. pc' = pc
    BY <2>2 DEF OwnRequest, OwnStop, OwnYield, OwnFeed, NoDrafts
  <2>4. QED
    BY <1>4, <2>1, <2>3 DEF DraftSide
<1>5. QED
  BY <1>1, <1>2, <1>3, <1>4

LEMMA InitDraftSide == GenerationInit => DraftSide
BY InitSpecInv DEF GenerationInit, DraftSide, SpecInit

LEMMA InitOwnSide == GenerationInit => OwnSide
<1> SUFFICES ASSUME GenerationInit PROVE OwnSide
  OBVIOUS
<1>1. engine \in Engines /\ prompt = <<>> /\ out = <<>> /\ keys = <<>> /\ seen = <<>> /\ ownPc = "idle"
  BY DEF GenerationInit, SpecInit, EngineInit
<1>2. Len(<<>>) = 0 /\ <<>> \in Seq(Token)
  BY EmptySeq
<1>3. EveryPositionAsWhole
  BY <1>1, <1>2 DEF EveryPositionAsWhole
<1>4. OwnInv
  BY <1>1, <1>2, <1>3 DEF OwnInv
<1>5. QED
  BY <1>1, <1>4 DEF OwnSide

\* Fresh caches are the windows of the empty text.
LEMMA FreshIsWindow ==
  ASSUME NEW n \in Nat
  PROVE  Window(<<>>, Absent, n) = Fresh(n) /\ Window(<<>>, Eos, n) = [i \in 1 .. n |-> Eos]
<1>1. \A x, k \in 1 .. n : ~(Len(<<>>) - n + k >= 1)
  BY EmptySeq
<1>2. \A x : \A k \in 1 .. n : At(<<>>, x, Len(<<>>) - n + k) = x
  BY <1>1 DEF At
<1>3. QED
  BY <1>2 DEF Window, Fresh

\* What a call leaves, in the terms of the invariant.
LEMMA CallKeeps ==
  ASSUME EngineCounts, NEW s \in Seq(Token), NEW t \in Seq(Token), t # <<>>,
         Advance(t, Window(s, Absent, GdnStateLen), s, Window(s, Absent, PleStateLen),
                 Window(s, Eos, NgramSize - 1), s, s)
  PROVE  /\ keys' = s \o t /\ keys' \in Seq(Token) /\ CachesHold'
         /\ Len(seen') \in Nat /\ Len(seen') <= Len(keys') /\ Len(seen') >= 1
         /\ EveryPositionAsWhole'
<1>1. /\ keys' = s \o t /\ CachesHold' /\ Len(seen') = Len(t)
      /\ \A i \in 1 .. Len(t) : seen'[i] = View(First(s \o t, Len(s) + i))
  BY AdvanceKeeps
<1>2. /\ s \o t \in Seq(Token) /\ Len(s \o t) = Len(s) + Len(t)
      /\ Len(s) \in Nat /\ Len(t) \in Nat
  BY CatProps
<1>3. Len(t) >= 1
  BY <1>2, EmptySeq
<1>4. ASSUME NEW i \in 1 .. Len(seen')
      PROVE  seen'[i] = View(SubSeq(keys', 1, Len(keys') - Len(seen') + i))
  <2>1. i \in 1 .. Len(t) /\ Len(keys') - Len(seen') + i = Len(s) + i
    BY <1>1, <1>2
  <2>2. QED
    BY <1>1, <2>1 DEF First
<1>5. EveryPositionAsWhole'
  BY <1>4 DEF EveryPositionAsWhole
<1>6. QED
  BY <1>1, <1>2, <1>3, <1>5

\* The last position of a call was computed from the whole text.
LEMMA LastIsWhole ==
  ASSUME OwnInv, Len(seen) >= 1
  PROVE  LastOf(seen) = View(keys) /\ keys # <<>>
<1>1. keys \in Seq(Token) /\ Len(keys) \in Nat /\ Len(seen) \in Nat /\ Len(seen) <= Len(keys)
  BY LenProperties DEF OwnInv
<1>2. Len(seen) \in 1 .. Len(seen) /\ Len(keys) - Len(seen) + Len(seen) = Len(keys)
  BY <1>1
<1>3. seen[Len(seen)] = View(SubSeq(keys, 1, Len(keys) - Len(seen) + Len(seen)))
  BY <1>2 DEF OwnInv, EveryPositionAsWhole
<1>4. SubSeq(keys, 1, Len(keys)) = keys
  BY <1>1, FirstOfAll DEF First
<1>5. keys # <<>>
  BY <1>1, EmptySeq
<1>6. QED
  BY <1>2, <1>3, <1>4, <1>5 DEF LastOf

LEMMA OwnSideStep ==
  ASSUME "qwen4_exp" \in Engines => EngineGivesTokens, OwnSide, [GenerationNext]_generationVars
  PROVE  OwnSide'
<1>1. engine \in {"qwen", "qwen4_exp"}
  BY EnginesAssumption DEF OwnSide
<1>2. CASE UNCHANGED generationVars
  <2>1. engine' = engine /\ UNCHANGED <<prompt, out, open, ownPc, engineVars>>
    BY <1>2 DEF generationVars, specVars, request, ownVars
  <2>2. UNCHANGED <<keys, seen, gdnConv, gdnState, pleConv, ngramContext, indexerKeys>>
    BY <2>1 DEF engineVars
  <2>3. QED
    BY <2>1, <2>2 DEF OwnSide, OwnInv, EveryPositionAsWhole, CachesHold
<1>3. CASE GenerationNext /\ engine = "qwen"
  <2>1. engine' = engine /\ UNCHANGED ownVars
    BY <1>3 DEF GenerationNext, Post
  <2>2. keys' = keys /\ seen' = seen
    BY <2>1 DEF ownVars, engineVars
  <2>3. QED
    BY <1>3, <2>1, <2>2 DEF OwnSide
<1>4. CASE GenerationNext /\ engine = "qwen4_exp"
  <2>1. engine' = engine /\ OwnInv /\ EngineGivesTokens /\ EngineCounts
    BY <1>4 DEF GenerationNext, OwnSide, EngineGivesTokens
  <2>2. SUFFICES OwnInv'
    BY <1>4, <2>1 DEF OwnSide
  <2>3. CASE OwnRequest
    <3>1. PICK p \in Prompts : prompt' = p /\ ResetForward(p)
      BY <2>3 DEF OwnRequest
    <3>2. p \in Seq(Token) /\ p # <<>> /\ <<>> \in Seq(Token)
      BY PromptsAssumption, EmptySeq
    <3>3. Advance(p, Window(<<>>, Absent, GdnStateLen), <<>>, Window(<<>>, Absent, PleStateLen),
                  Window(<<>>, Eos, NgramSize - 1), <<>>, <<>>)
      <4>1. GdnStateLen \in Nat /\ PleStateLen \in Nat /\ NgramSize - 1 \in Nat
        BY KernelFacts
      <4>2. QED
        BY <3>1, <4>1, FreshIsWindow DEF ResetForward
    <3>4. /\ keys' = <<>> \o p /\ keys' \in Seq(Token) /\ CachesHold'
          /\ Len(seen') \in Nat /\ Len(seen') <= Len(keys') /\ Len(seen') >= 1
          /\ EveryPositionAsWhole'
      BY <2>1, <3>2, <3>3, CallKeeps
    <3>5. keys' = p /\ p \o <<>> = p
      BY <3>2, <3>4, ConcatEmptySeq
    <3>6. out' = <<>> /\ (open' = (MaxTokens > 0)) /\ ownPc' = IF MaxTokens > 0 THEN "pick" ELSE "idle"
      BY <2>3 DEF OwnRequest
    <3>7. QED
      BY <3>1, <3>2, <3>4, <3>5, <3>6 DEF OwnInv
  <2>4. CASE OwnStop
    <3>1. ownPc' = "idle" /\ UNCHANGED <<prompt, out, keys, seen>>
      BY <2>4 DEF OwnStop, engineVars
    <3>2. QED
      BY <2>1, <3>1 DEF OwnInv, EveryPositionAsWhole
  <2>5. CASE OwnYield
    <3>1. /\ ownPc = "pick" /\ ownPc' = "yielded" /\ out' = Append(out, Picked) /\ prompt' = prompt
          /\ UNCHANGED <<keys, seen, gdnConv, gdnState, pleConv, ngramContext, indexerKeys>>
      BY <2>5 DEF OwnYield, engineVars
    <3>2. Len(seen) >= 1 /\ CachesHold /\ keys = prompt \o out /\ keys \in Seq(Token) /\ out \in Seq(Token)
      BY <2>1, <3>1 DEF OwnInv
    <3>3. Picked \in Token
      BY <2>1, <3>2, LastIsWhole DEF Picked, EngineGivesTokens
    <3>4. out' \in Seq(Token) /\ out' # <<>> /\ AllButLast(out') = out
      <4>1. PICK x \in Token : x = Picked
        BY <3>3
      <4>0. PICK before \in Seq(Token) : before = out
        BY <3>2
      <4>2. PICK o \in Seq(Token) :
              /\ o = Append(out, x) /\ Len(o) = Len(out) + 1 /\ \A i \in 1 .. Len(out) : o[i] = out[i]
        <5>1. /\ Append(before, x) \in Seq(Token) /\ Len(Append(before, x)) = Len(before) + 1
              /\ \A i \in 1 .. Len(before) : Append(before, x)[i] = before[i]
          BY AppendProperties
        <5>2. QED
          BY <4>0, <5>1
      <4>3. Len(out) \in Nat
        BY <3>2, LenProperties
      <4>4. o # <<>> /\ Len(o) - 1 = Len(out) /\ Len(out) \in 0 .. Len(o) /\ Len(out) \in 0 .. Len(out)
        BY <4>2, <4>3, EmptySeq
      <4>5. First(o, Len(out)) = First(out, Len(out))
        BY <3>2, <4>2, <4>4, FirstAgree
      <4>6. First(out, Len(out)) = out
        BY <3>2, FirstOfAll
      <4>7. QED
        BY <3>1, <4>1, <4>2, <4>4, <4>5, <4>6 DEF AllButLast
    <3>5. CachesHold' /\ EveryPositionAsWhole'
      BY <2>1, <3>1, <3>2 DEF OwnInv, CachesHold, EveryPositionAsWhole
    <3>6. QED
      BY <2>1, <3>1, <3>2, <3>4, <3>5 DEF OwnInv
  <2>6. CASE OwnFeed
    <3>1. /\ ownPc = "yielded" /\ ownPc' = (IF open THEN "pick" ELSE "idle") /\ UNCHANGED <<prompt, out, open>>
          /\ Forward(<<LastOf(out)>>)
      BY <2>6 DEF OwnFeed, request
    <3>2. /\ CachesHold /\ out # <<>> /\ keys = prompt \o AllButLast(out)
          /\ keys \in Seq(Token) /\ out \in Seq(Token) /\ prompt \in Seq(Token)
      BY <2>1, <3>1 DEF OwnInv
    <3>3. /\ Len(out) \in Nat /\ Len(out) >= 1
          /\ AllButLast(out) \in Seq(Token) /\ Len(AllButLast(out)) = Len(out) - 1 /\ LastOf(out) \in Token
          /\ \A i \in 1 .. Len(out) - 1 : AllButLast(out)[i] = out[i]
      BY <3>2, AllButLastProps
    <3>4. PICK t \in Seq(Token) : t = <<LastOf(out)>> /\ t # <<>> /\ Len(t) = 1 /\ t[1] = LastOf(out)
      <4>1. PICK x \in Token : x = LastOf(out)
        BY <3>3
      <4>2. <<x>> \in Seq(Token) /\ Len(<<x>>) = 1 /\ <<x>>[1] = x
        OBVIOUS
      <4>3. <<x>> # <<>>
        BY <4>2, EmptySeq
      <4>4. QED
        BY <4>1, <4>2, <4>3
    <3>5. Advance(t, Window(keys, Absent, GdnStateLen), keys, Window(keys, Absent, PleStateLen),
                  Window(keys, Eos, NgramSize - 1), keys, keys)
      BY <3>1, <3>2, <3>4 DEF Forward, CachesHold
    <3>6. /\ keys' = keys \o t /\ keys' \in Seq(Token) /\ CachesHold'
          /\ Len(seen') \in Nat /\ Len(seen') <= Len(keys') /\ Len(seen') >= 1
          /\ EveryPositionAsWhole'
      BY <2>1, <3>2, <3>4, <3>5, CallKeeps
    <3>7. keys' = prompt \o out
      <4>1. (prompt \o AllButLast(out)) \o t = prompt \o (AllButLast(out) \o t)
        <5>1. PICK a \in Seq(Token), b \in Seq(Token) : a = prompt /\ b = AllButLast(out)
          BY <3>2, <3>3
        <5>2. (a \o b) \o t = a \o (b \o t)
          BY ConcatAssociative
        <5>3. QED
          BY <5>1, <5>2
      <4>2. AllButLast(out) \o t = out
        <5>1. PICK b \in Seq(Token) : b = AllButLast(out) /\ Len(b) = Len(out) - 1
          BY <3>3
        <5>2. /\ b \o t \in Seq(Token) /\ Len(b \o t) = Len(b) + Len(t)
              /\ \A i \in 1 .. Len(b) : (b \o t)[i] = b[i]
              /\ \A i \in 1 .. Len(t) : (b \o t)[Len(b) + i] = t[i]
          BY CatProps
        <5>3. Len(b \o t) = Len(out)
          BY <3>3, <3>4, <5>1, <5>2
        <5>4. ASSUME NEW i \in 1 .. Len(out) PROVE (b \o t)[i] = out[i]
          <6>1. CASE i = Len(out)
            <7>1. 1 \in 1 .. Len(t) /\ Len(b) + 1 = i
              BY <3>3, <3>4, <5>1, <6>1
            <7>2. (b \o t)[i] = t[1]
              BY <5>2, <7>1
            <7>3. QED
              BY <3>4, <6>1, <7>2 DEF LastOf
          <6>2. CASE i # Len(out)
            <7>1. i \in 1 .. Len(out) - 1 /\ i \in 1 .. Len(b)
              BY <3>3, <5>1, <6>2
            <7>2. QED
              BY <3>3, <5>1, <5>2, <7>1
          <6>3. QED
            BY <6>1, <6>2
        <5>5. b \o t = out
          BY <3>2, <5>2, <5>3, <5>4, SameSeq
        <5>6. QED
          BY <5>1, <5>5
      <4>3. QED
        BY <3>2, <3>6, <4>1, <4>2
    <3>8. QED
      BY <2>1, <3>1, <3>2, <3>6, <3>7 DEF OwnInv
  <2>7. OwnRequest \/ OwnStop \/ OwnYield \/ OwnFeed
    BY <1>4 DEF GenerationNext, Post
  <2>8. QED
    BY <2>3, <2>4, <2>5, <2>6, <2>7
<1>5. QED
  BY <1>1, <1>2, <1>3, <1>4

-----------------------------------------------------------------------------
(* What it gives.                                                          *)

\* The invariant of the rounds holds in every state, whatever the models answer.
THEOREM SpecInvariant ==
  ASSUME ModelsGiveTokens
  PROVE  GenerationSpec => []DraftSide
BY InitDraftSide, DraftSideStep, PTL DEF GenerationSpec

\* The caches of the engine that owns its forward pass hold windows of the text.
THEOREM EngineInvariant ==
  ASSUME "qwen4_exp" \in Engines => EngineGivesTokens
  PROVE  GenerationSpec => []OwnSide
BY InitOwnSide, OwnSideStep, PTL DEF GenerationSpec

\* EveryPositionAsWhole for every size of the n-grams, the kernels, the blocks and the
\* routing, and whatever the prompts and answers: prefill in one call and decoding
\* token by token compute each position from the same things.
THEOREM PositionsAreWhole ==
  ASSUME "qwen4_exp" \in Engines => EngineGivesTokens
  PROVE  GenerationSpec => []EveryPositionAsWhole
<1>1. ASSUME OwnSide PROVE EveryPositionAsWhole
  <2>1. CASE engine = "qwen"
    <3>1. Len(seen) = 0
      BY <1>1, <2>1, EmptySeq DEF OwnSide
    <3>2. QED
      BY <3>1 DEF EveryPositionAsWhole
  <2>2. CASE engine # "qwen"
    BY <1>1, <2>2 DEF OwnSide, OwnInv
  <2>3. QED
    BY <2>1, <2>2
<1>2. QED
  BY <1>1, EngineInvariant, PTL

\* RowsInTable for every geometry of the table, whether or not the shards divide it:
\* no n-gram reads a row of another head, and the rows that no shard has are the last
\* of the padded table, fewer than there are shards.
THEOREM RowsAreInTheTable ==
  ASSUME "qwen4_exp" \in Engines => EngineGivesTokens
  PROVE  GenerationSpec => []RowsInTable
<1>1. ASSUME OwnSide PROVE RowsInTable
  <2> SUFFICES ASSUME NEW i \in 1 .. Len(seen), NEW g \in 1 .. NgramHeads
               PROVE  /\ seen[i].rows[g][1] * RowsPerShard + seen[i].rows[g][2] \in
                           HeadOffsets[g] .. HeadOffsets[g] + HeadSizes[g] - 1
                      /\ seen[i].rows[g][2] \in 0 .. RowsPerShard - 1
                      /\ \/ seen[i].rows[g][1] \in 0 .. Parts - 1
                         \/ seen[i].rows[g][1] * RowsPerShard + seen[i].rows[g][2] > PaddedSize - Parts
    BY DEF RowsInTable
  <2>1. engine = "qwen4_exp" /\ OwnInv /\ EngineCounts
    <3>1. engine # "qwen"
      <4>1. SUFFICES ASSUME engine = "qwen" PROVE FALSE
        OBVIOUS
      <4>2. Len(seen) = 0
        BY <1>1, <4>1, EmptySeq DEF OwnSide
      <4>3. QED
        BY <4>2
    <3>2. QED
      BY <1>1, <3>1, EnginesAssumption DEF OwnSide, EngineGivesTokens
  <2>2. Bertrand /\ MixesToNumbers /\ ShardsHaveRows
    BY <2>1 DEF EngineCounts
  <2>3. keys \in Seq(Token) /\ Len(keys) \in Nat /\ Len(seen) \in Nat /\ Len(seen) <= Len(keys)
    BY <2>1, LenProperties DEF OwnInv
  <2>4. PICK m \in 1 .. Len(keys) : m = Len(keys) - Len(seen) + i
    <3>1. Len(keys) - Len(seen) + i \in 1 .. Len(keys)
      BY <2>3
    <3>2. QED
      BY <3>1
  <2>5. PICK c \in Seq(Token) : c = First(keys, m) /\ Len(c) = m
    <3>1. m \in 0 .. Len(keys)
      BY <2>3
    <3>2. QED
      BY <2>3, <3>1, FirstProps
  <2>6. seen[i] = View(c)
    BY <2>1, <2>4, <2>5 DEF OwnInv, EveryPositionAsWhole, First
  <2>7. PICK n \in Nat : n = HeadNgram(g) /\ n <= NgramSize
    BY HeadNgramIs
  <2>8. PICK ngram \in Seq(Token \cup {Eos}) : ngram = NgramAt(c, n)
    <3>1. PICK A : A = Token \cup {Eos}
      OBVIOUS
    <3>2. c \in Seq(A) /\ <<>> \in Seq(A) /\ Len(<<>>) = 0
      BY <3>1, EmptySeq
    <3>3. PICK d \in Seq(A), z \in Seq(A) : d = c /\ z = <<>>
      BY <3>2
    <3>4. PICK j \in 1 .. Len(d) : j = m
      BY <2>3, <2>5, <3>3
    <3>5. NgramAt(First(z \o d, Len(z) + j), n) \in Seq(A)
      BY <2>7, <3>1, ShiftedIsNgram
    <3>6. z \o d = c /\ Len(z) + j = Len(c)
      BY <2>5, <3>2, <3>3, <3>4, ConcatEmptySeq
    <3>7. First(c, Len(c)) = c
      BY FirstOfAll
    <3>8. QED
      BY <3>1, <3>5, <3>6, <3>7
  <2>9. PICK row \in Nat :
          /\ row = RowOf(g, ngram) /\ row < HeadOffsets[NgramHeads + 1]
          /\ row \in HeadOffsets[g] .. HeadOffsets[g] + HeadSizes[g] - 1
    BY <2>2, RowIsOfHead
  <2>10. /\ InShard(row)[1] \in 0 .. Parts - 1 \/ row > PaddedSize - Parts
         /\ InShard(row)[2] \in 0 .. RowsPerShard - 1
         /\ InShard(row)[1] * RowsPerShard + InShard(row)[2] = row
    BY <2>2, <2>9, RowIsInShard
  <2>11. seen[i].rows[g] = InShard(row)
    BY <2>6, <2>7, <2>8, <2>9 DEF View
  <2>12. QED
    BY <2>9, <2>10, <2>11
<1>2. QED
  BY <1>1, EngineInvariant, PTL

\* KVMatchesContext for any models: when a round begins the target's cache is the
\* context without its last token.
THEOREM CacheIsTheContext ==
  ASSUME ModelsGiveTokens
  PROVE  GenerationSpec => []KVMatchesContext
<1>1. ASSUME DraftSide PROVE KVMatchesContext
  <2> SUFFICES ASSUME pc = "draft" PROVE kv = AllButLast(context) /\ cur = LastOf(context) /\ context = prompt \o out
    BY DEF KVMatchesContext
  <2>1. SpecInv /\ Active
    BY <1>1 DEF DraftSide, Active
  <2>2. tokens = <<>>
    BY <2>1 DEF SpecInv, RoundInv
  <2>3. Text = context
    BY <2>1, <2>2, TextIsContext DEF SpecInv
  <2>4. QED
    BY <2>1, <2>3 DEF SpecInv, RoundInv, RequestInv, CacheInv, AllButLast
<1>2. QED
  BY <1>1, SpecInvariant, PTL

\* DraftStateFollows for any models: no rejected draft and no earlier request
\* leaves anything in what the next draft is conditioned on.
THEOREM DraftsAreConditionedRight ==
  ASSUME ModelsGiveTokens
  PROVE  GenerationSpec => []DraftStateFollows
<1>1. ASSUME DraftSide PROVE DraftStateFollows
  <2> SUFFICES ASSUME pc = "draft"
               PROVE  /\ source = "model" => IsPrefixOf(cached, context) /\ Len(cached) < Len(context)
                      /\ source = "dflash" => captured = kv
    BY DEF DraftStateFollows
  <2>1. SpecInv /\ Active
    BY <1>1 DEF DraftSide, Active
  <2>2. tokens = <<>>
    BY <2>1 DEF SpecInv, RoundInv
  <2>3. Text = context
    BY <2>1, <2>2, TextIsContext DEF SpecInv
  <2>4. source = "dflash" => captured = kv
    BY <2>1 DEF SpecInv, CaptureInv
  <2>5. ASSUME source = "model" PROVE IsPrefixOf(cached, context) /\ Len(cached) < Len(context)
    <3>1. Len(cached) < Len(context) /\ cached = First(context, Len(cached))
      BY <2>1, <2>3, <2>5 DEF SpecInv, ModelInv
    <3>2. context \in Seq(Token) /\ Len(cached) \in Nat /\ Len(context) \in Nat
      BY <2>1, LenProperties DEF SpecInv, Types
    <3>3. Len(cached) \in 0 .. Len(context)
      BY <3>1, <3>2
    <3>4. \A i \in 1 .. Len(cached) : First(context, Len(cached))[i] = context[i]
      BY <3>2, <3>3, FirstProps
    <3>5. QED
      BY <3>1, <3>2, <3>4 DEF IsPrefixOf
  <2>6. QED
    BY <2>4, <2>5
<1>2. QED
  BY <1>1, SpecInvariant, PTL

\* CachedDraftIsStateless for any models: the draft model's cache saves work and
\* changes no draft.
THEOREM DraftCacheChangesNothing ==
  ASSUME ModelsGiveTokens
  PROVE  GenerationSpec => []CachedDraftIsStateless
<1>1. ASSUME DraftSide PROVE CachedDraftIsStateless
  <2>1. SUFFICES ASSUME pc = "verify", source = "model" PROVE drafts = Continuation(context)
    BY DEF CachedDraftIsStateless
  <2>2. SpecInv
    BY <1>1, <2>1 DEF DraftSide
  <2>3. QED
    BY <2>1, <2>2 DEF SpecInv, ModelInv, Active
<1>2. QED
  BY <1>1, SpecInvariant, PTL

\* What the rounds with drafts do is greedy decoding.
LEMMA RoundsAreGreedy ==
  ASSUME SpecInv, Request \/ Draft \/ Verify \/ EmitStop \/ Emit
  PROVE  [Greedy!GreedyNext]_Greedy!greedyVars
<1>1. CASE Request
  <2>1. prompt' \in Prompts /\ out' = <<>> /\ open' = (MaxTokens > 0)
    BY <1>1 DEF Request
  <2>2. QED
    BY <2>1 DEF Greedy!GreedyNext, Greedy!Begin
<1>2. CASE Draft \/ Verify
  BY <1>2 DEF Draft, Verify, request, Greedy!greedyVars
<1>3. CASE EmitStop
  <2>1. pc = "emit" /\ open /\ Head(tokens) \in Stop /\ open' = FALSE /\ UNCHANGED <<prompt, out>>
    BY <1>3 DEF EmitStop
  <2>2. Head(tokens) = Target(prompt \o out)
    BY <2>1, NextIsGreedy
  <2>3. QED
    BY <2>1, <2>2 DEF Greedy!GreedyNext, Greedy!StopToken, Greedy!Next1
<1>4. CASE Emit
  <2>1. pc = "emit" /\ open /\ Head(tokens) \notin Stop /\ out' = Append(out, Head(tokens))
        /\ open' = ~AtLimit /\ prompt' = prompt
    BY <1>4 DEF Emit
  <2>2. Head(tokens) = Target(prompt \o out) /\ Head(tokens) \in Token
    BY <2>1, NextIsGreedy
  <2>3. Len(out') = Len(out) + 1 /\ Len(out) \in Nat
    BY <2>1, <2>2, AppendProperties, LenProperties DEF SpecInv, Types
  <2>4. AtLimit <=> ~(Len(out') < MaxTokens)
    BY <2>3, KAssumption DEF AtLimit
  <2>5. open' = (Len(out') < MaxTokens)
    <3>1. CASE AtLimit
      <4>1. open' = FALSE
        BY <2>1, <3>1, Zenon
      <4>2. (Len(out') < MaxTokens) = FALSE
        BY <2>4, <3>1, SMT
      <4>3. QED
        BY <4>1, <4>2, Zenon
    <3>2. CASE ~AtLimit
      <4>1. open' = TRUE
        BY <2>1, <3>2, Zenon
      <4>2. (Len(out') < MaxTokens) = TRUE
        BY <2>4, <3>2, SMT
      <4>3. QED
        BY <4>1, <4>2, Zenon
    <3>3. QED
      BY <3>1, <3>2
  <2>6. QED
    BY <2>1, <2>2, <2>5 DEF Greedy!GreedyNext, Greedy!Yield, Greedy!Next1
<1>5. QED
  BY <1>1, <1>2, <1>3, <1>4

\* The next token is picked after all of the text, when the engine is the target.
LEMMA PickedIsGreedy ==
  ASSUME EngineIsTarget, OwnInv, ownPc = "pick"
  PROVE  Picked = Target(prompt \o out) /\ open
<1>1. open /\ keys = prompt \o out /\ Len(seen) >= 1 /\ keys \in Seq(Token)
  BY DEF OwnInv
<1>2. LastOf(seen) = View(keys) /\ keys # <<>>
  BY <1>1, LastIsWhole
<1>3. QED
  BY <1>1, <1>2 DEF Picked, EngineIsTarget

\* RefinesGreedy for any models, any drafts and any lengths, and for an engine that
\* is a function of what its positions are computed from: speculative decoding is
\* lossless, and so are the caches of the engine that owns its forward pass.
THEOREM SpeculationIsLossless ==
  ASSUME ModelsGiveTokens, "qwen4_exp" \in Engines => EngineIsTarget
  PROVE  GenerationSpec => RefinesGreedy
<1>1. GenerationInit => Greedy!GreedyInit
  BY DEF GenerationInit, SpecInit, Greedy!GreedyInit
<1>2. "qwen4_exp" \in Engines => EngineGivesTokens
  BY DEF EngineIsTarget, EngineGivesTokens, ModelsGiveTokens
<1>3. ASSUME DraftSide, OwnSide, [GenerationNext]_generationVars PROVE [Greedy!GreedyNext]_Greedy!greedyVars
  <2>1. engine \in {"qwen", "qwen4_exp"}
    BY <1>3, EnginesAssumption DEF DraftSide
  <2>2. CASE UNCHANGED generationVars
    BY <2>2 DEF generationVars, specVars, request, Greedy!greedyVars
  <2>3. CASE GenerationNext /\ engine = "qwen"
    <3>1. SpecInv
      BY <1>3, <2>3 DEF DraftSide
    <3>2. Request \/ Draft \/ Verify \/ EmitStop \/ Emit
      BY <2>3 DEF GenerationNext, Post
    <3>3. QED
      BY <3>1, <3>2, RoundsAreGreedy
  <2>4. CASE GenerationNext /\ engine = "qwen4_exp"
    <3>1. OwnInv /\ EngineIsTarget
      BY <1>3, <2>4 DEF OwnSide
    <3>2. CASE OwnRequest
      BY <3>2 DEF OwnRequest, Greedy!GreedyNext, Greedy!Begin
    <3>3. CASE OwnStop
      <4>1. ownPc = "pick" /\ Picked \in Stop /\ open' = FALSE /\ UNCHANGED <<prompt, out>>
        BY <3>3 DEF OwnStop
      <4>2. Picked = Target(prompt \o out) /\ open
        BY <3>1, <4>1, PickedIsGreedy
      <4>3. QED
        BY <4>1, <4>2 DEF Greedy!GreedyNext, Greedy!StopToken, Greedy!Next1
    <3>4. CASE OwnYield
      <4>1. /\ ownPc = "pick" /\ Picked \notin Stop /\ out' = Append(out, Picked)
            /\ open' = (Len(out') < MaxTokens) /\ prompt' = prompt
        BY <3>4 DEF OwnYield
      <4>2. Picked = Target(prompt \o out) /\ open
        BY <3>1, <4>1, PickedIsGreedy
      <4>3. QED
        BY <4>1, <4>2 DEF Greedy!GreedyNext, Greedy!Yield, Greedy!Next1
    <3>5. CASE OwnFeed
      BY <3>5 DEF OwnFeed, request, Greedy!greedyVars
    <3>6. OwnRequest \/ OwnStop \/ OwnYield \/ OwnFeed
      BY <2>4 DEF GenerationNext, Post
    <3>7. QED
      BY <3>2, <3>3, <3>4, <3>5, <3>6
  <2>5. QED
    BY <1>3, <2>1, <2>2, <2>3, <2>4
<1>4. QED
  BY <1>1, <1>2, <1>3, SpecInvariant, EngineInvariant, PTL DEF GenerationSpec, RefinesGreedy, Greedy!GreedySpec
=============================================================================
