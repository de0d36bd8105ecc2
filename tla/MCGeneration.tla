---------------------------- MODULE MCGeneration ----------------------------
(* Three tokens, 2 the end of a text.  The target's answer depends on all a *)
(* position is computed from; the draft model and the DFlash head agree     *)
(* with it on some contexts only.  Blocks of two positions, of which a      *)
(* query keeps one; n-grams of two and three tokens with a head each; three *)
(* experts, of which a position is routed to two.                           *)
EXTENDS Generation

Mixed(c, w) ==
  LET mix[n \in Nat] == IF n = 0 THEN 0 ELSE (w * mix[n - 1] + c[n] + 2) % 11
  IN  mix[Len(c)]

MCMix(ngram) == Mixed(ngram, 3)
MCScore(query, b, block) == (3 * Mixed(block, 2) + query + 5 * b) % 7

MCGate(x, e) == (2 * x + 3 * e + 1) % 4

Answer(view, text) ==
  LET rows == view.rows[1][2] + view.rows[2][2] + view.rows[2][1]
      far == Cardinality({t \in view.attended : (t[1] + t[2]) % 2 = 0})
      used == Cardinality({p \in view.experts : p[2] = 0})
      sum == (Mixed(text, 2) + rows + far + used + view.ple[1] + view.gdn[1][1]) % 9
  IN  IF sum = 8 THEN 2 ELSE sum % 2

\* Bound by a set so that TLC evaluates the view once.
MCPredict(view) == CHOOSE t \in {Answer(v, v.gdn[2]) : v \in {view}} : TRUE

MCTarget(c) == MCPredict(View(c))
MCDraftModel(c) == IF Len(c) % 3 = 0 THEN (Mixed(c, 3) + 1) % 2 ELSE MCTarget(c)
MCDFlashHead(states, t) ==
  LET first == MCTarget(Append(states, t))
  IN  <<first, (first + Len(states)) % 2, t, first>>

MCGuesses == {<<0>>, <<1>>, <<0, 1>>, <<1, 0>>, <<0, 0>>, <<1, 1>>}
MCPrompts == {<<t>> : t \in Token} \cup {<<s, t>> : s, t \in Token} \cup
             {<<0, 1, 0>>, <<1, 2, 0, 0, 1>>, <<0, 1, 1, 0, 1, 1>>}
=============================================================================
