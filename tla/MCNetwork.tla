------------------------------ MODULE MCNetwork ------------------------------
(* Three machines and three experts of one layer; and two machines that     *)
(* join under other names than those they give as --me.                     *)
EXTENDS Network, TLC

CONSTANTS a, b, c, aJoined, bJoined

Digests(x, y, z) == 0 :> x @@ 1 :> y @@ 2 :> z

\* With all three there, a owns expert 2, b owns 1 and c owns 0.
MCThree == a :> Digests(1, 2, 5) @@ b :> Digests(3, 4, 2) @@ c :> Digests(4, 1, 1)
MCSelf == a :> a @@ b :> b @@ c :> c

MCTwoNames ==
  a :> Digests(1, 4, 5) @@ b :> Digests(4, 2, 2) @@ aJoined :> Digests(3, 1, 1) @@ bJoined :> Digests(2, 3, 3)
MCOtherNames == a :> aJoined @@ b :> bJoined

MCStatic == {{a, b}}
MCSlices == {{0, 1}}
MCHashed == {<<0, 0>>, <<0, 1>>}
MCRevised == {<<0, 1>>}
=============================================================================
