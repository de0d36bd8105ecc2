---------------------------- MODULE OrderedDict ----------------------------
(***************************************************************************)
(* Python's collections.OrderedDict as the code under src/ uses it: a      *)
(* dictionary that remembers an order of its keys.  It is the sequence of  *)
(* its items, oldest first, and no key occurs twice.                       *)
(***************************************************************************)
EXTENDS Naturals, Sequences

Item(k, v) == [key |-> k, val |-> v]

HasKey(d, k) == \E i \in DOMAIN d : d[i].key = k

Keys(d) == {d[i].key : i \in DOMAIN d}

IndexOf(d, k) == CHOOSE i \in DOMAIN d : d[i].key = k

\* d[k]
ValueAt(d, k) == d[IndexOf(d, k)].val

\* The items of d without the one at position n, the others in their order.
Remaining(d, n) == [i \in 1 .. Len(d) - 1 |-> IF i < n THEN d[i] ELSE d[i + 1]]

\* d.pop(k), for a key that is there
Delete(d, k) == Remaining(d, IndexOf(d, k))

\* d[k] = v for a key that is not there: the new item is the youngest
Append1(d, k, v) == Append(d, Item(k, v))

\* d.move_to_end(k); d[k] = v
Refresh(d, k, v) == Append1(Delete(d, k), k, v)

\* d[k] = v; d.move_to_end(k)
Assign(d, k, v) == IF HasKey(d, k) THEN Refresh(d, k, v) ELSE Append1(d, k, v)

\* d.popitem(last=False), the rest
PopOldest(d) == Tail(d)

\* A dictionary as a set of <<key, value>> pairs, and its order as the pairs of
\* keys <<k, m>> with k older than m.
Pairs(d) == {<<d[i].key, d[i].val>> : i \in DOMAIN d}

Older(d) ==
  {p \in Keys(d) \X Keys(d) :
     \E i, j \in DOMAIN d : i < j /\ d[i].key = p[1] /\ d[j].key = p[2]}

UniqueKeys(d) == \A i, j \in DOMAIN d : d[i].key = d[j].key => i = j
=============================================================================
