----------------------- MODULE LRUExpertCache_proofs -----------------------
(***************************************************************************)
(* The cache of experts stays consistent and evicts like a true LRU cache, *)
(* for any layers, experts, values and max_experts.  The first part says   *)
(* what the operations of OrderedDict do to the keys, the items and the    *)
(* order of a dictionary, for dictionaries of any length.                  *)
(***************************************************************************)
EXTENDS LRUExpertCache, FiniteSetTheorems, FunctionTheorems, SequenceTheorems, TLAPS

-----------------------------------------------------------------------------
(* Dictionaries.                                                           *)

\* The dictionaries with keys in K and values in V.
Dicts(K, V) == {d \in Seq([key : K, val : V]) : UniqueKeys(d)}

\* A dictionary is a sequence of items: its length, its domain, its elements.
LEMMA DictShape ==
  ASSUME NEW K, NEW V, NEW d \in Dicts(K, V)
  PROVE  /\ d \in Seq([key : K, val : V])
         /\ UniqueKeys(d)
         /\ Len(d) \in Nat
         /\ DOMAIN d = 1 .. Len(d)
         /\ \A i \in 1 .. Len(d) : d[i] \in [key : K, val : V]
<1>1. d \in Seq([key : K, val : V]) /\ UniqueKeys(d)
  BY DEF Dicts
<1>2. /\ Len(d) \in Nat
      /\ DOMAIN d = 1 .. Len(d)
      /\ \A i \in 1 .. Len(d) : d[i] \in [key : K, val : V]
  <2>1. d \in Seq([key : K, val : V])
    BY <1>1
  <2>2. QED
    BY <2>1, LenProperties, ElementOfSeq, Zenon
<1>3. QED
  BY <1>1, <1>2, Zenon

\* The empty dictionary has no keys.
LEMMA EmptyDict ==
  ASSUME NEW K, NEW V
  PROVE  <<>> \in Dicts(K, V) /\ Keys(<<>>) = {}
BY DEF Dicts, UniqueKeys, Keys

\* HasKey and Keys say the same.
LEMMA KeysHasKey ==
  ASSUME NEW d, NEW k
  PROVE  k \in Keys(d) <=> HasKey(d, k)
BY DEF Keys, HasKey

\* The keys of a dictionary have the type of its keys.
LEMMA KeysType ==
  ASSUME NEW K, NEW V, NEW d \in Dicts(K, V)
  PROVE  Keys(d) \subseteq K
<1>1. ASSUME NEW i \in 1 .. Len(d) PROVE d[i].key \in K
  <2>1. d[i] \in [key : K, val : V]
    BY DictShape
  <2>2. QED
    BY <2>1
<1>2. QED
  BY <1>1, DictShape DEF Keys

\* IndexOf finds a key that is there.
LEMMA IndexOfKey ==
  ASSUME NEW d, NEW k, HasKey(d, k)
  PROVE  IndexOf(d, k) \in DOMAIN d /\ d[IndexOf(d, k)].key = k
BY DEF HasKey, IndexOf

\* Taking out the item at n leaves the others, in their order.
LEMMA RemainingItems ==
  ASSUME NEW S, NEW d \in Seq(S), NEW n \in 1 .. Len(d)
  PROVE  /\ Remaining(d, n) \in Seq(S)
         /\ Len(Remaining(d, n)) = Len(d) - 1
         /\ \A i \in 1 .. Len(d) - 1 : Remaining(d, n)[i] = IF i < n THEN d[i] ELSE d[i + 1]
BY DEF Remaining

\* The oldest item is the one at position 1.
LEMMA PopOldestIsRemaining ==
  ASSUME NEW S, NEW d \in Seq(S), d # <<>>
  PROVE  PopOldest(d) = Remaining(d, 1)
<1>1. /\ Tail(d) \in Seq(S)
      /\ Len(Tail(d)) = Len(d) - 1
      /\ \A i \in 1 .. Len(Tail(d)) : Tail(d)[i] = d[i + 1]
  BY HeadTailProperties
<1>2. /\ Remaining(d, 1) \in Seq(S)
      /\ Len(Remaining(d, 1)) = Len(d) - 1
      /\ \A i \in 1 .. Len(d) - 1 : Remaining(d, 1)[i] = d[i + 1]
  <2>1. 1 \in 1 .. Len(d)
    BY EmptySeq
  <2>2. QED
    BY <2>1, RemainingItems
<1>3. Tail(d) = Remaining(d, 1)
  BY <1>1, <1>2, SeqEqual
<1>4. QED
  BY <1>3 DEF PopOldest


\* Taking out an item takes out its key and leaves the keys unique.
LEMMA RemainingKeys ==
  ASSUME NEW K, NEW V, NEW d \in Dicts(K, V), NEW n \in 1 .. Len(d)
  PROVE  /\ Remaining(d, n) \in Dicts(K, V)
         /\ Keys(Remaining(d, n)) = Keys(d) \ {d[n].key}
<1> DEFINE e == Remaining(d, n)
<1>1. /\ d \in Seq([key : K, val : V])
      /\ UniqueKeys(d)
      /\ DOMAIN d = 1 .. Len(d)
      /\ Len(d) \in Nat
  BY DictShape
<1>2. /\ e \in Seq([key : K, val : V])
      /\ Len(e) = Len(d) - 1
      /\ \A i \in 1 .. Len(d) - 1 : e[i] = IF i < n THEN d[i] ELSE d[i + 1]
  BY <1>1, RemainingItems
<1>3. DOMAIN e = 1 .. Len(d) - 1
  BY <1>2
<1> HIDE DEF e
<1>4. UniqueKeys(e)
  <2>1. SUFFICES ASSUME NEW i \in 1 .. Len(d) - 1, NEW j \in 1 .. Len(d) - 1, e[i].key = e[j].key
                 PROVE  i = j
    BY <1>3 DEF UniqueKeys
  <2>2. PICK a \in 1 .. Len(d) : e[i] = d[a] /\ a = IF i < n THEN i ELSE i + 1
    BY <1>1, <1>2
  <2>3. PICK b \in 1 .. Len(d) : e[j] = d[b] /\ b = IF j < n THEN j ELSE j + 1
    BY <1>1, <1>2
  <2>4. a = b
    BY <1>1, <2>1, <2>2, <2>3 DEF UniqueKeys
  <2>5. QED
    BY <2>2, <2>3, <2>4, <1>1
<1>5. ASSUME NEW i \in 1 .. Len(d) - 1
      PROVE  e[i].key \in Keys(d) /\ e[i].key # d[n].key
  BY <1>1, <1>2 DEF Keys, UniqueKeys
<1>6. ASSUME NEW j \in 1 .. Len(d), d[j].key # d[n].key
      PROVE  \E i \in 1 .. Len(d) - 1 : e[i].key = d[j].key
  <2>1. CASE j < n
    BY <1>1, <1>2, <2>1
  <2>2. CASE j > n
    <3>1. j - 1 \in 1 .. Len(d) - 1 /\ e[j - 1] = d[j]
      BY <1>1, <1>2, <2>2
    <3>2. QED
      BY <3>1
  <2>3. QED
    BY <1>1, <1>6, <2>1, <2>2
<1>7. Keys(e) = Keys(d) \ {d[n].key}
  <2>1. ASSUME NEW x \in Keys(e) PROVE x \in Keys(d) \ {d[n].key}
    BY <1>3, <1>5 DEF Keys
  <2>2. ASSUME NEW x \in Keys(d) \ {d[n].key} PROVE x \in Keys(e)
    BY <1>1, <1>3, <1>6 DEF Keys
  <2>3. QED
    BY <2>1, <2>2
<1>8. QED
  BY <1>2, <1>4, <1>7 DEF Dicts, e

\* d.pop(k) takes out the key k.
LEMMA DeleteKeys ==
  ASSUME NEW K, NEW V, NEW d \in Dicts(K, V), NEW k, HasKey(d, k)
  PROVE  /\ Delete(d, k) \in Dicts(K, V)
         /\ Keys(Delete(d, k)) = Keys(d) \ {k}
         /\ Len(Delete(d, k)) = Len(d) - 1
<1>1. IndexOf(d, k) \in 1 .. Len(d) /\ d[IndexOf(d, k)].key = k
  BY IndexOfKey, DictShape
<1>2. d \in Seq([key : K, val : V])
  BY DictShape
<1>3. QED
  BY <1>1, <1>2, RemainingKeys, RemainingItems DEF Delete

\* A new key comes in as the youngest.
LEMMA Append1Keys ==
  ASSUME NEW K, NEW V, NEW d \in Dicts(K, V), NEW k \in K, NEW v \in V, ~HasKey(d, k)
  PROVE  /\ Append1(d, k, v) \in Dicts(K, V)
         /\ Keys(Append1(d, k, v)) = Keys(d) \cup {k}
         /\ Len(Append1(d, k, v)) = Len(d) + 1
<1> DEFINE e == Append1(d, k, v)
<1>1. /\ d \in Seq([key : K, val : V])
      /\ UniqueKeys(d)
      /\ DOMAIN d = 1 .. Len(d)
      /\ Len(d) \in Nat
  BY DictShape
<1>2. /\ e \in Seq([key : K, val : V])
      /\ Len(e) = Len(d) + 1
      /\ \A i \in 1 .. Len(d) : e[i] = d[i]
      /\ e[Len(d) + 1].key = k
  BY <1>1 DEF Append1, Item
<1>3. DOMAIN e = 1 .. Len(d) + 1
  BY <1>1, <1>2
<1> HIDE DEF e
<1>4. \A i \in 1 .. Len(d) : d[i].key # k
  BY <1>1 DEF HasKey
<1>5. UniqueKeys(e)
  BY <1>1, <1>2, <1>3, <1>4 DEF UniqueKeys
<1>6. Keys(e) = Keys(d) \cup {k}
  <2>1. ASSUME NEW i \in 1 .. Len(d) + 1 PROVE e[i].key \in Keys(d) \cup {k}
    BY <1>1, <1>2 DEF Keys
  <2>2. ASSUME NEW i \in 1 .. Len(d) PROVE d[i].key \in Keys(e)
    BY <1>1, <1>2, <1>3 DEF Keys
  <2>3. k \in Keys(e)
    BY <1>1, <1>2, <1>3 DEF Keys
  <2>4. QED
    BY <1>1, <1>3, <2>1, <2>2, <2>3 DEF Keys
<1>7. QED
  BY <1>2, <1>5, <1>6 DEF Dicts, e

\* move_to_end keeps the keys and the length.
LEMMA RefreshKeys ==
  ASSUME NEW K, NEW V, NEW d \in Dicts(K, V), NEW k \in K, NEW v \in V, HasKey(d, k)
  PROVE  /\ Refresh(d, k, v) \in Dicts(K, V)
         /\ Keys(Refresh(d, k, v)) = Keys(d)
         /\ Len(Refresh(d, k, v)) = Len(d)
<1>1. /\ Delete(d, k) \in Dicts(K, V)
      /\ Keys(Delete(d, k)) = Keys(d) \ {k}
      /\ Len(Delete(d, k)) = Len(d) - 1
  BY DeleteKeys
<1>2. ~HasKey(Delete(d, k), k)
  BY <1>1, KeysHasKey
<1>3. k \in Keys(d) /\ Len(d) \in Nat
  BY KeysHasKey, DictShape
<1>4. /\ Append1(Delete(d, k), k, v) \in Dicts(K, V)
      /\ Keys(Append1(Delete(d, k), k, v)) = Keys(Delete(d, k)) \cup {k}
      /\ Len(Append1(Delete(d, k), k, v)) = Len(Delete(d, k)) + 1
  BY <1>1, <1>2, Append1Keys
<1>5. QED
  BY <1>1, <1>3, <1>4 DEF Refresh

\* A value that is there has the type of the values.
LEMMA ValueAtType ==
  ASSUME NEW K, NEW V, NEW d \in Dicts(K, V), NEW k, HasKey(d, k)
  PROVE  ValueAt(d, k) \in V
BY IndexOfKey, DictShape DEF ValueAt

\* popitem(last=False) takes out the key of the oldest item.
LEMMA PopOldestKeys ==
  ASSUME NEW K, NEW V, NEW d \in Dicts(K, V), Len(d) > 0
  PROVE  /\ d[1].key \in Keys(d)
         /\ PopOldest(d) \in Dicts(K, V)
         /\ Keys(PopOldest(d)) = Keys(d) \ {d[1].key}
         /\ Len(PopOldest(d)) = Len(d) - 1
<1>1. d \in Seq([key : K, val : V]) /\ 1 \in 1 .. Len(d) /\ DOMAIN d = 1 .. Len(d) /\ d # <<>>
  BY DictShape
<1>2. PopOldest(d) = Remaining(d, 1)
  BY <1>1, PopOldestIsRemaining
<1>3. d[1].key \in Keys(d)
  BY <1>1 DEF Keys
<1>4. Remaining(d, 1) \in Dicts(K, V) /\ Keys(Remaining(d, 1)) = Keys(d) \ {d[1].key}
  BY <1>1, RemainingKeys
<1>5. Len(Remaining(d, 1)) = Len(d) - 1
  BY <1>1, RemainingItems
<1>6. QED
  BY <1>2, <1>3, <1>4, <1>5

-----------------------------------------------------------------------------
(* Pairs and order.                                                        *)

\* The first components of the pairs are the keys.
LEMMA KeysOfPairs ==
  ASSUME NEW d
  PROVE  Keys(d) = {x[1] : x \in Pairs(d)}
<1>1. ASSUME NEW k \in Keys(d) PROVE k \in {x[1] : x \in Pairs(d)}
  <2>1. PICK i \in DOMAIN d : d[i].key = k
    BY DEF Keys
  <2>2. <<d[i].key, d[i].val>> \in Pairs(d)
    BY DEF Pairs
  <2>3. <<d[i].key, d[i].val>>[1] = k
    BY <2>1
  <2>4. QED
    BY <2>2, <2>3
<1>2. ASSUME NEW x \in Pairs(d) PROVE x[1] \in Keys(d)
  BY DEF Keys, Pairs
<1>3. QED
  BY <1>1, <1>2

\* A dictionary has as many items as keys.
LEMMA KeysCardinality ==
  ASSUME NEW K, NEW V, NEW d \in Dicts(K, V)
  PROVE  IsFiniteSet(Keys(d)) /\ Cardinality(Keys(d)) = Len(d)
<1> DEFINE f == [i \in 1 .. Len(d) |-> d[i].key]
<1>1. Len(d) \in Nat /\ DOMAIN d = 1 .. Len(d) /\ UniqueKeys(d)
  BY DictShape
<1>2. f \in Surjection(1 .. Len(d), Keys(d))
  BY <1>1 DEF Surjection, Keys
<1>3. f \in Injection(1 .. Len(d), Keys(d))
  BY <1>1, <1>2 DEF Injection, Surjection, UniqueKeys, IsInjective
<1>4. IsFiniteSet(1 .. Len(d)) /\ Cardinality(1 .. Len(d)) = Len(d)
  <2>1. IsFiniteSet(1 .. Len(d))
    BY <1>1, FS_Interval
  <2>2. Cardinality(1 .. Len(d)) = IF 1 > Len(d) THEN 0 ELSE Len(d) - 1 + 1
    BY <1>1, FS_Interval
  <2>3. Cardinality(1 .. Len(d)) = Len(d)
    BY <1>1, <2>2
  <2>4. QED
    BY <2>1, <2>3
<1> HIDE DEF f
<1>5. QED
  BY <1>2, <1>3, <1>4, FS_Surjection

\* Taking out an item takes out its pair and its place in the order.
LEMMA RemainingOrder ==
  ASSUME NEW K, NEW V, NEW d \in Dicts(K, V), NEW n \in 1 .. Len(d)
  PROVE  /\ Pairs(Remaining(d, n)) = {x \in Pairs(d) : x[1] # d[n].key}
         /\ Older(Remaining(d, n)) = {p \in Older(d) : p[1] # d[n].key /\ p[2] # d[n].key}
<1> DEFINE e == Remaining(d, n)
           at(i) == IF i < n THEN i ELSE i + 1
<1>1. d \in Seq([key : K, val : V]) /\ UniqueKeys(d) /\ DOMAIN d = 1 .. Len(d) /\ Len(d) \in Nat
  BY DictShape
<1>2. /\ e \in Seq([key : K, val : V])
      /\ Len(e) = Len(d) - 1
      /\ \A i \in 1 .. Len(d) - 1 : e[i] = d[at(i)]
  BY <1>1, RemainingItems
<1>3. DOMAIN e = 1 .. Len(d) - 1
  BY <1>1, <1>2
<1>4. Keys(e) = Keys(d) \ {d[n].key}
  BY RemainingKeys
<1> HIDE DEF e
<1>5. \A i \in 1 .. Len(d) - 1 : at(i) \in 1 .. Len(d) /\ d[at(i)].key # d[n].key
  BY <1>1 DEF UniqueKeys
<1>6. ASSUME NEW j \in 1 .. Len(d), d[j].key # d[n].key
      PROVE  \E i \in 1 .. Len(d) - 1 : at(i) = j
  <2>1. CASE j < n
    BY <1>1, <2>1
  <2>2. CASE j > n
    <3>1. j - 1 \in 1 .. Len(d) - 1 /\ at(j - 1) = j
      BY <1>1, <2>2
    <3>2. QED
      BY <3>1
  <2>3. QED
    BY <1>1, <1>6, <2>1, <2>2
<1>7. \A i, j \in 1 .. Len(d) - 1 : i < j <=> at(i) < at(j)
  BY <1>1
<1> HIDE DEF at
<1>8. Pairs(e) = {x \in Pairs(d) : x[1] # d[n].key}
  <2>1. ASSUME NEW x \in Pairs(e) PROVE x \in Pairs(d) /\ x[1] # d[n].key
    BY <1>1, <1>2, <1>3, <1>5 DEF Pairs
  <2>2. ASSUME NEW x \in Pairs(d), x[1] # d[n].key PROVE x \in Pairs(e)
    <3>1. PICK j \in 1 .. Len(d) : x = <<d[j].key, d[j].val>>
      BY <1>1 DEF Pairs
    <3>2. PICK i \in 1 .. Len(d) - 1 : at(i) = j
      BY <1>6, <2>2, <3>1
    <3>3. e[i] = d[j]
      BY <1>2, <3>2
    <3>4. QED
      BY <1>3, <3>1, <3>3 DEF Pairs
  <2>3. QED
    BY <2>1, <2>2
<1>9. Older(e) = {p \in Older(d) : p[1] # d[n].key /\ p[2] # d[n].key}
  <2>1. ASSUME NEW p \in Older(e)
        PROVE  p \in Older(d) /\ p[1] # d[n].key /\ p[2] # d[n].key
    <3>1. /\ p \in Keys(e) \X Keys(e)
          /\ \E i, j \in 1 .. Len(d) - 1 : i < j /\ e[i].key = p[1] /\ e[j].key = p[2]
      BY <1>3 DEF Older
    <3>2. PICK i \in 1 .. Len(d) - 1, j \in 1 .. Len(d) - 1 : i < j /\ e[i].key = p[1] /\ e[j].key = p[2]
      BY <3>1
    <3>3. /\ at(i) \in 1 .. Len(d) /\ at(j) \in 1 .. Len(d) /\ at(i) < at(j)
          /\ d[at(i)].key = p[1] /\ d[at(j)].key = p[2]
      BY <1>2, <1>5, <1>7, <3>2
    <3>4. QED
      BY <1>1, <1>4, <3>1, <3>3 DEF Older
  <2>2. ASSUME NEW p \in Older(d), p[1] # d[n].key, p[2] # d[n].key
        PROVE  p \in Older(e)
    <3>1. p \in Keys(d) \X Keys(d)
      BY DEF Older
    <3>2. PICK i \in 1 .. Len(d), j \in 1 .. Len(d) : i < j /\ d[i].key = p[1] /\ d[j].key = p[2]
      BY <1>1 DEF Older
    <3>3. PICK a \in 1 .. Len(d) - 1 : at(a) = i
      BY <1>6, <2>2, <3>2
    <3>4. PICK b \in 1 .. Len(d) - 1 : at(b) = j
      BY <1>6, <2>2, <3>2
    <3>5. a < b /\ e[a].key = p[1] /\ e[b].key = p[2]
      BY <1>2, <1>7, <3>2, <3>3, <3>4
    <3>6. QED
      BY <1>3, <1>4, <2>2, <3>1, <3>5 DEF Older
  <2>3. QED
    BY <2>1, <2>2
<1>10. QED
  BY <1>8, <1>9 DEF e

\* d.pop(k) takes out the pair of k and its place in the order.
LEMMA DeleteOrder ==
  ASSUME NEW K, NEW V, NEW d \in Dicts(K, V), NEW k, HasKey(d, k)
  PROVE  /\ Pairs(Delete(d, k)) = {x \in Pairs(d) : x[1] # k}
         /\ Older(Delete(d, k)) = {p \in Older(d) : p[1] # k /\ p[2] # k}
<1>1. IndexOf(d, k) \in 1 .. Len(d) /\ d[IndexOf(d, k)].key = k
  BY IndexOfKey, DictShape
<1>2. QED
  BY <1>1, RemainingOrder DEF Delete

\* A new key is younger than all others.
LEMMA Append1Order ==
  ASSUME NEW K, NEW V, NEW d \in Dicts(K, V), NEW k \in K, NEW v \in V, ~HasKey(d, k)
  PROVE  /\ Pairs(Append1(d, k, v)) = Pairs(d) \cup {<<k, v>>}
         /\ Older(Append1(d, k, v)) = Older(d) \cup (Keys(d) \X {k})
<1> DEFINE e == Append1(d, k, v)
<1>1. d \in Seq([key : K, val : V]) /\ DOMAIN d = 1 .. Len(d) /\ Len(d) \in Nat
  BY DictShape
<1>2. /\ e \in Seq([key : K, val : V])
      /\ Len(e) = Len(d) + 1
      /\ \A i \in 1 .. Len(d) : e[i] = d[i]
      /\ e[Len(d) + 1].key = k
      /\ e[Len(d) + 1].val = v
  BY <1>1 DEF Append1, Item
<1>3. DOMAIN e = 1 .. Len(d) + 1
  BY <1>1, <1>2
<1>4. Keys(e) = Keys(d) \cup {k}
  BY Append1Keys
<1>5. k \notin Keys(d)
  BY KeysHasKey
<1> HIDE DEF e
<1>6. Pairs(e) = Pairs(d) \cup {<<k, v>>}
  <2>1. ASSUME NEW i \in 1 .. Len(d) + 1
        PROVE  <<e[i].key, e[i].val>> \in Pairs(d) \cup {<<k, v>>}
    BY <1>1, <1>2 DEF Pairs
  <2>2. ASSUME NEW i \in 1 .. Len(d)
        PROVE  <<d[i].key, d[i].val>> \in Pairs(e)
    BY <1>1, <1>2, <1>3 DEF Pairs
  <2>3. <<k, v>> \in Pairs(e)
    BY <1>1, <1>2, <1>3 DEF Pairs
  <2>4. QED
    BY <1>1, <1>3, <2>1, <2>2, <2>3 DEF Pairs
<1>7. Older(e) = Older(d) \cup (Keys(d) \X {k})
  <2>1. ASSUME NEW p \in Older(e) PROVE p \in Older(d) \cup (Keys(d) \X {k})
    <3>1. PICK i \in 1 .. Len(d) + 1, j \in 1 .. Len(d) + 1 : i < j /\ e[i].key = p[1] /\ e[j].key = p[2]
      BY <1>3 DEF Older
    <3>2. p = <<p[1], p[2]>>
      BY DEF Older
    <3>3. i \in 1 .. Len(d) /\ d[i].key = p[1] /\ p[1] \in Keys(d)
      BY <1>1, <1>2, <3>1 DEF Keys
    <3>4. CASE j = Len(d) + 1
      BY <1>2, <3>1, <3>2, <3>3, <3>4
    <3>5. CASE j \in 1 .. Len(d)
      <4>1. d[j].key = p[2] /\ p[2] \in Keys(d)
        BY <1>1, <1>2, <3>1, <3>5 DEF Keys
      <4>2. p \in Keys(d) \X Keys(d)
        BY <3>2, <3>3, <4>1
      <4>3. QED
        BY <1>1, <3>1, <3>3, <3>5, <4>1, <4>2 DEF Older
    <3>6. QED
      BY <1>1, <3>1, <3>4, <3>5
  <2>2. ASSUME NEW p \in Older(d) PROVE p \in Older(e)
    <3>1. p \in Keys(e) \X Keys(e)
      BY <1>4 DEF Older
    <3>2. PICK i \in 1 .. Len(d), j \in 1 .. Len(d) : i < j /\ d[i].key = p[1] /\ d[j].key = p[2]
      BY <1>1 DEF Older
    <3>3. i \in DOMAIN e /\ j \in DOMAIN e /\ e[i].key = p[1] /\ e[j].key = p[2]
      BY <1>1, <1>2, <1>3, <3>2
    <3>4. QED
      BY <3>1, <3>2, <3>3 DEF Older
  <2>3. ASSUME NEW p \in Keys(d) \X {k} PROVE p \in Older(e)
    <3>1. p \in Keys(e) \X Keys(e) /\ p[2] = k /\ p[1] \in Keys(d)
      BY <1>4
    <3>2. PICK i \in 1 .. Len(d) : d[i].key = p[1]
      BY <1>1, <3>1 DEF Keys
    <3>3. /\ i \in DOMAIN e /\ Len(d) + 1 \in DOMAIN e /\ i < Len(d) + 1
          /\ e[i].key = p[1] /\ e[Len(d) + 1].key = p[2]
      BY <1>1, <1>2, <1>3, <3>1, <3>2
    <3>4. QED
      BY <3>1, <3>3 DEF Older
  <2>4. QED
    BY <2>1, <2>2, <2>3
<1>8. QED
  BY <1>6, <1>7 DEF e

\* The oldest key is older than every other.
LEMMA OldestIsOlder ==
  ASSUME NEW K, NEW V, NEW d \in Dicts(K, V), Len(d) > 0, NEW m \in Keys(d), m # d[1].key
  PROVE  <<d[1].key, m>> \in Older(d)
<1>1. DOMAIN d = 1 .. Len(d) /\ Len(d) \in Nat
  BY DictShape
<1>2. PICK j \in 1 .. Len(d) : d[j].key = m
  BY <1>1 DEF Keys
<1>3. 1 < j /\ 1 \in DOMAIN d /\ j \in DOMAIN d
  BY <1>1, <1>2
<1>4. d[1].key \in Keys(d)
  BY <1>3 DEF Keys
<1>5. QED
  BY <1>2, <1>3, <1>4 DEF Older

-----------------------------------------------------------------------------
(* The cache and its index.                                                *)

\* The inductive invariant: the type, the keys, and an index that names them.
LruInv ==
  /\ cache \in Dicts(Key, Values)
  /\ Len(cache) <= MaxExperts
  /\ byLayer \in [Layers -> SUBSET Experts]
  /\ \A l \in Layers, e \in Experts : e \in byLayer[l] <=> <<l, e>> \in Keys(cache)

\* A cached key is a layer and an expert.
LEMMA KeyParts ==
  ASSUME NEW k \in Key
  PROVE  k[1] \in Layers /\ k[2] \in Experts /\ k = <<k[1], k[2]>>
BY DEF Key

\* get keeps the keys, so it keeps the invariant.
LEMMA GetHitInv ==
  ASSUME LruInv, NEW k \in Key, GetHit(k)
  PROVE  LruInv'
<1>1. ValueAt(cache, k) \in Values
  BY ValueAtType DEF LruInv, GetHit
<1>2. /\ cache' \in Dicts(Key, Values)
      /\ Keys(cache') = Keys(cache)
      /\ Len(cache') = Len(cache)
  BY <1>1, RefreshKeys DEF LruInv, GetHit
<1>3. QED
  BY <1>2 DEF LruInv, GetHit

\* Each of the three cases of put keeps it.
LEMMA PutInv ==
  ASSUME LruInv, NEW k \in Key, NEW v \in Values, Put(k, v)
  PROVE  LruInv'
<1>1. CASE PutExisting(k, v)
  <2>1. /\ cache' \in Dicts(Key, Values)
        /\ Keys(cache') = Keys(cache)
        /\ Len(cache') = Len(cache)
    BY <1>1, RefreshKeys DEF LruInv, PutExisting
  <2>2. QED
    BY <1>1, <2>1 DEF LruInv, PutExisting
<1>2. CASE PutNew(k, v)
  <2>1. /\ cache' \in Dicts(Key, Values)
        /\ Keys(cache') = Keys(cache) \cup {k}
        /\ Len(cache') = Len(cache) + 1
    BY <1>2, Append1Keys DEF LruInv, PutNew
  <2>2. Len(cache') <= MaxExperts
    BY <1>2, <2>1, DictShape, MaxExpertsAssumption DEF LruInv, PutNew
  <2>3. byLayer' = [byLayer EXCEPT ![k[1]] = @ \cup {k[2]}]
    BY <1>2 DEF PutNew
  <2>4. byLayer' \in [Layers -> SUBSET Experts]
    BY <2>3, KeyParts DEF LruInv
  <2>5. ASSUME NEW l \in Layers, NEW e \in Experts
        PROVE  e \in byLayer'[l] <=> <<l, e>> \in Keys(cache')
    BY <2>1, <2>3, KeyParts DEF LruInv
  <2>6. QED
    BY <2>1, <2>2, <2>4, <2>5 DEF LruInv
<1>3. CASE PutEvicting(k, v)
  <2> DEFINE old == cache[1].key
             rest == PopOldest(cache)
  <2>1. Len(cache) \in Nat /\ Len(cache) = MaxExperts /\ Len(cache) > 0
    BY <1>3, DictShape, MaxExpertsAssumption DEF LruInv, PutEvicting
  <2>2. /\ old \in Keys(cache)
        /\ rest \in Dicts(Key, Values)
        /\ Keys(rest) = Keys(cache) \ {old}
        /\ Len(rest) = Len(cache) - 1
    BY <2>1, PopOldestKeys DEF LruInv
  <2>3. old \in Key
    BY <2>2, KeysType DEF LruInv
  <2>4. ~HasKey(rest, k)
    BY <1>3, <2>2, KeysHasKey DEF PutEvicting
  <2>5. cache' = Append1(rest, k, v)
    BY <1>3 DEF PutEvicting
  <2>6. byLayer' = [[byLayer EXCEPT ![old[1]] = @ \ {old[2]}] EXCEPT ![k[1]] = @ \cup {k[2]}]
    BY <1>3 DEF PutEvicting
  <2> HIDE DEF old, rest
  <2>7. /\ cache' \in Dicts(Key, Values)
        /\ Keys(cache') = Keys(rest) \cup {k}
        /\ Len(cache') = Len(rest) + 1
    BY <2>2, <2>4, <2>5, Append1Keys
  <2>8. Len(cache') <= MaxExperts
    BY <2>1, <2>2, <2>7
  <2>9. byLayer' \in [Layers -> SUBSET Experts]
    BY <2>3, <2>6, KeyParts DEF LruInv
  <2>10. ASSUME NEW l \in Layers, NEW e \in Experts
         PROVE  e \in byLayer'[l] <=> <<l, e>> \in Keys(cache')
    BY <2>2, <2>3, <2>6, <2>7, KeyParts DEF LruInv
  <2>11. QED
    BY <2>7, <2>8, <2>9, <2>10 DEF LruInv
<1>4. QED
  BY <1>1, <1>2, <1>3 DEF Put

\* A step of the cache keeps the invariant.
LEMMA LruInvStep ==
  ASSUME LruInv, [LruNext]_lruVars
  PROVE  LruInv'
<1>1. CASE LruNext
  BY <1>1, GetHitInv, PutInv DEF LruNext
<1>2. CASE UNCHANGED lruVars
  BY <1>2 DEF LruInv, lruVars
<1>3. QED
  BY <1>1, <1>2

\* The invariant is inductive.
THEOREM LruInvariant == LruSpec => []LruInv
<1>1. LruInit => LruInv
  BY EmptyDict, EmptySeq, MaxExpertsAssumption DEF LruInit, LruInv
<1>2. LruInv /\ [LruNext]_lruVars => LruInv'
  BY LruInvStep
<1>3. QED
  BY <1>1, <1>2, PTL DEF LruSpec

\* The cache and its index always have their types.
THEOREM LruTypeCorrect == LruSpec => []LruTypeOK
<1>1. LruInv => LruTypeOK
  BY DEF LruInv, LruTypeOK, Dicts
<1>2. QED
  BY <1>1, LruInvariant, PTL

\* Whatever gets and puts are called, the cache keeps to max_experts, holds no
\* key twice, and cached_ids names exactly the experts a get would find.
THEOREM LruConsistent == LruSpec => []CacheConsistent
<1>1. LruInv => CacheConsistent
  <2>1. SUFFICES ASSUME LruInv PROVE CacheConsistent
    OBVIOUS
  <2>2. Len(cache) <= MaxExperts
    BY <2>1 DEF LruInv
  <2>3. UniqueKeys(cache)
    BY <2>1 DEF LruInv, Dicts
  <2>4. ASSUME NEW l \in Layers
        PROVE  byLayer[l] = {e \in Experts : HasKey(cache, <<l, e>>)}
    BY <2>1, KeysHasKey DEF LruInv
  <2>5. QED
    BY <2>2, <2>3, <2>4 DEF CacheConsistent
<1>2. QED
  BY <1>1, LruInvariant, PTL

-----------------------------------------------------------------------------
(* What a get and a put do to the keys, the values and the order.          *)

\* The value of a key makes a pair with it.
LEMMA PairAt ==
  ASSUME NEW d, NEW k, HasKey(d, k)
  PROVE  <<k, ValueAt(d, k)>> \in Pairs(d)
BY IndexOfKey DEF ValueAt, Pairs

\* Moving a key to the end, with a value.
LEMMA RefreshOrder ==
  ASSUME NEW K, NEW V, NEW d \in Dicts(K, V), NEW k \in K, NEW v \in V, HasKey(d, k)
  PROVE  /\ Pairs(Refresh(d, k, v)) = {x \in Pairs(d) : x[1] # k} \cup {<<k, v>>}
         /\ Older(Refresh(d, k, v)) = {p \in Older(d) : p[1] # k /\ p[2] # k} \cup ((Keys(d) \ {k}) \X {k})
<1> DEFINE e == Delete(d, k)
<1>1. e \in Dicts(K, V) /\ Keys(e) = Keys(d) \ {k}
  BY DeleteKeys
<1>2. /\ Pairs(e) = {x \in Pairs(d) : x[1] # k}
      /\ Older(e) = {p \in Older(d) : p[1] # k /\ p[2] # k}
  BY DeleteOrder
<1>3. ~HasKey(e, k)
  BY <1>1, KeysHasKey
<1>4. Refresh(d, k, v) = Append1(e, k, v)
  BY DEF Refresh
<1> HIDE DEF e
<1>5. /\ Pairs(Append1(e, k, v)) = Pairs(e) \cup {<<k, v>>}
      /\ Older(Append1(e, k, v)) = Older(e) \cup (Keys(e) \X {k})
  BY <1>1, <1>3, Append1Order
<1>6. QED
  BY <1>1, <1>2, <1>4, <1>5

\* The oldest item of a dictionary that is not empty, taken out.
LEMMA PopOldestOrder ==
  ASSUME NEW K, NEW V, NEW d \in Dicts(K, V), Len(d) > 0
  PROVE  /\ Pairs(PopOldest(d)) = {x \in Pairs(d) : x[1] # d[1].key}
         /\ Older(PopOldest(d)) = {p \in Older(d) : p[1] # d[1].key /\ p[2] # d[1].key}
<1>1. d \in Seq([key : K, val : V]) /\ 1 \in 1 .. Len(d) /\ d # <<>>
  BY DictShape
<1>2. PopOldest(d) = Remaining(d, 1)
  BY <1>1, PopOldestIsRemaining
<1>3. QED
  BY <1>1, <1>2, RemainingOrder

\* A get that hits keeps every key with its value and makes its own the youngest.
LEMMA GetHitEffect ==
  ASSUME LruInv, NEW k \in Key, GetHit(k)
  PROVE  /\ Keys(cache') = Keys(cache)
         /\ Pairs(cache') \subseteq Pairs(cache)
         /\ Older(cache') = {p \in Older(cache) : p[1] # k /\ p[2] # k} \cup ((Keys(cache) \ {k}) \X {k})
<1>1. cache \in Dicts(Key, Values) /\ HasKey(cache, k) /\ cache' = Refresh(cache, k, ValueAt(cache, k))
  BY DEF LruInv, GetHit
<1>2. PICK v \in Values : v = ValueAt(cache, k)
  BY <1>1, ValueAtType
<1>3. Keys(Refresh(cache, k, v)) = Keys(cache)
  BY <1>1, RefreshKeys
<1>4. /\ Pairs(Refresh(cache, k, v)) = {x \in Pairs(cache) : x[1] # k} \cup {<<k, v>>}
      /\ Older(Refresh(cache, k, v)) = {p \in Older(cache) : p[1] # k /\ p[2] # k} \cup ((Keys(cache) \ {k}) \X {k})
  BY <1>1, RefreshOrder
<1>5. <<k, v>> \in Pairs(cache)
  BY <1>1, <1>2, PairAt
<1>6. QED
  BY <1>1, <1>2, <1>3, <1>4, <1>5

\* A put brings in its key with its value, as the youngest, and no other; the one
\* key it may take out is the oldest, and only when the cache is full.
LEMMA PutEffect ==
  ASSUME LruInv, NEW k \in Key, NEW v \in Values, Put(k, v)
  PROVE  /\ Pairs(cache') \subseteq Pairs(cache) \cup {<<k, v>>}
         /\ \E gone \in SUBSET Keys(cache) :
              /\ Keys(cache') = (Keys(cache) \ gone) \cup {k}
              /\ Older(cache') = {p \in Older(cache) : p[1] \notin gone \cup {k} /\ p[2] \notin gone \cup {k}}
                                  \cup ((Keys(cache) \ (gone \cup {k})) \X {k})
              /\ \/ gone = {}
                 \/ /\ gone = {cache[1].key} /\ k \notin Keys(cache)
                    /\ Len(cache) = MaxExperts /\ Len(cache) > 0
<1> DEFINE Left(gone) ==
             /\ Keys(cache') = (Keys(cache) \ gone) \cup {k}
             /\ Older(cache') = {p \in Older(cache) : p[1] \notin gone \cup {k} /\ p[2] \notin gone \cup {k}}
                                 \cup ((Keys(cache) \ (gone \cup {k})) \X {k})
             /\ \/ gone = {}
                \/ /\ gone = {cache[1].key} /\ k \notin Keys(cache)
                   /\ Len(cache) = MaxExperts /\ Len(cache) > 0
<1> SUFFICES Pairs(cache') \subseteq Pairs(cache) \cup {<<k, v>>} /\ \E gone \in SUBSET Keys(cache) : Left(gone)
  OBVIOUS
<1>1. cache \in Dicts(Key, Values) /\ Len(cache) \in Nat
  BY DictShape DEF LruInv
<1>2. Older(cache) \subseteq Keys(cache) \X Keys(cache)
  BY DEF Older
<1>3. CASE PutExisting(k, v)
  <2>1. HasKey(cache, k) /\ cache' = Refresh(cache, k, v)
    BY <1>3 DEF PutExisting
  <2>2. Keys(cache') = Keys(cache) /\ k \in Keys(cache)
    BY <1>1, <2>1, RefreshKeys, KeysHasKey
  <2>3. /\ Pairs(cache') = {x \in Pairs(cache) : x[1] # k} \cup {<<k, v>>}
        /\ Older(cache') = {p \in Older(cache) : p[1] # k /\ p[2] # k} \cup ((Keys(cache) \ {k}) \X {k})
    BY <1>1, <2>1, RefreshOrder
  <2>4. Left({})
    BY <2>2, <2>3
  <2>5. QED
    BY <2>3, <2>4
<1>4. CASE PutNew(k, v)
  <2>1. ~HasKey(cache, k) /\ cache' = Append1(cache, k, v)
    BY <1>4 DEF PutNew
  <2>2. Keys(cache') = Keys(cache) \cup {k} /\ k \notin Keys(cache)
    BY <1>1, <2>1, Append1Keys, KeysHasKey
  <2>3. /\ Pairs(cache') = Pairs(cache) \cup {<<k, v>>}
        /\ Older(cache') = Older(cache) \cup (Keys(cache) \X {k})
    BY <1>1, <2>1, Append1Order
  <2>4. Older(cache) = {p \in Older(cache) : p[1] \notin {} \cup {k} /\ p[2] \notin {} \cup {k}}
    BY <1>2, <2>2
  <2>5. Keys(cache) \ ({} \cup {k}) = Keys(cache)
    BY <2>2
  <2>6. Left({})
    BY <2>2, <2>3, <2>4, <2>5
  <2>7. QED
    BY <2>3, <2>6
<1>5. CASE PutEvicting(k, v)
  <2> DEFINE old == cache[1].key
             rest == PopOldest(cache)
  <2>1. ~HasKey(cache, k) /\ cache' = Append1(rest, k, v) /\ Len(cache) = MaxExperts /\ Len(cache) > 0
    BY <1>1, <1>5, MaxExpertsAssumption DEF PutEvicting, LruInv
  <2>2. old \in Keys(cache) /\ rest \in Dicts(Key, Values) /\ Keys(rest) = Keys(cache) \ {old}
    BY <1>1, <2>1, PopOldestKeys
  <2>3. /\ Pairs(rest) = {x \in Pairs(cache) : x[1] # old}
        /\ Older(rest) = {p \in Older(cache) : p[1] # old /\ p[2] # old}
    BY <1>1, <2>1, PopOldestOrder
  <2>4. k \notin Keys(cache) /\ ~HasKey(rest, k)
    BY <2>1, <2>2, KeysHasKey
  <2> HIDE DEF rest
  <2>5. /\ Pairs(cache') = Pairs(rest) \cup {<<k, v>>}
        /\ Older(cache') = Older(rest) \cup (Keys(rest) \X {k})
        /\ Keys(cache') = Keys(rest) \cup {k}
    BY <2>1, <2>2, <2>4, Append1Order, Append1Keys
  <2>6. {old} \in SUBSET Keys(cache)
    BY <2>2
  <2> HIDE DEF old
  <2>7. Older(rest) = {p \in Older(cache) : p[1] \notin {old} \cup {k} /\ p[2] \notin {old} \cup {k}}
    BY <1>2, <2>3, <2>4
  <2>8. Keys(rest) = Keys(cache) \ ({old} \cup {k})
    BY <2>2, <2>4
  <2>9. Pairs(cache') \subseteq Pairs(cache) \cup {<<k, v>>}
    BY <2>3, <2>5
  <2>10. Keys(cache') = (Keys(cache) \ {old}) \cup {k}
    BY <2>2, <2>5
  <2>11. Left({old})
    BY <2>1, <2>4, <2>5, <2>7, <2>8, <2>10 DEF old
  <2>12. QED
    BY <2>6, <2>9, <2>11
<1>6. QED
  BY <1>3, <1>4, <1>5 DEF Put

-----------------------------------------------------------------------------
(* True LRU.                                                               *)

\* What the invariant says of the abstract cache.
LEMMA AbstractCache ==
  ASSUME LruInv
  PROVE  /\ Recency!Cached = Keys(cache)
         /\ Keys(cache) \subseteq Key
         /\ IsFiniteSet(Keys(cache))
         /\ Recency!Cardinality(Keys(cache)) = Len(cache)
         /\ Older(cache) \subseteq Keys(cache) \X Keys(cache)
<1>1. cache \in Dicts(Key, Values)
  BY DEF LruInv
<1>2. Recency!Cached = Keys(cache)
  BY KeysOfPairs DEF Recency!Cached
<1>3. Recency!Cardinality(Keys(cache)) = Cardinality(Keys(cache))
  BY DEF Recency!Cardinality, Cardinality
<1>4. QED
  BY <1>1, <1>2, <1>3, KeysType, KeysCardinality DEF Older

\* Moving a cached key to the end of the list, with the value it had or with
\* another, is a hit.
LEMMA RefreshIsHit ==
  ASSUME LruInv, NEW k \in Key, NEW v \in Values, HasKey(cache, k),
         cache' = Refresh(cache, k, v)
  PROVE  Recency!Hit(k)
<1> DEFINE d == Delete(cache, k)
<1>1. cache \in Dicts(Key, Values)
  BY DEF LruInv
<1>2. d \in Dicts(Key, Values) /\ Keys(d) = Keys(cache) \ {k}
  BY <1>1, DeleteKeys
<1>3. /\ Pairs(d) = {x \in Pairs(cache) : x[1] # k}
      /\ Older(d) = {p \in Older(cache) : p[1] # k /\ p[2] # k}
  BY <1>1, DeleteOrder
<1>4. ~HasKey(d, k)
  BY <1>2, KeysHasKey
<1>5. cache' = Append1(d, k, v)
  BY DEF Refresh
<1> HIDE DEF d
<1>6. /\ Pairs(cache') = Pairs(d) \cup {<<k, v>>}
      /\ Older(cache') = Older(d) \cup (Keys(d) \X {k})
  BY <1>2, <1>4, <1>5, Append1Order
<1>7. k \in Recency!Cached
  BY AbstractCache, KeysHasKey
<1>8. Older(cache') = Recency!UsedLast(Recency!Cached, k)
  BY <1>2, <1>3, <1>6, AbstractCache DEF Recency!UsedLast
<1>9. Pairs(cache)' = {x \in Pairs(cache) : x[1] # k} \cup {<<k, v>>}
  BY <1>3, <1>6 DEF Pairs
<1>10. Older(cache)' = Older(cache')
  BY DEF Older, Keys
<1>11. QED
  BY <1>7, <1>8, <1>9, <1>10 DEF Recency!Hit

\* A get that hits is an abstract hit that gives the key the value it had.
LEMMA GetHitRefines ==
  ASSUME LruInv, NEW k \in Key, GetHit(k)
  PROVE  Recency!Hit(k)
<1>1. cache \in Dicts(Key, Values) /\ HasKey(cache, k) /\ cache' = Refresh(cache, k, ValueAt(cache, k))
  BY DEF LruInv, GetHit
<1>2. ValueAt(cache, k) \in Values
  BY <1>1, ValueAtType
<1>3. QED
  BY <1>1, <1>2, RefreshIsHit

\* A put into a cache with room is an abstract insertion.
LEMMA PutNewRefines ==
  ASSUME LruInv, NEW k \in Key, NEW v \in Values, PutNew(k, v)
  PROVE  Recency!Insert(k)
<1>1. /\ cache \in Dicts(Key, Values)
      /\ ~HasKey(cache, k)
      /\ Len(cache) < MaxExperts
      /\ cache' = Append1(cache, k, v)
  BY DEF LruInv, PutNew
<1>2. /\ Pairs(cache') = Pairs(cache) \cup {<<k, v>>}
      /\ Older(cache') = Older(cache) \cup (Keys(cache) \X {k})
  BY <1>1, Append1Order
<1>3. k \notin Keys(cache)
  BY <1>1, KeysHasKey
<1>4. k \notin Recency!Cached /\ Recency!Cardinality(Recency!Cached) < MaxExperts
  BY <1>1, <1>3, AbstractCache
<1>5. Older(cache)' = Recency!UsedLast(Recency!Cached, k)
  <2>1. Older(cache)' = Older(cache')
    BY DEF Older, Keys
  <2>2. QED
    BY <1>2, <1>3, <2>1, AbstractCache DEF Recency!UsedLast
<1>6. Pairs(cache)' = Pairs(cache) \cup {<<k, v>>}
  BY <1>2 DEF Pairs
<1>7. QED
  BY <1>4, <1>5, <1>6 DEF Recency!Insert

\* A put into a full cache replaces the key every other one was used after.
LEMMA PutEvictingRefines ==
  ASSUME LruInv, NEW k \in Key, NEW v \in Values, PutEvicting(k, v)
  PROVE  Recency!Replace(k)
<1> DEFINE old == cache[1].key
           rest == PopOldest(cache)
<1>1. /\ cache \in Dicts(Key, Values)
      /\ ~HasKey(cache, k)
      /\ Len(cache) = MaxExperts
      /\ Len(cache) > 0
      /\ cache' = Append1(rest, k, v)
  BY DictShape, MaxExpertsAssumption DEF LruInv, PutEvicting
<1>2. /\ old \in Keys(cache)
      /\ rest \in Dicts(Key, Values)
      /\ Keys(rest) = Keys(cache) \ {old}
  BY <1>1, PopOldestKeys
<1>3. /\ Pairs(rest) = {x \in Pairs(cache) : x[1] # old}
      /\ Older(rest) = {p \in Older(cache) : p[1] # old /\ p[2] # old}
  <2>1. cache \in Seq([key : Key, val : Values])
    BY <1>1 DEF Dicts
  <2>2. 1 \in 1 .. Len(cache) /\ cache # <<>>
    BY <1>1, DictShape
  <2>3. rest = Remaining(cache, 1)
    BY <2>1, <2>2, PopOldestIsRemaining
  <2>4. QED
    BY <1>1, <2>2, <2>3, RemainingOrder
<1>4. \A m \in Keys(cache) \ {old} : <<old, m>> \in Older(cache)
  BY <1>1, OldestIsOlder
<1>5. k \notin Keys(cache) /\ ~HasKey(rest, k)
  BY <1>1, <1>2, KeysHasKey
<1> HIDE DEF old, rest
<1>6. /\ Pairs(cache') = Pairs(rest) \cup {<<k, v>>}
      /\ Older(cache') = Older(rest) \cup (Keys(rest) \X {k})
  BY <1>1, <1>2, <1>5, Append1Order
<1>7. k \notin Recency!Cached /\ Recency!Cardinality(Recency!Cached) = MaxExperts
  BY <1>1, <1>5, AbstractCache
<1>8. Older(cache)' = Recency!UsedLast(Recency!Cached \ {old}, k)
  <2>1. Older(cache)' = Older(cache')
    BY DEF Older, Keys
  <2>2. QED
    BY <1>2, <1>3, <1>5, <1>6, <2>1, AbstractCache DEF Recency!UsedLast
<1>9. Pairs(cache)' = {x \in Pairs(cache) : x[1] # old} \cup {<<k, v>>}
  BY <1>3, <1>6 DEF Pairs
<1>10. old \in Recency!Cached /\ \A m \in Recency!Cached \ {old} : <<old, m>> \in Older(cache)
  BY <1>2, <1>4, AbstractCache
<1>11. QED
  BY <1>7, <1>8, <1>9, <1>10 DEF Recency!Replace

\* Every get and put of the list is a step of a true LRU cache.
LEMMA LruStepRefines ==
  ASSUME LruInv, [LruNext]_lruVars
  PROVE  [Recency!AbsNext]_(Recency!abstractVars)
<1>1. ASSUME NEW k \in Key, GetHit(k)
      PROVE  Recency!AbsNext
  BY <1>1, GetHitRefines DEF Recency!AbsNext
<1>2. ASSUME NEW k \in Key, NEW v \in Values, Put(k, v)
      PROVE  Recency!AbsNext
  <2>1. CASE PutExisting(k, v)
    BY <2>1, RefreshIsHit DEF PutExisting, Recency!AbsNext
  <2>2. CASE PutNew(k, v)
    BY <2>2, PutNewRefines DEF Recency!AbsNext
  <2>3. CASE PutEvicting(k, v)
    BY <2>3, PutEvictingRefines DEF Recency!AbsNext
  <2>4. QED
    BY <1>2, <2>1, <2>2, <2>3 DEF Put
<1>3. CASE UNCHANGED lruVars
  <2>1. cache' = cache
    BY <1>3 DEF lruVars
  <2>2. Pairs(cache)' = Pairs(cache) /\ Older(cache)' = Older(cache)
    BY <2>1 DEF Pairs, Older, Keys
  <2>3. QED
    BY <2>2 DEF Recency!abstractVars
<1>4. QED
  BY <1>1, <1>2, <1>3 DEF LruNext

\* The list implements a true LRU cache: whatever gets and puts are called, the
\* order of use changes only as a key becomes the most recent one, and what put
\* evicts is the key every other one was used after.
THEOREM LruImplementsTrueLRU == LruSpec => EvictionIsTrueLRU
<1>1. LruInit => Recency!AbsInit
  BY DEF LruInit, Recency!AbsInit, Pairs, Older, Keys
<1>2. LruInv /\ [LruNext]_lruVars => [Recency!AbsNext]_(Recency!abstractVars)
  BY LruStepRefines
<1>3. QED
  BY <1>1, <1>2, LruInvariant, PTL DEF LruSpec, EvictionIsTrueLRU, Recency!AbsSpec
=============================================================================
