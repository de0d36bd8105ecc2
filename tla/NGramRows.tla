------------------------------ MODULE NGramRows ------------------------------
(***************************************************************************)
(* RowNGramSource.rows of src/mlx_expert_sniper/ngram_source.py: the rows   *)
(* of one lookup, taken from a small cache of rows or read, one by one from *)
(* files or from the checkpoint in ranges that swallow small gaps.  A row's *)
(* bytes are its number, a range of bytes the rows in it.                   *)
(***************************************************************************)
EXTENDS OrderedDict, FiniteSets

CONSTANTS
  TableRows,  \* rows_per_shard
  Kinds,      \* weight, scales, biases
  Gaps,       \* per kind, the gap in rows that a range may swallow
  MaxRows,    \* max_rows
  Lookups     \* sequences of row numbers asked for

ASSUME RowsAssumption ==
  TableRows \in Nat /\ MaxRows \in Nat /\ Gaps \in [Kinds -> Nat] /\ Lookups \subseteq Seq(0 .. TableRows - 1)

VARIABLES rowCache, rows   \* RowLRU._d; the last lookup and its answer

rowVars == <<rowCache, rows>>

NoLookup == [ids |-> <<>>, answer |-> <<>>]

RowsInit == rowCache = <<>> /\ rows = NoLookup

-----------------------------------------------------------------------------
(* Reading the rows that are not cached.                                   *)

\* DiskNGramSource: row after row, each at its place in the file of its kind.
ReadFiles(S) == [k \in Kinds |-> [r \in S |-> <<r>>]]

\* The rows that open a range: the row before is too far away to join.
Openers(S, gap) == {r \in S : \A q \in S : q < r => r > q + gap + 1}

LastOf(S) == CHOOSE x \in S : \A y \in S : y <= x

\* Mutant: a range that swallows a row keeps its old end.
EndUnmoved(S, gap, a) == a

\* Where the range that a opens ends: at the last row before the next opener.
EndOf(S, gap, a) == LastOf({b \in S : b >= a /\ \A c \in Openers(S, gap) : c <= a \/ c > b})

\* Row r cut out of the range it falls in: past its end there are no bytes.
CutOut(S, gap, r) ==
  LET start == LastOf({c \in Openers(S, gap) : c <= r})
      blob == [i \in 0 .. EndOf(S, gap, start) - start |-> start + i]
  IN  IF r - start \in DOMAIN blob THEN <<blob[r - start]>> ELSE <<>>

\* HFNGramSource: one request per range.
ReadRanges(S) == [k \in Kinds |-> [r \in S |-> CutOut(S, Gaps[k], r)]]

-----------------------------------------------------------------------------
(* The cache, and a lookup.                                                *)

\* RowLRU.get, when it hits, and RowLRU.put.
Hit(d, r) == IF HasKey(d, r) THEN Refresh(d, r, ValueAt(d, r)) ELSE d
Stored(d, r, v) == LET e == Assign(d, r, v) IN IF Len(e) > MaxRows THEN PopOldest(e) ELSE e

\* The cache d after a get of each row of S, in ascending order, and after a put.
Touched(d, S) ==
  LET then[n \in 0 .. TableRows] ==
        IF n = 0 THEN d ELSE IF n - 1 \in S THEN Hit(then[n - 1], n - 1) ELSE then[n - 1]
  IN  then[TableRows]

StoredAll(d, S, raw) ==
  LET then[n \in 0 .. TableRows] ==
        IF n = 0 THEN d ELSE IF n - 1 \in S THEN Stored(then[n - 1], n - 1, raw[n - 1]) ELSE then[n - 1]
  IN  then[TableRows]

Distinct(ids) == {ids[i] : i \in DOMAIN ids}
Missing(ids) == {r \in Distinct(ids) : ~HasKey(rowCache, r)}

\* Each distinct row is looked up, the missing ones are read and stored, and
\* the answer repeats them as asked.
LookupRows(ids, read) ==
  LET raw == [r \in Distinct(ids) |->
                IF r \in Missing(ids) THEN [k \in Kinds |-> read[k][r]] ELSE ValueAt(rowCache, r)]
  IN  /\ rowCache' = StoredAll(Touched(rowCache, Distinct(ids)), Missing(ids), raw)
      /\ rows' = [ids |-> ids, answer |-> [i \in DOMAIN ids |-> raw[ids[i]]]]

\* A row or a range cannot be read: the rows found were touched, nothing is stored.
LookupFails(ids) ==
  /\ Missing(ids) # {}
  /\ rowCache' = Touched(rowCache, Distinct(ids))
  /\ rows' = NoLookup

\* make_ngram_source picks where the rows come from; the cache is the same.
RowsNext ==
  \E ids \in Lookups :
    \/ LookupRows(ids, ReadFiles(Missing(ids)))
    \/ LookupRows(ids, ReadRanges(Missing(ids)))
    \/ LookupFails(ids)

-----------------------------------------------------------------------------
\* Every position of a lookup is answered with its own row, in every kind,
\* whatever ranges the rows were read in and whatever the cache held, evicted or
\* was told before; and the cache never maps a row to another's bytes.
RowsAsAsked ==
  /\ rows.answer = [i \in DOMAIN rows.ids |-> [k \in Kinds |-> <<rows.ids[i]>>]]
  /\ \A i \in DOMAIN rowCache : rowCache[i].val = [k \in Kinds |-> <<rowCache[i].key>>]
  /\ UniqueKeys(rowCache) /\ Len(rowCache) <= MaxRows
=============================================================================
