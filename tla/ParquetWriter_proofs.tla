------------------------ MODULE ParquetWriter_proofs ------------------------
(***************************************************************************)
(* Facts about the flush of RollingParquetWriter: the page a flush writes  *)
(* holds exactly the first row of each key of the old page and the new     *)
(* rows, whatever their number.                                            *)
(*                                                                         *)
(* sort_values is SortedByTs, the CHOOSE of a sorted listing; its result  *)
(* is known once such a listing exists.  One is built by ranking: the     *)
(* rank of a row is one more than the number of rows with an earlier ts.   *)
(* With one row per ts the ranks are distinct numbers in 1..n, so they     *)
(* form a bijection, and listing the rows by rank sorts them.  No          *)
(* induction is needed: the counting facts of FiniteSetTheorems suffice.   *)
(***************************************************************************)
EXTENDS ParquetWriter, FiniteSetTheorems, SequenceTheorems,
        WellFoundedInduction, TLAPS

(* The rows of 1..n whose key is below the key of row j.                  *)
Below(key, n, j) == {l \in 1 .. n : key[l] < key[j]}

(* The rank of row j among n rows: its place in the sorted order.          *)
Rank(key, n) == [j \in 1 .. n |-> Cardinality(Below(key, n, j)) + 1]

LEMMA BelowCount ==
  ASSUME NEW n \in Nat, NEW key \in [1 .. n -> Nat], NEW j \in 1 .. n
  PROVE  /\ IsFiniteSet(Below(key, n, j))
         /\ Cardinality(Below(key, n, j)) \in 0 .. n - 1
<1>1. IsFiniteSet(1 .. n) /\ Cardinality(1 .. n) = n
  BY FS_Interval
<1>2. IsFiniteSet((1 .. n) \ {j}) /\ Cardinality((1 .. n) \ {j}) = n - 1
  BY <1>1, FS_RemoveElement
<1>3. Below(key, n, j) \subseteq (1 .. n) \ {j}
  BY DEF Below
<1>4. IsFiniteSet(Below(key, n, j))
      /\ Cardinality(Below(key, n, j)) <= n - 1
  BY <1>2, <1>3, FS_Subset
<1>. QED
  BY <1>4, FS_CardinalityType

(* A row with a later key has a higher rank.                               *)
LEMMA RankMonotone ==
  ASSUME NEW n \in Nat, NEW key \in [1 .. n -> Nat],
         NEW j \in 1 .. n, NEW k \in 1 .. n, key[j] < key[k]
  PROVE  Rank(key, n)[j] < Rank(key, n)[k]
<1>1. Below(key, n, j) \subseteq Below(key, n, k) \ {j}
  BY DEF Below
<1>2. j \in Below(key, n, k)
  BY DEF Below
<1>3. /\ IsFiniteSet(Below(key, n, k))
      /\ Cardinality(Below(key, n, k)) \in Nat
  BY BelowCount, FS_CardinalityType
<1>4. Cardinality(Below(key, n, k) \ {j}) = Cardinality(Below(key, n, k)) - 1
      /\ IsFiniteSet(Below(key, n, k) \ {j})
  BY <1>2, <1>3, FS_RemoveElement
<1>5. Cardinality(Below(key, n, j)) <= Cardinality(Below(key, n, k) \ {j})
  BY <1>1, <1>4, FS_Subset
<1>6. Cardinality(Below(key, n, j)) \in Nat
  BY BelowCount
<1>. QED
  BY <1>3, <1>4, <1>5, <1>6 DEF Rank

(* With one row per key, every rank in 1..n is taken by exactly one row.  *)
LEMMA RankOnto ==
  ASSUME NEW n \in Nat, NEW key \in [1 .. n -> Nat],
         \A j, k \in 1 .. n : key[j] = key[k] => j = k
  PROVE  /\ Rank(key, n) \in [1 .. n -> 1 .. n]
         /\ \A j, k \in 1 .. n : Rank(key, n)[j] = Rank(key, n)[k] => j = k
         /\ \A i \in 1 .. n : \E j \in 1 .. n : Rank(key, n)[j] = i
<1> DEFINE r == Rank(key, n)
<1>1. r \in [1 .. n -> 1 .. n]
  BY BelowCount DEF Rank
<1>2. \A j, k \in 1 .. n : r[j] = r[k] => j = k
  <2> SUFFICES ASSUME NEW j \in 1 .. n, NEW k \in 1 .. n, j # k
               PROVE  r[j] # r[k]
    OBVIOUS
  <2>1. key[j] # key[k]
    OBVIOUS
  <2>0. r[j] \in 1 .. n /\ r[k] \in 1 .. n
    BY <1>1
  <2>2. CASE key[j] < key[k]
    <3>1. r[j] < r[k]
      BY <2>2, RankMonotone
    <3>. QED
      BY <2>0, <3>1
  <2>3. CASE key[k] < key[j]
    <3>1. r[k] < r[j]
      BY <2>3, RankMonotone
    <3>. QED
      BY <2>0, <3>1
  <2>. QED
    BY <2>1, <2>2, <2>3
<1>3. r \in Injection(1 .. n, 1 .. n)
  BY <1>1, <1>2 DEF Injection, IsInjective
<1>4. r \in Surjection(1 .. n, 1 .. n)
  BY <1>3, FS_Interval, FS_Injection
<1>. QED
  BY <1>1, <1>2, <1>4 DEF Surjection

(* So listing the rows by rank sorts them by key.                         *)
LEMMA SortedOrderExists ==
  ASSUME NEW n \in Nat, NEW key \in [1 .. n -> Nat],
         \A j, k \in 1 .. n : key[j] = key[k] => j = k
  PROVE  \E p \in [1 .. n -> 1 .. n] :
           \A i, j \in 1 .. n : i < j => key[p[i]] < key[p[j]]
<1> DEFINE r == Rank(key, n)
           p == [i \in 1 .. n |-> CHOOSE j \in 1 .. n : r[j] = i]
<1>1. \A i \in 1 .. n : p[i] \in 1 .. n /\ r[p[i]] = i
  BY RankOnto
<1>2. ASSUME NEW i \in 1 .. n, NEW j \in 1 .. n, i < j
      PROVE  key[p[i]] < key[p[j]]
  <2>1. p[i] \in 1 .. n /\ p[j] \in 1 .. n /\ r[p[i]] = i /\ r[p[j]] = j
    BY <1>1
  <2>2. key[p[i]] # key[p[j]]
    BY <2>1, <1>2
  <2>3. ~(key[p[j]] < key[p[i]])
    <3>1. SUFFICES ASSUME key[p[j]] < key[p[i]] PROVE FALSE
      OBVIOUS
    <3>2. r[p[j]] < r[p[i]]
      BY <2>1, <3>1, RankMonotone
    <3>. QED
      BY <2>1, <3>2, <1>2
  <2>4. key[p[i]] \in Nat /\ key[p[j]] \in Nat
    BY <2>1
  <2>. QED
    BY <2>2, <2>3, <2>4
<1>. QED
  BY <1>1, <1>2

(* drop_duplicates keeps rows of the concatenation, finitely many, and no *)
(* two of them share a ts.                                                 *)
LEMMA FirstOfKeyRows ==
  ASSUME NEW c \in Seq(Row)
  PROVE  /\ FirstOfKey(c) \subseteq ToSet(c)
         /\ IsFiniteSet(FirstOfKey(c))
         /\ \A x, y \in FirstOfKey(c) : x.ts = y.ts => x = y
<1>1. FirstOfKey(c) \subseteq ToSet(c)
  BY DEF FirstOfKey, ToSet
<1>2. IsFiniteSet(ToSet(c))
  <2>1. c \in Surjection(1 .. Len(c), ToSet(c))
    BY DEF Surjection, ToSet
  <2>. QED
    BY <2>1, FS_NatSurjection DEF ExistsSurjection
<1>3. \A x, y \in FirstOfKey(c) : x.ts = y.ts => x = y
  <2> SUFFICES ASSUME NEW i \in DOMAIN c, NEW j \in DOMAIN c,
                      \A h \in 1 .. i - 1 : c[h].ts # c[i].ts,
                      \A h \in 1 .. j - 1 : c[h].ts # c[j].ts,
                      c[i].ts = c[j].ts
               PROVE  c[i] = c[j]
    BY DEF FirstOfKey
  <2>1. DOMAIN c = 1 .. Len(c)
    OBVIOUS
  <2>2. ~(i < j) /\ ~(j < i)
    BY <2>1
  <2>. QED
    BY <2>1, <2>2
<1>. QED
  BY <1>1, <1>2, <1>3, FS_Subset

(* sort_values of key-unique rows lists every one of them once, in         *)
(* increasing ts.                                                          *)
LEMMA SortedByTsLists ==
  ASSUME NEW S, S \subseteq Row, IsFiniteSet(S),
         \A x, y \in S : x.ts = y.ts => x = y
  PROVE  LET n == Cardinality(S)
             s == SortedByTs(S)
         IN  /\ s \in [1 .. n -> S]
             /\ \A i, j \in 1 .. n : i < j => s[i].ts < s[j].ts
             /\ \A x \in S : \E i \in 1 .. n : s[i] = x
<1> DEFINE n == Cardinality(S)
           s == SortedByTs(S)
<1>1. n \in Nat /\ ExistsBijection(1 .. n, S)
  BY FS_CardinalityType
<1>2. PICK f \in Bijection(1 .. n, S) : TRUE
  BY <1>1 DEF ExistsBijection
<1>3. f \in [1 .. n -> S] /\ \A i, j \in 1 .. n : f[i] = f[j] => i = j
  BY <1>2 DEF Bijection, Injection, IsInjective
<1> DEFINE key == [i \in 1 .. n |-> f[i].ts]
<1>4. key \in [1 .. n -> Nat]
  BY <1>3 DEF Row, Times
<1>5. \A j, k \in 1 .. n : key[j] = key[k] => j = k
  BY <1>3
<1>6. PICK p \in [1 .. n -> 1 .. n] :
         \A i, j \in 1 .. n : i < j => key[p[i]] < key[p[j]]
  BY <1>1, <1>4, <1>5, SortedOrderExists
<1>7. /\ s \in [1 .. n -> S]
      /\ \A i, j \in 1 .. n : i < j => EarlierRow(s[i], s[j])
  <2>1. [i \in 1 .. n |-> f[p[i]]] \in [1 .. n -> S]
    BY <1>3, <1>6
  <2>2. \A i, j \in 1 .. n : i < j
           => EarlierRow([i2 \in 1 .. n |-> f[p[i2]]][i],
                         [i2 \in 1 .. n |-> f[p[i2]]][j])
    BY <1>6 DEF EarlierRow
  <2>. QED
    BY <2>1, <2>2 DEF SortedByTs
<1>8. \A i, j \in 1 .. n : i < j => s[i].ts < s[j].ts
  BY <1>7 DEF EarlierRow
<1>9. s \in Injection(1 .. n, S)
  <2>1. \A i, j \in 1 .. n : s[i] = s[j] => i = j
    <3> SUFFICES ASSUME NEW i \in 1 .. n, NEW j \in 1 .. n, i # j
                 PROVE  s[i] # s[j]
      OBVIOUS
    <3>1. s[i].ts \in Nat /\ s[j].ts \in Nat
      BY <1>7 DEF Row, Times
    <3>2. CASE i < j
      BY <3>1, <3>2, <1>8
    <3>3. CASE j < i
      BY <3>1, <3>3, <1>8
    <3>. QED
      BY <1>1, <3>2, <3>3
  <2>. QED
    BY <1>7, <2>1 DEF Injection, IsInjective
<1>10. s \in Surjection(1 .. n, S)
  <2>1. IsFiniteSet(1 .. n) /\ Cardinality(1 .. n) = n
    BY <1>1, FS_Interval
  <2>. QED
    BY <1>9, <2>1, FS_Injection
<1>. QED
  BY <1>7, <1>8, <1>10 DEF Surjection

(* The page a merging flush writes: rows, exactly the first row of each ts *)
(* of the old page followed by the new rows, in strictly increasing ts.   *)
THEOREM MergeRows ==
  ASSUME NEW old \in Seq(Row), NEW new \in Seq(Row)
  PROVE  LET m == MergePage(old, new)
         IN  /\ m \in Seq(Row)
             /\ ToSet(m) = FirstOfKey(old \o new)
             /\ \A i, j \in DOMAIN m : i < j => m[i].ts < m[j].ts
<1> DEFINE c == old \o new
           S == FirstOfKey(c)
           m == MergePage(old, new)
<1>1. c \in Seq(Row)
  BY ConcatProperties
<1>2. S \subseteq Row /\ IsFiniteSet(S) /\ \A x, y \in S : x.ts = y.ts => x = y
  <2>1. S \subseteq ToSet(c) /\ IsFiniteSet(S)
        /\ \A x, y \in S : x.ts = y.ts => x = y
    BY <1>1, FirstOfKeyRows
  <2>2. ToSet(c) \subseteq Row
    BY <1>1 DEF ToSet
  <2>. QED
    BY <2>1, <2>2
<1>3. Cardinality(S) \in Nat
  BY <1>2, FS_CardinalityType
<1>4. /\ m \in [1 .. Cardinality(S) -> S]
      /\ \A i, j \in 1 .. Cardinality(S) : i < j => m[i].ts < m[j].ts
      /\ \A x \in S : \E i \in 1 .. Cardinality(S) : m[i] = x
  BY <1>2, SortedByTsLists DEF MergePage
<1>5. m \in Seq(Row)
  BY <1>2, <1>3, <1>4
<1>6. ToSet(m) = S
  BY <1>4 DEF ToSet
<1>. QED
  BY <1>4, <1>5, <1>6

(* The rows of a concatenation are rows of its parts.                    *)
LEMMA ConcatSet ==
  ASSUME NEW S, NEW s \in Seq(S), NEW t \in Seq(S)
  PROVE  ToSet(s \o t) \subseteq ToSet(s) \cup ToSet(t)
<1>1. /\ Len(s \o t) = Len(s) + Len(t)
      /\ \A i \in 1 .. Len(s) + Len(t) :
           (s \o t)[i] = IF i <= Len(s) THEN s[i] ELSE t[i - Len(s)]
  BY ConcatProperties
<1>. QED
  BY <1>1 DEF ToSet

(* drop_duplicates drops no ts: the first row with a given ts is kept.     *)
(* It exists because < is well-founded on Nat.                             *)
LEMMA FirstOccurrence ==
  ASSUME NEW c \in Seq(Row), NEW j \in DOMAIN c
  PROVE  \E x \in FirstOfKey(c) : x.ts = c[j].ts
<1> DEFINE T == {i \in 1 .. j : c[i].ts = c[j].ts}
<1>1. T \subseteq Nat /\ j \in T
  OBVIOUS
<1>2. PICK i \in T : \A y \in T : ~(<<y, i>> \in OpToRel(<, Nat))
  BY <1>1, NatLessThanWellFounded, WFMin
<1>3. \A h \in 1 .. i - 1 : c[h].ts # c[i].ts
  <2> SUFFICES ASSUME NEW h \in 1 .. i - 1, c[h].ts = c[i].ts
               PROVE  FALSE
    OBVIOUS
  <2>1. h \in T
    OBVIOUS
  <2>2. <<h, i>> \in OpToRel(<, Nat)
    BY DEF OpToRel
  <2>. QED
    BY <1>2, <2>1, <2>2
<1>4. i \in DOMAIN c
  OBVIOUS
<1>. QED
  BY <1>3, <1>4 DEF FirstOfKey

(* A merge holds exactly the ts values of the old page and the new rows.  *)
THEOREM MergeTs ==
  ASSUME NEW old \in Seq(Row), NEW new \in Seq(Row)
  PROVE  PageTs(MergePage(old, new)) = PageTs(old) \cup PageTs(new)
<1> DEFINE c == old \o new
           m == MergePage(old, new)
<1>1. /\ c \in Seq(Row) /\ Len(c) = Len(old) + Len(new)
      /\ \A i \in 1 .. Len(old) + Len(new) :
           c[i] = IF i <= Len(old) THEN old[i] ELSE new[i - Len(old)]
  BY ConcatProperties
<1>2. ToSet(m) = FirstOfKey(c) /\ FirstOfKey(c) \subseteq ToSet(c)
  BY <1>1, MergeRows, FirstOfKeyRows
<1>3. PageTs(m) = {x.ts : x \in FirstOfKey(c)}
  BY <1>2 DEF PageTs, ToSet
<1>4. PageTs(m) \subseteq PageTs(old) \cup PageTs(new)
  <2>1. ToSet(c) \subseteq ToSet(old) \cup ToSet(new)
    BY ConcatSet
  <2>2. /\ PageTs(old) = {x.ts : x \in ToSet(old)}
        /\ PageTs(new) = {x.ts : x \in ToSet(new)}
    BY DEF PageTs, ToSet
  <2>. QED
    BY <1>2, <1>3, <2>1, <2>2
<1>5. ASSUME NEW j \in DOMAIN c PROVE c[j].ts \in PageTs(m)
  BY <1>1, <1>3, FirstOccurrence
<1>6. PageTs(old) \subseteq PageTs(m)
  <2> SUFFICES ASSUME NEW j \in DOMAIN old PROVE old[j].ts \in PageTs(m)
    BY DEF PageTs
  <2>1. j \in DOMAIN c /\ c[j] = old[j]
    BY <1>1
  <2>. QED
    BY <1>5, <2>1
<1>7. PageTs(new) \subseteq PageTs(m)
  <2> SUFFICES ASSUME NEW j \in DOMAIN new PROVE new[j].ts \in PageTs(m)
    BY DEF PageTs
  <2>1. Len(old) + j \in DOMAIN c /\ c[Len(old) + j] = new[j]
    BY <1>1
  <2>. QED
    BY <1>5, <2>1
<1>. QED
  BY <1>4, <1>6, <1>7

-----------------------------------------------------------------------------
(* The writer's state as the methods keep it: the buffered rows all belong *)
(* to the current bucket, and every page holds rows of its own bucket.     *)
WriterOK(w) ==
  /\ w \in Writer
  /\ \A i \in DOMAIN w.rows : BucketStart(w.rows[i].ts) = w.bucket
  /\ \A b \in Buckets : \A i \in DOMAIN w.pages[b] :
       BucketStart(w.pages[b][i].ts) = b

LEMMA RowBucket ==
  ASSUME NEW row \in Row
  PROVE  BucketStart(row.ts) \in Buckets
BY DEF Row, Buckets

(* flush writes the page of the current bucket, merged or not, from rows  *)
(* of that bucket, and empties the buffer.                                 *)
LEMMA FlushKeeps ==
  ASSUME NEW w, WriterOK(w), NEW ok \in BOOLEAN
  PROVE  WriterOK(Flush(w, ok))
<1>1. CASE w.rows = <<>>
  BY <1>1 DEF Flush
<1>2. CASE w.rows # <<>>
  <2>1. w.rows \in Seq(Row) /\ 1 \in DOMAIN w.rows
    BY <1>2, EmptySeq DEF WriterOK, Writer
  <2>2. w.bucket \in Buckets
    <3>1. BucketStart(w.rows[1].ts) = w.bucket
      BY <2>1 DEF WriterOK
    <3>. QED
      BY <2>1, <3>1, RowBucket
  <2> DEFINE b == w.bucket
             old == w.pages[b]
             P == IF old # <<>> /\ ok THEN MergePage(old, w.rows) ELSE w.rows
  <2>3. Flush(w, ok) = [w EXCEPT !.pages[b] = P, !.rows = <<>>]
    BY <1>2, <2>2, NoneAssumption DEF Flush
  <2>4. old \in Seq(Row) /\ \A i \in DOMAIN old : BucketStart(old[i].ts) = b
    BY <2>2 DEF WriterOK, Writer
  <2>5. P \in Seq(Row) /\ \A i \in DOMAIN P : BucketStart(P[i].ts) = b
    <3>1. CASE old # <<>> /\ ok
      <4>1. MergePage(old, w.rows) \in Seq(Row)
            /\ ToSet(MergePage(old, w.rows)) = FirstOfKey(old \o w.rows)
        BY <2>1, <2>4, MergeRows
      <4>2. FirstOfKey(old \o w.rows) \subseteq ToSet(old) \cup ToSet(w.rows)
        <5>1. old \o w.rows \in Seq(Row)
          BY <2>1, <2>4, ConcatProperties
        <5>. QED
          BY <2>1, <2>4, <5>1, FirstOfKeyRows, ConcatSet
      <4>3. \A x \in ToSet(old) \cup ToSet(w.rows) : BucketStart(x.ts) = b
        BY <2>4 DEF WriterOK, ToSet
      <4>. QED
        BY <3>1, <4>1, <4>2, <4>3 DEF ToSet
    <3>2. CASE ~(old # <<>> /\ ok)
      BY <3>2, <2>1 DEF WriterOK
    <3>. QED
      BY <3>1, <3>2
  <2> DEFINE F == Flush(w, ok)
  <2>6. /\ F = [bucket |-> b, rows |-> <<>>, pages |-> [w.pages EXCEPT ![b] = P]]
        /\ w.pages \in [Buckets -> Seq(Row)]
    BY <2>3 DEF WriterOK, Writer
  <2>7. F \in Writer
    BY <2>2, <2>5, <2>6, EmptySeq DEF Writer
  <2>8. \A c \in Buckets : \A i \in DOMAIN F.pages[c] :
          BucketStart(F.pages[c][i].ts) = c
    BY <2>5, <2>6 DEF WriterOK
  <2>. QED
    BY <2>6, <2>7, <2>8 DEF WriterOK
<1>. QED
  BY <1>1, <1>2

(* write appends a row to the buffer of its bucket, after flushing the    *)
(* buffer of another bucket.                                               *)
LEMMA WriteKeeps ==
  ASSUME NEW w, WriterOK(w), NEW row \in Row, NEW ok \in BOOLEAN
  PROVE  WriterOK(Write(w, row, ok))
<1> DEFINE b == BucketStart(row.ts)
           w1 == IF w.bucket # None /\ b # w.bucket THEN Flush(w, ok) ELSE w
<1>1. b \in Buckets
  BY RowBucket
<1>2. WriterOK(w1)
  BY FlushKeeps
<1>3. \A i \in DOMAIN w1.rows : BucketStart(w1.rows[i].ts) = b
  <2>1. CASE w.bucket # None /\ b # w.bucket
    <3>1. w1.rows = <<>>
      BY <2>1 DEF Flush, WriterOK, Writer
    <3>. QED
      BY <3>1
  <2>2. CASE w.bucket = None
    <3>1. w.rows = <<>>
      <4>1. SUFFICES ASSUME w.rows # <<>> PROVE FALSE
        OBVIOUS
      <4>2. w.rows \in Seq(Row) /\ 1 \in DOMAIN w.rows
        BY <4>1, EmptySeq DEF WriterOK, Writer
      <4>3. BucketStart(w.rows[1].ts) = None
        BY <2>2, <4>2 DEF WriterOK
      <4>. QED
        BY <4>2, <4>3, RowBucket, NoneAssumption
    <3>. QED
      BY <2>2, <3>1
  <2>3. CASE b = w.bucket
    BY <2>3 DEF WriterOK
  <2>. QED
    BY <2>1, <2>2, <2>3
<1>4. w1.rows \in Seq(Row) /\ Append(w1.rows, row) \in Seq(Row)
  BY <1>2, AppendProperties DEF WriterOK, Writer
<1>5. \A i \in DOMAIN Append(w1.rows, row) :
        BucketStart(Append(w1.rows, row)[i].ts) = b
  BY <1>3, <1>4, AppendProperties
<1>. QED
  BY <1>1, <1>2, <1>4, <1>5 DEF Write, WriterOK, Writer

(* A flush whose read of the existing page succeeds takes no ts off any   *)
(* page.                                                                   *)
LEMMA FlushKeepsTs ==
  ASSUME NEW w, WriterOK(w), NEW ok \in BOOLEAN, ReadsPage(w) => ok
  PROVE  \A b \in Buckets : PageTs(w.pages[b]) \subseteq PageTs(Flush(w, ok).pages[b])
<1>1. CASE w.rows = <<>>
  BY <1>1 DEF Flush
<1>2. CASE w.rows # <<>>
  <2>1. w.rows \in Seq(Row) /\ 1 \in DOMAIN w.rows
    BY <1>2, EmptySeq DEF WriterOK, Writer
  <2>2. w.bucket \in Buckets /\ w.bucket # None
    <3>1. BucketStart(w.rows[1].ts) = w.bucket
      BY <2>1 DEF WriterOK
    <3>. QED
      BY <2>1, <3>1, RowBucket, NoneAssumption
  <2> DEFINE b0 == w.bucket
             old == w.pages[b0]
             P == IF old # <<>> /\ ok THEN MergePage(old, w.rows) ELSE w.rows
  <2>3. /\ Flush(w, ok).pages = [w.pages EXCEPT ![b0] = P]
        /\ w.pages \in [Buckets -> Seq(Row)]
    BY <1>2, <2>2 DEF Flush, WriterOK, Writer
  <2>4. PageTs(old) \subseteq PageTs(P)
    <3>1. CASE old = <<>>
      BY <3>1 DEF PageTs
    <3>2. CASE old # <<>>
      <4>1. ok
        BY <1>2, <2>2, <3>2 DEF ReadsPage
      <4>2. old \in Seq(Row)
        BY <2>2, <2>3
      <4>. QED
        BY <2>1, <3>2, <4>1, <4>2, MergeTs
    <3>. QED
      BY <3>1, <3>2
  <2>. QED
    BY <2>2, <2>3, <2>4
<1>. QED
  BY <1>1, <1>2

-----------------------------------------------------------------------------
(* Row r is kept by the writer: buffered, or its ts is in the page of its  *)
(* bucket.                                                                 *)
Kept(w, r) ==
  r \in ToSet(w.rows) \/ r.ts \in PageTs(w.pages[BucketStart(r.ts)])

(* After a flush whose read succeeds, every row the writer kept is on     *)
(* disk.                                                                   *)
LEMMA FlushStoresRow ==
  ASSUME NEW w, WriterOK(w), NEW ok \in BOOLEAN, ReadsPage(w) => ok,
         NEW r \in Row, Kept(w, r)
  PROVE  r.ts \in PageTs(Flush(w, ok).pages[BucketStart(r.ts)])
<1>1. BucketStart(r.ts) \in Buckets
  BY RowBucket
<1>2. CASE r.ts \in PageTs(w.pages[BucketStart(r.ts)])
  BY <1>1, <1>2, FlushKeepsTs
<1>3. CASE r \in ToSet(w.rows)
  <2>1. PICK i \in DOMAIN w.rows : w.rows[i] = r
    BY <1>3 DEF ToSet
  <2>2. /\ w.rows \in Seq(Row) /\ w.rows # <<>>
        /\ BucketStart(r.ts) = w.bucket /\ w.bucket # None
    BY <1>1, <2>1, NoneAssumption DEF WriterOK, Writer
  <2> DEFINE b0 == w.bucket
             old == w.pages[b0]
             P == IF old # <<>> /\ ok THEN MergePage(old, w.rows) ELSE w.rows
  <2>3. /\ Flush(w, ok).pages = [w.pages EXCEPT ![b0] = P]
        /\ w.pages \in [Buckets -> Seq(Row)]
    BY <2>2 DEF Flush, WriterOK, Writer
  <2>4. r.ts \in PageTs(w.rows)
    BY <2>1 DEF PageTs
  <2>5. r.ts \in PageTs(P)
    <3>1. CASE old # <<>> /\ ok
      <4>1. old \in Seq(Row)
        BY <1>1, <2>2, <2>3
      <4>. QED
        BY <2>2, <2>4, <3>1, <4>1, MergeTs
    <3>2. CASE ~(old # <<>> /\ ok)
      BY <2>4, <3>2
    <3>. QED
      BY <3>1, <3>2
  <2>. QED
    BY <1>1, <2>2, <2>3, <2>5
<1>. QED
  BY <1>2, <1>3 DEF Kept

(* A write keeps what the writer kept, and the row it writes.             *)
LEMMA WriteKeepsRow ==
  ASSUME NEW w, WriterOK(w), NEW row \in Row, NEW ok \in BOOLEAN,
         RollsOver(w, row) /\ ReadsPage(w) => ok,
         NEW r \in Row, Kept(w, r) \/ r = row
  PROVE  Kept(Write(w, row, ok), r)
<1> DEFINE w1 == IF RollsOver(w, row) THEN Flush(w, ok) ELSE w
<1>1. /\ Write(w, row, ok).pages = w1.pages
      /\ Write(w, row, ok).rows = Append(w1.rows, row)
      /\ w1.rows \in Seq(Row)
  <2>1. WriterOK(w1)
    BY FlushKeeps
  <2>. QED
    BY <2>1 DEF Write, RollsOver, WriterOK, Writer
<1>2. ToSet(w1.rows) \cup {row} \subseteq ToSet(Write(w, row, ok).rows)
  BY <1>1, AppendProperties DEF ToSet
<1>3. CASE r = row
  BY <1>2, <1>3 DEF Kept
<1>4. CASE Kept(w, r) /\ RollsOver(w, row)
  BY <1>1, <1>4, FlushStoresRow DEF Kept
<1>5. CASE Kept(w, r) /\ ~RollsOver(w, row)
  BY <1>1, <1>2, <1>5 DEF Kept
<1>. QED
  BY <1>3, <1>4, <1>5
=============================================================================
