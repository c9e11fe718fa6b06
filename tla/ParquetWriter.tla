--------------------------- MODULE ParquetWriter ---------------------------
(***************************************************************************)
(* RollingParquetWriter of src/backtest/bots/l2l3_orderbook/storage.py, as *)
(* operators on its state.  The writer is a plain object used by one task, *)
(* so each method is a function from the writer's state to the next one.   *)
(*                                                                         *)
(* A row is abstracted to the emission number k of the BookState it was   *)
(* built from and its ts_ms; (ts_ms, venue) is the de-duplication key and  *)
(* there is one venue, so the key is ts.  A page (the parquet file of a    *)
(* bucket) is the sequence of rows as written; <<>> is a missing file.     *)
(* A flush that finds the file may fail to read it (ok = FALSE): the       *)
(* exception is swallowed.                                                 *)
(***************************************************************************)
EXTENDS Naturals, Sequences, SequencesExt

CONSTANTS
  Window,   \* window_sec, in clock ticks
  MaxTime,  \* the clock runs over 0 .. MaxTime
  MaxStates, \* rows are the BookStates 1 .. MaxStates
  None      \* _bucket_ms before the first row

ASSUME WindowAssumption == Window \in Nat \ {0}
ASSUME TimeAssumption == MaxTime \in Nat /\ MaxStates \in Nat

Times == 0 .. MaxTime
Row == [k : 1 .. MaxStates, ts : Times]

(* _bucket_start_ms: the start of the window holding ts.                   *)
BucketStart(ts) == (ts \div Window) * Window

Buckets == {BucketStart(t) : t \in Times}

(* _bucket_ms is None or the start of a window, never both.                *)
ASSUME NoneAssumption == None \notin Buckets

Writer == [bucket : Buckets \cup {None}, rows : Seq(Row),
           pages : [Buckets -> Seq(Row)]]

InitWriter == [bucket |-> None, rows |-> <<>>, pages |-> [b \in Buckets |-> <<>>]]

(* drop_duplicates(subset=["ts_ms", "venue"]) keeps the first row of each  *)
(* key; sort_values("ts_ms") then orders the (now key-unique) rows.        *)
FirstOfKey(s) ==
  {s[i] : i \in {j \in DOMAIN s : \A h \in 1 .. j - 1 : s[h].ts # s[j].ts}}

EarlierRow(r1, r2) == r1.ts < r2.ts

(* sort_values("ts_ms") of the key-unique rows: the one listing of them in *)
(* increasing ts.                                                          *)
SortedByTs(S) ==
  CHOOSE s \in [1 .. Cardinality(S) -> S] :
    \A i, j \in 1 .. Cardinality(S) : i < j => EarlierRow(s[i], s[j])

MergePage(existing, new) == SortedByTs(FirstOfKey(existing \o new))

(* Mutant of Flush: the existing page is read but not concatenated; the    *)
(* new rows replace it.                                                    *)
FlushOverwrites(w, ok) ==
  IF w.rows = <<>> THEN w
  ELSE LET b == IF w.bucket = None THEN 0 ELSE w.bucket
       IN [w EXCEPT !.pages[b] = w.rows, !.rows = <<>>]

(* flush: nothing without rows.  An existing page is read, concatenated,   *)
(* de-duplicated and sorted; if the read fails, or there is no page, the   *)
(* rows alone are written.  The rows are then cleared.                     *)
Flush(w, ok) ==
  IF w.rows = <<>> THEN w
  ELSE LET b == IF w.bucket = None THEN 0 ELSE w.bucket
           old == w.pages[b]
       IN [w EXCEPT !.pages[b] = IF old # <<>> /\ ok THEN MergePage(old, w.rows)
                                 ELSE w.rows,
                    !.rows = <<>>]

(* The ts values a page holds.                                            *)
PageTs(p) == {p[i].ts : i \in DOMAIN p}

(* A flush that will read an existing page and can fail.                   *)
ReadsPage(w) ==
  w.rows # <<>> /\ w.pages[IF w.bucket = None THEN 0 ELSE w.bucket] # <<>>

(* Mutant of Write: no flush when the bucket changes.                      *)
WriteNoRollover(w, row, ok) ==
  [w EXCEPT !.bucket = BucketStart(row.ts), !.rows = Append(w.rows, row)]

(* write: a row of another bucket first flushes the current one.           *)
Write(w, row, ok) ==
  LET b == BucketStart(row.ts)
      w1 == IF w.bucket # None /\ b # w.bucket THEN Flush(w, ok) ELSE w
  IN [w1 EXCEPT !.bucket = b, !.rows = Append(w1.rows, row)]

(* The write would flush first.                                            *)
RollsOver(w, row) == w.bucket # None /\ BucketStart(row.ts) # w.bucket
=============================================================================
