--------------------------- MODULE MetadataAnswers ---------------------------
(***************************************************************************)
(* Queries answered from fragment metadata instead of from the data.        *)
(*                                                                          *)
(* Every fragment (row group) has a `.meta` sidecar with per-column         *)
(* statistics (min, max, null count) and, when it was written by an INSERT  *)
(* of batches, an `.agg` sidecar with additive partials (count, sum, sum of *)
(* squares, the offsets of the extrema, and the same per value of a         *)
(* declared group key).  A DELETE leaves both sidecars as they are and      *)
(* publishes a new deletion vector.  The planner prunes fragments with the  *)
(* statistics, and the metadata-aggregate rule answers COUNT, MIN, MAX,     *)
(* SUM, AVG and VAR, range-filtered SUM and COUNT, and GROUP BY, from the   *)
(* sidecars; for a fragment with deletions it first retracts the deleted    *)
(* rows from the partials and caches the result.                            *)
(*                                                                          *)
(* A table has two columns: `k`, an integer that is also the declared group *)
(* key, and `v`, of type ColType.  The state is the live snapshot, the two  *)
(* process-wide caches and the last scan plan; the answers are operators on *)
(* the plan, compared with what a scan of the same plan's rows returns.     *)
(***************************************************************************)
EXTENDS Integers, Sequences, FiniteSets, FiniteSetsExt, Folds

CONSTANTS
  Null,          \* SQL NULL, and the None of an Option
  Inf, NaN,      \* the two non-finite floats the model tells apart
  Rescan,        \* "not answered from metadata": the original plan runs
  Width,         \* bits of an unsigned integer (64 in the code)
  Settings       \* the tables and environments considered, see below

\* A setting: the type of v, the non-null values of k and v, the literals of
\* predicates, the schema's partition columns, how statistics are made, the .agg a
\* batch INSERT leaves, how a DELETE is published (TRUE: the WAL), what may fail,
\* and bounds on the fragments, the rows of one, and the rows of the table.
ASSUME SettingsAssumption ==
  \A x \in Settings :
    /\ x.type \in {"int", "uint", "float", "str"}
    /\ x.keys \subseteq Int /\ x.values \subseteq Int \cup {Inf} /\ x.lits \subseteq Int
    /\ Inf \in x.values => x.type = "float"
    /\ x.type = "uint" => x.values \cup x.lits \subseteq 0 .. 2^Width - 1
    /\ x.part \subseteq {"k"} /\ x.paths \subseteq {"batch", "footer", "footer_no_nulls"}
    /\ x.sidecars \subseteq {"agg", "legacy"} /\ x.deferred \subseteq BOOLEAN
    /\ x.faults \subseteq {"meta", "restart"}
    /\ x.frags \in Nat /\ x.rows \in Nat /\ x.table \in Nat

VARIABLES
  frags,      \* the live snapshot: a sequence of fragments
  rowCounts,  \* whether the manifest carries row_counts
  metaCache,  \* ids of the fragments whose .meta is in the metadata cache
  aggCache,   \* live partials, keyed by <<fragment, deletion vector version>>
  plan,       \* the last scan plan, a sequence of planned row groups
  setting     \* the one of Settings this execution has

vars == <<frags, rowCounts, metaCache, aggCache, plan, setting>>

ColType == setting.type
Keys == setting.keys
Values == setting.values
Literals == setting.lits
PartitionBy == setting.part
Faults == setting.faults
MaxRows == setting.rows

Cols == {"k", "v"}
TypeOf(c) == IF c = "k" THEN "int" ELSE ColType
Numeric == {c \in Cols : TypeOf(c) # "str"}
Row == [k : Keys \cup {Null}, v : Values \cup {Null}]

-----------------------------------------------------------------------------
(* Arithmetic: integers (i128 in the code), and floats with Inf and NaN.    *)

Plus(a, b) ==
  IF NaN \in {a, b} THEN NaN ELSE IF Inf \in {a, b} THEN Inf ELSE a + b

Minus(a, b) ==
  IF NaN \in {a, b} \/ (a = Inf /\ b = Inf) THEN NaN ELSE IF a = Inf THEN Inf ELSE a - b

Square(a) == IF a = Inf THEN Inf ELSE a * a

SumOver(S, f(_)) == MapThenFoldSet(Plus, 0, f, LAMBDA T : CHOOSE t \in T : TRUE, S)

\* Order of the values: Inf is above every number.
Less(a, b) == a # Inf /\ (b = Inf \/ a < b)

Ends == {"min", "max"}
Pick(end, S) == IF end = "min" THEN Min(S) ELSE Max(S)

-----------------------------------------------------------------------------
(* Column statistics of a fragment.                                         *)

NonNull(rows, offs, c) == {o \in offs : rows[o][c] # Null}

\* compute_min_max: non-finite floats are skipped.
BatchStats(rows, c) ==
  LET some == NonNull(rows, DOMAIN rows, c)
      finite == {rows[o][c] : o \in some} \ {Inf}
  IN  [min |-> IF finite = {} THEN Null ELSE Min(finite),
       max |-> IF finite = {} THEN Null ELSE Max(finite),
       nulls |-> Len(rows) - Cardinality(some)]

\* parquet_stats_to_json: a non-finite bound is dropped; a string bound is
\* whatever the footer holds, and the footer truncates long strings.  The odd
\* values stand for those: down to the next even value as a minimum, up as a
\* maximum.
FooterMin(rows, c) ==
  LET x == BatchStats(rows, c).min
  IN  IF TypeOf(c) = "str" /\ x # Null THEN x - (x % 2) ELSE x

FooterMax(rows, c) ==
  LET x == BatchStats(rows, c).max
  IN  IF \E o \in DOMAIN rows : rows[o][c] = Inf THEN Null
      ELSE IF TypeOf(c) = "str" /\ x # Null THEN x + (x % 2) ELSE x

\* derive_footer_stats: a null count the footer does not have counts as zero.
FooterStats(rows, c, path) ==
  [min |-> FooterMin(rows, c), max |-> FooterMax(rows, c),
   nulls |-> IF path = "footer_no_nulls" THEN 0 ELSE BatchStats(rows, c).nulls]

StatsOf(rows, path) ==
  [c \in Cols |-> IF path = "batch" THEN BatchStats(rows, c) ELSE FooterStats(rows, c, path)]

\* compute_partition_values: recorded when k has one distinct non-null value;
\* derive_partition_values_from_stats also asks for a null count of zero.
PartitionValue(rows, path) ==
  LET ks == {rows[o].k : o \in DOMAIN rows} \ {Null}
      clean == path = "batch" \/ FooterStats(rows, "k", path).nulls = 0
  IN  IF PartitionBy # {} /\ Cardinality(ks) = 1 /\ clean THEN Max(ks) ELSE Null

-----------------------------------------------------------------------------
(* Additive partials: .agg sidecars, and their retraction.                  *)

\* The partial of column c over the rows at offs.
ColAgg(rows, offs, c) ==
  LET some == NonNull(rows, offs, c)
      val(o) == rows[o][c]
      sq(o) == Square(rows[o][c])
  IN  [n |-> Cardinality(some),
       s |-> IF some = {} THEN Null ELSE SumOver(some, val),
       q |-> IF some = {} THEN Null ELSE SumOver(some, sq)]

\* First offset of the extremum of an integer column, 0 if there is none.
FirstOff(rows, c, end) ==
  LET some == NonNull(rows, DOMAIN rows, c)
      best == Pick(end, {rows[o][c] : o \in some})
  IN  IF some = {} \/ TypeOf(c) = "float" THEN 0 ELSE Min({o \in some : rows[o][c] = best})

\* The partial of column c over the rows of group g among offs.
GroupAgg(rows, offs, g, c) == ColAgg(rows, {o \in offs : rows[o].k = g}, c)

GroupsOf(rows, offs) ==
  [g \in {rows[o].k : o \in DOMAIN rows} |-> [c \in Numeric |-> GroupAgg(rows, offs, g, c)]]

\* What the deleted rows of f contributed to column c.
DeletedContribution(f, c) == ColAgg(f.rows, f.del, c)

\* compute_agg_state_with_key; a legacy sidecar has neither offsets nor groups.
FullAgg(f) ==
  [cols |-> [c \in Numeric |-> ColAgg(f.rows, DOMAIN f.rows, c)],
   off |-> [c \in Numeric |->
              IF f.agg = "legacy" THEN [min |-> 0, max |-> 0]
              ELSE [end \in Ends |-> FirstOff(f.rows, c, end)]],
   live |-> [c \in Numeric |-> [min |-> Null, max |-> Null]],
   groups |-> IF f.agg = "legacy" THEN Null ELSE GroupsOf(f.rows, DOMAIN f.rows)]

\* Mutant: the sum keeps the deleted rows.
RetractColKeepsSum(full, del) ==
  [n |-> full.n - del.n, s |-> full.s, q |-> IF del.q = Null THEN full.q ELSE Minus(full.q, del.q)]

RetractCol(full, del) ==
  [n |-> full.n - del.n,
   s |-> IF del.s = Null THEN full.s ELSE Minus(full.s, del.s),
   q |-> IF del.q = Null THEN full.q ELSE Minus(full.q, del.q)]

ExtremumDeleted(off, del) == off # 0 /\ off \in del

\* scoped_recompute_extremum: the live rows up to the last deleted one, and
\* from there on as many as the metadata says the fragment has; a negative
\* extremum has no encoding and counts as unknown.
ScopedRecompute(f, total, c, end) ==
  LET seen == {o \in DOMAIN f.rows \ f.del : o < Max(f.del) \/ o <= total}
      vals == {f.rows[o][c] : o \in NonNull(f.rows, seen, c)}
  IN  IF vals = {} \/ TypeOf(c) = "str" THEN Null
      ELSE IF Pick(end, vals) >= 0 THEN Pick(end, vals) ELSE Null

\* resolve_live_extrema: float columns are skipped; otherwise the statistics
\* stand unless the row at the recorded offset is deleted.
LiveExtrema(f, meta, full, cols) ==
  [c \in Numeric |->
    IF TypeOf(c) = "float" /\ cols[c].s # Null THEN [min |-> Null, max |-> Null]
    ELSE [end \in Ends |-> IF ExtremumDeleted(full.off[c][end], f.del)
                           THEN ScopedRecompute(f, meta.rows, c, end)
                           ELSE meta.stats[c][end]]]

\* resolve_live_grouped.
LiveGroups(f, full) ==
  IF full.groups = Null THEN Null
  ELSE [g \in DOMAIN full.groups |->
          [c \in Numeric |-> RetractCol(full.groups[g][c], GroupAgg(f.rows, f.del, g, c))]]

LiveAgg(f, meta) ==
  LET full == FullAgg(f)
      cols == [c \in Numeric |-> RetractCol(full.cols[c], DeletedContribution(f, c))]
  IN  [full EXCEPT !.cols = cols,
                   !.live = LiveExtrema(f, meta, full, cols),
                   !.groups = LiveGroups(f, full)]

-----------------------------------------------------------------------------
(* Statements that change the snapshot, and scan planning.                  *)

Init ==
  /\ setting \in Settings
  /\ frags = <<>> /\ plan = <<>>
  /\ rowCounts = TRUE
  /\ metaCache = {}
  /\ aggCache = [key \in {} |-> Null]

TableRows == LET n(i) == Len(frags[i].rows) IN MapThenSumSet(n, DOMAIN frags)

\* collect_row_counts: the counts of the older fragments are copied or, when
\* the manifest has none, read from their .meta files; one failure drops them.
RowCountsAfterInsert == IF "meta" \in Faults THEN {rowCounts, TRUE} ELSE {TRUE}

\* INSERT of batches, or of a Parquet file (footer statistics, no .agg).
Insert(rows, path, agg) ==
  /\ Len(frags) < setting.frags /\ TableRows + Len(rows) <= setting.table
  /\ path # "batch" => agg = "none"
  /\ frags' = Append(frags, [rows |-> rows, stats |-> StatsOf(rows, path),
                             part |-> PartitionValue(rows, path), agg |-> agg,
                             del |-> {}, dv |-> 0])
  /\ rowCounts' \in RowCountsAfterInsert
  /\ plan' = <<>>
  /\ UNCHANGED <<metaCache, aggCache>>

\* DELETE of live rows of fragment i: a new version of its deletion vector.
\* Published as a manifest it keeps row_counts; through the mutation WAL it
\* drops them.
Delete(i, offs, deferred) ==
  /\ offs \cap frags[i].del = {}
  /\ frags' = [frags EXCEPT ![i].del = @ \cup offs, ![i].dv = @ + 1]
  /\ rowCounts' = (rowCounts /\ ~deferred)
  /\ plan' = <<>>
  /\ UNCHANGED <<metaCache, aggCache>>

\* The .meta of fragment i, or the placeholder used when it cannot be read.
MetaOf(i, readable) ==
  IF readable
  THEN [known |-> TRUE, rows |-> Len(frags[i].rows), stats |-> frags[i].stats]
  ELSE [known |-> FALSE, rows |-> IF rowCounts THEN Len(frags[i].rows) ELSE 0,
        stats |-> [c \in Cols |-> [min |-> Null, max |-> Null, nulls |-> 0]]]

\* build_scan_plan_from with allow_missing_meta: lost are the fragments whose
\* .meta cannot be read this time.  A live partial is computed once per
\* fragment and deletion vector and then taken from the cache.
BuildPlan(lost) ==
  LET meta(i) == MetaOf(i, i \notin lost)
      dirty == {i \in DOMAIN frags : frags[i].agg # "none" /\ frags[i].del # {}}
      cached == DOMAIN aggCache
      cache == [key \in cached \cup {<<i, frags[i].dv>> : i \in dirty} |->
                  IF key \in cached THEN aggCache[key] ELSE LiveAgg(frags[key[1]], meta(key[1]))]
  IN  /\ frags # <<>>
      /\ lost \cap metaCache = {}
      /\ metaCache' = DOMAIN frags \ lost
      /\ aggCache' = cache
      /\ plan' = [i \in DOMAIN frags |->
                    [frag |-> frags[i], meta |-> meta(i),
                     agg |-> IF frags[i].agg = "none" THEN Null
                             ELSE IF i \in dirty THEN cache[<<i, frags[i].dv>>]
                             ELSE FullAgg(frags[i])]]
      /\ UNCHANGED <<frags, rowCounts>>

\* A new process starts with empty caches (an LRU eviction empties a part).
Restart ==
  /\ "restart" \in Faults
  /\ metaCache' = {} /\ aggCache' = [key \in {} |-> Null] /\ plan' = <<>>
  /\ UNCHANGED <<frags, rowCounts>>

Batches == UNION {[1 .. n -> Row] : n \in 1 .. MaxRows}

Step ==
  \/ \E rows \in Batches, path \in setting.paths, agg \in setting.sidecars \cup {"none"} :
       Insert(rows, path, agg)
  \/ \E i \in DOMAIN frags, deferred \in setting.deferred :
       \E offs \in SUBSET (DOMAIN frags[i].rows) \ {{}} : Delete(i, offs, deferred)
  \/ \E lost \in SUBSET (IF "meta" \in Faults THEN DOMAIN frags ELSE {}) : BuildPlan(lost)
  \/ Restart

Next == Step /\ UNCHANGED setting

Spec == Init /\ [][Next]_vars

-----------------------------------------------------------------------------
(* Pruning.  A predicate compares column col with the literals lits (one,   *)
(* except for an IN list; none for IS NULL and IS NOT NULL).                *)

Comparisons == {"=", "<", "<=", ">", ">="}

Compare(op, a, b) ==
  CASE op = "="  -> a = b
    [] op = "<"  -> Less(a, b)
    [] op = "<=" -> ~Less(b, a)
    [] op = ">"  -> Less(b, a)
    [] op = ">=" -> ~Less(a, b)

Predicates ==
  [op : Comparisons, col : Cols, lits : {{l} : l \in Literals}]
    \cup [op : {"in"}, col : Cols, lits : {ls \in SUBSET Literals : Cardinality(ls) = 2}]
    \cup [op : {"is null", "is not null"}, col : Cols, lits : {{}}]

\* Whether SQL selects a row whose column has value x.
Selects(pred, x) ==
  CASE pred.op = "is null" -> x = Null
    [] pred.op = "is not null" -> x # Null
    [] pred.op = "in" -> x \in pred.lits
    [] OTHER -> x # Null /\ \E l \in pred.lits : Compare(pred.op, x, l)

\* scalar_to_literal: an unsigned literal is cast to a signed integer.
ToLiteral(c, l) ==
  IF TypeOf(c) = "uint" /\ l >= 2^(Width - 1) THEN l - 2^Width ELSE l

\* Mutant: an inclusive bound compared as a strict one.
MayHoldStrict(op, st, l) ==
  CASE op \in {"=", "in"} -> ~Less(l, st.min) /\ ~Less(st.max, l)
    [] op \in {"<", "<="} -> Less(st.min, l)
    [] op \in {">", ">="} -> Less(l, st.max)

\* Whether the interval of the statistics leaves room for op with literal l.
MayHold(op, st, l) ==
  CASE op \in {"=", "in"} -> ~Less(l, st.min) /\ ~Less(st.max, l)
    [] op \in {"<", "<="} -> Compare(op, st.min, l)
    [] op \in {">", ">="} -> Compare(op, st.max, l)

\* row_group_satisfies.
RowGroupSatisfies(pred, rg) ==
  LET st == rg.meta.stats[pred.col]
      lits == {ToLiteral(pred.col, l) : l \in pred.lits}
  IN  CASE pred.op = "is null" -> rg.meta.known => st.nulls # 0
        [] pred.op = "is not null" -> rg.meta.known => st.nulls # rg.meta.rows
        [] pred.op \in {"=", "in"} /\ pred.col \in PartitionBy ->
             rg.frag.part # Null => rg.frag.part \in lits
        [] OTHER -> (st.min # Null /\ st.max # Null) => \E l \in lits : MayHold(pred.op, st, l)

Prune(p, preds) == SelectSeq(p, LAMBDA rg : \A pred \in preds : RowGroupSatisfies(pred, rg))

-----------------------------------------------------------------------------
(* The metadata-aggregate rule: answers from a plan, or Rescan.             *)

Dirty(rg) == rg.frag.del # {}
Total(I, f(_)) == MapThenSumSet(f, I)

\* COUNT( * ).
CountStar(p) ==
  LET live(i) == LET m == p[i].meta.rows - Cardinality(p[i].frag.del) IN IF m > 0 THEN m ELSE 0
  IN  Total(DOMAIN p, live)

\* COUNT(c).
CountCol(p, c) ==
  LET unknown(rg) == ~rg.meta.known \/ (Dirty(rg) /\ (rg.agg = Null \/ c \notin Numeric))
      count(i) == IF Dirty(p[i]) THEN p[i].agg.cols[c].n ELSE p[i].meta.rows - p[i].meta.stats[c].nulls
  IN  IF \E i \in DOMAIN p : unknown(p[i]) THEN Rescan ELSE Total(DOMAIN p, count)

\* MIN(c) and MAX(c).
Extremum(p, c, end) ==
  LET bound(rg) == CASE ~rg.meta.known -> Null
                     [] ~Dirty(rg) -> rg.meta.stats[c][end]
                     [] rg.agg = Null \/ c \notin Numeric -> Null
                     [] OTHER -> rg.agg.live[c][end]
      bounds == {bound(p[i]) : i \in DOMAIN p}
  IN  IF TypeOf(c) = "float" \/ bounds = {} \/ Null \in bounds THEN Rescan ELSE Pick(end, bounds)

\* collect_col_partials: the first fragment decides whether sums are integers
\* or floats, and a fragment of the other kind ends the attempt.
ColPartials(p, c) ==
  LET unknown(rg) == ~rg.meta.known \/ rg.agg = Null
      sums == [i \in DOMAIN p |-> p[i].agg.cols[c]]
      kind == IF TypeOf(c) # "float" /\ sums[1].s # Null THEN "int" ELSE "float"
      n(i) == sums[i].n
      s(i) == sums[i].s
      q(i) == sums[i].q
      some == {i \in DOMAIN p : sums[i].s # Null}
  IN  IF c \notin Numeric \/ \E i \in DOMAIN p : unknown(p[i]) THEN Rescan
      ELSE IF p = <<>> THEN [kind |-> "null", n |-> 0, s |-> Null, q |-> Null]
      ELSE IF kind = "float" /\ TypeOf(c) # "float" /\ some # {} THEN Rescan
      ELSE [kind |-> kind, n |-> Total(DOMAIN p, n), s |-> SumOver(some, s), q |-> SumOver(some, q)]

\* SUM(c): the output of an unsigned column is unsigned, which is not composed,
\* and neither is a float sum for an integer output.
ComposeSum(p, c) ==
  LET t == ColPartials(p, c)
  IN  IF t = Rescan THEN Rescan
      ELSE IF t.kind # "null" /\ (TypeOf(c) = "uint" \/ t.kind # TypeOf(c)) THEN Rescan ELSE t.s

\* AVG(c), as the pair of the sum and the count it divides.
ComposeAvg(p, c) ==
  LET t == ColPartials(p, c)
  IN  IF t = Rescan THEN Rescan ELSE IF t.n = 0 THEN Null ELSE <<t.s, t.n>>

\* VAR_POP(c) (ddof 0) and VAR(c) (ddof 1), as numerator and denominator of
\* (q - s*s/n) / (n - ddof).
ComposeVariance(p, c, ddof) ==
  LET t == ColPartials(p, c)
  IN  IF t = Rescan THEN Rescan ELSE IF t.n <= ddof THEN Null
      ELSE <<t.n * t.q - t.s * t.s, t.n * (t.n - ddof)>>

-----------------------------------------------------------------------------
(* What a scan of the same plan returns: X is a set of <<fragment, offset>>. *)

ValueAt(p, x, c) == p[x[1]].frag.rows[x[2]][c]
LiveRows(p) ==
  {x \in (DOMAIN p) \X (1 .. MaxRows) : x[2] \in DOMAIN p[x[1]].frag.rows \ p[x[1]].frag.del}
Matching(p, preds) == {x \in LiveRows(p) : \A d \in preds : Selects(d, ValueAt(p, x, d.col))}

ScanNonNull(p, X, c) == {x \in X : ValueAt(p, x, c) # Null}
ScanSum(p, X, c) ==
  LET val(x) == ValueAt(p, x, c)
  IN  IF ScanNonNull(p, X, c) = {} THEN Null ELSE SumOver(ScanNonNull(p, X, c), val)
ScanSquares(p, X, c) ==
  LET val(x) == Square(ValueAt(p, x, c)) IN SumOver(ScanNonNull(p, X, c), val)
ScanCount(p, X, c) == Cardinality(ScanNonNull(p, X, c))

-----------------------------------------------------------------------------
(* Range-filtered SUM and COUNT: fragments the filter covers are answered   *)
(* from their partials, and only the boundary fragments are scanned.        *)

Covers(op, st, l) ==
  CASE op = "=" -> st.min = l /\ st.max = l
    [] op \in {"<", "<="} -> Compare(op, st.max, l)
    [] op \in {">", ">="} -> Compare(op, st.min, l)

Disjoint(op, st, l) == ~MayHold(op, st, l)

\* classify_fragment, for a conjunction of comparisons on one column.
Coverage(rg, preds) ==
  LET st(d) == rg.meta.stats[d.col]
      lit(d) == ToLiteral(d.col, CHOOSE l \in d.lits : TRUE)
      bounded == \A d \in preds : st(d).min # Null /\ st(d).max # Null
  IN  CASE bounded /\ (\E d \in preds : Disjoint(d.op, st(d), lit(d))) -> "disjoint"
        [] bounded /\ (\A d \in preds : st(d).nulls = 0 /\ Covers(d.op, st(d), lit(d))) -> "covered"
        [] OTHER -> "boundary"

\* covered_sum_const: without a value an integer sum is NULL, a float sum 0.
CoveredSum(p, covered, c) ==
  LET s(i) == p[i].agg.cols[c].s
      some == {i \in covered : s(i) # Null}
  IN  IF TypeOf(c) = "int" /\ some = {} THEN Null ELSE SumOver(some, s)

\* covered_count_const.
CoveredCount(p, covered, c) == LET n(i) == p[i].agg.cols[c].n IN Total(covered, n)
CoveredRows(p, covered) == LET rows(i) == p[i].meta.rows IN Total(covered, rows)

\* build_filtered_rewrite: the covered constant plus the boundary aggregate.
CombineSums(const, boundary) ==
  IF const = Null THEN boundary ELSE IF boundary = Null THEN const ELSE Plus(boundary, const)

\* The pieces of a filtered query on the pruned plan p.
FilteredAnswer(p, preds, fn, c) ==
  LET class(i) == Coverage(p[i], preds)
      covered == {i \in DOMAIN p : class(i) = "covered"}
      rest == {x \in Matching(p, preds) : class(x[1]) = "boundary"}
      composable == /\ \A i \in DOMAIN p : p[i].meta.known
                    /\ covered # {}
                    /\ \A i \in covered : ~Dirty(p[i]) /\ p[i].agg # Null
                    /\ fn = "count star" \/ c \in Numeric
                    /\ fn = "sum" => TypeOf(c) # "uint"
  IN  CASE ~composable -> Rescan
        [] fn = "count star" -> CoveredRows(p, covered) + Cardinality(rest)
        [] fn = "count" -> CoveredCount(p, covered, c) + ScanCount(p, rest, c)
        [] fn = "sum" -> CombineSums(CoveredSum(p, covered, c), ScanSum(p, rest, c))

-----------------------------------------------------------------------------
(* GROUP BY k from the per-group partials.  A query is a set of aggregates. *)

\* merge_grouped over the fragments that have group g.
MergedCol(p, g, c) ==
  LET has == {i \in DOMAIN p : g \in DOMAIN p[i].agg.groups}
      n(i) == p[i].agg.groups[g][c].n
      s(i) == p[i].agg.groups[g][c].s
      some == {i \in has : s(i) # Null}
  IN  [n |-> Total(has, n), s |-> IF some = {} THEN Null ELSE SumOver(some, s)]

\* compose_aggregate_for_group.
GroupValue(t, fn) ==
  CASE fn = "count" -> t.n
    [] fn = "sum" -> t.s
    [] fn = "avg" -> IF t.n = 0 \/ t.s = Null THEN Null ELSE <<t.s, t.n>>

\* compose_grouped_from_scan: a group without a non-null measure is ambiguous.
GroupedAnswer(p, query) ==
  LET groups == UNION {DOMAIN p[i].agg.groups : i \in DOMAIN p}
      col(g, a) == MergedCol(p, g, a.col)
      unknown(rg) == ~rg.meta.known \/ rg.agg = Null \/ rg.agg.groups = Null
      composable == \A a \in query : a.col \in Numeric /\ (a.fn = "sum" => TypeOf(a.col) # "uint")
  IN  IF ~composable \/ \E i \in DOMAIN p : unknown(p[i]) THEN Rescan
      ELSE IF \E g \in groups : \A a \in query : col(g, a).n = 0 THEN Rescan
      ELSE [g \in groups |-> [a \in query |-> GroupValue(col(g, a), a.fn)]]

ScanGroups(p, query) ==
  LET X(g) == {x \in LiveRows(p) : ValueAt(p, x, "k") = g}
      merged(g, c) == [n |-> ScanCount(p, X(g), c), s |-> ScanSum(p, X(g), c)]
  IN  [g \in {ValueAt(p, x, "k") : x \in LiveRows(p)} |->
         [a \in query |-> GroupValue(merged(g, a.col), a.fn)]]

-----------------------------------------------------------------------------
(* Properties.                                                              *)

\* Statistics say what the data is: no infinities (compute_min_max skips them),
\* null counts in every footer, and literals within the signed range.
StatisticsAreExact ==
  /\ Inf \notin Values
  /\ "footer_no_nulls" \notin setting.paths
  /\ ColType = "uint" => \A l \in Literals : l < 2^(Width - 1)

\* The row count of each planned fragment is known: from its .meta, or from a
\* manifest with row_counts.
RowsAreKnown == \A i \in DOMAIN plan : plan[i].meta.known \/ rowCounts

\* A partial that was retracted has the rows to look at and the offsets of its
\* extrema: no legacy sidecars, no placeholder without a row count.
ExtremaAreTracked ==
  /\ "legacy" \notin setting.sidecars
  /\ "meta" \notin Faults \/ setting.deferred = {FALSE}

\* The filters of a range-filtered aggregate: a comparison, or a range.
Filters ==
  LET cmp(op, c, l) == [op |-> op, col |-> c, lits |-> {l}]
  IN  {{cmp(op, c, l)} : op \in Comparisons, c \in Cols, l \in Literals}
        \cup {{cmp(">", c, l), cmp("<=", c, h)} : c \in Cols, l \in Literals, h \in Literals}

\* ScanPlan::prune drops a row group only when none of its live rows satisfies
\* the predicate, for every predicate the planner can push (reader.rs:147-149).
\* classify_fragment reports a fragment covered only when every row passes the
\* filter, and disjoint only when none does (metadata_aggregate.rs:576-590).
PruneIsSound ==
  StatisticsAreExact =>
    /\ \A d \in Predicates, x \in LiveRows(plan) :
         Selects(d, ValueAt(plan, x, d.col)) => RowGroupSatisfies(d, plan[x[1]])
    /\ \A preds \in Filters, i \in DOMAIN plan :
         LET rows == {x \in LiveRows(plan) : x[1] = i}
         IN  /\ Coverage(plan[i], preds) = "covered" => rows \subseteq Matching(plan, preds)
             /\ Coverage(plan[i], preds) = "disjoint" => rows \cap Matching(plan, preds) = {}

\* COUNT( * ) and COUNT(c) from metadata count the live rows of the plan, through
\* deletions, unreadable .meta files and cached partials (metadata_aggregate.rs:933-978).
CountsMatchScan ==
  /\ RowsAreKnown => CountStar(plan) = Cardinality(LiveRows(plan))
  /\ "footer_no_nulls" \notin setting.paths =>
       \A c \in Cols : CountCol(plan, c) \in {Rescan, ScanCount(plan, LiveRows(plan), c)}

\* MIN(c) and MAX(c) from metadata are attained by a live row and bound every
\* live row, also when the row that held the extremum has been deleted
\* (reader.rs:1353-1359).  The footer of a Parquet file may truncate a string.
MinMaxMatchScan ==
  \A c \in Cols :
    LET vals == {ValueAt(plan, x, c) : x \in ScanNonNull(plan, LiveRows(plan), c)}
        scan(end) == IF vals = {} THEN Null ELSE Pick(end, vals)
    IN  ExtremaAreTracked /\ (TypeOf(c) = "int" \/ setting.paths = {"batch"}) =>
          \A end \in Ends : Extremum(plan, c, end) = Rescan \/ Extremum(plan, c, end) = scan(end)

\* SUM(c) from partials is the sum a scan computes whenever some live row has a
\* value, and otherwise NULL or zero; an infinity, once deleted, leaves no number
\* (agg_cache.rs:886-967).
SumMatchesScan ==
  \A c \in Cols :
    LET scan == ScanSum(plan, LiveRows(plan), c)
        empty == IF scan = Null THEN {0} ELSE {}
        lost == IF TypeOf(c) = "float" /\ Inf \in Values THEN {NaN} ELSE {}
    IN  ComposeSum(plan, c) \in {Rescan, scan} \cup empty \cup lost

\* AVG, VAR_POP and VAR from partials divide the same moments as a scan
\* (metadata_aggregate.rs:1286-1357).
MomentsMatchScan ==
  Inf \notin Values =>
    \A c \in Cols :
      LET n == ScanCount(plan, LiveRows(plan), c)
          s == ScanSum(plan, LiveRows(plan), c)
          q == ScanSquares(plan, LiveRows(plan), c)
          var(ddof) == IF n <= ddof THEN Null ELSE <<n * q - s * s, n * (n - ddof)>>
      IN  /\ ComposeAvg(plan, c) \in {Rescan, IF n = 0 THEN Null ELSE <<s, n>>}
          /\ \A ddof \in {0, 1} : ComposeVariance(plan, c, ddof) \in {Rescan, var(ddof)}

\* A range-filtered SUM or COUNT, pruned, answered from the partials of the
\* covered fragments and a scan of the boundary ones, is what scanning the
\* whole plan returns (metadata_aggregate.rs:627-714).
FilteredMatchesScan ==
  StatisticsAreExact =>
    \A preds \in Filters :
      LET p == Prune(plan, preds)
          X == Matching(plan, preds)
          sum == FilteredAnswer(p, preds, "sum", "v")
          scan == ScanSum(plan, X, "v")
      IN  /\ FilteredAnswer(p, preds, "count star", "v") \in {Rescan, Cardinality(X)}
          /\ FilteredAnswer(p, preds, "count", "v") \in {Rescan, ScanCount(plan, X, "v")}
          /\ sum \in {Rescan, scan} \/ (ColType = "float" /\ scan = Null /\ sum = 0)

GroupAggregates == [fn : {"count", "sum", "avg"}, col : Cols]

\* GROUP BY k with one aggregate, composed from per-group partials, has the
\* groups and the values of a scan: no group of deleted rows, none missing
\* (metadata_aggregate.rs:1632-1774).
GroupedMatchesScan ==
  Inf \notin Values =>
    \A a \in GroupAggregates : GroupedAnswer(plan, {a}) \in {Rescan, ScanGroups(plan, {a})}

\* Whatever the plan, an aggregate answered from metadata is the one a scan of
\* its live rows returns, or the rule declines and the scan is made
\* (README.md:37-40): counts, extrema, sums, moments, filtered and grouped.
AnswersMatchScan ==
  /\ CountsMatchScan /\ MinMaxMatchScan /\ SumMatchesScan /\ MomentsMatchScan
  /\ FilteredMatchesScan /\ GroupedMatchesScan
=============================================================================
