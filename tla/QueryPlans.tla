----------------------------- MODULE QueryPlans -----------------------------
(***************************************************************************)
(* The rewriting of physical query plans and what the rewritten plans      *)
(* compute: the optimizer rules of icefalldb-query/src/rules in the order  *)
(* session.rs and rules/mod.rs register them, the lookup join of           *)
(* execution/lookup_join.rs, and the streaming group-by of GroupBy.        *)
(*                                                                         *)
(* A plan is a tree of records; "op" names the operator.  "scan" is        *)
(* IcefallDBScanExec, "source" DataFusion's own Parquet or memory source,  *)
(* "hash" and "coalesce" are the partition-only operators.  A row is a     *)
(* tuple, and a column of a plan a position with a name and a type.  A     *)
(* float is counted in halves, so that 3 is 1.5, and a single (Float32),   *)
(* which has fewer bits, is an even number of them; other values stand for *)
(* themselves, "tiny" being an integer type narrower than "int".           *)
(* Deletions and inserts change the table before the query is planned; the *)
(* query then reads one snapshot of it.                                    *)
(***************************************************************************)
EXTENDS GroupBy, FiniteSets, SequencesExt, FiniteSetsExt

CONSTANTS
    Null,               \* SQL NULL, and "not known" for a statistic
    Settings,           \* the tables, table operations and queries explored
    GroupThreshold,     \* low_cardinality_group_by_threshold
    TinyThreshold,      \* tiny_build_join_threshold
    LookupThreshold,    \* lookup_join_threshold
    SumBits,            \* the width of the integer type of a SUM
    MaxOps              \* bound on the table operations before a query

VARIABLES
    setting,    \* the setting this behaviour runs in
    tables,     \* table -> [schema, sort, frags, next], next the next row id
    ops,        \* the table operations so far
    query,      \* the plan DataFusion hands to the rules, or Null
    plan,       \* the plan as rewritten so far, or Null
    stage,      \* the rule that is next, see Rules
    answer      \* Null, or whether the query succeeded and the bag of its rows

vars == <<setting, tables, ops, query, plan, stage, answer, streamVars>>

-----------------------------------------------------------------------------
(* Tables: what a fragment's sidecar says of it *)

Field(name, type) == [name |-> name, type |-> type]

(* A fragment: its rows in file order, the offsets its deletion vector     *)
(* holds, its row ids (<<>>: legacy), and of its sidecar the sort claim    *)
(* and whether there are min/max statistics ("full", "fallback", "none" or *)
(* "absent": no entry for the column).                                     *)
Fragment(rows, ids, sort, stats) ==
    [rows |-> rows, ids |-> ids, dead |-> {}, sort |-> sort, stats |-> stats]

Rank(v) == IF v = Null THEN -1 ELSE v

PositionOf(schema, name) == CHOOSE i \in DOMAIN schema : schema[i].name = name

LiveIndexes(f) == SelectSeq([i \in 1..Len(f.rows) |-> i], LAMBDA i: i \notin f.dead)

LiveRows(f) == [j \in DOMAIN LiveIndexes(f) |-> f.rows[LiveIndexes(f)[j]]]

LiveIds(f) == IF f.ids = <<>> THEN <<>> ELSE [j \in DOMAIN LiveIndexes(f) |-> f.ids[LiveIndexes(f)[j]]]

LexBefore(a, b, at) ==
    \E k \in DOMAIN at : /\ Rank(a[at[k]]) < Rank(b[at[k]])
                         /\ \A m \in 1..(k - 1) : a[at[m]] = b[at[m]]

(* maybe_sort_batch: lexsort_to_indices, ascending, NULLs first. *)
MaybeSort(rows, at) == IF at = <<>> THEN rows ELSE SortSeq(rows, LAMBDA a, b: LexBefore(a, b, at))

(* The sort a writer puts into the sidecar of a row group: the schema's,   *)
(* whatever the order of the rows it writes.                               *)
SortClaim(table) == table.sort

(* compute_row_group_meta for an insert: rows in the order they came. *)
WithInsert(table, rows) ==
    [table EXCEPT !.frags = Append(@, Fragment(rows, [i \in DOMAIN rows |-> table.next + i - 1], SortClaim(table), "full")),
                  !.next = @ + Len(rows)]

(* Compaction into one row group, with the sort keys of `optimize --sort`; *)
(* without keys the schema keeps the sort it had (prepare_schema_for_sort) *)
(* and the rows go by row id.  The ids keep the order they had before the  *)
(* sort.                                                                   *)
WithOptimize(table, keys) ==
    LET sorted == [table EXCEPT !.sort = IF keys = <<>> THEN @ ELSE keys]
        at == [k \in DOMAIN keys |-> PositionOf(table.schema, keys[k])]
        out == MaybeSort(FlattenSeq([f \in DOMAIN table.frags |-> LiveRows(table.frags[f])]), at)
        ids == FlattenSeq([f \in DOMAIN table.frags |-> LiveIds(table.frags[f])])
    IN [sorted EXCEPT !.frags = IF out = <<>> THEN <<>> ELSE <<Fragment(out, ids, SortClaim(sorted), "full")>>]

(* The row's offset in the fragment's deletion vector. *)
WithDelete(table, f, i) == [table EXCEPT !.frags[f].dead = @ \union {i}]

-----------------------------------------------------------------------------
(* Plans *)

Scan(t, cols) == [op |-> "scan", table |-> t, cols |-> cols, preds |-> <<>>, targets |-> Null]

Source(t, cols) == [Scan(t, cols) EXCEPT !.op = "source"]

Filter(in, pred) == [op |-> "filter", in |-> in, pred |-> pred]

Coalesce(in) == [op |-> "coalesce", in |-> in]

Hash(in, at) == [op |-> "hash", in |-> in, at |-> at]

(* An inner join on one pair of columns.  Its type may also be "right",    *)
(* which keeps the probe rows without a match; also is a second pair of    *)
(* keys, extra a pair of columns a join filter compares by <.              *)
Join(b, p, bi, pi, mode) ==
    [op |-> "join", build |-> b, probe |-> p, bi |-> bi, pi |-> pi, mode |-> mode,
     type |-> "inner", nulls |-> FALSE, also |-> <<>>, extra |-> <<>>]

Aggregate(mode, groups_, aggs, in) ==
    [op |-> "agg", mode |-> mode, groups |-> groups_, aggs |-> aggs, in |-> in]

Stream(groups_, aggs, in) == [op |-> "stream", groups |-> groups_, aggs |-> aggs, in |-> in]

Agg(fn, at, as) == [fn |-> fn, at |-> at, as |-> as, distinct |-> FALSE, filtered |-> FALSE]

Inputs(p) == CASE p.op \in {"scan", "source"} -> <<>>
               [] p.op = "join" -> <<p.build, p.probe>>
               [] p.op = "lookup" -> <<p.probe>>
               [] OTHER -> <<p.in>>

(* with_new_children *)
WithInputs(p, in) == CASE p.op \in {"scan", "source"} -> p
                       [] p.op = "join" -> [p EXCEPT !.build = in[1], !.probe = in[2]]
                       [] p.op = "lookup" -> [p EXCEPT !.probe = in[1]]
                       [] OTHER -> [p EXCEPT !.in = in[1]]

PseudoRowId == Field("_rowid", "int")

(* The input whose raw rows an aggregate groups, below its partial phase. *)
RawInput(p) ==
    CASE p.op = "stream" \/ p.mode \in {"single", "partial"} -> p.in
      [] p.in.op = "hash" -> Hash(p.in.in.in, p.groups[1])
      [] p.in.op = "coalesce" -> Coalesce(p.in.in.in)
      [] OTHER -> p.in.in

RECURSIVE Schema(_)
Schema(p) ==
    CASE p.op \in {"scan", "source"} ->
            LET schema == tables[p.table].schema
            IN [i \in DOMAIN p.cols |-> IF p.cols[i] = "_rowid" THEN PseudoRowId
                                        ELSE schema[PositionOf(schema, p.cols[i])]]
      [] p.op \in {"filter", "coalesce", "hash"} -> Schema(p.in)
      [] p.op = "join" -> Schema(p.build) \o Schema(p.probe)
      [] p.op = "lookup" -> p.schema \o Schema(p.probe)
      [] OTHER -> [g \in DOMAIN p.groups |-> Schema(RawInput(p))[p.groups[g]]]
                     \o [a \in DOMAIN p.aggs |-> Field(p.aggs[a].as, "int")]

-----------------------------------------------------------------------------
(* What a plan computes: DataFusion's operators over the scan *)

Compare(cmp, a, b) == CASE cmp = "=" -> a = b [] cmp = "<" -> a < b [] cmp = ">" -> a > b

Floats == {"float", "single"}

MaxOf(type) == CASE type = "tiny" -> 3 [] OTHER -> 1000

(* The nearest single, the even one of two. *)
Nearest(v) == IF v % 2 = 0 THEN v ELSE 4 * ((v + 1) \div 4)

(* arrow's cast: a float to an integer truncates, a value out of range of  *)
(* the target has no cast.                                                 *)
Cast(v, from, to) ==
    LET halves == IF from \in Floats THEN v ELSE 2 * v
        whole == halves \div 2
    IN CASE v = Null -> Null
         [] to = "float" -> halves
         [] to = "single" -> Nearest(halves)
         [] OTHER -> IF whole > MaxOf(to) THEN Null ELSE whole

Cmp(at, cmp, v) == [kind |-> "cmp", at |-> at, cmp |-> cmp, v |-> v]

CastCmp(at, to, cmp, v) == [kind |-> "cast", at |-> at, to |-> to, cmp |-> cmp, v |-> v]

InList(at, vals) == [kind |-> "in", at |-> at, vals |-> vals]

InRange(at, lo, hi) == [kind |-> "range", at |-> at, lo |-> lo, hi |-> hi]

(* build_filter_expr's predicates, combined with AND. *)
Conjunction(preds) == IF Len(preds) = 1 THEN preds[1] ELSE [kind |-> "and", all |-> preds]

(* Whether a row passes a predicate; a comparison with NULL does not. *)
Holds(pred, row, schema) ==
    LET v == row[pred.at] IN
    /\ v # Null
    /\ CASE pred.kind = "cmp" -> Compare(pred.cmp, v, pred.v)
         [] pred.kind = "cast" -> Compare(pred.cmp, Cast(v, schema[pred.at].type, pred.to), pred.v)
         [] pred.kind = "in" -> v \in pred.vals
         [] pred.kind = "range" -> pred.lo <= v /\ v <= pred.hi

Passes(pred, row, schema) ==
    IF pred.kind = "and" THEN \A i \in DOMAIN pred.all : Holds(pred.all[i], row, schema)
    ELSE Holds(pred, row, schema)

RowIdAt(f, i) == IF i \in DOMAIN f.ids THEN f.ids[i] ELSE 0

(* The row selection of with_rowid_targets: a row without an id is never   *)
(* selected.                                                               *)
Selected(f, targets, i) == targets = Null \/ (i \in DOMAIN f.ids /\ f.ids[i] \in targets)

ScanRows(f, p, schema) ==
    LET live == SelectSeq(LiveIndexes(f), LAMBDA i: Selected(f, p.targets, i))
        cell(i, c) == IF c = "_rowid" THEN RowIdAt(f, i) ELSE f.rows[i][PositionOf(schema, c)]
    IN [j \in DOMAIN live |-> [c \in DOMAIN p.cols |-> cell(live[j], p.cols[c])]]

KeyTuple(row, at) == [k \in DOMAIN at |-> row[at[k]]]

(* The two's complement value of a number in the type of a SUM. *)
Wrapped(v) == ((v + 2^(SumBits - 1)) % 2^SumBits) - 2^(SumBits - 1)

(* The argument of an aggregate in a row; COUNT( * ) counts a literal. *)
ArgumentOf(a, row) == IF a.at = 0 THEN 1 ELSE row[a.at]

(* DataFusion's accumulators: a SUM wraps at every addition. *)
AggregateOf(a, rows) ==
    LET vals == SelectSeq([i \in DOMAIN rows |-> ArgumentOf(a, rows[i])], LAMBDA v: v # Null)
        sum == FoldSeq(LAMBDA v, s: v + s, 0, vals)
    IN CASE a.fn = "count" -> IF a.distinct THEN Cardinality(Range(vals)) ELSE Len(vals)
         [] a.fn = "max" -> IF vals = <<>> THEN Null ELSE Max(Range(vals))
         [] a.fn = "sum" -> IF vals = <<>> THEN Null ELSE FoldSeq(LAMBDA v, s: Wrapped(v + s), 0, vals)
         [] a.fn = "avg" -> IF vals = <<>> THEN Null ELSE <<sum, Len(vals)>>

GroupRow(p, rows) ==
    KeyTuple(rows[1], p.groups) \o [a \in DOMAIN p.aggs |-> AggregateOf(p.aggs[a], rows)]

GroupRows(p, rows) ==
    LET keys == SetToSeq({KeyTuple(rows[i], p.groups) : i \in DOMAIN rows})
        of(k) == SelectSeq(rows, LAMBDA r: KeyTuple(r, p.groups) = k)
    IN [i \in DOMAIN keys |-> GroupRow(p, of(keys[i]))]

KeysMatch(a, b, nulls) == a = b /\ (a # Null \/ nulls)

Matching(p, b, r) ==
    /\ KeysMatch(b[p.bi], r[p.pi], p.nulls)
    /\ p.also # <<>> => KeysMatch(b[p.also[1]], r[p.also[2]], p.nulls)
    /\ p.extra # <<>> => LET x == b[p.extra[1]]
                            y == r[p.extra[2]]
                        IN x # Null /\ y # Null /\ x < y

JoinRows(p, build, probe) ==
    LET padding == [c \in DOMAIN Schema(p.build) |-> Null]
        hits(r) == LET met == SelectSeq(build, LAMBDA b: Matching(p, b, r))
                   IN IF met = <<>> /\ p.type = "right" THEN <<padding>> ELSE met
    IN FlattenSeq([i \in DOMAIN probe |->
                      [h \in DOMAIN hits(probe[i]) |-> hits(probe[i])[h] \o probe[i]]])

(* build_index: the build rows of every key that is not NULL. *)
BuildIndex(rows, at) ==
    [k \in {rows[i][at] : i \in DOMAIN rows} \ {Null} |-> SelectSeq(rows, LAMBDA b: b[at] = k)]

(* build_output_batch: a probe row with each build row of its key. *)
LookupRows(index, pi, probe) ==
    LET hits(r) == IF r[pi] \in DOMAIN index THEN index[r[pi]] ELSE <<>>
    IN FlattenSeq([i \in DOMAIN probe |-> [h \in DOMAIN hits(probe[i]) |-> hits(probe[i])[h] \o probe[i]]])

HashPartitions == 2

HashOf(v) == (Rank(v) + 1) % HashPartitions

RECURSIVE Parts(_)
(* The partitions a plan yields, each a sequence of rows. *)
Parts(p) ==
    CASE p.op \in {"scan", "source"} ->
            LET t == tables[p.table]
                keep(r) == \A i \in DOMAIN p.preds : Passes(p.preds[i], r, Schema(p))
                parts == [f \in DOMAIN t.frags |-> SelectSeq(ScanRows(t.frags[f], p, t.schema), keep)]
            IN IF p.op = "source" \/ parts = <<>> THEN <<FlattenSeq(parts)>> ELSE parts
      [] p.op = "filter" ->
            LET in == Parts(p.in)
            IN [i \in DOMAIN in |-> SelectSeq(in[i], LAMBDA r: Passes(p.pred, r, Schema(p.in)))]
      [] p.op = "coalesce" -> <<FlattenSeq(Parts(p.in))>>
      [] p.op = "hash" ->
            LET rows == FlattenSeq(Parts(p.in))
            IN [h \in 1..HashPartitions |-> SelectSeq(rows, LAMBDA r: HashOf(r[p.at]) = h - 1)]
      [] p.op = "join" ->
            LET probe == Parts(p.probe)
                build == Parts(p.build)
            IN [i \in DOMAIN probe |->
                   JoinRows(p, IF p.mode = "partitioned" THEN build[i] ELSE FlattenSeq(build), probe[i])]
      [] p.op = "lookup" ->
            LET probe == Parts(p.probe)
            IN [i \in DOMAIN probe |-> LookupRows(p.index, p.pi, probe[i])]
      [] OTHER ->
            LET raw == Parts(RawInput(p)) IN [i \in DOMAIN raw |-> GroupRows(p, raw[i])]

AsBag(rows) == [r \in Range(rows) |-> Cardinality({i \in DOMAIN rows : rows[i] = r})]

Result(p) == AsBag(FlattenSeq(Parts(p)))

-----------------------------------------------------------------------------
(* Statistics the rules read *)

(* partition_statistics(None): exact while no filter was pushed down.  The *)
(* partition-only operators pass their input's on.                         *)
RECURSIVE ExactRows(_)
ExactRows(p) ==
    CASE p.op \in {"scan", "source"} /\ p.preds = <<>> -> Len(FlattenSeq(Parts(p)))
      [] p.op \in {"hash", "coalesce"} -> ExactRows(p.in)
      [] OTHER -> Null

(* The min and max of a column: a scan reports none, a Parquet source its  *)
(* file statistics.                                                        *)
RECURSIVE ColumnRange(_, _)
ColumnRange(p, at) ==
    CASE p.op = "source" /\ p.preds = <<>> ->
            LET vals == {r[at] : r \in Range(FlattenSeq(Parts(p)))} \ {Null}
            IN IF vals = {} THEN Null ELSE <<Min(vals), Max(vals)>>
      [] p.op \in {"hash", "coalesce"} -> ColumnRange(p.in, at)
      [] OTHER -> Null

(* shared_sort and compute_properties: the sort every fragment claims,     *)
(* less the columns the scan does not read.                                *)
AdvertisedSort(p) ==
    LET frags == tables[p.table].frags
        shared == frags # <<>> /\ frags[1].sort # Null /\ \A f \in DOMAIN frags : frags[f].sort = frags[1].sort
    IN IF shared THEN SelectSeq(frags[1].sort, LAMBDA c: c \in Range(p.cols)) ELSE <<>>

-----------------------------------------------------------------------------
(* rules/simplify_cast_predicates.rs *)

(* cast_literal_to_source: numbers to a float column, integers to an       *)
(* integer one; a literal the column's type cannot hold keeps the cast.    *)
LiteralToSource(v, from, to) ==
    IF from \in Floats /\ to \notin Floats THEN Null ELSE Cast(v, from, to)

SimplifyPred(pred, schema) ==
    LET to == schema[pred.at].type
        lit == LiteralToSource(pred.v, pred.to, to)
    IN IF pred.kind = "cast" /\ lit # Null THEN Cmp(pred.at, pred.cmp, lit) ELSE pred

RECURSIVE SimplifyCasts(_)
SimplifyCasts(p) ==
    LET q == WithInputs(p, [i \in DOMAIN Inputs(p) |-> SimplifyCasts(Inputs(p)[i])])
    IN CASE q.op = "filter" -> [q EXCEPT !.pred = IF @.kind = "cast" THEN SimplifyPred(@, Schema(q.in)) ELSE @]
         [] q.op \in {"scan", "source"} ->
               [q EXCEPT !.preds = [i \in DOMAIN @ |-> IF @[i].kind = "cast" THEN SimplifyPred(@[i], Schema(q)) ELSE @[i]]]
         [] OTHER -> q

-----------------------------------------------------------------------------
(* rules/low_cardinality_group_by.rs *)

Lesser(a, b) == IF a < b THEN a ELSE b

(* estimate_column_groups *)
ColumnGroups(in, at, rows) ==
    LET range == ColumnRange(in, at)
    IN IF range = Null \/ Schema(in)[at].type \in Floats THEN rows
       ELSE Lesser(range[2] - range[1] + 1, rows)

EstimateGroups(in, at, rows) ==
    Lesser(FoldSeq(LAMBDA g, n: n * ColumnGroups(in, g, rows), 1, at), rows)

(* can_rewrite_aggregate *)
CanCollapse(p) == p.groups # <<>> /\ \A a \in DOMAIN p.aggs : ~p.aggs[a].distinct

CollapseNode(p) ==
    IF /\ p.op = "agg" /\ p.mode = "finalPartitioned"
       /\ p.in.op = "agg" /\ p.in.mode = "partial"
       /\ CanCollapse(p.in)
       /\ ExactRows(p.in.in) # Null
       /\ EstimateGroups(p.in.in, p.groups, ExactRows(p.in.in)) <= GroupThreshold
    THEN Aggregate("single", p.groups, p.aggs, Coalesce(p.in.in))
    ELSE p

RECURSIVE LowCardinality(_)
LowCardinality(p) == CollapseNode(WithInputs(p, [i \in DOMAIN Inputs(p) |-> LowCardinality(Inputs(p)[i])]))

-----------------------------------------------------------------------------
(* rules/sorted_group_by.rs *)

RECURSIVE ScanBelowFilters(_)
(* find_scan_with_filters *)
ScanBelowFilters(p) == CASE p.op = "filter" -> ScanBelowFilters(p.in)
                         [] p.op = "scan" -> p
                         [] OTHER -> Null

(* ordering_covers_groups: the group keys are a prefix of the ordering. *)
OrderingCovers(scan, at) ==
    LET sort == AdvertisedSort(scan)
    IN Len(at) <= Len(sort) /\ \A k \in DOMAIN at : scan.cols[at[k]] = sort[k]

Streamable(aggs) ==
    \A a \in DOMAIN aggs : ~aggs[a].distinct /\ ~aggs[a].filtered /\ aggs[a].fn \in {"count", "sum", "avg"}

StreamNode(p) ==
    LET raw == IF p.mode = "single" THEN p ELSE p.in
        scan == ScanBelowFilters(raw.in)
        direct == \/ p.mode = "single"
                  \/ p.mode \in {"final", "finalPartitioned"} /\ p.in.op = "agg" /\ p.in.mode = "partial"
    IN IF p.op = "agg" /\ p.groups # <<>> /\ direct /\ scan # Null
            /\ OrderingCovers(scan, p.groups) /\ Streamable(p.aggs)
       THEN Stream(p.groups, p.aggs, raw.in)
       ELSE p

RECURSIVE SortedGroupBy(_)
SortedGroupBy(p) ==
    LET q == WithInputs(p, [i \in DOMAIN Inputs(p) |-> SortedGroupBy(Inputs(p)[i])])
    IN IF q.op = "agg" THEN StreamNode(q) ELSE q

-----------------------------------------------------------------------------
(* The join rules.  A spec is a column name and typed values. *)

RECURSIVE BuildRows(_)
(* build_side_row_count: through the partition-only operators. *)
BuildRows(p) == IF p.op \in {"hash", "coalesce"} THEN BuildRows(p.in) ELSE ExactRows(p)

(* rules/broadcast_tiny_join.rs: a partitioned inner join. *)
BroadcastNode(p) ==
    IF /\ p.op = "join" /\ p.mode = "partitioned" /\ p.type = "inner"
       /\ BuildRows(p.build) # Null /\ BuildRows(p.build) <= TinyThreshold
    THEN [p EXCEPT !.mode = "collect"]
    ELSE p

RECURSIVE BroadcastTiny(_)
BroadcastTiny(p) == BroadcastNode(WithInputs(p, [i \in DOMAIN Inputs(p) |-> BroadcastTiny(Inputs(p)[i])]))

InSpec(name, type, vals) == [name |-> name, type |-> type, vals |-> vals, range |-> FALSE]

RangeSpec(name, type, vals) == [name |-> name, type |-> type, vals |-> vals, range |-> TRUE]

NamedIn(schema, name) == {i \in DOMAIN schema : schema[i].name = name}

(* Wrong on purpose: the range of the keys, its upper end left out. *)
SpecPredOpen(spec, schema) ==
    LET at == Min(NamedIn(schema, spec.name))
        vals == {Cast(v, spec.type, schema[at].type) : v \in spec.vals}
    IN IF spec.range THEN InRange(at, Min(vals), Max(vals) - 1) ELSE InList(at, vals)

(* build_filter_expr: the first column of that name, the values cast to    *)
(* its type.                                                               *)
SpecPred(spec, schema) ==
    LET at == Min(NamedIn(schema, spec.name))
        vals == {Cast(v, spec.type, schema[at].type) : v \in spec.vals}
    IN IF spec.range THEN InRange(at, Min(vals), Max(vals)) ELSE InList(at, vals)

(* A spec that has its column and whose values have a cast to its type. *)
Fits(spec, schema) ==
    /\ NamedIn(schema, spec.name) # {}
    /\ \A v \in spec.vals : Cast(v, spec.type, schema[Min(NamedIn(schema, spec.name))].type) # Null

RECURSIVE PushSpecs(_, _)
(* push_filter_specs_into_scan: one filter above every scan of the plan    *)
(* that has a column of the name.                                          *)
PushSpecs(p, specs) ==
    IF p.op = "scan"
    THEN LET built == SelectSeq(specs, LAMBDA s: Fits(s, Schema(p)))
         IN IF built = <<>> THEN p
            ELSE Filter(p, Conjunction([i \in DOMAIN built |-> SpecPred(built[i], Schema(p))]))
    ELSE WithInputs(p, [i \in DOMAIN Inputs(p) |-> PushSpecs(Inputs(p)[i], specs)])

RECURSIVE HasSource(_)
(* contains_native_datasource *)
HasSource(p) == p.op = "source" \/ \E i \in DOMAIN Inputs(p) : HasSource(Inputs(p)[i])

(* extend_values: every key is cast to a 64-bit integer.  (Text, which is  *)
(* not, is no type of this model.)                                         *)
KeyType == "int"

(* execute_build_side_values: the distinct keys. *)
KeyValues(p, at) ==
    LET keys == {r[at] : r \in Range(FlattenSeq(Parts(p)))} \ {Null}
    IN {Cast(v, Schema(p)[at].type, KeyType) : v \in keys}

(* extract_equi_keys: an inner join on one pair of columns. *)
EquiKeys(p) == p.op = "join" /\ p.type = "inner" /\ p.also = <<>>

(* rules/tiny_build_join.rs *)
TinyBuildNode(p) ==
    LET n == BuildRows(p.build)
        vals == KeyValues(p.build, p.bi)
        name == Schema(p.probe)[p.pi].name
    IN IF ~EquiKeys(p) THEN p
       ELSE IF n = Null \/ n > TinyThreshold \/ HasSource(p.probe) \/ vals = {} THEN p
       ELSE [p EXCEPT !.probe = PushSpecs(@, <<InSpec(name, KeyType, vals), RangeSpec(name, KeyType, vals)>>)]

RECURSIVE TinyBuild(_)
TinyBuild(p) == TinyBuildNode(WithInputs(p, [i \in DOMAIN Inputs(p) |-> TinyBuild(Inputs(p)[i])]))

(* rules/lookup_join.rs: no join filter, NULL keys that match nothing, a   *)
(* small build side and keys of a supported type, of the ones here "int"   *)
(* alone, which is not looked at when there is no build row.               *)
LookupNode(p) ==
    IF /\ EquiKeys(p) /\ p.extra = <<>> /\ ~p.nulls
       /\ BuildRows(p.build) # Null /\ BuildRows(p.build) <= LookupThreshold
       /\ Schema(p.build)[p.bi].type = "int" \/ FlattenSeq(Parts(p.build)) = <<>>
    THEN [op |-> "lookup", schema |-> Schema(p.build), probe |-> p.probe, pi |-> p.pi,
          index |-> BuildIndex(FlattenSeq(Parts(p.build)), p.bi)]
    ELSE p

RECURSIVE Lookup(_)
Lookup(p) == LookupNode(WithInputs(p, [i \in DOMAIN Inputs(p) |-> Lookup(Inputs(p)[i])]))

-----------------------------------------------------------------------------
(* rules/dynamic_filter_pushdown.rs *)

Physical(f, at) == {f.rows[i][at] : i \in DOMAIN f.rows} \ {Null}

(* min_max_from_row_groups: the sidecars of every row group, deleted rows  *)
(* included; a row group without statistics gives up.                      *)
RowGroupRange(p, at) ==
    LET frags == tables[p.table].frags
        vals(f) == Physical(frags[f], PositionOf(tables[p.table].schema, p.cols[at]))
        known == \A f \in DOMAIN frags : frags[f].stats = "full" /\ vals(f) # {}
        all == UNION {vals(f) : f \in DOMAIN frags}
    IN IF ~known \/ all = {} THEN Null ELSE <<Min(all), Max(all)>>

(* build_side_min_max *)
BuildRange(p, at) ==
    IF p.op = "scan" /\ RowGroupRange(p, at) # Null THEN RowGroupRange(p, at) ELSE ColumnRange(p, at)

(* A scan whose sidecars have no entry for the key: the rule returns       *)
(* StatsUnavailable, and the query fails.                                  *)
StatsMissing(p) ==
    /\ EquiKeys(p) /\ p.build.op = "scan"
    /\ LET frags == tables[p.build.table].frags
           missing(f) == p.build.cols[p.bi] = "_rowid" \/ frags[f].stats = "absent"
       IN \E f \in DOMAIN frags : missing(f) /\ \A g \in 1..(f - 1) : frags[g].stats = "full"

DynamicNode(p) ==
    LET range == BuildRange(p.build, p.bi)
        spec == RangeSpec(Schema(p.probe)[p.pi].name, Schema(p.build)[p.bi].type, Range(range))
    IN IF ~EquiKeys(p) THEN p
       ELSE IF range = Null THEN p
       ELSE [p EXCEPT !.probe = PushSpecs(@, <<spec>>)]

RECURSIVE DynamicFilters(_)
DynamicFilters(p) == DynamicNode(WithInputs(p, [i \in DOMAIN Inputs(p) |-> DynamicFilters(Inputs(p)[i])]))

RECURSIVE DynamicFails(_)
DynamicFails(p) == StatsMissing(p) \/ \E i \in DOMAIN Inputs(p) : DynamicFails(Inputs(p)[i])

-----------------------------------------------------------------------------
(* rules/rowid_selection_pushdown.rs *)

RECURSIVE WithTargets(_, _)
(* rewrite_scan_with_targets: through the partition-only operators. *)
WithTargets(p, ids) == CASE p.op = "scan" -> [p EXCEPT !.targets = ids]
                         [] p.op \in {"hash", "coalesce"} -> [p EXCEPT !.in = WithTargets(@, ids)]
                         [] OTHER -> p

(* collect_rowid_targets: an equality or an IN list over _rowid alone. *)
RowIdTargets(pred, schema) ==
    CASE pred.kind = "and" -> {}
      [] schema[pred.at].name # "_rowid" -> {}
      [] pred.kind = "in" -> pred.vals
      [] pred.kind = "cmp" /\ pred.cmp = "=" -> {pred.v}
      [] OTHER -> {}

RowIdNode(p) ==
    IF p.op = "filter" /\ RowIdTargets(p.pred, Schema(p.in)) # {}
    THEN [p EXCEPT !.in = WithTargets(@, RowIdTargets(p.pred, Schema(p.in)))]
    ELSE p

RECURSIVE RowIdSelection(_)
RowIdSelection(p) == RowIdNode(WithInputs(p, [i \in DOMAIN Inputs(p) |-> RowIdSelection(Inputs(p)[i])]))

-----------------------------------------------------------------------------
(* The accumulators of the streaming group-by *)

NewAgg == [count |-> 0, acc |-> Null]

Added(acc, v) == IF acc = Null THEN v ELSE acc + v

(* update_per_agg_state *)
UpdateAgg(a, s, v) ==
    CASE v = Null -> s
      [] a.fn = "count" -> [s EXCEPT !.count = @ + 1]
      [] a.fn = "sum" -> [s EXCEPT !.acc = Added(@, v)]
      [] a.fn = "avg" -> [s EXCEPT !.acc = Added(@, v), !.count = @ + 1]

(* Wrong on purpose: a sum of no value is zero. *)
SumOutZero(s) == IF s.acc = Null THEN 0 ELSE Wrapped(s.acc)

(* build_sum_array: the 128-bit sum is cut to the output type at the end;  *)
(* a sum of no value is NULL.                                              *)
SumOut(s) == IF s.acc = Null THEN Null ELSE Wrapped(s.acc)

AvgOut(s) == IF s.count > 0 THEN <<s.acc, s.count>> ELSE Null

(* build_agg_array *)
BuildAgg(a, s) ==
    CASE a.fn = "count" -> s.count
      [] a.fn = "sum" -> SumOut(s)
      [] a.fn = "avg" -> AvgOut(s)

StreamAgg(a, rows) == BuildAgg(a, FoldLeft(LAMBDA s, r: UpdateAgg(a, s, ArgumentOf(a, r)), NewAgg, rows))

(* build_output_batch: one row of output for a group. *)
OutputRow(p, rows) ==
    KeyTuple(rows[1], p.groups) \o [a \in DOMAIN p.aggs |-> StreamAgg(p.aggs[a], rows)]

(* The partition below a streaming group-by, and its keys as RowConverter  *)
(* orders them.                                                            *)
StreamRows(p) == Parts(p.in)[1]

KeyRanks(p) ==
    LET keys == [i \in DOMAIN StreamRows(p) |-> KeyTuple(StreamRows(p)[i], p.groups)]
        all == [k \in DOMAIN p.groups |-> k]
    IN [i \in DOMAIN keys |-> Cardinality({k \in Range(keys) : LexBefore(k, keys[i], all)})]

Emitted(p) ==
    LET rows(g) == [i \in 1..Cardinality(g.rows) |-> StreamRows(p)[SetToSortSeq(g.rows, <)[i]]]
        out == FlattenSeq([b \in DOMAIN emitted |-> SetToSortSeq(emitted[b], LAMBDA g, h: g.key < h.key)])
    IN [i \in DOMAIN out |-> OutputRow(p, rows(out[i]))]

-----------------------------------------------------------------------------
(* The table operations before a query, and the query *)

Idle == 0
Executing == 9
Streaming == 10
Answered == 11

Answer(rows) == [ok |-> TRUE, rows |-> AsBag(rows)]

Failure == [ok |-> FALSE, rows |-> <<>>]

Init ==
    /\ setting \in Settings
    /\ tables = setting.tables
    /\ ops = 0
    /\ query = Null
    /\ plan = Null
    /\ stage = Idle
    /\ answer = Null
    /\ StreamInit

Change(t, table) ==
    /\ stage = Idle /\ ops < MaxOps
    /\ ops' = ops + 1
    /\ tables' = [tables EXCEPT ![t] = table]
    /\ UNCHANGED <<query, plan, stage, answer, streamVars>>

Insert == \E t \in DOMAIN tables, rows \in setting.inserts : Change(t, WithInsert(tables[t], rows))

Optimize ==
    \E t \in DOMAIN tables, keys \in setting.sorts :
        tables[t].frags # <<>> /\ Change(t, WithOptimize(tables[t], keys))

Delete ==
    \E t \in DOMAIN tables :
        \E f \in DOMAIN tables[t].frags :
            \E i \in DOMAIN tables[t].frags[f].rows \ tables[t].frags[f].dead :
                setting.deletes /\ Change(t, WithDelete(tables[t], f, i))

RECURSIVE Plannable(_)
(* What DataFusion's distribution rules guarantee of a plan: an aggregate  *)
(* finishes over one partition or over hash partitions of its first key, a *)
(* partitioned join has both sides hashed, and keys of a join are cast to  *)
(* one type.                                                               *)
Plannable(p) ==
    /\ \A i \in DOMAIN Inputs(p) : Plannable(Inputs(p)[i])
    /\ p.op = "agg" /\ p.mode # "partial" => p.in.op = "hash" \/ Len(Parts(p.in)) = 1
    /\ p.op = "join" => Schema(p.build)[p.bi].type = Schema(p.probe)[p.pi].type

(* A physical plan reaches the rules. *)
Begin ==
    /\ stage = Idle
    /\ \E q \in setting.queries :
          /\ Plannable(q)
          /\ query' = q
          /\ plan' = q
    /\ stage' = 1
    /\ UNCHANGED <<tables, ops, answer, streamVars>>

(* register_icefalldb_rules, after the analyzer's simplification. *)
Rewritten(n, p) ==
    CASE n = 1 -> SimplifyCasts(p)
      [] n = 2 -> LowCardinality(p)
      [] n = 3 -> SortedGroupBy(p)
      [] n = 4 -> BroadcastTiny(p)
      [] n = 5 -> TinyBuild(p)
      [] n = 6 -> IF setting.lookup THEN Lookup(p) ELSE p
      [] n = 7 -> DynamicFilters(p)
      [] n = 8 -> RowIdSelection(p)

Rewrite ==
    /\ stage \in 1..8
    /\ ~(stage = 7 /\ DynamicFails(plan))
    /\ plan' = Rewritten(stage, plan)
    /\ stage' = stage + 1
    /\ UNCHANGED <<tables, ops, query, answer, streamVars>>

(* A rule that fails fails the query. *)
RewriteFails ==
    /\ stage = 7 /\ DynamicFails(plan)
    /\ answer' = Failure
    /\ stage' = Answered
    /\ UNCHANGED <<tables, ops, query, plan, streamVars>>

Execute ==
    /\ stage = Executing /\ plan.op # "stream"
    /\ answer' = Answer(FlattenSeq(Parts(plan)))
    /\ stage' = Answered
    /\ UNCHANGED <<tables, ops, query, plan, streamVars>>

OpenStream ==
    /\ stage = Executing /\ plan.op = "stream"
    /\ StreamOpen(KeyRanks(plan))
    /\ stage' = Streaming
    /\ UNCHANGED <<tables, ops, query, plan, answer>>

StreamStep ==
    /\ stage = Streaming
    /\ EndOfStream \/ \E n \in 1..Len(input) : ProcessBatch(n)
    /\ UNCHANGED <<tables, ops, query, plan, stage, answer>>

CloseStream ==
    /\ stage = Streaming /\ phase # "reading"
    /\ answer' = IF phase = "done" THEN Answer(Emitted(plan)) ELSE Failure
    /\ stage' = Answered
    /\ UNCHANGED <<tables, ops, query, plan, streamVars>>

(* The answer is delivered; the session is free for the next statement. *)
Deliver ==
    /\ stage = Answered
    /\ stage' = Idle /\ query' = Null /\ plan' = Null /\ answer' = Null
    /\ UNCHANGED <<tables, ops, streamVars>>

Serve == Rewrite \/ RewriteFails \/ Execute \/ OpenStream \/ StreamStep \/ CloseStream

Next ==
    /\ Insert \/ Optimize \/ Delete \/ Begin \/ Serve \/ Deliver
    /\ UNCHANGED setting

Spec == Init /\ [][Next]_vars

-----------------------------------------------------------------------------
(* Where the rules are sound *)

RECURSIVE Nodes(_)
Nodes(p) == {p} \union UNION {Nodes(Inputs(p)[i]) : i \in DOMAIN Inputs(p)}

JoinsOf(p) == {n \in Nodes(p) : n.op = "join"}

ScansOf(p) == {n \in Nodes(p) : n.op \in {"scan", "source"}}

RECURSIVE Origin(_, _)
(* The table a column of a plan is read from, Null when it is computed. *)
Origin(p, at) ==
    CASE p.op \in {"scan", "source"} -> p.table
      [] p.op \in {"filter", "coalesce", "hash"} -> Origin(p.in, at)
      [] p.op = "join" -> LET n == Len(Schema(p.build))
                          IN IF at <= n THEN Origin(p.build, at) ELSE Origin(p.probe, at - n)
      [] OTHER -> IF at <= Len(p.groups) THEN Origin(RawInput(p), p.groups[at]) ELSE Null

(* No other scan of the probe side has a column of the name of the key, a  *)
(* table being read once in a query.                                       *)
OwnColumn(j) ==
    LET name == Schema(j.probe)[j.pi].name
    IN \A s \in ScansOf(j.probe) : NamedIn(Schema(s), name) # {} => s.table = Origin(j.probe, j.pi)

ExactKey(j) == ~j.nulls /\ Schema(j.build)[j.bi].type \notin Floats

(* Casts that lose nothing. *)
Wider == {<<"tiny", "int">>, <<"tiny", "single">>, <<"tiny", "float">>, <<"int", "float">>, <<"single", "float">>}

(* A cast that is stripped widens the column, and the literal has a value  *)
(* in the column's own type: 1.5 has one in a double and none in a single. *)
Widening(p) ==
    \A n \in Nodes(p) : n.op = "filter" /\ n.pred.kind = "cast" =>
        LET type == Schema(n.in)[n.pred.at].type
            lit == LiteralToSource(n.pred.v, n.pred.to, type)
        IN lit # Null => <<type, n.pred.to>> \in Wider /\ Cast(lit, type, n.pred.to) = n.pred.v

IdsAssigned(s) == "_rowid" \in Range(s.cols) => \A f \in DOMAIN tables[s.table].frags : tables[s.table].frags[f].ids # <<>>

(* The joins and filters the rules preserve.  A join they rewrite has a    *)
(* key that is not a float and whose NULLs match nothing, of a name only   *)
(* its own scan has; casts are to a wider type and their literals exact;   *)
(* row ids are in every fragment.                                          *)
Sound(q) ==
    /\ \A j \in JoinsOf(q) : EquiKeys(j) => OwnColumn(j) /\ ExactKey(j)
    /\ Widening(q)
    /\ \A s \in ScansOf(q) : IdsAssigned(s)

(* The rows of every partition are in the order the scan advertises. *)
OrderHolds(q) ==
    \A s \in ScansOf(q) :
        LET sort == AdvertisedSort(s)
            at == [k \in DOMAIN sort |-> CHOOSE c \in DOMAIN s.cols : s.cols[c] = sort[k]]
            parts == Parts(s)
        IN \A f \in DOMAIN parts : \A i \in 2..Len(parts[f]) : ~LexBefore(parts[f][i], parts[f][i - 1], at)

-----------------------------------------------------------------------------
(* Properties *)

(* Every rule, after those before it, leaves a plan that computes what the *)
(* query asks: what one rule pushes into a scan, turns into a lookup or    *)
(* collapses, none of the later ones misreads.                             *)
RewritesKeepTheAnswer == query # Null /\ Sound(query) => Result(plan) = Result(query)

(* The answer a client gets is the query's, whatever the batches a stream  *)
(* came in; a query fails only where a build side's statistics are missing.*)
AnswerIsTheQuery ==
    answer # Null /\ Sound(query) /\ OrderHolds(query) =>
        IF answer.ok THEN answer.rows = Result(query) ELSE DynamicFails(query)
=============================================================================
