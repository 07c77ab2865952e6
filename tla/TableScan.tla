------------------------------ MODULE TableScan ------------------------------
(***************************************************************************)
(* One scan of a table, from TableProvider::scan to the rows it streams    *)
(* (icefalldb-query/src/provider.rs, scan.rs, parquet_exec.rs and          *)
(* coalesce.rs): the pruning of row groups, the choice between the         *)
(* tiny-table copy, DataFusion's native Parquet reader and                 *)
(* IcefallDBScanExec, the splitting of a row group into partitions, the    *)
(* sparse read of its column chunks, deletion vectors, pushed filters and  *)
(* limits, and the synthesised _rowid and _rowaddr.                        *)
(*                                                                         *)
(* A fragment holds rows of the columns "a" and "b"; the filter of a query *)
(* keeps the rows whose "a" is in a set.  A row selection is the Boolean   *)
(* sequence its runs stand for.  The partitions of a scan are streamed     *)
(* concurrently, a batch at a time.                                        *)
(***************************************************************************)
EXTENDS Integers, Sequences, FiniteSets, SequencesExt, FiniteSetsExt

CONSTANTS
    Null,
    Batches,        \* the batches an insert may write
    Layouts,        \* [chunked, pieces], see Fragment
    Queries,        \* [keep, proj, ids, limit], see Matches
    Configs,        \* ProviderConfig: [tiny, target, native, groups, indexed]
    MinRows,        \* MIN_ROWS_PER_PARTITION
    MinBytes,       \* MIN_PARTITION_BYTES; a row is a byte
    Window,         \* io_coalesce_window
    BatchSize,      \* batch_size
    MaxOps          \* bound on the inserts and deletes between queries

VARIABLES
    table,      \* the fragments in manifest order
    ops,        \* the inserts and deletes so far
    scan,       \* the scan that is planned, or Null: [q, config, path, parts]
    streams,    \* its partition streams once it executes, or Null
    out         \* the rows collected from them

vars == <<table, ops, scan, streams, out>>

Columns == {"a", "b"}

Pseudo == {"_rowid", "_rowaddr"}

Sum(s) == FoldSeq(+, 0, s)

Take(s, n) == IF n = Null THEN s ELSE SubSeq(s, 1, Min({n, Len(s)}))

(* The place of i in a stable sort by descending key. *)
PlaceOf(key, i) == Cardinality({j \in DOMAIN key : key[j] > key[i] \/ (key[j] = key[i] /\ j <= i)})

-----------------------------------------------------------------------------
(* Fragments *)

(* A fragment as the writer lays it down: "first" starts its range of row  *)
(* ids, "chunked" is whether the sidecar has column_offsets, "pieces" the  *)
(* Parquet row groups in the file (more than one only in an adopted file). *)
Fragment(rows, first, chunked, pieces) ==
    [rows |-> rows, dead |-> {}, first |-> first, chunked |-> chunked, pieces |-> pieces]

NextRowId == Sum([f \in DOMAIN table |-> Len(table[f].rows)])

Insert(rows, chunked, pieces) ==
    /\ scan = Null /\ ops < MaxOps
    /\ table' = Append(table, Fragment(rows, NextRowId, chunked, pieces))
    /\ ops' = ops + 1
    /\ UNCHANGED <<scan, streams, out>>

Delete(f, o) ==
    /\ scan = Null /\ ops < MaxOps
    /\ o \notin table[f].dead
    /\ table' = [table EXCEPT ![f].dead = @ \union {o}]
    /\ ops' = ops + 1
    /\ UNCHANGED <<scan, streams, out>>

Keeps(q, v) == q.keep = Null \/ v \in q.keep

RowId(f, o) == table[f].first + o - 1

RowAddr(f, o) == <<f, o>>

(* expr_to_predicate: an empty IN list is no predicate. *)
HasPredicate(q) == q.keep \notin {Null, {}}

(* Pruning with the sidecar's min and max, which cover deleted rows too. *)
MayMatch(f, q) ==
    LET stored == {table[f].rows[o]["a"] : o \in DOMAIN table[f].rows}
    IN HasPredicate(q) => \E v \in q.keep : Min(stored) <= v /\ v <= Max(stored)

(* The row ids an equality index on "a" has for the value of the filter. *)
IndexLookup(q) ==
    UNION {{RowId(f, o) : o \in {i \in DOMAIN table[f].rows \ table[f].dead : table[f].rows[i]["a"] \in q.keep}} :
               f \in DOMAIN table}

(* retain_row_groups_by_row_ids: the row groups with an id that was found. *)
RetainRowGroupsByRowIds(fs, ids) ==
    SelectSeq(fs, LAMBDA f: \E id \in ids : id \in table[f].first..(table[f].first + Len(table[f].rows) - 1))

(* The row groups a scan is left with: by statistics, and by the index     *)
(* when more than one survives.                                            *)
Pruned(q, config) ==
    LET byStats == SelectSeq([f \in DOMAIN table |-> f], LAMBDA f: MayMatch(f, q))
    IN IF config.indexed /\ HasPredicate(q) /\ Len(byStats) > 1 /\ Cardinality(q.keep) = 1
       THEN RetainRowGroupsByRowIds(byStats, IndexLookup(q))
       ELSE byStats

RowsOf(fs) == Sum([i \in DOMAIN fs |-> Len(table[fs[i]].rows)])

-----------------------------------------------------------------------------
(* The bytes of a fragment that are read *)

(* The file: the magic, the chunk of "a", a gap, the chunk of "b", a gap   *)
(* and the footer.                                                         *)
Magic == [lo |-> 0, hi |-> 1]
Chunk == [c \in Columns |-> IF c = "a" THEN [lo |-> 1, hi |-> 3] ELSE [lo |-> 4, hi |-> 6]]
Footer == [lo |-> 8, hi |-> 9]
FileSize == 9

(* coalesce_ranges over the ranges sorted by start. *)
CoalesceRanges(ranges, window) ==
    FoldLeft(LAMBDA merged, next :
                 IF merged # <<>> /\ next.lo <= Last(merged).hi + window
                 THEN [merged EXCEPT ![Len(merged)].hi = Max({@, next.hi})]
                 ELSE Append(merged, next),
             <<>>, SetToSortSeq(ranges, LAMBDA r, s : r.lo < s.lo))

Bytes(r) == r.lo..(r.hi - 1)

(* read_row_group_bytes: the chunks that are needed, or the whole file     *)
(* when the sidecar's offsets are missing or describe only the first of    *)
(* several row groups.                                                     *)
BytesRead(f, needed) ==
    IF table[f].chunked /\ table[f].pieces = 1
    THEN LET ranges == CoalesceRanges({Chunk[c] : c \in needed} \union {Magic, Footer}, Window)
         IN UNION {Bytes(ranges[i]) : i \in DOMAIN ranges}
    ELSE 0..(FileSize - 1)

(* A column whose chunk was left out of the buffer decodes to holes. *)
Decoded(f, o, needed) ==
    [c \in Columns |-> IF Bytes(Chunk[c]) \subseteq BytesRead(f, needed) THEN table[f].rows[o][c] ELSE Null]

FilterColumns(q) == IF q.keep = Null THEN {} ELSE {"a"}

Needed(q) == (q.proj \intersect Columns) \union FilterColumns(q)

HasPseudo(q) == q.proj \intersect Pseudo # {}

-----------------------------------------------------------------------------
(* IcefallDBScanExec: partitions and row selections *)

Partition(f, sel) == [f |-> f, sel |-> sel]

Whole(fs) == [i \in DOMAIN fs |-> Partition(fs[i], Null)]

(* How many partitions each row group becomes: in proportion to its rows,  *)
(* rounded, then trimmed or topped up toward the target.                   *)
SplitCounts(fs, desired) ==
    LET rows == [i \in DOMAIN fs |-> Len(table[fs[i]].rows)]
        total == Sum(rows)
        rounded == [i \in DOMAIN fs |-> Max({1, (2 * rows[i] * desired + total) \div (2 * total)})]
        surplus == Sum(rounded) - desired
    IN [i \in DOMAIN fs |->
            CASE surplus > 0 /\ PlaceOf(rounded, i) <= surplus /\ rounded[i] > 1 -> rounded[i] - 1
              [] surplus < 0 /\ PlaceOf(rows, i) <= -surplus -> rounded[i] + 1
              [] OTHER -> rounded[i]]

(* Wrong on purpose: the remainder of the division belongs to no slice. *)
SliceFloor(rows, n, k) ==
    LET chunk == rows \div n
    IN [o \in 1..rows |-> (k - 1) * chunk < o /\ o <= k * chunk]

(* Slice k of n of a row group, as a selection that spans all its rows. *)
Slice(rows, n, k) ==
    LET from == (k - 1) * (rows \div n) + Min({k - 1, rows % n})
        chunk == (rows \div n) + (IF k <= rows % n THEN 1 ELSE 0)
    IN [o \in 1..rows |-> from < o /\ o <= from + chunk]

Slices(f, n) ==
    LET rows == Len(table[f].rows)
    IN IF n = 1 THEN <<Partition(f, Null)>>
       ELSE [k \in 1..Min({n, rows}) |-> Partition(f, Slice(rows, n, k))]

SplitRowGroups(fs, target, allowed) ==
    LET desired == Max({1, target})
    IN IF ~allowed \/ fs = <<>> \/ Len(fs) >= desired \/ RowsOf(fs) < 2 * MinRows
       THEN Whole(fs)
       ELSE LET counts == SplitCounts(fs, desired)
            IN FlattenSeq([i \in DOMAIN fs |-> Slices(fs[i], counts[i])])

(* new_impl: a row group is split only where the page index is usable. *)
Partitions(fs, q, target) ==
    SplitRowGroups(fs, target, q.keep # Null /\ \A i \in DOMAIN fs : ~table[fs[i]].chunked)

(* planned_row_groups: the row groups of a scan, its split clones collapsed. *)
PlannedRowGroups(parts) ==
    FoldLeft(LAMBDA fs, p : IF p.sel # Null /\ fs # <<>> /\ Last(fs) = p.f THEN fs ELSE Append(fs, p.f),
             <<>>, parts)

(* with_rowid_targets: one partition per row group that selects the rows   *)
(* whose ids are wanted.                                                   *)
WithRowIdTargets(parts, ids) ==
    LET fs == PlannedRowGroups(parts)
    IN [i \in DOMAIN fs |-> Partition(fs[i], [o \in DOMAIN table[fs[i]].rows |-> RowId(fs[i], o) \in ids])]

DeletionSelection(f) == [o \in DOMAIN table[f].rows |-> o \notin table[f].dead]

(* RowSelection::intersection: past the shorter one the longer one's       *)
(* selectors are taken as they are.                                        *)
Intersection(s, t) ==
    [o \in 1..Max({Len(s), Len(t)}) |-> (o <= Len(s) => s[o]) /\ (o <= Len(t) => t[o])]

EffectiveSelection(p) ==
    CASE table[p.f].dead = {} -> p.sel
      [] p.sel = Null -> DeletionSelection(p.f)
      [] OTHER -> Intersection(p.sel, DeletionSelection(p.f))

(* live_physical_offsets *)
LiveOffsets(p) ==
    LET sel == EffectiveSelection(p)
        all == [o \in DOMAIN table[p.f].rows |-> o]
    IN IF sel = Null THEN all ELSE SelectSeq(all, LAMBDA o: o <= Len(sel) /\ sel[o])

-----------------------------------------------------------------------------
(* The streams of a scan.  "rows" are the places the reader yields, "live" *)
(* the places the pseudo-columns are computed from, "post" whether the     *)
(* filter is evaluated on the batch rather than by the reader.             *)

Place(f, o) == [f |-> f, o |-> o]

Places(f, offsets) == [i \in DOMAIN offsets |-> Place(f, offsets[i])]

Stream(rows, live, needed, post) == [rows |-> rows, live |-> live, needed |-> needed, post |-> post, at |-> 0]

(* Wrong on purpose: the reader filters rows the pseudo-columns count. *)
CustomStreamPushed(p, q) ==
    LET live == Places(p.f, LiveOffsets(p))
        passing == SelectSeq(live, LAMBDA l: Keeps(q, Decoded(l.f, l.o, Needed(q))["a"]))
    IN Stream(Take(passing, q.limit), live, Needed(q), FALSE)

(* execute and build_parquet_reader: the row filter of a scan without      *)
(* pseudo-columns runs in the reader and before its limit; with            *)
(* pseudo-columns the reader's limit counts unfiltered rows.               *)
CustomStream(p, q) ==
    LET live == Places(p.f, LiveOffsets(p))
        passing == SelectSeq(live, LAMBDA l: Keeps(q, Decoded(l.f, l.o, Needed(q))["a"]))
        post == HasPseudo(q) /\ q.keep # Null
    IN Stream(Take(IF post THEN live ELSE passing, q.limit), live, Needed(q), post)

(* build_tiny_mem_table: every live row of the table, through an           *)
(* unfiltered IcefallDBScanExec.                                           *)
TinyRows(config) ==
    LET parts == SplitRowGroups([f \in DOMAIN table |-> f], config.target, FALSE)
    IN FlattenSeq([i \in DOMAIN parts |-> Places(parts[i].f, LiveOffsets(parts[i]))])

(* build_tiny_table_plan: the filters above the copy. *)
TinyStream(config) == Stream(TinyRows(config), TinyRows(config), Columns, TRUE)

(* row_group_ranges: one scan unit per Parquet row group of a file. *)
Unit(f, piece) == [f |-> f, piece |-> piece]

RowGroupUnits(f) == [k \in 1..table[f].pieces |-> <<Unit(f, k)>>]

(* build_file_groups: the row groups of a large file apart, small files    *)
(* into the group that is smallest so far, largest file first.             *)
FileGroups(fs, config) ==
    LET large == SelectSeq(fs, LAMBDA f: table[f].pieces > 1 /\ Len(table[f].rows) >= MinBytes)
        small == SelectSeq(fs, LAMBDA f: ~(table[f].pieces > 1 /\ Len(table[f].rows) >= MinBytes))
        sizes == [i \in DOMAIN small |-> Len(table[small[i]].rows)]
        bySize == [k \in DOMAIN small |-> small[CHOOSE i \in DOMAIN small : PlaceOf(sizes, i) = k]]
        size(g) == Sum([i \in DOMAIN g |-> Len(table[g[i].f].rows)])
        smallest(groups) == CHOOSE i \in DOMAIN groups :
                                \A j \in DOMAIN groups : size(groups[i]) < size(groups[j])
                                                         \/ (size(groups[i]) = size(groups[j]) /\ i <= j)
        none == [i \in 1..Max({1, Min({config.groups, Len(small)})}) |-> <<>>]
        pack[k \in 0..Len(small)] ==
            IF k = 0 THEN none ELSE [pack[k - 1] EXCEPT ![smallest(pack[k - 1])] = Append(@, Unit(bySize[k], 0))]
    IN FlattenSeq([i \in DOMAIN large |-> RowGroupUnits(large[i])])
       \o SelectSeq(pack[Len(small)], LAMBDA g: g # <<>>)

(* DataFusion's reader of a file or of one of its row groups (0: all). *)
ParquetRows(u) ==
    LET rows == table[u.f].rows
        half == Len(rows) \div 2
        offsets == [o \in DOMAIN rows |-> o]
    IN CASE u.piece = 0 -> offsets
         [] u.piece = 1 -> SubSeq(offsets, 1, half)
         [] OTHER -> SubSeq(offsets, half + 1, Len(rows))

GroupRows(group) == FlattenSeq([i \in DOMAIN group |-> Places(group[i].f, ParquetRows(group[i]))])

(* build_native_parquet_exec with the row filter in the reader. *)
NativeStream(group, q) ==
    LET passing == SelectSeq(GroupRows(group), LAMBDA l: Keeps(q, table[l.f].rows[l.o]["a"]))
    IN Stream(Take(passing, q.limit), passing, Columns, FALSE)

(* build_native_bulk_decode_plan: the filter above the reader. *)
BulkStream(group) == Stream(GroupRows(group), GroupRows(group), Columns, TRUE)

-----------------------------------------------------------------------------
(* TableProvider::scan *)

(* estimate_tiny_table_size: past the row threshold no size is looked at,  *)
(* so the byte threshold never widens it.                                  *)
TinyTable(q, config) ==
    /\ ~HasPseudo(q)
    /\ table # <<>>
    /\ RowsOf(Pruned(q, config)) <= config.tiny

(* A filtered scan of one large file, which the native reader cannot split. *)
RouteToCustomScan(fs, q, config) ==
    config.target > 1 /\ q.keep # Null /\ Len(fs) = 1 /\ RowsOf(fs) >= 2 * MinRows

(* The native reader has no place for deletion vectors or pseudo-columns. *)
UseNativeParquet(fs, q, config) ==
    /\ \A i \in DOMAIN fs : table[fs[i]].dead = {}
    /\ ~HasPseudo(q)
    /\ fs # <<>>
    /\ Cardinality(Needed(q)) >= config.native
    /\ ~RouteToCustomScan(fs, q, config)

(* The filter is run above a plain decode; never with a limit, which would *)
(* cap the rows before the filter.                                         *)
BulkDecode(q) == q.limit = Null /\ q.keep # Null /\ q.proj \subseteq FilterColumns(q)

PathOf(q, config) ==
    CASE TinyTable(q, config) -> "tiny"
      [] ~TinyTable(q, config) /\ UseNativeParquet(Pruned(q, config), q, config) ->
            IF BulkDecode(q) THEN "bulk" ELSE "native"
      [] OTHER -> "custom"

Plan(q, config) ==
    /\ scan = Null
    /\ scan' = [q |-> q, config |-> config, path |-> PathOf(q, config),
                parts |-> Partitions(Pruned(q, config), q, config.target)]
    /\ UNCHANGED <<table, ops, streams, out>>

(* RowIdSelectionPushdown: the filter on _rowid stays above the scan. *)
PushRowIds ==
    /\ scan # Null /\ streams = Null
    /\ scan.path = "custom" /\ scan.q.ids # Null
    /\ scan' = [scan EXCEPT !.parts = WithRowIdTargets(scan.parts, scan.q.ids)]
    /\ scan' # scan
    /\ UNCHANGED <<table, ops, streams, out>>

Open ==
    /\ scan # Null /\ streams = Null
    /\ streams' =
        CASE scan.path = "tiny" -> <<TinyStream(scan.config)>>
          [] scan.path = "custom" -> [i \in DOMAIN scan.parts |-> CustomStream(scan.parts[i], scan.q)]
          [] OTHER -> LET groups == FileGroups(Pruned(scan.q, scan.config), scan.config)
                      IN [i \in DOMAIN groups |-> IF scan.path = "bulk" THEN BulkStream(groups[i])
                                                 ELSE NativeStream(groups[i], scan.q)]
    /\ UNCHANGED <<table, ops, scan, out>>

Satisfied == scan.q.limit # Null /\ Len(out) >= scan.q.limit

Ended == \A i \in DOMAIN streams : streams[i].at = Len(streams[i].rows)

(* An output row: the projected columns decoded where the reader read them *)
(* and the pseudo-columns of the place at the same position.               *)
OutputRow(s, i) ==
    LET row == s.rows[i]
        from == s.live[i]
        cells == Decoded(row.f, row.o, s.needed)
    IN [c \in scan.q.proj |->
            CASE c = "_rowid" -> RowId(from.f, from.o)
              [] c = "_rowaddr" -> RowAddr(from.f, from.o)
              [] OTHER -> cells[c]]

(* The places of a batch that pass the filters evaluated on the batch: the *)
(* scan's own, and the filter on _rowid above it.                          *)
Passes(s, i) ==
    /\ s.post => Keeps(scan.q, Decoded(s.rows[i].f, s.rows[i].o, s.needed)["a"])
    /\ scan.q.ids # Null => RowId(s.live[i].f, s.live[i].o) \in scan.q.ids

BatchEnd(s) == Min({s.at + BatchSize, Len(s.rows)})

BatchOf(s) ==
    LET kept == SelectSeq([k \in 1..(BatchEnd(s) - s.at) |-> s.at + k], LAMBDA k: Passes(s, k))
    IN [k \in DOMAIN kept |-> OutputRow(s, kept[k])]

(* The next batch of a partition; the limit above the scan ends the query. *)
ReadBatch ==
    \E i \in IF streams = Null THEN {} ELSE DOMAIN streams :
        /\ ~Satisfied
        /\ streams[i].at < Len(streams[i].rows)
        /\ out' = Take(out \o BatchOf(streams[i]), scan.q.limit)
        /\ streams' = [streams EXCEPT ![i].at = BatchEnd(streams[i])]
        /\ UNCHANGED <<table, ops, scan>>

Deliver ==
    /\ streams # Null
    /\ Satisfied \/ Ended
    /\ scan' = Null /\ streams' = Null /\ out' = <<>>
    /\ UNCHANGED <<table, ops>>

-----------------------------------------------------------------------------
Init ==
    /\ table = <<>>
    /\ ops = 0
    /\ scan = Null
    /\ streams = Null
    /\ out = <<>>

Next ==
    \/ \E rows \in Batches, layout \in Layouts : Insert(rows, layout.chunked, layout.pieces)
    \/ \E f \in DOMAIN table : \E o \in DOMAIN table[f].rows : Delete(f, o)
    \/ \E q \in Queries, config \in Configs : Plan(q, config)
    \/ PushRowIds
    \/ Open
    \/ ReadBatch
    \/ Deliver

Spec == Init /\ [][Next]_vars

-----------------------------------------------------------------------------
(* What a query asks for *)

AllPlaces == FlattenSeq([f \in DOMAIN table |-> Places(f, [o \in DOMAIN table[f].rows |-> o])])

Matches(q, l) ==
    /\ l.o \notin table[l.f].dead
    /\ Keeps(q, table[l.f].rows[l.o]["a"])
    /\ q.ids # Null => RowId(l.f, l.o) \in q.ids

Expected(q) ==
    LET found == SelectSeq(AllPlaces, LAMBDA l: Matches(q, l))
    IN [i \in DOMAIN found |->
            [c \in q.proj |-> CASE c = "_rowid" -> RowId(found[i].f, found[i].o)
                                [] c = "_rowaddr" -> RowAddr(found[i].f, found[i].o)
                                [] OTHER -> table[found[i].f].rows[found[i].o][c]]]

Occurrences(s, x) == Cardinality({i \in DOMAIN s : s[i] = x})

(* The reader's limit counts the rows the query counts: not with a filter  *)
(* and pseudo-columns, where it is applied before the filter.              *)
LimitAfterFilter(q) == q.limit # Null /\ q.keep # Null => ~HasPseudo(q)

(* However the scan was routed, split and interleaved, what has been       *)
(* collected at any moment is part of the answer: no deleted row, no row   *)
(* that fails the filter, none twice, none with another row's id, address  *)
(* or columns (scan.rs execute, split_row_groups, read_row_group_bytes;    *)
(* parquet_exec.rs build_file_groups; provider.rs scan).  The partitions,  *)
(* whatever they were split into, are those of the row groups planned,     *)
(* each once and in order: what the metadata-only readers count (scan.rs   *)
(* planned_row_groups).                                                    *)
CollectedIsPartOfTheAnswer ==
    /\ streams # Null =>
          \A i \in DOMAIN out : Occurrences(out, out[i]) <= Occurrences(Expected(scan.q), out[i])
    /\ scan # Null => PlannedRowGroups(scan.parts) = Pruned(scan.q, scan.config)

(* A scan that ends has collected every row the query asks for, or as many *)
(* as its limit (provider.rs scan; scan.rs build_parquet_reader).          *)
DeliveredIsComplete ==
    streams # Null /\ (Satisfied \/ Ended) /\ LimitAfterFilter(scan.q) =>
        Len(out) = Len(Take(Expected(scan.q), scan.q.limit))
=============================================================================
