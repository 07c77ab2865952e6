---------------------------- MODULE RowMutations ----------------------------
(***************************************************************************)
(* Row-level DELETE, UPDATE, MERGE and INSERT on one table (mutate.rs, the *)
(* commit functions of writer.rs), seen through a table provider that is   *)
(* refreshed by commit deltas (provider.rs, commit_delta.rs), with the     *)
(* row index and the secondary indexes they maintain, index creation and   *)
(* compaction.                                                             *)
(*                                                                         *)
(* A statement locates rows in the provider's snapshot, commits against    *)
(* the latest manifest under the write lock, and applies the delta to the  *)
(* provider: three steps, between which other processes may commit.  The   *)
(* write-ahead log, crashes and files are left to the other modules.       *)
(***************************************************************************)
EXTENDS SecondaryIndex

CONSTANTS
    Settings,   \* the deployments checked; see Init
    MaxSeq      \* bound: no statement or foreign commit starts at or above it

VARIABLES
    setting,    \* the deployment
    manifest,   \* the latest manifest
    catalog,    \* index definitions of the database catalog
    legacy,     \* unversioned index files, by name
    pub,        \* the registered provider
    wp,         \* the write-side provider of a batch
    client,     \* the statement that holds the mutate lock
    creating,   \* the index the server has built and not yet registered
    verdict,    \* what the last statement answered, and whether SQL agrees
    behind      \* a batch failed after it had committed a statement

vars == <<setting, manifest, catalog, legacy, pub, wp, client, creating, verdict, behind>>

Columns == {"k", "v"}

(* k is nullable, v is not. *)
NotNull == {"v"}

NoRowIndex == [has |-> FALSE, base |-> <<>>, deltas |-> <<>>]

-----------------------------------------------------------------------------
(* Predicates and assignments *)

Eq(col, val) == [kind |-> "eq", col |-> col, vals |-> {val}, other |-> 0]

InList(col, vals) == [kind |-> "in", col |-> col, vals |-> vals, other |-> 0]

(* k = a AND v = b *)
Both(a, b) == [kind |-> "and", col |-> "k", vals |-> {a}, other |-> b]

Everything == [kind |-> "all", col |-> "k", vals |-> {}, other |-> 0]

Holds(p, row) ==
    CASE p.kind = "all" -> TRUE
      [] p.kind = "and" -> row.k # Null /\ row.k \in p.vals /\ row.v = p.other
      [] OTHER          -> row[p.col] # Null /\ row[p.col] \in p.vals

(* collect_eq_pins: the columns an equality fixes. *)
Pins(p) ==
    CASE p.kind = "eq"  -> p.col :> (CHOOSE x \in p.vals : TRUE)
      [] p.kind = "and" -> [c \in Columns |-> IF c = "k" THEN CHOOSE x \in p.vals : TRUE ELSE p.other]
      [] OTHER          -> <<>>

Literal(x) == [lit |-> TRUE, val |-> x, col |-> ""]

ColumnRef(c) == [lit |-> FALSE, val |-> 0, col |-> c]

Eval(e, row) == IF e.lit THEN e.val ELSE row[e.col]

Assign(set, row) == [c \in Columns |-> IF c \in DOMAIN set THEN Eval(set[c], row) ELSE row[c]]

Delete(p) == [op |-> "delete", where |-> p, set |-> <<>>, src |-> <<>>]

Update(set, p) == [op |-> "update", where |-> p, set |-> set, src |-> <<>>]

(* MERGE ON k: set is empty for UPDATE SET *, which takes the source row. *)
MergeInto(src, set) == [op |-> "merge", where |-> Everything, set |-> set, src |-> src]

Insert(src) == [op |-> "insert", where |-> Everything, set |-> <<>>, src |-> src]

-----------------------------------------------------------------------------
(* The provider *)

(* load_snapshot_indexes: the generations of the manifest and the          *)
(* unversioned files that are there, registered in the catalog or not.     *)
LoadIndexes(m) ==
    LET defs == {d \in setting.defs : d.name \in DOMAIN m.gens \/ d.name \in DOMAIN legacy}
        open(d) == OpenIndex(d, d.name \in DOMAIN m.gens, RefOf(m.gens, d.name),
                             LegacyOf(legacy, d.name), setting.caches)
    IN {i \in {open(d) : d \in defs} : i.has}

(* IcefallDBTableProvider::new: lazy, without a scan plan. *)
OpenProvider(m) == [seq |-> m.seq, cached |-> FALSE, plan |-> <<>>, indexes |-> LoadIndexes(m)]

(* repin_snapshot: the sequence and the indexes move to the manifest read. *)
Repin(p, m) == [p EXCEPT !.seq = m.seq, !.indexes = LoadIndexes(m)]

(* current_scan_plan: a plan cached at the pinned sequence is served as it *)
(* is; otherwise the latest manifest is loaded, and the provider re-pinned *)
(* when it moved.                                                          *)
Materialize(p) ==
    LET pinned == IF manifest.seq = p.seq THEN p ELSE Repin(p, manifest)
    IN IF p.cached THEN p
       ELSE [pinned EXCEPT !.cached = TRUE, !.plan = manifest.groups]

CommitDelta(old, new, added) == [old |-> old, new |-> new, added |-> added]

RemovedFragments(d) ==
    {d.old.groups[g].frag : g \in DOMAIN d.old.groups} \ {d.new.groups[g].frag : g \in DOMAIN d.new.groups}

UpdatedFragments(d) ==
    {d.new.groups[g] : g \in {h \in DOMAIN d.new.groups :
        \E o \in DOMAIN d.old.groups : /\ d.old.groups[o].frag = d.new.groups[h].frag
                                       /\ d.old.groups[o].ver # d.new.groups[h].ver}}

(* Wrong on purpose: changed deletion vectors are not re-pointed. *)
ApplyToPlanKeeps(plan, d) ==
    SelectSeq(plan, LAMBDA f: f.frag \notin RemovedFragments(d)) \o d.added

(* The warm path of apply_committed_delta: drop, re-point, append. *)
ApplyToPlan(plan, d) ==
    LET kept == SelectSeq(plan, LAMBDA f: f.frag \notin RemovedFragments(d))
        hit(f) == {u \in UpdatedFragments(d) : u.frag = f.frag}
        moved(f) == IF hit(f) = {} THEN f
                    ELSE LET u == CHOOSE x \in hit(f) : TRUE
                         IN [f EXCEPT !.del = u.del, !.ver = u.ver]
    IN [i \in DOMAIN kept |-> moved(kept[i])] \o d.added

(* Wrong on purpose: any delta of a later snapshot is applied. *)
AppliesLater(p, d) == p.seq <= d.old.seq

(* apply_committed_delta refuses a delta that does not start at the pinned *)
(* sequence; a cold provider only drops what it has.                       *)
Applies(p, d) == p.seq = d.old.seq

(* invalidate_to_committed_delta: the next scan loads the plan. *)
Invalidate(d) == [seq |-> d.new.seq, cached |-> FALSE, plan |-> <<>>, indexes |-> LoadIndexes(d.new)]

ApplyCommittedDelta(p, d) ==
    IF p.cached
    THEN [seq |-> d.new.seq, cached |-> TRUE, plan |-> ApplyToPlan(p.plan, d), indexes |-> LoadIndexes(d.new)]
    ELSE Invalidate(d)

-----------------------------------------------------------------------------
(* Locating rows in a provider p whose plan is materialized *)

Loc(frag, off, id) == [frag |-> frag, off |-> off, id |-> id]

(* A scan: the live rows that satisfy p, in the order of the fragments. *)
ScanLocs(plan, test(_, _)) ==
    LET ofGroup(f) ==
            LET ids == FragmentIds(f.segs)
                offs == SetToSortSeq({o \in LiveOffsets(f) : test(f.rows[o + 1], ids[o + 1])}, <)
            IN [i \in DOMAIN offs |-> Loc(f.frag, offs[i], ids[offs[i] + 1])]
    IN FlattenSeq([g \in DOMAIN plan |-> ofGroup(plan[g])])

(* index_equality_lookup answers a single equality or IN on its column. *)
Answers(index, p) == p.kind \in {"eq", "in"} /\ p.col = index.col

IndexIds(index, p) == UNION {Range(Lookup(index, x)) : x \in p.vals}

(* The live places of one row id, found by its segments. *)
LivePlaces(plan, rid) ==
    {g \in DOMAIN plan : LET off == OffsetOfRowId(plan[g].segs, rid)
                         IN off # None /\ IsLive(plan[g], off[1])}

(* try_locate_by_index: nothing when no index answers or an id is live     *)
(* twice; an id that is live nowhere is skipped.                           *)
TryLocateByIndex(prov, index, p) ==
    LET ids == IndexIds(index, p)
        found == SetToSortSeq({r \in ids : LivePlaces(prov.plan, r) # {}}, <)
        place(r) == LET g == CHOOSE g \in LivePlaces(prov.plan, r) : TRUE
                    IN Loc(prov.plan[g].frag, OffsetOfRowId(prov.plan[g].segs, r)[1], r)
    IN IF \E r \in ids : Cardinality(LivePlaces(prov.plan, r)) > 1 THEN [has |-> FALSE, locs |-> <<>>]
       ELSE [has |-> TRUE, locs |-> [i \in DOMAIN found |-> place(found[i])]]

(* The index the provider tries is any that answers: they are in no order. *)
FastLocs(prov, p) ==
    LET able == {i \in prov.indexes : Answers(i, p)}
    IN IF able = {} THEN {[has |-> FALSE, locs |-> <<>>]}
       ELSE {TryLocateByIndex(prov, i, p) : i \in able}

(* locate_matches *)
LocateMatches(prov, fast, p) ==
    IF fast.has THEN fast.locs ELSE ScanLocs(prov.plan, LAMBDA row, id: Holds(p, row))

RowOf(prov, loc) == RowAt(prov.plan, <<loc.frag, loc.off>>)

Refuse == [ok |-> FALSE, locs |-> <<>>, rows |-> <<>>, src |-> <<>>]

Plan(locs, rows, src) == [ok |-> TRUE, locs |-> locs, rows |-> rows, src |-> src]

(* enforce_non_nullable_post_image *)
NullsAllowed(rows) == \A i \in DOMAIN rows : \A c \in NotNull : rows[i][c] # Null

(* try_blind_determined_update: every value is a literal of SET or of the  *)
(* predicate, so that the old rows need not be read.                       *)
Blind(fast, set, p) ==
    /\ fast.has /\ fast.locs # <<>>
    /\ \A c \in DOMAIN set : set[c].lit
    /\ Columns \subseteq DOMAIN set \union DOMAIN Pins(p)

BlindRow(set, p) == [c \in Columns |-> IF c \in DOMAIN set THEN set[c].val ELSE Pins(p)[c]]

(* execute_update_to_delta up to the commit: coerce_update_null_literals,  *)
(* then plan_update.                                                       *)
PlanUpdate(prov, fast, st) ==
    LET ids == {fast.locs[i].id : i \in DOMAIN fast.locs}
        locs == IF fast.has THEN ScanLocs(prov.plan, LAMBDA row, id: id \in ids)
                ELSE ScanLocs(prov.plan, LAMBDA row, id: Holds(st.where, row))
        read == [i \in DOMAIN locs |-> Assign(st.set, RowOf(prov, locs[i]))]
        blind == [i \in DOMAIN fast.locs |-> BlindRow(st.set, st.where)]
    IN IF \E c \in DOMAIN st.set \intersect NotNull : st.set[c].lit /\ st.set[c].val = Null THEN Refuse
       ELSE IF Blind(fast, st.set, st.where) THEN Plan(fast.locs, blind, <<>>)
       ELSE IF NullsAllowed(read) THEN Plan(locs, read, <<>>) ELSE Refuse

PlanDelete(prov, fast, st) == Plan(LocateMatches(prov, fast, st.where), <<>>, <<>>)

(* dedup_source: a null key or a repeated key is an error. *)
DedupSource(src) ==
    /\ \A i \in DOMAIN src : src[i].k # Null
    /\ \A i, j \in DOMAIN src : src[i].k = src[j].k => i = j

(* require_unique_key_index *)
HasUniqueKey == \E d \in catalog : d.unique /\ d.col = "k"

(* The live rows of the source keys: those the index names, read by their  *)
(* ids, or those a scan finds.                                             *)
MergeProbe(prov, fast, src) ==
    LET ids == {fast.locs[i].id : i \in DOMAIN fast.locs}
        keys == {src[i].k : i \in DOMAIN src}
    IN IF fast.has THEN ScanLocs(prov.plan, LAMBDA row, id: id \in ids)
       ELSE ScanLocs(prov.plan, LAMBDA row, id: row.k # Null /\ row.k \in keys)

(* Refuse a key that is live twice, and route every source row. *)
Route(prov, probe, st) ==
    LET key(i) == RowOf(prov, probe[i]).k
        hits(x) == {i \in DOMAIN probe : key(i) = x.k}
        in == SelectSeq(st.src, LAMBDA x: hits(x) # {})
        out == SelectSeq(st.src, LAMBDA x: hits(x) = {})
        at(x) == probe[CHOOSE i \in hits(x) : TRUE]
        post(x) == IF st.set = <<>> THEN x ELSE Assign(st.set, RowOf(prov, at(x)))
        rows == [i \in DOMAIN in |-> post(in[i])]
    IN IF \/ ~HasUniqueKey
          \/ ~DedupSource(st.src)
          \/ \E i, j \in DOMAIN probe : i # j /\ key(i) = key(j)
          \/ st.set # <<>> /\ ~NullsAllowed(rows)
       THEN Refuse
       ELSE Plan([i \in DOMAIN in |-> at(in[i])], rows, out)

(* execute_merge_to_delta up to the commit: all keys are probed at once. *)
PlanMerge(prov, fast, st) == Route(prov, MergeProbe(prov, fast, st.src), st)

-----------------------------------------------------------------------------
(* Commits: each under the write lock, against the latest manifest m *)

Patch(frag, ids, rows) ==
    [frag |-> frag, segs |-> <<SortedSegment(ids)>>, rows |-> rows, del |-> {}, ver |-> 0]

Fresh(frag, next, rows) ==
    [frag |-> frag, segs |-> <<AllocateRange(next, Len(rows))>>, rows |-> rows, del |-> {}, ver |-> 0]

(* The offsets of the statement join the vectors of their fragments; a     *)
(* fragment that is gone is passed over.                                   *)
Tombstone(groups, locs) ==
    LET offs(f) == {locs[i].off : i \in {j \in DOMAIN locs : locs[j].frag = f.frag}}
    IN [g \in DOMAIN groups |->
           IF offs(groups[g]) = {} THEN groups[g]
           ELSE [groups[g] EXCEPT !.del = UnionOffsets(@, offs(groups[g])), !.ver = @ + 1]]

(* The order that sorts locs by row id, applied to locs and rows alike. *)
ById(locs) == SortSeq([i \in DOMAIN locs |-> i], LAMBDA i, j: locs[i].id < locs[j].id)

(* The row-index delta of a patch fragment. *)
PatchDelta(frag, ids) == EncodeIdx(Coalesce([i \in DOMAIN ids |-> <<ids[i], frag, i - 1>>]))

WithDelta(idx, d) == [has |-> TRUE, base |-> idx.base, deltas |-> Append(idx.deltas, d)]

Failed(m) == [ok |-> FALSE, m |-> m, delta |-> CommitDelta(m, m, <<>>)]

Committed(m, new, added) == [ok |-> TRUE, m |-> new, delta |-> CommitDelta(m, new, added)]

(* build_indexes_into_manifest: additions for a pure append, else anew. *)
BuildIndexes(m, groups, append) ==
    LET old == {m.groups[g].frag : g \in DOMAIN m.groups}
        added == SelectSeq(groups, LAMBDA f: f.frag \notin old)
    IN IF append THEN MaintainOnInsert(catalog, m.gens, legacy, groups, added)
       ELSE Maintain(catalog, m.gens, groups)

CommitDeletes(m, locs) ==
    LET ids == {IdAt(m.groups, <<locs[i].frag, locs[i].off>>) :
                   i \in {j \in DOMAIN locs : \E g \in DOMAIN m.groups : m.groups[g].frag = locs[j].frag}}
    IN Committed(m, [m EXCEPT !.seq = @ + 1, !.groups = Tombstone(@, locs),
                              !.gens = TombstoneUnique(catalog, @, ids)], <<>>)

CommitUpdate(m, locs, rows, cols) ==
    LET order == ById(locs)
        ids == [i \in DOMAIN order |-> locs[order[i]].id]
        sorted == [i \in DOMAIN order |-> rows[order[i]]]
        patch == Patch(m.nextFrag, ids, sorted)
        kept == MaintainOnUpdate(catalog, m.gens, legacy, cols, sorted, ids)
        new == [m EXCEPT !.seq = @ + 1, !.groups = Append(Tombstone(@, locs), patch),
                         !.nextFrag = @ + 1, !.gens = kept.gens,
                         !.rowindex = WithDelta(@, PatchDelta(m.nextFrag, ids))]
    IN IF kept.ok THEN Committed(m, new, <<patch>>) ELSE Failed(m)

(* The one manifest of a merge: both fragments, and no row-index delta      *)
(* unless rows moved.                                                       *)
Merged(m, groups, ids, patches, inserts, src) ==
    [m EXCEPT !.seq = @ + 1, !.groups = groups,
              !.nextFrag = @ + Len(patches \o inserts), !.nextRow = @ + Len(src),
              !.rowindex = IF ids = <<>> THEN @ ELSE WithDelta(@, PatchDelta(m.nextFrag, ids))]

(* commit_merge: a patch for the matched rows, a fragment for the new ones, *)
(* and every index anew over the result.                                    *)
CommitMerge(m, locs, rows, src) ==
    LET order == ById(locs)
        ids == [i \in DOMAIN order |-> locs[order[i]].id]
        patches == IF locs = <<>> THEN <<>>
                   ELSE <<Patch(m.nextFrag, ids, [i \in DOMAIN order |-> rows[order[i]]])>>
        inserts == IF src = <<>> THEN <<>>
                   ELSE <<Fresh(m.nextFrag + Len(patches), m.nextRow, src)>>
        groups == Tombstone(m.groups, locs) \o patches \o inserts
        built == BuildIndexes(m, groups, FALSE)
    IN IF built.ok
       THEN Committed(m, [Merged(m, groups, ids, patches, inserts, src) EXCEPT !.gens = built.gens],
                      patches \o inserts)
       ELSE Failed(m)

Chunks(s, n) ==
    [c \in 1..((Len(s) + n - 1) \div n) |-> SubSeq(s, (c - 1) * n + 1, Min({c * n, Len(s)}))]

(* slice_batch_into_row_groups: fragments of at most the target size, with *)
(* row ids that go on from one to the next.                                *)
SliceIntoRowGroups(m, src) ==
    LET chunks == Chunks(src, setting.chunk)
    IN [c \in DOMAIN chunks |-> Fresh(m.nextFrag + c - 1, m.nextRow + (c - 1) * setting.chunk, chunks[c])]

(* An insert publishes a manifest without a row-index generation. *)
CommitInsert(m, src) ==
    LET added == SliceIntoRowGroups(m, src)
        groups == m.groups \o added
        kept == BuildIndexes(m, groups, TRUE)
        new == [m EXCEPT !.seq = @ + 1, !.groups = groups, !.nextFrag = @ + Len(added),
                         !.nextRow = @ + Len(src), !.rowindex = NoRowIndex, !.gens = kept.gens]
    IN IF kept.ok THEN Committed(m, new, added) ELSE Failed(m)
-----------------------------------------------------------------------------
(* Compaction *)

(* ids_to_segments: runs when the ids increase, else one sorted segment. *)
IdsToSegments(ids) ==
    LET grow(segs, id) ==
            IF segs # <<>> /\ id = segs[Len(segs)].start + segs[Len(segs)].count
            THEN [segs EXCEPT ![Len(segs)].count = @ + 1]
            ELSE Append(segs, RangeSegment(id, 1))
    IN IF \E i \in 1..(Len(ids) - 1) : ids[i + 1] <= ids[i] THEN <<SortedSegment(ids)>>
       ELSE FoldLeft(grow, <<>>, ids)

(* The live <<id, row>> of every fragment, in file order (filter_live_rows). *)
LiveRows(groups) ==
    LET ofGroup(f) ==
            LET offs == SetToSortSeq(LiveOffsets(f), <)  ids == FragmentIds(f.segs)
            IN [i \in DOMAIN offs |-> <<ids[offs[i] + 1], f.rows[offs[i] + 1]>>]
    IN FlattenSeq([g \in DOMAIN groups |-> ofGroup(groups[g])])

(* Wrong on purpose: the ids are sorted, the rows are not. *)
CompactOrderIds(live, keys) ==
    LET ids == SortSeq([i \in DOMAIN live |-> live[i][1]], <)
    IN [i \in DOMAIN live |-> <<ids[i], live[i][2]>>]

(* Without sort keys the rows are put in the order of their ids. *)
CompactOrder(live, keys) ==
    IF keys = <<>> THEN SortSeq(live, LAMBDA x, y: x[1] < y[1]) ELSE live

(* maybe_sort_batch: nulls first, one key. *)
MaybeSortBatch(rows, keys) ==
    LET before(x, y) == y # Null /\ (x = Null \/ x < y)
    IN IF keys = <<>> THEN rows ELSE SortSeq(rows, LAMBDA x, y: before(x[keys[1]], y[keys[1]]))

(* stage_chunk: the batch is sorted, the ids are in the order they came. *)
StageChunk(chunk, keys, frag) ==
    [frag |-> frag, segs |-> IdsToSegments([i \in DOMAIN chunk |-> chunk[i][1]]),
     rows |-> MaybeSortBatch([i \in DOMAIN chunk |-> chunk[i][2]], keys), del |-> {}, ver |-> 0]

(* The manifest of a compaction: new fragments, the counters and the       *)
(* index generations of the old one, and a row index built anew.           *)
CompactManifest(m, keys, n) ==
    LET chunks == Chunks(CompactOrder(LiveRows(m.groups), keys), n)
        groups == [c \in DOMAIN chunks |-> StageChunk(chunks[c], keys, m.nextFrag + c - 1)]
    IN [m EXCEPT !.seq = @ + 1, !.groups = groups, !.nextFrag = @ + Len(chunks),
                 !.rowindex = [has |-> TRUE, base |-> EncodeIdx(DeriveBase(groups)), deltas |-> <<>>]]

-----------------------------------------------------------------------------
(* What SQL says *)

LiveSet(groups) == Range(LiveRows(groups))

MatchOf(live, x) == {y \in live : y[2].k = x.k}

Replace(st, x, y) == IF st.set = <<>> THEN <<y[1], x>> ELSE <<y[1], Assign(st.set, y[2])>>

(* The rows after a statement; next is the id of the first new row. *)
Meaning(st, live, next) ==
    LET hit == {x \in live : Holds(st.where, x[2])}
        new == SelectSeq(st.src, LAMBDA x: st.op = "insert" \/ MatchOf(live, x) = {})
        added == {<<next + i - 1, new[i]>> : i \in DOMAIN new}
        matched == {x \in Range(st.src) : MatchOf(live, x) # {}}
    IN CASE st.op = "delete" -> live \ hit
         [] st.op = "update" -> (live \ hit) \union {<<x[1], Assign(st.set, x[2])>> : x \in hit}
         [] st.op = "insert" -> live \union added
         [] OTHER -> UNION {live \ UNION {MatchOf(live, x) : x \in matched},
                            UNION {{Replace(st, x, y) : y \in MatchOf(live, x)} : x \in matched}, added}

Violates(rows) ==
    \/ \E d \in catalog : d.unique /\ \E x, y \in rows :
           x[1] # y[1] /\ x[2][d.col] # Null /\ x[2][d.col] = y[2][d.col]
    \/ \E x \in rows : \E c \in NotNull : x[2][c] = Null

Illegal(st, live) ==
    \/ st.op = "merge" /\ (~DedupSource(st.src) \/ ~HasUniqueKey)
    \/ \E c \in DOMAIN st.set \intersect NotNull : st.set[c].lit /\ st.set[c].val = Null
    \/ Violates(Meaning(st, live, manifest.nextRow))

-----------------------------------------------------------------------------
(* A statement or a batch of statements *)

Idle == [pc |-> "idle", batch |-> FALSE, queue |-> <<>>, plan |-> Refuse, delta |-> <<>>,
         mutated |-> FALSE, right |-> TRUE]

NoVerdict == [answer |-> "none", right |-> TRUE]

NoProvider == [seq |-> 0, cached |-> FALSE, plan |-> <<>>, indexes |-> {}]

Quiet == client.pc = "idle"

(* A statement arrives: on the server it takes the mutate lock and uses    *)
(* the registered provider, from the command line it opens its own.  A     *)
(* batch works on a copy of the provider, seeded with its plan.            *)
Start(queue) ==
    LET batch == Len(queue) > 1
    IN /\ Quiet
       /\ manifest.seq < MaxSeq
       /\ client' = [Idle EXCEPT !.pc = "run", !.batch = batch, !.queue = queue]
       /\ \E opened \in {IF setting.session = "cli" THEN OpenProvider(manifest) ELSE pub} :
             /\ pub' = IF batch THEN Materialize(opened) ELSE opened
             /\ wp' = IF batch THEN [pub' EXCEPT !.seq = opened.seq, !.indexes = opened.indexes]
                      ELSE NoProvider
       /\ verdict' = NoVerdict
       /\ UNCHANGED <<manifest, catalog, legacy, creating, behind>>

Provider == IF client.batch THEN wp ELSE pub

(* The provider of the statement becomes p. *)
Becomes(p) ==
    IF client.batch THEN wp' = p /\ UNCHANGED pub ELSE pub' = p /\ UNCHANGED wp

Stop(answer, right) ==
    /\ client' = Idle
    /\ verdict' = [answer |-> answer, right |-> right]
    /\ behind' = (behind \/ (client.batch /\ client.mutated /\ answer # "ok"))

(* The statement is over: the next one of the batch, or the end, where a   *)
(* batch hands its final snapshot to the registered provider.              *)
Done(mutated, right) ==
    IF Len(client.queue) > 1
    THEN client' = [client EXCEPT !.pc = "run", !.queue = Tail(@), !.mutated = mutated, !.right = right]
         /\ UNCHANGED <<verdict, behind>>
    ELSE Stop("ok", right)

PlanOf(prov, fast, st) ==
    CASE st.op = "delete" -> PlanDelete(prov, fast, st)
      [] st.op = "update" -> PlanUpdate(prov, fast, st)
      [] st.op = "merge"  -> PlanMerge(prov, fast, st)
      [] OTHER            -> Plan(<<>>, <<>>, st.src)

(* The predicate the index is asked: MERGE probes its keys. *)
ProbeOf(st) ==
    IF st.op = "merge" THEN InList("k", {st.src[i].k : i \in DOMAIN st.src}) ELSE st.where

(* No statement uses a snapshot that another process, or a batch that     *)
(* failed half-way, has left behind.                                      *)
Undisturbed ==
    /\ ~setting.race
    /\ setting.session = "cli" \/ (setting.foreign = {} /\ setting.compact = {} /\ ~behind)

(* Whether finding no row is the right answer of a statement: it means no  *)
(* change to the rows of the provider's plan, nor, undisturbed, to those   *)
(* of the latest manifest.                                                 *)
NothingMeant(st, prov) ==
    LET read == {prov.plan} \union (IF Undisturbed THEN {manifest.groups} ELSE {})
    IN \A groups \in read : Meaning(st, LiveSet(groups), manifest.nextRow) = LiveSet(groups)

(* A statement that finds no row answers at once: no commit, no check that *)
(* the provider is at the latest sequence.                                 *)
Locate ==
    LET st == Head(client.queue)
    IN /\ client.pc = "run"
       /\ \E prov \in {IF st.op = "insert" THEN Provider ELSE Materialize(Provider)} :
          \E fast \in FastLocs(prov, ProbeOf(st)) : \E plan \in {PlanOf(prov, fast, st)} :
             IF ~plan.ok
             THEN Becomes(prov) /\ Stop("refused", Illegal(st, LiveSet(manifest.groups)))
             ELSE IF plan.locs = <<>> /\ plan.src = <<>>
             THEN /\ Done(client.mutated, client.right /\ NothingMeant(st, prov))
                  /\ IF client.batch /\ client.mutated /\ Len(client.queue) = 1
                     THEN pub' = prov /\ wp' = NoProvider ELSE Becomes(prov)
             ELSE Becomes(prov) /\ client' = [client EXCEPT !.pc = "located", !.plan = plan]
                  /\ UNCHANGED <<verdict, behind>>
       /\ UNCHANGED <<manifest, catalog, legacy, creating>>

CommitOf(m, st, plan) ==
    CASE st.op = "delete" -> CommitDeletes(m, plan.locs)
      [] st.op = "update" -> CommitUpdate(m, plan.locs, plan.rows, DOMAIN st.set)
      [] st.op = "merge"  -> CommitMerge(m, plan.locs, plan.rows, plan.src)
      [] OTHER            -> CommitInsert(m, plan.src)

(* Whether a commit did to the live rows what the statement means. *)
DidAsMeant(st, m, new) ==
    /\ Derivable(new.groups)
    /\ LiveSet(new.groups) = Meaning(st, LiveSet(m.groups), m.nextRow)

Commit ==
    LET st == Head(client.queue)
    IN /\ client.pc = "located"
       /\ \E res \in {CommitOf(manifest, st, client.plan)} :
             /\ manifest' = res.m
             /\ IF res.ok
                THEN /\ client' = [client EXCEPT !.pc = "committed", !.plan = Refuse, !.delta = res.delta,
                                                 !.right = @ /\ DidAsMeant(st, manifest, res.m)]
                     /\ UNCHANGED <<verdict, behind>>
                ELSE Stop("refused", Illegal(st, LiveSet(manifest.groups)))
       /\ UNCHANGED <<catalog, legacy, pub, wp, creating>>

Apply ==
    /\ client.pc = "committed"
    /\ IF ~Applies(Provider, client.delta) THEN Stop("stale", TRUE) /\ UNCHANGED <<pub, wp>>
       ELSE /\ Done(TRUE, client.right)
            /\ \E next \in {ApplyCommittedDelta(Provider, client.delta)} :
                  IF client.batch /\ Len(client.queue) = 1
                  THEN pub' = next /\ wp' = NoProvider ELSE Becomes(next)
    /\ UNCHANGED <<manifest, catalog, legacy, creating>>
-----------------------------------------------------------------------------
(* Other processes *)

MayRace == setting.race \/ Quiet

(* A statement run to its end by another process, on a provider of its own. *)
ForeignStatement(st) ==
    /\ MayRace
    /\ manifest.seq < MaxSeq
    /\ \E prov \in {Materialize(OpenProvider(manifest))} :
       \E fast \in FastLocs(prov, ProbeOf(st)) : \E plan \in {PlanOf(prov, fast, st)} :
          /\ plan.ok /\ (plan.locs # <<>> \/ plan.src # <<>>)
          /\ \E res \in {CommitOf(manifest, st, plan)} : res.ok /\ manifest' = res.m
    /\ UNCHANGED <<catalog, legacy, pub, wp, client, creating, verdict, behind>>

Compact(keys) ==
    LET new == CompactManifest(manifest, keys, setting.chunk)
    IN /\ MayRace
       /\ manifest.seq < MaxSeq
       /\ manifest.groups # <<>>
       /\ Derivable(new.groups)
       /\ manifest' = new
       /\ UNCHANGED <<catalog, legacy, pub, wp, client, creating, verdict, behind>>

(* icefalldb create-index holds the write lock from the build to the       *)
(* registration.                                                           *)
CreateIndex(def) ==
    LET built == BuildBTree(def, manifest.groups)
    IN /\ setting.createVia = "cli" /\ MayRace
       /\ def \notin catalog
       /\ built.ok
       /\ catalog' = catalog \union {def}
       /\ legacy' = (def.name :> Base(built.entries)) @@ legacy
       /\ UNCHANGED <<manifest, pub, wp, client, creating, verdict, behind>>

(* create_index_handler builds and saves without the write lock ... *)
ServerBuildIndex(def) ==
    LET built == BuildBTree(def, manifest.groups)
    IN /\ setting.createVia = "server"
       /\ creating = {} /\ def \notin catalog
       /\ built.ok
       /\ legacy' = (def.name :> Base(built.entries)) @@ legacy
       /\ creating' = {def}
       /\ UNCHANGED <<manifest, catalog, pub, wp, client, verdict, behind>>

(* ... and registers the definition afterwards. *)
ServerRegisterIndex ==
    /\ creating # {}
    /\ catalog' = catalog \union creating
    /\ creating' = {}
    /\ UNCHANGED <<manifest, legacy, pub, wp, client, verdict, behind>>

-----------------------------------------------------------------------------
(* The table starts with one inserted fragment; setting.start says whether *)
(* its indexes were created before the insert (a generation), after it (an *)
(* unversioned file), or not yet.                                          *)
Init ==
    LET group == Fresh(1, 0, setting.rows)
        base == [n \in {d.name : d \in setting.defs} |->
                    Base(BuildBTree(CHOOSE d \in setting.defs : d.name = n, <<group>>).entries)]
        empty == [n \in DOMAIN base |-> Base(<<>>)]
        none == [n \in {} |-> NoBase]
        before == MaintainOnInsert(setting.defs, none, empty, <<group>>, <<group>>).gens
    IN /\ setting \in Settings
       /\ catalog = IF setting.start = "none" THEN {} ELSE setting.defs
       /\ legacy = CASE setting.start = "none" -> none
                     [] setting.start = "before" -> empty
                     [] OTHER -> base
       /\ manifest = [seq |-> 1, groups |-> <<group>>, nextRow |-> Len(setting.rows), nextFrag |-> 2,
                      rowindex |-> NoRowIndex, gens |-> IF setting.start = "before" THEN before ELSE none]
       /\ pub = OpenProvider(manifest)
       /\ wp = NoProvider
       /\ client = Idle
       /\ creating = {}
       /\ verdict = NoVerdict
       /\ behind = FALSE

Step ==
    \/ \E queue \in setting.statements : Start(queue)
    \/ Locate
    \/ Commit
    \/ Apply
    \/ \E st \in setting.foreign : ForeignStatement(st)
    \/ \E keys \in setting.compact : Compact(keys)
    \/ \E def \in setting.defs : CreateIndex(def)
    \/ \E def \in setting.defs : ServerBuildIndex(def)
    \/ ServerRegisterIndex

Next == Step /\ UNCHANGED setting

Spec == Init /\ [][Next]_vars

-----------------------------------------------------------------------------
(* Properties *)

(* A compaction may reorder rows by a sort key. *)
Reclusters == setting.compact \ {<<>>} # {}

(* An index exists only as built under the write lock. *)
BuiltLocked == setting.createVia = "cli"

(* A statement that commits and answers with success did to the live rows *)
(* exactly what SQL says, read from the manifest it committed on, even    *)
(* when other processes committed in between: one that located rows in an *)
(* outdated snapshot is not acknowledged.  This ties the lookup paths     *)
(* (index, learned model, scan, blind update), the patch fragments and    *)
(* the check of previous_sequence in apply_committed_delta.  A statement  *)
(* that finds no row is acknowledged without a commit and without that    *)
(* check: SQL finds none either in the snapshot it read, so no lookup     *)
(* path missed a row; and none in the latest manifest, unless another     *)
(* process, or a batch that failed half-way, moved the table meanwhile.   *)
(* And a refusal (UniqueKeyViolation, NULL in a non-nullable column, a bad *)
(* MERGE source) is one that SQL makes too, while no other process        *)
(* commits and every unique index has a generation.                       *)
OkMeansMeant ==
    BuiltLocked /\ ~Reclusters =>
        /\ verdict.answer = "ok" => verdict.right
        /\ verdict.answer = "refused" /\ Undisturbed /\ setting.start = "before" => verdict.right

(* commit_update, commit_merge and commit_deletes leave at most one live  *)
(* row for an id; derive_base calls the contrary data corruption.  The    *)
(* row index then never sends a live id to another row: every base, delta *)
(* and dropped generation along inserts, updates, merges and compactions  *)
(* leaves either the right address or none, and the memory-mapped search  *)
(* agrees with the in-memory one on everything stored.  Straight after a  *)
(* compaction the row index is complete as well, and                      *)
(* resolve_live_addresses finds the live rows of all ids and no others,   *)
(* also when deletion vectors have grown since.                           *)
RowIndexSound ==
    LET idx == manifest.rowindex
        stored == {idx.base} \union Range(idx.deltas)
    IN /\ Undisturbed => Derivable(manifest.groups)
       /\ Derivable(manifest.groups) =>
             /\ \A a \in LiveAddresses(manifest.groups) :
                   AddressLookup(idx, IdAt(manifest.groups, a)) \in {None, a}
             /\ \A segs \in stored : \A rid \in 0..manifest.nextRow :
                   MmapLookup(segs, rid) = LookupInBase(segs, rid)
       /\ idx.has /\ idx.deltas = <<>> =>
             /\ Verifies(manifest.groups, idx)
             /\ ResolveLive(manifest.groups, idx, 0..(manifest.nextRow - 1))
                    = LiveAddresses(manifest.groups)

(* Whether index i finds every live row of the fragments. *)
Complete(i, groups) ==
    \A x \in LiveSet(groups) : x[2][i.col] # Null => x[1] \in Range(Lookup(i, x[2][i.col]))

(* A registered index finds every live row by its key, through whichever  *)
(* file a provider would open, and the binary, JSON and learned files     *)
(* name the same live rows.  Two live rows never share a key of a         *)
(* registered unique index.                                               *)
IndexesComplete ==
    LET open(d, caches) == OpenIndex(d, d.name \in DOMAIN manifest.gens, RefOf(manifest.gens, d.name),
                                     LegacyOf(legacy, d.name), caches)
        live == {x[1] : x \in LiveSet(manifest.groups)}
        found(i, k) == Range(Lookup(i, k)) \intersect live
    IN BuiltLocked /\ ~Reclusters /\ Undisturbed =>
          \A d \in catalog : \A caches \in SUBSET {"model", "binary"} :
             /\ open(d, caches).has => Complete(open(d, caches), manifest.groups)
             /\ \A k \in Keys : found(open(d, caches), k) = found(open(d, {}), k)
             /\ d.unique => \A x, y \in LiveSet(manifest.groups) :
                                x[2][d.col] # Null /\ x[2][d.col] = y[2][d.col] => x[1] = y[1]

(* A provider that says it is at the latest sequence and has a plan has   *)
(* the fragments of the latest manifest, whatever mixture of deltas,      *)
(* re-pins and batches brought it there, and its indexes find every row   *)
(* of that plan.                                                          *)
ProviderIsFresh ==
    pub.cached /\ pub.seq = manifest.seq =>
        /\ pub.plan = manifest.groups
        /\ BuiltLocked /\ ~Reclusters /\ Undisturbed => \A i \in pub.indexes : Complete(i, pub.plan)

(* A row id that becomes live was never handed out before, and the next   *)
(* id never falls: no delete, merge or compaction makes an id available   *)
(* again.  A compaction without sort keys moves rows and changes none:    *)
(* every live id keeps its row.                                           *)
RowIdsAreStable ==
    [][LET ids(groups) == {x[1] : x \in LiveSet(groups)}
       IN /\ Undisturbed =>
                /\ manifest'.nextRow >= manifest.nextRow
                /\ \A id \in ids(manifest'.groups) \ ids(manifest.groups) : id >= manifest.nextRow
          /\ ~Reclusters /\ Derivable(manifest.groups) =>
                ((\E keys \in setting.compact : manifest' = CompactManifest(manifest, keys, setting.chunk))
                    => LiveSet(manifest'.groups) = LiveSet(manifest.groups))]_vars
=============================================================================
