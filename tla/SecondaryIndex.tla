--------------------------- MODULE SecondaryIndex ---------------------------
(***************************************************************************)
(* Secondary indexes (index.rs, index/binary.rs) and the choice and lookup *)
(* of the representation a table provider opens (provider.rs).             *)
(*                                                                         *)
(* An index maps the key of a value to the stable ids of the rows that     *)
(* carry it.  On disk it is a JSON base, a list of deltas of tombstones    *)
(* and additions, and two derived files next to the base: a binary file    *)
(* for bisection and, when keys and ids are both affine, a learned model.  *)
(* A column's values are numbers; the key of a number is its decimal text, *)
(* of which only the order matters: StringOrder lists the numbers in it.   *)
(***************************************************************************)
EXTENDS RowAddresses, TLC

CONSTANTS
    Null,           \* SQL NULL
    StringOrder     \* the values of an indexed column in the order of their texts

(* StringOrder lists each value once. *)
ASSUME StringOrderAssumption == IsInjective(StringOrder) /\ Range(StringOrder) \subseteq Int

Keys == Range(StringOrder)

(* An index definition of the database catalog. *)
Definition(name, col, unique) == [name |-> name, col |-> col, unique |-> unique]

NoBase == [has |-> FALSE, entries |-> <<>>]

Base(entries) == [has |-> TRUE, entries |-> entries]

NoRef == [base |-> NoBase, deltas |-> <<>>]

-----------------------------------------------------------------------------
(* Building *)

(* The <<key, id>> of every live, non-null row of a column, in file order; *)
(* a fragment without row ids is skipped.                                  *)
CollectAdds(groups, col) ==
    LET ofGroup(f) ==
            LET ids == FragmentIds(f.segs)
                keep == {off \in LiveOffsets(f) : f.rows[off + 1][col] # Null}
                offs == SetToSortSeq(keep, <)
            IN IF f.segs = <<>> THEN <<>>
               ELSE [i \in DOMAIN offs |-> <<f.rows[offs[i] + 1][col], ids[offs[i] + 1]>>]
    IN FlattenSeq([g \in DOMAIN groups |-> ofGroup(groups[g])])

EntriesOf(adds) ==
    [k \in {x[1] : x \in Range(adds)} |->
        SetToSortSeq({x[2] : x \in {y \in Range(adds) : y[1] = k}}, <)]

(* build_btree_index: a unique index refuses a key of two rows. *)
BuildBTree(def, groups) ==
    LET entries == EntriesOf(CollectAdds(groups, def.col))
    IN [ok |-> def.unique => \A k \in DOMAIN entries : Len(entries[k]) = 1, entries |-> entries]

-----------------------------------------------------------------------------
(* Deltas *)

Delta(tombstones, adds) == [tombs |-> tombstones, adds |-> adds]

AppendDelta(ref, delta) == [ref EXCEPT !.deltas = Append(@, delta)]

Push(entries, add) ==
    IF add[1] \in DOMAIN entries
    THEN [entries EXCEPT ![add[1]] = Append(@, add[2])]
    ELSE (add[1] :> <<add[2]>>) @@ entries

Without(ids, dead) == SelectSeq(ids, LAMBDA id: id \notin dead)

DropIds(entries, dead) ==
    LET kept == {k \in DOMAIN entries : Without(entries[k], dead) # <<>>}
    IN [k \in kept |-> Without(entries[k], dead)]

(* Wrong on purpose: the adds of a delta before its tombstones. *)
ApplyDeltasAddsFirst(entries, deltas) ==
    FoldLeft(LAMBDA e, d: DropIds(FoldLeft(Push, e, d.adds), d.tombs), entries, deltas)

(* apply_deltas: oldest first, each delta's tombstones before its adds. *)
ApplyDeltas(entries, deltas) ==
    FoldLeft(LAMBDA e, d: FoldLeft(Push, IF d.tombs = {} THEN e ELSE DropIds(e, d.tombs), d.adds),
             entries, deltas)

(* load_index_by_ref: the versioned base, else the unversioned file. *)
LoadByRef(ref, legacy) ==
    LET base == IF ref.base.has THEN ref.base ELSE legacy
    IN IF base.has THEN Base(ApplyDeltas(base.entries, ref.deltas)) ELSE NoBase

(* load_index_overlay: a later tombstone also removes an earlier addition. *)
Overlay(deltas) ==
    LET replay(o, d) ==
            [tombs |-> o.tombs \union d.tombs,
             adds |-> FoldLeft(Push, [k \in DOMAIN o.adds |-> Without(o.adds[k], d.tombs)], d.adds)]
    IN FoldLeft(replay, [tombs |-> {}, adds |-> <<>>], deltas)

(* IndexDeltaOverlay::merge *)
Merge(overlay, key, base) ==
    Without(base, overlay.tombs) \o (IF key \in DOMAIN overlay.adds THEN overlay.adds[key] ELSE <<>>)

-----------------------------------------------------------------------------
(* The three representations of a base *)

JsonLookup(entries, key) == IF key \in DOMAIN entries THEN entries[key] ELSE <<>>

Rank(key) == CHOOSE i \in DOMAIN StringOrder : StringOrder[i] = key

(* The key directory of the binary file, in the order of the texts. *)
Directory(entries) == SelectSeq(StringOrder, LAMBDA k: k \in DOMAIN entries)

(* BinaryIndexRef::lookup_checked *)
BinaryLookup(entries, key) ==
    LET dir == Directory(entries)
        search[p \in (0..Len(dir)) \X (0..Len(dir))] ==
            LET lo == p[1]  hi == p[2]  mid == lo + ((hi - lo) \div 2)  k == dir[mid + 1]
            IN IF lo >= hi THEN <<>>
               ELSE IF k = key THEN entries[k]
               ELSE IF Rank(key) < Rank(k) THEN search[<<lo, mid>>] ELSE search[<<mid + 1, hi>>]
    IN search[<<0, Len(dir)>>]

NoModel == [base |-> 0, stride |-> 0, rid |-> 0, step |-> 0, count |-> 0]

(* LearnedKeyModel::fit: the keys in numeric order, each of one row, must  *)
(* be affine, and so must their ids; two points at least.                  *)
LearnedFit(entries) ==
    LET keys == SetToSortSeq(DOMAIN entries, <)
        id(i) == entries[keys[i]][1]
        model == [base |-> keys[1], stride |-> keys[2] - keys[1],
                  rid |-> id(1), step |-> id(2) - id(1), count |-> Len(keys)]
    IN IF \/ \E k \in DOMAIN entries : Len(entries[k]) # 1
          \/ Len(keys) < 2
       THEN NoModel
       ELSE IF \A i \in DOMAIN keys : /\ keys[i] = model.base + (i - 1) * model.stride
                                      /\ id(i) = model.rid + (i - 1) * model.step
       THEN model ELSE NoModel

(* LearnedKeyModel::lookup *)
LearnedLookup(m, key) ==
    LET off == key - m.base
        i == off \div m.stride
    IN IF off % m.stride # 0 \/ i < 0 \/ i >= m.count \/ m.rid + i * m.step < 0 THEN <<>>
       ELSE <<m.rid + i * m.step>>

(* load_snapshot_indexes for one index: the model when no delta is on top, *)
(* else the binary file under the overlay, else the JSON.  caches says     *)
(* which derived files are there; an unversioned base is used when the     *)
(* manifest has no generation.                                             *)
OpenIndex(def, hasRef, ref, legacy, caches) ==
    LET base == IF hasRef THEN ref.base ELSE legacy
        deltas == IF hasRef THEN ref.deltas ELSE <<>>
        model == LearnedFit(base.entries)
        json == LoadByRef(ref, legacy)
        opened(kind, b, over, m) ==
            [has |-> TRUE, kind |-> kind, col |-> def.col, entries |-> b, over |-> over, model |-> m]
        noOver == Overlay(<<>>)
    IN IF base.has /\ deltas = <<>> /\ "model" \in caches /\ model # NoModel
       THEN opened("learned", <<>>, noOver, model)
       ELSE IF base.has /\ "binary" \in caches THEN opened("binary", base.entries, Overlay(deltas), NoModel)
       ELSE IF hasRef /\ json.has THEN opened("json", json.entries, noOver, NoModel)
       ELSE IF ~hasRef /\ legacy.has THEN opened("json", legacy.entries, noOver, NoModel)
       ELSE [has |-> FALSE, kind |-> "json", col |-> def.col, entries |-> <<>>, over |-> noOver, model |-> NoModel]

(* SnapshotIndex::lookup *)
Lookup(index, key) ==
    CASE index.kind = "learned" -> LearnedLookup(index.model, key)
      [] index.kind = "binary"  -> Merge(index.over, key, BinaryLookup(index.entries, key))
      [] OTHER                  -> JsonLookup(index.entries, key)

-----------------------------------------------------------------------------
(* Maintenance.  gens maps the names of indexes to their refs, legacy to   *)
(* their unversioned files.                                                *)

RefOf(gens, name) == IF name \in DOMAIN gens THEN gens[name] ELSE NoRef

LegacyOf(legacy, name) == IF name \in DOMAIN legacy THEN legacy[name] ELSE NoBase

(* check_unique_adds: two rows of the batch, or a row that is in the index *)
(* and is not being replaced.                                              *)
UniqueAdds(existing, adds, tombstoned) ==
    /\ \A x, y \in Range(adds) : x[1] = y[1] => x[2] = y[2]
    /\ \A x \in Range(adds) :
           x[1] \in DOMAIN existing => Range(existing[x[1]]) \subseteq tombstoned

(* IndexMaintainer::maintain: every index anew. *)
Maintain(catalog, gens, groups) ==
    LET built(d) == BuildBTree(d, groups)
        new == [n \in {d.name : d \in catalog} |->
                   [base |-> Base(built(CHOOSE d \in catalog : d.name = n).entries), deltas |-> <<>>]]
    IN [ok |-> \A d \in catalog : built(d).ok, gens |-> new @@ gens]

(* maintain_on_update: only the indexes of SET columns; a unique one needs *)
(* a base to check against.                                                *)
MaintainOnUpdate(catalog, gens, legacy, cols, rows, ids) ==
    LET touched == {d \in catalog : d.col \in cols}
        addsOf(d) == SelectSeq([i \in DOMAIN ids |-> <<rows[i][d.col], ids[i]>>],
                               LAMBDA x: x[1] # Null)
        existing(d) == LoadByRef(RefOf(gens, d.name), LegacyOf(legacy, d.name))
        fine(d) == d.unique /\ addsOf(d) # <<>> =>
                       existing(d).has /\ UniqueAdds(existing(d).entries, addsOf(d), Range(ids))
        new == [n \in {d.name : d \in touched} |->
                   LET d == CHOOSE e \in touched : e.name = n
                   IN AppendDelta(RefOf(gens, n), Delta(Range(ids), addsOf(d)))]
    IN [ok |-> \A d \in touched : fine(d), gens |-> new @@ gens]

(* maintain_on_insert: additions on top of the generation, or of the       *)
(* unversioned file; without either, a full build.                         *)
MaintainOnInsert(catalog, gens, legacy, groups, added) ==
    LET ref(d) == IF d.name \in DOMAIN gens THEN gens[d.name]
                  ELSE [base |-> LegacyOf(legacy, d.name), deltas |-> <<>>]
        addsOf(d) == CollectAdds(added, d.col)
        existing(d) == LoadByRef(ref(d), LegacyOf(legacy, d.name))
        fine(d) == IF ~ref(d).base.has THEN BuildBTree(d, groups).ok
                   ELSE d.unique /\ addsOf(d) # <<>> =>
                            existing(d).has /\ UniqueAdds(existing(d).entries, addsOf(d), {})
        newRef(d) == IF ref(d).base.has THEN AppendDelta(ref(d), Delta({}, addsOf(d)))
                     ELSE [base |-> Base(BuildBTree(d, groups).entries), deltas |-> <<>>]
        new == [n \in {d.name : d \in catalog} |-> newRef(CHOOSE d \in catalog : d.name = n)]
    IN [ok |-> \A d \in catalog : fine(d), gens |-> new @@ gens]

(* append_tombstones on the unique indexes that have a generation. *)
TombstoneUnique(catalog, gens, ids) ==
    LET hit == {d.name : d \in {e \in catalog : e.unique /\ e.name \in DOMAIN gens}}
    IN IF ids = {} THEN gens
       ELSE [n \in DOMAIN gens |-> IF n \in hit THEN AppendDelta(gens[n], Delta(ids, <<>>)) ELSE gens[n]]
=============================================================================
