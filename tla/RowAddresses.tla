---------------------------- MODULE RowAddresses ----------------------------
(***************************************************************************)
(* Stable row ids and where their rows are: the row-id segments of a       *)
(* fragment (rowid.rs), the address segments of the row index and their    *)
(* lookup (rowindex/), and deletion vectors (deletion.rs).                 *)
(*                                                                         *)
(* A fragment is [frag, segs, rows, del, ver]: its id, its row-id          *)
(* segments, the rows of its data file in physical order, the offsets its  *)
(* deletion vector holds, and the version in that vector's name (0: none). *)
(* Offsets count from 0.  An address is <<fragment, offset>>.              *)
(***************************************************************************)
EXTENDS Integers, Sequences, FiniteSets, SequencesExt, FiniteSetsExt

(* What a lookup returns that finds nothing. *)
None == <<>>

-----------------------------------------------------------------------------
(* rowid.rs *)

RangeSegment(start, count) == [kind |-> "range", start |-> start, count |-> count, ids |-> <<>>]

SortedSegment(ids) == [kind |-> "sorted", start |-> 0, count |-> 0, ids |-> ids]

(* allocate_range: the segment of count fresh ids that start at next. *)
AllocateRange(next, count) == RangeSegment(next, count)

SegmentIds(seg) ==
    IF seg.kind = "range" THEN [i \in 1..seg.count |-> seg.start + i - 1] ELSE seg.ids

(* The ids of a fragment in physical order. *)
FragmentIds(segs) == FlattenSeq([i \in DOMAIN segs |-> SegmentIds(segs[i])])

SegmentLen(seg) == IF seg.kind = "range" THEN seg.count ELSE Len(seg.ids)

(* offset_of_row_id: the segments before the hit, then the place in it. *)
OffsetOfRowId(segs, rid) ==
    LET base(i) == FoldSeq(LAMBDA s, n: n + SegmentLen(s), 0, SubSeq(segs, 1, i - 1))
        inRange(s) == s.kind = "range" /\ rid >= s.start /\ rid < s.start + s.count
        hits == {i \in DOMAIN segs : inRange(segs[i])
                    \/ (segs[i].kind = "sorted" /\ rid \in Range(segs[i].ids))}
        i == Min(hits)
        within == IF segs[i].kind = "range" THEN rid - segs[i].start
                  ELSE Min({j \in DOMAIN segs[i].ids : segs[i].ids[j] = rid}) - 1
    IN IF hits = {} THEN None ELSE <<base(i) + within>>

-----------------------------------------------------------------------------
(* deletion.rs, and what a fragment holds *)

UnionOffsets(dv, offsets) == dv \union offsets

IsLive(f, off) == off \notin f.del

(* The live addresses of a sequence of fragments. *)
LiveOffsets(f) == {off \in 0..(Len(f.rows) - 1) : IsLive(f, off)}

LiveAddresses(groups) ==
    UNION {{<<groups[g].frag, off>> : off \in LiveOffsets(groups[g])} : g \in DOMAIN groups}

GroupOf(groups, frag) == groups[CHOOSE g \in DOMAIN groups : groups[g].frag = frag]

IdAt(groups, a) == FragmentIds(GroupOf(groups, a[1]).segs)[a[2] + 1]

RowAt(groups, a) == GroupOf(groups, a[1]).rows[a[2] + 1]

-----------------------------------------------------------------------------
(* rowindex/mod.rs and rowindex/writer.rs *)

AddrSegment(id, frag, off) == [start |-> id, frag |-> frag, off |-> off, len |-> 1]

(* A run of ids grows while id, offset and fragment stay consecutive. *)
Coalesce(live) ==
    LET extends(last, x) == /\ last.frag = x[2]
                            /\ x[1] = last.start + last.len
                            /\ x[3] = last.off + last.len
        add(x, segs) ==
            IF segs # <<>> /\ extends(segs[Len(segs)], x)
            THEN [segs EXCEPT ![Len(segs)].len = @ + 1]
            ELSE Append(segs, AddrSegment(x[1], x[2], x[3]))
    IN FoldLeft(LAMBDA segs, x: add(x, segs), <<>>, live)

(* The live rows <<id, fragment, offset>> of a manifest, by id. *)
SortedLive(groups) ==
    SetToSortSeq({<<IdAt(groups, a), a[1], a[2]>> : a \in LiveAddresses(groups)},
                 LAMBDA x, y: x[1] < y[1] \/ (x[1] = y[1] /\ x[2] < y[2]))

(* derive_base refuses a live id that is in two places. *)
Derivable(groups) ==
    \A a, b \in LiveAddresses(groups) : IdAt(groups, a) = IdAt(groups, b) => a = b

DeriveBase(groups) == Coalesce(SortedLive(groups))

(* encode_idx stores the segments by start id; decode_idx returns them. *)
EncodeIdx(segs) == SortSeq(segs, LAMBDA s, t: s.start < t.start)

-----------------------------------------------------------------------------
(* rowindex/reader.rs *)

Resolve(seg, rid) ==
    IF rid < seg.start + seg.len THEN <<seg.frag, seg.off + (rid - seg.start)>> ELSE None

(* lookup_in_base: the last segment that starts at or before rid, and then *)
(* the check that it reaches rid.                                          *)
LookupInBase(segs, rid) ==
    LET point == Cardinality({i \in DOMAIN segs : segs[i].start <= rid})
    IN IF point = 0 THEN None ELSE Resolve(segs[point], rid)

(* MmapBase::lookup: the same by bisection over the encoded segments. *)
Bisect(segs, rid) ==
    LET step[p \in (0..Len(segs)) \X (0..Len(segs))] ==
            LET lo == p[1]  hi == p[2]  mid == lo + ((hi - lo) \div 2)
            IN IF lo + 1 >= hi THEN lo
               ELSE IF segs[mid + 1].start <= rid THEN step[<<mid, hi>>] ELSE step[<<lo, mid>>]
    IN step[<<0, Len(segs)>>]

MmapLookup(segs, rid) ==
    IF segs = <<>> THEN None
    ELSE LET lo == Bisect(segs, rid)
         IN IF segs[lo + 1].start > rid THEN None ELSE LookupInBase(<<segs[lo + 1]>>, rid)

(* Wrong on purpose: the oldest delta that knows the id wins. *)
AddressLookupOldest(map, rid) ==
    LET hits == {d \in DOMAIN map.deltas : LookupInBase(map.deltas[d], rid) # None}
    IN IF hits # {} THEN LookupInBase(map.deltas[Min(hits)], rid) ELSE LookupInBase(map.base, rid)

(* AddressMap::lookup: the newest delta that knows the id, then the base. *)
AddressLookup(map, rid) ==
    LET hits == {d \in DOMAIN map.deltas : LookupInBase(map.deltas[d], rid) # None}
    IN IF hits # {} THEN LookupInBase(map.deltas[Max(hits)], rid)
       ELSE LookupInBase(map.base, rid)

(* resolve_live_addresses: what the map finds and no deletion vector hides. *)
ResolveLive(groups, map, rids) ==
    {a \in {AddressLookup(map, rid) : rid \in rids} :
        a # None /\ ~\E g \in DOMAIN groups : groups[g].frag = a[1] /\ a[2] \in groups[g].del}

(* verify: every live row is found where it is. *)
Verifies(groups, map) ==
    \A a \in LiveAddresses(groups) : AddressLookup(map, IdAt(groups, a)) = a
=============================================================================
