----------------------------- MODULE MCTableScan -----------------------------
(* A small instance of TableScan. *)
EXTENDS TableScan

Row(a, b) == [c \in Columns |-> IF c = "a" THEN a ELSE b]

MCBatches == {<<Row(2, 0)>>, <<Row(1, 0), Row(2, 1), Row(1, 1), Row(1, 0)>>}

MCLayouts == {[chunked |-> TRUE, pieces |-> 1], [chunked |-> FALSE, pieces |-> 1], [chunked |-> TRUE, pieces |-> 2]}

Query(keep, proj, ids, limit) == [keep |-> keep, proj |-> proj, ids |-> ids, limit |-> limit]

MCQueries ==
    {Query(Null, {"b"}, Null, Null), Query({1}, {"b"}, Null, Null), Query({2}, {"b"}, Null, 1),
     Query({1}, {"a"}, Null, Null), Query({1}, {"a"}, Null, 2), Query({3}, {"a", "b"}, Null, Null),
     Query({1}, {"_rowid", "b"}, Null, Null), Query({2}, {"_rowaddr"}, Null, 1), Query(Null, {"_rowid", "a"}, Null, 2),
     Query({1}, {"_rowid", "_rowaddr"}, {0, 3, 5}, Null), Query({}, {"_rowid"}, {1}, Null)}

Config(tiny, target, native, groups, indexed) ==
    [tiny |-> tiny, target |-> target, native |-> native, groups |-> groups, indexed |-> indexed]

MCConfigs == {Config(4, 2, 1, 1, FALSE), Config(0, 3, 1, 2, TRUE), Config(0, 3, 3, 1, FALSE)}
=============================================================================
