------------------------- MODULE MCMetadataAnswers -------------------------
(* Instances of MetadataAnswers for TLC. *)
EXTENDS MetadataAnswers

\* Integers of both signs, so that sums cancel and extrema change sign; two
\* fragments, batch INSERTs with .agg sidecars, published DELETEs.
Aggregates ==
  [type |-> "int", keys |-> {1}, values |-> {-1, 2}, lits |-> {0, 2}, part |-> {},
   paths |-> {"batch"}, sidecars |-> {"agg"}, deferred |-> {FALSE}, faults |-> {},
   frags |-> 2, rows |-> 2, table |-> 3]
\* One fragment, partitioned by k, from batches or a Parquet file, with literals
\* below, inside and above the values, and unreadable .meta files.
Pruning ==
  [Aggregates EXCEPT !.keys = {1, 2}, !.lits = -1 .. 2, !.part = {"k"},
     !.paths = {"batch", "footer"}, !.deferred = BOOLEAN, !.faults = {"meta"},
     !.frags = 1, !.table = 2]
\* Two fragments (k always NULL), unreadable .meta files and restarts.
Faulty ==
  [Aggregates EXCEPT !.keys = {}, !.values = {1, 2}, !.lits = {1}, !.faults = {"meta", "restart"}]
\* Tables whose metadata is not all that it seems.
Small == [Aggregates EXCEPT !.lits = {1}, !.frags = 1, !.table = 2]
Unsigned == [Small EXCEPT !.type = "uint", !.values = {0, 1, 3}, !.lits = {0, 1, 3}]
Infinite == [Small EXCEPT !.type = "float", !.values = {1, Inf}, !.lits = {0, 1, 2}]
Floats == [Infinite EXCEPT !.values = {1, 2}]
Strings == [Small EXCEPT !.type = "str", !.values = {1, 2}, !.lits = {1, 2},
              !.paths = {"batch", "footer", "footer_no_nulls"}]
Legacy == [Small EXCEPT !.values = {1, 2}, !.sidecars = {"legacy"}, !.deferred = BOOLEAN,
             !.faults = {"meta", "restart"}]

MCSettings == {Aggregates, Pruning, Faulty, Unsigned, Infinite, Floats, Strings, Legacy}
=============================================================================
