------------------------------ MODULE MCDoctor ------------------------------
(* Instances of Doctor for TLC. *)
EXTENDS Doctor, TLC

CONSTANTS g0, t1, t2, t3

MCTxns == {g0, t1, t2, t3}
MCSymmetry == Permutations({t1, t2, t3})

\* Writers that insert, collect and die.
Inserting == [kinds : {{"insert", "replace", "gc"}, {"parquet"}}, calls : {3}, faults : {{"crash"}}, damages : {{}},
              hits : {0}, archive : BOOLEAN, first : {"chained"}]

\* Every other kind of call, failing and dying, undamaged.
Failing == [kinds : {{"insert", "parquet", "delete"}, {"walUpdate", "insert"}},
            calls : {3}, faults : {AllFaults}, damages : {{}}, hits : {0}, archive : {TRUE},
            first : {"chained"}]

\* A table whose first commits fail.
Starting == [kinds : {{"insert", "parquet"}}, calls : {3}, faults : {AllFaults},
             damages : {{}}, hits : {0}, archive : {FALSE}, first : {"fresh"}]

\* Folds of several records that succeed.
Folding == [kinds : {{"walUpdate", "fold", "insert"}}, calls : {3}, faults : {{}},
            damages : {{}}, hits : {0}, archive : {TRUE}, first : {"chained"}]

\* Two damaged files, beside inserts that die.
Damaged == [kinds : {{"insert", "replace"}}, calls : {2}, faults : {{"crash"}},
            damages : {AllDamages \ {"dataFlipped", "checkpoint"},
                       AllDamages \ {"metaGone"}},
            hits : {2}, archive : {TRUE}, first : {"chained", "legacy"}]

MCSettings == Inserting \cup Failing \cup Starting \cup Folding \cup Damaged
=============================================================================
