---------------------------- MODULE MCCompaction ----------------------------
(* Instances of Compaction for TLC. *)
EXTENDS Compaction, SequencesExt

\* Publishing writers that succeed, on every row, with every attempt.
Publishing == [rows : {SetToSeq(Rows)}, inserts : {Inserts}, kinds : {{"insert", "delete"}},
               attempts : {MaxAttempts}, faults : {{}}]
\* Every fault, on two rows, with one insert and two attempts.
AnyFault == [rows : {SetToSeq(CHOOSE r \in SUBSET Rows : Cardinality(r) = 2)},
             inserts : {CHOOSE i \in SUBSET Inserts : Cardinality(i) = 1},
             kinds : {{"insert", "walDelete"}, {"delete", "walDelete"}}, attempts : {2},
             faults : {AllFaults}]

\* Deferred deletes among the others, nothing failing.
Deferring == [rows : {SetToSeq(Rows)}, inserts : {CHOOSE i \in SUBSET Inserts : Cardinality(i) = 1},
              kinds : {AllKinds}, attempts : {2}, faults : {{}}]

MCSettings == Publishing \cup AnyFault \cup Deferring

\* One attempt beside deferred deletes that succeed.
Deferred == [rows : {SetToSeq(Rows)}, inserts : {{}}, kinds : {{"walDelete"}}, attempts : {1},
             faults : {{}}]
=============================================================================
