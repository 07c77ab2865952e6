-------------------------- MODULE MCCommitProtocol -------------------------
(* The commit protocol on a small table: a first snapshot and a few calls.  *)
EXTENDS CommitProtocol, TLC

CONSTANTS g0, t1, t2, t3

MCTxns     == {g0, t1, t2, t3}
MCTwoTxns  == {g0, t1, t2}
MCRetains  == {0, 1}

\* The calls after the first are interchangeable; only safety is checked so.
MCSymmetry == Permutations({t1, t2, t3})
=============================================================================
