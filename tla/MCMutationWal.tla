--------------------------- MODULE MCMutationWal ---------------------------
(* Instances of MutationWal for TLC. *)
EXTENDS MutationWal, FiniteSetsExt, TLC

\* Every kind of call on one fragment, with calls that stop anywhere.
AllCalls == [kinds : {AllKinds \ {"read"}}, frags : kSubset(1, Frags), faults : {{}}]
\* Deferred mutations of two fragments, checkpoints and power losses.
Power == [kinds : {{"walDelete", "walMerge", "checkpoint"}}, frags : {Frags}, faults : {{"power"}}]
\* Torn, late and lost writes.
AnyFault == [kinds : {{"walUpdate", "insert", "checkpoint"}}, frags : kSubset(1, Frags),
             faults : {AllFaults}]
\* A reader among deferred and published mutations.
Reading == [kinds : {{"walDelete", "insert", "checkpoint", "read"}}, frags : {Frags},
            faults : {{}}]

MCSettings == AllCalls \cup Power \cup AnyFault \cup Reading

Symmetry == Permutations(Txns) \cup Permutations(Frags)
=============================================================================
