--------------------------- MODULE MCTransactions ---------------------------
(* Instances of Transactions for TLC. *)
EXTENDS Transactions

\* Inserts, commits and rollbacks that race, with failing commits and a crash.
Failing == [kinds : {{"rollback"}}, faults : {{}, {"fail", "crash"}}]
\* Queries and another process that move providers and tables.
Shared == [kinds : {{"query"}}, faults : {{"external"}, {"fail", "external"}}]

MCSettings == Failing \cup Shared
=============================================================================
