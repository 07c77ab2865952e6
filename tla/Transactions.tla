---------------------------- MODULE Transactions ----------------------------
(***************************************************************************)
(* The transactions of icefalldb-server: /tx/begin, /tx/sql, /tx/commit    *)
(* and /tx/rollback (transaction.rs, server.rs) over the transaction log   *)
(* (wal.rs), recovery at server start (recovery.rs), and the sequence each *)
(* registered provider is pinned to (provider.rs), which concurrent /sql   *)
(* queries move as well.                                                   *)
(*                                                                         *)
(* A table is what AtomicTable promises: a commit adds its batches in one  *)
(* step.  A batch is named by its transaction and table; what matters is   *)
(* how often a table holds it.                                             *)
(***************************************************************************)
EXTENDS Integers, FiniteSets, FiniteSetsExt

CONSTANTS
    Txns,         \* transaction ids
    NTables,      \* tables are 1 .. NTables, in the order of the BTreeMap
    Settings,     \* what an execution has: the kinds of requests besides /tx/begin,
                  \* /tx/sql and /tx/commit, and the faults (Fail, Crash, External)
    MaxRestarts,  \* bound on Crash
    MaxExternal   \* bound on External

AllKinds == {"rollback", "query"}
AllFaults == {"fail", "crash", "external"}

None == "none"

ASSUME TransactionsAssumption ==
    /\ IsFiniteSet(Txns) /\ None \notin Txns /\ NTables \in Nat \ {0}
    /\ Settings \subseteq [kinds : SUBSET AllKinds, faults : SUBSET AllFaults]
    /\ MaxRestarts \in Nat /\ MaxExternal \in Nat

Tables == 1 .. NTables

VARIABLES
    log,             \* the entries of _wal/ (their order decides nothing)
    copies, seq,     \* each table: how often it holds a batch, its sequence
    up, todo,        \* the server: its phase, and what recovery has left to apply
    active, buffer,  \* TransactionManager.transactions and the buffered batches
    ins,             \* the /tx/sql request of a transaction, logged, not yet buffered
    mutateLock,      \* the holder of Server.mutate_lock
    locks,           \* the holder of each table's _write.lock
    cpc, left, prev, \* /tx/commit: its step, tables left, previous_sequence of deltas
    rpc,             \* /tx/rollback: its step
    pinned, warm,    \* each provider: pinned_sequence, and is its plan cached there?
    acked, refused,  \* batches whose /tx/sql returned Ok, or an error
    reply,           \* what the client was told of the transaction
    restarts, external,
    setting          \* the one of Settings this execution has

disk == <<log, copies, seq>>
session == <<active, buffer, ins>>
commit == <<cpc, left, prev>>
provider == <<pinned, warm>>
client == <<acked, refused, reply>>
bounds == <<restarts, external>>
vars == <<disk, up, todo, session, mutateLock, locks, commit, rpc, provider, client, bounds,
          setting>>

Kinds == setting.kinds
Faults == setting.faults

Batches == Txns \X Tables
Entry(op, tx) == [op |-> op, tx |-> tx]
InsertEntry(tx, t) == [op |-> "insert", tx |-> tx, table |-> t]

Init ==
    /\ setting \in Settings
    /\ log = {}
    /\ copies = [b \in Batches |-> 0] /\ seq = [t \in Tables |-> 1]
    /\ up = "serving" /\ todo = {}
    /\ active = {} /\ buffer = [tx \in Txns |-> {}] /\ ins = [tx \in Txns |-> 0]
    /\ mutateLock = None /\ locks = [t \in Tables |-> None]
    /\ cpc = [tx \in Txns |-> "idle"] /\ left = [tx \in Txns |-> {}]
    /\ prev = [b \in Batches |-> 0]
    /\ rpc = {}
    /\ pinned = seq /\ warm = [t \in Tables |-> FALSE]
    /\ acked = {} /\ refused = {} /\ reply = [tx \in Txns |-> None]
    /\ restarts = 0 /\ external = 0

-----------------------------------------------------------------------------
(* /tx/begin, /tx/sql and /tx/rollback *)

\* begin: log, then register.  A fresh uuid: no transaction begins twice.
Begin(tx) ==
    /\ up = "serving" /\ Entry("begin", tx) \notin log
    /\ log' = log \cup {Entry("begin", tx)}
    /\ active' = active \cup {tx}
    /\ UNCHANGED <<copies, seq, up, todo, buffer, ins, mutateLock, locks, commit, rpc,
                   provider, client, bounds>>

\* add_insert logs the batch first, whatever has become of the transaction ...
LogInsert(tx, t) ==
    /\ up = "serving" /\ Entry("begin", tx) \in log /\ ins[tx] = 0
    /\ InsertEntry(tx, t) \notin log
    /\ log' = log \cup {InsertEntry(tx, t)}
    /\ ins' = [ins EXCEPT ![tx] = t]
    /\ UNCHANGED <<copies, seq, up, todo, active, buffer, mutateLock, locks, commit, rpc,
                   provider, client, bounds>>

\* An add_insert that buffers nothing and reports no error when the
\* transaction is gone.
BufferInsertUnchecked(tx) ==
    /\ up = "serving" /\ ins[tx] # 0
    /\ ins' = [ins EXCEPT ![tx] = 0]
    /\ buffer' = [buffer EXCEPT ![tx] = @ \cup (IF tx \in active THEN {ins[tx]} ELSE {})]
    /\ acked' = acked \cup {<<tx, ins[tx]>>}
    /\ UNCHANGED <<disk, up, todo, active, mutateLock, locks, commit, rpc, provider,
                   refused, reply, bounds>>

\* An add_insert that buffers into a commit waiting for its locks, and then finds
\* the transaction gone.
BufferInsertFirst(tx) ==
    /\ up = "serving" /\ ins[tx] # 0
    /\ ins' = [ins EXCEPT ![tx] = 0]
    /\ buffer' = [buffer EXCEPT ![tx] = @ \cup
                     (IF tx \in active \/ cpc[tx] = "lock" THEN {ins[tx]} ELSE {})]
    /\ IF tx \in active
       THEN acked' = acked \cup {<<tx, ins[tx]>>} /\ UNCHANGED refused
       ELSE refused' = refused \cup {<<tx, ins[tx]>>} /\ UNCHANGED acked
    /\ UNCHANGED <<disk, up, todo, active, mutateLock, locks, commit, rpc, provider,
                   reply, bounds>>

\* ... and then buffers it, or finds no transaction and returns an error.
BufferInsert(tx) ==
    /\ up = "serving" /\ ins[tx] # 0
    /\ ins' = [ins EXCEPT ![tx] = 0]
    /\ IF tx \in active
       THEN /\ buffer' = [buffer EXCEPT ![tx] = @ \cup {ins[tx]}]
            /\ acked' = acked \cup {<<tx, ins[tx]>>} /\ UNCHANGED refused
       ELSE /\ refused' = refused \cup {<<tx, ins[tx]>>}
            /\ UNCHANGED <<buffer, acked>>
    /\ UNCHANGED <<disk, up, todo, active, mutateLock, locks, commit, rpc, provider,
                   reply, bounds>>

\* rollback takes the transaction out of the map ...
Rollback(tx) ==
    /\ up = "serving" /\ "rollback" \in Kinds /\ tx \in active
    /\ active' = active \ {tx}
    /\ rpc' = rpc \cup {tx}
    /\ UNCHANGED <<disk, up, todo, buffer, ins, mutateLock, locks, commit, provider,
                   client, bounds>>

\* ... and logs it.
LogRollback(tx) ==
    /\ up = "serving" /\ tx \in rpc
    /\ log' = log \cup {Entry("rollback", tx)}
    /\ rpc' = rpc \ {tx}
    /\ reply' = [reply EXCEPT ![tx] = "rolledBack"]
    /\ UNCHANGED <<copies, seq, up, todo, session, mutateLock, locks, commit, provider,
                   acked, refused, bounds>>

-----------------------------------------------------------------------------
(* /tx/commit *)

\* commit_handler takes mutate_lock, and commit the transaction out of the map.
Take(tx) ==
    /\ up = "serving" /\ mutateLock = None /\ tx \in active
    /\ mutateLock' = tx
    /\ active' = active \ {tx}
    /\ left' = [left EXCEPT ![tx] = buffer[tx]]
    /\ cpc' = [cpc EXCEPT ![tx] = IF buffer[tx] = {} THEN "log" ELSE "lock"]
    /\ UNCHANGED <<disk, up, todo, buffer, ins, locks, prev, rpc, provider, client, bounds>>

\* The step after the one at `here', once for each table in order.
Advance(tx, t, here, next) ==
    LET rest == left[tx] \ {t} IN
    /\ left' = [left EXCEPT ![tx] = IF rest = {} THEN buffer[tx] ELSE rest]
    /\ cpc' = [cpc EXCEPT ![tx] = IF rest = {} THEN next ELSE here]

\* A commit whose table writers take the locks again.
LockTableAgain(tx) ==
    /\ cpc[tx] = "lock"
    /\ LET t == Min(left[tx]) IN
          /\ locks[t] = None
          /\ locks' = [locks EXCEPT ![t] = tx]
          /\ Advance(tx, t, "lock", "lock")
    /\ UNCHANGED <<disk, up, todo, session, mutateLock, prev, rpc, provider, client, bounds>>

LockTable(tx) ==
    /\ cpc[tx] = "lock"
    /\ LET t == Min(left[tx]) IN
          /\ locks[t] = None
          /\ locks' = [locks EXCEPT ![t] = tx]
          /\ Advance(tx, t, "lock", "write")
    /\ UNCHANGED <<disk, up, todo, session, mutateLock, prev, rpc, provider, client, bounds>>

\* A table commit that is tried again although it succeeded.
CommitTableRetries(tx) ==
    /\ cpc[tx] = "write"
    /\ LET t == Min(left[tx]) IN
          /\ copies' = [copies EXCEPT ![<<tx, t>>] = @ + 1]
          /\ seq' = [seq EXCEPT ![t] = @ + 1]
          /\ prev' = [prev EXCEPT ![<<tx, t>>] = seq[t]]
          /\ Advance(tx, t, "write", "log") \/ UNCHANGED <<cpc, left>>
    /\ UNCHANGED <<log, up, todo, session, mutateLock, locks, rpc, provider, client, bounds>>

\* One Writer::commit for each table, under the locks of all of them.
CommitTable(tx) ==
    /\ cpc[tx] = "write"
    /\ LET t == Min(left[tx]) IN
          /\ copies' = [copies EXCEPT ![<<tx, t>>] = @ + 1]
          /\ seq' = [seq EXCEPT ![t] = @ + 1]
          /\ prev' = [prev EXCEPT ![<<tx, t>>] = seq[t]]
          /\ Advance(tx, t, "write", "log")
    /\ UNCHANGED <<log, up, todo, session, mutateLock, locks, rpc, provider, client, bounds>>

Unlocked(tx) == [t \in Tables |-> IF locks[t] = tx THEN None ELSE locks[t]]
Answer(tx, what) ==
    /\ reply' = [reply EXCEPT ![tx] = what]
    /\ cpc' = [cpc EXCEPT ![tx] = "idle"] /\ left' = [left EXCEPT ![tx] = {}]
    /\ mutateLock' = IF mutateLock = tx THEN None ELSE mutateLock

\* The commit record, after which the table locks are dropped.
LogCommit(tx) ==
    /\ cpc[tx] = "log"
    /\ log' = log \cup {Entry("commit", tx)}
    /\ locks' = Unlocked(tx)
    /\ IF buffer[tx] = {}
       THEN Answer(tx, "committed")
       ELSE cpc' = [cpc EXCEPT ![tx] = "refresh"] /\ UNCHANGED <<left, mutateLock, reply>>
    /\ UNCHANGED <<copies, seq, up, todo, session, prev, rpc, provider, acked, refused,
                   bounds>>

\* apply_committed_delta for each table: an error unless the provider is pinned
\* where the delta starts.  A cached plan stays cached, a missing one missing.
Refresh(tx) ==
    /\ cpc[tx] = "refresh"
    /\ LET t == Min(left[tx]) IN
       IF pinned[t] # prev[<<tx, t>>]
       THEN Answer(tx, "error") /\ UNCHANGED pinned
       ELSE /\ pinned' = [pinned EXCEPT ![t] = prev[<<tx, t>>] + 1]
            /\ IF left[tx] = {t} THEN Answer(tx, "committed")
               ELSE /\ left' = [left EXCEPT ![tx] = @ \ {t}]
                    /\ UNCHANGED <<cpc, mutateLock, reply>>
    /\ UNCHANGED <<disk, up, todo, session, locks, prev, rpc, warm, acked, refused, bounds>>

\* A lock times out, a table commit or the log fails: `?' drops the guards.
Fail(tx) ==
    /\ "fail" \in Faults /\ cpc[tx] \in {"lock", "write", "log"}
    /\ locks' = Unlocked(tx)
    /\ Answer(tx, "error")
    /\ UNCHANGED <<disk, up, todo, session, prev, rpc, provider, acked, refused, bounds>>

-----------------------------------------------------------------------------
(* /sql, other processes, and server restarts *)

\* current_scan_plan without a cached plan: load the newest manifest, pin to it.
Query(t) ==
    /\ up = "serving" /\ "query" \in Kinds /\ ~warm[t]
    /\ pinned' = [pinned EXCEPT ![t] = Max({@, seq[t]})]
    /\ warm' = [warm EXCEPT ![t] = TRUE]
    /\ UNCHANGED <<disk, up, todo, session, mutateLock, locks, commit, rpc, client, bounds>>

\* Another process (the CLI) commits to a table.
External(t) ==
    /\ "external" \in Faults /\ external < MaxExternal /\ locks[t] = None
    /\ seq' = [seq EXCEPT ![t] = @ + 1]
    /\ external' = external + 1
    /\ UNCHANGED <<log, copies, up, todo, session, mutateLock, locks, commit, rpc, provider,
                   client, restarts>>

\* The server dies, serving or recovering.
Crash ==
    /\ "crash" \in Faults /\ up # "down" /\ restarts < MaxRestarts
    /\ restarts' = restarts + 1
    /\ up' = "down" /\ todo' = {}
    /\ active' = {} /\ buffer' = [tx \in Txns |-> {}] /\ ins' = [tx \in Txns |-> 0]
    /\ mutateLock' = None /\ locks' = [t \in Tables |-> None]
    /\ cpc' = [tx \in Txns |-> "idle"] /\ left' = [tx \in Txns |-> {}]
    /\ prev' = [b \in Batches |-> 0] /\ rpc' = {}
    /\ UNCHANGED <<disk, provider, client, external>>

\* recover: the transactions with a commit record.
Committed == {tx \in Txns : Entry("commit", tx) \in log}

\* Server::new opens the providers, and only then starts recovery, which will
\* insert every logged batch of every committed transaction.
Start ==
    /\ up = "down" /\ up' = "recovering"
    /\ pinned' = seq /\ warm' = [t \in Tables |-> FALSE]
    /\ todo' = {b \in Batches : b[1] \in Committed /\ InsertEntry(b[1], b[2]) \in log}
    /\ UNCHANGED <<disk, session, mutateLock, locks, commit, rpc, client, bounds>>

\* apply_committed_transactions: one Writer::commit per transaction and table.
Recover ==
    /\ up = "recovering"
    /\ \E b \in {b \in todo : \A c \in todo : c[1] = b[1] => b[2] <= c[2]} :
          /\ copies' = [copies EXCEPT ![b] = @ + 1]
          /\ seq' = [seq EXCEPT ![b[2]] = @ + 1]
          /\ todo' = todo \ {b}
    /\ UNCHANGED <<log, up, session, mutateLock, locks, commit, rpc, provider, client, bounds>>

Serve ==
    /\ up = "recovering" /\ todo = {} /\ up' = "serving"
    /\ UNCHANGED <<disk, todo, session, mutateLock, locks, commit, rpc, provider, client,
                   bounds>>

CommitStep(tx) == LockTable(tx) \/ CommitTable(tx) \/ LogCommit(tx) \/ Refresh(tx)

Step ==
    \/ \E tx \in Txns :
          \/ Begin(tx) \/ BufferInsert(tx) \/ Rollback(tx) \/ LogRollback(tx)
          \/ Take(tx) \/ LockTable(tx) \/ CommitTable(tx) \/ LogCommit(tx) \/ Refresh(tx)
          \/ Fail(tx)
    \/ \E tx \in Txns, t \in Tables : LogInsert(tx, t)
    \/ \E t \in Tables : Query(t) \/ External(t)
    \/ Crash \/ Start \/ Recover \/ Serve

Next == Step /\ UNCHANGED setting

Spec == Init /\ [][Next]_vars

\* The runtime polls a request that can go on.
FairSpec == Spec /\ \A tx \in Txns : WF_vars(CommitStep(tx) /\ UNCHANGED setting)

-----------------------------------------------------------------------------
(* Properties *)

Acked(tx) == {t \in Tables : <<tx, t>> \in acked}
Held(tx) == {t \in Tables : copies[<<tx, t>>] > 0}

\* A transaction is one atomic batch: while it is not being committed, the tables
\* hold all of the inserts the client was told are in it, or none, and no insert
\* it was told is not (docs/languages.md:56-58), as long as no commit stops half
\* way: inserts, commits, rollbacks, queries and other processes race
\* (transaction.rs:75-92, transaction.rs:141-147).
AtomicBatch ==
    Faults \subseteq {"external"} =>
        \A tx \in Txns :
            up = "serving" /\ cpc[tx] = "idle" => Held(tx) = {} \/ Held(tx) = Acked(tx)

\* Until the server restarts no batch is in its table twice, with commits that
\* fail and with two commits or a commit and a rollback of one transaction
\* (transaction.rs:83-92); and what the client was told is rolled back never
\* reaches a table, not through a racing insert or commit and not through
\* recovery (transaction.rs:141-154).
ExactlyOnce ==
    /\ restarts = 0 => \A b \in Batches : copies[b] <= 1
    /\ \A tx \in Txns : reply[tx] = "rolledBack" => Held(tx) = {}

\* What the client was told is committed holds every insert it was told is in it,
\* whatever crashes afterwards (transaction.rs:130-138).  And a commit that is in
\* the log is not reported as an error: with mutate_lock held from commit to
\* refresh, the delta fits the provider (server.rs:37-44).  A query, another
\* process, recovery or a commit that stopped half way moves provider and table
\* apart, and the next commit is then reported as an error.
AckedCommitSurvives ==
    /\ \A tx \in Txns : reply[tx] = "committed" => Acked(tx) \subseteq Held(tx)
    /\ "query" \notin Kinds /\ Faults = {} =>
          \A tx \in Txns : reply[tx] = "error" => Entry("commit", tx) \notin log

\* A commit that has started comes to an end: no failed or finished commit leaves
\* a table locked for the next one (transaction.rs:91-100).
CommitReturns == \A tx \in Txns : cpc[tx] # "idle" ~> cpc[tx] = "idle"
=============================================================================
