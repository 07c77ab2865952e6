# IcefallDB in TLA+

IcefallDB keeps a table as a directory: immutable Parquet row groups
("fragments") with sidecars, numbered manifests, a pointer to the latest
manifest, and a few journals. What it promises about atomicity, durability and
exact answers is a matter of which of these files is written, read, cached or
deleted in which order. This directory models those orders in TLA+, checks them
with TLC on small tables, and proves with TLAPS, for tables and inputs of any
size, the commit protocol, compaction, the server's transactions, the query
service and the streaming group-by. Paths below are relative to `src/`; `core`,
`query`, `server` and `cli` stand for `crates/icefalldb-<name>/src`.

## The system and its parts

| Part | Source | Module | Status |
|---|---|---|---|
| Table commits | core/writer.rs, commit_delta.rs | CommitProtocol | modelled, proved |
| Garbage collection | core/gc.rs | CommitProtocol, Doctor | modelled, proved |
| What a table promises | core/writer.rs | AtomicTable | abstract specification |
| Deferred mutations | core/mutation_wal.rs | MutationWal, Doctor | modelled |
| Compaction, reclustering | core/compaction.rs | Compaction, RowMutations | partly, protocol proved |
| Server transactions | server/transaction.rs, core/wal.rs, recovery.rs | Transactions | partly, proved |
| Statistics, aggregate partials | core/agg_cache.rs, reader.rs, writer.rs | MetadataAnswers | partly |
| Answers from metadata | query/rules/metadata_aggregate.rs, predicate.rs | MetadataAnswers | partly |
| Row ids, row index, deletion vectors | core/rowid.rs, rowindex/*, deletion.rs | RowAddresses, RowMutations | partly |
| Secondary indexes | core/index.rs, index/binary.rs, query/index_selector.rs | SecondaryIndex, RowMutations | partly |
| Row mutations in SQL | query/mutate.rs, server/mutate_handler.rs | RowMutations, QueryService | partly |
| Check and doctor | core/check.rs, doctor.rs | Doctor | modelled |
| Manifests, hash chain, checkpoints | core/metadata/*.rs | CommitProtocol, Doctor | partly |
| Physical operators, optimizer rules | query/rules/*, execution/* | QueryPlans, GroupBy | partly, group-by proved |
| Table scans | query/provider.rs, scan.rs, parquet_exec.rs, coalesce.rs | TableScan | partly |
| Table provider, result cache | query/provider.rs, result_cache.rs | QueryService, RowMutations, Transactions | partly, caches proved |
| Daemon, command line, Python connection | server/server.rs, cli/main.rs, icefalldb-query-py | QueryService, RowMutations, Transactions | partly |
| Storage, catalogs | core/storage/*, core/catalog.rs | CommitProtocol, MutationWal | partly |
| Schema and TSV, encryption, Iceberg export | core/metadata/schema.rs, tsv.rs, encryption/*, iceberg/* | - | not modelled |

How they interact: every mutation takes `_write.lock`, loads the live manifest
(the pointer's, with the readable prefix of the mutation log applied), cleans up
what dead calls left, and either publishes a manifest and swaps the pointer
(CommitProtocol) or appends a record to the log (MutationWal). A compaction
works on a pinned snapshot without the lock and publishes under it. Garbage
collection deletes what no retained manifest names, and the doctor repairs what
crashes and damage leave. A SQL mutation locates its rows in the snapshot of a
provider, commits, and hands the delta back to the provider (RowMutations). The
server also buffers inserts per transaction and commits table by table
(Transactions). Queries take a plan from the provider (QueryService), the
optimizer rewrites it (QueryPlans) or answers it from metadata
(MetadataAnswers), and the scan streams the rows (TableScan).

The modules overlap on purpose: each keeps the part of the state its properties
tell apart. A commit is ten steps in CommitProtocol, two in MutationWal and one
in RowMutations, where the rows matter and the files do not.

## Modules

**AtomicTable** is what every commit path promises: a history of transactions
that grows by one transaction at a time, and a call is acknowledged only when
its transaction is in the history. It knows no files.

**CommitProtocol** is one table with the mutation log off. One action per step
of a commit: `Begin`, `LoadCurrentManifest` (with pointer repair),
`CleanFile`/`CleanIntent`/`CleanManifests` (cleanup_staging), `CheckSequence`,
`WriteIntent`/`ListFile`/`WriteFile` in the order each commit path has,
`PublishManifest`, `SwapPointer`, `SyncRoot`, `DeleteIntent`, the rollback
steps, and the collector's `GcLoad` ... `GcReturn`. `Fail` and `Crash` may
replace any step. A transaction is one call; the bytes of a file are the
transaction that wrote them, so "the file is intact" means "it holds what its
manifest was committed with".

**MutationWal** adds the log: `StageDelete`, `AppendLine`, `SyncLog`, the
threshold checkpoint, `TornAppend` (the call dies inside a line), `LateWrite`
(tokio's file buffer reaches the file after the call returned), `PowerLoss`
(what was not fsynced may be gone, an unlinked log may be back, a deletion file
may be garbled), and the lock-free reader of `Catalog::refresh`, which reads the
manifest and the log at two different times.

**Compaction** is `Compactor::compact_attempt` with its retries: `Pin` under the
lock, `Scan`, `WriteIntent`, `WriteOutput` without it, `Lock` (revalidation),
`CheckOutput`, `PublishCompacted`, `SwapCompacted`, `Finish`, and the rollback,
which runs after the lock has been dropped; beside it, a writer's call in as
many steps as a compaction can be disturbed in.

**Doctor** has writers cut down to the states they leave when they stop (journal,
files, checkpoint, manifest, pointer, journal), `Damage` of twelve kinds
to its files, and repair one storage change per step: `TableNotFound`, `BeginRepair`,
`RollbackIntentFile`/`RollbackIntent`, `RepairPointer`, `Regenerate` (a lost
.meta), `DeleteOrphan`, `DeleteNewerManifests`, `Verify`. `diagnose`, `check`
and the hash chain only look, so they are predicates (`DiagnosedHealthy`,
`CheckPasses`, `Breaks`).

**Transactions** is the server: `Begin`, `LogInsert`/`BufferInsert`,
`Rollback`/`LogRollback`, `Take` ... `Refresh` for `/tx/commit`, `Query` (the
first plan of a provider pins it), another process, `Crash`, and recovery at
start, which opens the providers first.

**MetadataAnswers** has the statements that change a snapshot (`Insert`,
`Delete`), scan planning with its two caches (`BuildPlan`), and the answers as
operators on the plan: pruning, COUNT, MIN/MAX, SUM, AVG, VAR, range-filtered
and grouped aggregates, each compared with a scan of the same plan. Floats are
integers with an infinity and a NaN; AVG and VAR are fractions.

**RowAddresses** and **SecondaryIndex** are operators: row-id segments, the row
index with its deltas and its two searches, deletion vectors; index bases,
deltas, overlays, the binary file, the learned model, unique checks, and the
maintenance each commit path does. **RowMutations** has a statement as the three
steps it is (`Locate` in the provider's snapshot, `Commit` on the latest
manifest, `Apply` the delta to the provider), batches with their write-side
provider, index creation by the command line (`CreateIndex`) and by the server
(`ServerBuildIndex`, `ServerRegisterIndex`), compaction with and without sort
keys, and statements of other processes. What a statement means is `Meaning`, a
definition on sets of rows that knows no index, fragment or deletion vector.

**GroupBy** is the streaming group-by over one partition: `ProcessBatch` absorbs
a batch and emits, in batches of its own, the groups its first key has passed,
`EndOfStream` the rest.
**QueryPlans** has tables that are inserted into, sorted and deleted from,
queries as trees of operators, the eight rewrites in the order the session
registers them (`Rewritten`), execution, and the streaming group-by run batch by
batch with the very actions of GroupBy; `Result` is what a plan computes. Joins
are inner or right, with one or two key pairs and possibly a join filter;
columns have one of four numeric types, two of which round.

**TableScan** is one scan: row-group pruning, routing (tiny copy, native Parquet
reader, custom scan), the split of row groups into partitions, coalesced byte
ranges, deletion vectors as selections, pushed row ids and limits, and the
partition streams, which are read concurrently, a batch at a time.

**QueryService** has the provider's snapshot state, scan-plan cache and
tiny-table copy, and the result cache on disk, stepping from one lock
acquisition to the next: queries (`QStart` ... `QReturn`), mutations (`MCommit`
... `MReply`), `Refresh`, commits of other processes, and CLI queries with time
travel that share the result cache.

### Settings

MutationWal, Compaction, Doctor, Transactions, MetadataAnswers, RowMutations,
QueryPlans and QueryService have a constant `Settings`, a set of records that
say what an execution has (which kinds of calls, which faults, which values,
which bounds), and a variable `setting` that `Init` chooses and no step changes.
One run then covers several environments, each with its own bounds, and a
property can say in which of them the code promises it (`Covered`,
`Undisturbed`, `StatisticsAreExact`, ...). TableScan has sets of layouts,
queries and configurations instead, of which a behaviour uses several.

## Runs

| Run | Instance | Shows |
|---|---|---|
| commit_safety | 3 calls of 8 kinds after a first snapshot, 4 sequences, retention 0 and 1, errors and crashes everywhere | CommittedBytesNeverReplaced, RetainedSnapshotsIntact, AckedIsVisible, IInv |
| commit_first | the same protocol from a pointer that says 0, two calls | CommittedIsForever, RefinesAtomicTable, LockIsReleased |
| wal_safety | 3 calls, 2 fragments, checkpoint at 2 records; no fault, power loss, every fault, a reader | AckedIsLive, ReaderIsConsistent, CheckpointedIsForever, RefinesAtomicTable |
| compact_safety | 3 rows, 2 inserts, 3 attempts undisturbed; 3 rows, 1 insert, 2 attempts with deferred deletes; 2 rows, 2 attempts with every fault | NoMutationLost, SnapshotIntact, HistoryOnlyGrows |
| compact_loses_deferred | one attempt beside deferred deletes | NoMutationEverLost is violated |
| doctor_repair | 3 calls that insert and die, of every kind that fail, on a fresh table, or folding; 2 calls beside 2 damaged files; repairs at any moment, which may die | RepairSettles, VerdictsAreSound, NothingIsLost, RepairSparesSnapshots |
| txn_safety | 2 transactions, 2 tables, 1 restart, 1 foreign commit | AtomicBatch, ExactlyOnce, AckedCommitSurvives, CommitReturns |
| meta_answers | 8 kinds of tables, up to 2 fragments of 2 rows | AnswersMatchScan, PruneIsSound |
| row_mutations | 2 rows, up to sequence 5, 9 deployments: server, command line, batches, racing processes, index creation, reclustering | OkMeansMeant, RowIndexSound, IndexesComplete, ProviderIsFresh, RowIdsAreStable |
| query_plans | group-bys over a table of up to 4 operations; joins (inner and right, with a second key or a filter, 3 kinds of statistics, lookup joins on and off), casts and row-id lookups over small tables | RewritesKeepTheAnswer, AnswerIsTheQuery, EmittedComplete, EveryGroupEmitted, EmittedOnce |
| table_scan | up to 3 inserts and deletes, 3 layouts, 11 queries, 3 configurations | CollectedIsPartOfTheAnswer, DeliveredIsComplete |
| query_service | 2 queries at a time, 3 in all, 2 commits; daemon and Python connection, with and without other processes | AnswersAreSnapshots, HistoryIsExact, ProviderIsConsistent, PinnedNeverGoesBack |

The comment before each property says which lines it is about. Some of them are
conjunctions of what belongs together: AnswersMatchScan of the six kinds of
aggregates, SnapshotIntact of files, fragment ids and rows, ReaderIsConsistent
of what a reader sees and of the deletion counts it relies on. The type
invariant of CommitProtocol is part of `IInv`.

**Bounds.** Three calls are a dead or failed one, one that cleans up after it,
and one that finds what the second did; the commit paths remember nothing else
of the past than files, and what a longer past adds is covered by the proof of
`IInv`. Two records in the log are the smallest number with a checkpoint between
them and a version of a deletion file on top of another. Three attempts are the
code's own bound of a compaction. Two damaged files are a file and its witness.
Two transactions on two tables are needed for a batch to be torn and for one
commit to disturb another. Two rows per fragment are a deleted extremum and the
one that replaces it, and two fragments a clean one next to a dirty one. Two
rows with a unique key are a conflict and its resolution; sequence 5 leaves room
for four commits, so a row can be patched, patched again, compacted and deleted.
A scan of up to three fragments of up to four rows splits a row group in two, with
deleted rows inside a partition and at its edge. Two queries and two
commits are what each overtaking of QueryService needs; the result cache holds
three rows, so that entries are evicted (4,081,269 states). The 16 retries of `current_scan_plan`
are two: a third attempt meets nothing new with two commits.

**Symmetry** is used for interchangeable calls, fragments and processes, and
only where no liveness is checked.

**Deadlock** is checked in doctor_repair, query_plans and table_scan, where a
repair or another query can always start. Elsewhere every call may have been
made and every bound used up, and a table nobody calls stands still.

**Fairness** is used twice. `LockIsReleased` assumes that the lock holder keeps
taking steps (`WF_vars(Holder)`): a commit awaits only local file operations and
no other actor. `CommitReturns` assumes that the runtime polls a commit that can
go on (`WF_vars(CommitStep(tx))`), not that a request is ever made, a fault ever
happens or a lock is ever granted.

## Divergences

compact_loses_deferred checks a promise the repository writes down and finds it
broken: compaction.rs:584-585 says that a mutation committing during a
compaction is never lost, but a deferred DELETE leaves the pointer where it was,
which is all the compactor compares, and it publishes over the record.

Other disagreements were met while modelling. The passing properties exclude
them by a named precondition, and TLC reports a violation when that precondition
is dropped (where the instance has to be changed as well, this is said).

- Commits: from a pointer at 0, a first insert_parquet that fails leaves its
  manifest, and the repair makes it current (core/writer.rs:4259). This is why
  commit_first checks histories and not files, and why the proofs assume
  `~Fresh`.
- MutationWal, `Covered`: after a torn append the next record joins the broken
  line (core/mutation_wal.rs:140); a record whose bytes reach the file late
  (core/storage/local.rs:155) can be folded away or applied out of order; after
  a power loss a garbled deletion file counts as present
  (core/mutation_wal.rs:247), and a publishing commit builds on deletion files
  that only the log makes durable (:226). `rlapped`: a reader whose manifest is
  older than the log it reads can see a mixture (core/catalog.rs:153).
- Compaction, `Undisturbed`: the rollback deletes a manifest by sequence after
  the lock is dropped (core/compaction.rs:1220); the compactor's cleanup does
  not count deletion vectors as referenced (:695); a writer cleans up the staged
  output of a compaction that is alive (:691).
- Transactions: every restart inserts the committed transactions of the log
  again (core/recovery.rs:97, `restarts = 0`); a commit that fails at its second
  table leaves the first one committed (server/transaction.rs:126, no "fail" or
  "crash" in AtomicBatch); a query, another process, recovery or a half-done
  commit moves provider and table apart, and a commit that is in the log is then
  reported as an error (query/provider.rs:1119, second half of
  AckedCommitSurvives).
- MetadataAnswers, `StatisticsAreExact`: statistics skip infinities
  (core/writer.rs:5827), unsigned literals change sign (query/predicate.rs:98)
  and a footer without null counts counts as none (core/writer.rs:1239), so
  matching fragments are pruned or misclassified. `ExtremaAreTracked`: legacy
  sidecars keep a deleted extremum (core/agg_cache.rs:994), and a partial
  computed from a placeholder is cached for good (core/reader.rs:982; this one
  needs fragments of three rows). `RowsAreKnown`: COUNT(*) believes a
  placeholder without row counts (query/rules/metadata_aggregate.rs:974). Within
  SumMatchesScan: SUM of values that were all deleted is 0 where a scan says
  NULL (core/agg_cache.rs:900) and a deleted infinity leaves NaN (:907). Within
  FilteredMatchesScan: a float SUM without a value is 0
  (query/rules/metadata_aggregate.rs:1202). Within MinMaxMatchScan: the footers
  of Parquet inserts truncate long strings (core/writer.rs:5706). Grouped
  queries are checked with one aggregate: with several, a group whose measure is
  all deleted can show 0 (core/agg_cache.rs:1832).
- RowMutations, `Undisturbed`: a provider that is warm never sees the commits of
  other processes, so statements work on an old snapshot until their own commit
  does not fit; they are then reported as errors though they have committed; a
  batch that fails half-way leaves its provider behind (query/mutate.rs:1787).
  A statement that finds no row in such a snapshot is acknowledged without a
  commit, and so without the check that would tell (:1923, :2078): a DELETE says
  Ok while a matching row that another process inserted stays. OkMeansMeant
  compares it with the snapshot it read, and with the latest one if Undisturbed
  (TLC finds the row when that condition is dropped).
  `BuiltLocked`: the server builds an index and registers it later
  (server/server.rs:328-383), and misses rows in between. `Reclusters`: a
  compaction with sort keys sorts the rows of a chunk and not their ids
  (core/compaction.rs:1316). `start = "before"`: a unique index that has no
  generation refuses keys of deleted rows. An insert drops the row index
  (core/writer.rs:4093), which is why RowIndexSound asks for completeness only
  straight after a compaction.
- Doctor: data that was flipped and whose .meta is lost is vouched for
  (`Witnessed`; the settings leave the pair out); a fold that dies half-way can
  leave a chain that does not verify (the settings leave crashes of folds out);
  manifests without checksums ("legacy") pass diagnose and fail check; failing
  calls can leave a live manifest whose files a rollback took (LiveIsReadable is
  stated for inserting and collecting writers that at worst die); a .meta is
  regenerated without its row ids when neither checkpoint nor archive is there;
  a schema that does not parse ends a repair half-way with an error.
- QueryPlans, `Sound`: filters built from a join are pushed into every scan of
  the probe side that has a column of that name
  (query/rules/dynamic_filter_pushdown.rs:280); tiny-build joins truncate float
  keys and ignore that NULLs may be equal; cast predicates are simplified in
  both directions, and also when the literal has no value in the column's type
  (0.1 in a Float32 column cast to Float64), which changes the comparison
  although query/rules/simplify_cast_predicates.rs says it does not; row-id selection takes a fragment without ids to have none.
  `OrderHolds`: a sort claim is made for fragments that are not in that order
  (core/writer.rs:5478), and the group-by then fails or splits a group. A dynamic
  filter on `_rowid` fails the query (`DynamicFails`).
- TableScan, `LimitAfterFilter`: with pseudo-columns and a filter the limit
  counts rows before the filter.
- QueryService names four overtakings (`late`): "base", a re-pin between the
  warm check of a mutation and its read of the base plan (query/provider.rs:1143);
  "tiny", a copy of an old snapshot stored after the provider moved on, or taken
  while a mutation has seeded the scan cache and not yet dropped the copy
  (:1257-1271); "index", a plan and indexes of two snapshots; "key", a result
  stored under the sequence read before it was computed, from a later plan or
  from the tiny-table copy of one. With commits of other
  processes ("foreign") unguarded refreshes can move the provider back, and
  a warm provider then reports an error for every mutation it commits.

## Proofs

`CommitProtocolProofs` proves, for every set of transactions, every bound and
every retention window, from the assumptions named in CommitProtocol and
`~Fresh` (the table has a first snapshot):

| Theorem | Statement |
|---|---|
| Invariance | `Spec => []IInv` |
| TypeCorrect, LiveSnapshotAlwaysIntact, RetainedSnapshotsAlwaysIntact, BytesNeverReplaced, AckedStaysVisible, SequenceNeverCollides | the safety invariants of the protocol, each from `IInv` |
| CommittedStaysForever | the action property CommittedIsForever |
| Refinement | the protocol implements AtomicTable |

None of the invariants is inductive alone. That no file of a snapshot is deleted
depends on what the intents list; what they list depends on the names a call may
choose; that these are new depends on the sequence being free; and that depends
on cleanup having run on what was loaded. `IInv` is the conjunction of these
facts: `ControlOK` (where the holder is agrees with what it loaded),
`ManifestsOK` (at most one orphan above the pointer, none after cleanup),
`StagingOK` (the holder has written only its plan, and all of it when it swaps),
`NamesOK` with `OldName` (snapshots use only names that no call plans again),
`JournalOK` (an intent lists nothing that only an old snapshot uses), and
`AckOK`. There is one lemma per action and, under it, one step per conjunct the
action can disturb; the frame lemmas (`PlannedFrame`, `SnapshotsFrame`, ...)
carry the others. TLC checks `IInv` in commit_safety.

`CompactionShape` and `CompactionProofs` prove SnapshotsAreIntact,
MutationsAreKept and HistoryGrows (SnapshotIntact, NoMutationLost and
HistoryOnlyGrows) for any rows, writers, attempts and settings, from the
assumption that first rows and inserted rows are different and neither are
numbers. `IInv` has three layers. `Shape` holds of every execution, failing and
dying calls included: who has the lock, and that each manifest keeps the ids and
the rows of its fragments apart. `Calm` holds when no call fails or dies: the
pointer's manifest and its files are there, a writer works on the live snapshot
until it has committed, and what a rollback deletes nobody uses, although it runs
after the lock is dropped. `Kept` holds when in addition every writer publishes:
the live rows are what the operations so far leave. Live is a fold over the log,
and what holds of it needs an induction over the log; `FoldFacts` has that
induction for any step operator, stated with sets so that the provers can use it,
and CompactionShape takes it by INSTANCE.

`TransactionsProofs` proves TransactionsAreAtomic, BatchesAreWrittenOnce and
CommitsSurvive (AtomicBatch, ExactlyOnce, AckedCommitSurvives) for any
transactions and tables and any number of crashes and foreign commits; `None` is
assumed to be no transaction. The properties say nothing about a commit that is
under way, so `IInv` has to: `OwnerOK` says that at most one request has a
transaction and that its buffer is what the client was told, `StageOK` what
tables and log have of it at each step of the commit, `ServerOK` what recovery
has still to do, `PinnedOK` by how much a provider may be behind its table, and
`AtomicOK` and `CountOK` are the properties in inductive form.

`QueryServiceOrder` and `QueryServiceProofs` prove ProviderConsistency,
SnapshotAnswers, ExactHistory and ProviderMovesOn (ProviderIsConsistent,
AnswersAreSnapshots, HistoryIsExact, PinnedNeverGoesBack) for any number of
queries, commits, retries and cache entries, with the same exceptions for
overtakings as the runs. `IInv` has a layer for each question: `Ordered`, which
sequences are at most which others; `Planned`, that a plan reads the rows of its
sequence; `Exact`, of which snapshot the copied and cached rows are; `Fresh`,
that no cache can give a query rows from before what was acknowledged when it
began, for which a mutation that is between its commit and its reply counts as
about to be acknowledged.

`GroupByProofs` proves StreamEmitsCompleteGroups, StreamEmitsEveryGroup and
StreamEmitsOnce (EmittedComplete, EveryGroupEmitted, EmittedOnce) of
`StreamSpec`: for every input in key order, of any length, and every way of
cutting it into batches, an emitted group has all rows of its key, no batch is
refused, at the end every key has been emitted, and the keys ascend from one
output batch to the next, with one group for a key in each. The inductive
invariant says that the running groups hold exactly the rows read so far of
their keys and have no key below the threshold last drained up to, that the
emitted ones are complete and lie below it, and that between them they know
every key read; with the input in order no later row can have a key below the
threshold. QueryPlans executes the actions of GroupBy.

Only model-checked: liveness (LockIsReleased, CommitReturns: the prover has no
fairness and no ENABLED); the table that starts at pointer 0, where not every
property holds; what recursive definitions compute (the plans of QueryPlans, the
searches and learned models of the indexes); and MutationWal, Doctor,
MetadataAnswers, RowAddresses, SecondaryIndex, RowMutations, QueryPlans and
TableScan.

## Not modelled

- Encryption: key lookup and calls of the Parquet encryption library, without a
  protocol of its own; the Iceberg export: a one-shot conversion of a manifest.
- Schema and TSV: conversions of text and types, whose hard part is parsing
  character by character. SQL parsing and expressions beyond comparisons,
  literals and columns. Byte formats (Parquet pages, bitmaps, index files,
  sketches): files are what they decode to.
- The S3 and memory backends (one object call per operation), the database
  catalog (a list of names in one file), the footer cache (keyed by immutable
  files), and which statements a result cache accepts: a statement that is not a
  function of its snapshot, such as one that uses the clock, is outside
  QueryService, where the Python connection would cache it.
- QueryService has one table; what scopes a cache key to several is left out, as
  are partitioned inserts in the commit modules.
- Power loss is modelled for the mutation log only. The row groups of an
  insert are synced through their directory and not one by one
  (core/writer.rs:4511); what that makes durable is up to the file system. The
  same goes for the directory entry of a new log: MutationWal takes the sync of
  the file to make it durable, and nobody syncs `_wal/`
  (core/mutation_wal.rs:136). A torn line of the transaction log
  (core/wal.rs:122) and the schema pointer of a compaction
  (core/compaction.rs:1176) are left out too.
- Beside a compaction runs one writer at a time: no collection, no second
  compaction, and no fold of the log at its threshold.
- Doctor has one schema. Losing the file that `_schema.json` names stops
  diagnose and repair at `require_table_exists` (`TableNotFound`). The later
  checks for a schema (core/doctor.rs:325, :621) concern one that goes missing
  while the repair runs, or a snapshot of an older schema than the pointer's.
- A batch of the Python connection installs its plan as if loaded anew
  (`MReplace`), where the code keeps the row groups of older snapshots
  (query/provider.rs:1369); the lock of the context keeps queries from seeing
  the difference.
- Rules and operators of the query library itself are external: a plan of theirs
  is taken to compute what its operators say.
- Liveness of queries and scans: `ENABLED` of their steps evaluates whole plans
  in every state, beyond what TLC does in reasonable time. Deadlock checking
  covers the steps of query_plans and table_scan.

## Running

    tlc -workers 2 -config MCWalSafety.cfg MCMutationWal
    tlapm CommitProtocolProofs.tla
    tlapm FoldFacts.tla
    tlapm CompactionShape.tla
    tlapm CompactionProofs.tla
    tlapm TransactionsProofs.tla
    tlapm QueryServiceOrder.tla
    tlapm QueryServiceProofs.tla
    tlapm GroupByProofs.tla
