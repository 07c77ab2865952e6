----------------------------- MODULE Compaction -----------------------------
(***************************************************************************)
(* Optimistic compaction (crates/icefalldb-core/src/compaction.rs) beside  *)
(* the writers of the same table.  The compactor pins a snapshot under the *)
(* write lock, rewrites the table with no lock, takes the lock again,      *)
(* publishes if the pointer has not moved, and otherwise throws its work   *)
(* away and starts over.                                                   *)
(*                                                                         *)
(* The writers are those of CommitProtocol and MutationWal with fewer      *)
(* steps: what matters here is what they do to a compaction in progress    *)
(* (their cleanup_staging runs while its files are staged, their commits   *)
(* move the pointer or only the log) and what it does to them.             *)
(***************************************************************************)
EXTENDS Integers, Sequences, FiniteSets, FiniteSetsExt, Functions

CONSTANTS
    Rows,          \* rows that an initial snapshot can have, one fragment each
    Inserts,       \* rows that INSERTs add, one fragment each
    MaxAttempts,   \* MAX_COMMIT_ATTEMPTS (compaction.rs:39)
    Settings       \* what an execution has: the rows there, in the order of their
                   \* fragments, and to insert, the kinds of calls, the attempts and
                   \* the faults (see Crash, Abort, CompactFail)

AllKinds == {"insert", "delete", "walDelete"}
AllFaults == {"crash", "abort", "ioError"}

ASSUME CompactionAssumption ==
    /\ Rows \cap Inserts = {} /\ (Rows \cup Inserts) \cap Nat = {}
    /\ MaxAttempts \in Nat \ {0}
    /\ Settings \subseteq [rows : Seq(Rows), inserts : SUBSET Inserts,
                           kinds : SUBSET AllKinds, attempts : 1 .. MaxAttempts,
                           faults : SUBSET AllFaults]
    /\ \A s \in Settings : IsInjective(s.rows)

VARIABLES
    pointer, manifests,  \* _manifest.json, and _manifests/ by sequence
    log,                 \* the records of the mutation WAL
    files,               \* the files that exist in the table directory
    intents,             \* _staging/intents: who -> the files listed there
    lock,                \* the holder of _write.lock
    wpc, wop, wbase,     \* the writer that holds it: step, operation, live manifest
    cpc, attempt,        \* the compactor: step, and which attempt this is
    pinned, view, out,   \* its source manifest, the snapshot it scanned, its output
    mseq,                \* manifest_sequence: the sequence rollback would remove
    retry,               \* did the attempt end in a conflict?
    begun, acked,        \* operations started, and those whose call returned Ok
    setting              \* the one of Settings this execution has

table == <<pointer, manifests, log, files, intents>>
writer == <<wpc, wop, wbase>>
compactor == <<cpc, attempt, pinned, view, out, mseq, retry>>
vars == <<table, lock, writer, compactor, begun, acked, setting>>

Kinds == setting.kinds
Faults == setting.faults

Writer == "writer"
Compactor == "compactor"
Nobody == "nobody"

Ops == [kind : {"insert"}, row : Inserts] \cup [kind : {"delete", "walDelete"}, row : Rows]
NoOp == [kind |-> "none", row |-> "none"]
NoManifest == [seq |-> 0]

\* The files of a table.  A fragment is data and .meta under one name, unique to
\* the call that wrote it; a deletion vector is named by fragment and version.
Data(n) == <<"data", n>>
Meta(n) == <<"meta", n>>
Del(id, v) == <<"del", id, v>>

\* A RowGroupEntry: its id and name, the rows it holds, the version of its
\* deletion vector (0: none) and the rows that vector marks dead.
Fragment(id, n, R) == [id |-> id, name |-> n, rows |-> R, ver |-> 0, dead |-> {}]

LiveRows(m) == UNION {f.rows \ f.dead : f \in m.frags}

\* What the writers and GC call referenced: Writer::manifest_referenced_files.
Referenced(m) ==
    UNION {{Data(f.name), Meta(f.name)} \cup (IF f.ver = 0 THEN {} ELSE {Del(f.id, f.ver)})
           : f \in m.frags}

\* What the compactor calls referenced: data, .meta and .agg only.
ReferencedByCompactor(m) == UNION {{Data(f.name), Meta(f.name)} : f \in m.frags}

\* The fragment of m that holds row r alive.
Kill(m, r) ==
    [m EXCEPT !.seq = @ + 1,
              !.frags = {IF r \in f.rows \ f.dead
                         THEN [f EXCEPT !.ver = @ + 1, !.dead = @ \cup {r}]
                         ELSE f : f \in @}]

Insert(m, r) ==
    [m EXCEPT !.seq = @ + 1, !.next = @ + 1,
              !.frags = @ \cup {Fragment(m.next, r, {r})}]

\* mutation_wal::apply: a record replaces the deletion vector of the fragment it
\* names; if the manifest has no such fragment, nothing but the sequence changes.
ApplyRecord(m, rec) ==
    IF rec.seq <= m.seq THEN m
    ELSE [m EXCEPT !.seq = rec.seq,
                   !.frags = {IF f.id = rec.id
                              THEN [f EXCEPT !.ver = rec.ver, !.dead = rec.dead]
                              ELSE f : f \in @}]

\* live_manifest: the pointer's manifest with the records applied, one after another.
Replay(m, records) ==
    LET acc[i \in 0 .. Len(records)] ==
            IF i = 0 THEN m ELSE ApplyRecord(acc[i - 1], records[i])
    IN  acc[Len(records)]

Live == Replay(manifests[pointer], log)

\* The directory _manifests/, by sequence: its files up to seq, and with m added.
UpTo(dir, seq) == [n \in {k \in DOMAIN dir : k <= seq} |-> dir[n]]
With(dir, m) == [n \in DOMAIN dir \cup {m.seq} |-> IF n = m.seq THEN m ELSE dir[n]]

\* The manifest the pointer names is there; without it no call can open the
\* table (ManifestNotFound), and the compactor goes back to an older one.
PointerHasManifest == pointer \in DOMAIN manifests

Init ==
    /\ setting \in Settings
    /\ pointer = 1
    /\ manifests = [n \in {1} |->
           [seq |-> 1, next |-> Len(setting.rows) + 1,
            frags |-> {Fragment(i, setting.rows[i], {setting.rows[i]})
                       : i \in 1 .. Len(setting.rows)}]]
    /\ log = <<>>
    /\ files = Referenced(manifests[1])
    /\ intents = [p \in {Writer, Compactor} |-> {}]
    /\ lock = Nobody
    /\ wpc = "idle" /\ wop = NoOp /\ wbase = NoManifest
    /\ cpc = "idle" /\ attempt = 0 /\ mseq = 0 /\ retry = FALSE
    /\ pinned = NoManifest /\ view = NoManifest /\ out = {}
    /\ begun = {} /\ acked = {}

\* A cleanup that deletes what an intent lists without looking at the manifest.
AbandonedAll(referenced) == intents[Writer] \cup intents[Compactor]

\* cleanup_staging, with the files the caller calls referenced: every other file
\* an intent lists, the intents themselves, and the manifests above latest_seq.
Abandoned(referenced) == (intents[Writer] \cup intents[Compactor]) \ referenced
NoIntents == [p \in {Writer, Compactor} |-> {}]
ManifestsUpTo(seq) == UpTo(manifests, seq)

-----------------------------------------------------------------------------
(* A writer *)

\* What the operation makes of the live manifest, and the files it adds.
Result(op, m) == IF op.kind = "insert" THEN Insert(m, op.row) ELSE Kill(m, op.row)
NewFiles(op, m) == Referenced(Result(op, m)) \ Referenced(m)

\* Take the lock, load the live manifest, and clean up what dead calls left.
Begin(op) ==
    /\ wpc = "idle" /\ lock = Nobody /\ op \notin begun /\ op.kind \in Kinds
    /\ PointerHasManifest
    /\ op.row \in IF op.kind = "insert" THEN setting.inserts ELSE LiveRows(Live)
    /\ lock' = Writer /\ wpc' = "stage" /\ wop' = op /\ wbase' = Live
    /\ begun' = begun \cup {op}
    /\ files' = files \ Abandoned(Referenced(Live))
    /\ intents' = NoIntents
    /\ manifests' = ManifestsUpTo(Live.seq)
    /\ UNCHANGED <<pointer, log, compactor, acked>>

\* The process dies inside that cleanup, with the first of the files deleted
\* (an intent lists a fragment's data before its .meta).
CrashInCleanup ==
    /\ "crash" \in Faults /\ wpc = "idle" /\ lock = Nobody /\ PointerHasManifest
    /\ \E gone \in SUBSET Abandoned(Referenced(Live)) :
          /\ \A f \in gone : f[1] = "meta" => Data(f[2]) \in gone
          /\ files' = files \ gone
    /\ UNCHANGED <<pointer, manifests, log, intents, lock, writer, compactor, begun, acked>>

\* The intent and the new files; a WAL delete writes its vector without an intent.
Stage ==
    /\ wpc = "stage"
    /\ files' = files \cup NewFiles(wop, wbase)
    /\ intents' = IF wop.kind = "walDelete" THEN intents
                  ELSE [intents EXCEPT ![Writer] = NewFiles(wop, wbase)]
    /\ wpc' = IF wop.kind = "walDelete" THEN "append" ELSE "publish"
    /\ UNCHANGED <<pointer, manifests, log, lock, wop, wbase, compactor, begun, acked>>

\* A deferred DELETE commits by its record.  The log stays below the threshold
\* at which the writer would fold it into a manifest (MutationWal has the fold),
\* and neither a collection nor another compaction runs beside this one.
AppendRecord ==
    /\ wpc = "append"
    /\ LET f == CHOOSE g \in wbase.frags : wop.row \in g.rows \ g.dead IN
          log' = Append(log, [seq |-> wbase.seq + 1, id |-> f.id, ver |-> f.ver + 1,
                              dead |-> f.dead \cup {wop.row}])
    /\ wpc' = "return"
    /\ UNCHANGED <<pointer, manifests, files, intents, lock, wop, wbase, compactor,
                   begun, acked>>

Publish ==
    /\ wpc = "publish"
    /\ manifests' = With(manifests, Result(wop, wbase))
    /\ wpc' = "swap"
    /\ UNCHANGED <<pointer, log, files, intents, lock, wop, wbase, compactor, begun, acked>>

Swap ==
    /\ wpc = "swap"
    /\ pointer' = wbase.seq + 1
    /\ wpc' = "intent"
    /\ UNCHANGED <<manifests, log, files, intents, lock, wop, wbase, compactor, begun, acked>>

RemoveIntent ==
    /\ wpc = "intent"
    /\ intents' = [intents EXCEPT ![Writer] = {}]
    /\ wpc' = "return"
    /\ UNCHANGED <<pointer, manifests, log, files, lock, wop, wbase, compactor, begun, acked>>

Unlock(p) == lock' = IF lock = p THEN Nobody ELSE lock
WriterGone == wpc' = "idle" /\ wop' = NoOp /\ wbase' = NoManifest /\ Unlock(Writer)

Return ==
    /\ wpc = "return"
    /\ acked' = acked \cup {wop}
    /\ WriterGone
    /\ UNCHANGED <<table, compactor, begun>>

\* The call fails before it has staged anything, and returns its error.
Abort ==
    /\ "abort" \in Faults /\ wpc = "stage"
    /\ WriterGone
    /\ UNCHANGED <<table, compactor, begun, acked>>

\* The writer's process dies, leaving its files and its intent.
Crash ==
    /\ "crash" \in Faults /\ wpc # "idle"
    /\ WriterGone
    /\ UNCHANGED <<table, compactor, begun, acked>>

-----------------------------------------------------------------------------
(* The compactor *)

\* load_catalog_with_repair: with the pointer's manifest gone, the highest one left.
Repaired == manifests[Max(DOMAIN manifests)]

\* Lock #1 pins m: the pointer is moved to it, the log is empty, and cleanup
\* keeps only what the compactor calls referenced.
PinTo(m) ==
    /\ attempt' = attempt + 1
    /\ pinned' = m /\ pointer' = m.seq /\ log' = <<>>
    /\ files' = files \ Abandoned(ReferencedByCompactor(m))
    /\ intents' = NoIntents
    /\ manifests' = With(ManifestsUpTo(m.seq), m)
    /\ cpc' = "scan" /\ out' = {} /\ mseq' = 0 /\ retry' = FALSE
    /\ UNCHANGED <<lock, writer, view, begun, acked>>

\* Brief lock #1: fold the log into the pointer (checkpoint_locked) and pin that.
Pin ==
    /\ cpc = "idle" /\ attempt < setting.attempts /\ lock = Nobody
    /\ PointerHasManifest /\ PinTo(Live)

\* The same when the pointer needs repair.  With records in the log the
\* checkpoint fails first (load_pointer_manifest) and the call ends.
PinRepaired ==
    /\ cpc = "idle" /\ attempt < setting.attempts /\ lock = Nobody
    /\ ~PointerHasManifest /\ log = <<>> /\ PinTo(Repaired)

Done == cpc' = "done"

\* No lock from here.  Reader::new opens the table again, so the snapshot it
\* scans may be newer than the pinned one.  One row group is not worth a rewrite;
\* a file that is gone ends the call.
Scan ==
    /\ cpc = "scan"
    /\ IF PointerHasManifest
       THEN /\ view' = Live
            /\ cpc' = IF Cardinality(Live.frags) <= 1 \/ ~(Referenced(Live) \subseteq files)
                      THEN "done" ELSE "intent"
       ELSE Done /\ UNCHANGED view
    /\ UNCHANGED <<table, lock, writer, attempt, pinned, out, mseq, retry, begun, acked>>

\* A rewrite that does not apply the deletion vectors.
OutputAllRows ==
    {Fragment(pinned.next, attempt, UNION {f.rows : f \in view.frags})}

\* The rewrite: the live rows in one fragment, or none if every row is dead.
Output ==
    IF LiveRows(view) = {} THEN {}
    ELSE {Fragment(pinned.next, attempt, LiveRows(view))}
OutputFiles ==
    IF LiveRows(view) = {} THEN {} ELSE {Data(attempt), Meta(attempt)}

\* stage_chunk: the names go into the intent first, ...
WriteIntent ==
    /\ cpc = "intent"
    /\ intents' = [intents EXCEPT ![Compactor] = OutputFiles]
    /\ cpc' = "write"
    /\ UNCHANGED <<pointer, manifests, log, files, lock, writer, attempt, pinned, view,
                   out, mseq, retry, begun, acked>>

\* ... then the live rows of the scanned snapshot go into the files.
WriteOutput ==
    /\ cpc = "write"
    /\ files' = files \cup OutputFiles
    /\ out' = Output
    /\ cpc' = "lock"
    /\ UNCHANGED <<pointer, manifests, log, intents, lock, writer, attempt, pinned, view,
                   mseq, retry, begun, acked>>

NextSeq == pinned.seq + 1

\* Brief lock #2 without the comparison of the pointer.
LockUnchecked ==
    /\ cpc = "lock" /\ lock = Nobody
    /\ lock' = Compactor /\ mseq' = NextSeq /\ cpc' = "check"
    /\ UNCHANGED <<table, writer, attempt, pinned, view, out, retry, begun, acked>>

\* Brief lock #2: if the pointer has moved the attempt is a conflict; if the
\* next manifest exists it fails.  Leaving the block drops the lock.
Lock ==
    /\ cpc = "lock" /\ lock = Nobody
    /\ IF pointer # pinned.seq
       THEN cpc' = "rbFiles" /\ retry' = TRUE /\ UNCHANGED <<lock, mseq>>
       ELSE IF NextSeq \in DOMAIN manifests
       THEN cpc' = "rbFiles" /\ UNCHANGED <<lock, mseq, retry>>
       ELSE lock' = Compactor /\ mseq' = NextSeq /\ cpc' = "check" /\ UNCHANGED retry
    /\ UNCHANGED <<table, writer, attempt, pinned, view, out, begun, acked>>

\* rebuild_rowindex and build_snapshot_checkpoint read the .meta of the output.
CheckOutput ==
    /\ cpc = "check"
    /\ IF \A f \in out : Meta(f.name) \in files THEN cpc' = "manifest" /\ UNCHANGED lock
       ELSE cpc' = "rbFiles" /\ Unlock(Compactor)
    /\ UNCHANGED <<table, writer, attempt, pinned, view, out, mseq, retry, begun, acked>>

\* The compacted manifest: the output alone, counters carried forward.
CompactManifest ==
    [seq |-> NextSeq, next |-> IF out = {} THEN pinned.next ELSE pinned.next + 1, frags |-> out]

PublishCompacted ==
    /\ cpc = "manifest"
    /\ manifests' = With(manifests, CompactManifest)
    /\ cpc' = "swap"
    /\ UNCHANGED <<pointer, log, files, intents, lock, writer, attempt, pinned, view, out,
                   mseq, retry, begun, acked>>

SwapCompacted ==
    /\ cpc = "swap"
    /\ pointer' = NextSeq
    /\ cpc' = "finish" /\ Unlock(Compactor)
    /\ UNCHANGED <<manifests, log, files, intents, writer, attempt, pinned, view, out,
                   mseq, retry, begun, acked>>

\* The intent is removed after the lock is dropped.
Finish ==
    /\ cpc = "finish"
    /\ intents' = [intents EXCEPT ![Compactor] = {}]
    /\ Done
    /\ UNCHANGED <<pointer, manifests, log, files, lock, writer, attempt, pinned, view,
                   out, mseq, retry, begun, acked>>

\* An I/O error or a lock timeout before the pointer swap: leaving the block drops the lock.
CompactFail ==
    /\ "ioError" \in Faults /\ cpc \in {"intent", "write", "lock", "check", "manifest", "swap"}
    /\ cpc' = "rbFiles" /\ Unlock(Compactor)
    /\ UNCHANGED <<table, writer, attempt, pinned, view, out, mseq, retry, begun, acked>>

\* rollback_compaction, which runs without the lock: the staged files, ...
RollbackFiles ==
    /\ cpc = "rbFiles"
    /\ files' = files \ (IF out = {} THEN {} ELSE OutputFiles)
    /\ cpc' = "rbManifest"
    /\ UNCHANGED <<pointer, manifests, log, intents, lock, writer, attempt, pinned, view,
                   out, mseq, retry, begun, acked>>

\* ... the manifest at the sequence it meant to publish (0: none yet), ...
RollbackManifest ==
    /\ cpc = "rbManifest"
    /\ manifests' = [n \in DOMAIN manifests \ {mseq} |-> manifests[n]]
    /\ cpc' = "rbIntent"
    /\ UNCHANGED <<pointer, log, files, intents, lock, writer, attempt, pinned, view, out,
                   mseq, retry, begun, acked>>

\* ... and the intent.  A conflict starts over, up to the bound.
RollbackIntent ==
    /\ cpc = "rbIntent"
    /\ intents' = [intents EXCEPT ![Compactor] = {}]
    /\ cpc' = IF retry /\ attempt < setting.attempts THEN "idle" ELSE "done"
    /\ UNCHANGED <<pointer, manifests, log, files, lock, writer, attempt, pinned, view,
                   out, mseq, retry, begun, acked>>

\* The compactor's process dies.
CompactCrash ==
    /\ "crash" \in Faults /\ cpc \notin {"idle", "done"}
    /\ Done /\ Unlock(Compactor)
    /\ UNCHANGED <<table, writer, attempt, pinned, view, out, mseq, retry, begun, acked>>

Step ==
    \/ \E op \in Ops : Begin(op)
    \/ CrashInCleanup \/ Stage \/ AppendRecord \/ Publish \/ Swap \/ RemoveIntent
    \/ Return \/ Abort \/ Crash
    \/ Pin \/ PinRepaired \/ Scan \/ WriteIntent \/ WriteOutput \/ Lock \/ CheckOutput
    \/ PublishCompacted \/ SwapCompacted \/ Finish
    \/ CompactFail \/ RollbackFiles \/ RollbackManifest \/ RollbackIntent
    \/ CompactCrash

Next == Step /\ UNCHANGED setting

Spec == Init /\ [][Next]_vars

-----------------------------------------------------------------------------
(* Properties *)

\* No call fails or dies.  Outside this a writer can clean up the staged output
\* without moving the pointer, and the attempt then fails under lock #2 and rolls
\* back after it.
Undisturbed == Faults = {}

\* Every writer publishes a manifest, which the compactor can see.
Published == "walDelete" \notin Kinds

\* A mutation that commits while a compaction runs is neither lost nor
\* overwritten, and the compaction itself changes no row: every acknowledged
\* INSERT is there, every acknowledged DELETE is not, and a row nobody deleted
\* still is (compaction.rs:584-585).
NoMutationEverLost ==
    PointerHasManifest =>
        LET there == LiveRows(Live)
            touched == {op.row : op \in begun}
        IN  /\ \A op \in acked : op.row \in there <=> op.kind = "insert"
            /\ Range(setting.rows) \ touched \subseteq there

\* The same of publishing writers whose calls succeed: the comparison of the
\* pointer under lock #2 sees each of them (compaction.rs:1034-1065).
NoMutationLost == Undisturbed /\ Published => NoMutationEverLost

\* Every file of the snapshot readers see exists, although cleanups of writers
\* and compactor, rollbacks and staged files of others overlap
\* (writer.rs:5234-5235, compaction.rs:691-693).  Fragment ids are never shared
\* and no row is live in two fragments, so a deletion vector names the rows it
\* means, even with deferred deletes, calls that fail or die, and commits between
\* pin and publish (compaction.rs:1074-1077).
SnapshotIntact ==
    /\ Undisturbed => PointerHasManifest /\ Referenced(Live) \subseteq files
    /\ PointerHasManifest =>
          \A f, g \in Live.frags : f # g => f.id # g.id /\ f.rows \cap g.rows = {}

\* History only grows: the pointer never moves to an older snapshot and no
\* manifest at or below it is rewritten or removed, although the compactor fixed
\* its sequence, and what it would roll back, before it had the lock
\* (compaction.rs:1034-1065).
HistoryOnlyGrows ==
    [][Undisturbed =>
           /\ pointer' >= pointer
           /\ UpTo(manifests', pointer) = UpTo(manifests, pointer)]_vars
=============================================================================
