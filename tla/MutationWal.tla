---------------------------- MODULE MutationWal ----------------------------
(***************************************************************************)
(* The per-table mutation log (crates/icefalldb-core/src/mutation_wal.rs)  *)
(* and the three commit paths that use it (Writer::commit_deletes,         *)
(* commit_update and commit_merge in writer.rs), together with the         *)
(* commits that do not (INSERT, and a writer with wal_mode off), the       *)
(* checkpoint, the lock-free reader (Catalog::refresh), and the faults     *)
(* the log is there for.                                                   *)
(*                                                                         *)
(* A deferred mutation writes its deletion vector without fsync, appends   *)
(* one record that repeats the vector's bytes, fsyncs the log, and         *)
(* returns.  The snapshot a table shows is the manifest behind the         *)
(* pointer with the readable prefix of the log applied to it.  A           *)
(* publishing commit is one step for its manifest and one for its pointer: *)
(* CommitProtocol shows what happens in between.                           *)
(*                                                                         *)
(* Every fragment of the initial snapshot holds one row per transaction;   *)
(* the mutation t kills row t of the fragment it hits, and an UPDATE,      *)
(* MERGE or INSERT t adds the fragment t.                                  *)
(***************************************************************************)
EXTENDS Integers, Sequences, FiniteSets, SequencesExt

CONSTANTS
    Txns,        \* the mutations and inserts that are ever attempted
    Frags,       \* the fragments of the initial snapshot
    Settings,    \* what may happen to the table, see below
    Threshold,   \* wal_checkpoint_threshold (writer.rs:433; 64 by default)
    NoTxn        \* the transaction of an operation that is not a commit

WalKinds == {"walDelete", "walUpdate", "walMerge"}
AllKinds == WalKinds \cup {"delete", "insert", "checkpoint", "read"}
AllFaults == {"torn", "late", "power", "tornFile"}

\* A setting: the operations the table's users run, the fragments they hit, and
\* what the environment does meanwhile (LateWrite, TornAppend, PowerLoss).
ASSUME WalAssumption ==
    /\ IsFiniteSet(Txns) /\ NoTxn \notin Txns
    /\ Threshold \in Nat \ {0}
    /\ Settings \subseteq [kinds : SUBSET AllKinds, frags : SUBSET Frags,
                           faults : SUBSET AllFaults]

VARIABLES
    setting,     \* the setting of this behaviour, chosen once
    pointer,     \* the sequence in _manifest.json
    manifests,   \* _manifests/: sequence -> the manifest published there
    log,         \* the lines of _wal/mutations.log, as a reader sees them
    terminated,  \* does the log end with a newline?
    synced,      \* how many lines of the log an fsync has made durable
    ghost,       \* the durable log an unlink without a directory sync left behind
    del,         \* _deletions/: <<fragment, version>> -> what the file holds
    durable,     \* the deletion files that have been fsynced
    pc, op, base,\* the holder of the write lock: its step, its call, its manifest
    queued,      \* a line handed to the file that has not reached it
    tried, acked,\* transactions begun, and those whose call returned Ok
    rpc, rview, rfloor, \* the reader: its step, its manifest, acked when it began,
    rlapped      \* ... and whether the pointer had moved when it read the log

disk == <<pointer, manifests, log, terminated, synced, ghost, del, durable>>
reader == <<rpc, rview, rfloor, rlapped>>
vars == <<setting, disk, pc, op, base, queued, tried, acked, reader>>

Kinds == setting.kinds
Faults == setting.faults

MaxSeq == 1 + Cardinality(Txns)
Versions == 1 .. Cardinality(Txns)
DelNames == Frags \X Versions

\* What a deletion file can hold: a set of dead rows, half of one, or nothing
\* because there is no such file.
Missing == [state |-> "missing", rows |-> {}]
Garbled == [state |-> "garbled", rows |-> {}]
Rows(R) == [state |-> "ok", rows |-> R]

\* The part of a Manifest a mutation changes: per fragment the version of its
\* deletion file (0: none) and deleted_count, and the fragments added.  "hist"
\* is the history the manifest stands for, which no code reads.
NoManifest == [seq |-> 0]
Initial == [seq |-> 1, ver |-> [f \in Frags |-> 0], count |-> [f \in Frags |-> 0],
            adds |-> {}, hist |-> <<>>]
NoOp == [txn |-> NoTxn, kind |-> "checkpoint"]

\* A line of the log: a MutationRecord, or (good = FALSE) bytes that do not
\* parse or do not match their checksum.  "inline" says that the deletion
\* vector's bytes are among its staged_artifacts.
MutationRecord(t, s, f, v, bytes, inline, adds) ==
    [good |-> TRUE, txn |-> t, seq |-> s, frag |-> f, ver |-> v, bytes |-> bytes,
     inline |-> inline, adds |-> adds]
NoLine == [good |-> FALSE]

-----------------------------------------------------------------------------
(* Reading the log *)

\* read_records: the lines before the first one that fails to parse.  (The sort
\* by sequence that follows changes nothing while appends are in order; when a
\* late write breaks the order, it decides which of two records is applied.)
Records(l) ==
    LET bad == SelectInSeq(l, LAMBDA r : ~r.good)
        prefix == IF bad = 0 THEN l ELSE SubSeq(l, 1, bad - 1)
    IN  SortSeq(prefix, LAMBDA r, s : r.seq < s.seq)

\* apply: the record's deletion vector replaces its fragment's, its fragments
\* are appended, and the result has the record's sequence, whatever sequence
\* the record was built on.
Apply(m, r) ==
    [m EXCEPT !.seq = r.seq, !.ver[r.frag] = r.ver,
              !.count[r.frag] = Cardinality(r.bytes),
              !.adds = @ \cup r.adds, !.hist = Append(@, r.txn)]

\* live_manifest: fold the records newer than the manifest, in order.
Replay(m, l) ==
    FoldLeft(LAMBDA a, r : IF r.seq > a.seq THEN Apply(a, r) ELSE a, m, Records(l))

Pending(m, l) == {r \in Range(Records(l)) : r.seq > m.seq}

\* materialize, on every record that live_manifest applies: an inlined vector
\* whose file does not exist is written again, without fsync.
Materialized(m, l) ==
    [n \in DelNames |->
        LET from == {r \in Pending(m, l) : r.inline /\ <<r.frag, r.ver>> = n}
        IN  IF del[n] = Missing /\ from # {} THEN Rows((CHOOSE r \in from : TRUE).bytes)
            ELSE del[n]]

\* The snapshot that opening the table now would show.
Live == Replay(manifests[pointer], log)

-----------------------------------------------------------------------------
(* The snapshot's rows *)

Vector(m, f, d) == IF m.ver[f] = 0 THEN Rows({}) ELSE d[<<f, m.ver[f]>>]

Effects(m, d) == m.adds \cup UNION {Vector(m, f, d).rows : f \in Frags}

Readable(m, d) ==
    \A f \in Frags : /\ Vector(m, f, d).state = "ok"
                     /\ Cardinality(Vector(m, f, d).rows) = m.count[f]

-----------------------------------------------------------------------------
(* The holder of the write lock *)

Init ==
    /\ setting \in Settings
    /\ pointer = 1
    /\ manifests = [n \in 1 .. MaxSeq |->
           IF n = 1 THEN Initial ELSE NoManifest]
    /\ log = <<>> /\ terminated = TRUE /\ synced = 0 /\ ghost = <<>>
    /\ del = [n \in DelNames |-> Missing] /\ durable = {}
    /\ pc = "idle" /\ base = Initial /\ op = NoOp /\ queued = NoLine
    /\ tried = {} /\ acked = {}
    /\ rpc = "idle" /\ rview = Initial /\ rfloor = {} /\ rlapped = FALSE

\* The lock is dropped, and with it what the call held in memory.
Unlock == pc' = "idle" /\ op' = NoOp /\ base' = Initial

\* load_current_manifest: every commit builds on the replayed log.
LoadCurrent == Live

\* A commit takes the lock, replays the log (rewriting missing vectors), and
\* cleanup_staging removes the manifests above the live sequence.
Begin(t, k, f) ==
    /\ pc = "idle" /\ t \notin tried /\ k \in Kinds \ {"checkpoint", "read"}
    /\ op' = [txn |-> t, kind |-> k, frag |-> f]
    /\ tried' = tried \cup {t}
    /\ base' = LoadCurrent
    /\ del' = Materialized(manifests[pointer], log)
    /\ manifests' = [n \in 1 .. MaxSeq |->
           IF n > LoadCurrent.seq THEN NoManifest ELSE manifests[n]]
    /\ pc' = IF k = "insert" THEN "publish" ELSE "stage"
    /\ UNCHANGED <<pointer, log, terminated, synced, ghost, durable, queued, acked, reader>>

NextVersion == base.ver[op.frag] + 1

\* A deletion vector that starts empty instead of from the fragment's current one.
NewRowsOnly == {op.txn}

NewRows == Vector(base, op.frag, del).rows \cup {op.txn}
NewAdds == IF op.kind \in {"walUpdate", "walMerge", "insert"} THEN {op.txn} ELSE {}

\* The fragment's vector is read, the row added, and the next version written
\* in place: a vector that cannot be read ends the call (Abort).  A MERGE and a
\* writer outside WAL mode fsync the file here; the others leave it to the log.
StageDelete ==
    /\ pc = "stage" /\ Vector(base, op.frag, del).state = "ok"
    /\ LET n == <<op.frag, NextVersion>> IN
          /\ del' = [del EXCEPT ![n] = Rows(NewRows)]
          /\ durable' = IF op.kind \in {"delete", "walMerge"}
                        THEN durable \cup {n} ELSE durable \ {n}
    /\ pc' = IF op.kind = "delete" THEN "publish" ELSE "append"
    /\ UNCHANGED <<pointer, manifests, log, terminated, synced, ghost,
                   op, base, queued, tried, acked, reader>>

Record ==
    MutationRecord(op.txn, base.seq + 1, op.frag, NextVersion, NewRows,
                   op.kind # "walMerge", NewAdds)

\* The log after a line's bytes are written at its end: a last line without its
\* newline swallows them, and the two parse as neither.
Written(l, r) == IF terminated THEN Append(l, r)
                 ELSE [l EXCEPT ![Len(l)].good = FALSE]

\* append, first half.  The write goes through tokio's File, which may still
\* hold the bytes when the call returns ("late": local.rs has no flush).
AppendLine ==
    /\ pc = "append" /\ queued = NoLine
    /\ \/ log' = Written(log, Record) /\ terminated' = TRUE /\ queued' = NoLine
       \/ "late" \in Faults /\ queued' = Record /\ UNCHANGED <<log, terminated>>
    /\ pc' = "sync"
    /\ UNCHANGED <<pointer, manifests, synced, ghost, del, durable, op, base,
                   tried, acked, reader>>

\* The bytes that were late reach the file, whoever holds the lock by then.
LateWrite ==
    /\ queued # NoLine
    /\ log' = Written(log, queued) /\ terminated' = TRUE
    /\ queued' = NoLine
    /\ UNCHANGED <<pointer, manifests, synced, ghost, del, durable, pc, op, base,
                   tried, acked, reader>>

\* The call ends, or its process does, with part of the line in the file: cut
\* inside the record, or just before its newline.
TornAppend ==
    /\ pc = "append" /\ "torn" \in Faults
    /\ \E whole \in BOOLEAN :
          /\ log' = Written(log, [Record EXCEPT !.good = whole])
          /\ terminated' = FALSE
    /\ Unlock
    /\ UNCHANGED <<pointer, manifests, synced, ghost, del, durable,
                   queued, tried, acked, reader>>

\* append, second half: fsync the log.  The sync of a log just created is taken
\* to make its directory entry durable too: nobody syncs _wal/ itself.
SyncLog ==
    /\ pc = "sync"
    /\ synced' = Len(log) /\ ghost' = <<>>
    /\ pc' = "fold?"
    /\ UNCHANGED <<pointer, manifests, log, terminated, del, durable, op, base,
                   queued, tried, acked, reader>>

\* Fold the log once it holds wal_checkpoint_threshold records.
CountPending ==
    /\ pc = "fold?"
    /\ pc' = IF Len(Records(log)) >= Threshold THEN "load" ELSE "done"
    /\ UNCHANGED <<disk, op, base, queued, tried, acked, reader>>

\* A publishing commit writes its manifest ...
Publish ==
    /\ pc = "publish"
    /\ LET m == [base EXCEPT !.seq = @ + 1, !.adds = @ \cup NewAdds,
                             !.hist = Append(@, op.txn)]
       IN  manifests' = [manifests EXCEPT ![m.seq] =
               IF op.kind = "insert" THEN m
               ELSE [m EXCEPT !.ver[op.frag] = NextVersion,
                              !.count[op.frag] = Cardinality(NewRows)]]
    /\ pc' = "swap"
    /\ UNCHANGED <<pointer, log, terminated, synced, ghost, del, durable, op, base,
                   queued, tried, acked, reader>>

\* ... and swaps the pointer.  The log is left as it is: its records are all
\* at or below the new pointer.
Swap ==
    /\ pc = "swap"
    /\ pointer' = base.seq + 1
    /\ pc' = "done"
    /\ UNCHANGED <<manifests, log, terminated, synced, ghost, del, durable, op, base,
                   queued, tried, acked, reader>>

-----------------------------------------------------------------------------
(* checkpoint_locked *)

\* checkpoint_if_pending, and the first thing GC and compaction do.
BeginCheckpoint ==
    /\ pc = "idle" /\ "checkpoint" \in Kinds
    /\ pc' = "load"
    /\ UNCHANGED <<disk, op, base, queued, tried, acked, reader>>

\* A checkpoint that clears the log before its records are in a manifest.
CheckpointClearsFirst ==
    /\ pc = "load"
    /\ base' = manifests[pointer]
    /\ pc' = IF Records(log) = <<>> THEN "done" ELSE "clear"
    /\ UNCHANGED <<disk, op, queued, tried, acked, reader>>

\* A checkpoint that replays a log with a torn tail from the oldest manifest.
CheckpointFromStart ==
    /\ pc = "load"
    /\ base' = IF terminated THEN manifests[pointer] ELSE manifests[1]
    /\ pc' = IF Records(log) = <<>> THEN "done" ELSE "fold"
    /\ UNCHANGED <<disk, op, queued, tried, acked, reader>>

\* An empty log is left alone; one whose records are all at or below the
\* pointer is only cleared.
CheckpointLoad ==
    /\ pc = "load"
    /\ base' = manifests[pointer]
    /\ pc' = IF Records(log) = <<>> THEN "done"
             ELSE IF Pending(manifests[pointer], log) = {} THEN "clear"
             ELSE "fold"
    /\ UNCHANGED <<disk, op, queued, tried, acked, reader>>

\* One record of the loop: its inlined vector is materialized and fsynced, then
\* the record is applied.
CheckpointFold ==
    /\ pc = "fold"
    /\ LET todo == SelectSeq(Records(log), LAMBDA r : r.seq > base.seq) IN
          IF todo = <<>>
          THEN pc' = "ckManifest" /\ UNCHANGED <<base, del, durable>>
          ELSE LET r == Head(todo)
                   n == <<r.frag, r.ver>> IN
               /\ del' = [del EXCEPT ![n] =
                             IF r.inline /\ @ = Missing THEN Rows(r.bytes) ELSE @]
               /\ durable' = IF r.inline THEN durable \cup {n} ELSE durable
               /\ base' = Apply(base, r)
               /\ pc' = "fold"
    /\ UNCHANGED <<pointer, manifests, log, terminated, synced, ghost, op,
                   queued, tried, acked, reader>>

\* The folded manifest is written in place at its sequence and fsynced.
CheckpointManifest ==
    /\ pc = "ckManifest"
    /\ manifests' = [manifests EXCEPT ![base.seq] = base]
    /\ pc' = "ckPointer"
    /\ UNCHANGED <<pointer, log, terminated, synced, ghost, del, durable, op, base,
                   queued, tried, acked, reader>>

CheckpointPointer ==
    /\ pc = "ckPointer"
    /\ pointer' = base.seq
    /\ pc' = "clear"
    /\ UNCHANGED <<manifests, log, terminated, synced, ghost, del, durable, op, base,
                   queued, tried, acked, reader>>

\* clear: unlink the log.  Nothing syncs _wal/, so the durable log may be back
\* after a power loss until a new one is fsynced.
Clear ==
    /\ pc = "clear"
    /\ log' = <<>> /\ terminated' = TRUE /\ synced' = 0
    /\ ghost' = SubSeq(log, 1, synced)
    /\ pc' = "done"
    /\ UNCHANGED <<pointer, manifests, del, durable, op, base, queued, tried, acked, reader>>

\* Return Ok and drop the lock.
Return ==
    /\ pc = "done"
    /\ acked' = IF op.txn = NoTxn THEN acked ELSE acked \cup {op.txn}
    /\ Unlock
    /\ UNCHANGED <<disk, queued, tried, reader>>

\* An error, or the death of the process, at any point: the files stay as they
\* are, the lock is free.
Abort ==
    /\ pc # "idle"
    /\ Unlock /\ queued' = NoLine
    /\ UNCHANGED <<disk, tried, acked, reader>>

\* The machine stops.  Lines of the log past the last fsync may be gone, an
\* unlinked log may be back, and a deletion file that was not fsynced may be
\* missing or hold only part of its bytes.
PowerLoss ==
    /\ "power" \in Faults
    /\ Unlock /\ queued' = NoLine
    /\ rpc' = "idle" /\ rview' = Initial /\ rfloor' = {} /\ rlapped' = FALSE
    /\ \/ \E n \in synced .. Len(log) :
             /\ log' = SubSeq(log, 1, n) /\ synced' = n
             /\ terminated' = (terminated \/ n < Len(log))
       \/ /\ synced = 0
          /\ log' = ghost /\ synced' = Len(ghost) /\ terminated' = TRUE
    /\ \E lost \in SUBSET {n \in DelNames \ durable : del[n] # Missing} :
       \E torn \in SUBSET (IF "tornFile" \in Faults THEN lost ELSE {}) :
          /\ del' = [n \in DelNames |-> IF n \in torn THEN Garbled
                                        ELSE IF n \in lost THEN Missing ELSE del[n]]
          /\ durable' = {n \in DelNames : del'[n] # Missing}
    /\ ghost' = <<>>
    /\ UNCHANGED <<pointer, manifests, tried, acked>>

-----------------------------------------------------------------------------
(* The lock-free reader: Catalog::refresh *)

\* Read the pointer and the manifest behind it, ...
ReadManifest ==
    /\ rpc = "idle" /\ "read" \in Kinds
    /\ rview' = manifests[pointer] /\ rfloor' = acked /\ rlapped' = FALSE
    /\ rpc' = "log"
    /\ UNCHANGED <<disk, pc, op, base, queued, tried, acked>>

\* A reader that stops at the manifest.
ReadLogSkipped ==
    /\ rpc = "log"
    /\ rpc' = "scan"
    /\ rlapped' = (rview.seq # pointer)
    /\ UNCHANGED <<disk, pc, op, base, queued, tried, acked, rview, rfloor>>

\* ... then, later, the log; live_manifest rewrites missing vectors on the way.
ReadLog ==
    /\ rpc = "log"
    /\ rview' = Replay(rview, log)
    /\ rlapped' = (rview.seq # pointer)
    /\ del' = Materialized(rview, log)
    /\ rpc' = "scan"
    /\ UNCHANGED <<pointer, manifests, log, terminated, synced, ghost, durable,
                   pc, op, base, queued, tried, acked, rfloor>>

\* The scan reads the vectors the snapshot names.
Scan ==
    /\ rpc = "scan"
    /\ rpc' = "idle" /\ rview' = Initial /\ rfloor' = {} /\ rlapped' = FALSE
    /\ UNCHANGED <<disk, pc, op, base, queued, tried, acked>>

Step ==
    \/ \E t \in Txns, k \in Kinds, f \in setting.frags : Begin(t, k, f)
    \/ StageDelete \/ AppendLine \/ LateWrite \/ TornAppend \/ SyncLog
    \/ CountPending \/ Publish \/ Swap \/ Return \/ Abort
    \/ BeginCheckpoint \/ CheckpointLoad \/ CheckpointFold
    \/ CheckpointManifest \/ CheckpointPointer \/ Clear
    \/ PowerLoss
    \/ ReadManifest \/ ReadLog \/ Scan

Next == Step /\ UNCHANGED setting

Spec == Init /\ [][Next]_vars

-----------------------------------------------------------------------------
(* Properties *)

\* What the log copes with: lines that are there whole or not at all, files that a
\* power loss takes rather than garbles, and then no publishing commit, which would
\* build on deletion files that only the log makes durable (materialize looks at
\* records above the manifest's sequence, mutation_wal.rs:226).
Covered ==
    /\ Faults \subseteq {"power"}
    /\ "power" \in Faults => Kinds \cap {"insert", "delete"} = {}

\* Once a manifest is behind the pointer, the deletion files it names that the
\* log no longer repeats are durable (mutation_wal.rs:282-288).
PointerIsDurable ==
    "power" \in Faults =>
        \A f \in Frags :
            LET n == <<f, manifests[pointer].ver[f]>> IN n[2] > 0 => n \in durable

\* Every mutation whose call returned Ok is in the snapshot that opening the
\* table shows, its deletion vector read back from the files that are there, in
\* the settings the log copes with: through checkpoints that stop half way,
\* publishing commits between deferred ones, and the repair of files a power
\* loss took (mutation_wal.rs:10-26).
AckedIsLive ==
    Covered =>
        /\ \A t \in acked : t \in Effects(Live, Materialized(manifests[pointer], log))
        /\ PointerIsDurable

\* What a checkpoint or a publishing commit put behind the pointer stays: the
\* history there only grows, whatever the log has been through since (torn, late
\* or lost lines, a log that came back after its unlink).
CheckpointedIsForever ==
    [][IsPrefix(manifests[pointer].hist, manifests'[pointer'].hist)]_vars

\* A reader whose two reads saw the same pointer has a snapshot the table has had,
\* with every mutation that had returned Ok when the reader opened the table
\* (mutation_wal.rs:19-20: "Every table-open path replays the log, so a fresh reader
\* and crash recovery both see the deferred mutations").  The snapshot it holds
\* stays readable while commits, checkpoints and failed calls go on: each vector
\* it names has deleted_count rows, so no later call has written over the file,
\* and the counts that answer COUNT( * ) without a scan agree with the scan
\* (writer.rs:1883, mutation_wal.rs:184-185).
ReaderIsConsistent ==
    /\ rpc = "scan" /\ ~rlapped =>
          rfloor \subseteq Range(rview.hist) /\ IsPrefix(rview.hist, Live.hist)
    /\ rpc = "scan" => Readable(rview, del)
    /\ Covered => Readable(Live, Materialized(manifests[pointer], log))

\* A deferred mutation takes effect when its record reaches the log and a
\* published one when its pointer is swapped; checkpoints, aborts, replays and
\* repairs change nothing a user sees.  (The history is only watched while no
\* fault can take an unacknowledged record back.)
Table == INSTANCE AtomicTable
            WITH Initial <- <<>>, history <- IF Faults = {} THEN Live.hist ELSE <<>>,
                 acked <- IF Faults = {} THEN acked ELSE {}
RefinesAtomicTable == Table!ASpec
=============================================================================
