------------------------------- MODULE Doctor -------------------------------
(***************************************************************************)
(* check, doctor and the manifest hash chain (crates/icefalldb-core/src/   *)
(* check.rs, doctor.rs and metadata/manifest.rs), on tables that crashed   *)
(* writers, failed writers and damaged files leave behind.                 *)
(*                                                                         *)
(* The writers are those of CommitProtocol and MutationWal, cut down to    *)
(* the states they leave when they stop: journal, files, manifest,         *)
(* pointer, journal.  Repair runs under the same lock, one storage change  *)
(* per step, and may die between any two.  diagnose and check only look,   *)
(* so they are predicates of the state.                                    *)
(*                                                                         *)
(* Index generations and row-index deltas are treated by doctor exactly    *)
(* as deletion vectors are, and .agg sidecars are not looked at: neither   *)
(* is a file of this model.                                                *)
(***************************************************************************)
EXTENDS Naturals, Sequences, FiniteSets, SequencesExt

CONSTANTS
    Txns,       \* calls that publish a manifest or append to the log
    Genesis,    \* the one that wrote the first snapshot
    NoTxn,      \* "no transaction"
    Settings    \* what may happen to the table, see below

\* The calls that add a row group and roll back when they fail, those that
\* tombstone rows, the checkpoint of the log, and garbage collection.
Adding     == {"insert", "replace", "parquet"}
AllKinds   == Adding \cup {"delete", "walUpdate", "fold", "gc"}
AllFaults  == {"crash", "fail"}
AllDamages == {"pointerGone", "pointerGarbled", "manifestGone", "manifestBad",
               "dataGone", "dataBad", "dataFlipped", "metaGone", "metaBad",
               "checkpoint", "schemaBad", "schemaGone"}

\* A setting: the calls made and how many (a bound), how they fail, how files are
\* damaged and how often (a bound),
\* whether checkpoints get their archive (best effort, local storage only), and
\* how the first snapshot was written: before manifests had checksums ("legacy"),
\* by this version ("chained"), or not yet ("fresh").  A garbage collection is
\* explored on sound tables whose log is empty, a fresh table with inserts.
ASSUME SettingsAssumption ==
    /\ Genesis \in Txns /\ NoTxn \notin Txns
    /\ Settings \subseteq [kinds : SUBSET AllKinds, calls : Nat,
                           faults : SUBSET AllFaults,
                           damages : SUBSET AllDamages, hits : 0 .. 2,
                           archive : BOOLEAN,
                           first : {"legacy", "chained", "fresh"}]
    /\ \A s \in Settings :
          /\ "gc" \in s.kinds => s.hits = 0 /\ s.kinds \cap {"walUpdate", "fold"} = {}
          /\ s.first = "fresh" => s.kinds \subseteq Adding

\* Every call publishes at most one manifest, the highest sequence being new.
MaxSeq == Cardinality(Txns)
Seqs == 1 .. MaxSeq
Vers == 0 .. Cardinality(Txns)

Data(t)    == <<"data", t>>
Meta(t)    == <<"meta", t>>
Del(t, v)  == <<"del", t, v>>
Ckpt(n)    == <<"ckpt", n>>
Archive(n) == <<"archive", n>>

File == { Data(t) : t \in Txns } \cup { Meta(t) : t \in Txns }
          \cup { Del(t, v) : t \in Txns, v \in Vers \ {0} }
          \cup { Ckpt(n) : n \in Seqs } \cup { Archive(n) : n \in Seqs }

\* A manifest: its sequence; its checksum, named by the call that computed it;
\* its parent_hash; its fragments and the versions of their deletion vectors;
\* whether it names a snapshot checkpoint; and, for the properties only, the
\* calls it contains.
EmptyManifest == [seq |-> 0, by |-> NoTxn, parent |-> NoTxn, frags |-> {},
                  ver |-> [t \in Txns |-> 0], ckpt |-> FALSE, hist |-> {}]

GenesisManifest(first) ==
    [EmptyManifest EXCEPT !.seq = 1, !.frags = {Genesis}, !.hist = {Genesis},
                          !.by = IF first = "legacy" THEN NoTxn ELSE Genesis,
                          !.ckpt = first = "chained"]

VARIABLES
    setting,    \* the setting of this behaviour, chosen once
    pointer,    \* _manifest.json: [state |-> "ok" | "gone" | "garbled", seq]
    schema,     \* the schema _schema.json names: "ok", "bad" (it does not parse), "gone"
    mstate,     \* _manifests/: "none", "ok", "legacy" or "bad", by sequence
    manifests,  \* ... and what those files say
    disk,       \* every other file: "none", "ok", "bad", or "flipped" (data only:
                \* the footer and the pages decode, to other values)
    masked,     \* .meta files regenerated from flipped data: they vouch for it
    idless,     \* .meta files regenerated without their row ids
    intents,    \* the journal: what each intent lists; {} is no intent
    log,        \* the records of _wal/mutations.log
    lock, job,  \* the call that holds _write.lock ("doctor" among them), its kind
    step, base, \* where it is, and the manifest it loaded or chose
    wrote,      \* the files a writer has put at their final paths
    valid,      \* valid_snapshots, as a repair found them
    broken,     \* has this repair found something Unrepairable?
    result,     \* what the last repair returned, until anything else happens
    hits,       \* how many files have been damaged
    begun, acked

files  == <<pointer, schema, mstate, manifests, disk, masked, idless, intents, log>>
locals == <<lock, job, step, base, wrote, valid, broken>>
vars   == <<setting, pointer, schema, mstate, manifests, disk, masked, idless,
            intents, log, lock, job, step, base, wrote, valid, broken, result,
            hits, begun, acked>>

Kinds  == setting.kinds
Faults == setting.faults

Init ==
    /\ setting \in Settings
    /\ pointer = [state |-> "ok", seq |-> IF setting.first = "fresh" THEN 0 ELSE 1]
    /\ schema = "ok"
    /\ mstate = [n \in Seqs |-> IF n > 1 \/ setting.first = "fresh" THEN "none"
                                ELSE IF setting.first = "legacy" THEN "legacy" ELSE "ok"]
    /\ manifests = [n \in Seqs |-> IF mstate[n] = "none" THEN EmptyManifest
                                   ELSE GenesisManifest(setting.first)]
    /\ disk = [f \in File |->
                  IF \/ setting.first # "fresh" /\ f \in {Data(Genesis), Meta(Genesis)}
                     \/ setting.first = "chained" /\ f = Ckpt(1)
                     \/ setting.first = "chained" /\ setting.archive /\ f = Archive(1)
                  THEN "ok" ELSE "none"]
    /\ masked = {} /\ idless = {}
    /\ intents = [t \in Txns |-> {}] /\ log = <<>>
    /\ lock = NoTxn /\ job = "none" /\ step = "idle" /\ base = EmptyManifest
    /\ wrote = {} /\ valid = {} /\ broken = FALSE /\ result = "none"
    /\ hits = 0 /\ begun = {Genesis} /\ acked = {}

-----------------------------------------------------------------------------
(* Manifests *)

\* The highest of a set of sequences.
Highest(S) == CHOOSE n \in S : \A m \in S : m <= n

Present == { n \in Seqs : mstate[n] # "none" }

\* Snapshots a writer accepts (read_manifest_validated): the checksum matches.
Checked == { n \in Seqs : mstate[n] = "ok" }

\* validate_snapshots and retained_valid_manifests: a legacy snapshot is valid.
Valid == { n \in Seqs : mstate[n] \in {"ok", "legacy"} }

\* apply: a record's deletion vector and fragment on top of a manifest.  The
\* result names no checkpoint.
Apply(m, r) ==
    [m EXCEPT !.seq = r.seq, !.ver[r.frag] = r.ver, !.frags = @ \cup {r.txn},
              !.ckpt = FALSE, !.hist = @ \cup {r.txn}]

\* live_manifest: the records newer than the manifest, in order.
Live(m) == FoldLeft(LAMBDA a, r : IF r.seq > a.seq THEN Apply(a, r) ELSE a, m, log)

\* parent_manifest_checksum: of the highest manifest file below the sequence; a
\* file that does not parse, like one that is not there, anchors the chain.
Parent(n) ==
    LET below == { p \in Present : p < n } IN
    IF below = {} \/ mstate[Highest(below)] = "bad" THEN NoTxn
    ELSE manifests[Highest(below)].by

\* The deletion vector of each fragment, and every file a snapshot's rows need.
Vectors(m)  == { Del(t, m.ver[t]) : t \in { u \in m.frags : m.ver[u] > 0 } }
RowGroups(m) == { Data(t) : t \in m.frags } \cup { Meta(t) : t \in m.frags }

\* manifest_referenced_files: what the writers and gc take for referenced.
Referenced(m) ==
    RowGroups(m) \cup Vectors(m)
      \cup (IF m.ckpt THEN {Ckpt(m.seq), Archive(m.seq)} ELSE {})

-----------------------------------------------------------------------------
(* Writers *)

Release ==
    /\ lock' = NoTxn /\ job' = "none" /\ step' = "idle" /\ base' = EmptyManifest
    /\ wrote' = {} /\ valid' = {} /\ broken' = FALSE

Goto(s) == step' = s /\ UNCHANGED <<lock, job, base, wrote, valid, broken>>

\* A call takes the lock.
Begin(t, k) ==
    /\ lock = NoTxn /\ k \in Kinds /\ t \notin begun
    /\ Cardinality(begun) <= setting.calls
    /\ lock' = t /\ job' = k /\ step' = "load"
    /\ begun' = begun \cup {t}
    /\ result' = "none"
    /\ UNCHANGED <<files, base, wrote, valid, broken, hits, acked>>

\* The manifest a writer starts from: the pointer's, which must verify, or, if
\* the pointer is unusable, the highest that does.
Loadable == \/ pointer.state = "ok" /\ pointer.seq \in Checked
            \/ (pointer.state # "ok" \/ pointer.seq = 0) /\ Checked # {}
Latest == IF pointer.state = "ok" /\ pointer.seq # 0 THEN pointer.seq ELSE Highest(Checked)

\* Without a snapshot that verifies, a table without a pointer is taken for an
\* empty one, whatever else is in _manifests/.
LoadsEmpty == /\ Checked = {}
              /\ \/ pointer.state = "gone"
                 \/ pointer.state = "ok" /\ pointer.seq = 0 /\ Present = {}

\* Inlined vectors are written again where they are missing (materialize).
Healed(m) == { Del(r.frag, r.ver) : r \in { s \in ToSet(log) : s.seq > m.seq } }

\* load_current_manifest, then cleanup_staging: abandoned files, every intent,
\* manifests above the live one.
Load ==
    /\ step = "load" /\ job # "fold" /\ (Loadable \/ LoadsEmpty)
    /\ LET at   == IF Loadable THEN manifests[Latest] ELSE EmptyManifest
           live == IF Loadable THEN Live(at) ELSE at
           cleans == job # "gc"
           gone == IF cleans THEN UNION { intents[t] : t \in Txns } \ Referenced(live)
                   ELSE {}
       IN  /\ base' = live
           /\ pointer' = IF Loadable THEN [state |-> "ok", seq |-> Latest] ELSE pointer
           /\ disk' = [f \in File |-> IF f \in gone THEN "none"
                                      ELSE IF f \in Healed(at) /\ disk[f] = "none" THEN "ok"
                                      ELSE disk[f]]
           /\ intents' = IF cleans THEN [t \in Txns |-> {}] ELSE intents
           /\ mstate' = [n \in Seqs |-> IF cleans /\ n > live.seq THEN "none" ELSE mstate[n]]
           /\ step' = IF cleans THEN "journal" ELSE "sweep"
    /\ UNCHANGED <<schema, manifests, masked, idless, log, lock, job, wrote, valid,
                   broken, result, hits, begun, acked>>

\* checkpoint_locked: the manifest the pointer names, which must only parse, and
\* no clean-up.  A log without newer records is just cleared.
LoadFold ==
    /\ step = "load" /\ job = "fold" /\ log # <<>>
    /\ pointer.state = "ok" /\ pointer.seq \in Valid
    /\ LET at == manifests[pointer.seq] IN
          /\ base' = Live(at)
          /\ disk' = [f \in File |-> IF f \in Healed(at) /\ disk[f] = "none" THEN "ok"
                                     ELSE disk[f]]
          /\ step' = IF Live(at) = at THEN "unjournal" ELSE "publish"
    /\ UNCHANGED <<pointer, schema, mstate, manifests, masked, idless, intents, log, lock,
                   job, wrote, valid, broken, result, hits, begun, acked>>

\* The pointer's manifest is missing or does not verify, or there is nothing to
\* fold; or the writer had still to be opened, which reads the schema.
LoadFails ==
    /\ step = "load"
    /\ IF job = "fold" THEN log = <<>> \/ pointer.state # "ok" \/ pointer.seq \notin Valid
                       ELSE (~Loadable /\ ~LoadsEmpty) \/ schema # "ok"
    /\ Release
    /\ UNCHANGED <<files, result, hits, begun, acked>>

NextSeq == IF job = "fold" THEN base.seq ELSE base.seq + 1

\* The fragment a DELETE or UPDATE tombstones a row of: the oldest one here.
Hit == IF Genesis \in base.frags THEN Genesis ELSE CHOOSE t \in base.frags : TRUE
Tombstones == job \in {"delete", "walUpdate"} /\ base.frags # {}
NewVector == IF Tombstones THEN {Del(Hit, base.ver[Hit] + 1)} ELSE {}
NewGroup  == IF job \in Adding \cup {"walUpdate"} THEN {Data(lock), Meta(lock)} ELSE {}

\* The intent is made durable; commit_deletes has written its vectors by then.
Journal ==
    /\ step = "journal"
    /\ intents' = [intents EXCEPT ![lock] = NewVector \cup NewGroup]
    /\ disk' = [f \in File |-> IF job = "delete" /\ f \in NewVector THEN "ok" ELSE disk[f]]
    /\ wrote' = IF job = "delete" THEN NewVector ELSE {}
    /\ step' = "stage"
    /\ UNCHANGED <<pointer, schema, mstate, manifests, masked, idless, log,
                   lock, job, base, valid, broken, result, hits, begun, acked>>

\* A listed file reaches its final path: data, then .meta, then vectors.
Stage(f) ==
    /\ step = "stage" /\ f \in (NewVector \cup NewGroup) \ wrote
    /\ f[1] = "meta" => Data(lock) \in wrote
    /\ f[1] = "del" => NewGroup \subseteq wrote
    /\ disk' = [disk EXCEPT ![f] = "ok"]
    /\ wrote' = wrote \cup {f}
    /\ UNCHANGED <<pointer, schema, mstate, manifests, masked, idless, intents, log,
                   lock, job, step, base, valid, broken, result, hits, begun, acked>>

Staged ==
    /\ step = "stage" /\ NewVector \cup NewGroup \subseteq wrote
    /\ Goto(IF job = "walUpdate" THEN "append" ELSE "ckpt")
    /\ UNCHANGED <<files, result, hits, begun, acked>>

\* write_checkpoint: the JSON is listed and renamed into place; the archive
\* beside it, best effort, is never listed.
WriteCheckpoint ==
    /\ step = "ckpt"
    /\ intents' = [intents EXCEPT ![lock] = @ \cup {Ckpt(NextSeq)}]
    /\ LET new == {Ckpt(NextSeq)} \cup IF setting.archive THEN {Archive(NextSeq)} ELSE {}
       IN  /\ disk' = [f \in File |-> IF f \in new THEN "ok" ELSE disk[f]]
           /\ wrote' = wrote \cup new
    /\ step' = "publish"
    /\ UNCHANGED <<pointer, schema, mstate, manifests, masked, idless, log,
                   lock, job, base, valid, broken, result, hits, begun, acked>>

\* finalize_manifest and the rename into _manifests/.  A fold publishes what
\* it loaded, under the sequence of the last record; a replace drops every
\* fragment there was.
NewManifest ==
    [base EXCEPT !.seq = NextSeq, !.by = lock, !.parent = Parent(NextSeq),
                 !.frags = (IF job = "replace" THEN {} ELSE @)
                            \cup { t \in {lock} : NewGroup # {} },
                 !.ver = [t \in Txns |-> IF Tombstones /\ t = Hit THEN base.ver[t] + 1
                                         ELSE base.ver[t]],
                 !.ckpt = job # "fold",
                 !.hist = IF job = "fold" THEN @ ELSE @ \cup {lock}]

Publish ==
    /\ step = "publish"
    /\ manifests' = [manifests EXCEPT ![NextSeq] = NewManifest]
    /\ mstate' = [mstate EXCEPT ![NextSeq] = "ok"]
    /\ Goto("swap")
    /\ UNCHANGED <<pointer, schema, disk, masked, idless, intents, log, result, hits,
                   begun, acked>>

Swap ==
    /\ step = "swap"
    /\ pointer' = [state |-> "ok", seq |-> NextSeq]
    /\ Goto("unjournal")
    /\ UNCHANGED <<schema, mstate, manifests, disk, masked, idless, intents, log,
                   result, hits, begun, acked>>

\* A deferred UPDATE commits by its record.
AppendRecord ==
    /\ step = "append"
    /\ log' = Append(log, [seq |-> NextSeq, txn |-> lock, frag |-> Hit,
                           ver |-> base.ver[Hit] + 1])
    /\ Goto("unjournal")
    /\ UNCHANGED <<pointer, schema, mstate, manifests, disk, masked, idless, intents,
                   result, hits, begun, acked>>

\* The intent is deleted, and a fold's log cleared; the call returns Ok.
Unjournal ==
    /\ step = "unjournal"
    /\ intents' = [intents EXCEPT ![lock] = {}]
    /\ log' = IF job = "fold" THEN <<>> ELSE log
    /\ acked' = IF job = "fold" THEN acked ELSE acked \cup {lock}
    /\ Release
    /\ UNCHANGED <<pointer, schema, mstate, manifests, disk, masked, idless, result,
                   hits, begun>>

\* A storage call fails before the commit point: the insert paths roll back,
\* the others leave everything to the next writer.
Fail ==
    /\ "fail" \in Faults /\ job \in AllKinds \ {"gc"}
    /\ step \in {"journal", "stage", "ckpt", "publish", "swap", "append"}
    /\ IF job \in Adding THEN Goto("rollback") ELSE Release
    /\ UNCHANGED <<files, result, hits, begun, acked>>

\* rollback_commit: the staged files first,
RollbackFiles ==
    /\ step = "rollback"
    /\ disk' = [f \in File |-> IF f \in wrote THEN "none" ELSE disk[f]]
    /\ Goto("rollbackManifest")
    /\ UNCHANGED <<pointer, schema, mstate, manifests, masked, idless, intents, log,
                   result, hits, begun, acked>>

\* then the manifest, of which insert_parquet never records the sequence, and
\* the intent.
RollbackManifest ==
    /\ step = "rollbackManifest"
    /\ mstate' = IF job = "parquet" THEN mstate ELSE [mstate EXCEPT ![NextSeq] = "none"]
    /\ intents' = [intents EXCEPT ![lock] = {}]
    /\ Release
    /\ UNCHANGED <<pointer, schema, manifests, disk, masked, idless, log, result, hits,
                   begun, acked>>

\* gc with a retention of one snapshot: files and intents first,
GcSweep ==
    /\ step = "sweep"
    /\ LET kept == UNION { Referenced(manifests[n]) : n \in { m \in Valid : m >= base.seq } }
       IN  disk' = [f \in File |-> IF f \in kept THEN disk[f] ELSE "none"]
    /\ intents' = [t \in Txns |-> {}]
    /\ Goto("prune")
    /\ UNCHANGED <<pointer, schema, mstate, manifests, masked, idless, log, result, hits,
                   begun, acked>>

\* then the manifests below the cutoff, in the order of the listing.
GcPrune ==
    /\ step = "prune"
    /\ LET old == { n \in Present : n < base.seq }
       IN  IF old = {} THEN Release /\ UNCHANGED mstate
           ELSE /\ mstate' = [mstate EXCEPT ![CHOOSE n \in old : \A m \in old : n <= m] = "none"]
                /\ Goto("prune")
    /\ UNCHANGED <<pointer, schema, manifests, disk, masked, idless, intents, log, result,
                   hits, begun, acked>>

\* The process of a writer, a collection or a repair dies.
Crash ==
    /\ "crash" \in Faults /\ lock # NoTxn
    /\ Release
    /\ UNCHANGED <<files, result, hits, begun, acked>>

-----------------------------------------------------------------------------
(* Damage, while no call runs *)

Damage(d) ==
    /\ lock = NoTxn /\ d \in setting.damages /\ hits < setting.hits
    /\ hits' = hits + 1 /\ result' = "none"
    /\ \/ /\ d \in {"pointerGone", "pointerGarbled"}
          /\ pointer' = [state |-> IF d = "pointerGone" THEN "gone" ELSE "garbled", seq |-> 0]
          /\ UNCHANGED <<schema, mstate, disk>>
       \/ /\ d \in {"manifestGone", "manifestBad"}
          /\ \E n \in Present :
                mstate' = [mstate EXCEPT ![n] = IF d = "manifestGone" THEN "none" ELSE "bad"]
          /\ UNCHANGED <<pointer, schema, disk>>
       \/ /\ d \in {"schemaBad", "schemaGone"}
          /\ schema' = IF d = "schemaBad" THEN "bad" ELSE "gone"
          /\ UNCHANGED <<pointer, mstate, disk>>
       \/ /\ \E f \in File :
                /\ disk[f] = "ok"
                /\ \/ f[1] = "data" /\ \/ d = "dataGone" /\ disk' = [disk EXCEPT ![f] = "none"]
                                       \/ d = "dataBad" /\ disk' = [disk EXCEPT ![f] = "bad"]
                                       \/ d = "dataFlipped" /\ disk' = [disk EXCEPT ![f] = "flipped"]
                   \/ f[1] = "meta" /\ \/ d = "metaGone" /\ disk' = [disk EXCEPT ![f] = "none"]
                                       \/ d = "metaBad" /\ disk' = [disk EXCEPT ![f] = "bad"]
                   \/ f[1] \in {"ckpt", "archive"} /\ d = "checkpoint"
                         /\ disk' = [disk EXCEPT ![f] = "none"]
          /\ UNCHANGED <<pointer, schema, mstate>>
    /\ UNCHANGED <<manifests, masked, idless, intents, log, locals, begun, acked>>

-----------------------------------------------------------------------------
(* What check and diagnose see *)

\* Mutant of ReferencedRowGroups: only the latest snapshot's.
ReferencedByLatest(V) == IF V = {} THEN {} ELSE RowGroups(manifests[Highest(V)])

\* referenced_files: the data and .meta files of the valid snapshots.
ReferencedRowGroups(V) == UNION { RowGroups(manifests[n]) : n \in V }

\* The rg_*.parquet and rg_*.meta files no valid snapshot names.
OrphanRowGroups(V) ==
    { f \in File : f[1] \in {"data", "meta"} /\ disk[f] # "none" }
        \ ReferencedRowGroups(V)

\* verify_against_data: a .meta vouches for the bytes it was computed from.
Matches(t) == disk[Data(t)] = "ok" \/ (disk[Data(t)] = "flipped" /\ t \in masked)

\* Mutant of RowGroupErrors: the data's checksum is not compared.
RowGroupErrorsUnverified(m) ==
    { <<"MISSING_ROW_GROUP_META", t>> : t \in { u \in m.frags : disk[Meta(u)] = "none" } }
    \cup { <<"CORRUPT_ROW_GROUP_META", t>> : t \in { u \in m.frags : disk[Meta(u)] = "bad" } }
    \cup { <<"ROW_GROUP_DATA", t>> : t \in { u \in m.frags :
              disk[Meta(u)] = "ok" /\ schema = "ok" /\ disk[Data(u)] = "none" } }

\* check_row_groups, per fragment: the first thing that is wrong with it.
RowGroupErrors(m) ==
    { <<"MISSING_ROW_GROUP_META", t>> : t \in { u \in m.frags : disk[Meta(u)] = "none" } }
    \cup { <<"CORRUPT_ROW_GROUP_META", t>> : t \in { u \in m.frags : disk[Meta(u)] = "bad" } }
    \cup { <<"MISSING_ROW_GROUP_SCHEMA", t>> : t \in { u \in m.frags :
              disk[Meta(u)] = "ok" /\ schema # "ok" } }
    \cup { <<"ROW_GROUP_DATA", t>> : t \in { u \in m.frags :
              disk[Meta(u)] = "ok" /\ schema = "ok" /\ ~Matches(u) } }

\* check: it goes on to the row groups only from a pointer and a manifest that
\* verify; a legacy manifest does not.
Checks == pointer.state = "ok" /\ pointer.seq \in Checked

\* deep_integrity_errors: DEEP_INTEGRITY_CODES leaves the missing .meta out.
DeepErrors ==
    IF ~Checks THEN {}
    ELSE { e \in RowGroupErrors(manifests[pointer.seq]) : e[1] # "MISSING_ROW_GROUP_META" }

\* verify_history: a snapshot that does not verify is a break, and one whose
\* parent_hash differs from the checksum of the verified snapshot before it.
Breaks ==
    { n \in Present : mstate[n] = "bad" }
    \cup { n \in Checked :
             LET below == { p \in Present : p < n } IN
             /\ below # {} /\ Highest(below) \in Checked
             /\ manifests[n].parent # manifests[Highest(below)].by }

\* check_manifest_pointer and check_manifest: what keeps check from going on.
PointerErrors ==
    IF pointer.state = "ok" THEN {} ELSE {<<"MANIFEST_POINTER", pointer.state>>}

ManifestErrors ==
    IF pointer.state # "ok" \/ pointer.seq = 0 \/ Checks THEN {}
    ELSE {<<"MANIFEST", mstate[pointer.seq]>>}

\* A table without snapshots is asked only whether its schema is there.
EmptyWithoutSchema == pointer.state = "ok" /\ pointer.seq = 0 /\ schema = "gone"

\* check_schema, of the snapshot behind the pointer.
SchemaErrors ==
    IF (Checks /\ schema # "ok") \/ EmptyWithoutSchema THEN {<<"SCHEMA", schema>>} ELSE {}

\* retained_valid_manifests: check protects what legacy snapshots name, too.
Retained == { n \in Present : mstate[n] \in {"ok", "legacy"} }

StaleIntents == { t \in Txns : intents[t] # {} }

\* check_orphans: without a snapshot to go by nothing is referenced.  An empty
\* table without its schema is not looked at.
CheckWarnings ==
    LET latest == IF pointer.state = "ok" THEN pointer.seq ELSE 0
        kept == IF latest = 0 THEN {} ELSE Retained
    IN IF EmptyWithoutSchema THEN {}
       ELSE { <<"STALE_INTENT", t>> : t \in StaleIntents }
            \cup { <<"ORPHAN_MANIFEST", n>> : n \in { k \in Present : k > latest } }
            \cup { <<"UNREFERENCED_ROW_GROUP", f>> : f \in OrphanRowGroups(kept) }

\* The issues of severity Error; check passes without them.
CheckErrors ==
    PointerErrors \cup ManifestErrors \cup SchemaErrors
    \cup (IF Checks THEN RowGroupErrors(manifests[pointer.seq])
                         \cup { <<"CHAIN_BREAK", n>> : n \in Breaks } ELSE {})

CheckPasses == CheckErrors = {}

PointerIsHighest(V) == V # {} /\ pointer.state = "ok" /\ pointer.seq = Highest(V)
NewerManifests(V) == { n \in Present : \A v \in V : n > v }
MissingMetas(V) == IF V = {} THEN {}
                   ELSE { t \in manifests[Highest(V)].frags : disk[Meta(t)] = "none" }

\* What diagnose reports of the kinds that repair is there for.
Repairable == \/ StaleIntents # {} \/ OrphanRowGroups(Valid) # {}
              \/ ~PointerIsHighest(Valid) \/ NewerManifests(Valid) # {}

\* require_table_exists, before the lock and before a diagnosis.
TableExists == schema # "gone"

\* diagnose finds nothing at all.
DiagnosedHealthy ==
    TableExists /\ ~Repairable /\ MissingMetas(Valid) = {} /\ Breaks = {} /\ DeepErrors = {}

-----------------------------------------------------------------------------
(* repair *)

\* Mutant of BeginRepair: the lowest valid sequence is chosen.
BeginRepairLowest ==
    /\ lock = NoTxn /\ TableExists
    /\ lock' = "doctor" /\ job' = "repair"
    /\ valid' = Valid
    /\ base' = IF Valid = {} THEN EmptyManifest
               ELSE manifests[CHOOSE n \in Valid : \A m \in Valid : n <= m]
    /\ step' = "intents" /\ result' = "none"
    /\ UNCHANGED <<files, wrote, broken, hits, begun, acked>>

\* The lock, validate_snapshots, choose_sequence.
BeginRepair ==
    /\ lock = NoTxn /\ TableExists
    /\ lock' = "doctor" /\ job' = "repair"
    /\ valid' = Valid
    /\ base' = IF Valid = {} THEN EmptyManifest ELSE manifests[Highest(Valid)]
    /\ step' = "intents" /\ result' = "none"
    /\ UNCHANGED <<files, wrote, broken, hits, begun, acked>>

\* Without its schema the table is not found: an error before the lock.
\* The checks for a schema further down (before the pointer is written, and for
\* each missing .meta) then see one that went missing after this, or a snapshot
\* of an older schema than _schema.json names: here there is one schema, and no
\* damage while a call runs.
TableNotFound ==
    /\ lock = NoTxn /\ ~TableExists
    /\ result' = "error"
    /\ UNCHANGED <<files, locals, hits, begun, acked>>

\* No valid snapshot, and not an empty table: an error.
RepairRefuses ==
    /\ step = "intents" /\ valid = {}
    /\ pointer.state # "gone" \/ Present # {}
    /\ result' = "error"
    /\ Release
    /\ UNCHANGED <<files, hits, begun, acked>>

Accepts == valid # {} \/ (pointer.state = "gone" /\ Present = {})

\* rollback_intents: the listed files that are not referenced, one by one, ...
RollbackIntentFile(t, f) ==
    /\ step = "intents" /\ Accepts
    /\ f \in intents[t] \ ReferencedRowGroups(valid) /\ disk[f] # "none"
    /\ disk' = [disk EXCEPT ![f] = "none"]
    /\ UNCHANGED <<pointer, schema, mstate, manifests, masked, idless, intents, log,
                   locals, result, hits, begun, acked>>

\* ... then the intent.
RollbackIntent(t) ==
    /\ step = "intents" /\ Accepts
    /\ intents[t] # {}
    /\ \A f \in intents[t] \ ReferencedRowGroups(valid) : disk[f] = "none"
    /\ intents' = [intents EXCEPT ![t] = {}]
    /\ UNCHANGED <<pointer, schema, mstate, manifests, disk, masked, idless, log,
                   locals, result, hits, begun, acked>>

IntentsDone ==
    /\ step = "intents" /\ Accepts
    /\ StaleIntents = {}
    /\ Goto(IF valid = {} THEN "orphans" ELSE "pointer")
    /\ UNCHANGED <<files, result, hits, begun, acked>>

\* write_pointer, if the pointer names another sequence or none.
RepairPointer ==
    /\ step = "pointer"
    /\ pointer' = [state |-> "ok", seq |-> base.seq]
    /\ Goto("metas")
    /\ UNCHANGED <<schema, mstate, manifests, disk, masked, idless, intents, log,
                   result, hits, begun, acked>>

\* load_checkpoint: the canonical JSON, or else the archive of that sequence.
Recovered == (base.ckpt /\ disk[Ckpt(base.seq)] = "ok") \/ disk[Archive(base.seq)] = "ok"

\* repair_row_group_metas cannot parse the schema: an error, half-way.
SchemaUnreadable ==
    /\ step = "metas" /\ base.frags # {} /\ schema = "bad"
    /\ result' = "error"
    /\ Release
    /\ UNCHANGED <<files, hits, begun, acked>>

\* A missing .meta is recomputed from whatever the data file holds now.
Regenerate(t) ==
    /\ step = "metas" /\ schema = "ok"
    /\ t \in base.frags /\ disk[Meta(t)] = "none" /\ disk[Data(t)] \in {"ok", "flipped"}
    /\ disk' = [disk EXCEPT ![Meta(t)] = "ok"]
    /\ masked' = IF disk[Data(t)] = "flipped" THEN masked \cup {t} ELSE masked
    /\ idless' = IF Recovered THEN idless \ {t} ELSE idless \cup {t}
    /\ UNCHANGED <<pointer, schema, mstate, manifests, intents, log, locals, result,
                   hits, begun, acked>>

\* One whose data is gone too, or has no readable footer, is Unrepairable.
MetasDone ==
    /\ step = "metas" /\ (schema = "ok" \/ base.frags = {})
    /\ \A t \in base.frags : disk[Meta(t)] = "none" => disk[Data(t)] \in {"none", "bad"}
    /\ broken' = \E t \in base.frags : disk[Meta(t)] = "none"
    /\ step' = "orphans"
    /\ UNCHANGED <<files, lock, job, base, wrote, valid, result, hits, begun, acked>>

\* delete_orphans: row-group files, .meta before .parquet, ...
DeleteOrphan(f) ==
    /\ step = "orphans" /\ f \in OrphanRowGroups(valid)
    /\ f[1] = "data" => Meta(f[2]) \notin OrphanRowGroups(valid)
    /\ disk' = [disk EXCEPT ![f] = "none"]
    /\ UNCHANGED <<pointer, schema, mstate, manifests, masked, idless, intents, log,
                   locals, result, hits, begun, acked>>

\* Mutant of DeleteNewerManifests: the manifest just above is kept.
DeleteMuchNewerManifests ==
    /\ step = "orphans" /\ OrphanRowGroups(valid) = {}
    /\ mstate' = [n \in Seqs |-> IF n > base.seq + 1 THEN "none" ELSE mstate[n]]
    /\ Goto("verify")
    /\ UNCHANGED <<pointer, schema, manifests, disk, masked, idless, intents, log, result,
                   hits, begun, acked>>

\* ... then the manifests above the chosen one.
DeleteNewerManifests ==
    /\ step = "orphans" /\ OrphanRowGroups(valid) = {}
    /\ mstate' = [n \in Seqs |-> IF n > base.seq THEN "none" ELSE mstate[n]]
    /\ Goto("verify")
    /\ UNCHANGED <<pointer, schema, manifests, disk, masked, idless, intents, log, result,
                   hits, begun, acked>>

\* The full checker has the last word; healthy is the absence of Unrepairable.
Verify ==
    /\ step = "verify"
    /\ result' = IF broken \/ (valid # {} /\ DeepErrors # {}) THEN "unhealthy" ELSE "healthy"
    /\ Release
    /\ UNCHANGED <<files, hits, begun, acked>>

-----------------------------------------------------------------------------
Writer ==
    \/ \E t \in Txns, k \in AllKinds : Begin(t, k)
    \/ Load \/ LoadFold \/ LoadFails \/ Journal \/ Staged \/ WriteCheckpoint \/ Publish \/ Swap
    \/ AppendRecord \/ Unjournal \/ Fail \/ RollbackFiles \/ RollbackManifest
    \/ GcSweep \/ GcPrune
    \/ \E f \in File : Stage(f)

Repair ==
    \/ TableNotFound \/ BeginRepair \/ RepairRefuses \/ IntentsDone \/ RepairPointer
    \/ SchemaUnreadable \/ MetasDone \/ DeleteNewerManifests \/ Verify
    \/ \E t \in Txns : RollbackIntent(t) \/ Regenerate(t)
    \/ \E t \in Txns, f \in File : RollbackIntentFile(t, f)
    \/ \E f \in File : DeleteOrphan(f)

Step == Writer \/ Repair \/ Crash \/ \E d \in AllDamages : Damage(d)

Next == Step /\ UNCHANGED setting

Spec == Init /\ [][Next]_vars

-----------------------------------------------------------------------------
(* Properties *)

\* The snapshot a reader of this table gets, if it gets one.
Opens == pointer.state = "ok" /\ pointer.seq \in Valid
Shown == Live(manifests[pointer.seq])

\* A snapshot whose row groups hold what was written.
Sound(m) == \A t \in m.frags : disk[Data(t)] = "ok" /\ disk[Meta(t)] = "ok"

\* A repair that returns Ok, however many of its predecessors died half-way and
\* whatever they left, leaves nothing behind that a repair is there for: the next
\* diagnosis has no stale intent, orphan, newer manifest or wrong pointer to
\* report, and a missing .meta only if the repair said so.
RepairSettles ==
    /\ result \in {"healthy", "unhealthy"} /\ Valid # {} => ~Repairable
    /\ result = "healthy" => MissingMetas(Valid) = {}

\* Nobody damages a file.
Undamaged == setting.hits = 0

\* Flipped bytes keep a witness: data and .meta are not both damaged.  A
\* .meta that is lost is regenerated from the data, whatever the data says.
Witnessed == ~({"dataFlipped", "metaGone"} \subseteq setting.damages)

\* The tables that a verdict vouches for can be read.
Readable ==
    /\ Witnessed /\ setting.first # "legacy"
    /\ CheckPasses \/ DiagnosedHealthy \/ (result = "healthy" /\ Opens)
    /\ pointer.seq # 0
    => Opens /\ Sound(manifests[pointer.seq])

\* A table that check passes, that diagnose finds healthy or that repair
\* returns as healthy can be read: no missing or altered data file and no
\* corrupt .meta of the snapshot behind the pointer escapes all three
\* (doctor.rs:41-49).  And the two tools agree: where a snapshot opens and the
\* schema parses, diagnose finds nothing exactly when check has neither an
\* error nor a warning.  Nor is there a false alarm about tampering: crashed
\* commits, folds that skip sequences, half-finished collections and repairs
\* leave a chain that verifies.
VerdictsAreSound ==
    /\ Undamaged /\ ("fold" \in Kinds => "crash" \notin Faults) => Breaks = {}
    /\ Opens /\ schema = "ok" /\ setting.first # "legacy"
       => (DiagnosedHealthy <=> CheckErrors \cup CheckWarnings = {})
    /\ Readable

\* No step of a repair removes a data or .meta file that any valid snapshot
\* names, be it old or legacy: time travel survives a repair (doctor.rs:394-396).
RepairSparesSnapshots ==
    [][ lock = "doctor" =>
          \A n \in Valid : \A f \in RowGroups(manifests[n]) :
              disk[f] # "none" => disk'[f] # "none" ]_vars

\* Every fragment and deletion vector of the live snapshot can be read.
LiveIsReadable == Opens => Sound(Shown) /\ \A f \in Vectors(Shown) : disk[f] = "ok"

\* Repairs, crashes and failures lose nothing.  On a table nobody damaged, what
\* was acknowledged stays in the snapshot that the table shows, through crashes,
\* failures, folds and repairs: the highest valid manifest always contains the
\* one behind the pointer.  If its writers only insert and collect, and at worst
\* die, that snapshot can be read at every moment, also once a repair has
\* published a manifest whose writer died before it could.  And a .meta lost from
\* the latest snapshot is regenerated with its row ids as long as the checkpoint's
\* JSON or archive is there (doctor.rs:604-608), also when the same repair has
\* just rolled the checkpoint's own intent back.
NothingIsLost ==
    /\ Undamaged => /\ acked # {} => Opens
                    /\ Opens => acked \subseteq Shown.hist
    /\ Undamaged /\ Kinds \subseteq Adding \cup {"gc"} /\ Faults \subseteq {"crash"}
          => LiveIsReadable
    /\ /\ setting.archive /\ setting.first # "legacy"
       /\ "checkpoint" \notin setting.damages /\ Kinds \cap {"walUpdate", "fold"} = {}
       => idless = {}
=============================================================================
