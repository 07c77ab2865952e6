-------------------------- MODULE CommitProtocol ---------------------------
(***************************************************************************)
(* The commit protocol of one IcefallDB table (crates/icefalldb-core/src/  *)
(* writer.rs and gc.rs) with the mutation WAL switched off.                *)
(*                                                                         *)
(* A table is a directory of immutable, numbered manifests, a pointer to   *)
(* the latest of them, the files the manifests reference, and a journal of *)
(* intents.  Every mutation runs under the exclusive table lock: it loads  *)
(* the manifest the pointer names, cleans up after crashed predecessors,   *)
(* journals and writes its files, publishes the next manifest and swaps    *)
(* the pointer.  A process may die, and a storage call may fail, between   *)
(* any two of these steps.                                                 *)
(*                                                                         *)
(* Only the lock holder changes anything, so its local variables are       *)
(* plain variables here, and a transaction is the identity of one call     *)
(* (a retry is a new transaction).  File contents are abstracted to the    *)
(* transaction that wrote them.  Crashes are those of the process: what    *)
(* was written stays written.                                              *)
(***************************************************************************)
EXTENDS Naturals, Sequences, FiniteSets, Functions

CONSTANTS
    Txns,       \* calls that mutate the table, garbage collections included
    Genesis,    \* the transaction that wrote the first snapshot
    NoTxn,      \* "no transaction": a free lock, an absent file
    MaxSeq,     \* bound: highest manifest sequence explored
    MaxVer,     \* bound: highest deletion-vector version of a fragment
    Retains,    \* the retention windows garbage collection is run with
    Fresh       \* TRUE: the table has no snapshot yet, the pointer says 0

ASSUME GenesisAssumption == Genesis \in Txns
ASSUME NoTxnAssumption   == NoTxn \notin Txns
ASSUME BoundsAssumption  == /\ MaxSeq \in Nat \ {0}
                            /\ MaxVer \in Nat
                            /\ Retains \subseteq Nat
                            /\ Fresh \in BOOLEAN

Seqs == 1 .. MaxSeq
Vers == 0 .. MaxVer

\* insert_batch + commit, replace, insert_parquet (copied or deduplicated),
\* DELETE, UPDATE, MERGE.
Mutations == {"commit", "replace", "parquet", "reference",
              "delete", "update", "merge"}

Kinds == Mutations \cup {"gc"}

\* The entry points that call rollback_commit when they fail.
RollsBack == {"commit", "replace", "parquet"}

-----------------------------------------------------------------------------
(***************************************************************************)
(* Files.  Row groups have fresh random names; a deletion vector is named  *)
(* by its fragment and version; index generations, row-index deltas and    *)
(* snapshot checkpoints are named by the sequence of their manifest.       *)
(***************************************************************************)
Rg(t)       == <<"rg", t>>
Del(g, v)   == <<"del", g, v>>
RowDelta(n) == <<"rowdelta", n>>
Idx(n)      == <<"idx", n>>
Ckpt(n)     == <<"ckpt", n>>

File == { Rg(t) : t \in Txns } \cup { Del(g, v) : g \in Txns, v \in Vers }
           \cup { RowDelta(n) : n \in Seqs } \cup { Idx(n) : n \in Seqs }
           \cup { Ckpt(n) : n \in Seqs }

\* The order in which the commit paths write their files.
Rank(f) == CASE f[1] = "rg"       -> 1
             [] f[1] = "del"      -> 2
             [] f[1] = "rowdelta" -> 3
             [] f[1] = "idx"      -> 4
             [] f[1] = "ckpt"     -> 5

\* f comes first among S in the order of the code.
First(f, S) == f \in S /\ \A g \in S : Rank(f) <= Rank(g)

(***************************************************************************)
(* A manifest: the files it references, each with the transaction whose    *)
(* bytes it means; the deletion-vector version of each fragment; and, for  *)
(* the properties only, the transactions it contains.                      *)
(***************************************************************************)
Contents   == [File -> Txns \cup {NoTxn}]
Manifest   == [refs : Contents, ver : [Txns -> Vers], hist : Seq(Txns)]

EmptyManifest == [refs |-> [f \in File |-> NoTxn],
                  ver  |-> [g \in Txns |-> 0],
                  hist |-> <<>>]

GenesisManifest ==
    [EmptyManifest EXCEPT !.refs = [f \in File |->
                                      IF f \in {Rg(Genesis), Idx(1), Ckpt(1)}
                                      THEN Genesis ELSE NoTxn],
                          !.hist = <<Genesis>>]

\* The files a manifest references (writer.rs manifest_referenced_files).
Referenced(m) == { f \in File : m.refs[f] # NoTxn }

\* The fragments of a manifest, named by the transaction that added them.
Fragments(m) == { t \in Txns : m.refs[Rg(t)] # NoTxn }

-----------------------------------------------------------------------------
VARIABLES
    pointer,    \* the sequence in _manifest.json
    published,  \* the sequences that have a file in _manifests/
    manifests,  \* what those files say
    disk,       \* the files at their final paths: who wrote each one's bytes
    intents,    \* the journal: what each intent file lists; {} is no intent
    lock,       \* the transaction that holds _write.lock
    job,        \* its call: the kind and, for a mutation of rows, the fragment
    step,       \* where it is
    base,       \* latest_seq, the sequence it loaded
    wrote,      \* the files it has put at their final paths
    listed,     \* the files it has listed in its intent
    begun,      \* the transactions that have been attempted
    acked,      \* the transactions whose call returned Ok
    floor,      \* the highest cutoff a garbage collection has used
    committed   \* history variable: the manifest each sequence committed with

disks  == <<pointer, published, manifests, disk, intents>>
locals == <<lock, job, step, base, wrote, listed>>
ghosts == <<begun, acked, floor, committed>>
vars   == <<pointer, published, manifests, disk, intents,
            lock, job, step, base, wrote, listed,
            begun, acked, floor, committed>>

Steps == {"idle", "load", "clean", "check", "pre", "stage", "swap", "sync", "unjournal",
          "rollbackFiles", "rollbackIntent",
          "gcSweep", "gcIntents"}

NoJob == [kind |-> "gc", frag |-> Genesis, retain |-> 0]

Init ==
    /\ pointer   = IF Fresh THEN 0 ELSE 1
    /\ published = IF Fresh THEN {} ELSE {1}
    /\ manifests = [n \in Seqs |-> IF n = 1 /\ ~Fresh THEN GenesisManifest
                                                     ELSE EmptyManifest]
    /\ disk      = IF Fresh THEN EmptyManifest.refs ELSE GenesisManifest.refs
    /\ intents   = [t \in Txns |-> {}]
    /\ lock = NoTxn /\ job = NoJob /\ step = "idle"
    /\ base = 0 /\ wrote = {} /\ listed = {}
    /\ begun = {Genesis} /\ acked = {} /\ floor = 0
    /\ committed = manifests

\* Mutant of Current: the manifest before the latest, as if it had been cached.
StaleCurrent == IF base <= 1 THEN EmptyManifest ELSE manifests[base - 1]

\* The manifest the holder loaded; sequence 0 is the empty table.
Current == IF base = 0 THEN EmptyManifest ELSE manifests[base]

NextSeq == base + 1

\* Dropping the lock guard ends the call and forgets its locals.
Release ==
    /\ lock' = NoTxn /\ job' = NoJob /\ step' = "idle"
    /\ base' = 0 /\ wrote' = {} /\ listed' = {}

Goto(s) ==
    /\ step' = s
    /\ UNCHANGED <<lock, job, base, wrote, listed>>

-----------------------------------------------------------------------------
(***************************************************************************)
(* Lock, load, recover.                                                    *)
(***************************************************************************)

\* Bounds: a mutation is explored while its sequence and version are in range.
WithinBounds(g) ==
    /\ pointer < MaxSeq
    /\ pointer # 0 => manifests[pointer].ver[g] < MaxVer

\* A call takes the exclusive lock.  The fragment whose rows a DELETE, UPDATE
\* or MERGE hits was located earlier, without the lock, so it may be any.
Begin(t, k, g, r) ==
    /\ lock = NoTxn
    /\ t \notin begun
    /\ k = "gc" \/ WithinBounds(g)
    /\ lock' = t
    /\ job' = [kind |-> k, frag |-> g, retain |-> r]
    /\ step' = "load"
    /\ begun' = begun \cup {t}
    /\ UNCHANGED <<disks, base, wrote, listed, acked, floor, committed>>

\* The highest published sequence.
Highest(S) == CHOOSE n \in S : \A m \in S : m <= n

\* load_checkpoint_manifest: a pointer of 0 beside published manifests is
\* taken for a malformed one and repaired to the highest of them.
LoadCurrentManifest ==
    /\ step = "load" /\ job.kind \in Mutations
    /\ \/ /\ pointer = 0 /\ published # {}
          /\ pointer' = Highest(published)
          /\ committed' = [committed EXCEPT ![pointer'] = manifests[pointer']]
       \/ /\ pointer # 0 \/ published = {}
          /\ UNCHANGED <<pointer, committed>>
    /\ pointer' # 0 => pointer' \in published
    /\ base' = pointer'
    /\ step' = "clean"
    /\ UNCHANGED <<published, manifests, disk, intents, lock, job, wrote,
                   listed, begun, acked, floor>>

\* The files of an intent that the current manifest does not reference, as long
\* as they are there.
Abandoned(t) ==
    { f \in intents[t] : f \notin Referenced(Current) /\ disk[f] # NoTxn }

\* cleanup_staging, one file of one intent.
CleanFile(t, f) ==
    /\ step = "clean"
    /\ First(f, Abandoned(t))
    /\ disk' = [disk EXCEPT ![f] = NoTxn]
    /\ UNCHANGED <<pointer, published, manifests, intents, locals, ghosts>>

\* Mutant of CleanIntent: the intent itself is left behind.
CleanIntentForgetsIntent(t) ==
    /\ step = "clean"
    /\ intents[t] # {} /\ Abandoned(t) = {}
    /\ UNCHANGED <<disks, locals, ghosts>>

\* cleanup_staging, the intent: deleted once its abandoned files are.
CleanIntent(t) ==
    /\ step = "clean"
    /\ intents[t] # {} /\ Abandoned(t) = {}
    /\ intents' = [intents EXCEPT ![t] = {}]
    /\ UNCHANGED <<pointer, published, manifests, disk, locals, ghosts>>

\* Mutant of CleanManifests: orphan manifests are kept.
CleanManifestsKeepsOrphans ==
    /\ step = "clean"
    /\ \A t \in Txns : intents[t] = {}
    /\ Goto("check")
    /\ UNCHANGED <<disks, ghosts>>

\* cleanup_staging, the end: manifests above the current one are deleted.
CleanManifests ==
    /\ step = "clean"
    /\ \A t \in Txns : intents[t] = {}
    /\ published' = { n \in published : n <= base }
    /\ Goto("check")
    /\ UNCHANGED <<pointer, manifests, disk, intents, ghosts>>

\* The next sequence must be free, else the call fails with SequenceCollision.
CheckSequence ==
    /\ step = "check"
    /\ NextSeq \notin published
    /\ Goto("pre")
    /\ UNCHANGED <<disks, ghosts>>

-----------------------------------------------------------------------------
(***************************************************************************)
(* Journal, stage, publish, swap.                                          *)
(***************************************************************************)

\* The entry points that tombstone rows of an existing fragment.
RowMutations == {"delete", "update", "merge"}

\* The fragment is still there.  One that is not is silently skipped by
\* commit_deletes, commit_update and commit_merge alike.
HitsFragment == job.kind \in RowMutations /\ job.frag \in Fragments(Current)

\* Mutant of DelFiles: every deletion vector is written as version 1.
DelFilesUnversioned ==
    IF HitsFragment THEN { Del(job.frag, 1) } ELSE {}

\* The new deletion vector, one version above the fragment's current one.
DelFiles ==
    IF HitsFragment THEN { Del(job.frag, Current.ver[job.frag] + 1) } ELSE {}

\* Every file the call writes: row group, deletion vector, row-index delta,
\* index generation, snapshot checkpoint.
Planned ==
    {Ckpt(NextSeq)} \cup DelFiles
      \cup (IF job.kind = "delete" THEN {} ELSE {Rg(lock)})
      \cup (IF job.kind \in {"update", "merge"} THEN {RowDelta(NextSeq)} ELSE {})
      \cup (IF job.kind = "delete" /\ ~HitsFragment THEN {} ELSE {Idx(NextSeq)})

\* The files written before the intent: append_reference_row_group writes its
\* .meta, commit_deletes its deletion vectors and tombstones first.
BeforeIntent ==
    CASE job.kind = "reference" -> {Rg(lock)}
      [] job.kind = "delete"    -> Planned \ {Ckpt(NextSeq)}
      [] OTHER                  -> {}

\* What the intent lists when it is first written.
FirstListed ==
    IF job.kind = "delete" THEN Planned \ {Ckpt(NextSeq)}
                           ELSE Planned \ {Ckpt(NextSeq), Idx(NextSeq)}

\* A file reaches its final path: a rename from staging, or a plain write.
\* Index files are written before the intent lists them, all others after.
WriteFile(f) ==
    /\ \/ step = "pre" /\ First(f, BeforeIntent \ wrote)
       \/ /\ step = "stage" /\ First(f, Planned \ (wrote \cap listed))
          /\ f \in listed \/ f[1] = "idx"
          /\ f \notin wrote
    /\ disk' = [disk EXCEPT ![f] = lock]
    /\ wrote' = wrote \cup {f}
    /\ UNCHANGED <<pointer, published, manifests, intents,
                   lock, job, step, base, listed, ghosts>>

WriteIntent ==
    /\ step = "pre"
    /\ BeforeIntent \subseteq wrote
    /\ intents' = [intents EXCEPT ![lock] = FirstListed]
    /\ listed' = FirstListed
    /\ step' = "stage"
    /\ UNCHANGED <<pointer, published, manifests, disk,
                   lock, job, base, wrote, ghosts>>

\* The intent is rewritten in place: after an index file has been written
\* (build_indexes_into_manifest), before a checkpoint is (write_checkpoint).
ListFile(f) ==
    /\ step = "stage" /\ First(f, Planned \ (wrote \cap listed))
    /\ f \notin listed
    /\ f \in wrote \/ f[1] = "ckpt"
    /\ intents' = [intents EXCEPT ![lock] = @ \cup {f}]
    /\ listed' = listed \cup {f}
    /\ UNCHANGED <<pointer, published, manifests, disk,
                   lock, job, step, base, wrote, ghosts>>

\* What the new manifest keeps of the current one.  A replace keeps nothing.
\* The insert paths build it with ..Default::default(), which drops the
\* row-index generation; reference and MERGE rebuild the indexes in full.
Kept(f) ==
    /\ job.kind # "replace"
    /\ f[1] # "ckpt"
    /\ f[1] = "del" /\ HitsFragment => f[2] # job.frag
    /\ f[1] = "rowdelta" => job.kind \in RowMutations
    /\ f[1] = "idx" => job.kind \notin {"reference", "merge"}

NewManifest ==
    [refs |-> [f \in File |-> IF f \in Planned THEN lock
                              ELSE IF Kept(f) THEN Current.refs[f] ELSE NoTxn],
     ver  |-> IF HitsFragment
              THEN [Current.ver EXCEPT ![job.frag] = @ + 1] ELSE Current.ver,
     hist |-> Append(Current.hist, lock)]

\* The manifest is renamed into _manifests/ once every file is in place.
PublishManifest ==
    /\ step = "stage"
    /\ Planned \subseteq wrote \cap listed
    /\ manifests' = [manifests EXCEPT ![NextSeq] = NewManifest]
    /\ published' = published \cup {NextSeq}
    /\ Goto("swap")
    /\ UNCHANGED <<pointer, disk, intents, ghosts>>

\* Mutant of SwapPointer: the new manifest is renamed over the one it replaces.
SwapPointerOver ==
    /\ step = "swap"
    /\ pointer' = NextSeq
    /\ manifests' = [n \in Seqs |-> IF n = base THEN manifests[NextSeq] ELSE manifests[n]]
    /\ committed' = [committed EXCEPT ![NextSeq] = manifests[NextSeq]]
    /\ Goto("sync")
    /\ UNCHANGED <<published, disk, intents, begun, acked, floor>>

\* The pointer is renamed into place: from here on the commit is visible.
SwapPointer ==
    /\ step = "swap"
    /\ pointer' = NextSeq
    /\ committed' = [committed EXCEPT ![NextSeq] = manifests[NextSeq]]
    /\ Goto("sync")
    /\ UNCHANGED <<published, manifests, disk, intents, begun, acked, floor>>

\* The directory sync succeeds, the call will return Ok.
SyncRoot ==
    /\ step = "sync"
    /\ Goto("unjournal")
    /\ UNCHANGED <<disks, ghosts>>

\* The intent is deleted, best effort, and the call returns Ok.
DeleteIntent ==
    /\ step = "unjournal"
    /\ \/ intents' = [intents EXCEPT ![lock] = {}]
       \/ UNCHANGED intents
    /\ acked' = acked \cup {lock}
    /\ Release
    /\ UNCHANGED <<pointer, published, manifests, disk, begun, floor, committed>>

-----------------------------------------------------------------------------
(***************************************************************************)
(* Errors, rollback and crashes.                                           *)
(***************************************************************************)
BeforeSwap == {"load", "clean", "check", "pre", "stage", "swap"}

\* Mutant of Fail: the error is swallowed and Ok returned.
FailSwallowed ==
    /\ step \in BeforeSwap
    /\ Release
    /\ acked' = acked \cup {lock}
    /\ UNCHANGED <<disks, begun, floor, committed>>

\* A storage call fails before the swap.  commit, replace and insert_parquet
\* roll back under the lock; the others just return, leaving everything to
\* the next writer's cleanup_staging.
Fail ==
    /\ step \in BeforeSwap
    /\ IF job.kind \in RollsBack /\ step \in {"pre", "stage", "swap"}
       THEN Goto("rollbackFiles") ELSE Release
    /\ UNCHANGED <<disks, ghosts>>

\* rollback_commit deletes, ignoring every error, first the staged files one by
\* one (index files are not among them),
StagedFiles == { f \in wrote : f[1] # "idx" }

RollbackFile(f) ==
    /\ step = "rollbackFiles"
    /\ First(f, StagedFiles)
    /\ disk' \in {disk, [disk EXCEPT ![f] = NoTxn]}
    /\ wrote' = wrote \ {f}
    /\ UNCHANGED <<pointer, published, manifests, intents,
                   lock, job, step, base, listed, ghosts>>

\* then the manifest; try_commit_parquet_fast never sets rollback.sequence, so
\* insert_parquet leaves its manifest behind,
RollbackManifest ==
    /\ step = "rollbackFiles"
    /\ StagedFiles = {}
    /\ \/ job.kind # "parquet" /\ published' = published \ {NextSeq}
       \/ UNCHANGED published
    /\ Goto("rollbackIntent")
    /\ UNCHANGED <<pointer, manifests, disk, intents, ghosts>>

\* then the intent.
RollbackIntent ==
    /\ step = "rollbackIntent"
    /\ \/ intents' = [intents EXCEPT ![lock] = {}]
       \/ UNCHANGED intents
    /\ Release
    /\ UNCHANGED <<pointer, published, manifests, disk, ghosts>>

\* The directory sync after the swap fails: the call returns an error for a
\* commit that is visible.  rollback_commit then removes only the intent.
SyncFails ==
    /\ step = "sync"
    /\ intents' = IF job.kind \in RollsBack
                  THEN [intents EXCEPT ![lock] = {}] ELSE intents
    /\ Release
    /\ UNCHANGED <<pointer, published, manifests, disk, ghosts>>

\* The process dies; the kernel drops its flock.  An intent that was being
\* rewritten in place may be left torn: unparseable, hence listing nothing.
Crash ==
    /\ lock # NoTxn
    /\ \/ UNCHANGED intents
       \/ step = "stage" /\ intents' = [intents EXCEPT ![lock] = {}]
    /\ Release
    /\ UNCHANGED <<pointer, published, manifests, disk, ghosts>>

-----------------------------------------------------------------------------
(***************************************************************************)
(* Garbage collection (gc.rs), under the same lock.                        *)
(***************************************************************************)

\* Snapshots below the cutoff are given up; 0 retains them all.
Cutoff(n, r) == IF r = 0 \/ n < r THEN 0 ELSE n - (r - 1)

\* load_valid_snapshots and resolve_current_sequence, which repairs a pointer
\* that names no snapshot; base is the cutoff's reference sequence.
GcLoad ==
    /\ step = "load" /\ job.kind = "gc"
    /\ IF published = {}
       THEN Release /\ UNCHANGED <<pointer, floor, committed>>
       ELSE /\ pointer' = IF pointer \in published THEN pointer
                                                   ELSE Highest(published)
            /\ committed' = [committed EXCEPT ![pointer'] = manifests[pointer']]
            /\ floor' = LET c == Cutoff(pointer', job.retain)
                        IN  IF c > floor THEN c ELSE floor
            /\ base' = pointer'
            /\ step' = "gcSweep"
            /\ UNCHANGED <<lock, job, wrote, listed>>
    /\ UNCHANGED <<published, manifests, disk, intents, begun, acked>>

\* Mutant of Retained: only the current snapshot is considered.
RetainedCurrentOnly == {base}

\* The snapshots this collection retains.
Retained == { n \in published : n >= Cutoff(base, job.retain) \/ n = base }

\* The files on disk that no retained snapshot references.
Garbage == { f \in File : /\ disk[f] # NoTxn
                          /\ \A n \in Retained : f \notin Referenced(manifests[n]) }

\* They are deleted one by one, the index generations last of all.
GcDelete(f) ==
    /\ step = "gcSweep"
    /\ f \in Garbage
    /\ \A g \in Garbage : f[1] # "idx" /\ g[1] # "idx" => Rank(f) <= Rank(g)
    /\ f[1] = "idx" => \A g \in Garbage : g[1] = "idx"
    /\ disk' = [disk EXCEPT ![f] = NoTxn]
    /\ UNCHANGED <<pointer, published, manifests, intents, locals, ghosts>>

GcSwept ==
    /\ step = "gcSweep"
    /\ Garbage = {}
    /\ Goto("gcIntents")
    /\ UNCHANGED <<disks, ghosts>>

\* Every intent is deleted, whatever it lists,
GcIntent(t) ==
    /\ step = "gcIntents"
    /\ intents[t] # {}
    /\ intents' = [intents EXCEPT ![t] = {}]
    /\ UNCHANGED <<pointer, published, manifests, disk, locals, ghosts>>

\* then every manifest below the cutoff.
GcManifest(n) ==
    /\ step = "gcIntents"
    /\ \A t \in Txns : intents[t] = {}
    /\ n \in published /\ n < Cutoff(base, job.retain)
    /\ published' = published \ {n}
    /\ UNCHANGED <<pointer, manifests, disk, intents, locals, ghosts>>

GcReturn ==
    /\ step = "gcIntents"
    /\ \A t \in Txns : intents[t] = {}
    /\ \A n \in published : n >= Cutoff(base, job.retain)
    /\ Release
    /\ UNCHANGED <<disks, ghosts>>

-----------------------------------------------------------------------------
Holder ==
    \/ LoadCurrentManifest \/ CleanManifests \/ CheckSequence
    \/ WriteIntent \/ PublishManifest \/ SwapPointer \/ SyncRoot \/ DeleteIntent
    \/ RollbackManifest \/ RollbackIntent \/ GcLoad \/ GcSwept \/ GcReturn
    \/ \E t \in Txns : CleanIntent(t) \/ GcIntent(t)
    \/ \E t \in Txns : \E f \in File : CleanFile(t, f)
    \/ \E f \in File : WriteFile(f) \/ ListFile(f) \/ RollbackFile(f) \/ GcDelete(f)
    \/ \E n \in Seqs : GcManifest(n)

Next ==
    \/ \E t \in Txns, k \in RowMutations, g \in begun : Begin(t, k, g, 0)
    \/ \E t \in Txns, k \in Mutations \ RowMutations : Begin(t, k, Genesis, 0)
    \/ \E t \in Txns, r \in Retains : Begin(t, "gc", Genesis, r)
    \/ Holder
    \/ Fail \/ SyncFails \/ Crash

Spec == Init /\ [][Next]_vars

\* The lock holder keeps running until its call returns or its process dies.
FairSpec == Spec /\ WF_vars(Holder)

-----------------------------------------------------------------------------
(***************************************************************************)
(* Properties.                                                             *)
(***************************************************************************)

\* The variables hold what the code's types allow, and base, wrote and listed
\* are only non-trivial while a call holds the lock.
TypeOK ==
    /\ pointer \in 0 .. MaxSeq
    /\ published \subseteq Seqs
    /\ manifests \in [Seqs -> Manifest]
    /\ disk \in Contents
    /\ intents \in [Txns -> SUBSET File]
    /\ lock \in Txns \cup {NoTxn}
    /\ job \in [kind : Kinds, frag : Txns, retain : Nat]
    /\ step \in Steps
    /\ base \in 0 .. MaxSeq
    /\ wrote \subseteq File /\ listed \subseteq File
    /\ begun \subseteq Txns /\ acked \subseteq Txns
    /\ floor \in Nat
    /\ committed \in [Seqs -> Manifest]

\* Every file a manifest references is on disk with the bytes it was committed
\* with.  (A missing snapshot checkpoint only makes readers fall back.)
Intact(m) == \A f \in File : m.refs[f] # NoTxn => disk[f] = m.refs[f]

\* Whatever fails or crashes when, the snapshot the pointer names exists and
\* every file it references is intact: the next open always succeeds.
LiveSnapshotIntact ==
    pointer # 0 => pointer \in published /\ Intact(manifests[pointer])

\* So is every older snapshot that no garbage collection has given up: neither
\* cleanup_staging, which looks only at the current manifest, nor a rollback
\* may delete or overwrite a file of a snapshot still kept for time travel.
RetainedSnapshotsIntact ==
    \A n \in published : floor <= n /\ n <= pointer => Intact(manifests[n])

\* A name that a committed manifest references never carries other bytes: a
\* lock-free reader holding an old manifest finds its files or an error, never
\* someone else's deletion vector or index generation under the same name.
CommittedBytesNeverReplaced ==
    \A n \in Seqs : \A f \in File :
        committed[n].refs[f] # NoTxn => disk[f] \in {NoTxn, committed[n].refs[f]}

\* A call that returned Ok stays in the current snapshot's history.
AckedIsVisible ==
    acked \subseteq IF pointer = 0 THEN {} ELSE Range(manifests[pointer].hist)

\* After cleanup_staging the next sequence is free: SequenceCollision cannot
\* happen, so a crashed predecessor never blocks the table's writers.
NextSequenceIsFree ==
    step \in {"check", "pre", "stage"} => \A n \in published : n <= base

\* The pointer never goes back and no manifest at or below it is ever rewritten:
\* what a lock-free reader loaded once it can load again, or it is collected.
CommittedIsForever ==
    [][ /\ pointer' >= pointer
        /\ \A n \in published' : n <= pointer =>
              n \in published /\ manifests'[n] = manifests[n] ]_vars

\* The table is an atomic history of transactions (AtomicTable), read off the
\* manifest the pointer names.
History == IF pointer = 0 THEN <<>> ELSE manifests[pointer].hist

Atomic == INSTANCE AtomicTable
             WITH Initial <- IF Fresh THEN <<>> ELSE <<Genesis>>,
                  history <- History

RefinesAtomicTable == Atomic!ASpec

\* A lock that is taken is given back: no step of the protocol, no recovery
\* and no garbage collection can get stuck on what a predecessor left behind.
LockIsReleased == \A t \in Txns : lock = t ~> lock # t

-----------------------------------------------------------------------------
(***************************************************************************)
(* The inductive invariant behind the properties above, for a table that   *)
(* has a first snapshot; CommitProtocolProofs shows that it is one.        *)
(***************************************************************************)

\* The holder is past its swap; it is before it and has its plan fixed.
Swapped  == step \in {"sync", "unjournal"}
Planning == step \in {"check", "pre", "stage", "swap", "rollbackFiles"}

\* Where the holder is in its call agrees with what it loaded and with the kind
\* of call it is; what it will write is within the bounds until it swaps.
ControlOK ==
    /\ lock = NoTxn <=> step = "idle"
    /\ lock # NoTxn => lock \in begun
    /\ step = "idle" => wrote = {} /\ listed = {}
    /\ step \in {"load", "clean", "check"} => wrote = {} /\ listed = {}
    /\ step \in {"gcSweep", "gcIntents"} => job.kind = "gc"
    /\ step \in BeforeSwap \cup {"rollbackFiles"} /\ step # "load" => job.kind \in Mutations
    /\ step \notin {"idle", "load"} =>
          base = IF Swapped THEN pointer - 1 ELSE pointer
    /\ step \in BeforeSwap \cup {"rollbackFiles"} /\ job.kind \in Mutations =>
          WithinBounds(job.frag)

\* There is a current snapshot, above it at most one orphan manifest, and none
\* between cleanup_staging and the holder's own.
ManifestsOK ==
    /\ pointer \in published
    /\ \A n \in published : n <= pointer + 1
    /\ floor <= pointer
    /\ step \in {"check", "pre", "stage"} => \A n \in published : n <= base
    /\ step = "swap" => NextSeq \in published /\ manifests[NextSeq] = NewManifest
    /\ step \in {"gcSweep", "gcIntents"} => Cutoff(base, job.retain) <= floor
    /\ \A n \in Seqs : committed[n] = IF n <= pointer THEN manifests[n]
                                                      ELSE EmptyManifest

\* The holder has written nothing but its plan, and all of it when it swaps.
StagingOK ==
    /\ Planning => wrote \subseteq Planned /\ listed \subseteq Planned
    /\ step \in {"pre", "stage", "swap"} => \A f \in wrote : disk[f] = lock
    /\ step = "swap" => Planned \subseteq wrote

\* The transaction has had its turn: its row group may be in a snapshot.
Settled(t) == t \in begun /\ (t = lock => Swapped)

\* A name that snapshots up to the current one may use.  The files the holder
\* plans to write have none of these names.
OldName(f) ==
    /\ f[1] = "rg"  => Settled(f[2])
    /\ f[1] = "del" => f[3] <= manifests[pointer].ver[f[2]]
    /\ f[1] \in {"rowdelta", "idx", "ckpt"} => f[2] <= pointer

NamesOK ==
    \A n \in Seqs : n <= pointer =>
        /\ \A f \in Referenced(manifests[n]) : OldName(f)
        /\ \A t \in Range(manifests[n].hist) : Settled(t)

\* Intents left behind list nothing that an older snapshot uses and the current
\* one does not; once cleaned up, there is only the holder's own intent.
JournalOK ==
    /\ Planning \/ Swapped => \A t \in Txns \ {lock} : intents[t] = {}
    /\ Planning => intents[lock] \subseteq listed
    /\ \A t \in Txns : \A f \in intents[t] : \A n \in Seqs :
          n <= pointer /\ f \in Referenced(manifests[n])
             => f \in Referenced(manifests[pointer])

\* What has been acknowledged, and what will be next, is in the current snapshot.
AckOK ==
    /\ AckedIsVisible
    /\ Swapped => lock \in Range(manifests[pointer].hist)

\* The inductive invariant.
IInv ==
    /\ TypeOK /\ ControlOK /\ ManifestsOK /\ StagingOK /\ NamesOK
    /\ JournalOK /\ RetainedSnapshotsIntact /\ CommittedBytesNeverReplaced /\ AckOK

=============================================================================
