----------------------- MODULE CommitProtocolProofs ------------------------
(***************************************************************************)
(* Proofs about CommitProtocol, for a table that has a first snapshot      *)
(* (Fresh = FALSE), every set of transactions and every bound.             *)
(***************************************************************************)
EXTENDS CommitProtocol, TLAPS

-----------------------------------------------------------------------------
(***************************************************************************)
(* What the operators of the model return.                                 *)
(***************************************************************************)

\* The manifest the holder loaded is a manifest.
LEMMA CurrentTyped ==
    ASSUME TypeOK, base # 0
    PROVE  Current = manifests[base] /\ Current \in Manifest /\ base \in Seqs
BY BoundsAssumption DEF TypeOK, Current, Seqs

\* Until it swaps, what the holder plans to write are files within the bounds.
LEMMA PlannedTyped ==
    ASSUME TypeOK, ControlOK, ManifestsOK, Planning
    PROVE  /\ Planned \subseteq File
           /\ base = pointer /\ NextSeq \in Seqs /\ lock \in Txns
           /\ job.frag \in Txns /\ Current = manifests[pointer]
           /\ Current \in Manifest /\ Current.ver[job.frag] + 1 \in Vers
<1>1. base = pointer /\ pointer \in Seqs /\ pointer < MaxSeq /\ job.kind \in Mutations
  BY BoundsAssumption DEF TypeOK, ControlOK, ManifestsOK, Planning, BeforeSwap, WithinBounds, Swapped, Seqs
<1>2. NextSeq \in Seqs
  BY <1>1, BoundsAssumption DEF NextSeq, Seqs
<1>3. lock \in Txns /\ job.frag \in Txns
  BY DEF TypeOK, ControlOK, Planning
<1>4. Current = manifests[pointer] /\ Current \in Manifest
  BY <1>1, CurrentTyped, BoundsAssumption DEF Seqs
<1>5. Current.ver[job.frag] < MaxVer
  BY <1>1, <1>4, BoundsAssumption DEF ControlOK, Planning, BeforeSwap, WithinBounds, Seqs
<1>6. Current.ver[job.frag] + 1 \in Vers
  BY <1>3, <1>4, <1>5, BoundsAssumption DEF Manifest, Vers
<1>7. DelFiles \subseteq File
  BY <1>3, <1>6 DEF DelFiles, File
<1>8. Planned \subseteq File
  BY <1>2, <1>3, <1>7 DEF Planned, File
<1> QED BY <1>1, <1>2, <1>3, <1>4, <1>6, <1>8

\* No file it plans to write has a name an existing snapshot may use.
LEMMA PlannedIsNew ==
    ASSUME TypeOK, ControlOK, ManifestsOK, Planning,
           NEW f \in Planned
    PROVE  ~OldName(f)
<1>1. /\ base = pointer /\ pointer \in Nat /\ lock \in Txns /\ job.frag \in Txns
      /\ Current = manifests[pointer] /\ Current \in Manifest
  BY PlannedTyped DEF TypeOK
<1>2. CASE f \in DelFiles
  <2>1. f = Del(job.frag, Current.ver[job.frag] + 1)
    BY <1>2 DEF DelFiles
  <2>2. f[1] = "del" /\ f[2] = job.frag /\ f[3] = Current.ver[job.frag] + 1
    BY <2>1 DEF Del
  <2>3. Current.ver[job.frag] \in Nat
    BY <1>1, BoundsAssumption DEF Manifest, Vers
  <2> QED BY <1>1, <2>2, <2>3 DEF OldName
<1>3. CASE f = Rg(lock)
  <2>1. f[1] = "rg" /\ f[2] = lock
    BY <1>3 DEF Rg
  <2> QED BY <2>1 DEF OldName, Settled, Planning, Swapped
<1>4. CASE f \in {Ckpt(NextSeq), Idx(NextSeq), RowDelta(NextSeq)}
  <2>1. f[1] \in {"rowdelta", "idx", "ckpt"} /\ f[2] = NextSeq
    BY <1>4 DEF Ckpt, Idx, RowDelta
  <2> QED BY <1>1, <2>1 DEF OldName, NextSeq
<1> QED BY <1>2, <1>3, <1>4 DEF Planned

\* So no existing snapshot references it.
LEMMA PlannedNotReferenced ==
    ASSUME TypeOK, ControlOK, ManifestsOK, NamesOK, Planning,
           NEW n \in Seqs, n <= pointer, NEW f \in Planned
    PROVE  f \in File /\ f \notin Referenced(manifests[n]) /\ manifests[n].refs[f] = NoTxn
BY PlannedTyped, PlannedIsNew DEF NamesOK, Referenced

\* The new manifest is one.
LEMMA NewManifestTyped ==
    ASSUME TypeOK, ControlOK, ManifestsOK, Planning
    PROVE  NewManifest \in Manifest
<1>1. /\ lock \in Txns /\ job.frag \in Txns
      /\ Current \in Manifest /\ Current.ver[job.frag] + 1 \in Vers
  BY PlannedTyped
<1>2. Current.refs \in Contents /\ Current.ver \in [Txns -> Vers] /\ Current.hist \in Seq(Txns)
  BY <1>1 DEF Manifest
<1>3. NewManifest.refs \in Contents
  BY <1>1, <1>2 DEF NewManifest, Contents
<1>4. NewManifest.ver \in [Txns -> Vers]
  BY <1>1, <1>2 DEF NewManifest
<1>5. NewManifest.hist \in Seq(Txns)
  BY <1>1, <1>2 DEF NewManifest
<1> QED BY <1>3, <1>4, <1>5 DEF NewManifest, Manifest

\* Appending a transaction adds it to the range, and nothing else.
LEMMA RangeAppend ==
    ASSUME NEW s \in Seq(Txns), NEW t \in Txns
    PROVE  Range(Append(s, t)) = Range(s) \cup {t}
<1>1. DOMAIN Append(s, t) = 1 .. Len(s) + 1 /\ DOMAIN s = 1 .. Len(s) /\ Len(s) \in Nat
  OBVIOUS
<1>2. \A i \in 1 .. Len(s) + 1 : Append(s, t)[i] = IF i <= Len(s) THEN s[i] ELSE t
  OBVIOUS
<1> QED BY <1>1, <1>2 DEF Range

\* A step that leaves the holder's plan and the manifests alone changes neither
\* what it will write nor what it will publish.
LEMMA PlannedFrame ==
    ASSUME UNCHANGED <<manifests, lock, job, base>>
    PROVE  Planned' = Planned /\ NewManifest' = NewManifest /\ NextSeq' = NextSeq
<1>1. Current' = Current /\ NextSeq' = NextSeq
  BY DEF Current, NextSeq
<1>2. HitsFragment' = HitsFragment
  BY <1>1, Zenon DEF HitsFragment
<1>3. DelFiles' = DelFiles
  BY <1>1, <1>2, Zenon DEF DelFiles
<1>4. Planned' = Planned
  BY <1>1, <1>2, <1>3, Zenon DEF Planned
<1> QED BY <1>1, <1>2, <1>4, Zenon DEF NewManifest, Kept

\* What is written before the intent is part of the plan.
LEMMA BeforeIntentPlanned == BeforeIntent \subseteq Planned
<1>1. CASE job.kind = "reference"
  BY <1>1 DEF BeforeIntent, Planned
<1>2. CASE job.kind = "delete"
  BY <1>2 DEF BeforeIntent
<1>3. CASE job.kind \notin {"reference", "delete"}
  BY <1>3 DEF BeforeIntent
<1> QED BY <1>1, <1>2, <1>3

\* Names stay old while the pointer does not move and no transaction unsettles.
LEMMA NamesFrame ==
    ASSUME NamesOK, UNCHANGED <<pointer, manifests>>, \A u : Settled(u) => Settled(u)'
    PROVE  NamesOK'
BY DEF NamesOK, OldName, Referenced

\* Changing one file that no retained snapshot references leaves them intact.
LEMMA DiskChange ==
    ASSUME RetainedSnapshotsIntact, UNCHANGED <<pointer, published, manifests, floor>>,
           NEW f, \A x \in File : disk'[x] = disk[x] \/ x = f,
           published \subseteq Seqs,
           \A n \in published : floor <= n /\ n <= pointer => f \notin Referenced(manifests[n])
    PROVE  RetainedSnapshotsIntact'
BY DEF RetainedSnapshotsIntact, Intact, Referenced

\* What a step that leaves the snapshots alone preserves: it moves neither the
\* pointer nor a file, and unsettles no transaction.
LEMMA SnapshotsFrame ==
    ASSUME IInv, UNCHANGED <<pointer, manifests, disk, floor, committed, acked>>,
           published' \subseteq published,
           \A u : Settled(u) => Settled(u)',
           Swapped' => Swapped /\ lock' = lock
    PROVE  /\ NamesOK' /\ RetainedSnapshotsIntact'
           /\ CommittedBytesNeverReplaced' /\ AckOK'
<1>1. NamesOK'
  BY NamesFrame DEF IInv
<1>2. RetainedSnapshotsIntact'
  BY DEF IInv, RetainedSnapshotsIntact, Intact
<1>3. CommittedBytesNeverReplaced'
  BY DEF IInv, CommittedBytesNeverReplaced
<1>4. AckOK'
  BY DEF IInv, AckOK, AckedIsVisible
<1> QED BY <1>1, <1>2, <1>3, <1>4

\* The same for a step that changes one file, which no retained snapshot
\* references, and which it deletes unless no snapshot ever referenced it.
LEMMA FileFrame ==
    ASSUME IInv, UNCHANGED <<pointer, published, manifests, floor, committed, acked>>,
           NEW f \in File, \A x \in File : disk'[x] = disk[x] \/ x = f,
           \A n \in published : floor <= n /\ n <= pointer => f \notin Referenced(manifests[n]),
           \/ disk'[f] \in {NoTxn, disk[f]}
           \/ \A n \in Seqs : committed[n].refs[f] = NoTxn,
           UNCHANGED <<begun, lock>>, UNCHANGED step
    PROVE  /\ NamesOK' /\ RetainedSnapshotsIntact'
           /\ CommittedBytesNeverReplaced' /\ AckOK'
<1>1. NamesOK'
  BY NamesFrame DEF IInv, Settled, Swapped
<1>2. RetainedSnapshotsIntact'
  BY DiskChange DEF IInv, TypeOK
<1>3. CommittedBytesNeverReplaced'
  BY DEF IInv, CommittedBytesNeverReplaced
<1>4. AckOK'
  BY DEF IInv, AckOK, AckedIsVisible, Swapped
<1> QED BY <1>1, <1>2, <1>3, <1>4

\* Manifests stay as they are when some of them, not the current, are deleted.
LEMMA ManifestsFrame ==
    ASSUME ManifestsOK, UNCHANGED <<pointer, manifests, committed, floor>>,
           published' \subseteq published, pointer \in published',
           step' # "swap",
           step' \in {"check", "pre", "stage"} => \A n \in published' : n <= base',
           step' \in {"gcSweep", "gcIntents"} => Cutoff(base', job'.retain) <= floor
    PROVE  ManifestsOK'
BY DEF ManifestsOK, EmptyManifest

\* Outside the planning steps nothing is said of what has been staged.
LEMMA StagingFrame ==
    ASSUME step' \notin {"check", "pre", "stage", "swap", "rollbackFiles"}
    PROVE  StagingOK'
BY DEF StagingOK, Planning

\* Intents that shrink stay harmless.
LEMMA JournalFrame ==
    ASSUME JournalOK, UNCHANGED <<pointer, manifests>>,
           \A t \in Txns : intents'[t] \subseteq intents[t],
           Planning' \/ Swapped' => (Planning \/ Swapped) /\ lock' = lock,
           Planning' => Planning /\ listed' = listed /\ lock' \in Txns
    PROVE  JournalOK'
BY DEF JournalOK, Referenced

\* Dropping the lock, whatever is left in the journal, is always safe.
LEMMA ReleaseKeeps ==
    ASSUME IInv, Release, UNCHANGED <<pointer, published, manifests, disk, begun, floor, committed>>,
           intents' \in [Txns -> SUBSET File],
           \A t \in Txns : intents'[t] \subseteq intents[t],
           acked' \subseteq acked \cup (IF Swapped THEN {lock} ELSE {})
    PROVE  IInv'
<1>a. step' = "idle" /\ lock' = NoTxn /\ base' = 0 /\ wrote' = {} /\ listed' = {} /\ job' = NoJob
  BY DEF Release
<1>b. ~Planning' /\ ~Swapped'
  BY <1>a DEF Planning, Swapped
<1>c. acked' \subseteq Txns
  BY DEF IInv, TypeOK, ControlOK, Swapped
<1>1. TypeOK'
  BY <1>a, <1>c, GenesisAssumption, BoundsAssumption DEF IInv, TypeOK, NoJob, Kinds, Steps
<1>2. ControlOK'
  BY <1>a DEF ControlOK, BeforeSwap
<1>3. ManifestsOK'
  BY <1>a, ManifestsFrame DEF IInv, ManifestsOK
<1>4. StagingOK'
  BY <1>a, StagingFrame
<1>5. JournalOK'
  BY <1>b, JournalFrame DEF IInv
<1>6. \A u : Settled(u) => Settled(u)'
  BY <1>a, NoTxnAssumption DEF IInv, TypeOK, Settled
<1>7. NamesOK'
  BY <1>6, NamesFrame DEF IInv
<1>8. RetainedSnapshotsIntact' /\ CommittedBytesNeverReplaced'
  BY DEF IInv, RetainedSnapshotsIntact, CommittedBytesNeverReplaced, Intact
<1>9. AckOK'
  <2>1. acked' \subseteq Range(manifests[pointer].hist) /\ pointer # 0
    BY DEF IInv, TypeOK, ManifestsOK, AckOK, AckedIsVisible, Seqs
  <2> QED BY <1>b, <2>1 DEF AckOK, AckedIsVisible
<1> QED BY <1>1, <1>2, <1>3, <1>4, <1>5, <1>7, <1>8, <1>9 DEF IInv

-----------------------------------------------------------------------------
(***************************************************************************)
(* Every action preserves the inductive invariant.                         *)
(***************************************************************************)

\* Taking the lock.
LEMMA BeginStep ==
    ASSUME IInv, NEW t \in Txns, NEW k \in Kinds, NEW g \in Txns, NEW r \in Nat, Begin(t, k, g, r)
    PROVE  IInv'
<1>a. /\ step = "idle" /\ step' = "load" /\ lock = NoTxn /\ lock' = t /\ t \notin begun
      /\ job' = [kind |-> k, frag |-> g, retain |-> r] /\ (k = "gc" \/ WithinBounds(g))
      /\ begun' = begun \cup {t} /\ wrote = {} /\ listed = {}
      /\ UNCHANGED <<pointer, published, manifests, disk, intents, base, wrote, listed,
                     acked, floor, committed>>
  BY DEF IInv, ControlOK, Begin, disks
<1>1. TypeOK'
  BY <1>a DEF IInv, TypeOK, Steps
<1>2. ControlOK'
  BY <1>a, NoTxnAssumption DEF ControlOK, BeforeSwap, WithinBounds, Mutations
<1>3. ManifestsOK'
  BY <1>a, ManifestsFrame DEF IInv, ManifestsOK
<1>4. StagingOK'
  BY <1>a, StagingFrame
<1>5. JournalOK'
  BY <1>a, JournalFrame DEF IInv, Planning, Swapped
<1>6. \A u : Settled(u) => Settled(u)'
  BY <1>a DEF Settled
<1>7. NamesOK' /\ RetainedSnapshotsIntact' /\ CommittedBytesNeverReplaced' /\ AckOK'
  BY <1>a, <1>6, SnapshotsFrame DEF Swapped
<1> QED BY <1>1, <1>2, <1>3, <1>4, <1>5, <1>7, Zenon DEF IInv

\* Loading the manifest: the pointer names a snapshot, so nothing is repaired.
LEMMA LoadCurrentManifestStep ==
    ASSUME IInv, LoadCurrentManifest
    PROVE  IInv'
<1>a. pointer # 0 /\ pointer \in published
  BY DEF IInv, TypeOK, ManifestsOK, Seqs
<1>b. /\ step = "load" /\ step' = "clean" /\ base' = pointer /\ job.kind \in Mutations
      /\ UNCHANGED <<pointer, committed, published, manifests, disk, intents, lock, job,
                     wrote, listed, begun, acked, floor>>
  BY <1>a DEF LoadCurrentManifest
<1>1. TypeOK'
  BY <1>b DEF IInv, TypeOK, Steps
<1>2. ControlOK'
  BY <1>b DEF IInv, ControlOK, BeforeSwap, WithinBounds, Swapped
<1>3. ManifestsOK'
  BY <1>a, <1>b, ManifestsFrame DEF IInv
<1>4. StagingOK'
  BY <1>b, StagingFrame
<1>5. JournalOK'
  BY <1>b, JournalFrame DEF IInv, Planning, Swapped
<1>6. \A u : Settled(u) => Settled(u)'
  BY <1>b DEF Settled, Swapped
<1>7. NamesOK' /\ RetainedSnapshotsIntact' /\ CommittedBytesNeverReplaced' /\ AckOK'
  BY <1>b, <1>6, SnapshotsFrame DEF Swapped
<1> QED BY <1>1, <1>2, <1>3, <1>4, <1>5, <1>7 DEF IInv

\* Deleting an abandoned file: no retained snapshot references it (JournalOK).
LEMMA CleanFileStep ==
    ASSUME IInv, NEW t \in Txns, NEW f \in File, CleanFile(t, f)
    PROVE  IInv'
<1>a. /\ step = "clean" /\ f \in intents[t] /\ f \notin Referenced(Current)
      /\ disk' = [disk EXCEPT ![f] = NoTxn]
      /\ UNCHANGED <<pointer, published, manifests, intents, lock, job, step, base, wrote,
                     listed, begun, acked, floor, committed>>
  BY DEF CleanFile, First, Abandoned, locals, ghosts
<1>b. Current = manifests[pointer]
  BY <1>a DEF IInv, TypeOK, ControlOK, ManifestsOK, Current, Swapped, Seqs
<1>c. \A n \in Seqs : n <= pointer => f \notin Referenced(manifests[n])
  BY <1>a, <1>b DEF IInv, JournalOK
<1>d. \A x \in File : disk'[x] = IF x = f THEN NoTxn ELSE disk[x]
  BY <1>a DEF IInv, TypeOK, Contents
<1>1. TypeOK'
  BY <1>a, Zenon DEF IInv, TypeOK, Contents
<1>2. ControlOK'
  BY <1>a, Zenon DEF IInv, ControlOK, WithinBounds, Swapped
<1>3. ManifestsOK'
  BY <1>a, ManifestsFrame DEF IInv, ManifestsOK
<1>4. StagingOK'
  BY <1>a, StagingFrame, Zenon
<1>5. JournalOK'
  BY <1>a, JournalFrame, Zenon DEF IInv, Planning, Swapped
<1>6. NamesOK' /\ RetainedSnapshotsIntact' /\ CommittedBytesNeverReplaced' /\ AckOK'
  BY <1>a, <1>c, <1>d, FileFrame DEF IInv, TypeOK
<1> QED BY <1>1, <1>2, <1>3, <1>4, <1>5, <1>6 DEF IInv

\* Deleting an intent.
LEMMA CleanIntentStep ==
    ASSUME IInv, NEW t \in Txns, CleanIntent(t)
    PROVE  IInv'
<1>a. /\ step = "clean" /\ intents' = [intents EXCEPT ![t] = {}]
      /\ UNCHANGED <<pointer, published, manifests, disk, lock, job, step, base, wrote,
                     listed, begun, acked, floor, committed>>
  BY DEF CleanIntent, locals, ghosts
<1>1. TypeOK'
  BY <1>a DEF IInv, TypeOK
<1>2. ControlOK'
  BY <1>a, Zenon DEF IInv, ControlOK, WithinBounds, Swapped
<1>3. ManifestsOK'
  BY <1>a, ManifestsFrame DEF IInv, ManifestsOK
<1>4. StagingOK'
  BY <1>a, StagingFrame
<1>5. JournalOK'
  BY <1>a, JournalFrame DEF IInv, TypeOK, Planning, Swapped
<1>6. NamesOK' /\ RetainedSnapshotsIntact' /\ CommittedBytesNeverReplaced' /\ AckOK'
  BY <1>a, SnapshotsFrame DEF Settled, Swapped
<1> QED BY <1>1, <1>2, <1>3, <1>4, <1>5, <1>6 DEF IInv

\* Deleting the orphan manifests.
LEMMA CleanManifestsStep ==
    ASSUME IInv, CleanManifests
    PROVE  IInv'
<1>a. /\ step = "clean" /\ step' = "check" /\ \A u \in Txns : intents[u] = {}
      /\ published' = { n \in published : n <= base }
      /\ UNCHANGED <<pointer, manifests, disk, intents, lock, job, base, wrote,
                     listed, begun, acked, floor, committed>>
  BY DEF CleanManifests, Goto, ghosts
<1>b. base = pointer /\ pointer \in Nat /\ pointer \in published
  BY <1>a DEF IInv, TypeOK, ControlOK, ManifestsOK, Swapped
<1>c. wrote = {} /\ listed = {} /\ lock \in Txns
  BY <1>a DEF IInv, TypeOK, ControlOK
<1>1. TypeOK'
  BY <1>a DEF IInv, TypeOK, Steps
<1>2. ControlOK'
  BY <1>a DEF IInv, ControlOK, BeforeSwap, WithinBounds, Swapped
<1>3. ManifestsOK'
  BY <1>a, <1>b, ManifestsFrame DEF IInv
<1>4. StagingOK'
  BY <1>a, <1>c DEF StagingOK
<1>5. JournalOK'
  BY <1>a, <1>c DEF JournalOK
<1>6. NamesOK' /\ RetainedSnapshotsIntact' /\ CommittedBytesNeverReplaced' /\ AckOK'
  BY <1>a, SnapshotsFrame DEF Settled, Swapped
<1> QED BY <1>1, <1>2, <1>3, <1>4, <1>5, <1>6 DEF IInv

\* Checking the next sequence.
LEMMA CheckSequenceStep ==
    ASSUME IInv, CheckSequence
    PROVE  IInv'
<1>a. /\ step = "check" /\ step' = "pre"
      /\ UNCHANGED <<pointer, published, manifests, disk, intents, lock, job, base, wrote,
                     listed, begun, acked, floor, committed>>
  BY DEF CheckSequence, Goto, disks, ghosts
<1>b. wrote = {} /\ listed = {} /\ lock \in Txns
  BY <1>a DEF IInv, TypeOK, ControlOK
<1>1. TypeOK'
  BY <1>a DEF IInv, TypeOK, Steps
<1>2. ControlOK'
  BY <1>a DEF IInv, ControlOK, BeforeSwap, WithinBounds, Swapped
<1>3. ManifestsOK'
  BY <1>a, ManifestsFrame DEF IInv, ManifestsOK
<1>4. StagingOK'
  BY <1>a, <1>b DEF StagingOK
<1>5. JournalOK'
  BY <1>a, <1>b, JournalFrame DEF IInv, Planning, Swapped
<1>6. NamesOK' /\ RetainedSnapshotsIntact' /\ CommittedBytesNeverReplaced' /\ AckOK'
  BY <1>a, SnapshotsFrame DEF Settled, Swapped
<1> QED BY <1>1, <1>2, <1>3, <1>4, <1>5, <1>6 DEF IInv

\* Writing a planned file: its name is new (PlannedNotReferenced).
LEMMA WriteFileStep ==
    ASSUME IInv, NEW f \in File, WriteFile(f)
    PROVE  IInv'
<1>a. /\ step \in {"pre", "stage"} /\ f \in Planned
      /\ disk' = [disk EXCEPT ![f] = lock] /\ wrote' = wrote \cup {f}
      /\ UNCHANGED <<pointer, published, manifests, intents, lock, job, step, base,
                     listed, begun, acked, floor, committed>>
  BY BeforeIntentPlanned DEF WriteFile, First, ghosts
<1>b. Planning /\ Planning' /\ Planned' = Planned /\ lock \in Txns
  BY <1>a, PlannedFrame DEF IInv, TypeOK, ControlOK, Planning
<1>c. \A n \in Seqs : n <= pointer => f \notin Referenced(manifests[n]) /\ manifests[n].refs[f] = NoTxn
  BY <1>a, <1>b, PlannedNotReferenced, Zenon DEF IInv
<1>d. \A n \in Seqs : committed[n].refs[f] = NoTxn
  BY <1>c DEF IInv, ManifestsOK, EmptyManifest
<1>e. \A x \in File : disk'[x] = IF x = f THEN lock ELSE disk[x]
  BY <1>a DEF IInv, TypeOK, Contents
<1>1. TypeOK'
  BY <1>a, <1>b, Zenon DEF IInv, TypeOK, Contents
<1>2. ControlOK'
  BY <1>a, Zenon DEF IInv, ControlOK, WithinBounds, Swapped
<1>3. ManifestsOK'
  BY <1>a, ManifestsFrame DEF IInv, ManifestsOK
<1>4. StagingOK'
  BY <1>a, <1>b, <1>e, Zenon DEF IInv, StagingOK, TypeOK
<1>5. JournalOK'
  BY <1>a, <1>b, JournalFrame, Zenon DEF IInv, Swapped
<1>6. NamesOK' /\ RetainedSnapshotsIntact' /\ CommittedBytesNeverReplaced' /\ AckOK'
  BY <1>a, <1>c, <1>d, <1>e, FileFrame DEF IInv, TypeOK
<1> QED BY <1>1, <1>2, <1>3, <1>4, <1>5, <1>6 DEF IInv

\* Writing the intent.
LEMMA WriteIntentStep ==
    ASSUME IInv, WriteIntent
    PROVE  IInv'
<1>a. /\ step = "pre" /\ step' = "stage"
      /\ intents' = [intents EXCEPT ![lock] = FirstListed] /\ listed' = FirstListed
      /\ UNCHANGED <<pointer, published, manifests, disk, lock, job, base, wrote,
                     begun, acked, floor, committed>>
  BY Zenon DEF WriteIntent, ghosts
<1>b. /\ Planning /\ Planning' /\ Planned' = Planned /\ Planned \subseteq File /\ lock \in Txns
      /\ FirstListed \subseteq Planned
  BY <1>a, PlannedFrame, PlannedTyped DEF IInv, Planning, FirstListed
<1>c. \A n \in Seqs, f \in Planned : n <= pointer => f \notin Referenced(manifests[n])
  BY <1>b, PlannedNotReferenced DEF IInv
<1>1. TypeOK'
  BY <1>a, <1>b, Zenon DEF IInv, TypeOK, Steps
<1>2. ControlOK'
  BY <1>a, Zenon DEF IInv, ControlOK, BeforeSwap, WithinBounds, Swapped
<1>3. ManifestsOK'
  BY <1>a, ManifestsFrame, Zenon DEF IInv, ManifestsOK
<1>4. StagingOK'
  BY <1>a, <1>b DEF IInv, StagingOK
<1>5. JournalOK'
  <2>1. \A u \in Txns \ {lock} : intents'[u] = intents[u] /\ intents[u] = {}
    BY <1>a, <1>b DEF IInv, TypeOK, JournalOK
  <2>2. intents'[lock] \subseteq Planned /\ intents'[lock] \subseteq listed'
    BY <1>a, <1>b DEF IInv, TypeOK, JournalOK
  <2> QED BY <1>a, <1>b, <1>c, <2>1, <2>2 DEF JournalOK, Planning, Swapped, Referenced
<1>6. NamesOK' /\ RetainedSnapshotsIntact' /\ CommittedBytesNeverReplaced' /\ AckOK'
  BY <1>a, SnapshotsFrame DEF Settled, Swapped
<1> QED BY <1>1, <1>2, <1>3, <1>4, <1>5, <1>6 DEF IInv

\* Extending the intent.
LEMMA ListFileStep ==
    ASSUME IInv, NEW f \in File, ListFile(f)
    PROVE  IInv'
<1>a. /\ step = "stage" /\ f \in Planned
      /\ intents' = [intents EXCEPT ![lock] = @ \cup {f}] /\ listed' = listed \cup {f}
      /\ UNCHANGED <<pointer, published, manifests, disk, lock, job, step, base, wrote,
                     begun, acked, floor, committed>>
  BY DEF ListFile, First, ghosts
<1>b. Planning /\ Planning' /\ Planned' = Planned /\ Planned \subseteq File /\ lock \in Txns
  BY <1>a, PlannedFrame, PlannedTyped DEF IInv, Planning
<1>c. \A n \in Seqs, x \in Planned : n <= pointer => x \notin Referenced(manifests[n])
  BY <1>b, PlannedNotReferenced DEF IInv
<1>d. intents[lock] \subseteq listed /\ listed \subseteq Planned
  BY <1>b DEF IInv, JournalOK, StagingOK
<1>1. TypeOK'
  BY <1>a, <1>b, Zenon DEF IInv, TypeOK
<1>2. ControlOK'
  BY <1>a, Zenon DEF IInv, ControlOK, WithinBounds, Swapped
<1>3. ManifestsOK'
  BY <1>a, ManifestsFrame, Zenon DEF IInv, ManifestsOK
<1>4. StagingOK'
  BY <1>a, <1>b DEF IInv, StagingOK
<1>5. JournalOK'
  <2>1. \A u \in Txns \ {lock} : intents'[u] = intents[u] /\ intents[u] = {}
    BY <1>a, <1>b DEF IInv, TypeOK, JournalOK
  <2>2. intents'[lock] \subseteq Planned /\ intents'[lock] \subseteq listed'
    BY <1>a, <1>b, <1>d DEF IInv, TypeOK, JournalOK
  <2> QED BY <1>a, <1>b, <1>c, <2>1, <2>2 DEF JournalOK, Planning, Swapped, Referenced
<1>6. NamesOK' /\ RetainedSnapshotsIntact' /\ CommittedBytesNeverReplaced' /\ AckOK'
  BY <1>a, SnapshotsFrame DEF Settled, Swapped
<1> QED BY <1>1, <1>2, <1>3, <1>4, <1>5, <1>6 DEF IInv

\* Publishing the manifest, above the pointer.
LEMMA PublishManifestStep ==
    ASSUME IInv, PublishManifest
    PROVE  IInv'
<1>a. /\ Planning /\ Planning' /\ base = pointer /\ NextSeq \in Seqs /\ lock \in Txns
      /\ pointer \in Seqs /\ NextSeq = pointer + 1 /\ Current = manifests[pointer]
  BY PlannedTyped, Zenon DEF IInv, TypeOK, ManifestsOK, PublishManifest, Goto, Planning, NextSeq
<1>b. NewManifest \in Manifest
  BY <1>a, NewManifestTyped DEF IInv
<1>c. /\ manifests'[NextSeq] = NewManifest
      /\ \A n \in Seqs : n <= pointer => manifests'[n] = manifests[n]
  BY <1>a DEF IInv, TypeOK, PublishManifest, Seqs
<1>d. /\ step = "stage" /\ step' = "swap" /\ published' = published \cup {NextSeq}
      /\ Planned \subseteq wrote
      /\ UNCHANGED <<pointer, disk, intents, lock, job, base, wrote, listed,
                     begun, acked, floor, committed>>
  BY DEF PublishManifest, Goto, ghosts
<1>e. Current' = Current /\ NextSeq' = NextSeq
  BY <1>a, <1>c, <1>d DEF Current, NextSeq, Seqs
<1>f. manifests'[pointer'] = manifests[pointer]
  BY <1>a, <1>c, <1>d DEF Seqs
<1>g. Planned' = Planned /\ NewManifest' = NewManifest
  <2>1. HitsFragment' = HitsFragment
    BY <1>d, <1>e, Zenon DEF HitsFragment
  <2>2. DelFiles' = DelFiles
    BY <1>d, <1>e, <2>1, Zenon DEF DelFiles
  <2>3. Planned' = Planned
    BY <1>d, <1>e, <2>1, <2>2, Zenon DEF Planned
  <2> QED BY <1>d, <1>e, <2>1, <2>3, Zenon DEF NewManifest, Kept
<1>1. TypeOK'
  BY <1>a, <1>b, <1>d DEF IInv, TypeOK, Steps, PublishManifest
<1>2. ControlOK'
  <2>1. WithinBounds(job.frag)'
    <3>1. WithinBounds(job.frag)
      BY <1>d, Zenon DEF IInv, ControlOK, BeforeSwap
    <3> QED BY <1>d, <1>f, <3>1, Zenon DEF WithinBounds
  <2> QED BY <1>a, <1>d, <2>1, Zenon DEF IInv, ControlOK, BeforeSwap, Swapped
<1>3. ManifestsOK'
  <2>1. \A n \in published' : n <= pointer' + 1
    BY <1>a, <1>d DEF IInv, ManifestsOK, Seqs
  <2>2. \A n \in Seqs : committed'[n] = IF n <= pointer' THEN manifests'[n] ELSE EmptyManifest
    BY <1>c, <1>d, Zenon DEF IInv, ManifestsOK
  <2> QED BY <2>1, <2>2, <1>a, <1>c, <1>d, <1>e, <1>g DEF IInv, ManifestsOK, EmptyManifest
<1>4. StagingOK'
  BY <1>a, <1>d, <1>g DEF IInv, StagingOK
<1>5. NamesOK'
  <2>1. \A u : Settled(u) => Settled(u)'
    BY <1>d DEF Settled, Swapped
  <2>2. \A f : OldName(f) => OldName(f)'
    BY <1>d, <1>f, <2>1, Zenon DEF OldName
  <2> QED BY <1>c, <1>d, <2>1, <2>2 DEF IInv, NamesOK, Referenced
<1>6. JournalOK'
  <2>1. Planning' /\ ~Swapped'
    BY <1>a, <1>d, Zenon DEF Swapped
  <2>2. \A t \in Txns \ {lock'} : intents'[t] = {}
    BY <1>a, <1>d, Zenon DEF IInv, JournalOK
  <2>3. intents'[lock'] \subseteq listed'
    BY <1>a, <1>d, Zenon DEF IInv, JournalOK
  <2>4. \A n \in Seqs : n <= pointer => Referenced(manifests[n])' = Referenced(manifests[n])
    <3> SUFFICES ASSUME NEW n \in Seqs, n <= pointer
                 PROVE  Referenced(manifests[n])' = Referenced(manifests[n])
      OBVIOUS
    <3> QED BY <1>c DEF Referenced
  <2>5. Referenced(manifests[pointer])' = Referenced(manifests[pointer])
    BY <1>f, Zenon DEF Referenced
  <2> QED BY <1>d, <2>1, <2>2, <2>3, <2>4, <2>5, Zenon DEF IInv, JournalOK
<1>7. RetainedSnapshotsIntact'
  BY <1>a, <1>c, <1>d DEF IInv, TypeOK, RetainedSnapshotsIntact, Intact, Seqs
<1>8. CommittedBytesNeverReplaced'
  BY <1>d DEF IInv, CommittedBytesNeverReplaced
<1>9. AckOK'
  BY <1>d, <1>f, Zenon DEF IInv, AckOK, AckedIsVisible, Swapped
<1> QED BY <1>1, <1>2, <1>3, <1>4, <1>5, <1>6, <1>7, <1>8, <1>9 DEF IInv

\* Swapping the pointer: the plan is on disk and becomes the current snapshot.
LEMMA SwapPointerStep ==
    ASSUME IInv, SwapPointer
    PROVE  IInv'
<1>a. /\ Planning /\ base = pointer /\ NextSeq \in Seqs /\ lock \in Txns /\ lock # NoTxn
      /\ pointer \in Seqs /\ NextSeq = pointer + 1 /\ Current = manifests[pointer]
      /\ Current \in Manifest /\ job.frag \in Txns /\ Planned \subseteq File
  BY PlannedTyped, NoTxnAssumption DEF IInv, TypeOK, ManifestsOK, SwapPointer, Planning, NextSeq
<1>b. /\ step = "swap" /\ step' = "sync" /\ pointer' = pointer + 1
      /\ committed' = [committed EXCEPT ![NextSeq] = manifests[NextSeq]]
      /\ UNCHANGED <<published, manifests, disk, intents, lock, job, base, wrote,
                     listed, begun, acked, floor>>
  BY <1>a DEF SwapPointer, Goto
<1>c. NextSeq \in published /\ manifests[NextSeq] = NewManifest /\ Planned \subseteq wrote
  BY <1>b, Zenon DEF IInv, ManifestsOK, StagingOK
<1>d. /\ \A f \in Planned : NewManifest.refs[f] = lock
      /\ \A f \in File \ Planned : NewManifest.refs[f] # NoTxn => NewManifest.refs[f] = Current.refs[f]
  BY <1>a, Zenon DEF NewManifest
<1>e. Range(NewManifest.hist) = Range(Current.hist) \cup {lock}
  <2>1. NewManifest.hist = Append(Current.hist, lock)
    BY Zenon DEF NewManifest
  <2>2. Current.hist \in Seq(Txns)
    BY <1>a DEF Manifest
  <2> QED BY <1>a, <2>1, <2>2, RangeAppend
<1>f. \A n \in Seqs : n <= pointer' <=> n <= pointer \/ n = NextSeq
  BY <1>a, <1>b DEF Seqs
<1>g. Swapped' /\ ~Planning'
  BY <1>b DEF Swapped, Planning
<1>1. TypeOK'
  <2>1. manifests[NextSeq] \in Manifest
    BY <1>a DEF IInv, TypeOK
  <2> QED BY <1>a, <1>b, <2>1 DEF IInv, TypeOK, Steps, Seqs
<1>2. ControlOK'
  BY <1>a, <1>b, <1>g DEF IInv, ControlOK, BeforeSwap, Seqs
<1>3. ManifestsOK'
  <2>1. floor <= pointer' /\ \A n \in published : n <= pointer' + 1
    BY <1>a, <1>b DEF IInv, TypeOK, ManifestsOK, Seqs
  <2>2. \A n \in Seqs : committed'[n] = IF n <= pointer' THEN manifests'[n] ELSE EmptyManifest
    BY <1>a, <1>b, <1>f, Zenon DEF IInv, TypeOK, ManifestsOK, EmptyManifest
  <2> QED BY <1>a, <1>b, <1>c, <2>1, <2>2, Zenon DEF ManifestsOK, EmptyManifest
<1>4. StagingOK'
  BY <1>b, <1>g DEF StagingOK
<1>5. NamesOK'
  <2>1. \A u : Settled(u) => Settled(u)'
    BY <1>b, Zenon DEF Settled, Swapped
  <2>2. \A u : u = lock => Settled(u)'
    BY <1>a, <1>b, <1>g, Zenon DEF IInv, ControlOK, Settled
  <2>3. \A g \in Txns : /\ Current.ver[g] \in Nat /\ NewManifest.ver[g] \in Nat
                        /\ Current.ver[g] <= NewManifest.ver[g]
    BY <1>a, BoundsAssumption DEF NewManifest, Manifest, Vers
  <2>4. manifests'[pointer'] = NewManifest
    BY <1>a, <1>b, <1>c
  <2>5. \A f \in File : OldName(f) => OldName(f)'
    <3> SUFFICES ASSUME NEW f \in File, OldName(f) PROVE OldName(f)'
      OBVIOUS
    <3>1. CASE f[1] = "del"
      <4>1. f[2] \in Txns /\ f[3] \in Nat
        BY <3>1, BoundsAssumption DEF File, Rg, Del, RowDelta, Idx, Ckpt, Vers
      <4> QED BY <1>a, <2>3, <2>4, <3>1, <4>1 DEF OldName
    <3>2. CASE f[1] \in {"rowdelta", "idx", "ckpt"}
      <4>1. f[2] \in Nat
        BY <3>2 DEF File, Rg, Del, RowDelta, Idx, Ckpt, Seqs
      <4> QED BY <1>a, <1>b, <3>2, <4>1 DEF OldName, Seqs
    <3>3. CASE f[1] \notin {"del", "rowdelta", "idx", "ckpt"}
      BY <2>1, <3>3 DEF OldName
    <3> QED BY <3>1, <3>2, <3>3
  <2>6. \A f \in Planned : OldName(f)'
    <3> SUFFICES ASSUME NEW f \in Planned PROVE OldName(f)'
      OBVIOUS
    <3>1. CASE f \in DelFiles
      <4>1. HitsFragment /\ f[1] = "del" /\ f[2] = job.frag /\ f[3] = Current.ver[job.frag] + 1
        BY <3>1 DEF DelFiles, Del
      <4>2. NewManifest.ver[job.frag] = Current.ver[job.frag] + 1
        BY <1>a, <4>1 DEF NewManifest, Manifest
      <4> QED BY <1>a, <2>3, <2>4, <4>1, <4>2 DEF OldName
    <3>2. CASE f = Rg(lock)
      <4>1. f[1] = "rg" /\ f[2] = lock
        BY <3>2 DEF Rg
      <4> QED BY <2>2, <4>1 DEF OldName
    <3>3. CASE f \in {Ckpt(NextSeq), Idx(NextSeq), RowDelta(NextSeq)}
      <4>1. f[1] \in {"rowdelta", "idx", "ckpt"} /\ f[2] = NextSeq
        BY <3>3 DEF Ckpt, Idx, RowDelta
      <4> QED BY <1>a, <1>b, <4>1 DEF OldName, Seqs
    <3> QED BY <3>1, <3>2, <3>3 DEF Planned
  <2>7. \A f \in Referenced(NewManifest) : f \in File /\ OldName(f)'
    BY <1>a, <1>d, <2>5, <2>6 DEF IInv, NamesOK, Referenced
  <2>8. \A u \in Range(NewManifest.hist) : Settled(u)'
    <3>1. pointer <= pointer
      BY <1>a DEF Seqs
    <3>2. \A u \in Range(manifests[pointer].hist) : Settled(u)
      BY <1>a, <3>1 DEF IInv, NamesOK
    <3> QED BY <1>a, <1>e, <2>1, <2>2, <3>2
  <2>9. \A n \in Seqs : n <= pointer => /\ \A f \in Referenced(manifests[n]) : OldName(f)'
                                       /\ \A u \in Range(manifests[n].hist) : Settled(u)'
    BY <2>1, <2>5 DEF IInv, NamesOK, Referenced
  <2>10. \A n \in Seqs : n <= pointer' => /\ \A f \in Referenced(manifests[n]) : OldName(f)'
                                         /\ \A u \in Range(manifests[n].hist) : Settled(u)'
    BY <1>c, <1>f, <2>7, <2>8, <2>9
  <2> QED BY <1>b, <2>10 DEF NamesOK, Referenced
<1>6. JournalOK'
  <2>1. \A t \in Txns : \A f \in intents[t] : t = lock /\ f \in Planned
    BY <1>a DEF IInv, JournalOK, StagingOK
  <2>2. \A f \in Planned : f \in Referenced(manifests[NextSeq])
    BY <1>a, <1>c, <1>d, Zenon DEF Referenced
  <2> QED BY <1>a, <1>b, <1>g, <2>1, <2>2, Zenon DEF IInv, JournalOK, Referenced
<1>7. RetainedSnapshotsIntact'
  <2>1. Intact(Current)
    BY <1>a DEF IInv, TypeOK, ManifestsOK, RetainedSnapshotsIntact, Seqs
  <2>2. \A f \in Planned : disk[f] = lock
    BY <1>b, <1>c, Zenon DEF IInv, StagingOK
  <2>3. Intact(NewManifest)
    BY <1>a, <1>d, <2>1, <2>2, Zenon DEF Intact
  <2> QED BY <1>b, <1>c, <1>f, <2>3, Zenon DEF IInv, TypeOK, RetainedSnapshotsIntact, Intact
<1>8. CommittedBytesNeverReplaced'
  <2>1. \A f \in Planned : disk[f] = lock
    BY <1>b, <1>c DEF IInv, StagingOK
  <2>2. committed[pointer] = Current
    BY <1>a DEF IInv, TypeOK, ManifestsOK, Seqs
  <2>3. \A f \in File : NewManifest.refs[f] # NoTxn => disk[f] \in {NoTxn, NewManifest.refs[f]}
    BY <1>a, <1>d, <2>1, <2>2 DEF IInv, CommittedBytesNeverReplaced
  <2> QED BY <1>a, <1>b, <1>c, <2>3, Zenon DEF IInv, TypeOK, CommittedBytesNeverReplaced
<1>9. AckOK'
  <2>1. pointer # 0 /\ pointer' # 0 /\ manifests'[pointer'] = NewManifest
    BY <1>a, <1>b, <1>c DEF Seqs
  <2>2. acked \subseteq Range(Current.hist)
    BY <1>a, <2>1 DEF IInv, AckOK, AckedIsVisible
  <2> QED BY <1>b, <1>e, <2>1, <2>2 DEF AckOK, AckedIsVisible
<1> QED BY <1>1, <1>2, <1>3, <1>4, <1>5, <1>6, <1>7, <1>8, <1>9 DEF IInv

\* The directory sync.
LEMMA SyncRootStep ==
    ASSUME IInv, SyncRoot
    PROVE  IInv'
<1>a. /\ step = "sync" /\ step' = "unjournal"
      /\ UNCHANGED <<pointer, published, manifests, disk, intents, lock, job, base, wrote,
                     listed, begun, acked, floor, committed>>
  BY Zenon DEF SyncRoot, Goto, disks, ghosts
<1>1. TypeOK'
  BY <1>a, Zenon DEF IInv, TypeOK, Steps
<1>2. ControlOK'
  BY <1>a, Zenon DEF IInv, ControlOK, BeforeSwap, Swapped
<1>3. ManifestsOK'
  BY <1>a, ManifestsFrame DEF IInv, ManifestsOK
<1>4. StagingOK'
  BY <1>a, StagingFrame, Zenon
<1>5. JournalOK'
  BY <1>a, JournalFrame DEF IInv, Planning, Swapped
<1>6. NamesOK' /\ RetainedSnapshotsIntact' /\ CommittedBytesNeverReplaced' /\ AckOK'
  BY <1>a, SnapshotsFrame DEF Settled, Swapped
<1> QED BY <1>1, <1>2, <1>3, <1>4, <1>5, <1>6 DEF IInv

\* Acknowledging.
LEMMA DeleteIntentStep ==
    ASSUME IInv, DeleteIntent
    PROVE  IInv'
<1>1. intents' \in [Txns -> SUBSET File] /\ \A t \in Txns : intents'[t] \subseteq intents[t]
  BY DEF IInv, TypeOK, DeleteIntent
<1>2. acked' \subseteq acked \cup (IF Swapped THEN {lock} ELSE {})
  BY DEF DeleteIntent, ghosts, Swapped
<1> QED BY <1>1, <1>2, ReleaseKeeps DEF DeleteIntent, ghosts

\* An error before the swap.
LEMMA FailStep ==
    ASSUME IInv, Fail
    PROVE  IInv'
<1>a. step \in BeforeSwap /\ UNCHANGED <<disks, ghosts>>
  BY Zenon DEF Fail
<1>b. CASE Release
  BY <1>a, <1>b, ReleaseKeeps, Zenon DEF IInv, TypeOK, disks, ghosts
<1>c. CASE Goto("rollbackFiles") /\ job.kind \in RollsBack /\ step \in {"pre", "stage", "swap"}
  <2>a. /\ step' = "rollbackFiles"
        /\ UNCHANGED <<pointer, published, manifests, disk, intents, lock, job, base, wrote,
                       listed, begun, acked, floor, committed>>
    BY <1>a, <1>c, Zenon DEF Goto, disks, ghosts
  <2>b. Planning /\ Planned' = Planned /\ lock \in Txns
    BY <1>c, <2>a, PlannedFrame, PlannedTyped, Zenon DEF IInv, Planning
  <2>1. TypeOK'
    BY <2>a, Zenon DEF IInv, TypeOK, Steps
  <2>2. ControlOK'
    BY <1>c, <2>a, Zenon DEF IInv, ControlOK, BeforeSwap, WithinBounds, Swapped
  <2>3. ManifestsOK'
    BY <2>a, ManifestsFrame, Zenon DEF IInv, ManifestsOK
  <2>4. StagingOK'
    BY <2>a, <2>b DEF IInv, StagingOK
  <2>5. JournalOK'
    BY <2>a, <2>b, JournalFrame DEF IInv, Swapped
  <2>6. NamesOK' /\ RetainedSnapshotsIntact' /\ CommittedBytesNeverReplaced' /\ AckOK'
    BY <1>c, <2>a, SnapshotsFrame DEF Settled, Swapped
  <2> QED BY <2>1, <2>2, <2>3, <2>4, <2>5, <2>6 DEF IInv
<1> QED BY <1>b, <1>c DEF Fail

\* Rolling back a staged file: it is of the plan.
LEMMA RollbackFileStep ==
    ASSUME IInv, NEW f \in File, RollbackFile(f)
    PROVE  IInv'
<1>a. /\ step = "rollbackFiles" /\ f \in wrote /\ wrote' \subseteq wrote
      /\ disk' \in {disk, [disk EXCEPT ![f] = NoTxn]}
      /\ UNCHANGED <<pointer, published, manifests, intents, lock, job, step, base,
                     listed, begun, acked, floor, committed>>
  BY Zenon DEF RollbackFile, First, StagedFiles, ghosts
<1>b. Planning /\ Planning' /\ Planned' = Planned /\ lock \in Txns /\ f \in Planned
  BY <1>a, PlannedFrame, PlannedTyped DEF IInv, StagingOK, Planning
<1>c. \A n \in Seqs : n <= pointer => f \notin Referenced(manifests[n])
  BY <1>b, PlannedNotReferenced, Zenon DEF IInv
<1>d. \A x \in File : disk'[x] = disk[x] \/ (x = f /\ disk'[x] = NoTxn)
  BY <1>a, Zenon DEF IInv, TypeOK, Contents
<1>1. TypeOK'
  BY <1>a, Zenon DEF IInv, TypeOK, Contents
<1>2. ControlOK'
  BY <1>a, Zenon DEF IInv, ControlOK, WithinBounds, Swapped
<1>3. ManifestsOK'
  BY <1>a, ManifestsFrame, Zenon DEF IInv, ManifestsOK
<1>4. StagingOK'
  BY <1>a, <1>b, Zenon DEF IInv, StagingOK
<1>5. JournalOK'
  BY <1>a, <1>b, JournalFrame, Zenon DEF IInv, Swapped
<1>6. NamesOK' /\ RetainedSnapshotsIntact' /\ CommittedBytesNeverReplaced' /\ AckOK'
  BY <1>a, <1>c, <1>d, FileFrame, Zenon DEF IInv, TypeOK
<1> QED BY <1>1, <1>2, <1>3, <1>4, <1>5, <1>6 DEF IInv

\* Rolling back the manifest.
LEMMA RollbackManifestStep ==
    ASSUME IInv, RollbackManifest
    PROVE  IInv'
<1>a. /\ step = "rollbackFiles" /\ step' = "rollbackIntent"
      /\ published' \in {published, published \ {NextSeq}}
      /\ UNCHANGED <<pointer, manifests, disk, intents, lock, job, base, wrote,
                     listed, begun, acked, floor, committed>>
  BY Zenon DEF RollbackManifest, Goto, ghosts
<1>b. /\ base = pointer /\ pointer \in Nat /\ NextSeq = pointer + 1 /\ pointer \in published
      /\ lock \in Txns
  BY <1>a DEF IInv, TypeOK, ControlOK, ManifestsOK, Swapped, NextSeq
<1>1. TypeOK'
  BY <1>a, Zenon DEF IInv, TypeOK, Steps
<1>2. ControlOK'
  BY <1>a, Zenon DEF IInv, ControlOK, BeforeSwap, Swapped
<1>3. ManifestsOK'
  BY <1>a, <1>b, ManifestsFrame DEF IInv
<1>4. StagingOK'
  BY <1>a, StagingFrame, Zenon
<1>5. JournalOK'
  BY <1>a, JournalFrame DEF IInv, Planning, Swapped
<1>6. NamesOK' /\ RetainedSnapshotsIntact' /\ CommittedBytesNeverReplaced' /\ AckOK'
  BY <1>a, SnapshotsFrame DEF Settled, Swapped
<1> QED BY <1>1, <1>2, <1>3, <1>4, <1>5, <1>6 DEF IInv

\* Rolling back the intent.
LEMMA RollbackIntentStep ==
    ASSUME IInv, RollbackIntent
    PROVE  IInv'
<1>1. intents' \in [Txns -> SUBSET File] /\ \A t \in Txns : intents'[t] \subseteq intents[t]
  BY DEF IInv, TypeOK, RollbackIntent
<1>2. acked' \subseteq acked \cup (IF Swapped THEN {lock} ELSE {})
  BY DEF RollbackIntent, ghosts, Swapped
<1> QED BY <1>1, <1>2, ReleaseKeeps DEF RollbackIntent, ghosts

\* An error after the swap.
LEMMA SyncFailsStep ==
    ASSUME IInv, SyncFails
    PROVE  IInv'
<1>1. intents' \in [Txns -> SUBSET File] /\ \A t \in Txns : intents'[t] \subseteq intents[t]
  BY Zenon DEF IInv, TypeOK, SyncFails
<1>2. acked' \subseteq acked \cup (IF Swapped THEN {lock} ELSE {})
  BY DEF SyncFails, ghosts, Swapped
<1> QED BY <1>1, <1>2, ReleaseKeeps DEF SyncFails, ghosts

\* The process dies.
LEMMA CrashStep ==
    ASSUME IInv, Crash
    PROVE  IInv'
<1>1. intents' \in [Txns -> SUBSET File] /\ \A t \in Txns : intents'[t] \subseteq intents[t]
  BY DEF IInv, TypeOK, Crash
<1>2. acked' \subseteq acked \cup (IF Swapped THEN {lock} ELSE {})
  BY DEF Crash, ghosts, Swapped
<1> QED BY <1>1, <1>2, ReleaseKeeps DEF Crash, ghosts

\* Garbage collection loads the snapshots and fixes its cutoff.
LEMMA GcLoadStep ==
    ASSUME IInv, GcLoad
    PROVE  IInv'
<1>a. /\ pointer \in published /\ pointer \in Nat /\ pointer \in Seqs
      /\ committed[pointer] = manifests[pointer] /\ committed \in [Seqs -> Manifest]
  BY DEF IInv, TypeOK, ManifestsOK
<1>b. [committed EXCEPT ![pointer] = manifests[pointer]] = committed
  BY <1>a, Zenon
<1>c. /\ step = "load" /\ step' = "gcSweep" /\ base' = pointer /\ job.kind = "gc"
      /\ UNCHANGED <<pointer, committed, published, manifests, disk, intents, lock, job,
                     wrote, listed, begun, acked>>
  BY <1>a, <1>b, Zenon DEF GcLoad
<1>d. /\ Cutoff(pointer, job.retain) \in Nat /\ Cutoff(pointer, job.retain) <= pointer
      /\ floor' = IF Cutoff(pointer, job.retain) > floor
                  THEN Cutoff(pointer, job.retain) ELSE floor
  BY <1>a, <1>c DEF IInv, TypeOK, GcLoad, Cutoff
<1>e. /\ floor \in Nat /\ floor' \in Nat /\ floor <= floor' /\ floor' <= pointer
      /\ Cutoff(pointer, job.retain) <= floor'
  BY <1>a, <1>d DEF IInv, TypeOK, ManifestsOK
<1>1. TypeOK'
  BY <1>c, <1>e, Zenon DEF IInv, TypeOK, Steps
<1>2. ControlOK'
  BY <1>c, Zenon DEF IInv, ControlOK, BeforeSwap, Swapped
<1>3. ManifestsOK'
  BY <1>c, <1>e DEF IInv, ManifestsOK, EmptyManifest
<1>4. StagingOK'
  BY <1>c, StagingFrame, Zenon
<1>5. JournalOK'
  BY <1>c, JournalFrame DEF IInv, Planning, Swapped
<1>6. NamesOK'
  BY <1>c, NamesFrame, Zenon DEF IInv, Settled, Swapped
<1>7. RetainedSnapshotsIntact'
  <2>1. \A n \in published : floor' <= n => floor <= n
    BY <1>e DEF IInv, TypeOK, Seqs
  <2> QED BY <1>c, <2>1 DEF IInv, RetainedSnapshotsIntact, Intact
<1>8. CommittedBytesNeverReplaced' /\ AckOK'
  BY <1>c, Zenon DEF IInv, CommittedBytesNeverReplaced, AckOK, AckedIsVisible, Swapped
<1> QED BY <1>1, <1>2, <1>3, <1>4, <1>5, <1>6, <1>7, <1>8, Zenon DEF IInv

\* Collecting a file that no retained snapshot references.
LEMMA GcDeleteStep ==
    ASSUME IInv, NEW f \in File, GcDelete(f)
    PROVE  IInv'
<1>a. /\ step = "gcSweep" /\ f \in Garbage /\ disk' = [disk EXCEPT ![f] = NoTxn]
      /\ UNCHANGED <<pointer, published, manifests, intents, lock, job, step, base, wrote,
                     listed, begun, acked, floor, committed>>
  BY Zenon DEF GcDelete, locals, ghosts
<1>b. \A n \in published : floor <= n => n \in Retained
  BY <1>a DEF IInv, TypeOK, ManifestsOK, Retained, Cutoff, Seqs
<1>c. \A n \in published : floor <= n => f \notin Referenced(manifests[n])
  BY <1>a, <1>b DEF Garbage
<1>d. \A x \in File : disk'[x] = IF x = f THEN NoTxn ELSE disk[x]
  BY <1>a, Zenon DEF IInv, TypeOK, Contents
<1>1. TypeOK'
  BY <1>a, Zenon DEF IInv, TypeOK, Contents
<1>2. ControlOK'
  BY <1>a DEF IInv, ControlOK, BeforeSwap, Swapped
<1>3. ManifestsOK'
  BY <1>a, ManifestsFrame, Zenon DEF IInv, ManifestsOK
<1>4. StagingOK'
  BY <1>a, StagingFrame
<1>5. JournalOK'
  BY <1>a, JournalFrame, Zenon DEF IInv, Planning, Swapped
<1>6. NamesOK' /\ RetainedSnapshotsIntact' /\ CommittedBytesNeverReplaced' /\ AckOK'
  BY <1>a, <1>c, <1>d, FileFrame
<1> QED BY <1>1, <1>2, <1>3, <1>4, <1>5, <1>6 DEF IInv

\* The sweep ends.
LEMMA GcSweptStep ==
    ASSUME IInv, GcSwept
    PROVE  IInv'
<1>a. /\ step = "gcSweep" /\ step' = "gcIntents"
      /\ UNCHANGED <<pointer, published, manifests, disk, intents, lock, job, base, wrote,
                     listed, begun, acked, floor, committed>>
  BY DEF GcSwept, Goto, disks, ghosts
<1>1. TypeOK'
  BY <1>a, Zenon DEF IInv, TypeOK, Steps
<1>2. ControlOK'
  BY <1>a DEF IInv, ControlOK, BeforeSwap, Swapped
<1>3. ManifestsOK'
  BY <1>a, ManifestsFrame, Zenon DEF IInv, ManifestsOK
<1>4. StagingOK'
  BY <1>a, StagingFrame, Zenon
<1>5. JournalOK'
  BY <1>a, JournalFrame DEF IInv, TypeOK, Planning, Swapped
<1>6. NamesOK' /\ RetainedSnapshotsIntact' /\ CommittedBytesNeverReplaced' /\ AckOK'
  BY <1>a, SnapshotsFrame DEF Settled, Swapped
<1> QED BY <1>1, <1>2, <1>3, <1>4, <1>5, <1>6 DEF IInv

\* Collecting an intent.
LEMMA GcIntentStep ==
    ASSUME IInv, NEW t \in Txns, GcIntent(t)
    PROVE  IInv'
<1>a. /\ step = "gcIntents" /\ intents' = [intents EXCEPT ![t] = {}]
      /\ UNCHANGED <<pointer, published, manifests, disk, lock, job, step, base, wrote,
                     listed, begun, acked, floor, committed>>
  BY Zenon DEF GcIntent, locals, ghosts
<1>1. TypeOK'
  BY <1>a, Zenon DEF IInv, TypeOK
<1>2. ControlOK'
  BY <1>a, Zenon DEF IInv, ControlOK, BeforeSwap, Swapped
<1>3. ManifestsOK'
  BY <1>a, ManifestsFrame, Zenon DEF IInv, ManifestsOK
<1>4. StagingOK'
  BY <1>a, StagingFrame, Zenon
<1>5. JournalOK'
  BY <1>a, JournalFrame DEF IInv, TypeOK, Planning, Swapped
<1>6. NamesOK' /\ RetainedSnapshotsIntact' /\ CommittedBytesNeverReplaced' /\ AckOK'
  BY <1>a, SnapshotsFrame, Zenon DEF Settled, Swapped
<1> QED BY <1>1, <1>2, <1>3, <1>4, <1>5, <1>6 DEF IInv

\* Collecting a manifest below the cutoff.
LEMMA GcManifestStep ==
    ASSUME IInv, NEW n \in Seqs, GcManifest(n)
    PROVE  IInv'
<1>a. /\ step = "gcIntents" /\ published' = published \ {n} /\ n < Cutoff(base, job.retain)
      /\ UNCHANGED <<pointer, manifests, disk, intents, lock, job, step, base, wrote,
                     listed, begun, acked, floor, committed>>
  BY Zenon DEF GcManifest, locals, ghosts
<1>b. base = pointer /\ pointer \in Nat /\ job.retain \in Nat
  BY <1>a DEF IInv, TypeOK, ControlOK, Swapped
<1>c. n # pointer
  BY <1>a, <1>b DEF Cutoff, Seqs
<1>1. TypeOK'
  BY <1>a, Zenon DEF IInv, TypeOK
<1>2. ControlOK'
  BY <1>a, Zenon DEF IInv, ControlOK, BeforeSwap, Swapped
<1>3. ManifestsOK'
  <2>1. pointer \in published'
    BY <1>a, <1>c, Zenon DEF IInv, ManifestsOK
  <2> QED BY <1>a, <2>1, ManifestsFrame, Zenon DEF IInv, ManifestsOK
<1>4. StagingOK'
  BY <1>a, StagingFrame, Zenon
<1>5. JournalOK'
  BY <1>a, JournalFrame DEF IInv, Planning, Swapped
<1>6. NamesOK' /\ RetainedSnapshotsIntact' /\ CommittedBytesNeverReplaced' /\ AckOK'
  BY <1>a, SnapshotsFrame, Zenon DEF Settled, Swapped
<1> QED BY <1>1, <1>2, <1>3, <1>4, <1>5, <1>6 DEF IInv

\* The collection returns.
LEMMA GcReturnStep ==
    ASSUME IInv, GcReturn
    PROVE  IInv'
BY ReleaseKeeps DEF IInv, TypeOK, GcReturn, disks, ghosts

\* A step that changes nothing.
LEMMA StutterStep ==
    ASSUME IInv, UNCHANGED vars
    PROVE  IInv'
<1>1. TypeOK' /\ ControlOK'
  BY DEF IInv, TypeOK, ControlOK, WithinBounds, Swapped, vars
<1>2. NewManifest' = NewManifest /\ NextSeq' = NextSeq /\ Planned' = Planned
  BY PlannedFrame, Zenon DEF vars
<1>3. ManifestsOK' /\ StagingOK'
  BY <1>2, Zenon DEF IInv, ManifestsOK, StagingOK, Planning, vars
<1>4. JournalOK'
  BY Zenon DEF IInv, JournalOK, Planning, Swapped, Referenced, vars
<1>5. NamesOK' /\ RetainedSnapshotsIntact' /\ CommittedBytesNeverReplaced' /\ AckOK'
  BY SnapshotsFrame DEF Settled, Swapped, vars
<1> QED BY <1>1, <1>3, <1>4, <1>5 DEF IInv

-----------------------------------------------------------------------------
(***************************************************************************)
(* The theorems.                                                           *)
(***************************************************************************)

\* A table that has its first snapshot and is at rest satisfies the invariant.
LEMMA InitIInv ==
    ASSUME ~Fresh, Init
    PROVE  IInv
<1>1. 1 \in Seqs /\ 0 \in Vers /\ pointer = 1 /\ published = {1}
  BY BoundsAssumption DEF Init, Seqs, Vers
<1>2. EmptyManifest \in Manifest /\ GenesisManifest \in Manifest
  <2>1. GenesisManifest.refs \in Contents /\ EmptyManifest.refs \in Contents
    BY GenesisAssumption DEF GenesisManifest, EmptyManifest, Contents
  <2>2. <<>> \in Seq(Txns) /\ <<Genesis>> \in Seq(Txns)
    BY GenesisAssumption
  <2> QED BY <1>1, <2>1, <2>2, Zenon DEF GenesisManifest, EmptyManifest, Manifest
<1>3. TypeOK
  <2>1. manifests \in [Seqs -> Manifest] /\ committed \in [Seqs -> Manifest]
    BY <1>2 DEF Init
  <2>2. disk \in Contents
    <3>1. GenesisManifest.refs \in Contents
      BY GenesisAssumption DEF GenesisManifest, EmptyManifest, Contents
    <3> QED BY <3>1 DEF Init
  <2>3. intents \in [Txns -> SUBSET File] /\ job \in [kind : Kinds, frag : Txns, retain : Nat]
    BY GenesisAssumption DEF Init, NoJob, Kinds
  <2>4. pointer \in 0..MaxSeq /\ base \in 0..MaxSeq /\ floor \in Nat /\ published \subseteq Seqs
    BY <1>1, BoundsAssumption DEF Init, Seqs
  <2>5. lock \in Txns \cup {NoTxn} /\ step \in Steps
    BY DEF Init, Steps
  <2>6. wrote \subseteq File /\ listed \subseteq File /\ begun \subseteq Txns /\ acked \subseteq Txns
    BY GenesisAssumption DEF Init
  <2> QED BY <2>1, <2>2, <2>3, <2>4, <2>5, <2>6 DEF TypeOK
<1>4. manifests[1] = GenesisManifest /\ committed = manifests
      /\ \A n \in Seqs : n # 1 => manifests[n] = EmptyManifest
  BY <1>1 DEF Init
<1>5. ControlOK
  BY Zenon DEF Init, ControlOK, BeforeSwap, Swapped
<1>6. ManifestsOK
  BY <1>1, <1>4 DEF Init, ManifestsOK, Seqs
<1>7. StagingOK
  BY DEF Init, StagingOK, Planning
<1>8. NamesOK
  <2>1. \A n \in Seqs : n <= pointer => n = 1
    BY <1>1 DEF Seqs
  <2>2. \A f \in Referenced(GenesisManifest) : f \in {Rg(Genesis), Idx(1), Ckpt(1)}
    BY DEF Referenced, GenesisManifest, EmptyManifest
  <2>3. Settled(Genesis)
    BY NoTxnAssumption, GenesisAssumption, Zenon DEF Init, Settled
  <2>4. OldName(Rg(Genesis)) /\ OldName(Idx(1)) /\ OldName(Ckpt(1))
    BY <1>1, <2>3 DEF OldName, Rg, Idx, Ckpt
  <2>5. Range(GenesisManifest.hist) = {Genesis}
    BY DEF GenesisManifest, EmptyManifest, Range
  <2> QED BY <1>4, <2>1, <2>2, <2>3, <2>4, <2>5 DEF NamesOK
<1>9. JournalOK
  BY DEF Init, JournalOK, Planning, Swapped
<1>10. disk = GenesisManifest.refs
  BY DEF Init
<1>11. \A f \in File : EmptyManifest.refs[f] = NoTxn
  BY DEF EmptyManifest
<1>12. RetainedSnapshotsIntact /\ CommittedBytesNeverReplaced
  BY <1>1, <1>4, <1>10, <1>11 DEF RetainedSnapshotsIntact, CommittedBytesNeverReplaced, Intact
<1>13. AckOK
  BY <1>1 DEF Init, AckOK, AckedIsVisible, Swapped
<1> QED BY <1>3, <1>5, <1>6, <1>7, <1>8, <1>9, <1>12, <1>13 DEF IInv

\* Whichever of its ways a call begins in, its kind and its fragment are typed.
LEMMA BeginCases ==
    ASSUME TypeOK,
           \/ \E t \in Txns, k \in RowMutations, g \in begun : Begin(t, k, g, 0)
           \/ \E t \in Txns, k \in Mutations \ RowMutations : Begin(t, k, Genesis, 0)
           \/ \E t \in Txns, r \in Retains : Begin(t, "gc", Genesis, r)
    PROVE  \E t \in Txns, k \in Kinds, g \in Txns, r \in Nat : Begin(t, k, g, r)
BY GenesisAssumption, BoundsAssumption, Zenon DEF TypeOK, Kinds, Mutations, RowMutations

\* Every step of the protocol preserves the inductive invariant.
THEOREM Inductive ==
    ASSUME IInv, [Next]_vars
    PROVE  IInv'
<1>1. CASE \/ \E t \in Txns, k \in RowMutations, g \in begun : Begin(t, k, g, 0)
           \/ \E t \in Txns, k \in Mutations \ RowMutations : Begin(t, k, Genesis, 0)
           \/ \E t \in Txns, r \in Retains : Begin(t, "gc", Genesis, r)
  BY <1>1, BeginCases, BeginStep, Zenon DEF IInv
<1>2. CASE Holder
  BY <1>2, LoadCurrentManifestStep, CleanFileStep, CleanIntentStep, CleanManifestsStep,
     CheckSequenceStep, WriteFileStep, WriteIntentStep, ListFileStep, PublishManifestStep,
     SwapPointerStep, SyncRootStep, DeleteIntentStep, RollbackFileStep, RollbackManifestStep,
     RollbackIntentStep, GcLoadStep, GcDeleteStep, GcSweptStep, GcIntentStep, GcManifestStep,
     GcReturnStep
  DEF Holder
<1>3. CASE Fail \/ SyncFails \/ Crash
  BY <1>3, FailStep, SyncFailsStep, CrashStep
<1>4. CASE UNCHANGED vars
  BY <1>4, StutterStep
<1> QED BY <1>1, <1>2, <1>3, <1>4, Zenon DEF Next

\* IInv is an invariant of every table that starts from a first snapshot.
THEOREM Invariance ==
    ASSUME ~Fresh
    PROVE  Spec => []IInv
<1>1. Init => IInv
  BY InitIInv
<1>2. IInv /\ [Next]_vars => IInv'
  BY Inductive
<1> QED BY <1>1, <1>2, PTL DEF Spec

\* The type invariant.
THEOREM TypeCorrect ==
    ASSUME ~Fresh
    PROVE  Spec => []TypeOK
<1>1. IInv => TypeOK
  BY DEF IInv
<1> QED BY <1>1, Invariance, PTL

\* The snapshot the pointer names is always there, with all its files: no
\* failure, crash, cleanup, rollback or garbage collection can break a table.
THEOREM LiveSnapshotAlwaysIntact ==
    ASSUME ~Fresh
    PROVE  Spec => []LiveSnapshotIntact
<1>1. IInv => LiveSnapshotIntact
  <2> SUFFICES ASSUME IInv PROVE pointer \in published /\ Intact(manifests[pointer])
    BY DEF LiveSnapshotIntact
  <2>1. pointer \in published /\ floor <= pointer /\ pointer <= pointer
    BY DEF IInv, TypeOK, ManifestsOK
  <2> QED BY <2>1 DEF IInv, RetainedSnapshotsIntact
<1> QED BY <1>1, Invariance, PTL

\* So is every older snapshot that no garbage collection has given up.
THEOREM RetainedSnapshotsAlwaysIntact ==
    ASSUME ~Fresh
    PROVE  Spec => []RetainedSnapshotsIntact
<1>1. IInv => RetainedSnapshotsIntact
  BY DEF IInv
<1> QED BY <1>1, Invariance, PTL

\* A file name that a committed manifest uses never carries other bytes.
THEOREM BytesNeverReplaced ==
    ASSUME ~Fresh
    PROVE  Spec => []CommittedBytesNeverReplaced
<1>1. IInv => CommittedBytesNeverReplaced
  BY DEF IInv
<1> QED BY <1>1, Invariance, PTL

\* What a call acknowledged stays in the current snapshot.
THEOREM AckedStaysVisible ==
    ASSUME ~Fresh
    PROVE  Spec => []AckedIsVisible
<1>1. IInv => AckedIsVisible
  BY Zenon DEF IInv, AckOK
<1> QED BY <1>1, Invariance, PTL

\* The SequenceCollision error cannot happen once cleanup_staging has run.
THEOREM SequenceNeverCollides ==
    ASSUME ~Fresh
    PROVE  Spec => []NextSequenceIsFree
<1>1. IInv => NextSequenceIsFree
  BY DEF IInv, ManifestsOK, NextSequenceIsFree
<1> QED BY <1>1, Invariance, PTL

\* What every step does to the pointer and the manifests at or below it.
LEMMA ForeverStep ==
    ASSUME IInv, [Next]_vars
    PROVE  /\ pointer' >= pointer
           /\ \A n \in published' : n <= pointer =>
                 n \in published /\ manifests'[n] = manifests[n]
<1>1. pointer \in Nat /\ pointer \in published /\ pointer \in Seqs /\ pointer # 0
  BY DEF IInv, TypeOK, ManifestsOK, Seqs
<1>2. CASE PublishManifest
  <2>1. Planning
    BY <1>2 DEF PublishManifest, Planning
  <2>2. base = pointer /\ NextSeq = pointer + 1
    BY <2>1, PlannedTyped DEF IInv, NextSeq
  <2>3. \A n \in published' : n <= pointer => n \in published
    BY <1>1, <1>2, <2>2 DEF PublishManifest
  <2>4. \A n \in published : n <= pointer => manifests'[n] = manifests[n]
    BY <1>1, <1>2, <2>2 DEF PublishManifest, IInv, TypeOK
  <2> QED BY <1>1, <1>2, <2>3, <2>4 DEF PublishManifest
<1>3. CASE SwapPointer
  <2>1. Planning
    BY <1>3 DEF SwapPointer, Planning
  <2>2. base = pointer
    BY <2>1, PlannedTyped, Zenon DEF IInv
  <2> QED BY <1>1, <1>3, <2>2 DEF SwapPointer, NextSeq
<1>4. CASE LoadCurrentManifest \/ GcLoad
  <2>1. pointer' = pointer
    BY <1>1, <1>4, Zenon DEF LoadCurrentManifest, GcLoad
  <2> QED BY <1>1, <1>4, <2>1 DEF LoadCurrentManifest, GcLoad
<1>5. CASE ~(PublishManifest \/ SwapPointer \/ LoadCurrentManifest \/ GcLoad)
  <2>1. /\ pointer' = pointer /\ manifests' = manifests /\ published' \subseteq published
    BY <1>5, Zenon
    DEF Next, Holder, Begin, CleanFile, CleanIntent, CleanManifests, CheckSequence,
        WriteFile, WriteIntent, ListFile, SyncRoot, DeleteIntent, RollbackFile,
        RollbackManifest, RollbackIntent, Fail, SyncFails, Crash, GcDelete, GcSwept,
        GcIntent, GcManifest, GcReturn, disks, vars
  <2> QED BY <1>1, <2>1
<1> QED BY <1>2, <1>3, <1>4, <1>5, Zenon

\* The pointer never goes back and no manifest at or below it is rewritten.
THEOREM CommittedStaysForever ==
    ASSUME ~Fresh
    PROVE  Spec => CommittedIsForever
<1>1. IInv /\ [Next]_vars =>
         [ /\ pointer' >= pointer
           /\ \A n \in published' : n <= pointer =>
                 n \in published /\ manifests'[n] = manifests[n] ]_vars
  BY ForeverStep
<1> QED BY <1>1, Invariance, PTL DEF Spec, CommittedIsForever

-----------------------------------------------------------------------------
(***************************************************************************)
(* The protocol implements AtomicTable.                                    *)
(***************************************************************************)

\* The history changes only when the pointer is swapped, by the holder.
LEMMA HistoryStep ==
    ASSUME IInv, [Next]_vars
    PROVE  \/ UNCHANGED <<History, acked>>
           \/ \E t \in Txns : Atomic!Commit(t) \/ Atomic!Acknowledge(t)
<1>1. pointer \in published /\ pointer \in Seqs /\ pointer # 0
  BY DEF IInv, TypeOK, ManifestsOK, Seqs
<1>2. History = manifests[pointer].hist
  BY <1>1 DEF History
<1>3. CASE SwapPointer
  <2>1. Planning
    BY <1>3 DEF SwapPointer, Planning
  <2>2. /\ base = pointer /\ lock \in Txns /\ NextSeq \in Seqs /\ NextSeq = pointer + 1
        /\ Current = manifests[pointer] /\ manifests[NextSeq] = NewManifest
    BY <1>3, <2>1, PlannedTyped, Zenon DEF IInv, ManifestsOK, SwapPointer, NextSeq
  <2>3. History' = Append(History, lock)
    <3>1. pointer' = NextSeq /\ manifests' = manifests /\ NextSeq # 0
      BY <1>3, <2>2 DEF SwapPointer, Seqs
    <3>2. History' = manifests[NextSeq].hist
      BY <3>1 DEF History
    <3>3. NewManifest.hist = Append(Current.hist, lock)
      BY Zenon DEF NewManifest
    <3> QED BY <1>2, <2>2, <3>2, <3>3
  <2>4. lock \notin Range(History)
    <3>1. ~Settled(lock)
      BY <2>1 DEF Settled, Planning, Swapped
    <3>2. pointer <= pointer
      BY <1>1 DEF Seqs
    <3> QED BY <1>1, <1>2, <3>1, <3>2 DEF IInv, NamesOK
  <2>5. Atomic!Commit(lock)
    BY <1>3, <2>3, <2>4, Zenon DEF SwapPointer, Atomic!Commit, Range, Atomic!Range
  <2> QED BY <2>2, <2>5
<1>4. CASE DeleteIntent
  <2>1. lock \in Txns /\ lock \in Range(History)
    BY <1>1, <1>2, <1>4, Zenon DEF IInv, TypeOK, ControlOK, AckOK, Swapped, DeleteIntent
  <2>2. History' = History /\ acked' = acked \cup {lock}
    BY <1>4, Zenon DEF DeleteIntent, History
  <2> QED BY <2>1, <2>2, Zenon DEF Atomic!Acknowledge, Range, Atomic!Range
<1>5. CASE PublishManifest
  <2>1. Planning
    BY <1>5 DEF PublishManifest, Planning
  <2>2. base = pointer /\ NextSeq = pointer + 1
    BY <2>1, PlannedTyped DEF IInv, NextSeq
  <2>3. manifests'[pointer] = manifests[pointer]
    BY <1>1, <1>5, <2>2 DEF PublishManifest, IInv, TypeOK, Seqs
  <2> QED BY <1>1, <1>2, <1>5, <2>3 DEF PublishManifest, ghosts, History
<1>6. CASE LoadCurrentManifest \/ GcLoad
  <2>1. pointer' = pointer
    BY <1>1, <1>6, Zenon DEF LoadCurrentManifest, GcLoad
  <2> QED BY <1>6, <2>1 DEF LoadCurrentManifest, GcLoad, History
<1>7. CASE ~(PublishManifest \/ SwapPointer \/ LoadCurrentManifest \/ GcLoad \/ DeleteIntent)
  <2>1. /\ pointer' = pointer /\ manifests' = manifests /\ acked' = acked
    BY <1>7, Zenon
    DEF Next, Holder, Begin, CleanFile, CleanIntent, CleanManifests, CheckSequence,
        WriteFile, WriteIntent, ListFile, SyncRoot, RollbackFile,
        RollbackManifest, RollbackIntent, Fail, SyncFails, Crash, GcDelete, GcSwept,
        GcIntent, GcManifest, GcReturn, disks, ghosts, vars
  <2> QED BY <2>1 DEF History
<1> QED BY <1>3, <1>4, <1>5, <1>6, <1>7, Zenon

\* Every behaviour of the protocol, read off the pointer, is one of AtomicTable:
\* commits are atomic, ordered and durable across process crashes.
THEOREM Refinement ==
    ASSUME ~Fresh
    PROVE  Spec => RefinesAtomicTable
<1>1. Init => Atomic!AInit
  <2> SUFFICES ASSUME Init PROVE History = <<Genesis>> /\ acked = {}
    BY DEF Atomic!AInit
  <2>1. pointer = 1 /\ acked = {} /\ 1 \in Seqs
    BY BoundsAssumption DEF Init, Seqs
  <2>2. manifests[1] = GenesisManifest
    BY <2>1 DEF Init
  <2>3. GenesisManifest.hist = <<Genesis>>
    BY DEF GenesisManifest, EmptyManifest
  <2> QED BY <2>1, <2>2, <2>3 DEF History
<1>2. IInv /\ [Next]_vars => [Atomic!ANext]_(Atomic!avars)
  BY HistoryStep DEF Atomic!ANext, Atomic!avars
<1> QED BY <1>1, <1>2, Invariance, PTL DEF Spec, RefinesAtomicTable, Atomic!ASpec

=============================================================================
