-------------------------- MODULE CompactionProofs --------------------------
(***************************************************************************)
(* Proofs about Compaction, second part, for any rows, inserts, attempts   *)
(* and settings: SnapshotIntact, NoMutationLost and HistoryOnlyGrows.      *)
(*                                                                         *)
(* The inductive invariant IInv has three layers.  Shape, of               *)
(* CompactionShape, holds of every execution.  Calm holds when no call     *)
(* fails or dies: the pointer's manifest and its files are there, and what *)
(* a rollback deletes nobody uses.  Kept holds when in addition every      *)
(* writer publishes: the live rows are what the operations so far leave.   *)
(***************************************************************************)
EXTENDS CompactionShape

\* Data and .meta of a fragment come and go together.
Paired(S) == \A n \in Name : Data(n) \in S <=> Meta(n) \in S

\* The names of the fragments of m: of rows, and of outputs published so far.
Unpublished == {"scan", "intent", "write", "lock", "check", "manifest",
                "rbFiles", "rbManifest", "rbIntent"}
Names == Row \cup {n \in 1 .. attempt : n = attempt => cpc \notin Unpublished}
Named(m) == \A f \in m.frags : f.name \in Names

Uncommitted == {"stage", "append", "publish", "swap"}

CalmTable ==
    /\ PointerHasManifest
    /\ Referenced(Live) \subseteq files
    /\ \A i \in DOMAIN log : Del(log[i].id, log[i].ver) \in files
    /\ Paired(files)
    /\ intents = [p \in {Writer, Compactor} |-> intents[p]]
    /\ intents[Compactor] \subseteq UNION {{Data(n), Meta(n)} : n \in Name}
    /\ Paired(intents[Compactor])
    /\ \A n \in DOMAIN manifests : Named(manifests[n])

CalmWriter ==
    /\ wpc \notin {"publish", "swap", "intent"} => intents[Writer] = {}
    /\ wpc # "idle" => Named(wbase)
    /\ wpc \in Uncommitted => wbase = Live
    /\ wpc \in {"append", "publish", "swap"} => Referenced(Result(wop, wbase)) \subseteq files
    /\ wpc = "swap" => /\ wbase.seq + 1 \in DOMAIN manifests
                       /\ manifests[wbase.seq + 1] = Result(wop, wbase)

CalmCompactor ==
    /\ cpc \in Scanned \cup {"scan"} => pinned.seq <= pointer /\ attempt >= 1
    /\ cpc \in {"scan", "intent", "write", "lock"} => mseq = 0
    /\ cpc \in {"lock", "check"} =>
          \/ OutputFiles \subseteq files
          \/ Live.seq > pinned.seq
          \/ wpc \in Uncommitted
    /\ cpc \in Locked => pointer = pinned.seq
    /\ cpc = "check" => mseq = NextSeq /\ NextSeq \notin DOMAIN manifests
    /\ cpc \in {"manifest", "swap"} => OutputFiles \subseteq files
    /\ cpc = "swap" => NextSeq \in DOMAIN manifests /\ manifests[NextSeq] = CompactManifest
    /\ cpc \in {"rbFiles", "rbManifest"} /\ mseq # 0 =>
          mseq \notin DOMAIN manifests /\ mseq <= Live.seq

Calm == CalmTable /\ CalmWriter /\ CalmCompactor

\* The operations whose effect the table has: acknowledged, or just published.
Effective == acked \cup (IF wpc \in {"intent", "return"} THEN {wop} ELSE {})

Reflects(R) ==
    /\ \A op \in Effective : op.row \in R <=> op.kind = "insert"
    /\ Range(setting.rows) \ {op.row : op \in begun} \subseteq R

Kept ==
    /\ log = <<>>
    /\ Reflects(LiveRows(manifests[pointer]))
    /\ cpc \in {"intent", "write", "lock"} \cup Locked /\ pointer = pinned.seq =>
          view = manifests[pointer]

IInv ==
    /\ Shape
    /\ Undisturbed => Calm
    /\ Undisturbed /\ Published => Kept

-----------------------------------------------------------------------------
(* Calm: without failures, every step keeps it *)

\* Removing data and .meta by name, in pairs, or adding them keeps the pairs.
LEMMA PairedFacts ==
    ASSUME NEW S, NEW T, Paired(S), Paired(T)
    PROVE  Paired(S \cup T) /\ Paired(S \ T) /\ Paired({})
BY DEF Paired

\* What a manifest references comes in pairs.
LEMMA ReferencedPaired ==
    ASSUME NEW m
    PROVE  Paired(Referenced(m)) /\ Paired(ReferencedByCompactor(m)) /\ Paired(OutputFiles)
<1>1. Paired(Referenced(m)) /\ Paired(ReferencedByCompactor(m))
    BY ReferencedNames, Zenon DEF Paired
<1>2. Paired(OutputFiles)
    BY FileFacts, Zenon DEF Paired, OutputFiles
<1> QED BY <1>1, <1>2

\* The names in a replay are those of its manifest.
LEMMA ReplayNamed ==
    ASSUME NEW m \in Manifest, NEW s \in Seq(Record), Named(m)
    PROVE  Named(Replay(m, s))
BY ReplayFrags DEF Named

\* A cleanup takes no file of the snapshot and no deletion vector, and takes data
\* and .meta together.
LEMMA CleanupFacts ==
    ASSUME NEW m, NEW R, m.frags \in SUBSET Frag, Referenced(m) \subseteq files,
           R = Referenced(m) \/ R = ReferencedByCompactor(m), Paired(files),
           intents[Writer] = {}, Paired(intents[Compactor]),
           intents[Compactor] \subseteq UNION {{Data(n), Meta(n)} : n \in Name}
    PROVE  /\ Referenced(m) \subseteq files \ Abandoned(R)
           /\ \A i, v : Del(i, v) \in files => Del(i, v) \in files \ Abandoned(R)
           /\ Paired(files \ Abandoned(R))
<1>1. Abandoned(R) = intents[Compactor] \ R
    BY DEF Abandoned
<1>2. Paired(R)
    BY ReferencedPaired, Zenon
<1>3. Paired(files \ Abandoned(R))
    BY <1>1, <1>2, PairedFacts, Zenon
<1>4. \A i, v : Del(i, v) \notin intents[Compactor]
    BY FileFacts
<1>5. \A f \in m.frags : Data(f.name) \in R /\ Meta(f.name) \in R
    BY ReferencedNames
<1>6. \A f \in m.frags : /\ Data(f.name) \in files /\ Meta(f.name) \in files
                         /\ f.ver # 0 => Del(f.id, f.ver) \in files
    BY ReferencedWithin, Zenon
<1>7. \A f \in m.frags : LET S == files \ Abandoned(R) IN
                         /\ Data(f.name) \in S /\ Meta(f.name) \in S
                         /\ f.ver # 0 => Del(f.id, f.ver) \in S
    BY <1>1, <1>4, <1>5, <1>6
<1>8. Referenced(m) \subseteq files \ Abandoned(R)
    BY <1>7, ReferencedWithin, Zenon
<1> QED BY <1>1, <1>3, <1>4, <1>8, Zenon

\* Every step of an execution without failures keeps Calm.
LEMMA CalmStep ==
    ASSUME Shape, Calm, Undisturbed, Next
    PROVE  Calm'
<1>1. /\ setting \in Settings /\ begun \in SUBSET Ops /\ acked \in SUBSET begun
      /\ lock \in {Nobody, Writer, Compactor} /\ DirOK /\ WriterOK /\ CompactorOK
      /\ CalmTable /\ CalmWriter /\ CalmCompactor
    BY DEF Shape, Calm
<1>2. Nobody # Writer /\ Nobody # Compactor /\ Writer # Compactor
    BY DEF Nobody, Writer, Compactor
<1>3. Known \in SUBSET Row
    BY <1>1, KnownFacts
<1>4. /\ PointerHasManifest /\ pointer \in DOMAIN manifests
      /\ Good(Live, Known) /\ Live \in Manifest /\ Live.seq \in Nat
      /\ pointer \in Nat /\ 1 <= pointer /\ pointer <= Live.seq
      /\ Live.frags \in SUBSET Frag
    <2>1. PointerHasManifest
        BY <1>1, Zenon DEF CalmTable
    <2>2. Good(Live, Known)
        BY <1>1, <2>1, LiveGood
    <2> QED BY <1>1, <2>1, <2>2, LiveGood DEF PointerHasManifest, Good, Manifest
<1>5. /\ log \in Seq(Record) /\ manifests[pointer] \in Manifest
      /\ Live = Replay(manifests[pointer], log)
    BY <1>1, <1>4 DEF DirOK, Live, Good
<1>6. Named(Live)
    <2>1. Named(manifests[pointer])
        BY <1>1, <1>4 DEF CalmTable
    <2> QED BY <1>5, <2>1, ReplayNamed
<1>7. \A n \in DOMAIN manifests : n \in Nat /\ n >= 1
    BY <1>1 DEF DirOK
<1>8. cpc \in Scanned \cup {"scan"} => pinned.seq \in Nat /\ pinned.seq >= 1
    BY <1>1 DEF CompactorOK, Good, Manifest
<1>9. attempt \in Nat /\ mseq \in Nat
    BY <1>1 DEF CompactorOK
<1>10. wpc # "idle" => wbase \in Manifest /\ wbase.seq \in Nat /\ wbase.frags \in SUBSET Frag
    BY <1>1 DEF WriterOK, Good, Manifest
<1>11. ASSUME pointer' = pointer, log' = log, manifests'[pointer] = manifests[pointer]
       PROVE  Live' = Live
    BY <1>11 DEF Live
<1>12. ASSUME attempt' = attempt, cpc \in Unpublished \/ cpc' \notin Unpublished
       PROVE  Names \subseteq Names'
    BY <1>12 DEF Names
<1>13. wpc # "idle" => /\ Good(Result(wop, wbase), Known) /\ Result(wop, wbase).seq = wbase.seq + 1
                       /\ Named(Result(wop, wbase))
    <2> SUFFICES ASSUME wpc # "idle"
                 PROVE  /\ Good(Result(wop, wbase), Known) /\ Result(wop, wbase).seq = wbase.seq + 1
                        /\ Named(Result(wop, wbase))
        OBVIOUS
    <2>1. /\ wop \in Ops /\ wop \in begun /\ Good(wbase, Before)
          /\ wop.kind # "insert" => wop.row \in LiveRows(wbase)
        BY <1>1 DEF WriterOK
    <2>2. wop.kind = "insert" => wop.row \in Known
        BY <2>1, Zenon DEF Known
    <2>3. /\ Good(Result(wop, wbase), Known) /\ Result(wop, wbase).seq = wbase.seq + 1
          /\ \A f \in Result(wop, wbase).frags :
                (f.name = wop.row /\ wop.row \in Row) \/ \E g \in wbase.frags : f.name = g.name
        BY <1>3, <2>1, <2>2, ResultFacts, Zenon DEF Before
    <2>4. Named(wbase)
        BY <1>1 DEF CalmWriter
    <2> QED BY <2>3, <2>4 DEF Named, Names
<1>14. \A m : Named(m) /\ Names \subseteq Names' => Named(m)'
    BY DEF Named
\* The frame of a writer's step.
<1>20. ASSUME UNCHANGED compactor, cpc \notin Locked,
              pointer' \in Nat, pointer <= pointer', Live'.seq \in Nat, Live.seq <= Live'.seq,
              \/ files \subseteq files' /\ wpc \notin Uncommitted
              \/ Live'.seq > Live.seq
              \/ wpc' \in Uncommitted,
              \A n \in DOMAIN manifests' : n \in DOMAIN manifests \/ n > Live.seq
       PROVE  CalmCompactor' /\ Names' = Names
    <2>1. /\ cpc' = cpc /\ attempt' = attempt /\ pinned' = pinned /\ view' = view
          /\ out' = out /\ mseq' = mseq
        BY <1>20 DEF compactor
    <2>2. OutputFiles' = OutputFiles /\ Names' = Names
        BY <2>1 DEF OutputFiles, Names
    <2>3. cpc' \in Scanned \cup {"scan"} => pinned'.seq <= pointer' /\ attempt' >= 1
        BY <1>1, <1>4, <1>8, <1>20, <2>1 DEF CalmCompactor
    <2>4. cpc' \in {"lock", "check"} =>
              \/ OutputFiles' \subseteq files' \/ Live'.seq > pinned'.seq \/ wpc' \in Uncommitted
        <3> SUFFICES ASSUME cpc = "lock", wpc' \notin Uncommitted
                     PROVE  OutputFiles \subseteq files' \/ Live'.seq > pinned.seq
            BY <1>20, <2>1, <2>2 DEF Locked
        <3>1. /\ OutputFiles \subseteq files \/ Live.seq > pinned.seq \/ wpc \in Uncommitted
              /\ pinned.seq <= pointer /\ pinned.seq \in Nat
            BY <1>1, <1>8 DEF CalmCompactor, Scanned, Rewritten
        <3> QED BY <1>4, <1>20, <3>1
    <2>5. cpc' \in {"rbFiles", "rbManifest"} /\ mseq' # 0 =>
              mseq' \notin DOMAIN manifests' /\ mseq' <= Live'.seq
        BY <1>1, <1>4, <1>9, <1>20, <2>1 DEF CalmCompactor
    <2>6. cpc' \in {"scan", "intent", "write", "lock"} => mseq' = 0
        BY <1>1, <2>1, Zenon DEF CalmCompactor
    <2> QED BY <1>20, <2>1, <2>2, <2>3, <2>4, <2>5, <2>6 DEF CalmCompactor, Locked
\* The frame of a compactor's step.
<1>21. ASSUME UNCHANGED writer, Names \subseteq Names', Live' = Live \/ wpc = "idle",
              intents'[Writer] = intents[Writer] \/ intents'[Writer] = {},
              wpc \in {"append", "publish", "swap"} => Referenced(Result(wop, wbase)) \subseteq files',
              wpc = "swap" => /\ wbase.seq + 1 \in DOMAIN manifests'
                              /\ manifests'[wbase.seq + 1] = manifests[wbase.seq + 1]
       PROVE  CalmWriter'
    <2>1. wpc' = wpc /\ wop' = wop /\ wbase' = wbase
        BY <1>21, Zenon DEF writer
    <2>2. wpc # "idle" => Named(wbase)'
        BY <1>1, <1>14, <1>21, <2>1, Zenon DEF CalmWriter, Named
    <2>3. Uncommitted' = Uncommitted /\ "idle" \notin Uncommitted
        BY DEF Uncommitted
    <2> QED BY <1>1, <1>21, <2>1, <2>2, <2>3, Zenon DEF CalmWriter
<1>30. ASSUME NEW op \in Ops, Begin(op) PROVE Calm'
    <2>1. /\ wpc = "idle" /\ lock = Nobody
          /\ wpc' = "stage" /\ wop' = op /\ wbase' = Live
          /\ files' = files \ Abandoned(Referenced(Live)) /\ intents' = NoIntents
          /\ manifests' = UpTo(manifests, Live.seq)
          /\ pointer' = pointer /\ log' = log /\ UNCHANGED compactor
        BY <1>30, Zenon DEF Begin, ManifestsUpTo
    <2>2. /\ pointer \in DOMAIN manifests'
          /\ \A n \in DOMAIN manifests' : n \in DOMAIN manifests /\ manifests'[n] = manifests[n]
        BY <1>4, <2>1, Zenon DEF UpTo
    <2>3. Live' = Live
        BY <1>11, <2>1, <2>2
    <2>4. cpc \notin Locked
        BY <1>1, <1>2, <2>1 DEF CompactorOK
    <2>5. CalmCompactor' /\ Names' = Names
        BY <1>4, <1>20, <2>1, <2>2, <2>3, <2>4 DEF Uncommitted
    <2>6. /\ Referenced(Live) \subseteq files'
          /\ \A i, v : Del(i, v) \in files => Del(i, v) \in files'
          /\ Paired(files')
        BY <1>1, <1>4, <2>1, CleanupFacts DEF CalmTable, CalmWriter
    <2>7. /\ intents' = [p \in {Writer, Compactor} |-> intents'[p]]
          /\ intents'[Writer] = {} /\ intents'[Compactor] = {}
        BY <2>1 DEF NoIntents
    <2>8. \A n \in DOMAIN manifests' : \A g \in manifests'[n].frags : g.name \in Names'
        BY <1>1, <2>2, <2>5 DEF CalmTable, Named
    <2>9. CalmTable'
        BY <1>1, <2>1, <2>2, <2>3, <2>6, <2>7, <2>8 DEF CalmTable, PointerHasManifest, Paired, Named
    <2>10. CalmWriter'
        BY <1>6, <2>1, <2>3, <2>5, <2>7 DEF CalmWriter, Named, Uncommitted
    <2> QED BY <2>5, <2>9, <2>10, Zenon DEF Calm
<1>31. ASSUME Stage PROVE Calm'
    <2>1. /\ wpc = "stage" /\ files' = files \cup NewFiles(wop, wbase)
          /\ intents' = IF wop.kind = "walDelete" THEN intents
                        ELSE [intents EXCEPT ![Writer] = NewFiles(wop, wbase)]
          /\ wpc' = IF wop.kind = "walDelete" THEN "append" ELSE "publish"
          /\ pointer' = pointer /\ manifests' = manifests /\ log' = log /\ wop' = wop
          /\ wbase' = wbase /\ UNCHANGED compactor
        BY <1>31 DEF Stage
    <2>2. Live' = Live
        BY <1>11, <2>1
    <2>3. cpc \notin Locked
        BY <1>1, <1>2, <2>1 DEF CompactorOK, WriterOK
    <2>4. CalmCompactor' /\ Names' = Names
        BY <1>4, <1>20, <2>1, <2>2, <2>3 DEF Uncommitted
    <2>5. intents = [p \in {Writer, Compactor} |-> intents[p]] /\ intents[Writer] = {}
        BY <1>1, <2>1 DEF CalmTable, CalmWriter
    <2>6. /\ intents' = [p \in {Writer, Compactor} |-> intents'[p]]
          /\ intents'[Compactor] = intents[Compactor]
          /\ wpc' = "append" => intents'[Writer] = {}
        BY <1>2, <2>1, <2>5
    <2>7. Paired(files')
        BY <1>1, <2>1, PairedFacts, ReferencedPaired, Zenon DEF CalmTable, NewFiles
    <2>8. CalmTable'
        BY <1>1, <1>4, <2>1, <2>2, <2>4, <2>6, <2>7 DEF CalmTable, PointerHasManifest, Named, Paired
    <2>9. Referenced(Result(wop, wbase)) \subseteq files'
        BY <1>1, <2>1 DEF CalmTable, CalmWriter, NewFiles, Uncommitted
    <2>10. CalmWriter'
        BY <1>1, <2>1, <2>2, <2>4, <2>6, <2>9 DEF CalmWriter, Named, Uncommitted
    <2> QED BY <2>4, <2>8, <2>10 DEF Calm
<1>32. ASSUME AppendRecord PROVE Calm'
    <2> DEFINE f == CHOOSE g \in wbase.frags : wop.row \in g.rows \ g.dead
               r == [seq |-> wbase.seq + 1, id |-> f.id, ver |-> f.ver + 1,
                     dead |-> f.dead \cup {wop.row}]
    <2>1. /\ wpc = "append" /\ log' = Append(log, r) /\ wpc' = "return"
          /\ pointer' = pointer /\ manifests' = manifests /\ files' = files /\ intents' = intents
          /\ wop' = wop /\ wbase' = wbase /\ UNCHANGED compactor
        BY <1>32 DEF AppendRecord
    <2>2. /\ wop \in Ops /\ Good(wbase, Before) /\ wop.kind = "walDelete"
          /\ wop.row \in LiveRows(wbase) /\ Before = Known
        BY <1>1, <2>1 DEF WriterOK, Before
    <2>3. wbase = Live /\ Referenced(Result(wop, wbase)) \subseteq files /\ intents[Writer] = {}
        BY <1>1, <2>1 DEF CalmWriter, Uncommitted
    <2>4. f \in wbase.frags /\ wop.row \in f.rows \ f.dead
        BY <2>2 DEF LiveRows
    <2> HIDE DEF f
    <2>5. r \in Record /\ r.seq = wbase.seq + 1 /\ r.id = f.id /\ r.ver = f.ver + 1
        <3>1. f.id \in Nat /\ f.ver \in Nat /\ f.dead \in SUBSET Row
            BY <1>10, <2>1, <2>4, Zenon DEF Frag
        <3>2. wop.row \in Row
            BY <2>2, Zenon DEF Ops, Row
        <3> QED BY <1>10, <2>1, <3>1, <3>2 DEF Record
    <2> HIDE DEF r
    <2>6. Del(r.id, r.ver) \in files
        <3>1. Result(wop, wbase) = Kill(wbase, wop.row)
            BY <2>2, Zenon DEF Result
        <3>2. Del(f.id, f.ver + 1) \in Referenced(Kill(wbase, wop.row))
            BY <1>3, <2>2, <2>4, KillFacts, Zenon
        <3> QED BY <2>3, <2>5, <3>1, <3>2, Zenon
    <2>7. Live' = ApplyRecord(Live, r)
        BY <1>5, <2>1, <2>5, ReplaySteps, Zenon DEF Live
    <2>8. Live'.seq \in Nat /\ Live.seq < Live'.seq
        <3>1. r.seq <= ApplyRecord(Live, r).seq /\ ApplyRecord(Live, r) \in Manifest
            BY <1>4, <2>5, ApplyFacts
        <3> QED BY <1>4, <2>3, <2>5, <2>7, <3>1 DEF Manifest
    <2>9. Referenced(Live') \subseteq files
        <3>1. <<>> \in Seq(Record) /\ Append(<<>>, r) \in Seq(Record)
              /\ Len(Append(<<>>, r)) = 1 /\ Append(<<>>, r)[1] = r
            BY <2>5
        <3>2. Replay(Live, Append(<<>>, r)) = ApplyRecord(Live, r)
            <4>1. Replay(Live, Append(<<>>, r)) = ApplyRecord(Replay(Live, <<>>), r)
                BY <2>5, <3>1, ReplaySteps, Zenon
            <4>2. Replay(Live, <<>>) = Live
                BY ReplaySteps, Zenon
            <4> QED BY <4>1, <4>2, Zenon
        <3>3. \A i \in 1 .. Len(Append(<<>>, r)) :
                  Del(Append(<<>>, r)[i].id, Append(<<>>, r)[i].ver) \in files
            BY <2>6, <3>1
        <3>4. Referenced(Live) \subseteq files
            BY <1>1 DEF CalmTable
        <3>5. Referenced(Replay(Live, Append(<<>>, r))) \subseteq files
            BY <1>4, <3>1, <3>3, <3>4, ReplayReferences, Zenon
        <3> QED BY <2>7, <3>2, <3>5
    <2>10. \A i \in DOMAIN log' : Del(log'[i].id, log'[i].ver) \in files
        BY <1>1, <1>5, <2>1, <2>5, <2>6 DEF CalmTable
    <2>11. cpc \notin Locked
        BY <1>1, <1>2, <2>1 DEF CompactorOK, WriterOK
    <2>12. CalmCompactor' /\ Names' = Names
        BY <1>4, <1>20, <2>1, <2>8, <2>11
    <2>13. CalmTable'
        BY <1>1, <1>4, <2>1, <2>9, <2>10, <2>12 DEF CalmTable, PointerHasManifest, Named, Paired
    <2>14. CalmWriter'
        BY <1>1, <2>1, <2>3, <2>12 DEF CalmWriter, Named, Uncommitted
    <2> QED BY <2>12, <2>13, <2>14 DEF Calm
<1>33. ASSUME Publish PROVE Calm'
    <2>1. /\ wpc = "publish" /\ wpc' = "swap" /\ manifests' = With(manifests, Result(wop, wbase))
          /\ pointer' = pointer /\ log' = log /\ files' = files /\ intents' = intents
          /\ wop' = wop /\ wbase' = wbase /\ UNCHANGED compactor
        BY <1>33 DEF Publish
    <2>2. wbase = Live /\ Referenced(Result(wop, wbase)) \subseteq files
        BY <1>1, <2>1 DEF CalmWriter, Uncommitted
    <2>3. Result(wop, wbase).seq = wbase.seq + 1 /\ Named(Result(wop, wbase))
        BY <1>13, <2>1
    <2>4. /\ DOMAIN manifests' = DOMAIN manifests \cup {wbase.seq + 1}
          /\ manifests'[wbase.seq + 1] = Result(wop, wbase)
          /\ \A n \in DOMAIN manifests : n # wbase.seq + 1 => manifests'[n] = manifests[n]
        BY <2>1, <2>3 DEF With
    <2>5. Live' = Live
        BY <1>4, <1>11, <2>1, <2>2, <2>4
    <2>6. cpc \notin Locked
        BY <1>1, <1>2, <2>1 DEF CompactorOK, WriterOK
    <2>7. CalmCompactor' /\ Names' = Names
        BY <1>4, <1>20, <2>1, <2>2, <2>4, <2>5, <2>6 DEF Uncommitted
    <2>8. \A n \in DOMAIN manifests' : \A g \in manifests'[n].frags : g.name \in Names'
        BY <1>1, <2>3, <2>4, <2>7, Zenon DEF CalmTable, Named
    <2>9. CalmTable'
        BY <1>1, <1>4, <2>1, <2>4, <2>5, <2>8, Zenon DEF CalmTable, PointerHasManifest, Paired, Named
    <2>10. CalmWriter'
        BY <1>1, <2>1, <2>2, <2>4, <2>5, <2>7, Zenon DEF CalmWriter, Named, Uncommitted
    <2> QED BY <2>7, <2>9, <2>10 DEF Calm
<1>34. ASSUME Swap PROVE Calm'
    <2>1. /\ wpc = "swap" /\ wpc' = "intent" /\ pointer' = wbase.seq + 1
          /\ manifests' = manifests /\ log' = log /\ files' = files /\ intents' = intents
          /\ wop' = wop /\ wbase' = wbase /\ UNCHANGED compactor
        BY <1>34, Zenon DEF Swap
    <2>2. /\ wbase = Live /\ Referenced(Result(wop, wbase)) \subseteq files
          /\ wbase.seq + 1 \in DOMAIN manifests /\ manifests[wbase.seq + 1] = Result(wop, wbase)
        BY <1>1, <2>1 DEF CalmWriter, Uncommitted
    <2>3. Result(wop, wbase).seq = wbase.seq + 1
        BY <1>13, <2>1
    <2>4. \A i \in 1 .. Len(log) : log[i].seq <= Result(wop, wbase).seq
        <3> SUFFICES ASSUME NEW i \in 1 .. Len(log) PROVE log[i].seq <= Result(wop, wbase).seq
            OBVIOUS
        <3>1. log[i].seq <= Live.seq
            BY <1>5, ReplayReaches
        <3>2. log[i] \in Record
            BY <1>5
        <3>3. log[i].seq \in Nat
            BY <3>2 DEF Record
        <3> QED BY <1>4, <2>2, <2>3, <3>1, <3>3
    <2>5. Live' = Result(wop, wbase)
        <3>1. Replay(Result(wop, wbase), log) = Result(wop, wbase)
            BY <1>5, <2>4, ReplayOfOld
        <3> QED BY <2>1, <2>2, <3>1 DEF Live
    <2>6. Live'.seq = Live.seq + 1
        BY <2>2, <2>3, <2>5
    <2>7. cpc \notin Locked
        BY <1>1, <1>2, <2>1 DEF CompactorOK, WriterOK
    <2>8. CalmCompactor' /\ Names' = Names
        BY <1>4, <1>20, <2>1, <2>2, <2>6, <2>7
    <2>9. CalmTable'
        BY <1>1, <2>1, <2>2, <2>5, <2>8 DEF CalmTable, PointerHasManifest, Paired, Named
    <2>10. CalmWriter'
        BY <1>1, <2>1, <2>8 DEF CalmWriter, Named, Uncommitted
    <2> QED BY <2>8, <2>9, <2>10 DEF Calm
<1>35. ASSUME RemoveIntent \/ Return PROVE Calm'
    <2>1. /\ pointer' = pointer /\ manifests' = manifests /\ log' = log /\ files' = files
          /\ UNCHANGED compactor
          /\ \/ /\ wpc = "intent" /\ wpc' = "return" /\ wop' = wop /\ wbase' = wbase
                /\ intents' = [intents EXCEPT ![Writer] = {}]
             \/ wpc = "return" /\ wpc' = "idle" /\ intents' = intents
        BY <1>35 DEF RemoveIntent, Return, WriterGone, table
    <2>2. Live' = Live
        BY <1>11, <2>1
    <2>3. cpc \notin Locked
        BY <1>1, <1>2, <2>1 DEF CompactorOK, WriterOK
    <2>4. CalmCompactor' /\ Names' = Names
        BY <1>4, <1>20, <2>1, <2>2, <2>3 DEF Uncommitted
    <2>5. /\ intents = [p \in {Writer, Compactor} |-> intents[p]]
          /\ wpc = "return" => intents[Writer] = {}
        BY <1>1, <2>1 DEF CalmTable, CalmWriter
    <2>6. /\ intents' = [p \in {Writer, Compactor} |-> intents'[p]]
          /\ intents'[Compactor] = intents[Compactor] /\ intents'[Writer] = {}
        BY <1>2, <2>1, <2>5
    <2>7. CalmTable'
        BY <1>1, <1>4, <2>1, <2>2, <2>4, <2>6 DEF CalmTable, PointerHasManifest, Named, Paired
    <2>8. CalmWriter'
        BY <1>1, <2>1, <2>4, <2>6 DEF CalmWriter, Named, Uncommitted
    <2> QED BY <2>4, <2>7, <2>8 DEF Calm
<1>40. ASSUME Pin PROVE Calm'
    <2>1. /\ cpc = "idle" /\ lock = Nobody
          /\ attempt' = attempt + 1 /\ pinned' = Live /\ pointer' = Live.seq /\ log' = <<>>
          /\ files' = files \ Abandoned(ReferencedByCompactor(Live)) /\ intents' = NoIntents
          /\ manifests' = With(UpTo(manifests, Live.seq), Live)
          /\ cpc' = "scan" /\ out' = {} /\ mseq' = 0 /\ UNCHANGED writer
        BY <1>40 DEF Pin, PinTo, ManifestsUpTo
    <2>2. wpc = "idle" /\ wpc' = "idle"
        BY <1>1, <1>2, <2>1 DEF WriterOK, writer
    <2>3. /\ Live.seq \in DOMAIN manifests' /\ manifests'[Live.seq] = Live
          /\ \A n \in DOMAIN manifests' : n # Live.seq =>
                n \in DOMAIN manifests /\ manifests'[n] = manifests[n]
        BY <2>1 DEF With, UpTo
    <2>4. Live' = Live
        BY <2>1, <2>3, ReplaySteps DEF Live
    <2>5. Names \subseteq Names'
        BY <1>9, <2>1 DEF Names, Unpublished
    <2>6. /\ Referenced(Live) \subseteq files' /\ Paired(files')
        BY <1>1, <1>4, <2>1, <2>2, CleanupFacts, Zenon DEF CalmTable, CalmWriter
    <2>7. /\ intents' = [p \in {Writer, Compactor} |-> intents'[p]]
          /\ intents'[Writer] = {} /\ intents'[Compactor] = {}
        BY <2>1, Zenon DEF NoIntents
    <2>8. \A n \in DOMAIN manifests' : \A g \in manifests'[n].frags : g.name \in Names'
        BY <1>1, <1>6, <2>3, <2>5, Zenon DEF CalmTable, Named
    <2>9. CalmTable'
        BY <2>1, <2>3, <2>4, <2>6, <2>7, <2>8 DEF CalmTable, PointerHasManifest, Paired, Named
    <2>10. CalmWriter'
        BY <2>2, <2>7, Zenon DEF CalmWriter, Uncommitted
    <2>11. CalmCompactor'
        BY <1>4, <1>9, <2>1, <2>4 DEF CalmCompactor, Locked
    <2> QED BY <2>9, <2>10, <2>11 DEF Calm
<1>41. ASSUME UNCHANGED <<pointer, manifests, log, files, writer>>, Names \subseteq Names',
              intents' = [p \in {Writer, Compactor} |-> intents'[p]],
              intents'[Writer] = intents[Writer],
              intents'[Compactor] \subseteq UNION {{Data(n), Meta(n)} : n \in Name},
              Paired(intents'[Compactor])
       PROVE  CalmTable' /\ CalmWriter' /\ Live' = Live
    <2>1. Live' = Live
        BY <1>11, <1>41
    <2>2. CalmTable'
        BY <1>1, <1>41, <2>1 DEF CalmTable, PointerHasManifest, Named, Paired
    <2>3. CalmWriter'
        BY <1>1, <1>21, <1>41, <2>1 DEF CalmWriter
    <2> QED BY <2>1, <2>2, <2>3, Zenon
<1>42. /\ intents = [p \in {Writer, Compactor} |-> intents[p]]
       /\ intents[Compactor] \subseteq UNION {{Data(n), Meta(n)} : n \in Name}
       /\ Paired(intents[Compactor])
    BY <1>1 DEF CalmTable
<1>43. ASSUME Scan PROVE Calm'
    <2>1. /\ cpc = "scan" /\ cpc' \in {"intent", "done"}
          /\ UNCHANGED <<pointer, manifests, log, files, intents, writer, attempt, pinned, mseq>>
        BY <1>43 DEF Scan, Done, table
    <2>2. CalmTable' /\ CalmWriter' /\ Live' = Live
        BY <1>12, <1>41, <1>42, <2>1 DEF Unpublished
    <2>3. CalmCompactor'
        BY <1>1, <2>1 DEF CalmCompactor, Scanned, Rewritten, Locked
    <2> QED BY <2>2, <2>3 DEF Calm
<1>44. ASSUME WriteIntent PROVE Calm'
    <2>1. /\ cpc = "intent" /\ cpc' = "write" /\ intents' = [intents EXCEPT ![Compactor] = OutputFiles]
          /\ UNCHANGED <<pointer, manifests, log, files, writer, attempt, pinned, mseq>>
        BY <1>44 DEF WriteIntent
    <2>2. /\ intents' = [p \in {Writer, Compactor} |-> intents'[p]]
          /\ intents'[Writer] = intents[Writer] /\ intents'[Compactor] = OutputFiles
        BY <1>2, <1>42, <2>1, Zenon
    <2>3. OutputFiles \subseteq UNION {{Data(n), Meta(n)} : n \in Name} /\ Paired(OutputFiles)
        BY <1>9, ReferencedPaired DEF OutputFiles, Name
    <2>4. CalmTable' /\ CalmWriter' /\ Live' = Live
        BY <1>12, <1>41, <2>1, <2>2, <2>3 DEF Unpublished
    <2>5. CalmCompactor'
        BY <1>1, <2>1 DEF CalmCompactor, Scanned, Rewritten, Locked
    <2> QED BY <2>4, <2>5 DEF Calm
<1>45. ASSUME WriteOutput PROVE Calm'
    <2>1. /\ cpc = "write" /\ cpc' = "lock" /\ files' = files \cup OutputFiles
          /\ UNCHANGED <<pointer, manifests, log, intents, writer, attempt, pinned, view, mseq>>
        BY <1>45 DEF WriteOutput
    <2>2. Live' = Live /\ Names \subseteq Names' /\ OutputFiles' = OutputFiles
        BY <1>11, <1>12, <2>1 DEF Unpublished, OutputFiles
    <2>3. Paired(files')
        BY <1>1, <2>1, PairedFacts, ReferencedPaired, Zenon DEF CalmTable
    <2>4. CalmTable'
        BY <1>1, <2>1, <2>2, <2>3 DEF CalmTable, PointerHasManifest, Named, Paired
    <2>5. CalmWriter'
        BY <1>1, <1>21, <2>1, <2>2 DEF CalmWriter
    <2>6. CalmCompactor'
        BY <1>1, <2>1, <2>2 DEF CalmCompactor, Scanned, Rewritten, Locked
    <2> QED BY <2>4, <2>5, <2>6 DEF Calm
<1>46. ASSUME Lock PROVE Calm'
    <2>1. /\ cpc = "lock"
          /\ UNCHANGED <<pointer, manifests, log, files, intents, writer, attempt, pinned, view>>
          /\ \/ cpc' = "rbFiles" /\ mseq' = mseq
             \/ /\ cpc' = "check" /\ mseq' = NextSeq /\ pointer = pinned.seq
                /\ NextSeq \notin DOMAIN manifests
        BY <1>46 DEF Lock, table
    <2>2. CalmTable' /\ CalmWriter' /\ Live' = Live
        BY <1>12, <1>41, <1>42, <2>1 DEF Unpublished
    <2>3. OutputFiles' = OutputFiles /\ NextSeq' = NextSeq /\ wpc' = wpc
        BY <2>1 DEF OutputFiles, NextSeq, writer
    <2>4. /\ mseq = 0 /\ pinned.seq <= pointer /\ attempt >= 1
          /\ OutputFiles \subseteq files \/ Live.seq > pinned.seq \/ wpc \in Uncommitted
        BY <1>1, <2>1 DEF CalmCompactor, Scanned, Rewritten
    <2>5. CalmCompactor'
        BY <2>1, <2>2, <2>3, <2>4 DEF CalmCompactor, Scanned, Rewritten, Locked
    <2> QED BY <2>2, <2>5 DEF Calm
<1>47. cpc \in Locked => wpc = "idle" /\ out = Output
    BY <1>1, <1>2 DEF CompactorOK, WriterOK
<1>48. ASSUME CheckOutput PROVE Calm'
    <2>1. /\ cpc = "check"
          /\ UNCHANGED <<pointer, manifests, log, files, intents, writer, attempt, pinned, view, mseq>>
          /\ \/ cpc' = "manifest" /\ \A f \in out : Meta(f.name) \in files
             \/ cpc' = "rbFiles" /\ ~\A f \in out : Meta(f.name) \in files
        BY <1>48 DEF CheckOutput, table
    <2>2. CalmTable' /\ CalmWriter' /\ Live' = Live
        BY <1>12, <1>41, <1>42, <2>1 DEF Unpublished
    <2>3. OutputFiles' = OutputFiles /\ NextSeq' = NextSeq
        BY <2>1 DEF OutputFiles, NextSeq
    <2>4. /\ mseq = NextSeq /\ pinned.seq <= pointer /\ attempt >= 1 /\ pointer = pinned.seq
          /\ NextSeq \notin DOMAIN manifests
          /\ OutputFiles \subseteq files \/ Live.seq > pinned.seq \/ wpc \in Uncommitted
        BY <1>1, <2>1 DEF CalmCompactor, Scanned, Rewritten, Locked
    <2>5. wpc = "idle" /\ out = Output
        BY <1>47, <2>1 DEF Locked
    <2>6. OutputFiles \subseteq files <=> \A f \in out : Meta(f.name) \in files
        <3>1. attempt \in Name /\ (Data(attempt) \in files <=> Meta(attempt) \in files)
            BY <1>1, <1>9 DEF CalmTable, Paired, Name
        <3>2. \A f \in out : f.name = attempt
            BY <2>5 DEF Output, Fragment
        <3>3. out = {} <=> LiveRows(view) = {}
            BY <2>5 DEF Output
        <3> QED BY <3>1, <3>2, <3>3 DEF OutputFiles
    <2>7. cpc' = "rbFiles" => mseq <= Live.seq
        BY <1>4, <1>8, <2>1, <2>4, <2>5, <2>6 DEF Scanned, Rewritten, Locked, NextSeq, Uncommitted
    <2>8. CalmCompactor'
        BY <2>1, <2>2, <2>3, <2>4, <2>6, <2>7 DEF CalmCompactor, Scanned, Rewritten, Locked
    <2> QED BY <2>2, <2>8 DEF Calm
<1>49. ASSUME PublishCompacted PROVE Calm'
    <2>1. /\ cpc = "manifest" /\ cpc' = "swap" /\ manifests' = With(manifests, CompactManifest)
          /\ UNCHANGED <<pointer, log, files, intents, writer, attempt, pinned, view, out, mseq>>
        BY <1>49 DEF PublishCompacted
    <2>2. /\ pointer = pinned.seq /\ attempt >= 1 /\ OutputFiles \subseteq files
        BY <1>1, <2>1 DEF CalmCompactor, Scanned, Rewritten, Locked
    <2>3. wpc = "idle" /\ out = Output
        BY <1>47, <2>1 DEF Locked
    <2>4. /\ CompactManifest.seq = NextSeq /\ \A f \in CompactManifest.frags : f.name = attempt
        BY <1>1, <1>3, <1>9, <2>1, <2>3, OutputGood DEF CompactorOK, Scanned, Rewritten, Locked
    <2>5. /\ DOMAIN manifests' = DOMAIN manifests \cup {NextSeq}
          /\ manifests'[NextSeq] = CompactManifest
          /\ \A n \in DOMAIN manifests : n # NextSeq => manifests'[n] = manifests[n]
        BY <2>1, <2>4 DEF With
    <2>6. pointer # NextSeq
        BY <1>4, <2>2 DEF NextSeq
    <2>7. Live' = Live
        BY <1>4, <1>11, <2>1, <2>5, <2>6
    <2>8. Names \subseteq Names' /\ attempt \in Names'
        BY <1>9, <1>12, <2>1, <2>2 DEF Unpublished, Names
    <2>9. \A n \in DOMAIN manifests' : \A g \in manifests'[n].frags : g.name \in Names'
        BY <1>1, <2>4, <2>5, <2>8, Zenon DEF CalmTable, Named
    <2>10. CalmTable'
        BY <1>1, <1>4, <2>1, <2>5, <2>7, <2>9, Zenon DEF CalmTable, PointerHasManifest, Paired, Named
    <2>11. CalmWriter'
        BY <1>1, <1>21, <2>1, <2>3, <2>7, <2>8, Zenon
    <2>12. OutputFiles' = OutputFiles /\ NextSeq' = NextSeq /\ CompactManifest' = CompactManifest
        BY <2>1, Zenon DEF OutputFiles, NextSeq, CompactManifest
    <2>13. CalmCompactor'
        BY <1>4, <2>1, <2>2, <2>5, <2>12 DEF CalmCompactor, Scanned, Rewritten, Locked
    <2> QED BY <2>10, <2>11, <2>13 DEF Calm
<1>50. ASSUME SwapCompacted PROVE Calm'
    <2>1. /\ cpc = "swap" /\ cpc' = "finish" /\ pointer' = NextSeq
          /\ UNCHANGED <<manifests, log, files, intents, writer, attempt, pinned, view, out, mseq>>
        BY <1>50, Zenon DEF SwapCompacted
    <2>2. /\ pointer = pinned.seq /\ attempt >= 1 /\ OutputFiles \subseteq files
          /\ NextSeq \in DOMAIN manifests /\ manifests[NextSeq] = CompactManifest
        BY <1>1, <2>1, Zenon DEF CalmCompactor, Scanned, Rewritten, Locked
    <2>3. wpc = "idle" /\ out = Output
        BY <1>47, <2>1, Zenon DEF Locked
    <2>4. CompactManifest \in Manifest /\ Referenced(CompactManifest) \subseteq files
        BY <1>1, <1>3, <1>9, <2>1, <2>2, <2>3, OutputGood, Zenon
           DEF CompactorOK, Scanned, Rewritten, Locked, Good
    <2>5. Live' = Replay(CompactManifest, log)
        BY <2>1, <2>2, Zenon DEF Live
    <2>6. \A i \in 1 .. Len(log) : Del(log[i].id, log[i].ver) \in files
        BY <1>1, <1>5 DEF CalmTable
    <2>7. Referenced(Live') \subseteq files
        BY <1>5, <2>4, <2>5, <2>6, ReplayReferences, Zenon
    <2>8. Names \subseteq Names'
        BY <1>12, <2>1, Zenon DEF Unpublished
    <2>9. CalmTable'
        BY <1>1, <2>1, <2>2, <2>7, <2>8, Zenon DEF CalmTable, PointerHasManifest, Paired, Named
    <2>10. CalmWriter'
        BY <1>1, <1>21, <2>1, <2>3, <2>8, Zenon
    <2>11. CalmCompactor'
        BY <1>4, <2>1, <2>2 DEF CalmCompactor, Scanned, Rewritten, Locked, NextSeq
    <2> QED BY <2>9, <2>10, <2>11 DEF Calm
<1>51. ASSUME Finish \/ RollbackIntent PROVE Calm'
    <2>1. /\ intents' = [intents EXCEPT ![Compactor] = {}] /\ cpc' \in {"idle", "done"}
          /\ UNCHANGED <<pointer, manifests, log, files, writer, attempt, pinned, mseq>>
        BY <1>51, Zenon DEF Finish, RollbackIntent, Done
    <2>2. /\ intents' = [p \in {Writer, Compactor} |-> intents'[p]]
          /\ intents'[Writer] = intents[Writer] /\ intents'[Compactor] = {}
        BY <1>2, <1>42, <2>1, Zenon
    <2>3. Paired(intents'[Compactor])
        BY <2>2 DEF Paired
    <2>4. CalmTable' /\ CalmWriter' /\ Live' = Live
        BY <1>12, <1>41, <2>1, <2>2, <2>3 DEF Unpublished
    <2>5. CalmCompactor'
        BY <2>1 DEF CalmCompactor, Scanned, Rewritten, Locked
    <2> QED BY <2>4, <2>5 DEF Calm
<1>52. ASSUME RollbackFiles PROVE Calm'
    <2> DEFINE gone == IF out = {} THEN {} ELSE OutputFiles
    <2>1. /\ cpc = "rbFiles" /\ cpc' = "rbManifest" /\ files' = files \ gone
          /\ UNCHANGED <<pointer, manifests, log, intents, writer, attempt, pinned, mseq>>
        BY <1>52 DEF RollbackFiles
    <2>2. Live' = Live /\ Names \subseteq Names'
        BY <1>11, <1>12, <2>1 DEF Unpublished
    <2>3. attempt \notin Names
        BY <1>9, <2>1, CompactionAssumption DEF Names, Unpublished, Row
    <2>4. gone \in SUBSET {Data(attempt), Meta(attempt)} /\ Paired(gone)
        BY ReferencedPaired DEF OutputFiles, Paired
    <2> HIDE DEF gone
    <2>5. ASSUME NEW m, Named(m), Referenced(m) \subseteq files PROVE Referenced(m) \subseteq files'
        <3>1. \A f \in m.frags : /\ Data(f.name) \in files /\ Meta(f.name) \in files
                                 /\ f.ver # 0 => Del(f.id, f.ver) \in files
            BY <2>5, ReferencedWithin, Zenon
        <3>2. \A f \in m.frags : f.name # attempt
            BY <2>3, <2>5 DEF Named
        <3>3. \A f \in m.frags : /\ Data(f.name) \in files' /\ Meta(f.name) \in files'
                                 /\ f.ver # 0 => Del(f.id, f.ver) \in files'
            BY <2>1, <2>4, <3>1, <3>2, FileFacts
        <3> QED BY <3>3, ReferencedWithin
    <2>6. Referenced(Live) \subseteq files'
        BY <1>1, <1>6, <2>5 DEF CalmTable
    <2>7. \A i \in DOMAIN log : Del(log[i].id, log[i].ver) \in files'
        BY <1>1, <2>1, <2>4, FileFacts DEF CalmTable
    <2>8. Paired(files')
        BY <1>1, <2>1, <2>4, PairedFacts, Zenon DEF CalmTable
    <2>9. CalmTable'
        BY <1>1, <2>1, <2>2, <2>6, <2>7, <2>8 DEF CalmTable, PointerHasManifest, Paired, Named
    <2>10. wpc \in {"append", "publish", "swap"} => Referenced(Result(wop, wbase)) \subseteq files'
        BY <1>1, <1>13, <2>5 DEF CalmWriter
    <2>11. CalmWriter'
        BY <1>1, <1>21, <2>1, <2>2, <2>10 DEF CalmWriter
    <2>12. CalmCompactor'
        BY <1>1, <2>1, <2>2 DEF CalmCompactor, Scanned, Rewritten, Locked
    <2> QED BY <2>9, <2>11, <2>12 DEF Calm
<1>53. ASSUME RollbackManifest PROVE Calm'
    <2>1. /\ cpc = "rbManifest" /\ cpc' = "rbIntent"
          /\ manifests' = [n \in DOMAIN manifests \ {mseq} |-> manifests[n]]
          /\ UNCHANGED <<pointer, log, files, intents, writer, attempt, pinned, mseq>>
        BY <1>53 DEF RollbackManifest
    <2>2. mseq \notin DOMAIN manifests
        BY <1>1, <1>7, <2>1 DEF CalmCompactor
    <2>3. DOMAIN manifests' = DOMAIN manifests /\ \A n \in DOMAIN manifests : manifests'[n] = manifests[n]
        BY <2>1, <2>2
    <2>4. Live' = Live /\ Names \subseteq Names'
        BY <1>4, <1>11, <1>12, <2>1, <2>3 DEF Unpublished
    <2>5. CalmTable'
        BY <1>1, <2>1, <2>3, <2>4 DEF CalmTable, PointerHasManifest, Paired, Named
    <2>6. CalmWriter'
        BY <1>1, <1>21, <2>1, <2>3, <2>4 DEF CalmWriter
    <2>7. CalmCompactor'
        BY <1>1, <2>1 DEF CalmCompactor, Scanned, Rewritten, Locked
    <2> QED BY <2>5, <2>6, <2>7 DEF Calm
<1>54. ~CrashInCleanup /\ ~Abort /\ ~Crash /\ ~CompactFail /\ ~CompactCrash /\ ~PinRepaired
    BY <1>4 DEF Undisturbed, CrashInCleanup, Abort, Crash, CompactFail, CompactCrash, PinRepaired
<1>55. (\E op \in Ops : Begin(op)) \/ CrashInCleanup \/ Stage \/ AppendRecord \/ Publish \/ Swap
       \/ RemoveIntent \/ Return \/ Abort \/ Crash
       \/ Pin \/ PinRepaired \/ Scan \/ WriteIntent \/ WriteOutput \/ Lock \/ CheckOutput
       \/ PublishCompacted \/ SwapCompacted \/ Finish
       \/ CompactFail \/ RollbackFiles \/ RollbackManifest \/ RollbackIntent \/ CompactCrash
    BY Zenon DEF Next, Step
<1> QED BY <1>30, <1>31, <1>32, <1>33, <1>34, <1>35, <1>40, <1>43, <1>44, <1>45, <1>46, <1>48,
           <1>49, <1>50, <1>51, <1>52, <1>53, <1>54, <1>55, Zenon

-----------------------------------------------------------------------------
(* Kept: with publishing writers, every step keeps the rows *)

\* Every step of an execution without failures, in which every writer publishes
\* a manifest, keeps Kept.
LEMMA KeptStep ==
    ASSUME Shape, Calm, Kept, Undisturbed, Published, Next
    PROVE  Kept'
<1>1. /\ setting \in Settings /\ begun \in SUBSET Ops /\ acked \in SUBSET begun
      /\ DirOK /\ WriterOK /\ CompactorOK /\ CalmTable /\ CalmWriter /\ CalmCompactor
    BY DEF Shape, Calm
<1>2. Nobody # Writer /\ Nobody # Compactor /\ Writer # Compactor
    BY DEF Nobody, Writer, Compactor
<1>3. Known \in SUBSET Row
    BY <1>1, KnownFacts
<1>4. log = <<>> /\ Live = manifests[pointer]
    BY ReplaySteps DEF Kept, Live
<1>5. /\ pointer \in DOMAIN manifests /\ pointer \in Nat /\ Live.seq = pointer
    BY <1>1, <1>4, LiveGood DEF CalmTable, PointerHasManifest
<1>6. setting' = setting
    BY Zenon DEF Next
<1>7. wpc # "idle" => /\ wop \in Ops /\ wop \in begun /\ wop.kind \in {"insert", "delete"}
                      /\ wpc # "append" /\ wbase.seq \in Nat
    BY <1>1 DEF WriterOK, Published, Ops, Good, Manifest
<1>8. cpc \in Scanned \cup {"scan"} => pinned.seq \in Nat /\ pinned.seq <= pointer
    BY <1>1 DEF CompactorOK, CalmCompactor, Good, Manifest
<1>9. cpc \in Locked => wpc = "idle" /\ out = Output /\ pointer = pinned.seq
    BY <1>1, <1>2 DEF CompactorOK, WriterOK, CalmCompactor
<1>10. ASSUME LiveRows(manifests'[pointer']) = LiveRows(manifests[pointer]),
              Effective' \subseteq Effective, begun \subseteq begun'
       PROVE  Reflects(LiveRows(manifests[pointer]))'
    <2>1. Reflects(LiveRows(manifests[pointer]))
        BY Zenon DEF Kept
    <2>2. \A op \in Effective' : op.row \in LiveRows(manifests[pointer]) <=> op.kind = "insert"
        BY <1>10, <2>1 DEF Reflects
    <2>3. Range(setting.rows) \ {op.row : op \in begun'} \subseteq LiveRows(manifests[pointer])
        BY <1>10, <2>1 DEF Reflects
    <2> QED BY <1>6, <1>10, <2>2, <2>3 DEF Reflects
<1>11. ASSUME pointer' = pointer, log' = log, manifests'[pointer] = manifests[pointer],
              Effective' \subseteq Effective, begun \subseteq begun', pinned' = pinned,
              cpc' \in {"intent", "write", "lock"} \cup Locked =>
                  \/ view' = view /\ cpc \in {"intent", "write", "lock"} \cup Locked
                  \/ view' = manifests[pointer]
       PROVE  Kept'
    <2>1. Reflects(LiveRows(manifests[pointer]))'
        BY <1>10, <1>11
    <2> QED BY <1>4, <1>11, <2>1 DEF Kept
<1>20. ASSUME NEW op \in Ops, Begin(op) PROVE Kept'
    <2>1. /\ wpc = "idle" /\ wpc' = "stage" /\ begun' = begun \cup {op} /\ acked' = acked
          /\ manifests' = UpTo(manifests, Live.seq)
          /\ pointer' = pointer /\ log' = log /\ UNCHANGED compactor
        BY <1>20 DEF Begin, ManifestsUpTo
    <2>2. Effective' \subseteq Effective
        BY <2>1 DEF Effective
    <2>3. manifests'[pointer] = manifests[pointer]
        BY <1>5, <2>1 DEF UpTo
    <2> QED BY <1>11, <2>1, <2>2, <2>3 DEF compactor
<1>21. ASSUME Stage \/ Publish \/ RemoveIntent \/ Return PROVE Kept'
    <2>1. /\ pointer' = pointer /\ log' = log /\ UNCHANGED compactor /\ begun' = begun
          /\ manifests' = manifests \/ Publish
        BY <1>21 DEF Stage, Publish, RemoveIntent, Return, table
    <2>2. Effective' \subseteq Effective
        BY <1>21 DEF Stage, Publish, RemoveIntent, Return, WriterGone, Effective
    <2>3. manifests'[pointer] = manifests[pointer]
        <3>1. CASE Publish
            <4>1. wpc = "publish" /\ manifests' = With(manifests, Result(wop, wbase))
                BY <3>1 DEF Publish
            <4>2. wbase = Live
                BY <1>1, <4>1 DEF CalmWriter, Uncommitted
            <4>3. Result(wop, wbase).seq = wbase.seq + 1
                BY <1>1, <4>1 DEF Result, Insert, Kill, WriterOK, Good, Manifest
            <4> QED BY <1>5, <4>1, <4>2, <4>3 DEF With
        <3> QED BY <2>1, <3>1
    <2> QED BY <1>11, <2>1, <2>2, <2>3 DEF compactor
<1>22. ASSUME Swap PROVE Kept'
    <2>1. /\ wpc = "swap" /\ wpc' = "intent" /\ pointer' = wbase.seq + 1 /\ acked' = acked
          /\ manifests' = manifests /\ log' = log /\ wop' = wop /\ begun' = begun
          /\ UNCHANGED compactor
        BY <1>22 DEF Swap
    <2>2. /\ wbase = manifests[pointer] /\ manifests[wbase.seq + 1] = Result(wop, wbase)
        BY <1>1, <1>4, <2>1 DEF CalmWriter, Uncommitted
    <2>3. /\ wop \in Ops /\ wop \in begun /\ Good(wbase, Before)
          /\ wop.kind # "insert" => wop.row \in LiveRows(wbase)
        BY <1>1, <2>1 DEF WriterOK
    <2>4. wop.kind = "insert" => wop.row \in Known
        BY <2>3 DEF Known
    <2> DEFINE R == LiveRows(wbase)
               Q == LiveRows(Result(wop, wbase))
    <2>5. Q = IF wop.kind = "insert" THEN R \cup {wop.row} ELSE R \ {wop.row}
        BY <1>3, <2>3, <2>4, ResultFacts, Zenon DEF Before
    <2>6. Reflects(R) /\ Effective = acked /\ Effective' = acked \cup {wop}
        BY <2>1, <2>2 DEF Kept, Effective
    <2> HIDE DEF Q, R
    <2>7. \A op \in Ops : op.row = wop.row => (op.kind = "insert" <=> wop.kind = "insert")
        BY <2>3, CompactionAssumption DEF Ops
    <2>8. \A op \in Effective' : op.row \in Q <=> op.kind = "insert"
        <3> SUFFICES ASSUME NEW op \in acked \cup {wop} PROVE op.row \in Q <=> op.kind = "insert"
            BY <2>6
        <3>1. CASE op.row = wop.row
            BY <1>1, <2>3, <2>5, <2>7, <3>1
        <3>2. CASE op.row # wop.row
            BY <2>5, <2>6, <3>2 DEF Reflects
        <3> QED BY <3>1, <3>2
    <2>9. Range(setting.rows) \ {op.row : op \in begun} \subseteq Q
        BY <2>3, <2>5, <2>6 DEF Reflects
    <2>10. Reflects(LiveRows(manifests[pointer]))'
        BY <1>6, <2>1, <2>2, <2>8, <2>9 DEF Reflects, Q
    <2>11. ~(cpc \in {"intent", "write", "lock"} \cup Locked /\ pointer' = pinned.seq)
        BY <1>4, <1>5, <1>8, <2>1, <2>2 DEF Scanned, Rewritten
    <2> QED BY <1>4, <2>1, <2>10, <2>11 DEF Kept, compactor
<1>23. ASSUME Pin PROVE Kept'
    <2>1. /\ pointer' = Live.seq /\ log' = <<>> /\ manifests' = With(UpTo(manifests, Live.seq), Live)
          /\ cpc' = "scan" /\ UNCHANGED writer /\ begun' = begun /\ acked' = acked
        BY <1>23 DEF Pin, PinTo, ManifestsUpTo
    <2>2. manifests'[pointer'] = manifests[pointer]
        BY <1>4, <2>1 DEF With
    <2>3. Effective' = Effective
        BY <2>1 DEF Effective, writer
    <2>4. Reflects(LiveRows(manifests[pointer]))'
        BY <1>10, <2>1, <2>2, <2>3
    <2> QED BY <2>1, <2>4 DEF Kept, Locked
<1>24. ASSUME Scan \/ WriteIntent \/ WriteOutput \/ Lock \/ CheckOutput \/ PublishCompacted \/ Finish
              \/ RollbackFiles \/ RollbackManifest \/ RollbackIntent
       PROVE  Kept'
    <2>1. /\ pointer' = pointer /\ log' = log /\ pinned' = pinned /\ UNCHANGED writer
          /\ begun' = begun /\ acked' = acked
          /\ \/ manifests' = manifests
             \/ /\ PublishCompacted /\ cpc = "manifest"
                /\ manifests' = With(manifests, CompactManifest)
             \/ /\ RollbackManifest /\ cpc = "rbManifest"
                /\ manifests' = [n \in DOMAIN manifests \ {mseq} |-> manifests[n]]
        BY <1>24, Zenon DEF Scan, WriteIntent, WriteOutput, Lock, CheckOutput, PublishCompacted, Finish,
                     RollbackFiles, RollbackManifest, RollbackIntent, table
    <2>2. cpc' \in {"intent", "write", "lock"} \cup Locked =>
                  \/ view' = view /\ cpc \in {"intent", "write", "lock"} \cup Locked
                  \/ view' = manifests[pointer]
        BY <1>4, <1>24 DEF Scan, WriteIntent, WriteOutput, Lock, CheckOutput, PublishCompacted,
                     Finish, RollbackFiles, RollbackManifest, RollbackIntent, Done, Locked
    <2>3. Effective' = Effective
        BY <2>1 DEF Effective, writer
    <2>4. manifests'[pointer] = manifests[pointer]
        <3>1. CASE cpc = "manifest" /\ manifests' = With(manifests, CompactManifest)
            <4>1. CompactManifest.seq = pinned.seq + 1 /\ pointer = pinned.seq
                BY <1>9, <3>1 DEF CompactManifest, NextSeq, Locked
            <4> QED BY <1>5, <3>1, <4>1 DEF With
        <3>2. CASE /\ cpc = "rbManifest"
                   /\ manifests' = [n \in DOMAIN manifests \ {mseq} |-> manifests[n]]
            <4>1. mseq = 0 \/ mseq \notin DOMAIN manifests
                BY <1>1, <3>2 DEF CalmCompactor
            <4>2. 0 \notin DOMAIN manifests
                BY <1>1 DEF DirOK
            <4> QED BY <1>5, <3>2, <4>1, <4>2
        <3> QED BY <2>1, <3>1, <3>2
    <2> QED BY <1>11, <2>1, <2>2, <2>3, <2>4
<1>25. ASSUME SwapCompacted PROVE Kept'
    <2>1. /\ cpc = "swap" /\ cpc' = "finish" /\ pointer' = NextSeq
          /\ UNCHANGED <<manifests, log, writer, begun, acked>>
        BY <1>25 DEF SwapCompacted
    <2>2. manifests[NextSeq] = CompactManifest /\ pointer = pinned.seq
        BY <1>1, <2>1 DEF CalmCompactor, Locked
    <2>3. view = manifests[pointer]
        BY <2>1, <2>2 DEF Kept, Locked
    <2>4. LiveRows(CompactManifest) = LiveRows(view)
        BY <1>1, <1>3, <1>9, <2>1, OutputGood DEF CompactorOK, Scanned, Rewritten, Locked
    <2>5. Effective' = Effective
        BY <2>1 DEF Effective, writer
    <2>6. Reflects(LiveRows(manifests[pointer]))'
        BY <1>10, <2>1, <2>2, <2>3, <2>4, <2>5
    <2> QED BY <1>4, <2>1, <2>6 DEF Kept, Locked
<1>26. /\ ~CrashInCleanup /\ ~Abort /\ ~Crash /\ ~CompactFail /\ ~CompactCrash /\ ~PinRepaired
       /\ ~AppendRecord
    BY <1>1, <1>7 DEF Undisturbed, CrashInCleanup, Abort, Crash, CompactFail, CompactCrash,
                      PinRepaired, AppendRecord, CalmTable
<1>27. (\E op \in Ops : Begin(op)) \/ CrashInCleanup \/ Stage \/ AppendRecord \/ Publish \/ Swap
       \/ RemoveIntent \/ Return \/ Abort \/ Crash
       \/ Pin \/ PinRepaired \/ Scan \/ WriteIntent \/ WriteOutput \/ Lock \/ CheckOutput
       \/ PublishCompacted \/ SwapCompacted \/ Finish
       \/ CompactFail \/ RollbackFiles \/ RollbackManifest \/ RollbackIntent \/ CompactCrash
    BY Zenon DEF Next, Step
<1> QED BY <1>20, <1>21, <1>22, <1>23, <1>24, <1>25, <1>26, <1>27, Zenon

-----------------------------------------------------------------------------
(* The theorems *)

\* The invariant holds at the start: one fragment for each first row.
LEMMA InitIInv == Init => IInv
<1> SUFFICES ASSUME Init PROVE IInv
    OBVIOUS
<1> DEFINE m == manifests[1]
           rows == setting.rows
           frag(i) == Fragment(i, rows[i], {rows[i]})
<1>1. /\ setting \in Settings /\ rows \in Seq(Rows) /\ Len(rows) \in Nat
      /\ \A i, j \in 1 .. Len(rows) : rows[i] = rows[j] => i = j
      /\ \A i \in 1 .. Len(rows) : rows[i] \in Rows
    <2>1. setting \in Settings
        BY Zenon DEF Init
    <2>2. rows \in Seq(Rows) /\ IsInjective(rows)
        BY <2>1, CompactionAssumption
    <2> QED BY <2>1, <2>2 DEF IsInjective
<1>2. /\ pointer = 1 /\ DOMAIN manifests = {1} /\ log = <<>> /\ files = Referenced(m)
      /\ intents = [p \in {Writer, Compactor} |-> {}]
      /\ lock = Nobody /\ wpc = "idle" /\ cpc = "idle" /\ attempt = 0 /\ mseq = 0
      /\ out = {} /\ begun = {} /\ acked = {}
    BY Zenon DEF Init
<1>3. Known = Range(rows) /\ \A i \in 1 .. Len(rows) : rows[i] \in Range(rows)
    BY <1>1, <1>2 DEF Known, Range
<1>4. \A i \in 1 .. Len(rows) :
         /\ frag(i) \in Frag /\ frag(i).id = i /\ frag(i).name = rows[i]
         /\ frag(i).rows = {rows[i]} /\ frag(i).ver = 0 /\ frag(i).dead = {}
    <2> SUFFICES ASSUME NEW i \in 1 .. Len(rows)
                 PROVE  /\ frag(i) \in Frag /\ frag(i).id = i /\ frag(i).name = rows[i]
                        /\ frag(i).rows = {rows[i]} /\ frag(i).ver = 0 /\ frag(i).dead = {}
        BY Zenon
    <2>1. i \in Nat /\ rows[i] \in Name /\ {rows[i]} \in SUBSET Row
        BY <1>1 DEF Name, Row
    <2> HIDE DEF rows
    <2> QED BY <2>1 DEF Fragment, Frag
<1>5. /\ m.seq = 1 /\ m.next = Len(rows) + 1 /\ m.frags = {frag(i) : i \in 1 .. Len(rows)}
      /\ m \in Manifest
    <2>1. m = [seq |-> 1, next |-> Len(rows) + 1, frags |-> {frag(i) : i \in 1 .. Len(rows)}]
        BY DEF Init
    <2> HIDE DEF frag, rows, m
    <2>2. {frag(i) : i \in 1 .. Len(rows)} \in SUBSET Frag
        BY <1>4
    <2> QED BY <1>1, <2>1, <2>2 DEF Manifest
<1> HIDE DEF frag, m, rows
<1>6. Good(m, Known)
    <2>1. \A f \in m.frags : f.id < m.next /\ f.rows \subseteq Known
        BY <1>1, <1>3, <1>4, <1>5
    <2>2. ASSUME NEW f \in m.frags, NEW g \in m.frags, f # g
          PROVE  f.id # g.id /\ f.rows \cap g.rows = {}
        <3>1. PICK i \in 1 .. Len(rows) : f = frag(i)
            BY <1>5, Zenon
        <3>2. PICK j \in 1 .. Len(rows) : g = frag(j)
            BY <1>5
        <3>3. i # j /\ rows[i] # rows[j]
            BY <1>1, <2>2, <3>1, <3>2
        <3> QED BY <1>4, <3>1, <3>2, <3>3
    <2> QED BY <1>5, <2>1, <2>2 DEF Good, Apart, Within
<1>7. Shape
    <2>1. DirOK
        BY <1>2, <1>5, <1>6 DEF DirOK, m
    <2>2. WriterOK /\ CompactorOK
        BY <1>2 DEF WriterOK, WriterSteps, CompactorOK, CompactorSteps, Locked, Scanned, Rewritten,
                    Nobody, Writer, Compactor
    <2> QED BY <1>1, <1>2, <2>1, <2>2 DEF Shape
<1>8. Live = m
    BY <1>2, ReplaySteps, Zenon DEF Live, m
<1>9. Calm
    <2>1. Named(m)
        <3> SUFFICES ASSUME NEW f \in m.frags PROVE f.name \in Names
            BY Zenon DEF Named
        <3>1. PICK i \in 1 .. Len(rows) : f = frag(i)
            BY <1>5, Zenon
        <3>2. f.name = rows[i] /\ rows[i] \in Rows
            BY <1>1, <1>4, <3>1, Zenon
        <3> QED BY <3>2 DEF Names, Row
    <2>2. Paired(files) /\ Paired({})
        BY <1>2, ReferencedPaired, Zenon DEF Paired
    <2>3. CalmTable
        BY <1>2, <1>8, <2>1, <2>2 DEF CalmTable, PointerHasManifest, m
    <2>4. CalmWriter /\ CalmCompactor
        BY <1>2 DEF CalmWriter, CalmCompactor, Uncommitted, Locked, Scanned, Rewritten
    <2> QED BY <2>3, <2>4, Zenon DEF Calm
<1>10. Kept
    <2>1. Range(rows) \subseteq LiveRows(m)
        <3> SUFFICES ASSUME NEW r \in Range(rows) PROVE r \in LiveRows(m)
            OBVIOUS
        <3>1. PICK i \in 1 .. Len(rows) : r = rows[i]
            BY <1>1 DEF Range
        <3>2. frag(i) \in m.frags /\ r \in frag(i).rows \ frag(i).dead
            BY <1>4, <1>5, <3>1, Zenon
        <3> QED BY <3>2 DEF LiveRows
    <2> QED BY <1>2, <2>1 DEF Kept, Reflects, Effective, Locked, m, rows
<1> QED BY <1>7, <1>9, <1>10 DEF IInv

\* IInv holds of every state an execution reaches.
THEOREM Invariance == Spec => []IInv
<1>1. IInv /\ [Next]_vars => IInv'
    <2> SUFFICES ASSUME IInv, [Next]_vars PROVE IInv'
        OBVIOUS
    <2>1. CASE Next
        <3>1. Shape'
            BY <2>1, ShapeStep, Zenon DEF IInv
        <3>2. setting' = setting
            BY <2>1, Zenon DEF Next
        <3>3. Undisturbed' = Undisturbed /\ Published' = Published
            BY <3>2, Zenon DEF Undisturbed, Published, Faults, Kinds
        <3>4. Undisturbed => Calm'
            BY <2>1, CalmStep, Zenon DEF IInv
        <3>5. Undisturbed /\ Published => Kept'
            BY <2>1, KeptStep, Zenon DEF IInv
        <3> QED BY <3>1, <3>3, <3>4, <3>5, Zenon DEF IInv
    <2>2. CASE UNCHANGED vars
        <3>1. /\ pointer' = pointer /\ manifests' = manifests /\ log' = log /\ files' = files
              /\ intents' = intents /\ lock' = lock /\ wpc' = wpc /\ wop' = wop /\ wbase' = wbase
              /\ cpc' = cpc /\ attempt' = attempt /\ pinned' = pinned /\ view' = view /\ out' = out
              /\ mseq' = mseq /\ begun' = begun /\ acked' = acked /\ setting' = setting
            BY <2>2, Zenon DEF vars, table, writer, compactor
        <3>2. /\ Known' = Known /\ Before' = Before /\ Kinds' = Kinds /\ Faults' = Faults
              /\ Output' = Output /\ OutputFiles' = OutputFiles /\ NextSeq' = NextSeq
              /\ CompactManifest' = CompactManifest /\ Live' = Live /\ Names' = Names
              /\ Effective' = Effective
            BY <3>1, Zenon DEF Known, Before, Kinds, Faults, Output, OutputFiles, NextSeq, CompactManifest,
                        Live, Names, Effective
        <3>3. Shape'
            BY <3>1, <3>2, Zenon DEF IInv, Shape, DirOK, WriterOK, CompactorOK
        <3>4. Undisturbed' = Undisturbed /\ Published' = Published
            BY <3>2, Zenon DEF Undisturbed, Published
        <3>5. Undisturbed => Calm'
            BY <3>1, <3>2 DEF IInv, Calm, CalmTable, CalmWriter, CalmCompactor, PointerHasManifest,
                              Named, Paired
        <3>6. Undisturbed /\ Published => Kept'
            BY <3>1, <3>2, Zenon DEF IInv, Kept, Reflects
        <3> QED BY <3>3, <3>4, <3>5, <3>6 DEF IInv
    <2> QED BY <2>1, <2>2, Zenon
<1> QED BY InitIInv, <1>1, PTL DEF Spec

\* The snapshot is intact: without failures every file of the snapshot readers see
\* exists, whatever cleanups and rollbacks overlap; and with failures too, no two
\* of its fragments share an id or a row (writer.rs:5234-5235,
\* compaction.rs:691-693, 1074-1077).
THEOREM SnapshotsAreIntact == Spec => []SnapshotIntact
<1>1. IInv => SnapshotIntact
    <2> SUFFICES ASSUME IInv PROVE SnapshotIntact
        OBVIOUS
    <2>1. Undisturbed => PointerHasManifest /\ Referenced(Live) \subseteq files
        BY DEF IInv, Calm, CalmTable
    <2>2. PointerHasManifest => Apart(Live)
        BY LiveGood DEF IInv, Shape, Good
    <2> QED BY <2>1, <2>2, Zenon DEF SnapshotIntact, Apart
<1> QED BY Invariance, <1>1, PTL

\* No mutation is lost: without failures, and with writers that publish, every
\* acknowledged INSERT is in the snapshot, no acknowledged DELETE's row is, and
\* every row no operation touched still is, for any number of attempts
\* (compaction.rs:584-585, 1034-1065).
THEOREM MutationsAreKept == Spec => []NoMutationLost
<1>1. IInv => NoMutationLost
    <2> SUFFICES ASSUME IInv, Undisturbed, Published, PointerHasManifest
                 PROVE  /\ \A op \in acked : op.row \in LiveRows(Live) <=> op.kind = "insert"
                        /\ Range(setting.rows) \ {op.row : op \in begun} \subseteq LiveRows(Live)
        BY DEF NoMutationLost, NoMutationEverLost
    <2>1. Kept
        BY Zenon DEF IInv
    <2>2. Live = manifests[pointer]
        BY <2>1, ReplaySteps DEF Kept, Live
    <2> QED BY <2>1, <2>2 DEF Kept, Reflects, Effective
<1> QED BY Invariance, <1>1, PTL

\* History only grows: without failures no step moves the pointer back, or
\* rewrites or removes a manifest at or below it; in particular the manifest a
\* rollback removes, after the lock is dropped, is none of them
\* (compaction.rs:1034-1065).
THEOREM HistoryGrows == Spec => HistoryOnlyGrows
<1> DEFINE Grows == Undisturbed => /\ pointer' >= pointer
                                   /\ UpTo(manifests', pointer) = UpTo(manifests, pointer)
<1>1. IInv /\ [Next]_vars => [Grows]_vars
    <2> SUFFICES ASSUME IInv, Next, Undisturbed
                 PROVE  /\ pointer' >= pointer
                        /\ UpTo(manifests', pointer) = UpTo(manifests, pointer)
        BY Zenon DEF vars
    <2>1. /\ DirOK /\ WriterOK /\ CompactorOK /\ CalmTable /\ CalmWriter /\ CalmCompactor
        BY Zenon DEF IInv, Shape, Calm
    <2>2. /\ pointer \in Nat /\ Live.seq \in Nat /\ pointer <= Live.seq
          /\ Live.seq = pointer => Live = manifests[pointer]
          /\ pointer \in DOMAIN manifests
        BY <2>1, LiveGood DEF CalmTable, PointerHasManifest
    <2>3. \A n \in DOMAIN manifests : n \in Nat /\ n >= 1
        BY <2>1 DEF DirOK
    <2>4. ASSUME \A n : n \in DOMAIN manifests' /\ n <= pointer <=> n \in DOMAIN manifests /\ n <= pointer,
                 \A n \in DOMAIN manifests : n <= pointer => manifests'[n] = manifests[n]
          PROVE  UpTo(manifests', pointer) = UpTo(manifests, pointer)
        <3>1. {k \in DOMAIN manifests' : k <= pointer} = {k \in DOMAIN manifests : k <= pointer}
            BY <2>4
        <3> QED BY <2>4, <3>1 DEF UpTo
    <2>5. CASE manifests' = manifests /\ pointer' = pointer
        BY <2>2, <2>5
    <2>6. ASSUME NEW op \in Ops, Begin(op)
          PROVE  pointer' >= pointer /\ UpTo(manifests', pointer) = UpTo(manifests, pointer)
        <3>1. manifests' = UpTo(manifests, Live.seq) /\ pointer' = pointer
            BY <2>6, Zenon DEF Begin, ManifestsUpTo
        <3> QED BY <2>2, <2>3, <2>4, <3>1 DEF UpTo
    <2>7. CASE Publish
        <3>1. /\ manifests' = With(manifests, Result(wop, wbase)) /\ pointer' = pointer
              /\ wbase = Live /\ Result(wop, wbase).seq = wbase.seq + 1
            BY <2>1, <2>7, Zenon DEF Publish, CalmWriter, Uncommitted, Result, Insert, Kill, WriterOK,
                              Good, Manifest
        <3> QED BY <2>2, <2>3, <2>4, <3>1 DEF With
    <2>8. CASE Swap
        <3>1. manifests' = manifests /\ pointer' = wbase.seq + 1 /\ wbase = Live
            BY <2>1, <2>8, Zenon DEF Swap, CalmWriter, Uncommitted
        <3> QED BY <2>2, <3>1
    <2>9. CASE Pin
        <3>1. manifests' = With(UpTo(manifests, Live.seq), Live) /\ pointer' = Live.seq
            BY <2>9, Zenon DEF Pin, PinTo, ManifestsUpTo
        <3>2. /\ DOMAIN manifests' = {n \in DOMAIN manifests : n <= Live.seq} \cup {Live.seq}
              /\ \A n \in DOMAIN manifests' :
                    manifests'[n] = IF n = Live.seq THEN Live ELSE manifests[n]
            BY <3>1, Zenon DEF With, UpTo
        <3> QED BY <2>2, <2>3, <2>4, <3>1, <3>2
    <2>10. CASE PublishCompacted
        <3>1. /\ manifests' = With(manifests, CompactManifest) /\ pointer' = pointer
              /\ CompactManifest.seq = pointer + 1
            BY <2>1, <2>10, Zenon DEF PublishCompacted, CompactManifest, NextSeq, CalmCompactor, Locked
        <3> QED BY <2>2, <2>3, <2>4, <3>1 DEF With
    <2>11. CASE SwapCompacted
        <3>1. manifests' = manifests /\ pointer' = pointer + 1
            BY <2>1, <2>11 DEF SwapCompacted, NextSeq, CalmCompactor, Locked
        <3> QED BY <2>2, <3>1
    <2>12. CASE RollbackManifest
        <3>1. /\ manifests' = [n \in DOMAIN manifests \ {mseq} |-> manifests[n]]
              /\ pointer' = pointer /\ mseq \notin DOMAIN manifests
            BY <2>1, <2>3, <2>12 DEF RollbackManifest, CalmCompactor
        <3> QED BY <2>2, <2>4, <3>1
    <2>13. ~PinRepaired
        BY <2>2 DEF PinRepaired, PointerHasManifest
    <2>14. \/ \E op \in Ops : Begin(op)
           \/ Publish \/ Swap \/ Pin \/ PinRepaired \/ PublishCompacted \/ SwapCompacted
           \/ RollbackManifest \/ (manifests' = manifests /\ pointer' = pointer)
        BY Zenon DEF Next, Step, CrashInCleanup, Stage, AppendRecord, RemoveIntent, Return, Abort, Crash,
               Scan, WriteIntent, WriteOutput, Lock, CheckOutput, Finish, CompactFail,
               RollbackFiles, RollbackIntent, CompactCrash, table
    <2> QED BY <2>5, <2>6, <2>7, <2>8, <2>9, <2>10, <2>11, <2>12, <2>13, <2>14, Zenon
<1> QED BY Invariance, <1>1, PTL DEF Spec, HistoryOnlyGrows
=============================================================================
