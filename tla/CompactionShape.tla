-------------------------- MODULE CompactionShape ---------------------------
(***************************************************************************)
(* Proofs about Compaction, first part: what its operators do to manifests *)
(* and what the replay of the log makes of one, for any rows, inserts,     *)
(* attempts and settings, and the invariant Shape.  Shape holds of every   *)
(* execution, with calls that fail or die too: who holds the lock, and     *)
(* that each manifest keeps ids and rows of its fragments apart.           *)
(***************************************************************************)
EXTENDS Compaction, TLAPS

F == INSTANCE FoldFacts WITH op <- ApplyRecord

Row == Rows \cup Inserts
Name == Row \cup Nat
Frag == [id : Nat, name : Name, rows : SUBSET Row, ver : Nat, dead : SUBSET Row]
Manifest == [seq : Nat, next : Nat, frags : SUBSET Frag]
Record == [seq : Nat, id : Nat, ver : Nat, dead : SUBSET Row]

\* The rows a manifest may hold: the first ones, and those of INSERTs begun.
Known == Range(setting.rows) \cup {op.row : op \in {o \in begun : o.kind = "insert"}}

\* Ids and rows of the fragments of m are apart, and ids are below the next.
Apart(m) ==
    /\ \A f \in m.frags : f.id < m.next
    /\ \A f, g \in m.frags : f # g => f.id # g.id /\ f.rows \cap g.rows = {}
Within(m, R) == \A f \in m.frags : f.rows \subseteq R
Good(m, R) == m \in Manifest /\ Apart(m) /\ Within(m, R)

WriterSteps == {"idle", "stage", "append", "publish", "swap", "intent", "return"}
Locked == {"check", "manifest", "swap"}
Rewritten == {"lock", "finish", "rbFiles", "rbManifest", "rbIntent"} \cup Locked
Scanned == {"intent", "write"} \cup Rewritten
CompactorSteps == {"idle", "done", "scan"} \cup Scanned

\* The rows of the writer's snapshot: an INSERT's own is not yet there.
Before == IF wop.kind = "insert" THEN Known \ {wop.row} ELSE Known

DirOK ==
    /\ pointer \in Nat /\ log \in Seq(Record)
    /\ \E k \in Nat : DOMAIN manifests \in SUBSET (1 .. k)
    /\ 1 \in DOMAIN manifests
    /\ \A n \in DOMAIN manifests : manifests[n].seq = n /\ Good(manifests[n], Known)

WriterOK ==
    /\ wpc \in WriterSteps
    /\ wpc = "idle" <=> lock # Writer
    /\ wpc # "idle" =>
          /\ wop \in Ops /\ wop \in begun /\ wop.kind \in Kinds
          /\ Good(wbase, Before) /\ wbase.seq >= 1
          /\ wop.kind # "insert" => wop.row \in LiveRows(wbase)
          /\ wop.kind = "walDelete" => wpc \in {"stage", "append", "return"}
          /\ wop.kind # "walDelete" => wpc # "append"

CompactorOK ==
    /\ cpc \in CompactorSteps
    /\ cpc \in Locked <=> lock = Compactor
    /\ attempt \in Nat /\ mseq \in Nat \ {1}
    /\ cpc \in Scanned \cup {"scan"} => Good(pinned, Known) /\ pinned.seq >= 1
    /\ cpc \in Scanned => Good(view, Known)
    /\ out = {} \/ cpc \in Rewritten \cup {"idle", "done"}
    /\ cpc \in {"lock"} \cup Locked => out = Output

Shape ==
    /\ setting \in Settings
    /\ begun \in SUBSET Ops /\ acked \in SUBSET begun
    /\ lock \in {Nobody, Writer, Compactor}
    /\ DirOK /\ WriterOK /\ CompactorOK

-----------------------------------------------------------------------------
(* Files, manifests and the replay of the log *)

\* Files of different kinds or names are different files.
LEMMA FileFacts ==
    /\ \A n, k : Data(n) = Data(k) => n = k
    /\ \A n, k : Meta(n) = Meta(k) => n = k
    /\ \A n, k : Data(n) # Meta(k)
    /\ \A n, i, v : Data(n) # Del(i, v) /\ Meta(n) # Del(i, v)
BY Zenon DEF Data, Meta, Del

\* What a manifest references, file by file.
LEMMA ReferencedWithin ==
    ASSUME NEW m, NEW S
    PROVE  Referenced(m) \subseteq S <=>
               \A f \in m.frags : /\ Data(f.name) \in S /\ Meta(f.name) \in S
                                  /\ f.ver # 0 => Del(f.id, f.ver) \in S
<1>1. ASSUME Referenced(m) \subseteq S, NEW f \in m.frags
      PROVE  Data(f.name) \in S /\ Meta(f.name) \in S /\ (f.ver # 0 => Del(f.id, f.ver) \in S)
    BY <1>1 DEF Referenced
<1>2. ASSUME \A f \in m.frags : /\ Data(f.name) \in S /\ Meta(f.name) \in S
                                /\ f.ver # 0 => Del(f.id, f.ver) \in S
      PROVE  Referenced(m) \subseteq S
    BY <1>2, Zenon DEF Referenced
<1> QED BY <1>1, <1>2

\* Data and .meta are referenced by name.
LEMMA ReferencedNames ==
    ASSUME NEW m, NEW n
    PROVE  /\ Data(n) \in Referenced(m) <=> \E f \in m.frags : f.name = n
           /\ Meta(n) \in Referenced(m) <=> \E f \in m.frags : f.name = n
           /\ Data(n) \in ReferencedByCompactor(m) <=> \E f \in m.frags : f.name = n
           /\ Meta(n) \in ReferencedByCompactor(m) <=> \E f \in m.frags : f.name = n
<1>1. /\ Data(n) \in Referenced(m) <=> \E f \in m.frags : f.name = n
      /\ Meta(n) \in Referenced(m) <=> \E f \in m.frags : f.name = n
    BY FileFacts DEF Referenced
<1>2. /\ Data(n) \in ReferencedByCompactor(m) <=> \E f \in m.frags : f.name = n
      /\ Meta(n) \in ReferencedByCompactor(m) <=> \E f \in m.frags : f.name = n
    BY FileFacts DEF ReferencedByCompactor
<1> QED BY <1>1, <1>2, Zenon

\* The replay of the log is the fold FoldFacts is about.
LEMMA ReplayIsFold ==
    ASSUME NEW m, NEW s
    PROVE  Replay(m, s) = F!Fold(m, s)
BY Zenon DEF Replay, F!Fold

\* An empty log changes nothing, and one more record is one more apply.
LEMMA ReplaySteps ==
    ASSUME NEW m
    PROVE  /\ Replay(m, <<>>) = m
           /\ \A s \in Seq(Record) : \A r \in Record :
                 Replay(m, Append(s, r)) = ApplyRecord(Replay(m, s), r)
<1>1. Replay(m, <<>>) = m
    BY ReplayIsFold, F!FoldEmpty, Zenon
<1>2. ASSUME NEW s \in Seq(Record), NEW r \in Record
      PROVE  Replay(m, Append(s, r)) = ApplyRecord(Replay(m, s), r)
    <2>1. F!Fold(m, Append(s, r)) = ApplyRecord(F!Fold(m, s), r)
        BY F!FoldAppend, Zenon
    <2> QED BY <2>1, ReplayIsFold, Zenon
<1> QED BY <1>1, <1>2, Zenon

\* Induction over the log: what apply keeps, record by record, the replay keeps.
LEMMA ReplayKeeps ==
    ASSUME NEW m, NEW s \in Seq(Record), NEW T, m \in T,
           \A x \in T : \A i \in 1 .. Len(s) : ApplyRecord(x, s[i]) \in T
    PROVE  Replay(m, s) \in T
<1> DEFINE U == [k \in Nat |-> T]
<1>1. Len(s) \in Nat
    OBVIOUS
<1>2. m \in U[0] /\ U[Len(s)] = T
    BY <1>1
<1>3. \A k \in 1 .. Len(s) : \A x \in U[k - 1] : ApplyRecord(x, s[k]) \in U[k]
    <2> SUFFICES ASSUME NEW k \in 1 .. Len(s), NEW x \in U[k - 1]
                 PROVE  ApplyRecord(x, s[k]) \in U[k]
        OBVIOUS
    <2>1. k \in Nat /\ k - 1 \in Nat
        BY <1>1
    <2>2. U[k] = T /\ U[k - 1] = T
        BY <2>1, Zenon
    <2> QED BY <2>2, Zenon
<1> HIDE DEF U
<1>4. F!Fold(m, s) \in U[Len(s)]
    BY <1>2, <1>3, F!FoldStages
<1> QED BY <1>2, <1>4, ReplayIsFold, Zenon

\* What one record does to a manifest: it raises the sequence to its own, or
\* changes nothing.
LEMMA ApplyFacts ==
    ASSUME NEW m \in Manifest, NEW r \in Record
    PROVE  /\ ApplyRecord(m, r) \in Manifest /\ ApplyRecord(m, r).next = m.next
           /\ ApplyRecord(m, r) = m \/ m.seq < ApplyRecord(m, r).seq
           /\ r.seq <= ApplyRecord(m, r).seq
           /\ r.seq <= m.seq => ApplyRecord(m, r) = m
<1> DEFINE upd(f) == IF f.id = r.id THEN [f EXCEPT !.ver = r.ver, !.dead = r.dead] ELSE f
           y == [m EXCEPT !.seq = r.seq, !.frags = {upd(f) : f \in @}]
<1>1. m.seq \in Nat /\ m.next \in Nat /\ m.frags \in SUBSET Frag /\ r.seq \in Nat
    BY Zenon DEF Manifest, Record
<1>2. CASE r.seq <= m.seq
    <2>1. ApplyRecord(m, r) = m
        BY <1>2, Zenon DEF ApplyRecord
    <2> QED BY <1>2, <2>1, Zenon
<1>3. CASE ~(r.seq <= m.seq)
    <2>1. ApplyRecord(m, r) = y
        BY <1>3, Zenon DEF ApplyRecord
    <2>2. ASSUME NEW f \in m.frags PROVE upd(f) \in Frag
        <3>1. f \in Frag
            BY <1>1
        <3>2. r.ver \in Nat /\ r.dead \in SUBSET Row
            BY DEF Record
        <3> QED BY <3>1, <3>2, Zenon DEF Frag
    <2>3. y.seq = r.seq /\ y.next = m.next /\ y \in Manifest
        <3>1. {upd(f) : f \in m.frags} \in SUBSET Frag
            BY <2>2, Zenon
        <3> HIDE DEF upd
        <3> QED BY <1>1, <3>1, Zenon DEF Manifest
    <2> HIDE DEF y
    <2> QED BY <1>1, <1>3, <2>1, <2>3
<1> QED BY <1>2, <1>3, Zenon

\* Its fragments keep id, name and rows; only the one the record names has
\* another deletion vector, the record's.
LEMMA ApplyFrags ==
    ASSUME NEW m \in Manifest, NEW r \in Record
    PROVE  \/ ApplyRecord(m, r) = m
           \/ \E upd \in [m.frags -> Frag] :
                 /\ ApplyRecord(m, r).frags = {upd[f] : f \in m.frags}
                 /\ \A f \in m.frags :
                       /\ upd[f].id = f.id /\ upd[f].name = f.name /\ upd[f].rows = f.rows
                       /\ upd[f].ver = f.ver \/ (f.id = r.id /\ upd[f].ver = r.ver)
<1> DEFINE upd == [f \in m.frags |->
                      IF f.id = r.id THEN [f EXCEPT !.ver = r.ver, !.dead = r.dead] ELSE f]
<1>1. m.frags \in SUBSET Frag /\ r.ver \in Nat /\ r.dead \in SUBSET Row
    BY Zenon DEF Manifest, Record
<1>2. CASE r.seq <= m.seq
    BY <1>2 DEF ApplyRecord
<1>3. CASE ~(r.seq <= m.seq)
    <2>1. ApplyRecord(m, r).frags = {upd[f] : f \in m.frags}
        BY <1>3, Zenon DEF ApplyRecord, Manifest
    <2>2. ASSUME NEW f \in m.frags
          PROVE  /\ upd[f] \in Frag
                 /\ upd[f].id = f.id /\ upd[f].name = f.name /\ upd[f].rows = f.rows
                 /\ upd[f].ver = f.ver \/ (f.id = r.id /\ upd[f].ver = r.ver)
        <3>1. f \in Frag
            BY <1>1
        <3> QED BY <1>1, <3>1, Zenon DEF Frag
    <2>3. upd \in [m.frags -> Frag]
        BY <2>2, Zenon
    <2> HIDE DEF upd
    <2> QED BY <2>1, <2>2, <2>3
<1> QED BY <1>2, <1>3

\* So it keeps the fragments apart.
LEMMA ApplyApart ==
    ASSUME NEW m \in Manifest, NEW r \in Record, Apart(m)
    PROVE  Apart(ApplyRecord(m, r))
<1>1. CASE ApplyRecord(m, r) = m
    BY <1>1
<1>2. CASE ApplyRecord(m, r) # m
    <2>1. PICK upd \in [m.frags -> Frag] :
              /\ ApplyRecord(m, r).frags = {upd[f] : f \in m.frags}
              /\ \A f \in m.frags : upd[f].id = f.id /\ upd[f].rows = f.rows
        BY <1>2, ApplyFrags
    <2>2. ApplyRecord(m, r).next = m.next
        BY ApplyFacts, Zenon
    <2> DEFINE y == ApplyRecord(m, r)
    <2>3. y.frags = {upd[f] : f \in m.frags} /\ y.next = m.next
        BY <2>1, <2>2, Zenon
    <2> HIDE DEF y
    <2>4. ASSUME NEW f \in y.frags PROVE f.id < y.next
        BY <2>1, <2>3 DEF Apart
    <2>5. ASSUME NEW f \in y.frags, NEW g \in y.frags, f # g
          PROVE  f.id # g.id /\ f.rows \cap g.rows = {}
        <3>1. PICK f0 \in m.frags : f = upd[f0]
            BY <2>3, Zenon
        <3>2. PICK g0 \in m.frags : g = upd[g0]
            BY <2>3, Zenon
        <3>3. f0 # g0
            BY <2>5, <3>1, <3>2, Zenon
        <3> QED BY <2>1, <3>1, <3>2, <3>3 DEF Apart
    <2> QED BY <2>4, <2>5 DEF Apart, y
<1> QED BY <1>1, <1>2

\* The replay of a log: the sequence only grows, and if it does not nothing has
\* changed; the fragments stay apart.
LEMMA ReplayFacts ==
    ASSUME NEW m \in Manifest, NEW s \in Seq(Record)
    PROVE  /\ Replay(m, s) \in Manifest
           /\ Replay(m, s) = m \/ m.seq < Replay(m, s).seq
           /\ Apart(m) => Apart(Replay(m, s))
<1> DEFINE T == {y \in Manifest : (y = m \/ m.seq < y.seq) /\ (Apart(m) => Apart(y))}
<1>1. m \in T
    OBVIOUS
<1>2. ASSUME NEW z \in T, NEW i \in 1 .. Len(s) PROVE ApplyRecord(z, s[i]) \in T
    <2>1. z \in Manifest /\ s[i] \in Record /\ (z = m \/ m.seq < z.seq) /\ (Apart(m) => Apart(z))
        OBVIOUS
    <2> HIDE DEF T
    <2>2. /\ ApplyRecord(z, s[i]) \in Manifest
          /\ ApplyRecord(z, s[i]) = z \/ z.seq < ApplyRecord(z, s[i]).seq
        BY <2>1, ApplyFacts, Zenon
    <2>3. Apart(m) => Apart(ApplyRecord(z, s[i]))
        BY <2>1, ApplyApart, Zenon
    <2>4. z.seq \in Nat /\ m.seq \in Nat /\ ApplyRecord(z, s[i]).seq \in Nat
        BY <2>1, <2>2, Zenon DEF Manifest
    <2>5. ApplyRecord(z, s[i]) = m \/ m.seq < ApplyRecord(z, s[i]).seq
        BY <2>1, <2>2, <2>4
    <2> QED BY <2>2, <2>3, <2>5, Zenon DEF T
<1> HIDE DEF T
<1>3. Replay(m, s) \in T
    BY <1>1, <1>2, ReplayKeeps
<1> QED BY <1>3, Zenon DEF T

\* Records the manifest already has change nothing.
LEMMA ReplayOfOld ==
    ASSUME NEW m, NEW s \in Seq(Record), \A i \in 1 .. Len(s) : s[i].seq <= m.seq
    PROVE  Replay(m, s) = m
<1>1. \A z \in {m} : \A i \in 1 .. Len(s) : ApplyRecord(z, s[i]) \in {m}
    BY Zenon DEF ApplyRecord
<1>2. Replay(m, s) \in {m}
    BY <1>1, ReplayKeeps, Zenon
<1> QED BY <1>2

\* Every fragment of the replay is one of the manifest's, by name and rows.
LEMMA ReplayFrags ==
    ASSUME NEW m \in Manifest, NEW s \in Seq(Record)
    PROVE  \A f \in Replay(m, s).frags : \E g \in m.frags : f.name = g.name /\ f.rows = g.rows
<1> DEFINE P(y) == \A f \in y.frags : \E g \in m.frags : f.name = g.name /\ f.rows = g.rows
           T == {y \in Manifest : P(y)}
<1>1. m \in T
    OBVIOUS
<1>2. ASSUME NEW z \in T, NEW i \in 1 .. Len(s) PROVE ApplyRecord(z, s[i]) \in T
    <2>1. z \in Manifest /\ s[i] \in Record /\ P(z)
        OBVIOUS
    <2>2. ApplyRecord(z, s[i]) \in Manifest
        BY <2>1, ApplyFacts
    <2>3. CASE ApplyRecord(z, s[i]) = z
        BY <2>3
    <2>4. CASE ApplyRecord(z, s[i]) # z
        <3>1. PICK upd \in [z.frags -> Frag] :
                  /\ ApplyRecord(z, s[i]).frags = {upd[f] : f \in z.frags}
                  /\ \A f \in z.frags : upd[f].name = f.name /\ upd[f].rows = f.rows
            BY <2>1, <2>4, ApplyFrags
        <3>2. P(ApplyRecord(z, s[i]))
            BY <2>1, <3>1
        <3> QED BY <2>2, <3>2, Zenon
    <2> QED BY <2>3, <2>4
<1> HIDE DEF T
<1>3. Replay(m, s) \in T
    BY <1>1, <1>2, ReplayKeeps
<1> QED BY <1>3, Zenon DEF T

\* It reaches every record's sequence.
LEMMA ReplayReaches ==
    ASSUME NEW m \in Manifest, NEW s \in Seq(Record), NEW i \in 1 .. Len(s)
    PROVE  s[i].seq <= Replay(m, s).seq
<1> DEFINE T == [k \in Nat |-> {x \in Manifest : i <= k => s[i].seq <= x.seq}]
<1>1. Len(s) \in Nat /\ i \in Nat /\ i <= Len(s) /\ i >= 1 /\ s[i] \in Record
    OBVIOUS
<1>2. m \in T[0]
    BY <1>1
<1>3. ASSUME NEW k \in 1 .. Len(s), NEW x \in T[k - 1]
      PROVE  ApplyRecord(x, s[k]) \in T[k]
    <2>1. k \in Nat /\ k - 1 \in Nat /\ s[k] \in Record
        OBVIOUS
    <2>2. x \in Manifest /\ (i <= k - 1 => s[i].seq <= x.seq)
        BY <2>1
    <2>3. /\ ApplyRecord(x, s[k]) \in Manifest
          /\ ApplyRecord(x, s[k]) = x \/ x.seq < ApplyRecord(x, s[k]).seq
          /\ s[k].seq <= ApplyRecord(x, s[k]).seq
        BY <2>1, <2>2, ApplyFacts, Zenon
    <2>4. i <= k => s[i].seq <= ApplyRecord(x, s[k]).seq
        <3>1. CASE i = k
            BY <3>1, <2>3, Zenon
        <3>2. CASE i <= k - 1
            <4>1. s[i].seq <= x.seq /\ s[i].seq \in Nat /\ x.seq \in Nat
                   /\ ApplyRecord(x, s[k]).seq \in Nat
                BY <1>1, <2>1, <2>2, <2>3, <3>2, Zenon DEF Manifest, Record
            <4> QED BY <2>3, <4>1
        <3> QED BY <1>1, <2>1, <3>1, <3>2
    <2> QED BY <2>1, <2>3, <2>4, Zenon
<1> HIDE DEF T
<1>4. F!Fold(m, s) \in T[Len(s)]
    BY <1>2, <1>3, F!FoldStages
<1> QED BY <1>1, <1>4, ReplayIsFold DEF T

\* The replay references only files that the manifest and the records do.
LEMMA ReplayReferences ==
    ASSUME NEW m \in Manifest, NEW s \in Seq(Record), NEW S, Referenced(m) \subseteq S,
           \A i \in 1 .. Len(s) : Del(s[i].id, s[i].ver) \in S
    PROVE  Referenced(Replay(m, s)) \subseteq S
<1> DEFINE T == {x \in Manifest : Referenced(x) \subseteq S}
<1>1. m \in T
    OBVIOUS
<1>2. ASSUME NEW x \in T, NEW i \in 1 .. Len(s) PROVE ApplyRecord(x, s[i]) \in T
    <2>1. x \in Manifest /\ s[i] \in Record /\ Referenced(x) \subseteq S
        OBVIOUS
    <2>2. ApplyRecord(x, s[i]) \in Manifest
        BY <2>1, ApplyFacts
    <2>3. CASE ApplyRecord(x, s[i]) = x
        BY <2>3
    <2>4. CASE ApplyRecord(x, s[i]) # x
        <3>1. PICK upd \in [x.frags -> Frag] :
                 /\ ApplyRecord(x, s[i]).frags = {upd[f] : f \in x.frags}
                 /\ \A f \in x.frags :
                       /\ upd[f].id = f.id /\ upd[f].name = f.name
                       /\ upd[f].ver = f.ver \/ (f.id = s[i].id /\ upd[f].ver = s[i].ver)
            BY <2>1, <2>4, ApplyFrags
        <3>2. \A g \in x.frags : /\ Data(g.name) \in S /\ Meta(g.name) \in S
                                 /\ g.ver # 0 => Del(g.id, g.ver) \in S
            BY <2>1, ReferencedWithin, Zenon
        <3> HIDE DEF T
        <3>3. \A f \in x.frags : /\ Data(upd[f].name) \in S /\ Meta(upd[f].name) \in S
                                 /\ upd[f].ver # 0 => Del(upd[f].id, upd[f].ver) \in S
            BY <3>1, <3>2
        <3>4. \A f \in ApplyRecord(x, s[i]).frags :
                  /\ Data(f.name) \in S /\ Meta(f.name) \in S
                  /\ f.ver # 0 => Del(f.id, f.ver) \in S
            BY <3>1, <3>3, Zenon
        <3>5. Referenced(ApplyRecord(x, s[i])) \subseteq S
            BY <3>4, ReferencedWithin, Zenon
        <3> QED BY <2>2, <3>5 DEF T
    <2> QED BY <2>3, <2>4
<1> HIDE DEF T
<1>3. Replay(m, s) \in T
    BY <1>1, <1>2, ReplayKeeps
<1> QED BY <1>3 DEF T

\* What a DELETE makes of a manifest, fragment by fragment.
LEMMA KillFrags ==
    ASSUME NEW m \in Manifest, NEW r \in Row
    PROVE  \E upd \in [m.frags -> Frag] :
              /\ Kill(m, r).frags = {upd[f] : f \in m.frags}
              /\ \A f \in m.frags :
                    /\ upd[f].id = f.id /\ upd[f].name = f.name /\ upd[f].rows = f.rows
                    /\ r \in f.rows \ f.dead => upd[f].ver = f.ver + 1 /\ upd[f].dead = f.dead \cup {r}
                    /\ r \notin f.rows \ f.dead => upd[f] = f
<1> DEFINE upd == [f \in m.frags |-> IF r \in f.rows \ f.dead
                                    THEN [f EXCEPT !.ver = @ + 1, !.dead = @ \cup {r}] ELSE f]
<1>1. m.frags \in SUBSET Frag
    BY DEF Manifest
<1>2. Kill(m, r).frags = {upd[f] : f \in m.frags}
    BY Zenon DEF Kill, Manifest
<1>3. ASSUME NEW f \in m.frags
      PROVE  /\ upd[f] \in Frag
             /\ upd[f].id = f.id /\ upd[f].name = f.name /\ upd[f].rows = f.rows
             /\ r \in f.rows \ f.dead => upd[f].ver = f.ver + 1 /\ upd[f].dead = f.dead \cup {r}
             /\ r \notin f.rows \ f.dead => upd[f] = f
    <2>1. f \in Frag /\ f.ver + 1 \in Nat /\ f.dead \cup {r} \in SUBSET Row
        BY <1>1 DEF Frag
    <2>2. CASE r \in f.rows \ f.dead
        <3>1. upd[f] = [f EXCEPT !.ver = f.ver + 1, !.dead = f.dead \cup {r}]
            BY <2>2, Zenon
        <3> QED BY <2>1, <2>2, <3>1, Zenon DEF Frag
    <2>3. CASE r \notin f.rows \ f.dead
        BY <2>1, <2>3, Zenon
    <2> QED BY <2>2, <2>3, Zenon
<1>4. upd \in [m.frags -> Frag]
    BY <1>3, Zenon
<1> HIDE DEF upd
<1> QED BY <1>2, <1>3, <1>4

\* A DELETE keeps the fragments apart and their names, kills its row and no
\* other, and its deletion vector is among the files.
LEMMA KillFacts ==
    ASSUME NEW m, NEW R \in SUBSET Row, Good(m, R), NEW r \in LiveRows(m)
    PROVE  /\ Good(Kill(m, r), R) /\ Kill(m, r).seq = m.seq + 1
           /\ \A f \in Kill(m, r).frags : \E g \in m.frags : f.name = g.name
           /\ LiveRows(Kill(m, r)) = LiveRows(m) \ {r}
           /\ \A g \in m.frags : r \in g.rows \ g.dead =>
                 Del(g.id, g.ver + 1) \in Referenced(Kill(m, r))
<1>1. m \in Manifest /\ Apart(m) /\ Within(m, R)
    BY DEF Good
<1>2. PICK h \in m.frags : r \in h.rows \ h.dead
    BY DEF LiveRows
<1>3. m.frags \in SUBSET Frag /\ m.seq \in Nat /\ m.next \in Nat
    BY <1>1 DEF Manifest
<1>4. r \in Row
    BY <1>2, <1>3, Zenon DEF Frag
<1>5. PICK upd \in [m.frags -> Frag] :
              /\ Kill(m, r).frags = {upd[f] : f \in m.frags}
              /\ \A f \in m.frags :
                    /\ upd[f].id = f.id /\ upd[f].name = f.name /\ upd[f].rows = f.rows
                    /\ r \in f.rows \ f.dead => upd[f].ver = f.ver + 1 /\ upd[f].dead = f.dead \cup {r}
                    /\ r \notin f.rows \ f.dead => upd[f] = f
    BY <1>1, <1>4, KillFrags
<1> DEFINE y == Kill(m, r)
<1>6. y.seq = m.seq + 1 /\ y.next = m.next /\ y.frags = {upd[f] : f \in m.frags}
    BY <1>1, <1>5, Zenon DEF Kill, Manifest
<1>7. y \in Manifest
    <2>1. y.frags \in SUBSET Frag
        BY <1>6
    <2>2. PICK S : y = [m EXCEPT !.seq = m.seq + 1, !.frags = S]
        BY Zenon DEF Kill
    <2> HIDE DEF y
    <2>3. S = y.frags
        BY <1>1, <2>2 DEF Manifest
    <2>4. S \in SUBSET Frag /\ m.seq + 1 \in Nat
        BY <1>3, <2>1, <2>3
    <2> QED BY <1>1, <2>2, <2>4, Zenon DEF Manifest
<1> HIDE DEF y
<1>8. Apart(y)
    <2>1. ASSUME NEW f \in y.frags PROVE f.id < y.next
        BY <1>1, <1>5, <1>6 DEF Apart
    <2>2. ASSUME NEW f \in y.frags, NEW g \in y.frags, f # g
          PROVE  f.id # g.id /\ f.rows \cap g.rows = {}
        <3>1. PICK f0 \in m.frags : f = upd[f0]
            BY <1>6, Zenon
        <3>2. PICK g0 \in m.frags : g = upd[g0]
            BY <1>6, Zenon
        <3>3. f0 # g0
            BY <2>2, <3>1, <3>2, Zenon
        <3> QED BY <1>1, <1>5, <3>1, <3>2, <3>3 DEF Apart
    <2> QED BY <2>1, <2>2, Zenon DEF Apart
<1>9. Within(y, R)
    BY <1>1, <1>5, <1>6 DEF Within
<1>10. \A f \in y.frags : \E g \in m.frags : f.name = g.name
    BY <1>5, <1>6
<1>11. LiveRows(y) = LiveRows(m) \ {r}
    <2>1. ASSUME NEW f \in m.frags PROVE upd[f].rows \ upd[f].dead = (f.rows \ f.dead) \ {r}
        BY <1>5, Zenon
    <2> QED BY <1>6, <2>1 DEF LiveRows
<1>12. ASSUME NEW g \in m.frags, r \in g.rows \ g.dead
       PROVE  Del(g.id, g.ver + 1) \in Referenced(y)
    <2>1. upd[g] \in y.frags /\ upd[g].id = g.id /\ upd[g].ver = g.ver + 1
        BY <1>5, <1>6, <1>12, Zenon
    <2>2. g.ver \in Nat /\ g.ver + 1 # 0
        BY <1>3 DEF Frag
    <2> QED BY <2>1, <2>2 DEF Referenced
<1> QED BY <1>6, <1>7, <1>8, <1>9, <1>10, <1>11, <1>12, Zenon DEF Good, y

\* An INSERT adds one fragment, with the next id and its own row.
LEMMA InsertFacts ==
    ASSUME NEW m, NEW R \in SUBSET Row, Good(m, R), NEW r \in Row \ R
    PROVE  /\ Good(Insert(m, r), R \cup {r}) /\ Insert(m, r).seq = m.seq + 1
           /\ \A f \in Insert(m, r).frags : f.name = r \/ \E g \in m.frags : f.name = g.name
           /\ LiveRows(Insert(m, r)) = LiveRows(m) \cup {r}
<1>1. m \in Manifest /\ Apart(m) /\ Within(m, R)
    BY DEF Good
<1>2. m.frags \in SUBSET Frag /\ m.seq \in Nat /\ m.next \in Nat
    BY <1>1, Zenon DEF Manifest
<1> DEFINE n == Fragment(m.next, r, {r})
           y == Insert(m, r)
<1>3. n \in Frag /\ n.id = m.next /\ n.name = r /\ n.rows = {r} /\ n.dead = {}
    BY <1>2, Zenon DEF Fragment, Frag, Name
<1> HIDE DEF n
<1>4. m.frags \cup {n} \in SUBSET Frag /\ m.seq + 1 \in Nat /\ m.next + 1 \in Nat
    BY <1>2, <1>3
<1>5. y.seq = m.seq + 1 /\ y.next = m.next + 1 /\ y.frags = m.frags \cup {n} /\ y \in Manifest
    BY <1>1, <1>2, <1>4, Zenon DEF Insert, Manifest, n
<1> HIDE DEF y
<1>6. Apart(y)
    <2>0. \A f \in m.frags : f.id \in Nat /\ f.id < m.next /\ f.rows \subseteq R
        BY <1>1, <1>2 DEF Apart, Within, Frag
    <2>1. ASSUME NEW f \in y.frags PROVE f.id < y.next
        BY <1>2, <1>3, <1>5, <2>0
    <2>2. ASSUME NEW f \in y.frags, NEW g \in y.frags, f # g
          PROVE  f.id # g.id /\ f.rows \cap g.rows = {}
        <3>1. CASE f \in m.frags /\ g \in m.frags
            BY <1>1, <2>2, <3>1 DEF Apart
        <3>2. CASE f = n \/ g = n
            BY <1>2, <1>3, <1>5, <2>0, <2>2, <3>2
        <3> QED BY <1>5, <3>1, <3>2
    <2> QED BY <2>1, <2>2 DEF Apart
<1>7. Within(y, R \cup {r})
    BY <1>1, <1>3, <1>5 DEF Within
<1>8. \A f \in y.frags : f.name = r \/ \E g \in m.frags : f.name = g.name
    BY <1>3, <1>5, Zenon
<1>9. LiveRows(y) = LiveRows(m) \cup {r}
    BY <1>3, <1>5 DEF LiveRows
<1> QED BY <1>5, <1>6, <1>7, <1>8, <1>9, Zenon DEF Good, y

\* What an operation makes of the manifest it started from.
LEMMA ResultFacts ==
    ASSUME NEW op \in Ops, NEW m, NEW R \in SUBSET Row,
           Good(m, IF op.kind = "insert" THEN R \ {op.row} ELSE R),
           op.kind = "insert" => op.row \in R,
           op.kind # "insert" => op.row \in LiveRows(m)
    PROVE  /\ Good(Result(op, m), R) /\ Result(op, m).seq = m.seq + 1
           /\ \A f \in Result(op, m).frags :
                 (f.name = op.row /\ op.row \in Row) \/ \E g \in m.frags : f.name = g.name
           /\ LiveRows(Result(op, m)) = IF op.kind = "insert" THEN LiveRows(m) \cup {op.row}
                                        ELSE LiveRows(m) \ {op.row}
<1>1. op.row \in Row
    BY Zenon DEF Ops, Row
<1>2. CASE op.kind = "insert"
    <2>1. Good(m, R \ {op.row}) /\ op.row \in Row \ (R \ {op.row}) /\ R \ {op.row} \in SUBSET Row
        BY <1>1, <1>2, Zenon
    <2>2. Result(op, m) = Insert(m, op.row) /\ (R \ {op.row}) \cup {op.row} = R
        BY <1>2, Zenon DEF Result
    <2>3. /\ Good(Insert(m, op.row), (R \ {op.row}) \cup {op.row})
          /\ Insert(m, op.row).seq = m.seq + 1
          /\ \A f \in Insert(m, op.row).frags : f.name = op.row \/ \E g \in m.frags : f.name = g.name
          /\ LiveRows(Insert(m, op.row)) = LiveRows(m) \cup {op.row}
        BY <2>1, InsertFacts, Zenon
    <2> QED BY <1>1, <1>2, <2>2, <2>3, Zenon
<1>3. CASE op.kind # "insert"
    <2>1. Good(m, R) /\ op.row \in LiveRows(m) /\ Result(op, m) = Kill(m, op.row)
        BY <1>3 DEF Result
    <2>2. /\ Good(Kill(m, op.row), R) /\ Kill(m, op.row).seq = m.seq + 1
          /\ \A f \in Kill(m, op.row).frags : \E g \in m.frags : f.name = g.name
          /\ LiveRows(Kill(m, op.row)) = LiveRows(m) \ {op.row}
        BY <2>1, KillFacts
    <2> QED BY <1>3, <2>1, <2>2
<1> QED BY <1>2, <1>3, Zenon

\* The rows a manifest may hold are rows, and there are only more of them.
LEMMA KnownFacts ==
    ASSUME setting \in Settings, begun \in SUBSET Ops
    PROVE  /\ Known \in SUBSET Row
           /\ \A op \in Ops : op.kind = "insert" /\ op \notin begun => op.row \notin Known
<1>1. Range(setting.rows) \in SUBSET Rows
    BY CompactionAssumption DEF Range
<1>2. \A op \in Ops : op.kind = "insert" => op.row \in Inserts /\ op = [kind |-> "insert", row |-> op.row]
    BY DEF Ops
<1>3. \A op \in Ops : op.row \in Row
    BY DEF Ops, Row
<1>4. Known \in SUBSET Row
    BY <1>1, <1>3 DEF Known, Row
<1>5. ASSUME NEW op \in Ops, op.kind = "insert", op \notin begun, op.row \in Known PROVE FALSE
    <2>1. op.row \in Inserts /\ op.row \notin Rows
        BY <1>2, <1>5, CompactionAssumption
    <2>2. PICK o \in begun : o.kind = "insert" /\ o.row = op.row
        BY <1>1, <1>5, <2>1 DEF Known
    <2>3. o = op
        BY <1>2, <1>5, <2>2
    <2> QED BY <1>5, <2>2, <2>3
<1> QED BY <1>4, <1>5

\* The replay of a good manifest is good, at the same or a later sequence.
LEMMA ReplayGood ==
    ASSUME NEW m, NEW R, Good(m, R), NEW s \in Seq(Record)
    PROVE  /\ Good(Replay(m, s), R)
           /\ m.seq \in Nat /\ Replay(m, s).seq \in Nat
           /\ m.seq <= Replay(m, s).seq
           /\ Replay(m, s).seq = m.seq => Replay(m, s) = m
<1>1. m \in Manifest /\ Apart(m) /\ Within(m, R)
    BY DEF Good
<1>2. /\ Replay(m, s) \in Manifest
      /\ Replay(m, s) = m \/ m.seq < Replay(m, s).seq
      /\ Apart(Replay(m, s))
    BY <1>1, ReplayFacts
<1>3. \A f \in Replay(m, s).frags : \E g \in m.frags : f.name = g.name /\ f.rows = g.rows
    BY <1>1, ReplayFrags
<1>4. Within(Replay(m, s), R)
    BY <1>1, <1>3 DEF Within
<1>5. m.seq \in Nat /\ Replay(m, s).seq \in Nat
    BY <1>1, <1>2 DEF Manifest
<1> QED BY <1>2, <1>4, <1>5 DEF Good

\* The snapshot readers see is a good manifest, not older than the pointer's.
LEMMA LiveGood ==
    ASSUME DirOK, PointerHasManifest
    PROVE  /\ Good(Live, Known) /\ Live.seq \in Nat
           /\ pointer \in Nat /\ 1 <= pointer /\ pointer <= Live.seq
           /\ Live.seq = pointer => Live = manifests[pointer]
           /\ Good(manifests[pointer], Known) /\ manifests[pointer].seq = pointer
<1>1. /\ log \in Seq(Record) /\ pointer \in Nat /\ 1 <= pointer
      /\ Good(manifests[pointer], Known) /\ manifests[pointer].seq = pointer
    BY DEF DirOK, PointerHasManifest
<1>2. Live = Replay(manifests[pointer], log)
    BY DEF Live
<1> QED BY <1>1, <1>2, ReplayGood

\* A manifest good for some rows is good for more.
LEMMA GoodMore ==
    ASSUME NEW m, NEW R, NEW S, Good(m, R), R \subseteq S
    PROVE  Good(m, S)
BY Zenon DEF Good, Within

-----------------------------------------------------------------------------
(* Shape: every step of every execution keeps it *)

\* Adding a manifest to the directory, with its own sequence as the index.
LEMMA WithFacts ==
    ASSUME NEW dir, NEW m, NEW R, NEW k \in Nat, DOMAIN dir \in SUBSET (1 .. k), 1 \in DOMAIN dir,
           \A n \in DOMAIN dir : dir[n].seq = n /\ Good(dir[n], R),
           Good(m, R), m.seq >= 1
    PROVE  /\ \E l \in Nat : DOMAIN With(dir, m) \in SUBSET (1 .. l)
           /\ 1 \in DOMAIN With(dir, m)
           /\ m.seq \in DOMAIN With(dir, m) /\ With(dir, m)[m.seq] = m
           /\ \A n \in DOMAIN With(dir, m) : With(dir, m)[n].seq = n /\ Good(With(dir, m)[n], R)
<1>1. m.seq \in Nat
    BY DEF Good, Manifest
<1>2. DOMAIN With(dir, m) = DOMAIN dir \cup {m.seq}
    BY DEF With
<1>3. k + m.seq \in Nat /\ DOMAIN dir \cup {m.seq} \in SUBSET (1 .. k + m.seq)
    BY <1>1
<1>4. \A n \in DOMAIN dir \cup {m.seq} : With(dir, m)[n] = IF n = m.seq THEN m ELSE dir[n]
    BY DEF With
<1> QED BY <1>2, <1>3, <1>4

\* Removing manifests other than the first.
LEMMA FewerFacts ==
    ASSUME NEW dir, NEW R, NEW k \in Nat, DOMAIN dir \in SUBSET (1 .. k),
           \A n \in DOMAIN dir : dir[n].seq = n /\ Good(dir[n], R),
           NEW D \in SUBSET DOMAIN dir, NEW e, e = [n \in D |-> dir[n]]
    PROVE  /\ \E l \in Nat : DOMAIN e \in SUBSET (1 .. l)
           /\ \A n \in DOMAIN e : e[n] = dir[n] /\ e[n].seq = n /\ Good(e[n], R)
OBVIOUS

\* Nothing happened to the directory, and no operation was forgotten.
LEMMA DirFrame ==
    ASSUME DirOK, pointer' = pointer, manifests' = manifests, log' = log, Known \subseteq Known'
    PROVE  DirOK'
<1>1. \A n \in DOMAIN manifests : manifests[n].seq = n /\ Good(manifests[n], Known')
    BY GoodMore, Zenon DEF DirOK
<1> QED BY <1>1, Zenon DEF DirOK

\* Nothing happened to the writer.
LEMMA WriterFrame ==
    ASSUME WriterOK, UNCHANGED <<writer, begun, setting>>,
           lock' = lock \/ (lock # Writer /\ lock' # Writer)
    PROVE  WriterOK'
<1>1. wpc' = wpc /\ wop' = wop /\ wbase' = wbase /\ begun' = begun /\ setting' = setting
    BY Zenon DEF writer
<1>2. Before' = Before /\ Kinds' = Kinds
    BY <1>1, Zenon DEF Before, Known, Kinds
<1> QED BY <1>1, <1>2, Zenon DEF WriterOK

\* Nothing happened to the compactor.
LEMMA CompactorFrame ==
    ASSUME CompactorOK, UNCHANGED compactor, Known \subseteq Known',
           lock' = lock \/ (lock # Compactor /\ lock' # Compactor)
    PROVE  CompactorOK'
<1>1. /\ cpc' = cpc /\ attempt' = attempt /\ pinned' = pinned /\ view' = view
      /\ out' = out /\ mseq' = mseq
    BY DEF compactor
<1>2. Output' = Output
    BY <1>1, Zenon DEF Output
<1>3. \A m : Good(m, Known) => Good(m, Known')
    BY GoodMore, Zenon
<1> QED BY <1>1, <1>2, <1>3, Zenon DEF CompactorOK

\* The compacted manifest is good: at most one fragment, under the next id.
LEMMA OutputGood ==
    ASSUME NEW R \in SUBSET Row, Good(pinned, R), Good(view, R), attempt \in Nat, out = Output
    PROVE  /\ Good(CompactManifest, R) /\ CompactManifest.seq = NextSeq
           /\ LiveRows(CompactManifest) = LiveRows(view)
           /\ \A f \in CompactManifest.frags : f.name = attempt /\ f.ver = 0
           /\ Referenced(CompactManifest) \subseteq OutputFiles
<1> DEFINE f0 == Fragment(pinned.next, attempt, LiveRows(view))
           y == CompactManifest
<1>1. /\ pinned.seq \in Nat /\ pinned.next \in Nat /\ NextSeq \in Nat
      /\ view.frags \in SUBSET Frag
    BY DEF Good, Manifest, NextSeq
<1>2. LiveRows(view) \in SUBSET R
    BY Zenon DEF Good, Within, LiveRows
<1>3. /\ f0 \in Frag /\ f0.id = pinned.next /\ f0.name = attempt /\ f0.rows = LiveRows(view)
      /\ f0.ver = 0 /\ f0.dead = {}
    BY <1>1, <1>2, Zenon DEF Fragment, Frag, Name
<1> HIDE DEF f0
<1>4. out = IF LiveRows(view) = {} THEN {} ELSE {f0}
    BY Zenon DEF Output, f0
<1>5. /\ y \in Manifest /\ y.seq = NextSeq /\ y.frags = out
      /\ y.next = IF out = {} THEN pinned.next ELSE pinned.next + 1
    BY <1>1, <1>3, <1>4 DEF CompactManifest, Manifest
<1> HIDE DEF y
<1>6. Apart(y)
    BY <1>1, <1>3, <1>4, <1>5 DEF Apart
<1>7. Within(y, R)
    BY <1>2, <1>3, <1>4, <1>5 DEF Within
<1>8. LiveRows(y) = LiveRows(view)
    <2>1. CASE LiveRows(view) = {}
        BY <1>4, <1>5, <2>1 DEF LiveRows
    <2>2. CASE LiveRows(view) # {}
        <3>1. y.frags = {f0}
            BY <1>4, <1>5, <2>2
        <3>2. LiveRows(y) = f0.rows \ f0.dead
            BY <3>1 DEF LiveRows
        <3> QED BY <1>3, <3>2
    <2> QED BY <2>1, <2>2
<1>9. \A f \in y.frags : f.name = attempt /\ f.ver = 0
    BY <1>3, <1>4, <1>5
<1>10. Referenced(y) \subseteq OutputFiles
    <2>1. \A f \in y.frags : /\ Data(f.name) \in OutputFiles /\ Meta(f.name) \in OutputFiles
                             /\ f.ver # 0 => Del(f.id, f.ver) \in OutputFiles
        BY <1>4, <1>5, <1>9 DEF OutputFiles
    <2> QED BY <2>1, ReferencedWithin, Zenon
<1> QED BY <1>5, <1>6, <1>7, <1>8, <1>9, <1>10, Zenon DEF Good, y

\* Every step keeps Shape.
LEMMA ShapeStep ==
    ASSUME Shape, Next
    PROVE  Shape'
<1>1. /\ setting \in Settings /\ begun \in SUBSET Ops /\ acked \in SUBSET begun
      /\ lock \in {Nobody, Writer, Compactor} /\ DirOK /\ WriterOK /\ CompactorOK
    BY DEF Shape
<1>2. setting' = setting
    BY DEF Next
<1>3. Known \in SUBSET Row
    BY <1>1, KnownFacts
<1>4. begun' = begun => Known' = Known
    BY <1>2 DEF Known
<1>5. Nobody # Writer /\ Nobody # Compactor /\ Writer # Compactor
    BY Zenon DEF Nobody, Writer, Compactor
<1>6. PICK top \in Nat : DOMAIN manifests \in SUBSET (1 .. top)
    BY <1>1 DEF DirOK
<1>7. \A n \in DOMAIN manifests : manifests[n].seq = n /\ Good(manifests[n], Known)
    BY <1>1 DEF DirOK
<1>8. /\ pointer \in Nat /\ log \in Seq(Record) /\ 1 \in DOMAIN manifests
    BY <1>1 DEF DirOK
<1>10. ASSUME NEW op \in Ops, Begin(op) PROVE Shape'
    <2>1. /\ wpc = "idle" /\ lock = Nobody /\ op \notin begun /\ op.kind \in Kinds
          /\ PointerHasManifest
          /\ op.row \in IF op.kind = "insert" THEN setting.inserts ELSE LiveRows(Live)
          /\ lock' = Writer /\ wpc' = "stage" /\ wop' = op /\ wbase' = Live
          /\ begun' = begun \cup {op} /\ acked' = acked
          /\ manifests' = UpTo(manifests, Live.seq)
          /\ pointer' = pointer /\ log' = log /\ UNCHANGED compactor
        BY <1>10 DEF Begin, ManifestsUpTo
    <2>2. Good(Live, Known) /\ Live.seq \in Nat /\ 1 <= Live.seq
        BY <1>1, <2>1, LiveGood
    <2>3. Known' = IF op.kind = "insert" THEN Known \cup {op.row} ELSE Known
        BY <1>2, <2>1, Zenon DEF Known
    <2>4. Known \subseteq Known' /\ (op.kind = "insert" => op.row \notin Known)
        BY <1>1, <2>1, <2>3, KnownFacts, Zenon
    <2>5. DirOK'
        <3>1. \A n \in DOMAIN manifests : manifests[n].seq = n /\ Good(manifests[n], Known')
            BY <1>7, <2>4, GoodMore, Zenon
        <3>2. 1 \in DOMAIN manifests'
            BY <1>8, <2>1, <2>2, Zenon DEF UpTo
        <3>3. {n \in DOMAIN manifests : n <= Live.seq} \in SUBSET DOMAIN manifests
            OBVIOUS
        <3>4. /\ \E l \in Nat : DOMAIN manifests' \in SUBSET (1 .. l)
              /\ \A n \in DOMAIN manifests' : manifests'[n].seq = n /\ Good(manifests'[n], Known')
            BY <1>6, <2>1, <3>1, <3>3, FewerFacts, Zenon DEF UpTo
        <3> QED BY <1>8, <2>1, <3>2, <3>4, Zenon DEF DirOK
    <2>6. WriterOK'
        <3>1. Before' = IF op.kind = "insert" THEN Known' \ {op.row} ELSE Known'
            BY <2>1, Zenon DEF Before
        <3>2. Known \subseteq Before'
            BY <2>3, <2>4, <3>1
        <3>3. Good(wbase', Before')
            BY <2>1, <2>2, <3>2, GoodMore
        <3>4. op.kind # "insert" => op.row \in LiveRows(wbase')
            BY <2>1
        <3>5. Kinds' = Kinds
            BY <1>2 DEF Kinds
        <3> QED BY <2>1, <2>2, <3>3, <3>4, <3>5, Zenon DEF WriterOK, WriterSteps
    <2>7. CompactorOK'
        BY <1>1, <1>5, <2>1, <2>4, CompactorFrame
    <2> QED BY <1>1, <1>2, <2>1, <2>5, <2>6, <2>7 DEF Shape
<1>11. ASSUME UNCHANGED <<pointer, manifests, log, lock, compactor, begun, acked>>,
              CrashInCleanup \/ Stage \/ RemoveIntent
       PROVE  Shape'
    <2>1. DirOK' /\ CompactorOK'
        BY <1>1, <1>4, <1>11, DirFrame, CompactorFrame
    <2>2. WriterOK'
        <3>1. CASE CrashInCleanup
            BY <1>1, <1>2, <1>11, <3>1, WriterFrame DEF CrashInCleanup
        <3>2. CASE Stage \/ RemoveIntent
            <4>1. /\ wop' = wop /\ wbase' = wbase /\ lock' = lock /\ begun' = begun
                  /\ Before' = Before /\ Kinds' = Kinds
                BY <1>2, <1>4, <1>11, <3>2 DEF Stage, RemoveIntent, Before, Kinds
            <4>2. wpc # "idle" /\ wpc' # "idle" /\ wpc' \in WriterSteps
                BY <3>2 DEF Stage, RemoveIntent, WriterSteps
            <4>3. /\ wop.kind = "walDelete" => wpc' \in {"stage", "append", "return"}
                  /\ wop.kind # "walDelete" => wpc' # "append"
                BY <3>2, <1>1 DEF Stage, RemoveIntent, WriterOK
            <4> QED BY <1>1, <4>1, <4>2, <4>3 DEF WriterOK
        <3> QED BY <1>11, <3>1, <3>2
    <2> QED BY <1>1, <1>2, <1>11, <2>1, <2>2 DEF Shape
<1>12. ASSUME AppendRecord PROVE Shape'
    <2> DEFINE f == CHOOSE g \in wbase.frags : wop.row \in g.rows \ g.dead
               r == [seq |-> wbase.seq + 1, id |-> f.id, ver |-> f.ver + 1,
                     dead |-> f.dead \cup {wop.row}]
    <2>1. /\ wpc = "append" /\ log' = Append(log, r) /\ wpc' = "return"
          /\ pointer' = pointer /\ manifests' = manifests /\ lock' = lock
          /\ wop' = wop /\ wbase' = wbase /\ UNCHANGED compactor
          /\ begun' = begun /\ acked' = acked
        BY <1>12 DEF AppendRecord
    <2>2. /\ wop \in Ops /\ Good(wbase, Before) /\ wop.kind = "walDelete"
          /\ wop.row \in LiveRows(wbase)
        BY <1>1, <2>1 DEF WriterOK
    <2>3. r \in Record
        <3>1. wbase.seq \in Nat /\ wbase.frags \in SUBSET Frag
            BY <2>2, Zenon DEF Good, Manifest
        <3>2. f \in wbase.frags
            BY <2>2, Zenon DEF LiveRows
        <3>3. f.id \in Nat /\ f.ver \in Nat /\ f.dead \in SUBSET Row
            BY <3>1, <3>2, Zenon DEF Frag
        <3>4. wop.row \in Row
            BY <2>2 DEF Ops, Row
        <3> HIDE DEF f
        <3> QED BY <3>1, <3>3, <3>4 DEF Record
    <2> HIDE DEF r
    <2>4. log' \in Seq(Record)
        BY <1>8, <2>1, <2>3
    <2>5. DirOK'
        BY <1>1, <1>4, <2>1, <2>4 DEF DirOK
    <2>6. WriterOK'
        <3>1. Before' = Before /\ Kinds' = Kinds
            BY <1>2, <1>4, <2>1, Zenon DEF Before, Kinds
        <3> QED BY <1>1, <2>1, <2>2, <3>1 DEF WriterOK, WriterSteps
    <2>7. CompactorOK'
        BY <1>1, <1>4, <2>1, CompactorFrame, Zenon
    <2> QED BY <1>1, <1>2, <2>1, <2>5, <2>6, <2>7 DEF Shape
<1>13. ASSUME Publish \/ Swap PROVE Shape'
    <2>1. /\ wpc \in {"publish", "swap"} /\ wpc' \in {"swap", "intent"}
          /\ log' = log /\ lock' = lock /\ wop' = wop /\ wbase' = wbase /\ UNCHANGED compactor
          /\ begun' = begun /\ acked' = acked
        BY <1>13 DEF Publish, Swap
    <2>2. /\ wop \in Ops /\ wop \in begun /\ Good(wbase, Before) /\ wbase.seq >= 1
          /\ wop.kind # "walDelete"
          /\ wop.kind # "insert" => wop.row \in LiveRows(wbase)
        BY <1>1, <2>1 DEF WriterOK
    <2>3. wbase.seq \in Nat
        BY <2>2 DEF Good, Manifest
    <2>4. DirOK'
        <3>1. CASE Publish
            <4>1. pointer' = pointer /\ manifests' = With(manifests, Result(wop, wbase))
                BY <3>1 DEF Publish
            <4>2. wop.kind = "insert" => wop.row \in Known
                BY <2>2 DEF Known
            <4>3. Good(Result(wop, wbase), Known) /\ Result(wop, wbase).seq = wbase.seq + 1
                BY <1>3, <2>2, <4>2, ResultFacts, Zenon DEF Before
            <4>4. Result(wop, wbase).seq >= 1
                BY <2>3, <4>3
            <4>5. /\ \E l \in Nat : DOMAIN manifests' \in SUBSET (1 .. l)
                  /\ 1 \in DOMAIN manifests'
                  /\ \A n \in DOMAIN manifests' : manifests'[n].seq = n /\ Good(manifests'[n], Known)
                BY <1>6, <1>7, <1>8, <4>1, <4>3, <4>4, WithFacts
            <4> QED BY <1>4, <1>8, <2>1, <4>1, <4>5 DEF DirOK
        <3>2. CASE Swap
            <4>1. pointer' = wbase.seq + 1 /\ manifests' = manifests
                BY <3>2, Zenon DEF Swap
            <4> QED BY <1>1, <1>4, <2>1, <2>3, <4>1 DEF DirOK
        <3> QED BY <1>13, <3>1, <3>2
    <2>5. WriterOK'
        <3>1. Before' = Before /\ Kinds' = Kinds
            BY <1>2, <1>4, <2>1, Zenon DEF Before, Kinds
        <3> QED BY <1>1, <2>1, <2>2, <3>1, Zenon DEF WriterOK, WriterSteps
    <2>6. CompactorOK'
        BY <1>1, <1>4, <2>1, CompactorFrame, Zenon
    <2> QED BY <1>1, <1>2, <2>1, <2>4, <2>5, <2>6, Zenon DEF Shape
<1>14. ASSUME Return \/ Abort \/ Crash PROVE Shape'
    <2>1. /\ wpc # "idle" /\ wpc' = "idle" /\ lock' = IF lock = Writer THEN Nobody ELSE lock
          /\ UNCHANGED table /\ UNCHANGED compactor /\ begun' = begun
          /\ acked' \in SUBSET (acked \cup {wop})
        BY <1>14, Zenon DEF Return, Abort, Crash, WriterGone, Unlock
    <2>2. lock = Writer /\ lock' = Nobody /\ wop \in begun
        BY <1>1, <2>1, Zenon DEF WriterOK
    <2>3. DirOK'
        BY <1>1, <1>4, <2>1, DirFrame, Zenon DEF table
    <2>4. WriterOK'
        BY <1>5, <2>1, <2>2 DEF WriterOK, WriterSteps
    <2>5. CompactorOK'
        BY <1>1, <1>4, <1>5, <2>1, <2>2, CompactorFrame
    <2> QED BY <1>1, <1>2, <2>1, <2>2, <2>3, <2>4, <2>5, Zenon DEF Shape
<1>20. ASSUME Pin \/ PinRepaired PROVE Shape'
    <2>1. PICK m : PinTo(m) /\ Good(m, Known) /\ m.seq >= 1 /\ m.seq \in Nat
        <3>1. CASE Pin
            BY <1>1, <3>1, LiveGood DEF Pin
        <3>2. CASE PinRepaired
            <4>1. Max(DOMAIN manifests) \in DOMAIN manifests
                <5> DEFINE T == {n \in 1 .. top : \A k \in DOMAIN manifests : k <= n}
                <5>1. top \in T /\ T \in SUBSET Nat
                    BY <1>6, <1>8
                <5>2. PICK n \in T : \A l \in T : n <= l
                    <6> HIDE DEF T
                    <6> QED BY <5>1, F!LeastNatural, Zenon
                <5>3. n \in DOMAIN manifests
                    <6> SUFFICES ASSUME n \notin DOMAIN manifests PROVE FALSE
                        OBVIOUS
                    <6>1. n \in 1 .. top /\ n - 1 \in Nat /\ \A k \in DOMAIN manifests : k <= n /\ k # n
                        BY <5>2
                    <6>2. \A k \in DOMAIN manifests : k <= n - 1
                        BY <1>6, <6>1
                    <6>3. n - 1 \in T
                        BY <1>8, <6>1, <6>2
                    <6> QED BY <5>2, <6>1, <6>3
                <5>4. \A k \in DOMAIN manifests : n >= k
                    BY <5>2, Zenon
                <5> QED BY <5>3, <5>4 DEF Max
            <4>2. Good(Repaired, Known) /\ Repaired.seq >= 1 /\ Repaired.seq \in Nat
                BY <1>6, <1>7, <4>1 DEF Repaired
            <4> QED BY <3>2, <4>2 DEF PinRepaired
        <3> QED BY <1>20, <3>1, <3>2
    <2>2. /\ attempt' = attempt + 1 /\ pinned' = m /\ pointer' = m.seq /\ log' = <<>>
          /\ manifests' = With(UpTo(manifests, m.seq), m)
          /\ cpc' = "scan" /\ out' = {} /\ mseq' = 0
          /\ lock' = lock /\ UNCHANGED writer /\ begun' = begun /\ acked' = acked
        BY <2>1, Zenon DEF PinTo, ManifestsUpTo
    <2>3. cpc = "idle" /\ lock = Nobody
        BY <1>20, Zenon DEF Pin, PinRepaired
    <2>4. DirOK'
        <3> DEFINE dir == UpTo(manifests, m.seq)
        <3>1. 1 \in DOMAIN dir
            BY <1>8, <2>1, Zenon DEF UpTo
        <3>2. {n \in DOMAIN manifests : n <= m.seq} \in SUBSET DOMAIN manifests
            OBVIOUS
        <3>3. /\ \E l \in Nat : DOMAIN dir \in SUBSET (1 .. l)
              /\ \A n \in DOMAIN dir : dir[n].seq = n /\ Good(dir[n], Known)
            BY <1>6, <1>7, <3>2, FewerFacts, Zenon DEF UpTo
        <3> HIDE DEF dir
        <3>4. manifests' = With(dir, m)
            BY <2>2, Zenon DEF dir
        <3>5. /\ \E l \in Nat : DOMAIN manifests' \in SUBSET (1 .. l)
              /\ 1 \in DOMAIN manifests'
              /\ \A n \in DOMAIN manifests' : manifests'[n].seq = n /\ Good(manifests'[n], Known)
            BY <2>1, <3>1, <3>3, <3>4, WithFacts
        <3>6. log' \in Seq(Record)
            BY <2>2
        <3> QED BY <1>4, <2>1, <2>2, <3>5, <3>6, Zenon DEF DirOK
    <2>5. WriterOK'
        BY <1>1, <1>2, <2>2, WriterFrame
    <2>6. CompactorOK'
        <3>1. attempt \in Nat
            BY <1>1 DEF CompactorOK
        <3> QED BY <1>4, <1>5, <2>1, <2>2, <2>3, <3>1
                DEF CompactorOK, CompactorSteps, Scanned, Rewritten, Locked
    <2> QED BY <1>1, <1>2, <2>2, <2>4, <2>5, <2>6 DEF Shape
<1>21. ASSUME UNCHANGED <<pointer, manifests, log, writer, begun, acked>>,
              lock' = lock \/ (lock # Writer /\ lock' \in {Nobody, Compactor}), CompactorOK'
       PROVE  Shape'
    <2>1. DirOK'
        BY <1>1, <1>4, <1>21, DirFrame
    <2>2. WriterOK'
        BY <1>1, <1>2, <1>5, <1>21, WriterFrame
    <2> QED BY <1>1, <1>2, <1>21, <2>1, <2>2 DEF Shape
<1>22. ASSUME Scan PROVE Shape'
    <2>1. /\ cpc = "scan" /\ UNCHANGED <<table, lock, writer, attempt, pinned, out, mseq, begun, acked>>
          /\ \/ cpc' = "done"
             \/ PointerHasManifest /\ view' = Live /\ cpc' = "intent"
        BY <1>22 DEF Scan, Done
    <2>2. cpc' = "intent" => Good(view', Known)
        BY <1>1, <2>1, LiveGood
    <2>3. out = {} /\ attempt \in Nat /\ mseq \in Nat \ {1} /\ Good(pinned, Known) /\ pinned.seq >= 1
          /\ lock # Compactor
        BY <1>1, <2>1 DEF CompactorOK, CompactorSteps, Scanned, Rewritten, Locked
    <2>4. CompactorOK'
        BY <1>4, <2>1, <2>2, <2>3 DEF CompactorOK, CompactorSteps, Scanned, Rewritten, Locked
    <2> QED BY <1>21, <2>1, <2>4 DEF table
<1>23. ASSUME WriteIntent \/ WriteOutput PROVE Shape'
    <2>1. /\ cpc \in {"intent", "write"}
          /\ UNCHANGED <<pointer, manifests, log, lock, writer, attempt, pinned, view, mseq, begun, acked>>
          /\ \/ cpc' = "write" /\ out' = out
             \/ cpc' = "lock" /\ out' = Output
        BY <1>23 DEF WriteIntent, WriteOutput
    <2>2. Output' = Output
        BY <2>1 DEF Output
    <2>3. /\ out = {} /\ attempt \in Nat /\ mseq \in Nat \ {1} /\ Good(pinned, Known)
          /\ pinned.seq >= 1 /\ Good(view, Known) /\ lock # Compactor
        BY <1>1, <2>1 DEF CompactorOK, CompactorSteps, Scanned, Rewritten, Locked
    <2>4. CompactorOK'
        BY <1>4, <2>1, <2>2, <2>3 DEF CompactorOK, CompactorSteps, Scanned, Rewritten, Locked
    <2> QED BY <1>21, <2>1, <2>4
<1>24. ASSUME Lock \/ CheckOutput \/ CompactFail \/ RollbackFiles \/ RollbackIntent
              \/ CompactCrash \/ Finish \/ SwapCompacted
       PROVE  Shape'
    <2>1. /\ UNCHANGED <<manifests, log, writer, attempt, pinned, view, out, begun, acked>>
          /\ pointer' \in {pointer, NextSeq} /\ (pointer' # pointer => SwapCompacted)
          /\ cpc' \in CompactorSteps
        BY <1>24 DEF Lock, CheckOutput, CompactFail, RollbackFiles, RollbackIntent, CompactCrash,
                     Finish, SwapCompacted, Done, table, CompactorSteps, Scanned, Rewritten, Locked
    <2>2. /\ cpc' \in Locked <=> lock' = Compactor
          /\ lock' = lock \/ (lock # Writer /\ lock' \in {Nobody, Compactor})
        <3>1. cpc \in Locked <=> lock = Compactor
            BY <1>1 DEF CompactorOK
        <3> QED BY <1>5, <1>24, <3>1, Zenon
                DEF Lock, CheckOutput, CompactFail, RollbackFiles, RollbackIntent, CompactCrash,
                    Finish, SwapCompacted, Done, Locked, Unlock
    <2>3. mseq' = mseq \/ (cpc = "lock" /\ mseq' = NextSeq)
        BY <1>24, Zenon DEF Lock, CheckOutput, CompactFail, RollbackFiles, RollbackIntent,
                            CompactCrash, Finish, SwapCompacted
    <2>4. /\ attempt \in Nat /\ mseq \in Nat \ {1}
          /\ cpc \in Scanned => Good(pinned, Known) /\ pinned.seq >= 1 /\ Good(view, Known)
          /\ out = {} \/ cpc \in Rewritten \cup {"idle", "done"}
          /\ cpc \in {"lock"} \cup Locked => out = Output
        BY <1>1 DEF CompactorOK, Scanned
    <2>5. cpc \in Scanned => pinned.seq \in Nat /\ NextSeq \in Nat /\ NextSeq # 1
        BY <2>4 DEF Good, Manifest, NextSeq
    <2>6. mseq' \in Nat \ {1}
        BY <2>3, <2>4, <2>5, Zenon DEF Scanned, Rewritten
    <2>7. Output' = Output
        BY <2>1, Zenon DEF Output
    <2>8. /\ cpc' \in Scanned \cup {"scan"} => cpc \in Scanned
          /\ cpc' \in Rewritten \cup {"idle", "done"}
          /\ cpc' \in {"lock"} \cup Locked => cpc \in {"lock"} \cup Locked
        BY <1>24, Zenon DEF Lock, CheckOutput, CompactFail, RollbackFiles, RollbackIntent, CompactCrash,
                     Finish, SwapCompacted, Done, Scanned, Rewritten, Locked
    <2>9. CompactorOK'
        BY <1>4, <2>1, <2>2, <2>4, <2>6, <2>7, <2>8, Zenon DEF CompactorOK, Scanned
    <2>10. CASE pointer' = pointer
        BY <1>21, <2>1, <2>2, <2>9, <2>10, Zenon
    <2>11. CASE pointer' # pointer
        <3>1. SwapCompacted /\ cpc = "swap"
            BY <2>1, <2>11, Zenon DEF SwapCompacted
        <3>2. pointer' \in Nat
            BY <2>1, <2>5, <3>1, <2>11, Zenon DEF Scanned, Rewritten, Locked
        <3>3. DirOK'
            BY <1>1, <1>4, <2>1, <3>2, Zenon DEF DirOK
        <3>4. WriterOK'
            BY <1>1, <1>2, <1>5, <2>1, <2>2, WriterFrame
        <3> QED BY <1>1, <1>2, <1>5, <2>1, <2>2, <2>9, <3>3, <3>4, Zenon DEF Shape
    <2> QED BY <2>10, <2>11
<1>25. ASSUME PublishCompacted \/ RollbackManifest PROVE Shape'
    <2>1. /\ pointer' = pointer /\ log' = log /\ lock' = lock /\ UNCHANGED writer
          /\ UNCHANGED <<attempt, pinned, view, out, mseq, begun, acked>>
          /\ \/ cpc = "manifest" /\ cpc' = "swap"
             \/ cpc = "rbManifest" /\ cpc' = "rbIntent"
        BY <1>25 DEF PublishCompacted, RollbackManifest
    <2>2. Output' = Output
        BY <2>1 DEF Output
    <2>3. /\ attempt \in Nat /\ mseq \in Nat \ {1} /\ (cpc \in Locked <=> lock = Compactor)
          /\ Good(pinned, Known) /\ pinned.seq >= 1 /\ Good(view, Known)
          /\ cpc = "manifest" => out = Output
        BY <1>1, <2>1 DEF CompactorOK, Scanned, Rewritten, Locked
    <2>4. CompactorOK'
        BY <1>4, <2>1, <2>2, <2>3 DEF CompactorOK, CompactorSteps, Scanned, Rewritten, Locked
    <2>5. WriterOK'
        BY <1>1, <1>2, <2>1, WriterFrame
    <2>6. DirOK'
        <3>1. CASE PublishCompacted
            <4>1. manifests' = With(manifests, CompactManifest) /\ out = Output
                BY <2>3, <3>1 DEF PublishCompacted
            <4>2. Good(CompactManifest, Known) /\ CompactManifest.seq = NextSeq
                BY <1>3, <2>3, <4>1, OutputGood
            <4>3. CompactManifest.seq >= 1
                BY <2>3, <4>2 DEF NextSeq, Good, Manifest
            <4>4. /\ \E l \in Nat : DOMAIN manifests' \in SUBSET (1 .. l)
                  /\ 1 \in DOMAIN manifests'
                  /\ \A n \in DOMAIN manifests' : manifests'[n].seq = n /\ Good(manifests'[n], Known)
                BY <1>6, <1>7, <1>8, <4>1, <4>2, <4>3, WithFacts
            <4> QED BY <1>4, <1>8, <2>1, <4>4 DEF DirOK
        <3>2. CASE RollbackManifest
            <4>1. /\ manifests' = [n \in DOMAIN manifests \ {mseq} |-> manifests[n]]
                  /\ DOMAIN manifests \ {mseq} \in SUBSET DOMAIN manifests
                BY <3>2 DEF RollbackManifest
            <4>2. /\ \E l \in Nat : DOMAIN manifests' \in SUBSET (1 .. l)
                  /\ \A n \in DOMAIN manifests' : manifests'[n].seq = n /\ Good(manifests'[n], Known)
                BY <1>6, <1>7, <4>1, FewerFacts
            <4>3. 1 \in DOMAIN manifests'
                BY <1>8, <2>3, <4>1
            <4> QED BY <1>4, <1>8, <2>1, <4>2, <4>3, Zenon DEF DirOK
        <3> QED BY <1>25, <3>1, <3>2
    <2> QED BY <1>1, <1>2, <2>1, <2>4, <2>5, <2>6 DEF Shape
<1>26. (\E op \in Ops : Begin(op)) \/ CrashInCleanup \/ Stage \/ AppendRecord \/ Publish \/ Swap
       \/ RemoveIntent \/ Return \/ Abort \/ Crash
       \/ Pin \/ PinRepaired \/ Scan \/ WriteIntent \/ WriteOutput \/ Lock \/ CheckOutput
       \/ PublishCompacted \/ SwapCompacted \/ Finish
       \/ CompactFail \/ RollbackFiles \/ RollbackManifest \/ RollbackIntent \/ CompactCrash
    BY Zenon DEF Next, Step
<1>27. CrashInCleanup \/ Stage \/ RemoveIntent =>
           UNCHANGED <<pointer, manifests, log, lock, compactor, begun, acked>>
    BY DEF CrashInCleanup, Stage, RemoveIntent
<1> QED BY <1>10, <1>11, <1>12, <1>13, <1>14, <1>20, <1>22, <1>23, <1>24, <1>25, <1>26, <1>27, Zenon
=============================================================================
