------------------------- MODULE QueryServiceOrder --------------------------
(***************************************************************************)
(* How the sequences of QueryService are ordered, proved for any number of *)
(* queries, commits and rows: what is acknowledged, pinned, planned, keyed *)
(* and cached names a manifest that exists, the provider is at least at    *)
(* what is acknowledged, and the delta of a mutation is the difference of  *)
(* the manifests it names.  Also the facts about the operators of the      *)
(* model and about its steps that QueryServiceProofs builds on.            *)
(***************************************************************************)
EXTENDS QueryService, TLAPS

IsSeq(s) == s \in Seq({s[i] : i \in DOMAIN s})

-----------------------------------------------------------------------------
(* Ordered *)

Fragment == [id : Nat, dead : BOOLEAN]

RowGroup == [id : Nat, dead : BOOLEAN, snap : Nat]

(* Ids are those of the commits that wrote them, and no two are the same. *)
ManifestOK(s) ==
    /\ disk[s] \in Seq(Fragment) /\ disk[s] # <<>>
    /\ \A i \in DOMAIN disk[s] : disk[s][i].id \in 1..s
    /\ \A i, j \in DOMAIN disk[s] : disk[s][i].id = disk[s][j].id => i = j

DiskOK == IsSeq(disk) /\ Latest >= 1 /\ \A s \in 1..Latest : ManifestOK(s)

QueryFields == {"pc", "q", "key", "floor", "pinned", "ver", "plan", "rows", "tries"}

WithPlan == {"repin", "store", "snap", "tiny", "copy"}

QueryShape(x) ==
    /\ DOMAIN x = QueryFields
    /\ x.key \in 0..Latest /\ x.ver \in 0..Latest /\ x.floor \in 0..acked
    /\ x.pc \notin {"idle", "done"} => x.key >= 1
    /\ x.pc \in WithPlan \union {"put"} => x.ver >= 1

ClientShape ==
    /\ DOMAIN client = {"pc", "q", "key", "past", "rows"}
    /\ client.key \in 0..Latest
    /\ client.pc # "idle" => client.key >= 1

(* The steps after which the provider has what the mutation committed. *)
Moved == {"seed", "drop", "clear", "reply"}

(* What a mutation committed, on top of what it found. *)
DeltaOK ==
    LET before == disk[mut.prev]
        after == disk[mut.new]
    IN /\ Len(after) = IF mut.change = "delete" THEN Len(before) ELSE Len(before) + 1
       /\ \A i \in DOMAIN before : after[i].id = before[i].id
       /\ mut.change # "delete" => after[Len(after)] = [id |-> mut.new, dead |-> FALSE]

MutShape ==
    /\ DOMAIN mut = {"api", "change", "prev", "new", "pc", "plan"}
    /\ mut.prev \in acked..Latest /\ mut.new = mut.prev + 1 /\ mut.new <= Latest
    /\ mut.pc \in Moved => mut.new <= prov.pinned
    /\ mut.new = Latest \/ "foreign" \in late
    /\ DeltaOK

ProvOK ==
    /\ prov = SnapshotState(prov.pinned, prov.stats) /\ prov.pinned \in 1..Latest
    /\ acked \in 1..prov.pinned

CachesOK ==
    /\ scanCache # Null => scanCache.seq \in 1..Latest
    /\ tiny # Null => tiny.ver \in 1..Latest

ResultsOK == IsSeq(results) /\ \A i \in DOMAIN results : results[i].seq \in 1..Latest

QueriesOK == query = [p \in Procs |-> query[p]] /\ \A p \in Procs : QueryShape(query[p])

MutOK == mut # Null => MutShape

Ordered == DiskOK /\ ProvOK /\ CachesOK /\ ResultsOK /\ QueriesOK /\ ClientShape /\ MutOK

-----------------------------------------------------------------------------
(* Planned *)

PlanOf(plan, s) == s \in 1..Latest /\ plan \in Seq(RowGroup) /\ Fragments(plan) = disk[s] /\ plan[1].snap \in 1..s

StatsOK == prov.stats # Null => prov.stats = Len(Answer(prov.pinned))

ScanOK == scanCache # Null => PlanOf(scanCache.plan, scanCache.seq)

QueryPlanned(p) == query[p].pc \in WithPlan => PlanOf(query[p].plan, query[p].ver)

DeltaPlanned == mut # Null /\ mut.pc \in {"install", "seed"} => PlanOf(mut.plan, mut.new)

Planned == InTime({"base"}) => StatsOK /\ ScanOK /\ (\A p \in Procs : QueryPlanned(p)) /\ DeltaPlanned

-----------------------------------------------------------------------------
(* Operators *)

\* A sequence has a length and that many elements.
LEMMA SeqFacts ==
    ASSUME NEW s, IsSeq(s)
    PROVE  Len(s) \in Nat /\ DOMAIN s = 1..Len(s)
BY DEF IsSeq

\* A sequence over any set is one over its elements.
LEMMA SeqIsSeq ==
    ASSUME NEW S, NEW s \in Seq(S)
    PROVE  IsSeq(s)
<1> DEFINE E == {s[i] : i \in DOMAIN s}
<1>1. Len(s) \in Nat /\ DOMAIN s = 1..Len(s) /\ s = [i \in 1..Len(s) |-> s[i]]
    OBVIOUS
<1>2. \A i \in 1..Len(s) : s[i] \in E
    BY <1>1
<1> HIDE DEF E
<1>3. s \in Seq(E)
    BY <1>1, <1>2
<1> QED BY <1>3 DEF IsSeq, E

\* ResultCache: the entries but one are entries (get and put replace a file).
LEMMA OthersFacts ==
    ASSUME NEW S, results \in Seq(S), NEW q, NEW s
    PROVE  Others(q, s) \in Seq(S)
<1> DEFINE i == CHOOSE i \in Found(q, s) : TRUE
<1>1. CASE Found(q, s) = {}
    BY <1>1 DEF Others
<1>2. CASE Found(q, s) # {}
    <2>1. i \in 1..Len(results) /\ Len(results) \in Nat
        BY <1>2 DEF Found
    <2>2. Others(q, s) = SubSeq(results, 1, i - 1) \o SubSeq(results, i + 1, Len(results))
        BY <1>2, Zenon DEF Others
    <2> HIDE DEF i
    <2>3. SubSeq(results, 1, i - 1) \in Seq(S) /\ SubSeq(results, i + 1, Len(results)) \in Seq(S)
        BY <2>1
    <2> QED BY <2>2, <2>3
<1> QED BY <1>1, <1>2

\* ResultCache::enforce_budget keeps the most recent of the entries.
LEMMA BudgetFacts ==
    ASSUME NEW S, NEW entries \in Seq(S)
    PROVE  EnforceBudget(entries) \in Seq(S)
<1> DEFINE kept(n) == SubSeq(entries, n + 1, Len(entries))
           enough(n) == n = Len(entries) \/ Size(kept(n)) <= Budget - Budget \div 10
           first(n) == enough(n) /\ \A m \in 0..(n - 1) : ~enough(m)
           alone(n) == \A m \in 0..Len(entries) : first(m) => m = n
           d == CHOOSE n \in 0..Len(entries) : alone(n)
<1>1. Len(entries) \in Nat
    OBVIOUS
<1>2. \E n \in 0..Len(entries) : alone(n)
    <2>1. ASSUME NEW n \in 0..Len(entries), NEW m \in 0..Len(entries), first(n), first(m)
          PROVE  m = n
        <3>1. ~(m < n) /\ ~(n < m)
            <4> HIDE DEF enough
            <4> QED BY <1>1, <2>1
        <3> QED BY <1>1, <3>1
    <2> HIDE DEF first
    <2> QED BY <1>1, <2>1
<1> HIDE DEF alone
<1>6. d \in 0..Len(entries)
    BY <1>2, Zenon
<1> USE DEF alone
<1>7. EnforceBudget(entries) = entries \/ EnforceBudget(entries) = kept(d)
    BY Zenon DEF EnforceBudget
<1>8. kept(d) \in Seq(S)
    <2> HIDE DEF d
    <2> QED BY <1>1, <1>6
<1> QED BY <1>7, <1>8, Zenon

\* ResultCache::put_table adds at most the entry it was given.
LEMMA PutFacts ==
    ASSUME IsSeq(results), NEW q, NEW s, NEW rows
    PROVE  /\ IsSeq(Put(q, s, rows))
           /\ \A i \in DOMAIN Put(q, s, rows) :
                  \/ Put(q, s, rows)[i] = Entry(q, s, rows)
                  \/ \E j \in DOMAIN results : Put(q, s, rows)[i] = results[j]
<1> DEFINE S == {results[j] : j \in DOMAIN results} \union {Entry(q, s, rows)}
           P == Put(q, s, rows)
<1>1. results \in Seq(S)
    BY DEF IsSeq
<1>2. Entry(q, s, rows) \in S
    OBVIOUS
<1> HIDE DEF S
<1>3. Append(Others(q, s), Entry(q, s, rows)) \in Seq(S)
    BY <1>1, <1>2, OthersFacts
<1>4. EnforceBudget(Append(Others(q, s), Entry(q, s, rows))) \in Seq(S)
    BY <1>3, BudgetFacts, Zenon
<1>5. P \in Seq(S)
    BY <1>1, <1>4 DEF Put
<1> HIDE DEF P
<1>6. \A i \in DOMAIN P : P[i] \in S
    BY <1>5
<1>7. IsSeq(P)
    BY <1>5, SeqIsSeq
<1>8. \A i \in DOMAIN P : P[i] = Entry(q, s, rows) \/ \E j \in DOMAIN results : P[i] = results[j]
    BY <1>6 DEF S
<1> QED BY <1>7, <1>8 DEF P

\* ResultCache::get finds an entry under its key and leaves the same entries.
LEMMA TouchedFacts ==
    ASSUME IsSeq(results), NEW q, NEW s, Found(q, s) # {}
    PROVE  /\ IsSeq(Touched(q, s))
           /\ \A i \in DOMAIN Touched(q, s) : \E j \in DOMAIN results : Touched(q, s)[i] = results[j]
           /\ \E j \in DOMAIN results : Cached(q, s) = results[j] /\ results[j].seq = s
<1> DEFINE S == {results[j] : j \in DOMAIN results}
           T == Touched(q, s)
<1>1. PICK j \in DOMAIN results : Cached(q, s) = results[j] /\ results[j].seq = s
    BY Zenon DEF Cached, Found
<1>2. results \in Seq(S) /\ Cached(q, s) \in S
    BY <1>1 DEF IsSeq
<1> HIDE DEF S
<1>3. T \in Seq(S)
    BY <1>2, OthersFacts DEF Touched
<1> HIDE DEF T
<1>4. \A i \in DOMAIN T : T[i] \in S
    BY <1>3
<1>5. IsSeq(T)
    BY <1>3, SeqIsSeq
<1>6. \A i \in DOMAIN T : \E k \in DOMAIN results : T[i] = results[k]
    BY <1>4 DEF S
<1> QED BY <1>1, <1>5, <1>6 DEF T

-----------------------------------------------------------------------------
(* Manifests and plans *)

\* What a commit makes of a manifest: every id stays where it is, and an
\* insert or an update adds one fragment (CommitDelta).
LEMMA ChangedFacts ==
    ASSUME Latest \in Nat, NEW change, NEW fs \in Seq(Fragment)
    PROVE  /\ Changed(change, fs) \in Seq(Fragment)
           /\ Len(Changed(change, fs)) = IF change = "delete" THEN Len(fs) ELSE Len(fs) + 1
           /\ \A i \in DOMAIN fs : Changed(change, fs)[i].id = fs[i].id
           /\ change # "delete" => Changed(change, fs)[Len(fs) + 1] = [id |-> Latest + 1, dead |-> FALSE]
<1> DEFINE v == Victim(fs)
           killed == [fs EXCEPT ![v].dead = TRUE]
           n == [id |-> Latest + 1, dead |-> FALSE]
<1>1. n \in Fragment
    BY DEF Fragment
<1>2. /\ killed \in Seq(Fragment) /\ Len(killed) = Len(fs)
      /\ \A i \in DOMAIN fs : killed[i].id = fs[i].id
    <2>1. Len(fs) \in Nat /\ DOMAIN fs = 1..Len(fs) /\ \A i \in 1..Len(fs) : fs[i] \in Fragment
        OBVIOUS
    <2>2. killed = [i \in 1..Len(fs) |-> IF i = v THEN [fs[i] EXCEPT !.dead = TRUE] ELSE fs[i]]
        BY <2>1, Zenon
    <2> HIDE DEF v, killed
    <2>3. \A i \in 1..Len(fs) : killed[i] \in Fragment /\ killed[i].id = fs[i].id
        BY <2>1, <2>2, Zenon DEF Fragment
    <2> QED BY <2>1, <2>2, <2>3
<1>3. /\ change = "insert" => Changed(change, fs) = Append(fs, n)
      /\ change = "delete" => Changed(change, fs) = killed
      /\ change \notin {"insert", "delete"} => Changed(change, fs) = Append(killed, n)
    BY DEF Changed, NewFragment
<1> HIDE DEF v, killed, n
<1>4. CASE change = "insert"
    <2>1. /\ Append(fs, n) \in Seq(Fragment) /\ Len(Append(fs, n)) = Len(fs) + 1
          /\ \A i \in DOMAIN fs : Append(fs, n)[i] = fs[i]
          /\ Append(fs, n)[Len(fs) + 1] = n
        BY <1>1
    <2> QED BY <1>3, <1>4, <2>1, SMTT(20) DEF n
<1>5. CASE change = "delete"
    BY <1>2, <1>3, <1>5
<1>6. CASE change \notin {"insert", "delete"}
    <2>1. /\ Append(killed, n) \in Seq(Fragment) /\ Len(Append(killed, n)) = Len(fs) + 1
          /\ \A i \in DOMAIN fs : Append(killed, n)[i] = killed[i]
          /\ Append(killed, n)[Len(fs) + 1] = n
        BY <1>1, <1>2
    <2> QED BY <1>2, <1>3, <1>6, <2>1, SMTT(20) DEF n
<1> QED BY <1>4, <1>5, <1>6

\* A commit adds a manifest and leaves the others as they are.
LEMMA CommitFacts ==
    ASSUME DiskOK, NEW change, CommitTo(change)
    PROVE  /\ DiskOK' /\ Latest' = Latest + 1
           /\ \A s \in 1..Latest : disk'[s] = disk[s]
           /\ disk'[Latest + 1] = Changed(change, disk[Latest])
<1> DEFINE n == Latest
           before == disk[n]
           after == Changed(change, before)
<1>1. IsSeq(disk) /\ n \in Nat /\ n >= 1 /\ DOMAIN disk = 1..n
    BY SeqFacts DEF DiskOK, Latest
<1>2. ManifestOK(n)
    BY <1>1 DEF DiskOK
<1>3. before \in Seq(Fragment) /\ before # <<>> /\ Len(before) \in Nat /\ DOMAIN before = 1..Len(before)
    BY <1>2 DEF ManifestOK
<1>4. /\ after \in Seq(Fragment)
      /\ Len(after) = IF change = "delete" THEN Len(before) ELSE Len(before) + 1
      /\ \A i \in DOMAIN before : after[i].id = before[i].id
      /\ change # "delete" => after[Len(before) + 1] = [id |-> n + 1, dead |-> FALSE]
    BY <1>1, <1>3, ChangedFacts, Zenon
<1>5. disk' = Append(disk, after)
    BY DEF CommitTo
<1> HIDE DEF after, before
<1>6. /\ Len(disk') = n + 1 /\ IsSeq(disk')
      /\ \A s \in 1..n : disk'[s] = disk[s]
      /\ disk'[n + 1] = after
    <2> DEFINE S == {disk[i] : i \in DOMAIN disk} \union {after}
    <2>1. disk \in Seq(S) /\ after \in S
        BY <1>1 DEF IsSeq
    <2> HIDE DEF S
    <2>2. disk' \in Seq(S)
        BY <1>5, <2>1
    <2>3. IsSeq(disk')
        BY <2>2, SeqIsSeq
    <2> QED BY <1>1, <1>5, <2>1, <2>3 DEF Latest
<1>7. \A s \in 1..n : ManifestOK(s)'
    <2> SUFFICES ASSUME NEW s \in 1..n PROVE ManifestOK(s)'
        OBVIOUS
    <2>1. ManifestOK(s)
        BY DEF DiskOK
    <2> QED BY <1>6, <2>1 DEF ManifestOK
<1>8. ASSUME NEW m, m = n + 1 PROVE ManifestOK(m)'
    <2>1. DOMAIN after = 1..Len(after) /\ Len(after) \in Nat /\ after # <<>>
        BY <1>3, <1>4
    <2>2. \A i \in DOMAIN before : before[i].id \in 1..n
        BY <1>2 DEF ManifestOK, before
    <2>3. \A i, j \in DOMAIN before : before[i].id = before[j].id => i = j
        BY <1>2 DEF ManifestOK, before
    <2>4. \A i \in DOMAIN after : i \in DOMAIN before \/ (change # "delete" /\ i = Len(before) + 1)
        BY <1>3, <1>4, <2>1
    <2>5. change # "delete" => after[Len(before) + 1].id = n + 1
        BY <1>4
    <2>6. \A i \in DOMAIN after : after[i].id \in 1..(n + 1)
        BY <1>1, <1>4, <2>2, <2>4, <2>5
    <2>7. \A i, j \in DOMAIN after : after[i].id = after[j].id => i = j
        BY <1>1, <1>4, <2>2, <2>3, <2>4, <2>5
    <2> QED BY <1>4, <1>6, <1>8, <2>1, <2>6, <2>7, Zenon DEF ManifestOK
<1>9. DiskOK'
    <2>1. \A s \in 1..(n + 1) : s \in 1..n \/ s = n + 1
        BY <1>1
    <2>2. Latest' = n + 1
        BY <1>6 DEF Latest
    <2>3. \A s \in 1..Latest' : ManifestOK(s)'
        BY <1>7, <1>8, <2>1, <2>2
    <2> QED BY <1>1, <1>6, <2>2, <2>3 DEF DiskOK
<1> QED BY <1>6, <1>9 DEF Latest, before, after

\* Reader::scan: what is loaded is the plan of the manifest it is loaded from.
LEMMA LoadedFacts ==
    ASSUME DiskOK, NEW s \in 1..Latest
    PROVE  PlanOf(Loaded(s), s) /\ Loaded(s)[1].snap = s
<1> DEFINE fs == disk[s]
           plan == Loaded(s)
<1>1. ManifestOK(s) /\ Latest \in Nat
    BY SeqFacts DEF DiskOK, Latest
<1>2. /\ fs \in Seq(Fragment) /\ Len(fs) \in Nat /\ Len(fs) >= 1 /\ DOMAIN fs = 1..Len(fs)
      /\ \A i \in 1..Len(fs) : fs[i] \in Fragment
    BY <1>1 DEF ManifestOK
<1>3. plan = [i \in 1..Len(fs) |-> [id |-> fs[i].id, dead |-> fs[i].dead, snap |-> s]]
    BY <1>2 DEF Loaded
<1> HIDE DEF plan
<1>4. \A i \in 1..Len(fs) : plan[i] \in RowGroup /\ plan[i].snap = s
    BY <1>1, <1>2, <1>3 DEF Fragment, RowGroup
<1>5. plan \in Seq(RowGroup)
    <2>1. plan \in [1..Len(fs) -> RowGroup]
        BY <1>3, <1>4, Zenon
    <2> QED BY <1>2, <2>1
<1>6. Fragments(plan) = fs
    <2>1. \A i \in 1..Len(fs) : [id |-> plan[i].id, dead |-> plan[i].dead] = fs[i]
        BY <1>2, <1>3 DEF Fragment
    <2>2. Fragments(plan) = [i \in 1..Len(fs) |-> fs[i]]
        BY <1>3, <2>1, Zenon DEF Fragments
    <2> QED BY <1>2, <2>2
<1> QED BY <1>1, <1>2, <1>4, <1>5, <1>6 DEF PlanOf, plan

\* A plan of a snapshot has the rows of the snapshot.
LEMMA PlanFacts ==
    ASSUME DiskOK, NEW plan, NEW s, PlanOf(plan, s)
    PROVE  /\ RowsOf(plan) = Answer(s)
           /\ Len(plan) = Len(disk[s]) /\ Len(plan) \in Nat /\ Len(plan) >= 1 /\ plan # <<>>
           /\ DOMAIN plan = 1..Len(plan)
           /\ \A i \in 1..Len(plan) : plan[i] \in RowGroup /\ disk[s][i] = [id |-> plan[i].id, dead |-> plan[i].dead]
<1>1. plan \in Seq(RowGroup) /\ Fragments(plan) = disk[s] /\ ManifestOK(s)
    BY DEF PlanOf, DiskOK
<1>2. RowsOf(plan) = Answer(s)
    BY <1>1 DEF RowsOf, Answer
<1>3. /\ Len(plan) \in Nat /\ DOMAIN plan = 1..Len(plan)
      /\ \A i \in 1..Len(plan) : plan[i] \in RowGroup
    BY <1>1
<1>4. disk[s] = [i \in 1..Len(plan) |-> [id |-> plan[i].id, dead |-> plan[i].dead]]
    BY <1>1, <1>3, SMTT(20) DEF Fragments
<1>5. disk[s] \in Seq(Fragment) /\ disk[s] # <<>>
    BY <1>1 DEF ManifestOK
<1>6. Len(disk[s]) \in Nat /\ DOMAIN disk[s] = 1..Len(disk[s]) /\ Len(disk[s]) >= 1
    BY <1>5
<1>7. DOMAIN disk[s] = 1..Len(plan)
    BY <1>4
<1>8. Len(plan) = Len(disk[s])
    BY <1>3, <1>6, <1>7
<1> QED BY <1>2, <1>3, <1>4, <1>6, <1>8

\* IcefallDBTableProvider::scan: the index of its own snapshot leaves out no
\* row of a plan.
LEMMA PrunedFacts ==
    ASSUME DiskOK, NEW plan, NEW s, PlanOf(plan, s)
    PROVE  RowsOf(IndexPruned(plan, s)) = Answer(s)
<1> DEFINE pruned == [i \in DOMAIN plan |-> [plan[i] EXCEPT !.dead = @ \/ plan[i].id \notin Indexed(s)]]
<1>1. /\ RowsOf(plan) = Answer(s) /\ DOMAIN plan = 1..Len(plan) /\ DOMAIN disk[s] = DOMAIN plan
      /\ \A i \in DOMAIN plan : plan[i] \in RowGroup /\ disk[s][i] = [id |-> plan[i].id, dead |-> plan[i].dead]
      /\ Fragments(plan) = disk[s]
    BY PlanFacts DEF PlanOf, Fragments
<1>2. ASSUME NEW i \in DOMAIN plan
      PROVE  pruned[i].id = plan[i].id /\ pruned[i].dead = plan[i].dead
    <2>1. plan[i].dead \in BOOLEAN /\ plan[i] \in RowGroup
        BY <1>1, Zenon DEF RowGroup
    <2>2. ~plan[i].dead => plan[i].id \in Indexed(s)
        <3>1. disk[s][i] = [id |-> plan[i].id, dead |-> plan[i].dead] /\ i \in DOMAIN disk[s]
            BY <1>1, Zenon
        <3>2. disk[s][i].id = plan[i].id /\ disk[s][i].dead = plan[i].dead
            BY <3>1
        <3> QED BY <3>1, <3>2 DEF Indexed
    <2>3. (plan[i].dead \/ plan[i].id \notin Indexed(s)) = plan[i].dead
        BY <2>1, <2>2
    <2>4. pruned[i] = [plan[i] EXCEPT !.dead = plan[i].dead]
        BY <2>3
    <2> QED BY <2>1, <2>4 DEF RowGroup
<1>3. DOMAIN pruned = DOMAIN plan
    OBVIOUS
<1>4. IndexPruned(plan, s) = plan \/ IndexPruned(plan, s) = pruned
    BY DEF IndexPruned
<1> HIDE DEF pruned
<1>5. Fragments(pruned) = Fragments(plan)
    BY <1>2, <1>3 DEF Fragments
<1>6. RowsOf(pruned) = RowsOf(plan)
    BY <1>5 DEF RowsOf
<1> QED BY <1>1, <1>4, <1>6

\* apply_committed_delta: the delta on top of the plan of the snapshot it
\* starts from is the plan of the snapshot it leads to.
LEMMA DeltaFacts ==
    ASSUME DiskOK, MutShape, NEW plan, PlanOf(plan, mut.prev)
    PROVE  PlanOf(WithDelta(plan), mut.new)
<1> DEFINE before == disk[mut.prev]
           after == disk[mut.new]
           n == Len(plan)
           isDead(id) == \E i \in DOMAIN after : after[i].id = id /\ after[i].dead
           kept == [i \in DOMAIN plan |-> [plan[i] EXCEPT !.dead = isDead(plan[i].id)]]
           new == [id |-> mut.new, dead |-> FALSE, snap |-> mut.new]
           r == WithDelta(plan)
<1>1. /\ Latest \in Nat /\ mut.new \in 1..Latest /\ mut.prev \in 1..Latest /\ mut.prev < mut.new
    <2>1. Latest \in Nat
        BY SeqFacts DEF DiskOK, Latest
    <2>2. mut.prev \in 1..Latest
        BY DEF PlanOf
    <2> QED BY <2>1, <2>2 DEF MutShape
<1>2. /\ n = Len(before) /\ n \in Nat /\ n >= 1 /\ DOMAIN plan = 1..n /\ plan[1].snap \in 1..mut.prev
      /\ \A i \in 1..n : plan[i] \in RowGroup /\ before[i] = [id |-> plan[i].id, dead |-> plan[i].dead]
    <2>1. plan[1].snap \in 1..mut.prev
        BY Zenon DEF PlanOf
    <2>2. /\ RowsOf(plan) = Answer(mut.prev)
          /\ n = Len(before) /\ n \in Nat /\ n >= 1 /\ plan # <<>>
          /\ DOMAIN plan = 1..n
          /\ \A i \in 1..n : plan[i] \in RowGroup /\ before[i] = [id |-> plan[i].id, dead |-> plan[i].dead]
        BY PlanFacts, Zenon
    <2> QED BY <2>1, <2>2, Zenon
<1>3. /\ after \in Seq(Fragment)
      /\ \A i, j \in DOMAIN after : after[i].id = after[j].id => i = j
    <2>1. ManifestOK(mut.new)
        BY <1>1 DEF DiskOK
    <2> QED BY <2>1, Zenon DEF ManifestOK
<1>4. /\ Len(after) = IF mut.change = "delete" THEN n ELSE n + 1
      /\ \A i \in DOMAIN before : after[i].id = before[i].id
      /\ mut.change # "delete" => after[Len(after)] = [id |-> mut.new, dead |-> FALSE]
    BY <1>2, Zenon DEF MutShape, DeltaOK
<1>5. /\ DOMAIN before = 1..n
    <2>1. ManifestOK(mut.prev)
        BY <1>1 DEF DiskOK
    <2> QED BY <1>2, <2>1 DEF ManifestOK
<1>6. r = IF mut.change = "delete" THEN kept ELSE Append(kept, new)
    BY Zenon DEF WithDelta
<1> HIDE DEF after, before, r, n
<1>7. ASSUME NEW i \in 1..n
      PROVE  /\ i \in DOMAIN after /\ kept[i] \in RowGroup
             /\ after[i] = [id |-> kept[i].id, dead |-> kept[i].dead]
             /\ kept[i].snap = plan[i].snap
    <2>1. i \in DOMAIN after /\ after[i] \in Fragment
        BY <1>2, <1>3, <1>4
    <2>2. after[i].id = plan[i].id
        <3>1. after[i].id = before[i].id /\ before[i] = [id |-> plan[i].id, dead |-> plan[i].dead]
            BY <1>2, <1>4, <1>5, Zenon
        <3> QED BY <3>1
    <2>3. isDead(plan[i].id) = after[i].dead
        <3>1. after[i].dead \in BOOLEAN
            BY <2>1 DEF Fragment
        <3> QED BY <1>3, <2>1, <2>2, <3>1, Zenon
    <2>4. kept[i] = [plan[i] EXCEPT !.dead = after[i].dead]
        BY <1>2, <2>3, Zenon
    <2> HIDE DEF kept
    <2>5. plan[i] \in RowGroup
        BY <1>2, Zenon
    <2> QED BY <2>1, <2>2, <2>4, <2>5 DEF RowGroup, Fragment
<1>8. kept \in Seq(RowGroup) /\ Len(kept) = n /\ DOMAIN kept = 1..n
    <2>1. DOMAIN kept = 1..n /\ kept = [i \in 1..n |-> kept[i]]
        BY <1>2
    <2> HIDE DEF kept
    <2>2. kept \in [1..n -> RowGroup]
        BY <1>7, <2>1, Zenon
    <2> QED BY <1>2, <2>1, <2>2
<1>9. new \in RowGroup
    BY <1>1 DEF RowGroup
<1>10. DOMAIN after = 1..Len(after) /\ Len(after) \in Nat /\ after = [i \in 1..Len(after) |-> after[i]]
    BY <1>3
<1> HIDE DEF kept, new
<1>11. /\ r \in Seq(RowGroup) /\ Len(r) = Len(after) /\ DOMAIN r = 1..Len(after)
       /\ \A i \in 1..n : r[i] = kept[i]
       /\ mut.change # "delete" => r[n + 1] = new
    <2>1. CASE mut.change = "delete"
        BY <1>2, <1>4, <1>6, <1>8, <2>1
    <2>2. CASE mut.change # "delete"
        <3>1. r = Append(kept, new) /\ Len(after) = n + 1
            BY <1>4, <1>6, <2>2
        <3> QED BY <1>2, <1>8, <1>9, <2>2, <3>1
    <2> QED BY <2>1, <2>2
<1>12. ASSUME NEW i \in 1..Len(after)
       PROVE  [id |-> r[i].id, dead |-> r[i].dead] = after[i]
    <2>1. CASE i \in 1..n
        BY <1>7, <1>11, <2>1
    <2>2. CASE i \notin 1..n
        <3>1. mut.change # "delete" /\ i = n + 1 /\ i = Len(after)
            BY <1>2, <1>4, <2>2
        <3>2. r[i] = new /\ after[i] = [id |-> mut.new, dead |-> FALSE]
            BY <1>4, <1>11, <3>1
        <3> QED BY <3>2 DEF new
    <2> QED BY <2>1, <2>2
<1>13. Fragments(r) = after
    BY <1>10, <1>11, <1>12 DEF Fragments
<1>14. r[1].snap \in 1..mut.new
    <2>1. 1 \in 1..n
        BY <1>2
    <2>2. r[1].snap = plan[1].snap
        BY <1>7, <1>11, <2>1, Zenon
    <2> QED BY <1>1, <1>2, <2>2
<1> QED BY <1>1, <1>11, <1>13, <1>14 DEF PlanOf, r, after

-----------------------------------------------------------------------------
(* Ordered is kept *)

\* The sequence numbers are numbers, in the order Ordered says.
LEMMA Numbers ==
    ASSUME Ordered
    PROVE  /\ Latest \in Nat /\ Latest >= 1 /\ acked \in 1..Latest
           /\ prov.pinned \in 1..Latest /\ acked <= prov.pinned
           /\ prov.indexes = prov.pinned
           /\ mut # Null => mut.prev \in 1..Latest /\ mut.new \in 1..Latest /\ acked < mut.new
<1>1. Latest \in Nat /\ Latest >= 1
    BY SeqFacts DEF Ordered, DiskOK, Latest
<1>2. prov.pinned \in 1..Latest /\ acked \in 1..prov.pinned
    BY DEF Ordered, ProvOK
<1>3. prov.indexes = prov.pinned
    <2>1. prov = SnapshotState(prov.pinned, prov.stats)
        BY DEF Ordered, ProvOK
    <2> QED BY <2>1 DEF SnapshotState
<1>4. mut # Null => mut.prev \in acked..Latest /\ mut.new = mut.prev + 1 /\ mut.new <= Latest
    BY DEF Ordered, MutOK, MutShape
<1> QED BY <1>1, <1>2, <1>3, <1>4

\* What a step that commits and acknowledges nothing leaves alone stays in order.
LEMMA OrderedFrame ==
    ASSUME Ordered, disk' = disk, acked' = acked
    PROVE  /\ DiskOK' /\ Latest' = Latest
           /\ prov' = prov => ProvOK'
           /\ UNCHANGED <<scanCache, tiny>> => CachesOK'
           /\ results' = results => ResultsOK'
           /\ query' = query => QueriesOK'
           /\ client' = client => ClientShape'
           /\ UNCHANGED <<mut, prov>> /\ late \subseteq late' => MutOK'
<1>1. Latest' = Latest
    BY DEF Latest
<1>2. DiskOK'
    BY <1>1 DEF Ordered, DiskOK, ManifestOK
<1>3. prov' = prov => ProvOK'
    BY <1>1 DEF Ordered, ProvOK, SnapshotState
<1>4. UNCHANGED <<scanCache, tiny>> => CachesOK'
    BY <1>1 DEF Ordered, CachesOK
<1>5. results' = results => ResultsOK'
    BY <1>1 DEF Ordered, ResultsOK, IsSeq
<1>6. query' = query => QueriesOK'
    <2> SUFFICES ASSUME query' = query PROVE QueriesOK'
        OBVIOUS
    <2> QED BY <1>1, Zenon DEF Ordered, QueriesOK, QueryShape
<1>7. client' = client => ClientShape'
    BY <1>1 DEF Ordered, ClientShape
<1>8. UNCHANGED <<mut, prov>> /\ late \subseteq late' => MutOK'
    <2> SUFFICES ASSUME mut' = mut, prov' = prov, late \subseteq late', mut # Null PROVE MutShape'
        BY Zenon DEF MutOK
    <2>1. MutShape
        BY Zenon DEF Ordered, MutOK
    <2>2. mut.new = Latest \/ "foreign" \in late'
        BY <2>1 DEF MutShape
    <2> QED BY <1>1, <2>1, <2>2, Zenon DEF MutShape, DeltaOK
<1> QED BY <1>1, <1>2, <1>3, <1>4, <1>5, <1>6, <1>7, <1>8, Zenon

\* One query at a time steps.
LEMMA QueryUpdate ==
    ASSUME Ordered, disk' = disk, acked' = acked, NEW p \in Procs, NEW x,
           query' = [query EXCEPT ![p] = x],
           QueryShape(x)
    PROVE  QueriesOK' /\ query'[p] = x /\ \A r \in Procs : r # p => query'[r] = query[r]
<1>1. Latest' = Latest
    BY DEF Latest
<1>2. query = [r \in Procs |-> query[r]] /\ \A r \in Procs : QueryShape(query[r])
    BY DEF Ordered, QueriesOK
<1>3. query' = [r \in Procs |-> IF r = p THEN x ELSE query[r]]
    BY <1>2
<1>4. query'[p] = x /\ \A r \in Procs : r # p => query'[r] = query[r]
    BY <1>3
<1>5. query' = [r \in Procs |-> query'[r]]
    BY <1>3, Zenon
<1>6. ASSUME NEW r \in Procs PROVE QueryShape(query[r])'
    <2>1. CASE r = p
        <3>1. query'[r] = x
            BY <1>4, <2>1, Zenon
        <3> QED BY <1>1, <3>1, Zenon DEF QueryShape
    <2>2. CASE r # p
        <3>1. QueryShape(query[r])
            BY <1>2, Zenon
        <3>2. query'[r] = query[r]
            BY <1>4, <2>2, Zenon
        <3> QED BY <1>1, <3>1, <3>2, Zenon DEF QueryShape
    <2> QED BY <2>1, <2>2
<1> QED BY <1>4, <1>5, <1>6, Zenon DEF QueriesOK

\* repin_snapshot never moves the provider back.
LEMMA RepinnedFacts ==
    ASSUME Ordered, disk' = disk, UNCHANGED <<acked, mut>>, late \subseteq late', NEW s \in 1..Latest,
           prov' = Repinned(s) \/ prov' = prov
    PROVE  ProvOK' /\ MutOK' /\ prov.pinned <= prov'.pinned
<1>1. /\ Latest \in Nat /\ acked \in 1..Latest /\ prov.pinned \in 1..Latest /\ acked <= prov.pinned
      /\ prov = SnapshotState(prov.pinned, prov.stats)
    BY Numbers DEF Ordered, ProvOK
<1>2. Latest' = Latest
    BY DEF Latest
<1>3. \/ prov' = prov
      \/ s >= prov.pinned /\ prov' = SnapshotState(s, Len(Answer(s)))
    BY DEF Repinned
<1>4. /\ prov'.pinned \in 1..Latest /\ prov.pinned <= prov'.pinned
      /\ prov' = SnapshotState(prov'.pinned, prov'.stats)
    BY <1>1, <1>3 DEF SnapshotState
<1>5. ProvOK'
    BY <1>1, <1>2, <1>4 DEF ProvOK, SnapshotState
<1>6. MutOK'
    <2> SUFFICES ASSUME mut # Null PROVE MutShape'
        BY Zenon DEF MutOK
    <2>1. MutShape
        BY Zenon DEF Ordered, MutOK
    <2>2. mut.new = Latest \/ "foreign" \in late'
        BY <2>1 DEF MutShape
    <2>3. mut.pc \in Moved => mut.new <= prov'.pinned
        BY <1>1, <1>4, <2>1 DEF MutShape
    <2> QED BY <1>2, <2>1, <2>2, <2>3, Zenon DEF MutShape, DeltaOK
<1> QED BY <1>4, <1>5, <1>6

\* A result is put under a sequence that is on disk.
LEMMA ResultsPut ==
    ASSUME Ordered, disk' = disk, NEW q, NEW s \in 1..Latest, NEW rows, results' = Put(q, s, rows)
    PROVE  ResultsOK'
<1>1. IsSeq(results) /\ \A i \in DOMAIN results : results[i].seq \in 1..Latest
    BY DEF Ordered, ResultsOK
<1>2. IsSeq(results')
    BY <1>1, PutFacts
<1>3. \A i \in DOMAIN results' : results'[i] = Entry(q, s, rows) \/ \E j \in DOMAIN results : results'[i] = results[j]
    BY <1>1, PutFacts
<1>4. Latest' = Latest /\ Entry(q, s, rows).seq = s
    BY DEF Latest, Entry
<1> QED BY <1>1, <1>2, <1>3, <1>4 DEF ResultsOK

\* What the queries do keeps the order.
LEMMA OrderedQueries ==
    ASSUME Ordered, NEW p \in Procs, QStep(p) \/ \E q \in {"all", "ids"} : QStart(p, q)
    PROVE  /\ Ordered' /\ disk' = disk /\ acked' = acked /\ mut' = mut /\ client' = client
           /\ late \subseteq late' /\ prov.pinned <= prov'.pinned
           /\ \A r \in Procs : r # p => query'[r] = query[r]
<1> DEFINE x == query[p]
           Goal == /\ Ordered' /\ disk' = disk /\ acked' = acked /\ mut' = mut /\ client' = client
                   /\ late \subseteq late' /\ prov.pinned <= prov'.pinned
                   /\ \A r \in Procs : r # p => query'[r] = query[r]
<1>1. /\ Latest \in Nat /\ Latest >= 1 /\ acked \in 1..Latest
      /\ prov.pinned \in 1..Latest /\ acked <= prov.pinned
    BY Numbers
<1>2. QueryShape(x)
    BY DEF Ordered, QueriesOK
<1> HIDE DEF x
<1>3. ASSUME disk' = disk, acked' = acked, mut' = mut, client' = client, late \subseteq late',
             prov' = prov, ResultsOK', CachesOK',
             NEW y, query' = [query EXCEPT ![p] = y], QueryShape(y)
      PROVE  Goal
    <2>1. QueriesOK' /\ \A r \in Procs : r # p => query'[r] = query[r]
        BY <1>3, QueryUpdate, Zenon
    <2>2. DiskOK' /\ ProvOK' /\ ClientShape' /\ MutOK'
        BY <1>3, OrderedFrame
    <2> QED BY <1>1, <1>3, <2>1, <2>2 DEF Ordered
<1>4. disk' = disk /\ acked' = acked => /\ results' = results => ResultsOK'
                                        /\ UNCHANGED <<scanCache, tiny>> => CachesOK'
    BY OrderedFrame, Zenon
<1>5. ASSUME NEW q, QStart(p, q) PROVE Goal
    <2> DEFINE begun == [Idle EXCEPT !.q = q, !.key = CacheKey, !.floor = acked]
               y == IF Found(q, CacheKey) # {} THEN [begun EXCEPT !.pc = "done", !.rows = Cached(q, CacheKey).rows]
                    ELSE [begun EXCEPT !.pc = "read"]
    <2>1. /\ query' = [query EXCEPT ![p] = y]
          /\ UNCHANGED <<setting, disk, prov, scanCache, tiny, client, mut, acked, late>>
          /\ IF Found(q, CacheKey) # {} THEN results' = Touched(q, CacheKey) ELSE results' = results
        BY <1>5 DEF QStart
    <2>2. QueryShape(y)
        BY <1>1 DEF Idle, CacheKey, QueryShape, QueryFields, WithPlan
    <2>3. ResultsOK'
        <3>1. CASE Found(q, CacheKey) = {}
            BY <1>4, <2>1, <3>1
        <3>2. CASE Found(q, CacheKey) # {}
            <4>1. IsSeq(results) /\ \A i \in DOMAIN results : results[i].seq \in 1..Latest
                BY DEF Ordered, ResultsOK
            <4>2. IsSeq(results') /\ \A i \in DOMAIN results' : \E j \in DOMAIN results : results'[i] = results[j]
                BY <2>1, <3>2, <4>1, TouchedFacts
            <4>3. Latest' = Latest
                BY <2>1 DEF Latest
            <4> QED BY <4>1, <4>2, <4>3 DEF ResultsOK
        <3> QED BY <3>1, <3>2
    <2>4. CachesOK'
        BY <1>4, <2>1
    <2> HIDE DEF y
    <2> QED BY <1>3, <2>1, <2>2, <2>3, <2>4, Zenon
<1>6. CASE QRead(p)
    <2> DEFINE y == PlanOrMiss(x)
    <2>1. /\ query' = [query EXCEPT ![p] = y]
          /\ UNCHANGED <<setting, asked, disk, prov, scanCache, tiny, results, client, mut, acked, late>>
          /\ x.pc \in {"read", "reread"}
        BY <1>6 DEF QRead, x
    <2>2. QueryShape(y)
        <3>1. scanCache # Null => scanCache.seq \in 1..Latest
            BY DEF Ordered, CachesOK
        <3> QED BY <1>1, <1>2, <2>1, <3>1 DEF PlanOrMiss, QueryShape, QueryFields, WithPlan
    <2> HIDE DEF y
    <2> QED BY <1>3, <1>4, <2>1, <2>2, Zenon
<1>7. CASE QLoad(p)
    <2> DEFINE y == [x EXCEPT !.pc = IF x.tries = MaxTries THEN "snap" ELSE "repin", !.ver = Latest, !.plan = Loaded(Latest)]
    <2>1. /\ query' = [query EXCEPT ![p] = y]
          /\ UNCHANGED <<setting, asked, disk, prov, scanCache, tiny, results, client, mut, acked, late>>
          /\ x.pc = "load"
        BY <1>7, Zenon DEF QLoad, x, Ordered, QueriesOK
    <2>2. QueryShape(y)
        BY <1>1, <1>2, <2>1 DEF QueryShape, QueryFields, WithPlan
    <2> HIDE DEF y
    <2> QED BY <1>3, <1>4, <2>1, <2>2, Zenon
<1>8. CASE QRepin(p)
    <2> DEFINE y == AfterRepin(x, prov'.pinned)
    <2>1. /\ query' = [query EXCEPT ![p] = y] /\ (prov' = Repinned(x.ver) \/ prov' = prov)
          /\ UNCHANGED <<setting, asked, disk, scanCache, tiny, results, client, mut, acked, late>>
          /\ x.pc = "repin"
        <3>1. query' = [query EXCEPT ![p] = y]
            BY <1>8, Zenon DEF QRepin, x
        <3> HIDE DEF y
        <3> QED BY <1>8, <3>1, Zenon DEF QRepin, x
    <2>2. QueryShape(y)
        BY <1>1, <1>2, <2>1 DEF QueryShape, QueryFields, WithPlan, AfterRepin
    <2>3. x.ver \in 1..Latest
        BY <1>1, <1>2, <2>1 DEF QueryShape, WithPlan
    <2> HIDE DEF y
    <2>4. ProvOK' /\ MutOK' /\ prov.pinned <= prov'.pinned
        BY <2>1, <2>3, RepinnedFacts
    <2>5. QueriesOK' /\ \A r \in Procs : r # p => query'[r] = query[r]
        BY <2>1, <2>2, QueryUpdate, Zenon
    <2>6. DiskOK' /\ CachesOK' /\ ResultsOK' /\ ClientShape'
        BY <2>1, OrderedFrame
    <2> QED BY <2>1, <2>4, <2>5, <2>6 DEF Ordered
<1>9. CASE QStore(p)
    <2> DEFINE y == [x EXCEPT !.pc = "snap"]
    <2>1. /\ query' = [query EXCEPT ![p] = y] /\ scanCache' = [seq |-> x.ver, plan |-> x.plan]
          /\ UNCHANGED <<setting, asked, disk, prov, tiny, results, client, mut, acked, late>>
          /\ x.pc = "store"
        BY <1>9 DEF QStore, x, Ordered, QueriesOK
    <2>2. QueryShape(y)
        BY <1>1, <1>2, <2>1 DEF QueryShape, QueryFields, WithPlan
    <2>3. CachesOK'
        <3>1. x.ver \in 1..Latest /\ Latest' = Latest
            BY <1>1, <1>2, <2>1 DEF QueryShape, WithPlan, Latest
        <3> QED BY <2>1, <3>1 DEF Ordered, CachesOK
    <2> HIDE DEF y
    <2> QED BY <1>3, <1>4, <2>1, <2>2, <2>3, Zenon
<1>10. CASE QSnap(p)
    <2> DEFINE y == IF x.q = "ids" THEN Ran(x, RowsOf(IndexPruned(x.plan, prov.indexes)))
                    ELSE IF x.plan = <<>> THEN Ran(x, <<>>) ELSE [x EXCEPT !.pc = "tiny"]
    <2>1. /\ query' = [query EXCEPT ![p] = y] /\ late \subseteq late'
          /\ UNCHANGED <<setting, asked, disk, prov, scanCache, tiny, results, client, mut, acked>>
          /\ x.pc = "snap"
        BY <1>10 DEF QSnap, x
    <2>2. QueryShape(y)
        BY <1>1, <1>2, <2>1 DEF QueryShape, QueryFields, WithPlan, Ran
    <2> HIDE DEF y
    <2> QED BY <1>3, <1>4, <2>1, <2>2, Zenon
<1>11. CASE QTiny(p)
    <2> DEFINE hit == tiny # Null /\ tiny.key = Head(x.plan).snap
               y == IF hit THEN [Ran(x, tiny.rows) EXCEPT !.ver = tiny.ver]
                    ELSE IF Len(x.plan) <= TinyRows THEN [x EXCEPT !.pc = "copy"]
                    ELSE Ran(x, RowsOf(x.plan))
    <2>1. /\ query' = [query EXCEPT ![p] = y] /\ late \subseteq late'
          /\ UNCHANGED <<setting, asked, disk, prov, scanCache, tiny, results, client, mut, acked>>
          /\ x.pc = "tiny"
        BY <1>11 DEF QTiny, x
    <2>2. QueryShape(y)
        <3>1. tiny # Null => tiny.ver \in 1..Latest
            BY DEF Ordered, CachesOK
        <3> QED BY <1>1, <1>2, <2>1, <3>1 DEF QueryShape, QueryFields, WithPlan, Ran
    <2> HIDE DEF y
    <2> QED BY <1>3, <1>4, <2>1, <2>2, Zenon
<1>12. CASE QCopy(p)
    <2> DEFINE y == Ran(x, RowsOf(x.plan))
    <2>1. /\ query' = [query EXCEPT ![p] = y] /\ late \subseteq late'
          /\ tiny' = [key |-> Head(x.plan).snap, rows |-> RowsOf(x.plan), ver |-> x.ver]
          /\ UNCHANGED <<setting, asked, disk, prov, scanCache, results, client, mut, acked>>
          /\ x.pc = "copy"
        BY <1>12 DEF QCopy, x
    <2>2. QueryShape(y)
        BY <1>1, <1>2, <2>1 DEF QueryShape, QueryFields, WithPlan, Ran
    <2>3. CachesOK'
        <3>1. x.ver \in 1..Latest /\ Latest' = Latest
            BY <1>1, <1>2, <2>1 DEF QueryShape, WithPlan, Latest
        <3> QED BY <2>1, <3>1 DEF Ordered, CachesOK
    <2> HIDE DEF y
    <2> QED BY <1>3, <1>4, <2>1, <2>2, <2>3, Zenon
<1>13. CASE QPut(p)
    <2> DEFINE y == [x EXCEPT !.pc = "done", !.key = 0, !.ver = 0]
    <2>1. /\ query' = [query EXCEPT ![p] = y] /\ late \subseteq late'
          /\ results' = Put(x.q, x.key, x.rows)
          /\ UNCHANGED <<setting, asked, disk, prov, scanCache, tiny, client, mut, acked>>
          /\ x.pc = "put"
        BY <1>13 DEF QPut, x
    <2>2. QueryShape(y)
        BY <1>1, <1>2, <2>1 DEF QueryShape, QueryFields, WithPlan
    <2>3. ResultsOK'
        <3>1. x.key \in 1..Latest
            BY <1>1, <1>2, <2>1 DEF QueryShape
        <3> QED BY <2>1, <3>1, ResultsPut
    <2> HIDE DEF y
    <2> QED BY <1>3, <1>4, <2>1, <2>2, <2>3, Zenon
<1>14. CASE QReturn(p)
    <2>1. /\ query' = [query EXCEPT ![p] = Idle]
          /\ UNCHANGED <<setting, asked, disk, prov, scanCache, tiny, results, client, mut, acked, late>>
        BY <1>14 DEF QReturn
    <2>2. QueryShape(Idle)
        BY <1>1 DEF Idle, QueryShape, QueryFields, WithPlan
    <2> QED BY <1>3, <1>4, <2>1, <2>2, Zenon
<1> QED BY <1>5, <1>6, <1>7, <1>8, <1>9, <1>10, <1>11, <1>12, <1>13, <1>14 DEF QStep

\* What the command line's queries do keeps the order.
LEMMA OrderedClient ==
    ASSUME Ordered,
           \/ CliRun \/ CliPut \/ CliReturn
           \/ \E q \in {"all", "ids"}, s \in 1..Latest, past \in BOOLEAN : CliStart(q, s, past)
    PROVE  /\ Ordered' /\ UNCHANGED <<disk, acked, mut, prov, scanCache, tiny, query>>
           /\ late \subseteq late'
<1>2. ClientShape /\ Latest \in Nat /\ Latest >= 1
    BY Numbers DEF Ordered
<1>3. ASSUME UNCHANGED <<disk, acked, mut, prov, scanCache, tiny, query>>, late \subseteq late', ResultsOK', ClientShape'
      PROVE  Ordered'
    BY <1>3, OrderedFrame DEF Ordered
<1>4. ASSUME NEW q, NEW s \in 1..Latest, NEW past, CliStart(q, s, past)
      PROVE  Ordered' /\ UNCHANGED <<disk, acked, mut, prov, scanCache, tiny, query>> /\ late \subseteq late'
    <2>1. UNCHANGED <<disk, acked, mut, prov, scanCache, tiny, query, late>>
        BY <1>4, Zenon DEF CliStart
    <2>2. IF Found(q, s) # {} THEN results' = Touched(q, s) ELSE results' = results
        BY <1>4, Zenon DEF CliStart
    <2>3. ResultsOK'
        <3>1. CASE Found(q, s) = {}
            BY <2>1, <2>2, <3>1, OrderedFrame
        <3>2. CASE Found(q, s) # {}
            <4>1. IsSeq(results) /\ \A i \in DOMAIN results : results[i].seq \in 1..Latest
                BY DEF Ordered, ResultsOK
            <4>2. IsSeq(results') /\ \A i \in DOMAIN results' : \E j \in DOMAIN results : results'[i] = results[j]
                BY <2>2, <3>2, <4>1, TouchedFacts
            <4>3. Latest' = Latest
                BY <2>1 DEF Latest
            <4> QED BY <4>1, <4>2, <4>3 DEF ResultsOK
        <3> QED BY <3>1, <3>2
    <2>4. ClientShape'
        <3>1. Latest' = Latest
            BY <2>1 DEF Latest
        <3>2. DOMAIN client' = {"pc", "q", "key", "past", "rows"} /\ client'.key = s
            BY <1>4, Zenon DEF CliStart, NoClient
        <3> QED BY <1>2, <3>1, <3>2 DEF ClientShape
    <2> QED BY <1>3, <2>1, <2>3, <2>4
<1>5. CASE CliRun
    <2>1. UNCHANGED <<disk, acked, mut, prov, scanCache, tiny, query, results>> /\ late \subseteq late'
        BY <1>5 DEF CliRun
    <2>2. ResultsOK' /\ Latest' = Latest
        BY <2>1, OrderedFrame
    <2>3. DOMAIN client' = DOMAIN client /\ client'.key = client.key /\ client.pc = "run"
        BY <1>2, <1>5 DEF CliRun, ClientShape
    <2>4. ClientShape'
        BY <1>2, <2>2, <2>3 DEF ClientShape
    <2> QED BY <1>3, <2>1, <2>2, <2>4
<1>6. CASE CliPut
    <2>1. /\ UNCHANGED <<disk, acked, mut, prov, scanCache, tiny, query, late>>
          /\ results' = Put(client.q, client.key, client.rows) /\ client.pc = "put"
        BY <1>6 DEF CliPut
    <2>2. client.key \in 1..Latest
        BY <1>2, <2>1 DEF ClientShape
    <2>3. ResultsOK' /\ Latest' = Latest
        BY <2>1, <2>2, ResultsPut DEF Latest
    <2>4. DOMAIN client' = DOMAIN client /\ client'.key = client.key
        BY <1>2, <1>6 DEF CliPut, ClientShape
    <2>5. ClientShape'
        BY <1>2, <2>1, <2>3, <2>4 DEF ClientShape
    <2> QED BY <1>3, <2>1, <2>3, <2>5
<1>7. CASE CliReturn
    <2>1. UNCHANGED <<disk, acked, mut, prov, scanCache, tiny, query, results, late>> /\ client' = NoClient
        BY <1>7 DEF CliReturn
    <2>2. ResultsOK' /\ Latest' = Latest
        BY <2>1, OrderedFrame
    <2>3. ClientShape'
        BY <1>2, <2>1, <2>2 DEF ClientShape, NoClient
    <2> QED BY <1>3, <2>1, <2>2, <2>3
<1> QED BY <1>4, <1>5, <1>6, <1>7

\* What a step that may commit or acknowledge leaves alone stays in order.
LEMMA OrderedGrowth ==
    ASSUME Ordered, Latest' \in Nat, Latest <= Latest', acked' \in Nat, acked <= acked'
    PROVE  /\ UNCHANGED <<scanCache, tiny>> => CachesOK'
           /\ results' = results => ResultsOK'
           /\ query' = query => QueriesOK'
           /\ client' = client => ClientShape'
<1>1. Latest \in Nat /\ acked \in Nat
    BY Numbers
<1>2. UNCHANGED <<scanCache, tiny>> => CachesOK'
    BY <1>1 DEF Ordered, CachesOK
<1>3. results' = results => ResultsOK'
    <2>1. \A i \in DOMAIN results : results[i].seq \in 1..Latest'
        BY <1>1 DEF Ordered, ResultsOK
    <2> QED BY <2>1 DEF Ordered, ResultsOK, IsSeq
<1>4. query' = query => QueriesOK'
    <2> SUFFICES ASSUME query' = query PROVE QueriesOK'
        OBVIOUS
    <2>1. \A p \in Procs : QueryShape(query[p])
        BY DEF Ordered, QueriesOK
    <2>2. \A p \in Procs : QueryShape(query[p])'
        BY <1>1, <2>1 DEF QueryShape
    <2> QED BY <2>2, Zenon DEF Ordered, QueriesOK
<1>5. client' = client => ClientShape'
    BY <1>1 DEF Ordered, ClientShape
<1> QED BY <1>2, <1>3, <1>4, <1>5

\* A commit, by the service or by another process, keeps the order.
LEMMA OrderedCommit ==
    ASSUME Ordered, NEW change, NEW api, ForeignCommit(change) \/ MCommit(api, change)
    PROVE  /\ Ordered' /\ Latest' = Latest + 1
           /\ \A s \in 1..Latest : disk'[s] = disk[s]
           /\ UNCHANGED <<acked, prov, scanCache, tiny, results, query, client>> /\ late \subseteq late'
           /\ mut' = mut \/ (mut = Null /\ mut'.new = Latest + 1 /\ mut'.pc \in {"replace", "check"})
<1>1. /\ CommitTo(change) /\ UNCHANGED <<acked, prov, scanCache, tiny, results, query, client>> /\ late \subseteq late'
    BY Zenon DEF ForeignCommit, MCommit
<1>2. /\ Latest \in Nat /\ Latest >= 1 /\ acked \in 1..Latest /\ prov.pinned \in 1..Latest /\ acked <= prov.pinned
    BY Numbers
<1>3. /\ DiskOK' /\ Latest' = Latest + 1
      /\ \A s \in 1..Latest : disk'[s] = disk[s]
      /\ disk'[Latest + 1] = Changed(change, disk[Latest])
    BY <1>1, CommitFacts, SMTT(20) DEF Ordered
<1>4. CachesOK' /\ ResultsOK' /\ QueriesOK' /\ ClientShape'
    BY <1>1, <1>2, <1>3, OrderedGrowth
<1>5. ProvOK'
    BY <1>1, <1>2, <1>3, SMTT(20) DEF Ordered, ProvOK, SnapshotState
<1>6. CASE ForeignCommit(change)
    <2>1. mut' = mut /\ "foreign" \in late'
        BY <1>6 DEF ForeignCommit
    <2>2. MutOK'
        <3> SUFFICES ASSUME mut # Null PROVE MutShape'
            BY <2>1, Zenon DEF MutOK
        <3>1. MutShape
            BY Zenon DEF Ordered, MutOK
        <3>2. mut.prev \in 1..Latest /\ mut.new \in 1..Latest
            BY Numbers
        <3>3. disk'[mut.prev] = disk[mut.prev] /\ disk'[mut.new] = disk[mut.new]
            BY <1>3, <3>2, SMTT(20)
        <3>4. DeltaOK'
            BY <2>1, <3>1, <3>3 DEF MutShape, DeltaOK
        <3> QED BY <1>1, <1>2, <1>3, <2>1, <3>1, <3>2, <3>4 DEF MutShape
    <2> QED BY <1>1, <1>3, <1>4, <1>5, <2>1, <2>2, SMTT(20) DEF Ordered
<1>7. CASE MCommit(api, change)
    <2>1. mut = Null /\ mut' = [Mutation(api, change) EXCEPT !.pc = IF api = "batch" THEN "replace" ELSE "check"]
        BY <1>7 DEF MCommit
    <2>2. /\ DOMAIN mut' = {"api", "change", "prev", "new", "pc", "plan"}
          /\ mut'.change = change /\ mut'.prev = Latest /\ mut'.new = Latest + 1 /\ mut'.pc \in {"replace", "check"}
        BY <2>1 DEF Mutation
    <2> DEFINE before == disk[Latest]
               after == Changed(change, before)
    <2>3. before \in Seq(Fragment) /\ Len(before) \in Nat
        <3>1. ManifestOK(Latest)
            BY <1>2 DEF Ordered, DiskOK
        <3> QED BY <3>1 DEF ManifestOK
    <2> HIDE DEF before
    <2>4. /\ after \in Seq(Fragment)
          /\ Len(after) = IF change = "delete" THEN Len(before) ELSE Len(before) + 1
          /\ \A i \in DOMAIN before : after[i].id = before[i].id
          /\ change # "delete" => after[Len(before) + 1] = [id |-> Latest + 1, dead |-> FALSE]
        <3>1. Latest \in Nat /\ before \in Seq(Fragment)
            BY <1>2, <2>3
        <3> QED BY <3>1, ChangedFacts, Zenon
    <2>5. disk'[mut'.prev] = before /\ disk'[mut'.new] = after
        BY <1>2, <1>3, <2>2, SMTT(20) DEF before
    <2> HIDE DEF after
    <2>6. DeltaOK'
        BY <2>2, <2>3, <2>4, <2>5 DEF DeltaOK
    <2>7. MutShape'
        BY <1>1, <1>2, <1>3, <2>2, <2>6 DEF MutShape, Moved
    <2> QED BY <1>1, <1>3, <1>4, <1>5, <2>1, <2>2, <2>7 DEF Ordered, MutOK
<1> QED BY <1>6, <1>7

\* The steps of a mutation, and a refresh, keep the order; only where another
\* process commits can they move the provider back.
LEMMA OrderedMutation ==
    ASSUME Ordered, MStep \/ Refresh
    PROVE  /\ Ordered' /\ disk' = disk /\ UNCHANGED <<query, client>> /\ late \subseteq late'
           /\ prov.pinned <= prov'.pinned \/ "foreign" \in late
<1> DEFINE Goal == /\ Ordered' /\ disk' = disk /\ UNCHANGED <<query, client>> /\ late \subseteq late'
                   /\ prov.pinned <= prov'.pinned \/ "foreign" \in late
<1>1. /\ Latest \in Nat /\ Latest >= 1 /\ acked \in 1..Latest
      /\ prov.pinned \in 1..Latest /\ acked <= prov.pinned
      /\ mut # Null => mut.prev \in 1..Latest /\ mut.new \in 1..Latest /\ acked < mut.new
    BY Numbers
<1>2. mut # Null => MutShape
    BY DEF Ordered, MutOK
<1>3. CachesOK
    BY DEF Ordered
<1>4. ASSUME disk' = disk, acked' = acked, prov'.pinned \in acked..Latest, prov' = SnapshotState(prov'.pinned, prov'.stats)
      PROVE  ProvOK'
    <2>1. Latest' = Latest
        BY <1>4 DEF Latest
    <2> QED BY <1>1, <1>4, <2>1 DEF ProvOK, SnapshotState
<1>5. ASSUME mut # Null, disk' = disk, acked' = acked, late \subseteq late',
             DOMAIN mut' = DOMAIN mut, mut'.change = mut.change, mut'.prev = mut.prev, mut'.new = mut.new,
             mut'.pc \in Moved => mut.new <= prov'.pinned
      PROVE  MutOK'
    <2>1. Latest' = Latest
        BY <1>5 DEF Latest
    <2>2. MutShape /\ (mut.new = Latest \/ "foreign" \in late')
        BY <1>2, <1>5 DEF MutShape
    <2>3. DeltaOK'
        BY <1>5, <2>2 DEF MutShape, DeltaOK
    <2> QED BY <1>5, <2>1, <2>2, <2>3 DEF MutOK, MutShape
<1>6. ASSUME disk' = disk, acked' = acked, UNCHANGED <<query, client>>, late \subseteq late',
             ProvOK', CachesOK', ResultsOK', MutOK', prov.pinned <= prov'.pinned \/ "foreign" \in late
      PROVE  Goal
    BY <1>6, OrderedFrame DEF Ordered
<1>7. disk' = disk /\ acked' = acked => /\ prov' = prov => ProvOK'
                                        /\ results' = results => ResultsOK'
                                        /\ UNCHANGED <<scanCache, tiny>> => CachesOK'
                                        /\ Latest' = Latest
    BY OrderedFrame, Zenon
<1>8. mut # Null => DOMAIN mut = {"api", "change", "prev", "new", "pc", "plan"}
    BY <1>2 DEF MutShape
<1>9. mut # Null => prov.pinned <= mut.new \/ "foreign" \in late
    BY <1>1, <1>2 DEF MutShape
<1>10. CASE Refresh
    <2>1. /\ disk' = disk /\ acked' = acked /\ UNCHANGED <<query, client, results, mut, late>>
          /\ prov' = SnapshotState(Latest, Len(Answer(Latest))) /\ scanCache' = Null /\ tiny' = Null
        BY <1>10 DEF Refresh
    <2>2. prov'.pinned = Latest /\ prov' = SnapshotState(prov'.pinned, prov'.stats)
        BY <2>1 DEF SnapshotState
    <2>3. ProvOK'
        BY <1>1, <1>4, <2>1, <2>2
    <2>4. CachesOK'
        BY <2>1 DEF CachesOK
    <2>5. MutOK'
        <3>1. CASE mut = Null
            BY <2>1, <3>1 DEF MutOK
        <3>2. CASE mut # Null
            BY <1>1, <1>5, <2>1, <2>2, <3>2
        <3> QED BY <3>1, <3>2
    <2>6. ResultsOK'
        BY <1>7, <2>1
    <2> QED BY <1>1, <1>6, <2>1, <2>2, <2>3, <2>4, <2>5, <2>6
<1>11. CASE MRefuse
    <2>1. /\ disk' = disk /\ acked' = acked /\ UNCHANGED <<query, client, results, prov, scanCache, tiny, late>>
          /\ mut' = Null
        BY <1>11 DEF MRefuse
    <2>2. MutOK'
        BY <2>1 DEF MutOK
    <2> QED BY <1>1, <1>6, <1>7, <2>1, <2>2
<1>12. CASE MCheck
    <2>1. /\ disk' = disk /\ acked' = acked /\ UNCHANGED <<query, client, results, prov, scanCache, tiny, late>>
          /\ mut # Null
        BY <1>12 DEF MCheck
    <2>2. /\ DOMAIN mut' = DOMAIN mut /\ mut'.change = mut.change /\ mut'.prev = mut.prev /\ mut'.new = mut.new
          /\ mut'.pc \in {"base", "cold"}
        BY <1>8, <1>12 DEF MCheck
    <2>3. MutOK'
        BY <1>5, <2>1, <2>2 DEF Moved
    <2> QED BY <1>1, <1>6, <1>7, <2>1, <2>3
<1>13. CASE MInvalidate
    <2>1. /\ disk' = disk /\ acked' = acked /\ UNCHANGED <<query, client, results, scanCache, tiny, late>>
          /\ mut # Null /\ prov' = SnapshotState(mut.new, Null)
        BY <1>13 DEF MInvalidate
    <2>2. /\ DOMAIN mut' = DOMAIN mut /\ mut'.change = mut.change /\ mut'.prev = mut.prev /\ mut'.new = mut.new
        BY <1>8, <1>13 DEF MInvalidate
    <2>3. prov'.pinned = mut.new /\ prov' = SnapshotState(prov'.pinned, prov'.stats)
        BY <2>1 DEF SnapshotState
    <2>4. MutOK'
        BY <1>1, <1>5, <2>1, <2>2, <2>3
    <2>5. ProvOK'
        BY <1>1, <1>4, <2>1, <2>3
    <2> QED BY <1>6, <1>7, <1>9, <2>1, <2>3, <2>4, <2>5
<1>14. CASE MDrop
    <2>1. /\ disk' = disk /\ acked' = acked /\ UNCHANGED <<query, client, results, prov, tiny, late>>
          /\ mut # Null /\ mut.pc = "drop" /\ scanCache' = Null
        BY <1>14 DEF MDrop
    <2>2. /\ DOMAIN mut' = DOMAIN mut /\ mut'.change = mut.change /\ mut'.prev = mut.prev /\ mut'.new = mut.new
        BY <1>8, <1>14 DEF MDrop
    <2>3. MutOK'
        BY <1>2, <1>5, <2>1, <2>2 DEF MutShape, Moved
    <2>4. CachesOK'
        BY <1>3, <1>7, <2>1 DEF CachesOK
    <2> QED BY <1>1, <1>6, <1>7, <2>1, <2>3, <2>4
<1>15. CASE MBase
    <2>1. /\ disk' = disk /\ acked' = acked /\ UNCHANGED <<query, client, results, tiny>> /\ late \subseteq late'
          /\ mut # Null /\ (prov' = prov \/ prov' = Repinned(Latest))
          /\ scanCache' = scanCache \/ scanCache' = [seq |-> Latest, plan |-> Loaded(Latest)]
        BY <1>15 DEF MBase
    <2>2. /\ DOMAIN mut' = DOMAIN mut /\ mut'.change = mut.change /\ mut'.prev = mut.prev /\ mut'.new = mut.new
          /\ mut'.pc = "install"
        BY <1>8, <1>15 DEF MBase
    <2>3. MutOK'
        BY <1>5, <2>1, <2>2 DEF Moved
    <2>4. prov'.pinned \in prov.pinned..Latest /\ prov' = SnapshotState(prov'.pinned, prov'.stats)
        <3>1. prov = SnapshotState(prov.pinned, prov.stats)
            BY DEF Ordered, ProvOK
        <3>2. CASE prov' = prov
            BY <1>1, <3>1, <3>2
        <3>3. CASE prov' = SnapshotState(Latest, Len(Answer(Latest)))
            BY <1>1, <3>3 DEF SnapshotState
        <3> QED BY <2>1, <3>2, <3>3 DEF Repinned
    <2>5. ProvOK'
        BY <1>1, <1>4, <2>1, <2>4
    <2>6. CachesOK'
        BY <1>1, <1>3, <1>7, <2>1 DEF CachesOK
    <2> QED BY <1>1, <1>6, <1>7, <2>1, <2>3, <2>4, <2>5, <2>6
<1>16. CASE MInstall \/ MReplace
    <2>1. /\ disk' = disk /\ acked' = acked /\ UNCHANGED <<query, client, results, scanCache, tiny, late>>
          /\ mut # Null /\ \E st : prov' = SnapshotState(mut.new, st)
        BY <1>16 DEF MInstall, MReplace
    <2>2. /\ DOMAIN mut' = DOMAIN mut /\ mut'.change = mut.change /\ mut'.prev = mut.prev /\ mut'.new = mut.new
        BY <1>8, <1>16, Zenon DEF MInstall, MReplace
    <2>3. prov'.pinned = mut.new /\ prov' = SnapshotState(prov'.pinned, prov'.stats)
        BY <2>1 DEF SnapshotState
    <2>4. MutOK'
        BY <1>1, <1>5, <2>1, <2>2, <2>3
    <2>5. ProvOK'
        BY <1>1, <1>4, <2>1, <2>3
    <2> QED BY <1>6, <1>7, <1>9, <2>1, <2>3, <2>4, <2>5
<1>17. CASE MSeed
    <2>1. /\ disk' = disk /\ acked' = acked /\ UNCHANGED <<query, client, results, prov, tiny, late>>
          /\ mut # Null /\ mut.pc = "seed" /\ scanCache' = [seq |-> mut.new, plan |-> mut.plan]
        BY <1>17 DEF MSeed
    <2>2. /\ DOMAIN mut' = DOMAIN mut /\ mut'.change = mut.change /\ mut'.prev = mut.prev /\ mut'.new = mut.new
        BY <1>8, <1>17 DEF MSeed
    <2>3. MutOK'
        BY <1>2, <1>5, <2>1, <2>2 DEF MutShape, Moved
    <2>4. CachesOK'
        BY <1>1, <1>3, <1>7, <2>1 DEF CachesOK
    <2> QED BY <1>1, <1>6, <1>7, <2>1, <2>3, <2>4
<1>18. CASE MClear
    <2>1. /\ disk' = disk /\ acked' = acked /\ UNCHANGED <<query, client, results, prov, scanCache, late>>
          /\ mut # Null /\ mut.pc = "clear" /\ tiny' = Null
        BY <1>18 DEF MClear
    <2>2. /\ DOMAIN mut' = DOMAIN mut /\ mut'.change = mut.change /\ mut'.prev = mut.prev /\ mut'.new = mut.new
        BY <1>8, <1>18 DEF MClear
    <2>3. MutOK'
        BY <1>2, <1>5, <2>1, <2>2 DEF MutShape, Moved
    <2>4. CachesOK'
        BY <1>3, <1>7, <2>1 DEF CachesOK
    <2> QED BY <1>1, <1>6, <1>7, <2>1, <2>3, <2>4
<1>19. CASE MReply
    <2>1. /\ disk' = disk /\ acked' = mut.new /\ UNCHANGED <<query, client, prov, scanCache, tiny, late>>
          /\ mut # Null /\ mut.pc = "reply" /\ mut' = Null /\ (results' = results \/ results' = <<>>)
        BY <1>19 DEF MReply
    <2>2. mut.new <= prov.pinned /\ Latest' = Latest
        BY <1>2, <2>1 DEF MutShape, Moved, Latest
    <2>3. DiskOK' /\ MutOK'
        BY <2>1, <2>2 DEF Ordered, DiskOK, ManifestOK, MutOK
    <2>4. ProvOK'
        BY <1>1, <2>1, <2>2 DEF Ordered, ProvOK, SnapshotState
    <2>5. CachesOK' /\ QueriesOK' /\ ClientShape' /\ (results' = results => ResultsOK')
        BY <1>1, <2>1, <2>2, OrderedGrowth
    <2>6. results' = <<>> => ResultsOK'
        BY DEF ResultsOK, IsSeq
    <2> QED BY <1>1, <2>1, <2>3, <2>4, <2>5, <2>6 DEF Ordered
<1> QED BY <1>10, <1>11, <1>12, <1>13, <1>14, <1>15, <1>16, <1>17, <1>18, <1>19 DEF MStep

\* Every step keeps the order and what is on disk, and forgets no overtaking.
LEMMA OrderedStep ==
    ASSUME Ordered, Next
    PROVE  /\ Ordered' /\ Latest <= Latest' /\ late \subseteq late'
           /\ \A s \in 1..Latest : disk'[s] = disk[s]
           /\ prov.pinned <= prov'.pinned \/ "foreign" \in late
<1> DEFINE Goal == /\ Ordered' /\ Latest <= Latest' /\ late \subseteq late'
                   /\ \A s \in 1..Latest : disk'[s] = disk[s]
                   /\ prov.pinned <= prov'.pinned \/ "foreign" \in late
<1> SUFFICES Goal
    OBVIOUS
<1>1. Latest \in Nat /\ prov.pinned \in Nat
    BY Numbers
<1>2. disk' = disk => Latest <= Latest'
    BY <1>1 DEF Latest
<1>3. ASSUME NEW p \in Procs, QStep(p) \/ \E q \in {"all", "ids"} : QStart(p, q) PROVE Goal
    BY <1>2, <1>3, OrderedQueries
<1>4. CASE MStep \/ Refresh
    BY <1>2, <1>4, OrderedMutation
<1>5. ASSUME NEW api, NEW change, ForeignCommit(change) \/ MCommit(api, change) PROVE Goal
    <2>1. /\ Ordered' /\ Latest' = Latest + 1 /\ \A s \in 1..Latest : disk'[s] = disk[s]
          /\ prov' = prov /\ late \subseteq late'
        BY <1>5, OrderedCommit
    <2> QED BY <1>1, <2>1
<1>6. CASE \/ CliRun \/ CliPut \/ CliReturn
           \/ \E q \in {"all", "ids"}, s \in 1..Latest, past \in BOOLEAN : CliStart(q, s, past)
    BY <1>1, <1>2, <1>6, OrderedClient
<1> HIDE DEF Goal
<1>7. CASE \E change \in Changes : ForeignCommit(change)
    BY <1>5, <1>7, Zenon
<1>8. CASE \E api \in {"mutate", "tx", "batch"}, change \in Changes : MCommit(api, change)
    BY <1>5, <1>8, Zenon
<1>9. CASE \E p \in Procs : QStep(p)
    BY <1>3, <1>9, Zenon
<1>10. CASE \E p \in Procs, q \in {"all", "ids"} : QStart(p, q)
    BY <1>3, <1>10, Zenon
<1> QED BY <1>4, <1>6, <1>7, <1>8, <1>9, <1>10, Zenon DEF Next

-----------------------------------------------------------------------------
(* The steps of a query, by what they do to its record, x before and y     *)
(* after the step, and to the caches.                                      *)

StartMove(q, y) ==
    /\ y.key = prov.pinned /\ y.floor = acked /\ UNCHANGED <<prov, scanCache, tiny, late>>
    /\ \/ y.pc = "read" /\ results' = results
       \/ /\ y.pc = "done" /\ Found(q, prov.pinned) # {} /\ y.rows = Cached(q, prov.pinned).rows
          /\ results' = Touched(q, prov.pinned)

ReadMove(x, y) ==
    /\ x.pc \in {"read", "reread"} /\ y.key = x.key /\ y.floor = x.floor
    /\ UNCHANGED <<prov, scanCache, tiny, results, late>>
    /\ \/ y.pc = "load"
       \/ /\ y.pc = "snap" /\ scanCache # Null /\ scanCache.seq = prov.pinned
          /\ y.ver = scanCache.seq /\ y.plan = scanCache.plan

LoadMove(x, y) ==
    /\ x.pc = "load" /\ y.pc \in {"snap", "repin"} /\ y.key = x.key /\ y.floor = x.floor
    /\ y.ver = Latest /\ y.plan = Loaded(Latest) /\ UNCHANGED <<prov, scanCache, tiny, results, late>>

RepinMove(x, y) ==
    /\ x.pc = "repin" /\ y.pc \in {"store", "load", "reread"} /\ y.key = x.key /\ y.floor = x.floor
    /\ y.ver = x.ver /\ y.plan = x.plan /\ UNCHANGED <<scanCache, tiny, results, late>>
    /\ prov' = prov \/ prov' = Repinned(x.ver)

StoreMove(x, y) ==
    /\ x.pc = "store" /\ y.pc = "snap" /\ y.key = x.key /\ y.floor = x.floor
    /\ y.ver = x.ver /\ y.plan = x.plan /\ UNCHANGED <<prov, tiny, results, late>>
    /\ scanCache' = [seq |-> x.ver, plan |-> x.plan]

SnapMove(x, y) ==
    /\ x.pc = "snap" /\ y.key = x.key /\ y.floor = x.floor /\ y.ver = x.ver
    /\ UNCHANGED <<prov, scanCache, tiny, results>>
    /\ \/ /\ y.pc = "put" /\ y.rows = RowsOf(IndexPruned(x.plan, prov.indexes))
          /\ prov.indexes # x.ver => "index" \in late'
          /\ late' \subseteq late \union {"index"}
       \/ x.plan = <<>> /\ y.pc = "put" /\ late' = late
       \/ y.pc = "tiny" /\ y.plan = x.plan /\ late' = late

TinyMove(x, y) ==
    /\ x.pc = "tiny" /\ y.key = x.key /\ y.floor = x.floor
    /\ UNCHANGED <<prov, scanCache, tiny, results>> /\ late' \subseteq late \union {"tiny"}
    /\ \/ /\ tiny # Null /\ tiny.key = Head(x.plan).snap
          /\ y.pc = "put" /\ y.rows = tiny.rows /\ y.ver = tiny.ver
          /\ mut # Null /\ mut.pc = "clear" => "tiny" \in late'
       \/ y.pc = "copy" /\ y.plan = x.plan /\ y.ver = x.ver
       \/ y.pc = "put" /\ y.rows = RowsOf(x.plan) /\ y.ver = x.ver

CopyMove(x, y) ==
    /\ x.pc = "copy" /\ y.key = x.key /\ y.floor = x.floor
    /\ y.pc = "put" /\ y.rows = RowsOf(x.plan) /\ y.ver = x.ver
    /\ tiny' = [key |-> Head(x.plan).snap, rows |-> RowsOf(x.plan), ver |-> x.ver]
    /\ UNCHANGED <<prov, scanCache, results>> /\ late' \subseteq late \union {"tiny"}
    /\ prov.pinned # x.ver => "tiny" \in late'

PutMove(x, y) ==
    /\ x.pc = "put" /\ y.pc = "done" /\ y.rows = x.rows /\ y.floor = x.floor
    /\ results' = Put(x.q, x.key, x.rows) /\ UNCHANGED <<prov, scanCache, tiny>>
    /\ late' \subseteq late \union {"key"} /\ (x.key # x.ver => "key" \in late')

ReturnMove(x, y) ==
    y.pc = "idle" /\ UNCHANGED <<prov, scanCache, tiny, results, late>>

Moves(p, x, y) ==
    /\ \A q : QStart(p, q) => StartMove(q, y)
    /\ QRead(p) => ReadMove(x, y)
    /\ QLoad(p) => LoadMove(x, y)
    /\ QRepin(p) => RepinMove(x, y)
    /\ QStore(p) => StoreMove(x, y)
    /\ QSnap(p) => SnapMove(x, y)
    /\ QTiny(p) => TinyMove(x, y)
    /\ QCopy(p) => CopyMove(x, y)
    /\ QPut(p) => PutMove(x, y)
    /\ QReturn(p) => ReturnMove(x, y)

\* What a step does to the query that takes it.
LEMMA QueryValue ==
    ASSUME Ordered, NEW p \in Procs, NEW y, query' = [query EXCEPT ![p] = y]
    PROVE  query'[p] = y /\ \A r \in Procs : r # p => query'[r] = query[r]
<1>1. query = [r \in Procs |-> query[r]]
    BY DEF Ordered, QueriesOK
<1>2. query' = [r \in Procs |-> IF r = p THEN y ELSE query[r]]
    BY <1>1
<1> QED BY <1>2

\* Each step of a query is the move it is named for.
LEMMA QueryMoves ==
    ASSUME Ordered, NEW p \in Procs, NEW x, x = query[p], NEW y, y = query'[p]
    PROVE  Moves(p, x, y)
<1>1. DOMAIN x = QueryFields /\ query = [r \in Procs |-> query[r]]
    BY DEF Ordered, QueriesOK, QueryShape
<1>2. \A z : query' = [query EXCEPT ![p] = z] => y = z
    BY QueryValue, Zenon
<1>3. ASSUME NEW q, QStart(p, q) PROVE StartMove(q, y)
    <2> DEFINE begun == [Idle EXCEPT !.q = q, !.key = prov.pinned, !.floor = acked]
    <2>1. CASE Found(q, prov.pinned) # {}
        <3>1. /\ query' = [query EXCEPT ![p] = [begun EXCEPT !.pc = "done", !.rows = Cached(q, prov.pinned).rows]]
              /\ results' = Touched(q, prov.pinned) /\ UNCHANGED <<prov, scanCache, tiny, late>>
            BY <1>3, <2>1 DEF QStart, CacheKey
        <3>2. y = [begun EXCEPT !.pc = "done", !.rows = Cached(q, prov.pinned).rows]
            BY <1>2, <3>1, Zenon
        <3> QED BY <2>1, <3>1, <3>2, Zenon DEF StartMove, Idle
    <2>2. CASE Found(q, prov.pinned) = {}
        <3>1. /\ query' = [query EXCEPT ![p] = [begun EXCEPT !.pc = "read"]]
              /\ results' = results /\ UNCHANGED <<prov, scanCache, tiny, late>>
            BY <1>3, <2>2 DEF QStart, CacheKey
        <3>2. y = [begun EXCEPT !.pc = "read"]
            BY <1>2, <3>1, Zenon
        <3> QED BY <3>1, <3>2, Zenon DEF StartMove, Idle
    <2> QED BY <2>1, <2>2
<1>4. ASSUME QRead(p) PROVE ReadMove(x, y)
    <2>1. /\ query' = [query EXCEPT ![p] = PlanOrMiss(x)] /\ x.pc \in {"read", "reread"}
          /\ UNCHANGED <<prov, scanCache, tiny, results, late>>
        BY <1>4 DEF QRead
    <2>2. y = PlanOrMiss(x)
        BY <1>2, <2>1, Zenon
    <2> QED BY <1>1, <2>1, <2>2 DEF ReadMove, PlanOrMiss, QueryFields
<1>5. ASSUME QLoad(p) PROVE LoadMove(x, y)
    <2> DEFINE z == [x EXCEPT !.pc = IF x.tries = MaxTries THEN "snap" ELSE "repin", !.ver = Latest, !.plan = Loaded(Latest)]
    <2>1. query' = [query EXCEPT ![p] = z] /\ x.pc = "load" /\ UNCHANGED <<prov, scanCache, tiny, results, late>>
        BY <1>1, <1>5, Zenon DEF QLoad
    <2>2. y = z
        BY <1>2, <2>1, Zenon
    <2> QED BY <1>1, <2>1, <2>2, Zenon DEF LoadMove, QueryFields
<1>6. ASSUME QRepin(p) PROVE RepinMove(x, y)
    <2>1. /\ query' = [query EXCEPT ![p] = AfterRepin(x, prov'.pinned)] /\ x.pc = "repin"
          /\ UNCHANGED <<scanCache, tiny, results, late>> /\ (prov' = prov \/ prov' = Repinned(x.ver))
        BY <1>6 DEF QRepin
    <2>2. y = AfterRepin(x, prov'.pinned)
        BY <1>2, <2>1, Zenon
    <2> QED BY <1>1, <2>1, <2>2 DEF RepinMove, QueryFields, AfterRepin
<1>7. ASSUME QStore(p) PROVE StoreMove(x, y)
    <2>1. /\ query' = [query EXCEPT ![p] = [x EXCEPT !.pc = "snap"]] /\ x.pc = "store" /\ UNCHANGED <<prov, tiny, results, late>>
          /\ scanCache' = [seq |-> x.ver, plan |-> x.plan]
        BY <1>1, <1>7 DEF QStore
    <2>2. y = [x EXCEPT !.pc = "snap"]
        BY <1>2, <2>1, Zenon
    <2> QED BY <1>1, <2>1, <2>2 DEF StoreMove, QueryFields
<1>8. ASSUME QSnap(p) PROVE SnapMove(x, y)
    <2> DEFINE z == IF x.q = "ids" THEN Ran(x, RowsOf(IndexPruned(x.plan, prov.indexes)))
                    ELSE IF x.plan = <<>> THEN Ran(x, <<>>) ELSE [x EXCEPT !.pc = "tiny"]
    <2>1. query' = [query EXCEPT ![p] = z] /\ x.pc = "snap" /\ UNCHANGED <<prov, scanCache, tiny, results>>
        BY <1>8 DEF QSnap
    <2>2. late' = IF x.q = "ids" /\ prov.indexes # x.ver THEN late \union {"index"} ELSE late
        BY <1>8 DEF QSnap
    <2>3. y = z
        BY <1>2, <2>1, Zenon
    <2>4. CASE x.q = "ids"
        BY <1>1, <2>1, <2>2, <2>3, <2>4, Zenon DEF SnapMove, QueryFields, Ran
    <2>5. CASE x.q # "ids"
        BY <1>1, <2>1, <2>2, <2>3, <2>5 DEF SnapMove, QueryFields, Ran
    <2> QED BY <2>4, <2>5
<1>9. ASSUME QTiny(p) PROVE TinyMove(x, y)
    <2> DEFINE hit == tiny # Null /\ tiny.key = Head(x.plan).snap
               z == IF hit THEN [Ran(x, tiny.rows) EXCEPT !.ver = tiny.ver]
                    ELSE IF Len(x.plan) <= TinyRows THEN [x EXCEPT !.pc = "copy"]
                    ELSE Ran(x, RowsOf(x.plan))
    <2>1. query' = [query EXCEPT ![p] = z] /\ x.pc = "tiny" /\ UNCHANGED <<prov, scanCache, tiny, results>>
        BY <1>9 DEF QTiny
    <2>2. late' = IF hit /\ mut # Null /\ mut.pc = "clear" THEN late \union {"tiny"} ELSE late
        BY <1>9 DEF QTiny
    <2>3. y = z
        BY <1>2, <2>1, Zenon
    <2>4. CASE hit
        BY <1>1, <2>1, <2>2, <2>3, <2>4, Zenon DEF TinyMove, QueryFields, Ran
    <2>5. CASE ~hit
        <3>1. y = [x EXCEPT !.pc = "copy"] \/ y = Ran(x, RowsOf(x.plan))
            BY <2>3, <2>5
        <3> QED BY <1>1, <2>1, <2>2, <3>1 DEF TinyMove, QueryFields, Ran
    <2> QED BY <2>4, <2>5
<1>10. ASSUME QCopy(p) PROVE CopyMove(x, y)
    <2>1. /\ query' = [query EXCEPT ![p] = Ran(x, RowsOf(x.plan))] /\ x.pc = "copy"
          /\ tiny' = [key |-> Head(x.plan).snap, rows |-> RowsOf(x.plan), ver |-> x.ver]
          /\ UNCHANGED <<prov, scanCache, results>>
          /\ late' = IF prov.pinned # x.ver THEN late \union {"tiny"} ELSE late
        BY <1>10 DEF QCopy
    <2>2. y = Ran(x, RowsOf(x.plan))
        BY <1>2, <2>1, Zenon
    <2> QED BY <1>1, <2>1, <2>2, Zenon DEF CopyMove, QueryFields, Ran
<1>11. ASSUME QPut(p) PROVE PutMove(x, y)
    <2>1. /\ query' = [query EXCEPT ![p] = [x EXCEPT !.pc = "done", !.key = 0, !.ver = 0]] /\ x.pc = "put"
          /\ results' = Put(x.q, x.key, x.rows) /\ UNCHANGED <<prov, scanCache, tiny>>
          /\ late' = IF x.key # x.ver THEN late \union {"key"} ELSE late
        BY <1>11 DEF QPut
    <2>2. y = [x EXCEPT !.pc = "done", !.key = 0, !.ver = 0]
        BY <1>2, <2>1, Zenon
    <2> QED BY <1>1, <2>1, <2>2, Zenon DEF PutMove, QueryFields
<1>12. ASSUME QReturn(p) PROVE ReturnMove(x, y)
    <2>1. query' = [query EXCEPT ![p] = Idle] /\ UNCHANGED <<prov, scanCache, tiny, results, late>>
        BY <1>12 DEF QReturn
    <2>2. y = Idle
        BY <1>2, <2>1, Zenon
    <2> QED BY <2>1, <2>2 DEF ReturnMove, Idle
<1> QED BY <1>3, <1>4, <1>5, <1>6, <1>7, <1>8, <1>9, <1>10, <1>11, <1>12, Zenon DEF Moves

\* The steps of the command line's query, by what they do to its record.
LEMMA ClientMoves ==
    ASSUME Ordered, NEW c, c = client'
    PROVE  /\ \A q, past : \A s \in 1..Latest : CliStart(q, s, past) =>
                  /\ c.key = s /\ (~past => s = Latest) /\ late' = late
                  /\ \/ c.pc = "run" /\ results' = results
                     \/ c.pc = "done" /\ Found(q, s) # {} /\ c.rows = Cached(q, s).rows /\ results' = Touched(q, s)
           /\ CliRun =>
                  /\ c.pc = "put" /\ c.key = client.key /\ client.key \in 1..Latest /\ results' = results
                  /\ late' \subseteq late \union {"key"}
                  /\ \E s \in {client.key, Latest} :
                        c.rows = RowsOf(Loaded(s)) /\ (s # client.key => "key" \in late')
           /\ CliPut =>
                  /\ client.pc = "put" /\ c.pc = "done" /\ c.rows = client.rows /\ c.key = client.key /\ late' = late
                  /\ results' = Put(client.q, client.key, client.rows) /\ client.key \in 1..Latest
           /\ CliReturn => c.pc = "idle" /\ results' = results /\ late' = late
<1>1. DOMAIN client = {"pc", "q", "key", "past", "rows"} /\ (client.pc # "idle" => client.key \in 1..Latest)
    BY Numbers DEF Ordered, ClientShape
<1>2. ASSUME NEW q, NEW past, NEW s \in 1..Latest, CliStart(q, s, past)
      PROVE  /\ c.key = s /\ (~past => s = Latest) /\ late' = late
             /\ \/ c.pc = "run" /\ results' = results
                \/ c.pc = "done" /\ Found(q, s) # {} /\ c.rows = Cached(q, s).rows /\ results' = Touched(q, s)
    <2>1. CASE Found(q, s) # {}
        BY <1>2, <2>1, Zenon DEF CliStart, NoClient
    <2>2. CASE Found(q, s) = {}
        BY <1>2, <2>2, Zenon DEF CliStart, NoClient
    <2> QED BY <2>1, <2>2
<1>3. ASSUME CliRun
      PROVE  /\ c.pc = "put" /\ c.key = client.key /\ client.key \in 1..Latest /\ results' = results
             /\ late' \subseteq late \union {"key"}
             /\ \E s \in {client.key, Latest} :
                   c.rows = RowsOf(Loaded(s)) /\ (s # client.key => "key" \in late')
    <2>1. CASE client.past
        <3>1. c = [client EXCEPT !.pc = "put", !.rows = RowsOf(Loaded(client.key))] /\ late' = late
            BY <1>3, <2>1 DEF CliRun, ScanPlanAt
        <3>2. client.pc = "run" /\ results' = results
            BY <1>3 DEF CliRun
        <3> QED BY <1>1, <3>1, <3>2
    <2>2. CASE ~client.past
        <3>1. /\ c = [client EXCEPT !.pc = "put", !.rows = RowsOf(Loaded(Latest))]
              /\ late' = IF Latest # client.key THEN late \union {"key"} ELSE late
            BY <1>3, <2>2 DEF CliRun
        <3>2. client.pc = "run" /\ results' = results
            BY <1>3 DEF CliRun
        <3> QED BY <1>1, <3>1, <3>2
    <2> QED BY <2>1, <2>2
<1>4. ASSUME CliPut
      PROVE  /\ client.pc = "put" /\ c.pc = "done" /\ c.rows = client.rows /\ c.key = client.key /\ late' = late
             /\ results' = Put(client.q, client.key, client.rows) /\ client.key \in 1..Latest
    BY <1>1, <1>4 DEF CliPut
<1>5. ASSUME CliReturn PROVE c.pc = "idle" /\ results' = results /\ late' = late
    BY <1>5 DEF CliReturn, NoClient
<1> QED BY <1>2, <1>3, <1>4, <1>5, Zenon
=============================================================================
