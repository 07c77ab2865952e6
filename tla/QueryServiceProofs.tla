------------------------- MODULE QueryServiceProofs -------------------------
(***************************************************************************)
(* The provider and the two caches of QueryService, proved for any number  *)
(* of queries, commits and rows, and for every setting: the provider only  *)
(* moves on, its caches are those of their sequences, a time-travel query  *)
(* gets the snapshot it names, and a query answers from one snapshot that  *)
(* has everything acknowledged before it began, each but for the           *)
(* overtakings it names.                                                   *)
(*                                                                         *)
(* The invariant has a layer for each of them.  Ordered and Planned, of    *)
(* QueryServiceOrder, relate the sequences and say what a plan reads;      *)
(* Exact says which snapshot the copied and cached rows are of, and Fresh  *)
(* that no cache can give a query rows from before what it may rely on.    *)
(***************************************************************************)
EXTENDS QueryServiceOrder

-----------------------------------------------------------------------------
(* Exact *)

IsAnswer(rows, s) == s \in 1..Latest /\ rows = Answer(s)

TinyExact == tiny # Null => IsAnswer(tiny.rows, tiny.ver)

QueryExact(p) == query[p].pc = "put" => IsAnswer(query[p].rows, query[p].ver)

ResultsExact == \A i \in DOMAIN results : IsAnswer(results[i].rows, results[i].seq)

ClientExact == client.pc \in {"put", "done"} => IsAnswer(client.rows, client.key)

Exact ==
    InTime({"base", "index"}) =>
        /\ TinyExact /\ \A p \in Procs : QueryExact(p)
        /\ InTime({"key"}) => ResultsExact /\ ClientExact

-----------------------------------------------------------------------------
(* Fresh *)

(* Where the sequence k has what was acknowledged, or what the running     *)
(* mutation committed, s has it too.                                       *)
Above(k, s) ==
    /\ acked <= k => acked <= s
    /\ mut # Null /\ mut.new <= k => mut.new <= s

(* Until the mutation seeds the scan cache, a plan that has its commit was *)
(* loaded after it, so no copy from before is taken for it.                *)
HeadOK(plan, s) == mut # Null /\ mut.pc \notin {"clear", "reply"} /\ mut.new <= s => mut.new <= plan[1].snap

HasAnswer(rows, k) == \E s \in 1..Latest : rows = Answer(s) /\ Above(k, s)

Fetching == {"read", "reread", "load", "repin"}

FreshQuery(x) ==
    /\ x.pc \in Fetching => Above(x.key, prov.pinned)
    /\ x.pc \in WithPlan => HeadOK(x.plan, x.ver)
    /\ x.pc \in WithPlan \union {"put"} => Above(x.key, x.ver) /\ x.floor <= x.ver
    /\ x.pc = "done" => \E s \in 1..Latest : x.floor <= s /\ x.rows = Answer(s)

(* The copy has what was acknowledged and what is about to be. *)
TinyFresh ==
    tiny # Null => /\ tiny.key \in 1..tiny.ver /\ acked <= tiny.ver
                   /\ mut # Null /\ mut.pc = "reply" => mut.new <= tiny.ver

ScanFresh == scanCache # Null => HeadOK(scanCache.plan, scanCache.seq)

ResultsFresh == \A i \in DOMAIN results : HasAnswer(results[i].rows, results[i].seq)

ClientFresh == client.pc = "put" => HasAnswer(client.rows, client.key)

FreshParts == TinyFresh /\ ScanFresh /\ (\A p \in Procs : FreshQuery(query[p])) /\ ResultsFresh /\ ClientFresh

Fresh == InTime({"base", "index", "tiny"}) => FreshParts

IInv == Ordered /\ Planned /\ Exact /\ Fresh

-----------------------------------------------------------------------------
(* Planned is kept *)

\* Manifests stay, so a plan of a snapshot stays one and the answer the same.
LEMMA StablePlans ==
    ASSUME Latest \in Nat, Latest' \in Nat, Latest <= Latest', \A s \in 1..Latest : disk'[s] = disk[s]
    PROVE  /\ \A plan, s : PlanOf(plan, s) => PlanOf(plan, s)'
           /\ \A s \in 1..Latest : LiveIds(disk'[s]) = LiveIds(disk[s])
<1>1. ASSUME NEW plan, NEW s, PlanOf(plan, s) PROVE PlanOf(plan, s)'
    BY <1>1 DEF PlanOf, Fragments
<1>2. \A s \in 1..Latest : LiveIds(disk'[s]) = LiveIds(disk[s])
    BY Zenon
<1> QED BY <1>1, <1>2

\* Where no step of the layer's variables is taken, the layer stays.
LEMMA PlannedFrame ==
    ASSUME Ordered, Latest' \in Nat, Latest <= Latest', \A s \in 1..Latest : disk'[s] = disk[s]
    PROVE  /\ prov' = prov /\ StatsOK => StatsOK'
           /\ scanCache' = scanCache /\ ScanOK => ScanOK'
           /\ \A p \in Procs : query'[p] = query[p] /\ QueryPlanned(p) => QueryPlanned(p)'
           /\ mut' = mut /\ DeltaPlanned => DeltaPlanned'
<1>1. Latest \in Nat /\ prov.pinned \in 1..Latest
    BY Numbers
<1>2. \A plan, s : PlanOf(plan, s) => PlanOf(plan, s)'
    BY <1>1, StablePlans
<1>3. LiveIds(disk'[prov.pinned]) = LiveIds(disk[prov.pinned])
    BY <1>1, StablePlans
<1>4. prov' = prov /\ StatsOK => StatsOK'
    BY <1>3, Zenon DEF StatsOK, Answer
<1>5. scanCache' = scanCache /\ ScanOK => ScanOK'
    BY <1>2, Zenon DEF ScanOK
<1>6. ASSUME NEW p \in Procs, query'[p] = query[p], QueryPlanned(p) PROVE QueryPlanned(p)'
    BY <1>2, <1>6, Zenon DEF QueryPlanned
<1>7. mut' = mut /\ DeltaPlanned => DeltaPlanned'
    BY <1>2, Zenon DEF DeltaPlanned
<1> QED BY <1>4, <1>5, <1>6, <1>7

\* Every step keeps the plans those of their sequences, unless a mutation's
\* base was overtaken.
LEMMA PlannedStep ==
    ASSUME Ordered, Planned, Next
    PROVE  Planned'
<1> SUFFICES ASSUME InTime({"base"})' PROVE StatsOK' /\ ScanOK' /\ (\A p \in Procs : QueryPlanned(p)') /\ DeltaPlanned'
    BY Zenon DEF Planned
<1> DEFINE Goal == StatsOK' /\ ScanOK' /\ (\A p \in Procs : QueryPlanned(p)') /\ DeltaPlanned'
<1> SUFFICES Goal
    OBVIOUS
<1>1. /\ Ordered' /\ Latest <= Latest' /\ late \subseteq late' /\ \A s \in 1..Latest : disk'[s] = disk[s]
    BY OrderedStep
<1>2. Latest \in Nat /\ Latest >= 1 /\ Latest' \in Nat /\ prov.pinned \in 1..Latest
    <2>1. Latest' \in Nat
        BY <1>1, SeqFacts DEF Ordered, DiskOK, Latest
    <2> QED BY <2>1, Numbers
<1>3. InTime({"base"}) /\ StatsOK /\ ScanOK /\ (\A p \in Procs : QueryPlanned(p)) /\ DeltaPlanned
    <2>1. InTime({"base"})
        BY <1>1 DEF InTime
    <2> QED BY <2>1 DEF Planned
<1>4. /\ prov' = prov => StatsOK'
      /\ scanCache' = scanCache => ScanOK'
      /\ \A p \in Procs : query'[p] = query[p] => QueryPlanned(p)'
      /\ mut' = mut => DeltaPlanned'
    BY <1>1, <1>2, <1>3, PlannedFrame, Zenon
<1>5. \A plan, s : PlanOf(plan, s) => PlanOf(plan, s)'
    BY <1>1, <1>2, StablePlans
<1>6. \A s \in 1..Latest : LiveIds(disk'[s]) = LiveIds(disk[s])
    BY <1>1, <1>2, StablePlans
<1>7. DiskOK
    BY DEF Ordered
<1>8. ASSUME NEW s \in 1..Latest, prov'.pinned = s, prov'.stats = Len(Answer(s)) \/ prov'.stats = Null
      PROVE  StatsOK'
    BY <1>6, <1>8, Zenon DEF StatsOK, Answer
<1>9. query' = query => \A p \in Procs : QueryPlanned(p)'
    BY <1>4, Zenon
<1>10. ASSUME NEW p \in Procs, QStep(p) \/ \E q \in {"all", "ids"} : QStart(p, q) PROVE Goal
    <2> DEFINE x == query[p]
               y == query'[p]
    <2>1. mut' = mut /\ disk' = disk
        BY <1>10, OrderedQueries, Zenon
    <2>2. \A r \in Procs : r # p => QueryPlanned(r)'
        BY <1>4, <1>10, OrderedQueries, Zenon
    <2>3. DeltaPlanned'
        BY <1>4, <2>1
    <2>4. x.pc \in WithPlan => PlanOf(x.plan, x.ver)
        BY <1>3 DEF QueryPlanned
    <2>5. ASSUME StatsOK', ScanOK', y.pc \in WithPlan => PlanOf(y.plan, y.ver) PROVE Goal
        <3>1. QueryPlanned(p)'
            BY <1>5, <2>5, Zenon DEF QueryPlanned
        <3> QED BY <2>2, <2>3, <2>5, <3>1, Zenon
    <2>0. Moves(p, x, y)
        BY QueryMoves, Zenon
    <2> HIDE DEF x, y, Goal
    <2>6. ASSUME NEW q, QStart(p, q) PROVE Goal
        <3>1. prov' = prov /\ scanCache' = scanCache /\ y.pc \in {"done", "read"}
            BY <2>0, <2>6 DEF Moves, StartMove
        <3> QED BY <1>4, <2>5, <3>1 DEF WithPlan
    <2>7. CASE QRead(p)
        <3>1. /\ prov' = prov /\ scanCache' = scanCache
              /\ y.pc = "load" \/ (scanCache # Null /\ y.ver = scanCache.seq /\ y.plan = scanCache.plan)
            BY <2>0, <2>7 DEF Moves, ReadMove
        <3>2. y.pc \in WithPlan => PlanOf(y.plan, y.ver)
            BY <1>3, <3>1 DEF ScanOK, WithPlan
        <3> QED BY <1>4, <2>5, <3>1, <3>2
    <2>8. CASE QLoad(p)
        <3>1. prov' = prov /\ scanCache' = scanCache /\ y.plan = Loaded(Latest) /\ y.ver = Latest
            BY <2>0, <2>8 DEF Moves, LoadMove
        <3>2. PlanOf(Loaded(Latest), Latest)
            BY <1>2, <1>7, LoadedFacts
        <3> QED BY <1>4, <2>5, <3>1, <3>2
    <2>9. CASE QRepin(p)
        <3>1. /\ scanCache' = scanCache /\ x.pc = "repin" /\ y.plan = x.plan /\ y.ver = x.ver
              /\ prov' = prov \/ prov' = Repinned(x.ver)
            BY <2>0, <2>9 DEF Moves, RepinMove
        <3>2. PlanOf(x.plan, x.ver) /\ x.ver \in 1..Latest
            BY <2>4, <3>1 DEF WithPlan, PlanOf
        <3>3. StatsOK'
            <4>1. CASE prov' = SnapshotState(x.ver, Len(Answer(x.ver)))
                <5>1. prov'.pinned = x.ver /\ prov'.stats = Len(Answer(x.ver))
                    BY <4>1 DEF SnapshotState
                <5> QED BY <1>8, <3>2, <5>1
            <4>2. CASE prov' = prov
                BY <1>4, <4>2
            <4> QED BY <3>1, <4>1, <4>2 DEF Repinned
        <3> QED BY <1>4, <2>5, <3>1, <3>2, <3>3
    <2>10. CASE QStore(p)
        <3>1. /\ prov' = prov /\ x.pc = "store" /\ y.plan = x.plan /\ y.ver = x.ver
              /\ scanCache' = [seq |-> x.ver, plan |-> x.plan]
            BY <2>0, <2>10 DEF Moves, StoreMove
        <3>2. PlanOf(x.plan, x.ver)
            BY <2>4, <3>1 DEF WithPlan
        <3>3. scanCache'.plan = x.plan /\ scanCache'.seq = x.ver
            BY <3>1
        <3>4. ScanOK'
            BY <1>5, <3>2, <3>3, Zenon DEF ScanOK
        <3> QED BY <1>4, <2>5, <3>1, <3>2, <3>4
    <2>11. CASE QSnap(p) \/ QTiny(p)
        <3>1. /\ prov' = prov /\ scanCache' = scanCache /\ x.pc \in {"snap", "tiny"}
              /\ y.pc = "put" \/ (y.plan = x.plan /\ y.ver = x.ver)
            BY <2>0, <2>11 DEF Moves, SnapMove, TinyMove
        <3>2. y.pc \in WithPlan => PlanOf(y.plan, y.ver)
            BY <2>4, <3>1 DEF WithPlan
        <3> QED BY <1>4, <2>5, <3>1, <3>2
    <2>12. CASE QCopy(p) \/ QPut(p) \/ QReturn(p)
        <3>1. prov' = prov /\ scanCache' = scanCache /\ y.pc \in {"put", "done", "idle"}
            BY <2>0, <2>12 DEF Moves, CopyMove, PutMove, ReturnMove
        <3> QED BY <1>4, <2>5, <3>1 DEF WithPlan
    <2> QED BY <1>10, <2>6, <2>7, <2>8, <2>9, <2>10, <2>11, <2>12, Zenon DEF QStep
<1>11. mut # Null => MutShape /\ mut.new \in 1..Latest /\ DOMAIN mut = {"api", "change", "prev", "new", "pc", "plan"}
    BY Numbers DEF Ordered, MutOK, MutShape
<1>12. CASE MStep \/ Refresh
    <2>1. query' = query /\ disk' = disk
        BY <1>12, OrderedMutation
    <2>2. \A p \in Procs : QueryPlanned(p)'
        BY <1>9, <2>1
    <2>3. CASE Refresh
        <3>1. mut' = mut /\ scanCache' = Null /\ prov' = SnapshotState(Latest, Len(Answer(Latest)))
            BY <2>3 DEF Refresh
        <3>2. prov'.pinned = Latest /\ prov'.stats = Len(Answer(Latest))
            BY <3>1 DEF SnapshotState
        <3>3. StatsOK'
            BY <1>2, <1>8, <3>2
        <3>4. ScanOK'
            BY <3>1 DEF ScanOK
        <3> QED BY <1>4, <2>2, <3>1, <3>3, <3>4
    <2>4. CASE MRefuse \/ MReply
        <3>1. mut' = Null /\ prov' = prov /\ scanCache' = scanCache
            BY <2>4 DEF MRefuse, MReply
        <3>2. DeltaPlanned'
            BY <3>1 DEF DeltaPlanned
        <3> QED BY <1>4, <2>2, <3>1, <3>2
    <2>5. CASE MCheck \/ MDrop \/ MClear
        <3>1. /\ prov' = prov /\ (scanCache' = scanCache \/ scanCache' = Null)
              /\ mut'.pc \in {"base", "cold", "clear", "reply"}
            BY <1>11, <2>5 DEF MCheck, MDrop, MClear
        <3>2. DeltaPlanned'
            BY <3>1 DEF DeltaPlanned
        <3>3. ScanOK'
            BY <1>4, <3>1 DEF ScanOK
        <3> QED BY <1>4, <2>2, <3>1, <3>2, <3>3
    <2>6. CASE MInvalidate
        <3>1. /\ prov' = SnapshotState(mut.new, Null) /\ scanCache' = scanCache /\ mut'.pc = "drop" /\ mut # Null
            BY <1>11, <2>6 DEF MInvalidate
        <3>2. prov'.pinned = mut.new /\ prov'.stats = Null
            BY <3>1 DEF SnapshotState
        <3>3. StatsOK'
            BY <1>8, <1>11, <3>1, <3>2
        <3>4. DeltaPlanned'
            BY <3>1 DEF DeltaPlanned
        <3> QED BY <1>4, <2>2, <3>1, <3>3, <3>4
    <2>7. CASE MBase
        <3>1. /\ mut # Null /\ scanCache # Null /\ scanCache.seq = prov.pinned /\ prov.pinned = mut.prev
            BY <2>7 DEF MBase, InTime
        <3>2. prov' = prov /\ scanCache' = scanCache
            BY <2>7, <3>1 DEF MBase
        <3>3. mut' = [mut EXCEPT !.pc = "install", !.plan = WithDelta(scanCache.plan)]
            BY <2>7, <3>1 DEF MBase
        <3>4. mut'.plan = WithDelta(scanCache.plan) /\ mut'.new = mut.new
            BY <1>11, <3>1, <3>3
        <3>5. PlanOf(scanCache.plan, mut.prev)
            BY <1>3, <3>1 DEF ScanOK
        <3>6. PlanOf(WithDelta(scanCache.plan), mut.new)
            BY <1>7, <1>11, <3>1, <3>5, DeltaFacts
        <3>7. DeltaPlanned'
            BY <1>5, <3>4, <3>6 DEF DeltaPlanned
        <3> QED BY <1>4, <2>2, <3>2, <3>7
    <2>8. CASE MInstall
        <3>1. /\ prov' = SnapshotState(mut.new, Len(RowsOf(mut.plan))) /\ scanCache' = scanCache
              /\ mut # Null /\ mut.pc = "install" /\ mut'.plan = mut.plan /\ mut'.new = mut.new
            BY <1>11, <2>8 DEF MInstall
        <3>2. PlanOf(mut.plan, mut.new)
            BY <1>3, <3>1 DEF DeltaPlanned
        <3>3. RowsOf(mut.plan) = Answer(mut.new)
            BY <1>7, <3>2, PlanFacts
        <3>4. prov'.pinned = mut.new /\ prov'.stats = Len(Answer(mut.new))
            BY <3>1, <3>3 DEF SnapshotState
        <3>5. StatsOK'
            BY <1>8, <1>11, <3>1, <3>4
        <3>6. DeltaPlanned'
            BY <1>5, <3>1, <3>2 DEF DeltaPlanned
        <3> QED BY <1>4, <2>2, <3>1, <3>5, <3>6
    <2>9. CASE MReplace
        <3>1. /\ prov' = SnapshotState(mut.new, Len(Answer(mut.new))) /\ scanCache' = scanCache
              /\ mut # Null /\ mut'.plan = Loaded(mut.new) /\ mut'.new = mut.new
            BY <1>11, <2>9 DEF MReplace
        <3>2. PlanOf(Loaded(mut.new), mut.new)
            BY <1>7, <1>11, <3>1, LoadedFacts
        <3>3. prov'.pinned = mut.new /\ prov'.stats = Len(Answer(mut.new))
            BY <3>1 DEF SnapshotState
        <3>4. StatsOK'
            BY <1>8, <1>11, <3>1, <3>3
        <3>5. DeltaPlanned'
            BY <1>5, <3>1, <3>2 DEF DeltaPlanned
        <3> QED BY <1>4, <2>2, <3>1, <3>4, <3>5
    <2>10. CASE MSeed
        <3>1. /\ prov' = prov /\ scanCache' = [seq |-> mut.new, plan |-> mut.plan]
              /\ mut # Null /\ mut.pc = "seed" /\ mut'.pc = "clear"
            BY <1>11, <2>10 DEF MSeed
        <3>2. PlanOf(mut.plan, mut.new)
            BY <1>3, <3>1 DEF DeltaPlanned
        <3>3. ScanOK'
            BY <1>5, <3>1, <3>2 DEF ScanOK
        <3>4. DeltaPlanned'
            BY <3>1 DEF DeltaPlanned
        <3> QED BY <1>4, <2>2, <3>1, <3>3, <3>4
    <2> HIDE DEF Goal
    <2> QED BY <1>12, <2>3, <2>4, <2>5, <2>6, <2>7, <2>8, <2>9, <2>10, Zenon DEF MStep
<1>13. ASSUME NEW api, NEW change, ForeignCommit(change) \/ MCommit(api, change) PROVE Goal
    <2>1. /\ UNCHANGED <<prov, scanCache, query>>
          /\ mut' = mut \/ mut'.pc \in {"replace", "check"}
        BY <1>13, OrderedCommit, Zenon
    <2>2. DeltaPlanned'
        BY <1>4, <2>1 DEF DeltaPlanned
    <2> QED BY <1>4, <1>9, <2>1, <2>2
<1>14. CASE \/ CliRun \/ CliPut \/ CliReturn
            \/ \E q \in {"all", "ids"}, s \in 1..Latest, past \in BOOLEAN : CliStart(q, s, past)
    <2>1. UNCHANGED <<prov, scanCache, query, mut>>
        BY <1>14, OrderedClient
    <2> QED BY <1>4, <1>9, <2>1
<1> HIDE DEF Goal
<1>15. CASE \E change \in Changes : ForeignCommit(change)
    BY <1>13, <1>15, Zenon
<1>16. CASE \E api \in {"mutate", "tx", "batch"}, change \in Changes : MCommit(api, change)
    BY <1>13, <1>16, Zenon
<1>17. CASE \E p \in Procs : QStep(p)
    BY <1>10, <1>17, Zenon
<1>18. CASE \E p \in Procs, q \in {"all", "ids"} : QStart(p, q)
    BY <1>10, <1>18, Zenon
<1> QED BY <1>12, <1>14, <1>15, <1>16, <1>17, <1>18, Zenon DEF Next

-----------------------------------------------------------------------------
(* Exact and Fresh are kept *)

\* Every step keeps the copied and cached rows those of their snapshots, unless
\* an index or a cache key was overtaken.
LEMMA ExactStep ==
    ASSUME Ordered, Planned, Exact, Next
    PROVE  Exact'
<1> DEFINE Goal == /\ TinyExact' /\ (\A p \in Procs : QueryExact(p)')
                   /\ InTime({"key"})' => ResultsExact' /\ ClientExact'
<1> SUFFICES ASSUME InTime({"base", "index"})' PROVE Goal
    BY Zenon DEF Exact
<1>1. /\ Ordered' /\ Latest <= Latest' /\ late \subseteq late' /\ \A s \in 1..Latest : disk'[s] = disk[s]
    BY OrderedStep
<1>2. Latest \in Nat /\ Latest >= 1 /\ Latest' \in Nat /\ prov.indexes = prov.pinned
    <2>1. Latest' \in Nat
        BY <1>1, SeqFacts DEF Ordered, DiskOK, Latest
    <2> QED BY <2>1, Numbers
<1>3. TinyExact /\ (\A p \in Procs : QueryExact(p)) /\ (InTime({"key"}) => ResultsExact /\ ClientExact)
    <2>1. InTime({"base", "index"})
        BY <1>1 DEF InTime
    <2> QED BY <2>1 DEF Exact
<1>4. (\A p \in Procs : QueryPlanned(p)) /\ DiskOK /\ IsSeq(results)
    <2>1. InTime({"base"})
        BY <1>1 DEF InTime
    <2> QED BY <2>1 DEF Planned, Ordered, ResultsOK
<1>5. \A rows, s : IsAnswer(rows, s) => IsAnswer(rows, s)'
    <2> SUFFICES ASSUME NEW rows, NEW s, IsAnswer(rows, s) PROVE IsAnswer(rows, s)'
        OBVIOUS
    <2>1. LiveIds(disk'[s]) = LiveIds(disk[s]) /\ s \in 1..Latest
        BY <1>1 DEF IsAnswer
    <2> QED BY <1>1, <1>2, <2>1 DEF IsAnswer, Answer
<1>6. InTime({"key"})' => ResultsExact /\ ClientExact
    BY <1>1, <1>3 DEF InTime
<1>7. tiny' = tiny \/ tiny' = Null => TinyExact'
    BY <1>3, <1>5, Zenon DEF TinyExact
<1>8. ASSUME NEW p \in Procs, query'[p] = query[p] PROVE QueryExact(p)'
    BY <1>3, <1>5, <1>8, Zenon DEF QueryExact
<1>9. client' = client /\ ClientExact => ClientExact'
    BY <1>5, Zenon DEF ClientExact
<1>10. ASSUME InTime({"key"})', \A i \in DOMAIN results' : \E j \in DOMAIN results : results'[i] = results[j]
       PROVE  ResultsExact'
    BY <1>5, <1>6, <1>10, Zenon DEF ResultsExact
<1>11. results' = results => \A i \in DOMAIN results' : \E j \in DOMAIN results : results'[i] = results[j]
    BY Zenon
<1>12. ASSUME InTime({"key"})', NEW q, NEW s, NEW rows, IsAnswer(rows, s), results' = Put(q, s, rows)
       PROVE  ResultsExact'
    <2>1. \A i \in DOMAIN results' : results'[i] = Entry(q, s, rows) \/ \E j \in DOMAIN results : results'[i] = results[j]
        BY <1>4, <1>12, PutFacts
    <2>2. Entry(q, s, rows).rows = rows /\ Entry(q, s, rows).seq = s
        BY DEF Entry
    <2>3. ASSUME NEW i \in DOMAIN results' PROVE IsAnswer(results[i].rows, results[i].seq)'
        <3>1. CASE results'[i] = Entry(q, s, rows)
            BY <1>5, <1>12, <2>2, <3>1, Zenon
        <3>2. ASSUME NEW j \in DOMAIN results, results'[i] = results[j] PROVE IsAnswer(results[i].rows, results[i].seq)'
            BY <1>5, <1>6, <1>12, <3>2, Zenon DEF ResultsExact
        <3> QED BY <2>1, <3>1, <3>2
    <2> QED BY <2>3, Zenon DEF ResultsExact
<1>13. ASSUME NEW p \in Procs, QStep(p) \/ \E q \in {"all", "ids"} : QStart(p, q) PROVE Goal
    <2> DEFINE x == query[p]
               y == query'[p]
    <2>1. client' = client /\ \A r \in Procs : r # p => query'[r] = query[r]
        BY <1>13, OrderedQueries, Zenon
    <2>2. x.pc \in WithPlan => PlanOf(x.plan, x.ver)
        BY <1>4 DEF QueryPlanned
    <2>3. x.pc \in WithPlan => RowsOf(x.plan) = Answer(x.ver) /\ x.ver \in 1..Latest /\ x.plan # <<>>
        <3> SUFFICES ASSUME x.pc \in WithPlan PROVE RowsOf(x.plan) = Answer(x.ver) /\ x.ver \in 1..Latest /\ x.plan # <<>>
            OBVIOUS
        <3>1. PlanOf(x.plan, x.ver)
            BY <2>2
        <3> HIDE DEF x
        <3> QED BY <1>4, <3>1, PlanFacts DEF PlanOf
    <2>4. x.pc \in WithPlan => IsAnswer(RowsOf(x.plan), x.ver)
        BY <2>3 DEF IsAnswer
    <2>5. ASSUME y.pc = "put" => IsAnswer(y.rows, y.ver), TinyExact', InTime({"key"})' => ResultsExact' PROVE Goal
        <3>1. QueryExact(p)'
            BY <1>5, <2>5, Zenon DEF QueryExact
        <3>2. \A r \in Procs : QueryExact(r)'
            BY <1>8, <2>1, <3>1, Zenon
        <3>3. InTime({"key"})' => ClientExact'
            BY <1>6, <1>9, <2>1
        <3> QED BY <2>5, <3>2, <3>3
    <2>0. Moves(p, x, y)
        BY QueryMoves, Zenon
    <2> HIDE DEF x, y, Goal
    <2>6. ASSUME NEW q, QStart(p, q) PROVE Goal
        <3>1. /\ tiny' = tiny /\ y.pc \in {"read", "done"}
              /\ results' = results \/ (Found(q, prov.pinned) # {} /\ results' = Touched(q, prov.pinned))
            BY <2>0, <2>6 DEF Moves, StartMove
        <3>2. \A i \in DOMAIN results' : \E j \in DOMAIN results : results'[i] = results[j]
            BY <1>4, <1>11, <3>1, TouchedFacts
        <3> QED BY <1>7, <1>10, <2>5, <3>1, <3>2, SMTT(20)
    <2>7. CASE QRead(p) \/ QLoad(p) \/ QRepin(p) \/ QStore(p) \/ QReturn(p)
        <3>1. tiny' = tiny /\ y.pc # "put" /\ results' = results
            BY <2>0, <2>7 DEF Moves, ReadMove, LoadMove, RepinMove, StoreMove, ReturnMove
        <3> QED BY <1>7, <1>10, <1>11, <2>5, <3>1, SMTT(20)
    <2>8. CASE QSnap(p)
        <3>1. /\ tiny' = tiny /\ results' = results /\ x.pc = "snap" /\ y.ver = x.ver
              /\ \/ /\ y.rows = RowsOf(IndexPruned(x.plan, prov.indexes)) /\ (prov.indexes # x.ver => "index" \in late')
                 \/ x.plan = <<>>
                 \/ y.pc = "tiny"
            BY <2>0, <2>8 DEF Moves, SnapMove
        <3>2. y.pc = "put" => IsAnswer(y.rows, y.ver)
            <4> SUFFICES ASSUME y.pc = "put" PROVE IsAnswer(y.rows, y.ver)
                OBVIOUS
            <4>1. x.pc \in WithPlan /\ PlanOf(x.plan, x.ver)
                BY <2>2, <3>1 DEF WithPlan
            <4>2. y.rows = RowsOf(IndexPruned(x.plan, x.ver))
                BY <2>3, <3>1, <4>1 DEF InTime
            <4>3. y.rows = Answer(x.ver)
                BY <1>4, <4>1, <4>2, PrunedFacts
            <4> QED BY <2>3, <3>1, <4>1, <4>3, Zenon DEF IsAnswer
        <3> QED BY <1>7, <1>10, <1>11, <2>5, <3>1, <3>2, Zenon
    <2>9. CASE QTiny(p)
        <3>1. /\ tiny' = tiny /\ results' = results /\ x.pc = "tiny"
              /\ \/ tiny # Null /\ y.rows = tiny.rows /\ y.ver = tiny.ver
                 \/ y.pc = "copy"
                 \/ y.rows = RowsOf(x.plan) /\ y.ver = x.ver
            BY <2>0, <2>9 DEF Moves, TinyMove
        <3>2. y.pc = "put" => IsAnswer(y.rows, y.ver)
            BY <1>3, <2>4, <3>1, Zenon DEF TinyExact, WithPlan
        <3> QED BY <1>7, <1>10, <1>11, <2>5, <3>1, <3>2, SMTT(20)
    <2>10. CASE QCopy(p)
        <3>1. /\ results' = results /\ x.pc = "copy" /\ y.rows = RowsOf(x.plan) /\ y.ver = x.ver
              /\ tiny' = [key |-> Head(x.plan).snap, rows |-> RowsOf(x.plan), ver |-> x.ver]
            BY <2>0, <2>10, Zenon DEF Moves, CopyMove
        <3>2. IsAnswer(RowsOf(x.plan), x.ver)
            BY <2>4, <3>1, Zenon DEF WithPlan
        <3>3. TinyExact'
            <4>1. tiny'.rows = RowsOf(x.plan) /\ tiny'.ver = x.ver
                BY <3>1, Zenon
            <4> QED BY <1>5, <3>2, <4>1, Zenon DEF TinyExact
        <3> QED BY <1>10, <1>11, <2>5, <3>1, <3>2, <3>3
    <2>11. CASE QPut(p)
        <3>1. /\ tiny' = tiny /\ x.pc = "put" /\ y.pc = "done" /\ results' = Put(x.q, x.key, x.rows)
              /\ x.key # x.ver => "key" \in late'
            BY <2>0, <2>11 DEF Moves, PutMove
        <3>2. IsAnswer(x.rows, x.ver)
            BY <1>3, <3>1, Zenon DEF QueryExact, x
        <3>3. InTime({"key"})' => ResultsExact'
            <4> SUFFICES ASSUME InTime({"key"})' PROVE ResultsExact'
                OBVIOUS
            <4>1. x.key = x.ver
                BY <3>1 DEF InTime
            <4> QED BY <1>12, <3>1, <3>2, <4>1, Zenon
        <3> QED BY <1>7, <2>5, <3>1, <3>3
    <2> QED BY <1>13, <2>6, <2>7, <2>8, <2>9, <2>10, <2>11, Zenon DEF QStep
<1>14. ASSUME UNCHANGED <<query, client>>, tiny' = tiny \/ tiny' = Null, results' = results \/ results' = <<>> PROVE Goal
    <2>1. \A i \in DOMAIN results' : \E j \in DOMAIN results : results'[i] = results[j]
        BY <1>11, <1>14
    <2> QED BY <1>6, <1>7, <1>8, <1>9, <1>10, <1>14, <2>1
<1>15. CASE MStep \/ Refresh
    <2>1. UNCHANGED <<query, client>>
        BY <1>15, OrderedMutation
    <2>2. (tiny' = tiny \/ tiny' = Null) /\ (results' = results \/ results' = <<>>)
        BY <1>15 DEF MStep, Refresh, MRefuse, MCheck, MInvalidate, MDrop, MBase, MInstall, MReplace, MSeed, MClear, MReply
    <2> QED BY <1>14, <2>1, <2>2
<1>16. ASSUME NEW api, NEW change, ForeignCommit(change) \/ MCommit(api, change) PROVE Goal
    <2>1. UNCHANGED <<query, client, tiny, results>>
        BY <1>16, OrderedCommit
    <2> QED BY <1>14, <2>1
<1>17. CASE \/ CliRun \/ CliPut \/ CliReturn
            \/ \E q \in {"all", "ids"}, s \in 1..Latest, past \in BOOLEAN : CliStart(q, s, past)
    <2>1. UNCHANGED <<tiny, query>>
        BY <1>17, OrderedClient
    <2>2. TinyExact' /\ \A p \in Procs : QueryExact(p)'
        BY <1>7, <1>8, <2>1
    <2> SUFFICES ASSUME InTime({"key"})' PROVE ResultsExact' /\ ClientExact'
        BY <2>2
    <2>3. ASSUME NEW q, NEW past, NEW s \in 1..Latest, CliStart(q, s, past) PROVE ResultsExact' /\ ClientExact'
        <3>1. /\ client'.key = s
              /\ \/ client'.pc = "run" /\ results' = results
                 \/ Found(q, s) # {} /\ client'.rows = Cached(q, s).rows /\ results' = Touched(q, s)
            BY <2>3, ClientMoves
        <3>2. CASE client'.pc = "run" /\ results' = results
            BY <1>10, <1>11, <3>2 DEF ClientExact
        <3>3. CASE Found(q, s) # {} /\ client'.rows = Cached(q, s).rows /\ results' = Touched(q, s)
            <4>1. \A i \in DOMAIN results' : \E j \in DOMAIN results : results'[i] = results[j]
                BY <1>4, <3>3, TouchedFacts
            <4>2. PICK j \in DOMAIN results : Cached(q, s) = results[j] /\ results[j].seq = s
                BY <1>4, <3>3, TouchedFacts
            <4>3. IsAnswer(client'.rows, client'.key)
                BY <1>6, <3>1, <3>3, <4>2 DEF ResultsExact
            <4>4. ClientExact'
                BY <1>5, <4>3, Zenon DEF ClientExact
            <4> QED BY <1>10, <4>1, <4>4
        <3> QED BY <3>1, <3>2, <3>3
    <2>4. CASE CliRun
        <3>1. /\ client'.key = client.key /\ client.key \in 1..Latest /\ results' = results
              /\ \E s \in {client.key, Latest} : client'.rows = RowsOf(Loaded(s)) /\ (s # client.key => "key" \in late')
            BY <2>4, ClientMoves
        <3>2. client'.rows = RowsOf(Loaded(client.key))
            BY <3>1 DEF InTime
        <3>3. RowsOf(Loaded(client.key)) = Answer(client.key)
            BY <1>4, <3>1, LoadedFacts, PlanFacts
        <3>4. IsAnswer(client'.rows, client'.key)
            BY <3>1, <3>2, <3>3 DEF IsAnswer
        <3>5. ClientExact'
            BY <1>5, <3>4, Zenon DEF ClientExact
        <3> QED BY <1>10, <1>11, <3>1, <3>5
    <2>5. CASE CliPut
        <3>1. /\ client.pc = "put" /\ client'.rows = client.rows /\ client'.key = client.key
              /\ results' = Put(client.q, client.key, client.rows)
            BY <2>5, ClientMoves
        <3>2. IsAnswer(client.rows, client.key)
            BY <1>6, <3>1 DEF ClientExact
        <3>3. ResultsExact'
            BY <1>12, <3>1, <3>2
        <3>4. ClientExact'
            BY <1>5, <3>1, <3>2, Zenon DEF ClientExact
        <3> QED BY <3>3, <3>4
    <2>6. CASE CliReturn
        <3>1. client'.pc = "idle" /\ results' = results
            BY <2>6, ClientMoves
        <3> QED BY <1>10, <1>11, <3>1 DEF ClientExact
    <2> QED BY <1>17, <2>3, <2>4, <2>5, <2>6
<1> HIDE DEF Goal
<1>18. CASE \E change \in Changes : ForeignCommit(change)
    BY <1>16, <1>18, Zenon
<1>19. CASE \E api \in {"mutate", "tx", "batch"}, change \in Changes : MCommit(api, change)
    BY <1>16, <1>19, Zenon
<1>20. CASE \E p \in Procs : QStep(p)
    BY <1>13, <1>20, Zenon
<1>21. CASE \E p \in Procs, q \in {"all", "ids"} : QStart(p, q)
    BY <1>13, <1>21, Zenon
<1> QED BY <1>15, <1>17, <1>18, <1>19, <1>20, <1>21, Zenon DEF Next

\* What a step does to the running mutation, and where the provider is after it.
LEMMA MutationMoves ==
    ASSUME Ordered, Next
    PROVE  /\ \/ acked' = acked /\ mut' = Null
              \/ /\ acked' = acked /\ mut # Null /\ mut' # Null /\ mut'.new = mut.new
                 /\ mut.pc \in {"clear", "reply"} => mut'.pc \in {"clear", "reply"}
                 /\ mut'.pc = "reply" => mut.pc = "reply" \/ tiny' = Null
              \/ acked' = acked /\ mut = Null /\ mut'.new = Latest + 1 /\ mut'.pc # "reply"
              \/ mut # Null /\ mut.pc = "reply" /\ acked' = mut.new /\ mut' = Null
           /\ prov.pinned <= prov'.pinned \/ (mut # Null /\ prov'.pinned = mut.new /\ acked' = acked)
<1> DEFINE Kept == acked' = acked /\ mut' = mut
           Goal == /\ \/ acked' = acked /\ mut' = Null
                      \/ /\ acked' = acked /\ mut # Null /\ mut' # Null /\ mut'.new = mut.new
                         /\ mut.pc \in {"clear", "reply"} => mut'.pc \in {"clear", "reply"}
                         /\ mut'.pc = "reply" => mut.pc = "reply" \/ tiny' = Null
                      \/ acked' = acked /\ mut = Null /\ mut'.new = Latest + 1 /\ mut'.pc # "reply"
                      \/ mut # Null /\ mut.pc = "reply" /\ acked' = mut.new /\ mut' = Null
                   /\ prov.pinned <= prov'.pinned \/ (mut # Null /\ prov'.pinned = mut.new /\ acked' = acked)
<1> SUFFICES Goal
    OBVIOUS
<1>1. Latest \in Nat /\ prov.pinned \in 1..Latest
    BY Numbers
<1>2. prov' = prov => prov.pinned <= prov'.pinned
    BY <1>1
<1>3. Kept /\ prov.pinned <= prov'.pinned => Goal
    BY Zenon
<1>4. ASSUME NEW p \in Procs, QStep(p) \/ \E q \in {"all", "ids"} : QStart(p, q) PROVE Goal
    BY <1>3, <1>4, OrderedQueries
<1>5. ASSUME NEW api, NEW change, ForeignCommit(change) \/ MCommit(api, change) PROVE Goal
    <2>1. /\ acked' = acked /\ prov' = prov
          /\ mut' = mut \/ (mut = Null /\ mut'.new = Latest + 1 /\ mut'.pc \in {"replace", "check"})
        BY <1>5, OrderedCommit
    <2> QED BY <1>2, <1>3, <2>1
<1>6. CASE \/ CliRun \/ CliPut \/ CliReturn
           \/ \E q \in {"all", "ids"}, s \in 1..Latest, past \in BOOLEAN : CliStart(q, s, past)
    BY <1>2, <1>3, <1>6, OrderedClient
<1>7. CASE Refresh
    <2>1. Kept /\ prov' = SnapshotState(Latest, Len(Answer(Latest)))
        BY <1>7 DEF Refresh
    <2>2. prov'.pinned = Latest
        BY <2>1 DEF SnapshotState
    <2> QED BY <1>1, <1>3, <2>1, <2>2
<1>8. CASE MStep
    <2>1. mut # Null /\ DOMAIN mut = {"api", "change", "prev", "new", "pc", "plan"}
        <3>1. mut # Null
            BY <1>8 DEF MStep, MRefuse, MCheck, MInvalidate, MDrop, MBase, MInstall, MReplace, MSeed, MClear, MReply
        <3> QED BY <3>1 DEF Ordered, MutOK, MutShape
    <2>3. CASE MRefuse
        <3>1. mut' = Null /\ acked' = acked /\ prov' = prov
            BY <2>3, Zenon DEF MRefuse
        <3> QED BY <1>2, <3>1
    <2>4. CASE MReply
        <3>1. mut.pc = "reply" /\ mut' = Null /\ acked' = mut.new /\ prov' = prov
            BY <2>4 DEF MReply
        <3> QED BY <1>2, <2>1, <3>1
    <2>5. CASE MCheck \/ MDrop \/ MSeed
        <3>1. /\ acked' = acked /\ prov' = prov /\ mut.pc \notin {"clear", "reply"}
              /\ mut'.new = mut.new /\ mut'.pc # "reply"
            BY <2>1, <2>5 DEF MCheck, MDrop, MSeed
        <3> QED BY <1>2, <2>1, <3>1
    <2>6. CASE MInvalidate \/ MInstall \/ MReplace
        <3>1. /\ acked' = acked /\ mut.pc \notin {"clear", "reply"}
              /\ mut'.new = mut.new /\ mut'.pc # "reply" /\ \E n : prov' = SnapshotState(mut.new, n)
            BY <2>1, <2>6, Zenon DEF MInvalidate, MInstall, MReplace
        <3>2. prov'.pinned = mut.new
            BY <3>1 DEF SnapshotState
        <3> QED BY <2>1, <3>1, <3>2
    <2>7. CASE MBase
        <3>1. /\ acked' = acked /\ mut.pc \notin {"clear", "reply"} /\ mut'.new = mut.new /\ mut'.pc # "reply"
              /\ prov' = prov \/ prov' = Repinned(Latest)
            BY <2>1, <2>7 DEF MBase
        <3>2. prov.pinned <= prov'.pinned
            BY <1>1, <3>1 DEF Repinned, SnapshotState
        <3> QED BY <2>1, <3>1, <3>2
    <2>8. CASE MClear
        <3>1. /\ acked' = acked /\ prov' = prov /\ tiny' = Null /\ mut'.new = mut.new /\ mut'.pc = "reply"
            BY <2>1, <2>8 DEF MClear
        <3> QED BY <1>2, <2>1, <3>1
    <2> HIDE DEF Goal
    <2> QED BY <1>8, <2>3, <2>4, <2>5, <2>6, <2>7, <2>8, Zenon DEF MStep
<1> HIDE DEF Goal
<1>9. CASE \E change \in Changes : ForeignCommit(change)
    BY <1>5, <1>9, Zenon
<1>10. CASE \E api \in {"mutate", "tx", "batch"}, change \in Changes : MCommit(api, change)
    BY <1>5, <1>10, Zenon
<1>11. CASE \E p \in Procs : QStep(p)
    BY <1>4, <1>11, Zenon
<1>12. CASE \E p \in Procs, q \in {"all", "ids"} : QStart(p, q)
    BY <1>4, <1>12, Zenon
<1> QED BY <1>6, <1>7, <1>8, <1>9, <1>10, <1>11, <1>12, Zenon DEF Next

\* What a sequence, a plan, the provider and the copy have of the mutations'
\* commits, they keep.
LEMMA Carried ==
    ASSUME Ordered, Next
    PROVE  /\ \A k \in 0..Latest : \A s \in 1..Latest : Above(k, s) => Above(k, s)'
           /\ \A plan : \A s \in 1..Latest : HeadOK(plan, s) => HeadOK(plan, s)'
           /\ \A k \in 0..Latest : Above(k, prov.pinned) => Above(k, prov.pinned)'
           /\ tiny' = tiny /\ TinyFresh => TinyFresh'
<1> DEFINE Ends == acked' = acked /\ mut' = Null
           Runs == /\ acked' = acked /\ mut # Null /\ mut' # Null /\ mut'.new = mut.new
                   /\ mut.pc \in {"clear", "reply"} => mut'.pc \in {"clear", "reply"}
                   /\ mut'.pc = "reply" => mut.pc = "reply" \/ tiny' = Null
           Begins == acked' = acked /\ mut = Null /\ mut'.new = Latest + 1 /\ mut'.pc # "reply"
           Replies == mut # Null /\ mut.pc = "reply" /\ acked' = mut.new /\ mut' = Null
           Ahead == prov.pinned <= prov'.pinned \/ (mut # Null /\ prov'.pinned = mut.new /\ acked' = acked)
<1>1. (Ends \/ Runs \/ Begins \/ Replies) /\ Ahead
    BY MutationMoves
<1>2. /\ Latest \in Nat /\ acked \in 1..Latest /\ prov.pinned \in 1..Latest
      /\ mut # Null => mut.new \in 1..Latest /\ acked < mut.new
    BY Numbers
<1>3. prov'.pinned \in Nat
    <2>1. Ordered'
        BY OrderedStep
    <2>2. prov'.pinned \in 1..Latest' /\ Latest' \in Nat
        BY <2>1, SeqFacts DEF Ordered, ProvOK, DiskOK, Latest
    <2> QED BY <2>2
<1>4. ASSUME NEW k \in 0..Latest, NEW s \in 1..Latest, Above(k, s) PROVE Above(k, s)'
    <2>1. CASE Ends
        BY <1>4, <2>1 DEF Above
    <2>2. CASE Runs
        BY <1>4, <2>2 DEF Above
    <2>3. CASE Begins
        BY <1>2, <1>4, <2>3 DEF Above
    <2>4. CASE Replies
        BY <1>4, <2>4 DEF Above
    <2> QED BY <1>1, <2>1, <2>2, <2>3, <2>4
<1>5. ASSUME NEW plan, NEW s \in 1..Latest, HeadOK(plan, s) PROVE HeadOK(plan, s)'
    <2>1. CASE Ends \/ Replies
        BY <2>1 DEF HeadOK
    <2>2. CASE Runs
        BY <1>5, <2>2 DEF HeadOK
    <2>3. CASE Begins
        BY <1>2, <2>3 DEF HeadOK
    <2> QED BY <1>1, <2>1, <2>2, <2>3
<1>6. ASSUME NEW k \in 0..Latest, Above(k, prov.pinned) PROVE Above(k, prov.pinned)'
    <2>1. CASE Ends
        BY <1>1, <1>2, <1>3, <1>6, <2>1 DEF Above
    <2>2. CASE Runs
        BY <1>1, <1>2, <1>3, <1>6, <2>2 DEF Above
    <2>3. CASE Begins
        BY <1>1, <1>2, <1>3, <1>6, <2>3 DEF Above
    <2>4. CASE Replies
        BY <1>1, <1>2, <1>3, <1>6, <2>4 DEF Above
    <2> QED BY <1>1, <2>1, <2>2, <2>3, <2>4
<1>7. ASSUME tiny' = tiny, TinyFresh PROVE TinyFresh'
    <2>1. CASE Ends
        BY <1>7, <2>1 DEF TinyFresh
    <2>2. CASE Runs
        BY <1>7, <2>2 DEF TinyFresh
    <2>3. CASE Begins
        BY <1>7, <2>3 DEF TinyFresh
    <2>4. CASE Replies
        BY <1>7, <2>4 DEF TinyFresh
    <2> QED BY <1>1, <2>1, <2>2, <2>3, <2>4
<1> QED BY <1>4, <1>5, <1>6, <1>7, Zenon

(* The result cache has only what it had. *)
HadResults == \A i \in DOMAIN results' : \E j \in DOMAIN results : results'[i] = results[j]

\* Without a step that makes them anew, the parts stay as fresh as they are.
LEMMA FreshFrame ==
    ASSUME Ordered, Next, FreshParts
    PROVE  /\ tiny' = tiny \/ tiny' = Null => TinyFresh'
           /\ scanCache' = scanCache \/ scanCache' = Null => ScanFresh'
           /\ \A plan : \A s \in 1..Latest : HeadOK(plan, s) => HeadOK(plan, s)'
           /\ \A p \in Procs : FreshQuery(query'[p]) /\ QueryShape(query'[p]) => FreshQuery(query[p])'
           /\ \A p \in Procs : query'[p] = query[p] => FreshQuery(query[p])'
           /\ client' = client => ClientFresh'
           /\ \A rows : \A k \in 0..Latest : HasAnswer(rows, k) => HasAnswer(rows, k)'
           /\ HadResults => ResultsFresh'
           /\ \A q, rows : \A k \in 1..Latest : HasAnswer(rows, k) /\ results' = Put(q, k, rows) => ResultsFresh'
<1>1. Ordered' /\ Latest <= Latest' /\ late \subseteq late' /\ \A s \in 1..Latest : disk'[s] = disk[s]
    BY OrderedStep
<1>2. /\ Latest \in Nat /\ Latest >= 1 /\ Latest' \in Nat /\ acked \in 1..Latest
      /\ prov.pinned \in 1..Latest /\ acked <= prov.pinned
      /\ mut # Null => mut.new \in 1..Latest /\ acked < mut.new
    <2>1. Latest' \in Nat
        BY <1>1, SeqFacts DEF Ordered, DiskOK, Latest
    <2> QED BY <2>1, Numbers
<1>3. TinyFresh /\ ScanFresh /\ (\A p \in Procs : FreshQuery(query[p])) /\ ResultsFresh /\ ClientFresh
    BY DEF FreshParts
<1>4. /\ CachesOK /\ IsSeq(results) /\ (\A i \in DOMAIN results : results[i].seq \in 1..Latest)
      /\ \A p \in Procs : QueryShape(query[p])
    BY DEF Ordered, ResultsOK, QueriesOK
<1>5. /\ \A k \in 0..Latest : \A s \in 1..Latest : Above(k, s) => Above(k, s)'
      /\ \A plan : \A s \in 1..Latest : HeadOK(plan, s) => HeadOK(plan, s)'
      /\ \A k \in 0..Latest : Above(k, prov.pinned) => Above(k, prov.pinned)'
      /\ tiny' = tiny \/ tiny' = Null => TinyFresh'
    BY <1>3, Carried, Zenon DEF TinyFresh
<1>6. \A s \in 1..Latest : s \in 1..Latest' /\ Answer(s)' = Answer(s)
    <2> SUFFICES ASSUME NEW s \in 1..Latest PROVE s \in 1..Latest' /\ Answer(s)' = Answer(s)
        OBVIOUS
    <2>1. LiveIds(disk'[s]) = LiveIds(disk[s])
        BY <1>1
    <2> QED BY <1>1, <1>2, <2>1 DEF Answer
<1>7. ASSUME NEW rows, NEW k \in 0..Latest, HasAnswer(rows, k) PROVE HasAnswer(rows, k)'
    <2>1. PICK s \in 1..Latest : rows = Answer(s) /\ Above(k, s)
        BY <1>7 DEF HasAnswer
    <2>2. s \in 1..Latest' /\ rows = Answer(s)' /\ Above(k, s)'
        BY <1>5, <1>6, <2>1, Zenon
    <2> QED BY <2>2, Zenon DEF HasAnswer
<1>8. ASSUME NEW p \in Procs, FreshQuery(query'[p]), QueryShape(query'[p]) PROVE FreshQuery(query[p])'
    <2> DEFINE y == query'[p]
    <2>1. /\ y.key \in 0..Latest /\ y.ver \in 0..Latest
          /\ y.pc \in WithPlan \union {"put"} => y.ver \in 1..Latest
        BY <1>2, <1>8 DEF QueryShape
    <2>2. /\ y.pc \in Fetching => Above(y.key, prov.pinned)
          /\ y.pc \in WithPlan => HeadOK(y.plan, y.ver)
          /\ y.pc \in WithPlan \union {"put"} => Above(y.key, y.ver) /\ y.floor <= y.ver
          /\ y.pc = "done" => \E s \in 1..Latest : y.floor <= s /\ y.rows = Answer(s)
        BY <1>8 DEF FreshQuery
    <2>3. y.pc \in Fetching => Above(query[p].key, prov.pinned)'
        BY <1>5, <2>1, <2>2, Zenon
    <2>4. y.pc \in WithPlan => HeadOK(query[p].plan, query[p].ver)'
        <3> SUFFICES ASSUME y.pc \in WithPlan PROVE HeadOK(query[p].plan, query[p].ver)'
            OBVIOUS
        <3>1. y.ver \in 1..Latest /\ HeadOK(y.plan, y.ver)
            BY <2>1, <2>2
        <3> QED BY <1>5, <3>1, Zenon
    <2>5. y.pc \in WithPlan \union {"put"} => Above(query[p].key, query[p].ver)' /\ y.floor <= y.ver
        BY <1>5, <2>1, <2>2, Zenon
    <2>6. y.pc = "done" => \E s \in 1..Latest' : y.floor <= s /\ y.rows = Answer(s)'
        <3> SUFFICES ASSUME y.pc = "done" PROVE \E s \in 1..Latest' : y.floor <= s /\ y.rows = Answer(s)'
            OBVIOUS
        <3>1. PICK s \in 1..Latest : y.floor <= s /\ y.rows = Answer(s)
            BY <2>2
        <3>2. s \in 1..Latest' /\ y.rows = Answer(s)'
            BY <1>6, <3>1
        <3> QED BY <3>1, <3>2, Zenon
    <2> QED BY <2>3, <2>4, <2>5, <2>6, Zenon DEF FreshQuery
<1>9. ASSUME NEW p \in Procs, query'[p] = query[p] PROVE FreshQuery(query[p])'
    BY <1>3, <1>4, <1>8, <1>9, Zenon
<1>10. scanCache' = scanCache \/ scanCache' = Null => ScanFresh'
    BY <1>3, <1>4, <1>5, Zenon DEF ScanFresh, CachesOK
<1>11. client' = client => ClientFresh'
    <2>1. client.key \in 0..Latest
        BY DEF Ordered, ClientShape
    <2> QED BY <1>3, <1>7, <2>1, Zenon DEF ClientFresh
<1>12. ASSUME HadResults PROVE ResultsFresh'
    <2>1. \A j \in DOMAIN results : results[j].seq \in 0..Latest
        BY <1>2, <1>4
    <2> QED BY <1>3, <1>7, <1>12, <2>1, Zenon DEF ResultsFresh, HadResults
<1>13. ASSUME NEW q, NEW k \in 1..Latest, NEW rows, HasAnswer(rows, k), results' = Put(q, k, rows)
       PROVE  ResultsFresh'
    <2>1. \A i \in DOMAIN results' : results'[i] = Entry(q, k, rows) \/ \E j \in DOMAIN results : results'[i] = results[j]
        BY <1>4, <1>13, PutFacts
    <2>2. Entry(q, k, rows).rows = rows /\ Entry(q, k, rows).seq = k /\ k \in 0..Latest
        BY <1>2 DEF Entry
    <2>3. \A j \in DOMAIN results : results[j].seq \in 0..Latest
        BY <1>2, <1>4
    <2>4. ASSUME NEW i \in DOMAIN results' PROVE HasAnswer(results[i].rows, results[i].seq)'
        <3>1. CASE results'[i] = Entry(q, k, rows)
            BY <1>7, <1>13, <2>2, <3>1, Zenon
        <3>2. ASSUME NEW j \in DOMAIN results, results'[i] = results[j] PROVE HasAnswer(results[i].rows, results[i].seq)'
            BY <1>3, <1>7, <2>3, <3>2, Zenon DEF ResultsFresh
        <3> QED BY <2>1, <3>1, <3>2
    <2> QED BY <2>4, Zenon DEF ResultsFresh
<1> QED BY <1>5, <1>7, <1>8, <1>9, <1>10, <1>11, <1>12, <1>13, Zenon

\* A step of a query keeps the parts fresh.
LEMMA FreshQueries ==
    ASSUME Ordered, \A r \in Procs : QueryPlanned(r) /\ QueryExact(r), FreshParts, Next, InTime({"base", "index", "tiny"})',
           NEW p \in Procs, QStep(p) \/ \E q \in {"all", "ids"} : QStart(p, q)
    PROVE  FreshParts'
<1>1. /\ Latest \in Nat /\ Latest >= 1 /\ acked \in 1..Latest /\ prov.pinned \in 1..Latest /\ acked <= prov.pinned
      /\ mut # Null => mut.new \in 1..Latest /\ acked < mut.new
    BY Numbers
<1>2. TinyFresh /\ ScanFresh /\ (\A r \in Procs : FreshQuery(query[r])) /\ ResultsFresh
    BY DEF FreshParts
<1>3. DiskOK /\ CachesOK /\ IsSeq(results) /\ QueryShape(query[p])
    BY DEF Ordered, ResultsOK, QueriesOK
<1>4. /\ tiny' = tiny => TinyFresh'
      /\ scanCache' = scanCache => ScanFresh'
      /\ \A plan : \A s \in 1..Latest : HeadOK(plan, s) => HeadOK(plan, s)'
      /\ \A r \in Procs : FreshQuery(query'[r]) /\ QueryShape(query'[r]) => FreshQuery(query[r])'
      /\ \A r \in Procs : query'[r] = query[r] => FreshQuery(query[r])'
      /\ client' = client => ClientFresh'
      /\ results' = results \/ HadResults => ResultsFresh'
      /\ \A q, rows : \A k \in 1..Latest : HasAnswer(rows, k) /\ results' = Put(q, k, rows) => ResultsFresh'
    BY FreshFrame, Zenon DEF HadResults
<1>5. \A k \in 0..Latest : Above(k, k) /\ Above(k, Latest)
    BY <1>1 DEF Above
<1>6. Ordered'
    BY OrderedStep
<1> DEFINE x == query[p]
           y == query'[p]
<1>7. client' = client /\ disk' = disk /\ acked' = acked /\ mut' = mut /\ \A r \in Procs : r # p => query'[r] = query[r]
    BY OrderedQueries, Zenon
<1>8. QueryShape(y)
    BY <1>6, <1>7, SMTT(20) DEF Ordered, QueriesOK, QueryShape, Latest
<1>9. ASSUME FreshQuery(y), TinyFresh', ScanFresh', ResultsFresh' PROVE FreshParts'
    <2>1. FreshQuery(query[p])'
        BY <1>4, <1>8, <1>9
    <2>2. \A r \in Procs : FreshQuery(query[r])'
        BY <1>4, <1>7, <2>1, Zenon
    <2> QED BY <1>4, <1>7, <1>9, <2>2 DEF FreshParts
<1>10. /\ x.pc \in Fetching => Above(x.key, prov.pinned)
       /\ x.pc \in WithPlan => HeadOK(x.plan, x.ver)
       /\ x.pc \in WithPlan \union {"put"} => Above(x.key, x.ver) /\ x.floor <= x.ver
    BY <1>2, Zenon DEF FreshQuery
<1>11. /\ x.key \in 0..Latest /\ x.ver \in 0..Latest /\ x.floor \in 0..acked
       /\ x.pc \notin {"idle", "done"} => x.key \in 1..Latest
       /\ x.pc \in WithPlan \union {"put"} => x.ver \in 1..Latest
    BY <1>1, <1>3, SMTT(20) DEF QueryShape
<1>12. x.pc \in WithPlan => PlanOf(x.plan, x.ver) /\ Head(x.plan) = x.plan[1]
    BY DEF QueryPlanned, PlanOf
<1>13. Moves(p, x, y)
    BY QueryMoves, Zenon
<1> HIDE DEF x, y
<1>14. ASSUME NEW q, QStart(p, q) PROVE FreshParts'
    <2>1. /\ y.key = prov.pinned /\ y.floor = acked /\ UNCHANGED <<prov, scanCache, tiny, late>>
          /\ \/ y.pc = "read" /\ results' = results
             \/ /\ y.pc = "done" /\ Found(q, prov.pinned) # {} /\ y.rows = Cached(q, prov.pinned).rows
                /\ results' = Touched(q, prov.pinned)
        BY <1>13, <1>14, Zenon DEF Moves, StartMove
    <2>2. CASE y.pc = "read" /\ results' = results
        <3>1. FreshQuery(y)
            BY <1>1, <1>5, <2>1, <2>2 DEF FreshQuery, WithPlan
        <3> QED BY <1>4, <1>9, <2>1, <2>2, <3>1, ZenonT(30)
    <2>3. CASE /\ y.pc = "done" /\ Found(q, prov.pinned) # {} /\ y.rows = Cached(q, prov.pinned).rows
               /\ results' = Touched(q, prov.pinned)
        <3>1. PICK j \in DOMAIN results : Cached(q, prov.pinned) = results[j] /\ results[j].seq = prov.pinned
            BY <1>3, <2>3, TouchedFacts
        <3>2. HasAnswer(y.rows, prov.pinned)
            BY <1>2, <2>3, <3>1, Zenon DEF ResultsFresh
        <3>3. PICK s \in 1..Latest : y.rows = Answer(s) /\ Above(prov.pinned, s)
            BY <3>2 DEF HasAnswer
        <3>4. acked <= s
            BY <1>1, <3>3, SMTT(20) DEF Above
        <3>5. FreshQuery(y)
            BY <2>1, <2>3, <3>3, <3>4, SMTT(20) DEF FreshQuery, WithPlan, Fetching
        <3>6. HadResults
            BY <1>3, <2>3, TouchedFacts DEF HadResults
        <3>7. TinyFresh' /\ ScanFresh' /\ ResultsFresh'
            BY <1>4, <2>1, <3>6, Zenon
        <3> QED BY <1>9, <3>5, <3>7, Zenon
    <2> QED BY <2>1, <2>2, <2>3, Zenon
<1>15. CASE QRead(p)
    <2>1. /\ x.pc \in {"read", "reread"} /\ y.key = x.key /\ y.floor = x.floor
          /\ UNCHANGED <<prov, scanCache, tiny, results, late>>
          /\ \/ y.pc = "load"
             \/ /\ y.pc = "snap" /\ scanCache # Null /\ scanCache.seq = prov.pinned
                /\ y.ver = scanCache.seq /\ y.plan = scanCache.plan
        BY <1>13, <1>15, Zenon DEF Moves, ReadMove
    <2>2. Above(x.key, prov.pinned) /\ x.floor <= prov.pinned
        BY <1>1, <1>10, <1>11, <2>1 DEF Fetching
    <2>3. scanCache # Null => HeadOK(scanCache.plan, scanCache.seq)
        BY <1>2 DEF ScanFresh
    <2>4. FreshQuery(y)
        BY <2>1, <2>2, <2>3, Zenon DEF FreshQuery, WithPlan, Fetching
    <2> QED BY <1>4, <1>9, <2>1, <2>4, Zenon
<1>16. CASE QLoad(p)
    <2>1. /\ x.pc = "load" /\ y.pc \in {"snap", "repin"} /\ y.key = x.key /\ y.floor = x.floor
          /\ y.ver = Latest /\ y.plan = Loaded(Latest) /\ UNCHANGED <<prov, scanCache, tiny, results, late>>
        BY <1>13, <1>16 DEF Moves, LoadMove
    <2>2. Above(x.key, prov.pinned) /\ x.floor <= Latest /\ Above(x.key, Latest)
        BY <1>1, <1>5, <1>10, <1>11, <2>1 DEF Fetching
    <2>3. Loaded(Latest)[1].snap = Latest
        BY <1>1, <1>3, LoadedFacts
    <2>4. HeadOK(y.plan, y.ver)
        BY <2>1, <2>3 DEF HeadOK
    <2>5. FreshQuery(y)
        BY <2>1, <2>2, <2>4, SMTT(20) DEF FreshQuery, WithPlan, Fetching
    <2> QED BY <1>4, <1>9, <2>1, <2>5, ZenonT(30)
<1>17. CASE QRepin(p)
    <2>1. /\ x.pc = "repin" /\ y.pc \in {"store", "load", "reread"} /\ y.key = x.key /\ y.floor = x.floor
          /\ y.ver = x.ver /\ y.plan = x.plan /\ UNCHANGED <<scanCache, tiny, results, late>>
        BY <1>13, <1>17, Zenon DEF Moves, RepinMove
    <2>2. FreshQuery(y)
        BY <1>10, <2>1, Zenon DEF FreshQuery, WithPlan, Fetching
    <2> QED BY <1>4, <1>9, <2>1, <2>2
<1>18. CASE QStore(p)
    <2>1. /\ x.pc = "store" /\ y.pc = "snap" /\ y.key = x.key /\ y.floor = x.floor
          /\ y.ver = x.ver /\ y.plan = x.plan /\ UNCHANGED <<prov, tiny, results, late>>
          /\ scanCache' = [seq |-> x.ver, plan |-> x.plan]
        BY <1>13, <1>18, Zenon DEF Moves, StoreMove
    <2>2. HeadOK(x.plan, x.ver) /\ x.ver \in 1..Latest
        BY <1>10, <1>11, <2>1, Zenon DEF WithPlan
    <2>3. FreshQuery(y)
        BY <1>10, <2>1, Zenon DEF FreshQuery, WithPlan, Fetching
    <2>4. scanCache'.seq = x.ver /\ scanCache'.plan = x.plan
        BY <2>1
    <2>5. ScanFresh'
        BY <1>4, <2>2, <2>4, Zenon DEF ScanFresh
    <2> QED BY <1>4, <1>9, <2>1, <2>3, <2>5, Zenon
<1>19. CASE QSnap(p)
    <2>1. /\ x.pc = "snap" /\ y.key = x.key /\ y.floor = x.floor /\ y.ver = x.ver
          /\ UNCHANGED <<prov, scanCache, tiny, results>>
          /\ y.pc = "put" \/ (y.pc = "tiny" /\ y.plan = x.plan)
        BY <1>13, <1>19, Zenon DEF Moves, SnapMove
    <2>2. FreshQuery(y)
        BY <1>10, <2>1, ZenonT(30) DEF FreshQuery, WithPlan, Fetching
    <2> QED BY <1>4, <1>9, <2>1, <2>2
<1>20. CASE QTiny(p)
    <2>1. /\ x.pc = "tiny" /\ y.key = x.key /\ y.floor = x.floor
          /\ UNCHANGED <<prov, scanCache, tiny, results>>
          /\ \/ /\ tiny # Null /\ tiny.key = Head(x.plan).snap /\ y.pc = "put" /\ y.ver = tiny.ver
                /\ mut # Null /\ mut.pc = "clear" => "tiny" \in late'
             \/ y.pc \in {"copy", "put"} /\ y.ver = x.ver /\ (y.pc = "copy" => y.plan = x.plan)
        BY <1>13, <1>20, Zenon DEF Moves, TinyMove
    <2>2. FreshQuery(y)
        <3>1. CASE y.pc \in {"copy", "put"} /\ y.ver = x.ver /\ (y.pc = "copy" => y.plan = x.plan)
            BY <1>10, <2>1, <3>1, Zenon DEF FreshQuery, WithPlan, Fetching
        <3>2. CASE /\ tiny # Null /\ tiny.key = Head(x.plan).snap /\ y.pc = "put" /\ y.ver = tiny.ver
                   /\ mut # Null /\ mut.pc = "clear" => "tiny" \in late'
            <4>1. /\ tiny.key \in 1..tiny.ver /\ acked <= tiny.ver /\ tiny.ver \in 1..Latest
                  /\ mut # Null /\ mut.pc = "reply" => mut.new <= tiny.ver
                BY <1>2, <1>3, <3>2 DEF TinyFresh, CachesOK
            <4>2. x.floor <= tiny.ver
                BY <1>1, <1>11, <4>1
            <4>3. ASSUME mut # Null, mut.new <= x.key PROVE mut.new <= tiny.ver
                <5>1. mut.pc # "clear"
                    BY <3>2, <4>3 DEF InTime
                <5>2. mut.new <= x.ver
                    BY <1>10, <2>1, <4>3 DEF Above, WithPlan
                <5>3. CASE mut.pc = "reply"
                    BY <4>1, <4>3, <5>3
                <5>4. CASE mut.pc # "reply"
                    <6>1. mut.new <= x.plan[1].snap
                        BY <1>10, <2>1, <4>3, <5>1, <5>2, <5>4, SMTT(20) DEF HeadOK, WithPlan
                    <6>2. x.plan[1].snap = tiny.key
                        BY <1>12, <2>1, <3>2 DEF WithPlan
                    <6> QED BY <1>1, <4>1, <4>3, <6>1, <6>2
                <5> QED BY <5>3, <5>4
            <4>4. Above(x.key, tiny.ver)
                BY <4>1, <4>3, SMTT(20) DEF Above
            <4> QED BY <2>1, <3>2, <4>2, <4>4, Zenon DEF FreshQuery, WithPlan, Fetching
        <3> QED BY <2>1, <3>1, <3>2, Zenon
    <2> QED BY <1>4, <1>9, <2>1, <2>2
<1>21. CASE QCopy(p)
    <2>1. /\ x.pc = "copy" /\ y.key = x.key /\ y.floor = x.floor /\ y.pc = "put" /\ y.ver = x.ver
          /\ tiny' = [key |-> Head(x.plan).snap, rows |-> RowsOf(x.plan), ver |-> x.ver]
          /\ UNCHANGED <<prov, scanCache, results>>
          /\ prov.pinned # x.ver => "tiny" \in late'
        BY <1>13, <1>21, Zenon DEF Moves, CopyMove
    <2>2. FreshQuery(y)
        BY <1>10, <2>1, Zenon DEF FreshQuery, WithPlan, Fetching
    <2>3. tiny'.key = x.plan[1].snap /\ tiny'.ver = x.ver /\ x.plan[1].snap \in 1..x.ver
        BY <1>12, <2>1, Zenon DEF WithPlan, PlanOf
    <2>4. prov.pinned = x.ver
        BY <2>1 DEF InTime
    <2>5. mut # Null /\ mut.pc = "reply" => mut.new <= prov.pinned
        BY DEF Ordered, MutOK, MutShape, Moved
    <2>6. TinyFresh'
        BY <1>1, <1>7, <2>3, <2>4, <2>5, SMTT(20) DEF TinyFresh
    <2> QED BY <1>4, <1>9, <2>1, <2>2, <2>6
<1>22. CASE QPut(p)
    <2>1. /\ x.pc = "put" /\ y.pc = "done" /\ y.rows = x.rows /\ y.floor = x.floor
          /\ results' = Put(x.q, x.key, x.rows) /\ UNCHANGED <<prov, scanCache, tiny>>
        BY <1>13, <1>22, Zenon DEF Moves, PutMove
    <2>2. x.rows = Answer(x.ver) /\ x.ver \in 1..Latest
        BY <2>1, Zenon DEF QueryExact, IsAnswer, x
    <2>3. Above(x.key, x.ver) /\ x.floor <= x.ver /\ x.key \in 1..Latest
        <3>1. x.pc \in WithPlan \union {"put"} /\ x.pc \notin {"idle", "done"}
            BY <2>1
        <3> QED BY <1>10, <1>11, <3>1, Zenon
    <2>4. FreshQuery(y)
        BY <2>1, <2>2, <2>3 DEF FreshQuery, WithPlan, Fetching
    <2>5. HasAnswer(x.rows, x.key)
        BY <2>2, <2>3, SMTT(20) DEF HasAnswer
    <2> QED BY <1>4, <1>9, <2>1, <2>3, <2>4, <2>5, SMTT(20)
<1>23. CASE QReturn(p)
    <2>1. y.pc = "idle" /\ UNCHANGED <<prov, scanCache, tiny, results, late>>
        BY <1>13, <1>23 DEF Moves, ReturnMove
    <2>2. FreshQuery(y)
        BY <2>1 DEF FreshQuery, WithPlan, Fetching
    <2> QED BY <1>4, <1>9, <2>1, <2>2
<1> QED BY <1>14, <1>15, <1>16, <1>17, <1>18, <1>19, <1>20, <1>21, <1>22, <1>23, Zenon DEF QStep

\* A step of the command line's query keeps the parts fresh.
LEMMA FreshClient ==
    ASSUME Ordered, FreshParts, Next,
           \/ CliRun \/ CliPut \/ CliReturn
           \/ \E q \in {"all", "ids"}, s \in 1..Latest, past \in BOOLEAN : CliStart(q, s, past)
    PROVE  FreshParts'
<1>1. UNCHANGED <<tiny, query, scanCache>>
    BY OrderedClient
<1>2. TinyFresh' /\ ScanFresh' /\ \A p \in Procs : FreshQuery(query[p])'
    BY <1>1, FreshFrame, Zenon
<1> SUFFICES ResultsFresh' /\ ClientFresh'
    BY <1>2 DEF FreshParts
<1>3. /\ HadResults => ResultsFresh'
      /\ \A rows : \A k \in 0..Latest : HasAnswer(rows, k) => HasAnswer(rows, k)'
      /\ \A q, rows : \A k \in 1..Latest : HasAnswer(rows, k) /\ results' = Put(q, k, rows) => ResultsFresh'
    BY FreshFrame, Zenon
<1>4. results' = results => HadResults
    BY Zenon DEF HadResults
<1>5. DiskOK /\ IsSeq(results) /\ Latest \in Nat /\ Latest >= 1 /\ ClientFresh
    BY Numbers DEF Ordered, ResultsOK, FreshParts
<1>6. ASSUME NEW q, NEW past, NEW s \in 1..Latest, CliStart(q, s, past) PROVE ResultsFresh' /\ ClientFresh'
    <2>1. /\ client'.pc \in {"run", "done"}
          /\ results' = results \/ (Found(q, s) # {} /\ results' = Touched(q, s))
        BY <1>6, ClientMoves, Zenon
    <2>2. HadResults
        BY <1>4, <1>5, <2>1, TouchedFacts DEF HadResults
    <2> QED BY <1>3, <2>1, <2>2 DEF ClientFresh
<1>7. CASE CliRun
    <2>1. client'.key = client.key /\ client.key \in 1..Latest /\ results' = results
        BY <1>7, ClientMoves, Zenon
    <2>2. PICK s \in {client.key, Latest} : client'.rows = RowsOf(Loaded(s))
        BY <1>7, ClientMoves, Zenon
    <2>3. s \in 1..Latest /\ client.key \in 0..Latest
        BY <1>5, <2>1
    <2>4. Above(client.key, s)
        <3>1. acked \in Nat /\ (mut # Null => mut.new \in 1..Latest) /\ acked <= Latest
            BY Numbers
        <3> QED BY <2>1, <3>1 DEF Above
    <2>5. RowsOf(Loaded(s)) = Answer(s)
        BY <1>5, <2>3, LoadedFacts, PlanFacts, Zenon
    <2>6. HasAnswer(client'.rows, client'.key)
        BY <2>1, <2>2, <2>3, <2>4, <2>5 DEF HasAnswer
    <2>7. ClientFresh'
        BY <1>3, <2>1, <2>3, <2>6, Zenon DEF ClientFresh
    <2> QED BY <1>3, <1>4, <2>1, <2>7
<1>8. CASE CliPut
    <2>1. /\ client.pc = "put" /\ client'.pc = "done" /\ client.key \in 1..Latest
          /\ results' = Put(client.q, client.key, client.rows)
        BY <1>8, ClientMoves
    <2>2. HasAnswer(client.rows, client.key)
        BY <1>5, <2>1 DEF ClientFresh
    <2> QED BY <1>3, <2>1, <2>2 DEF ClientFresh
<1>9. CASE CliReturn
    <2>1. client'.pc = "idle" /\ results' = results
        BY <1>9, ClientMoves, Zenon
    <2> QED BY <1>3, <1>4, <2>1 DEF ClientFresh
<1> QED BY <1>6, <1>7, <1>8, <1>9

\* Every step keeps what the caches hold at least as new as what the queries
\* that may be given it rely on, unless a base, an index or the copy was
\* overtaken.
LEMMA FreshStep ==
    ASSUME Ordered, Planned, Exact, Fresh, Next
    PROVE  Fresh'
<1> SUFFICES ASSUME InTime({"base", "index", "tiny"})' PROVE FreshParts'
    BY Zenon DEF Fresh
<1>1. InTime({"base"}) /\ InTime({"base", "index"}) /\ InTime({"base", "index", "tiny"})
    BY OrderedStep DEF InTime
<1>2. FreshParts /\ \A p \in Procs : QueryPlanned(p) /\ QueryExact(p)
    BY <1>1 DEF Fresh, Planned, Exact
<1>3. ASSUME UNCHANGED <<query, client>>, tiny' = tiny \/ tiny' = Null, ScanFresh', results' = results \/ results' = <<>>
      PROVE  FreshParts'
    <2>1. HadResults
        BY <1>3 DEF HadResults
    <2>2. TinyFresh' /\ (\A p \in Procs : FreshQuery(query[p])') /\ ResultsFresh' /\ ClientFresh'
        BY <1>2, <1>3, <2>1, FreshFrame, Zenon
    <2> QED BY <1>3, <2>2 DEF FreshParts
<1>4. scanCache' = scanCache \/ scanCache' = Null => ScanFresh'
    BY <1>2, FreshFrame, Zenon
<1>5. CASE MStep \/ Refresh
    <2>1. UNCHANGED <<query, client>>
        BY <1>5, OrderedMutation
    <2>2. (tiny' = tiny \/ tiny' = Null) /\ (results' = results \/ results' = <<>>)
        BY <1>5 DEF MStep, Refresh, MRefuse, MCheck, MInvalidate, MDrop, MBase, MInstall, MReplace, MSeed, MClear, MReply
    <2>3. ScanFresh'
        <3>1. CASE MSeed
            <4>1. mut' = [mut EXCEPT !.pc = "clear"] /\ mut # Null
                BY <3>1 DEF MSeed
            <4>2. mut'.pc = "clear"
                BY <4>1 DEF Ordered, MutOK, MutShape
            <4> QED BY <4>2 DEF ScanFresh, HeadOK
        <3>2. CASE MBase
            <4>1. scanCache' = scanCache
                BY <3>2 DEF MBase, InTime
            <4> QED BY <1>4, <4>1
        <3>3. CASE ~MSeed /\ ~MBase
            <4>1. scanCache' = scanCache \/ scanCache' = Null
                BY <1>5, <3>3 DEF MStep, Refresh, MRefuse, MCheck, MInvalidate, MDrop, MInstall, MReplace, MClear, MReply
            <4> QED BY <1>4, <4>1
        <3> QED BY <3>1, <3>2, <3>3
    <2> QED BY <1>3, <2>1, <2>2, <2>3
<1>6. ASSUME NEW api, NEW change, ForeignCommit(change) \/ MCommit(api, change) PROVE FreshParts'
    <2>1. UNCHANGED <<query, client, tiny, results, scanCache>>
        BY <1>6, OrderedCommit
    <2> QED BY <1>3, <1>4, <2>1
<1>7. CASE \/ CliRun \/ CliPut \/ CliReturn
           \/ \E q \in {"all", "ids"}, s \in 1..Latest, past \in BOOLEAN : CliStart(q, s, past)
    BY <1>2, <1>7, FreshClient, Zenon
<1>8. ASSUME NEW p \in Procs, QStep(p) \/ \E q \in {"all", "ids"} : QStart(p, q) PROVE FreshParts'
    BY <1>2, <1>8, FreshQueries, Zenon
<1>9. CASE \E change \in Changes : ForeignCommit(change)
    BY <1>6, <1>9, Zenon
<1>10. CASE \E api \in {"mutate", "tx", "batch"}, change \in Changes : MCommit(api, change)
    BY <1>6, <1>10, Zenon
<1>11. CASE \E p \in Procs : QStep(p)
    BY <1>8, <1>11, Zenon
<1>12. CASE \E p \in Procs, q \in {"all", "ids"} : QStart(p, q)
    BY <1>8, <1>12, Zenon
<1> QED BY <1>5, <1>7, <1>9, <1>10, <1>11, <1>12, Zenon DEF Next

-----------------------------------------------------------------------------
(* The invariant and what follows from it *)

\* The first snapshot, an empty cache and no query or mutation satisfy it.
LEMMA InitIInv ==
    ASSUME Init
    PROVE  IInv
<1> DEFINE f == [id |-> 1, dead |-> FALSE]
<1>1. disk = <<<<f>>>> /\ Latest = 1 /\ disk[1] = <<f>> /\ f \in Fragment
    <2>1. disk = <<<<f>>>>
        BY DEF Init
    <2>2. f \in Fragment
        BY DEF Fragment
    <2> HIDE DEF f
    <2> QED BY <2>1, <2>2 DEF Latest
<1>2. DiskOK
    <2>1. disk \in Seq({<<f>>})
        BY <1>1
    <2>2. IsSeq(disk)
        BY <2>1, SeqIsSeq
    <2>3. ManifestOK(1)
        <3>1. disk[1] \in Seq(Fragment) /\ disk[1] # <<>> /\ DOMAIN disk[1] = {1} /\ disk[1][1] = f
            BY <1>1
        <3> QED BY <3>1 DEF ManifestOK
    <2>4. \A s \in 1..1 : s = 1
        OBVIOUS
    <2> QED BY <1>1, <2>2, <2>3, <2>4 DEF DiskOK
<1>3. prov = SnapshotState(1, prov.stats) /\ prov.pinned = 1 /\ prov.stats = Len(Answer(1)) /\ acked = 1
    <2>1. prov = SnapshotState(1, Len(Answer(1))) /\ acked = 1
        BY <1>1 DEF Init
    <2> QED BY <2>1 DEF SnapshotState
<1>4. results = <<>> /\ IsSeq(results) /\ DOMAIN results = {}
    <2>1. results = <<>>
        BY DEF Init
    <2>2. results \in Seq({})
        BY <2>1
    <2>3. IsSeq(results)
        BY <2>2, SeqIsSeq
    <2> QED BY <2>1, <2>3
<1>5. query = [p \in Procs |-> Idle] /\ \A p \in Procs : query[p] = Idle
    BY DEF Init
<1>6. scanCache = Null /\ tiny = Null /\ mut = Null /\ client = NoClient
    BY DEF Init
<1>7. client.pc = "idle" /\ client.key = 0 /\ DOMAIN client = {"pc", "q", "key", "past", "rows"}
    BY <1>6 DEF NoClient
<1>8. DOMAIN Idle = QueryFields /\ Idle.pc = "idle" /\ Idle.key = 0 /\ Idle.ver = 0 /\ Idle.floor = 0
    BY Zenon DEF Idle, QueryFields
<1>9. Ordered
    <2>1. QueriesOK
        <3>1. \A p \in Procs : QueryShape(query[p])
            BY <1>1, <1>3, <1>5, <1>8 DEF QueryShape, WithPlan
        <3>2. query = [p \in Procs |-> query[p]]
            BY <1>5
        <3> QED BY <3>1, <3>2 DEF QueriesOK
    <2>2. ClientShape
        BY <1>1, <1>7 DEF ClientShape
    <2>3. ProvOK
        BY <1>1, <1>3 DEF ProvOK
    <2>4. CachesOK /\ ResultsOK /\ MutOK
        BY <1>4, <1>6 DEF CachesOK, ResultsOK, MutOK
    <2> QED BY <1>2, <2>1, <2>2, <2>3, <2>4 DEF Ordered
<1>10. Planned
    BY <1>3, <1>5, <1>6, <1>8 DEF Planned, StatsOK, ScanOK, QueryPlanned, DeltaPlanned, WithPlan
<1>11. Exact
    BY <1>4, <1>5, <1>6, <1>7, <1>8, SMTT(20) DEF Exact, TinyExact, QueryExact, ResultsExact, ClientExact
<1>12. Fresh
    BY <1>4, <1>5, <1>6, <1>7, <1>8 DEF Fresh, FreshParts, TinyFresh, ScanFresh, FreshQuery, ResultsFresh, ClientFresh, WithPlan, Fetching
<1> QED BY <1>9, <1>10, <1>11, <1>12 DEF IInv

\* Every step keeps the layers, each from the ones before it.
LEMMA StepIInv ==
    ASSUME IInv, [Next]_vars
    PROVE  IInv'
<1>1. CASE Next
    BY <1>1, OrderedStep, PlannedStep, ExactStep, FreshStep DEF IInv
<1>2. CASE UNCHANGED vars
    <2>1. Ordered'
        BY <1>2, ZenonT(30) DEF vars, IInv, Ordered, DiskOK, ManifestOK, Latest, ProvOK, CachesOK, ResultsOK, QueriesOK, QueryShape,
                    ClientShape, MutOK, MutShape, DeltaOK
    <2>2. Planned'
        BY <1>2, Zenon DEF vars, IInv, Planned, InTime, StatsOK, ScanOK, QueryPlanned, DeltaPlanned, PlanOf, Latest, Answer
    <2>3. Exact'
        BY <1>2 DEF vars, IInv, Exact, InTime, TinyExact, QueryExact, ResultsExact, ClientExact, IsAnswer, Latest, Answer
    <2>4. Fresh'
        BY <1>2, Zenon DEF vars, IInv, Fresh, FreshParts, InTime, TinyFresh, ScanFresh, HeadOK, FreshQuery, ResultsFresh, ClientFresh,
                    HasAnswer, Above, Latest, Answer
    <2> QED BY <2>1, <2>2, <2>3, <2>4 DEF IInv
<1> QED BY <1>1, <1>2

\* The provider, its caches and the result cache keep to the invariant in
\* every run.
THEOREM Invariance == Spec => []IInv
<1>1. Init => IInv
    BY InitIInv
<1>2. IInv /\ [Next]_vars => IInv'
    BY StepIInv
<1> QED BY <1>1, <1>2, PTL DEF Spec

\* Without commits of other processes the provider only moves on, though the
\* refreshes that follow a mutation are not guarded: the mutation they follow
\* is the latest commit (provider.rs repin_snapshot,
\* invalidate_to_committed_delta).
THEOREM ProviderMovesOn == Spec => PinnedNeverGoesBack
<1>1. IInv /\ [Next]_vars => [InTime({"foreign"}) => prov'.pinned >= prov.pinned]_vars
    <2> SUFFICES ASSUME IInv, Next, InTime({"foreign"}) PROVE prov'.pinned >= prov.pinned
        OBVIOUS
    <2>1. Ordered' /\ prov.pinned <= prov'.pinned
        BY OrderedStep DEF IInv, InTime
    <2> QED BY <2>1
<1> QED BY <1>1, Invariance, PTL DEF Spec, PinnedNeverGoesBack

\* Unless a query overtook a mutation between its warm check and its read of
\* the base plan, the row count and the cached plan are those of the sequences
\* they are kept under, the plan a mutation computes from its delta instead of
\* loading it included (apply_committed_delta).
THEOREM ProviderConsistency == Spec => []ProviderIsConsistent
<1>1. IInv => ProviderIsConsistent
    <2> SUFFICES ASSUME IInv, InTime({"base"})
                 PROVE  /\ prov.stats # Null => prov.stats = Len(Answer(prov.pinned))
                        /\ scanCache # Null => RowsOf(scanCache.plan) = Answer(scanCache.seq)
        BY DEF ProviderIsConsistent
    <2>1. StatsOK /\ ScanOK /\ DiskOK
        BY DEF IInv, Planned, Ordered
    <2> QED BY <2>1, PlanFacts, Zenon DEF StatsOK, ScanOK
<1> QED BY <1>1, Invariance, PTL

\* A time-travel query gets the rows of the snapshot it names, whoever put
\* them into the result cache (result_cache.rs key, main.rs run_query).
THEOREM ExactHistory == Spec => []HistoryIsExact
<1>1. IInv => HistoryIsExact
    <2> SUFFICES ASSUME IInv, InTime({"base", "index", "key"}), client.pc = "done" PROVE client.rows = Answer(client.key)
        BY DEF HistoryIsExact
    <2>1. InTime({"base", "index"}) /\ InTime({"key"})
        BY DEF InTime
    <2> QED BY <2>1 DEF IInv, Exact, ClientExact, IsAnswer
<1> QED BY <1>1, Invariance, PTL

\* A query answers with the rows of one snapshot, and with one that has
\* everything acknowledged before it began, for any number of queries and
\* mutations and wherever the plan and the rows came from (provider.rs
\* current_scan_plan, the tiny-table copy, the result cache).
THEOREM SnapshotAnswers == Spec => []AnswersAreSnapshots
<1>1. IInv => AnswersAreSnapshots
    <2> SUFFICES ASSUME IInv, InTime({"base", "tiny", "index"}), NEW p \in Procs, query[p].pc = "done"
                 PROVE  \E s \in query[p].floor..Latest : query[p].rows = Answer(s)
        BY DEF AnswersAreSnapshots
    <2>1. FreshQuery(query[p]) /\ QueryShape(query[p]) /\ Latest \in Nat /\ acked \in Nat
        <3>1. InTime({"base", "index", "tiny"})
            BY DEF InTime
        <3>2. Latest \in Nat /\ acked \in Nat
            BY Numbers, SMTT(20) DEF IInv
        <3> QED BY <3>1, <3>2 DEF IInv, Fresh, FreshParts, Ordered, QueriesOK
    <2>2. PICK s \in 1..Latest : query[p].floor <= s /\ query[p].rows = Answer(s)
        BY <2>1, Zenon DEF FreshQuery
    <2>3. query[p].floor \in Nat
        BY <2>1 DEF QueryShape
    <2>4. s \in query[p].floor..Latest
        BY <2>1, <2>2, <2>3
    <2> QED BY <2>2, <2>4
<1> QED BY <1>1, Invariance, PTL
=============================================================================
