---------------------------- MODULE QueryService ----------------------------
(***************************************************************************)
(* Queries against a table that is being changed: the snapshot a           *)
(* TableProvider is pinned to, its scan-plan cache and tiny-table copy     *)
(* (icefalldb-query/src/provider.rs), the on-disk result cache             *)
(* (result_cache.rs), and the daemon, the Python connection and the CLI    *)
(* that share them (icefalldb-server/src/server.rs, mutate_handler.rs,     *)
(* icefalldb-query-py/src/lib.rs, icefalldb-cli/src/main.rs).              *)
(*                                                                         *)
(* A process steps from one lock acquisition or file read to the next.  A  *)
(* fragment holds one row, named by the fragment; "dead" is its deletion   *)
(* vector.  The query "all" reads every row and may be served from the     *)
(* tiny-table copy; "ids" projects _rowid, so that it cannot, and filters  *)
(* on an indexed column that every row matches.                            *)
(***************************************************************************)
EXTENDS Integers, Sequences, FiniteSets

CONSTANTS
    Null,
    Procs,          \* the concurrent queries of the daemon or connection
    Settings,       \* what happens around them, see Init
    TinyRows,       \* tiny_table_cache_threshold_rows
    Budget,         \* max_bytes of the result cache; a row is a byte
    MaxEntry,       \* the largest result that is kept: max_bytes / 8
    MaxTries        \* the retries of current_scan_plan (16 in the code)

VARIABLES
    setting,    \* [service, procs, queries, asks, changes, commits, foreign, cli]
    asked,      \* the queries so far, at most setting.asks
    disk,       \* the manifests by sequence: the fragments [id, dead] of each
    prov,       \* SnapshotState: [pinned, indexes, stats]
    scanCache,  \* Null or [seq, plan]
    tiny,       \* tiny_table_cache: Null or [key, rows], and the "ver" it was made from
    results,    \* the result cache, least recently used entry first
    query,      \* the queries that run, by process
    client,     \* a query of the CLI, a process of its own
    mut,        \* the mutation that holds mutate_lock (server) or Null
    acked,      \* the newest sequence a mutation reported to its caller
    late        \* the overtakings that have happened, see below

vars == <<setting, asked, disk, prov, scanCache, tiny, results, query, client, mut, acked, late>>

Latest == Len(disk)

LiveIds(fragments) ==
    LET live == SelectSeq(fragments, LAMBDA f: ~f.dead)
    IN [i \in DOMAIN live |-> live[i].id]

(* The rows of the snapshot s: what either query asks for. *)
Answer(s) == LiveIds(disk[s])

(* The fragments a plan reads and the rows they hold.  A row group of a    *)
(* plan also has the snapshot it was planned from.                         *)
Fragments(plan) == [i \in DOMAIN plan |-> [id |-> plan[i].id, dead |-> plan[i].dead]]

RowsOf(plan) == LiveIds(Fragments(plan))

(* A plan loaded from the manifest s. *)
Loaded(s) == [i \in DOMAIN disk[s] |-> [id |-> disk[s][i].id, dead |-> disk[s][i].dead, snap |-> s]]

(* build_scan_plan_at: the plan of a snapshot that is asked for by number. *)
ScanPlanAt(s) == Loaded(s)

SnapshotState(s, stats) == [pinned |-> s, indexes |-> s, stats |-> stats]

-----------------------------------------------------------------------------
(* The result cache *)

Entry(q, s, rows) == [q |-> q, seq |-> s, rows |-> rows]

(* Wrong on purpose: the key names the query only. *)
FoundAnySnapshot(q, s) == {i \in DOMAIN results : results[i].q = q}

Found(q, s) == {i \in DOMAIN results : results[i].q = q /\ results[i].seq = s}

(* The other entries: a key names one file. *)
Others(q, s) ==
    LET i == CHOOSE i \in Found(q, s) : TRUE
    IN IF Found(q, s) = {} THEN results
       ELSE SubSeq(results, 1, i - 1) \o SubSeq(results, i + 1, Len(results))

Cached(q, s) == results[CHOOSE i \in Found(q, s) : TRUE]

(* get: a hit makes the entry the most recently used. *)
Touched(q, s) == Append(Others(q, s), Cached(q, s))

Size(entries) ==
    LET sum[i \in 0 .. Len(entries)] == IF i = 0 THEN 0 ELSE sum[i - 1] + Len(entries[i].rows)
    IN sum[Len(entries)]

(* enforce_budget: past the budget the oldest go, down to 90% of it or     *)
(* until there is none left.                                               *)
EnforceBudget(entries) ==
    LET kept(n) == SubSeq(entries, n + 1, Len(entries))
        enough(n) == n = Len(entries) \/ Size(kept(n)) <= Budget - Budget \div 10
        first(n) == enough(n) /\ \A m \in 0..(n - 1) : ~enough(m)
        dropped == CHOOSE n \in 0..Len(entries) : \A m \in 0..Len(entries) : first(m) => m = n
    IN IF Budget = 0 \/ Size(entries) <= Budget THEN entries ELSE kept(dropped)

(* put: nothing for a result without batches or one that is too big. *)
Put(q, s, rows) ==
    IF rows = <<>> \/ Len(rows) > MaxEntry THEN results
    ELSE EnforceBudget(Append(Others(q, s), Entry(q, s, rows)))

-----------------------------------------------------------------------------
(* Queries of the daemon and of the Python connection.  A query is a       *)
(* record with the program counter "pc", the pinned sequence "key" of its  *)
(* cache key, the sequence "floor" acknowledged when it began, and what it *)
(* has read so far: the sequence "pinned", the plan with the sequence      *)
(* "ver" it stands for, and the rows.                                      *)

Idle == [pc |-> "idle", q |-> Null, key |-> 0, floor |-> 0, pinned |-> 0, ver |-> 0, plan |-> <<>>,
         rows |-> <<>>, tries |-> 0]

Running(p) == query[p].pc \in {"load", "repin", "reread", "store", "snap", "tiny", "copy"}

(* The Python connection runs a query, and a mutation, under the lock of   *)
(* its context; the daemon's queries take none.                            *)
Unlocked == setting.service = "python" => mut = Null /\ \A p \in Procs : ~Running(p)

Ask(q) == q \in setting.queries /\ asked < setting.asks /\ asked' = asked + 1

(* collect_snapshots / read_snapshots: a result is kept under the sequence *)
(* the provider is pinned to.                                              *)
CacheKey == prov.pinned

QStart(p, q) ==
    /\ query[p].pc = "idle" /\ Unlocked
    /\ Cardinality({r \in Procs : query[r].pc # "idle"}) < setting.procs
    /\ Ask(q)
    /\ LET key == CacheKey
           begun == [Idle EXCEPT !.q = q, !.key = key, !.floor = acked]
       IN IF Found(q, key) # {}
          THEN /\ results' = Touched(q, key)
               /\ query' = [query EXCEPT ![p] = [begun EXCEPT !.pc = "done", !.rows = Cached(q, key).rows]]
          ELSE /\ query' = [query EXCEPT ![p] = [begun EXCEPT !.pc = "read"]]
               /\ UNCHANGED results
    /\ UNCHANGED <<setting, disk, prov, scanCache, tiny, client, mut, acked, late>>

(* current_scan_plan reads the pinned sequence and the scan cache ... *)
PlanOrMiss(q) ==
    IF scanCache # Null /\ scanCache.seq = prov.pinned
    THEN [q EXCEPT !.pc = "snap", !.ver = scanCache.seq, !.plan = scanCache.plan]
    ELSE [q EXCEPT !.pc = "load", !.pinned = prov.pinned]

QRead(p) ==
    /\ query[p].pc = "reread" \/ (query[p].pc = "read" /\ Unlocked)
    /\ query' = [query EXCEPT ![p] = PlanOrMiss(@)]
    /\ UNCHANGED <<setting, asked, disk, prov, scanCache, tiny, results, client, mut, acked, late>>

(* ... on a miss the latest snapshot ... *)
QLoad(p) ==
    /\ query[p].pc = "load"
    /\ query' = [query EXCEPT ![p].pc = IF query[p].tries = MaxTries THEN "snap" ELSE "repin",
                              ![p].ver = Latest, ![p].plan = Loaded(Latest)]
    /\ UNCHANGED <<setting, asked, disk, prov, scanCache, tiny, results, client, mut, acked, late>>

(* Wrong on purpose: whatever was loaded is installed. *)
RepinnedAlways(ver) == SnapshotState(ver, Len(Answer(ver)))

(* repin_snapshot: only ever forward. *)
Repinned(ver) == IF ver >= prov.pinned THEN SnapshotState(ver, Len(Answer(ver))) ELSE prov

(* ... re-pins the provider to it, and retries where that was overtaken. *)
AfterRepin(q, pinned) ==
    IF pinned = q.ver THEN [q EXCEPT !.pc = "store"]
    ELSE IF q.tries + 1 = MaxTries THEN [q EXCEPT !.pc = "load", !.tries = MaxTries]
    ELSE [q EXCEPT !.pc = "reread", !.tries = q.tries + 1]

QRepin(p) ==
    /\ query[p].pc = "repin"
    /\ prov' = IF query[p].ver # query[p].pinned THEN Repinned(query[p].ver) ELSE prov
    /\ query' = [query EXCEPT ![p] = AfterRepin(@, prov'.pinned)]
    /\ UNCHANGED <<setting, asked, disk, scanCache, tiny, results, client, mut, acked, late>>

QStore(p) ==
    /\ query[p].pc = "store"
    /\ scanCache' = [seq |-> query[p].ver, plan |-> query[p].plan]
    /\ query' = [query EXCEPT ![p].pc = "snap"]
    /\ UNCHANGED <<setting, asked, disk, prov, tiny, results, client, mut, acked, late>>

Ran(q, rows) == [q EXCEPT !.pc = "put", !.rows = rows, !.plan = <<>>, !.pinned = 0, !.tries = 0]

(* The ids the index of the snapshot s has. *)
Indexed(s) == {disk[s][i].id : i \in {j \in DOMAIN disk[s] : ~disk[s][j].dead}}

(* The index of the snapshot s leaves out the row groups with no id in it; *)
(* no row of theirs is read.  It is consulted only when there is more than *)
(* one row group to choose from.                                           *)
IndexPruned(plan, s) ==
    IF Len(plan) > 1 THEN [i \in DOMAIN plan |-> [plan[i] EXCEPT !.dead = @ \/ plan[i].id \notin Indexed(s)]] ELSE plan

(* scan reads the indexes after the plan and, when the rows cannot come    *)
(* from the tiny-table copy, reads the row groups they leave.              *)
QSnap(p) ==
    /\ query[p].pc = "snap"
    /\ LET plan == query[p].plan
       IN IF query[p].q = "ids"
          THEN /\ query' = [query EXCEPT ![p] = Ran(@, RowsOf(IndexPruned(plan, prov.indexes)))]
               /\ late' = IF prov.indexes # query[p].ver THEN late \union {"index"} ELSE late
          ELSE /\ query' = [query EXCEPT ![p] = IF plan = <<>> THEN Ran(@, <<>>) ELSE [@ EXCEPT !.pc = "tiny"]]
               /\ UNCHANGED late
    /\ UNCHANGED <<setting, asked, disk, prov, scanCache, tiny, results, client, mut, acked>>

(* The copy is keyed by the snapshot of the first row group. *)
QTiny(p) ==
    /\ query[p].pc = "tiny"
    /\ LET plan == query[p].plan
           hit == tiny # Null /\ tiny.key = Head(plan).snap
       IN /\ query' = [query EXCEPT ![p] = IF hit THEN [Ran(@, tiny.rows) EXCEPT !.ver = tiny.ver]
                                           ELSE IF Len(plan) <= TinyRows THEN [@ EXCEPT !.pc = "copy"]
                                           ELSE Ran(@, RowsOf(plan))]
          /\ late' = IF hit /\ mut # Null /\ mut.pc = "clear" THEN late \union {"tiny"} ELSE late
    /\ UNCHANGED <<setting, asked, disk, prov, scanCache, tiny, results, client, mut, acked>>

QCopy(p) ==
    /\ query[p].pc = "copy"
    /\ tiny' = [key |-> Head(query[p].plan).snap, rows |-> RowsOf(query[p].plan), ver |-> query[p].ver]
    /\ query' = [query EXCEPT ![p] = Ran(@, tiny'.rows)]
    /\ late' = IF prov.pinned # query[p].ver THEN late \union {"tiny"} ELSE late
    /\ UNCHANGED <<setting, asked, disk, prov, scanCache, results, client, mut, acked>>

QPut(p) ==
    /\ query[p].pc = "put"
    /\ results' = Put(query[p].q, query[p].key, query[p].rows)
    /\ late' = IF query[p].key # query[p].ver THEN late \union {"key"} ELSE late
    /\ query' = [query EXCEPT ![p] = [@ EXCEPT !.pc = "done", !.key = 0, !.ver = 0]]
    /\ UNCHANGED <<setting, asked, disk, prov, scanCache, tiny, client, mut, acked>>

QReturn(p) ==
    /\ query[p].pc = "done"
    /\ query' = [query EXCEPT ![p] = Idle]
    /\ UNCHANGED <<setting, asked, disk, prov, scanCache, tiny, results, client, mut, acked, late>>

(* refresh_providers: the Python connection opens a provider afresh. *)
Refresh ==
    /\ setting.service = "python" /\ Unlocked
    /\ prov # SnapshotState(Latest, Len(Answer(Latest)))
    /\ prov' = SnapshotState(Latest, Len(Answer(Latest)))
    /\ scanCache' = Null
    /\ tiny' = Null
    /\ UNCHANGED <<setting, asked, disk, results, query, client, mut, acked, late>>

-----------------------------------------------------------------------------
(* Mutations.  "api" is /mutate, /tx/commit or a batch of statements;      *)
(* "prev" and "new" are the sequences of its delta.                        *)

Mutation(api, change) == [api |-> api, change |-> change, prev |-> Latest, new |-> Latest + 1, pc |-> "check", plan |-> <<>>]

Changes == {"insert", "delete", "update"}

NewFragment == [id |-> Latest + 1, dead |-> FALSE]

(* The fragment a delete or an update finds its row in. *)
Victim(fragments) == CHOOSE i \in DOMAIN fragments : ~fragments[i].dead /\ \A j \in 1..(i - 1) : fragments[j].dead

Changed(change, fragments) ==
    LET killed == [fragments EXCEPT ![Victim(fragments)].dead = TRUE]
    IN CASE change = "insert" -> Append(fragments, NewFragment)
         [] change = "delete" -> killed
         [] OTHER -> Append(killed, NewFragment)

Applies(change) == change = "insert" \/ Answer(Latest) # <<>>

CommitTo(change) == disk' = Append(disk, Changed(change, disk[Latest]))

(* Another process commits. *)
ForeignCommit(change) ==
    /\ setting.foreign
    /\ Latest <= setting.commits /\ change \in setting.changes /\ Applies(change)
    /\ CommitTo(change)
    /\ late' = late \union {"foreign"}
    /\ UNCHANGED <<setting, asked, prov, scanCache, tiny, results, query, client, mut, acked>>

MCommit(api, change) ==
    /\ mut = Null /\ Unlocked
    /\ Latest <= setting.commits /\ change \in setting.changes /\ Applies(change)
    /\ (api = "tx") <=> (change = "insert")
    /\ api = "tx" => setting.service = "server"
    /\ api = "batch" => setting.service = "python"
    /\ CommitTo(change)
    /\ mut' = [Mutation(api, change) EXCEPT !.pc = IF api = "batch" THEN "replace" ELSE "check"]
    /\ UNCHANGED <<setting, asked, prov, scanCache, tiny, results, query, client, acked, late>>

(* apply_committed_delta refuses a delta that does not start where the     *)
(* provider is pinned: the caller gets an error for what is committed.     *)
MRefuse ==
    /\ mut # Null /\ mut.pc = "check" /\ prov.pinned # mut.prev
    /\ mut' = Null
    /\ UNCHANGED <<setting, asked, disk, prov, scanCache, tiny, results, query, client, acked, late>>

(* A provider with the plan of its snapshot at hand is warm. *)
MCheck ==
    /\ mut # Null /\ mut.pc = "check" /\ prov.pinned = mut.prev
    /\ mut' = [mut EXCEPT !.pc = IF scanCache # Null /\ scanCache.seq = prov.pinned THEN "base" ELSE "cold"]
    /\ UNCHANGED <<setting, asked, disk, prov, scanCache, tiny, results, query, client, acked, late>>

(* invalidate_to_committed_delta *)
MInvalidate ==
    /\ mut # Null /\ mut.pc = "cold"
    /\ prov' = SnapshotState(mut.new, Null)
    /\ mut' = [mut EXCEPT !.pc = "drop"]
    /\ UNCHANGED <<setting, asked, disk, scanCache, tiny, results, query, client, acked, late>>

MDrop ==
    /\ mut # Null /\ mut.pc = "drop"
    /\ scanCache' = Null
    /\ mut' = [mut EXCEPT !.pc = "clear"]
    /\ UNCHANGED <<setting, asked, disk, prov, tiny, results, query, client, acked, late>>

(* Wrong on purpose: the deletion vectors stay as they were. *)
WithDeltaAppended(plan) ==
    IF mut.change = "delete" THEN plan ELSE Append(plan, [id |-> mut.new, dead |-> FALSE, snap |-> mut.new])

(* The delta on top of a plan: deletion vectors replaced, the new row      *)
(* group appended, the others as they were.                                *)
WithDelta(plan) ==
    LET after == disk[mut.new]
        isDead(id) == \E i \in DOMAIN after : after[i].id = id /\ after[i].dead
        kept == [i \in DOMAIN plan |-> [plan[i] EXCEPT !.dead = isDead(plan[i].id)]]
    IN IF mut.change = "delete" THEN kept
       ELSE Append(kept, [id |-> mut.new, dead |-> FALSE, snap |-> mut.new])

(* The base of the new plan, through current_scan_plan: the cached one     *)
(* unless a query replaced it after the check.                             *)
MBase ==
    /\ mut # Null /\ mut.pc = "base"
    /\ LET hit == scanCache # Null /\ scanCache.seq = prov.pinned
       IN /\ mut' = [mut EXCEPT !.pc = "install", !.plan = WithDelta(IF hit THEN scanCache.plan ELSE Loaded(Latest))]
          /\ prov' = IF hit THEN prov ELSE Repinned(Latest)
          /\ scanCache' = IF hit THEN scanCache ELSE [seq |-> Latest, plan |-> Loaded(Latest)]
          /\ late' = IF hit /\ prov.pinned = mut.prev THEN late ELSE late \union {"base"}
    /\ UNCHANGED <<setting, asked, disk, tiny, results, query, client, acked>>

MInstall ==
    /\ mut # Null /\ mut.pc = "install"
    /\ prov' = SnapshotState(mut.new, Len(RowsOf(mut.plan)))
    /\ mut' = [mut EXCEPT !.pc = "seed"]
    /\ UNCHANGED <<setting, asked, disk, scanCache, tiny, results, query, client, acked, late>>

(* replace_snapshot_from: the state of the provider the batch ran on.  Its *)
(* row groups keep the snapshot each was loaded with; here the plan is as  *)
(* if loaded anew.  A query could tell them apart only while the batch     *)
(* runs, and the lock of the Python context keeps it out.                  *)
MReplace ==
    /\ mut # Null /\ mut.pc = "replace"
    /\ prov' = SnapshotState(mut.new, Len(Answer(mut.new)))
    /\ mut' = [mut EXCEPT !.pc = "seed", !.plan = Loaded(mut.new)]
    /\ UNCHANGED <<setting, asked, disk, scanCache, tiny, results, query, client, acked, late>>

MSeed ==
    /\ mut # Null /\ mut.pc = "seed"
    /\ scanCache' = [seq |-> mut.new, plan |-> mut.plan]
    /\ mut' = [mut EXCEPT !.pc = "clear"]
    /\ UNCHANGED <<setting, asked, disk, prov, tiny, results, query, client, acked, late>>

(* Wrong on purpose: the tiny-table copy outlives the mutation. *)
MClearNothing ==
    /\ mut # Null /\ mut.pc = "clear"
    /\ mut' = [mut EXCEPT !.pc = "reply"]
    /\ UNCHANGED <<setting, asked, disk, prov, scanCache, tiny, results, query, client, acked, late>>

MClear ==
    /\ mut # Null /\ mut.pc = "clear"
    /\ tiny' = Null
    /\ mut' = [mut EXCEPT !.pc = "reply"]
    /\ UNCHANGED <<setting, asked, disk, prov, scanCache, results, query, client, acked, late>>

(* /mutate clears the result cache before it answers. *)
MReply ==
    /\ mut # Null /\ mut.pc = "reply"
    /\ results' = IF setting.service = "server" /\ mut.api = "mutate" THEN <<>> ELSE results
    /\ acked' = mut.new
    /\ mut' = Null
    /\ UNCHANGED <<setting, asked, disk, prov, scanCache, tiny, query, client, late>>

-----------------------------------------------------------------------------
(* A query of the CLI: a provider of its own, pinned when it is opened to  *)
(* the latest snapshot or to the one asked for.                            *)

NoClient == [pc |-> "idle", q |-> Null, key |-> 0, past |-> FALSE, rows |-> <<>>]

CliStart(q, s, past) ==
    /\ setting.cli /\ client.pc = "idle"
    /\ Ask(q)
    /\ ~past => s = Latest
    /\ LET begun == [NoClient EXCEPT !.q = q, !.key = s, !.past = past]
       IN IF Found(q, s) # {}
          THEN /\ results' = Touched(q, s)
               /\ client' = [begun EXCEPT !.pc = "done", !.rows = Cached(q, s).rows]
          ELSE /\ client' = [begun EXCEPT !.pc = "run"]
               /\ UNCHANGED results
    /\ UNCHANGED <<setting, disk, prov, scanCache, tiny, query, mut, acked, late>>

(* The provider of a live query loads whatever is latest when it scans. *)
CliRun ==
    /\ client.pc = "run"
    /\ LET ver == IF client.past THEN client.key ELSE Latest
           plan == IF client.past THEN ScanPlanAt(client.key) ELSE Loaded(Latest)
       IN /\ client' = [client EXCEPT !.pc = "put", !.rows = RowsOf(plan)]
          /\ late' = IF ver # client.key THEN late \union {"key"} ELSE late
    /\ UNCHANGED <<setting, asked, disk, prov, scanCache, tiny, results, query, mut, acked>>

CliPut ==
    /\ client.pc = "put"
    /\ results' = Put(client.q, client.key, client.rows)
    /\ client' = [client EXCEPT !.pc = "done"]
    /\ UNCHANGED <<setting, asked, disk, prov, scanCache, tiny, query, mut, acked, late>>

CliReturn ==
    /\ client.pc = "done"
    /\ client' = NoClient
    /\ UNCHANGED <<setting, asked, disk, prov, scanCache, tiny, results, query, mut, acked, late>>

-----------------------------------------------------------------------------
Init ==
    /\ setting \in Settings
    /\ asked = 0
    /\ disk = <<<<[id |-> 1, dead |-> FALSE]>>>>
    /\ prov = SnapshotState(Latest, Len(Answer(Latest)))
    /\ scanCache = Null
    /\ tiny = Null
    /\ results = <<>>
    /\ query = [p \in Procs |-> Idle]
    /\ client = NoClient
    /\ mut = Null
    /\ acked = 1
    /\ late = {}

QStep(p) ==
    QRead(p) \/ QLoad(p) \/ QRepin(p) \/ QStore(p) \/ QSnap(p) \/ QTiny(p) \/ QCopy(p) \/ QPut(p) \/ QReturn(p)

MStep == MRefuse \/ MCheck \/ MInvalidate \/ MDrop \/ MBase \/ MInstall \/ MReplace \/ MSeed \/ MClear \/ MReply

Next ==
    \/ \E p \in Procs : QStep(p)
    \/ \E p \in Procs, q \in {"all", "ids"} : QStart(p, q)
    \/ MStep
    \/ \E api \in {"mutate", "tx", "batch"}, change \in Changes : MCommit(api, change)
    \/ \E change \in Changes : ForeignCommit(change)
    \/ \E q \in {"all", "ids"}, s \in 1..Latest, past \in BOOLEAN : CliStart(q, s, past)
    \/ Refresh
    \/ CliRun \/ CliPut \/ CliReturn

Spec == Init /\ [][Next]_vars

-----------------------------------------------------------------------------
(* The overtakings that spoil an answer.                                   *)
(*   "base":  a query moved the provider on, or replaced the scan cache,   *)
(*            between the warm check of a mutation and its read of the     *)
(*            base plan                                                    *)
(*   "tiny":  a query stored its tiny-table copy after a mutation had      *)
(*            moved the provider on, or took the copy while a mutation had *)
(*            seeded the scan cache and not yet dropped it                 *)
(*   "index": a query read the indexes of a later snapshot than its plan   *)
(*   "key":   a query computed its result from another snapshot than the   *)
(*            one its cache key names: a later plan, or the tiny-table     *)
(*            copy of a later plan                                         *)
(* "foreign" is a commit of another process.                               *)

InTime(overtakings) == late \intersect overtakings = {}

(* A query answers with the rows of one snapshot, and with one that has    *)
(* everything acknowledged before it began, whatever commits, refreshes    *)
(* and cache hits it runs among (provider.rs current_scan_plan and         *)
(* apply_committed_delta; mutate_handler.rs: "so follow-up SELECTs see the *)
(* new snapshot").                                                         *)
AnswersAreSnapshots ==
    InTime({"base", "tiny", "index"}) =>
        \A p \in Procs : query[p].pc = "done" => \E s \in query[p].floor..Latest : query[p].rows = Answer(s)

(* A time-travel query gets the rows of the snapshot it names, though the  *)
(* result cache it reads is filled by every service (result_cache.rs key;  *)
(* main.rs run_query; lib.rs read_snapshots).                              *)
HistoryIsExact ==
    InTime({"base", "index", "key"}) =>
        (client.pc = "done" /\ client.past => client.rows = Answer(client.key))

(* The provider's row count and the plan it caches are those of the        *)
(* sequences they are kept under (provider.rs repin_snapshot,              *)
(* apply_committed_delta, replace_snapshot_from).                          *)
ProviderIsConsistent ==
    InTime({"base"}) =>
        /\ prov.stats # Null => prov.stats = Len(Answer(prov.pinned))
        /\ scanCache # Null => RowsOf(scanCache.plan) = Answer(scanCache.seq)

(* Without commits of other processes the provider only moves on: "never   *)
(* roll back over a concurrently-applied newer state" (provider.rs         *)
(* repin_snapshot), though two of its refreshes are not guarded.           *)
PinnedNeverGoesBack == [][InTime({"foreign"}) => prov'.pinned >= prov.pinned]_vars
=============================================================================
