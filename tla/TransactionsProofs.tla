------------------------- MODULE TransactionsProofs -------------------------
(***************************************************************************)
(* Proofs about Transactions, for every set of transactions, every number  *)
(* of tables, every setting and every number of crashes and commits of     *)
(* other processes.                                                        *)
(***************************************************************************)
EXTENDS Transactions, WellFoundedInduction, TLAPS

-----------------------------------------------------------------------------
(***************************************************************************)
(* The inductive invariant.                                                *)
(***************************************************************************)

TypeOK ==
    /\ setting \in Settings
    /\ copies \in [Batches -> Nat] /\ seq \in [Tables -> Nat]
    /\ up \in {"serving", "down", "recovering"} /\ todo \subseteq Batches
    /\ active \subseteq Txns /\ buffer \in [Txns -> SUBSET Tables]
    /\ ins \in [Txns -> Tables \cup {0}]
    /\ mutateLock \in Txns \cup {None} /\ locks \in [Tables -> Txns \cup {None}]
    /\ cpc \in [Txns -> {"idle", "lock", "write", "log", "refresh"}]
    /\ left \in [Txns -> SUBSET Tables] /\ prev \in [Batches -> Nat]
    /\ rpc \subseteq Txns
    /\ pinned \in [Tables -> Nat] /\ warm \in [Tables -> BOOLEAN]
    /\ acked \subseteq Batches /\ refused \subseteq Batches
    /\ reply \in [Txns -> {None, "committed", "rolledBack", "error"}]
    /\ restarts \in Nat /\ external \in Nat

Begun(tx) == Entry("begin", tx) \in log
Logged(tx) == Entry("commit", tx) \in log

\* The transaction is in the hands of one request of the running server.
InHand(tx) == tx \in active \/ tx \in rpc \/ cpc[tx] # "idle"

\* It has not come as far as writing a table, or never will.
Unwritten(tx) ==
    ~Begun(tx) \/ tx \in active \/ tx \in rpc \/ reply[tx] = "rolledBack" \/ cpc[tx] = "lock"

\* The tables its commit has written so far.
Written(tx) == IF cpc[tx] = "write" THEN buffer[tx] \ left[tx] ELSE buffer[tx]

\* Only one request has the transaction, in the server's present life, and that
\* one knows what the client was told is in it.
OwnerOK(tx) ==
    /\ InHand(tx) => up = "serving" /\ Begun(tx) /\ reply[tx] = None
    /\ tx \in active => tx \notin rpc /\ cpc[tx] = "idle"
    /\ cpc[tx] # "idle" => tx \notin rpc /\ mutateLock = tx
    /\ ~Begun(tx) => Acked(tx) = {} /\ buffer[tx] = {} /\ reply[tx] = None
    /\ tx \in active \/ cpc[tx] # "idle" => buffer[tx] = Acked(tx)

\* What the tables and the log have of it at each step of the commit.
StageOK(tx) ==
    /\ Unwritten(tx) => Held(tx) = {} /\ ~Logged(tx)
    /\ cpc[tx] \in {"lock", "write", "refresh"} => left[tx] # {} /\ left[tx] \subseteq buffer[tx]
    /\ cpc[tx] = "log" => left[tx] = buffer[tx]
    /\ cpc[tx] \in {"write", "log", "refresh"} => Held(tx) = Written(tx)
    /\ cpc[tx] \in {"write", "log"} => ~Logged(tx)
    /\ cpc[tx] = "refresh" => Logged(tx)
    /\ reply[tx] = "committed" => Acked(tx) \subseteq Held(tx)

\* Recovery is over when the server serves, and applies what is committed.
ServerOK ==
    /\ up = "serving" => todo = {}
    /\ \A b \in todo : Logged(b[1])
    /\ restarts = 0 => up = "serving"

\* Nothing is written twice before a restart.
CountOK == restarts = 0 => \A b \in Batches : copies[b] <= 1

\* With no commit that stops half way, one that is over wrote all or nothing.
AtomicOK ==
    Faults \subseteq {"external"} =>
        /\ up = "serving"
        /\ \A tx \in Txns : cpc[tx] = "idle" => Held(tx) = {} \/ Held(tx) = Acked(tx)

\* The tables written by a commit whose deltas the providers have not seen.
Ahead(tx) ==
    CASE cpc[tx] \in {"write", "log"} -> Written(tx)
      [] cpc[tx] = "refresh" -> left[tx]
      [] OTHER -> {}

\* With nothing else moving them, provider and table are apart only where a
\* commit has written and not yet refreshed, and then by its delta.
PinnedOK ==
    "query" \notin Kinds /\ Faults = {} =>
        /\ \A tx \in Txns : reply[tx] # "error"
        /\ \A t \in Tables : (\A tx \in Txns : t \notin Ahead(tx)) => pinned[t] = seq[t]
        /\ \A tx \in Txns : \A t \in Ahead(tx) :
              pinned[t] = prev[<<tx, t>>] /\ seq[t] = prev[<<tx, t>>] + 1

IInv ==
    /\ TypeOK /\ ServerOK /\ CountOK /\ AtomicOK /\ PinnedOK
    /\ \A tx \in Txns : OwnerOK(tx) /\ StageOK(tx)

-----------------------------------------------------------------------------
(***************************************************************************)
(* What the operators of the model return.                                 *)
(***************************************************************************)

\* A set of table numbers that is not empty has a least one, and Min is it.
LEMMA MinIsMember ==
    ASSUME NEW T \in SUBSET Tables, T # {}
    PROVE  Min(T) \in T
<1> DEFINE R == OpToRel(<, Nat)
<1>1. IsWellFoundedOn(R, Nat)
  BY NatLessThanWellFounded, Zenon
<1>2. \A x, y \in Nat : y < x => <<y, x>> \in R
  BY Zenon DEF OpToRel
<1>3. T \subseteq Nat
  BY TransactionsAssumption DEF Tables
<1> HIDE DEF R
<1>4. PICK t \in T : \A u \in T : ~(<<u, t>> \in R)
  BY <1>1, <1>3, WFMin, Zenon
<1>5. \A u \in T : t <= u
  <2> SUFFICES ASSUME NEW u \in T PROVE t <= u
    OBVIOUS
  <2>1. t \in Nat /\ u \in Nat /\ ~(u < t)
    BY <1>2, <1>3, <1>4, Zenon
  <2> QED BY <2>1
<1> QED BY <1>5, Zenon DEF Min

\* Entries of the log differ when their kinds or their transactions do.
LEMMA EntryFacts ==
    ASSUME NEW a, NEW b, NEW x, NEW y, NEW t
    PROVE  /\ Entry(a, x) = Entry(b, y) <=> a = b /\ x = y
           /\ Entry(a, x) # InsertEntry(y, t)
<1>1. Entry(a, x).op = a /\ Entry(a, x).tx = x /\ Entry(b, y).op = b /\ Entry(b, y).tx = y
  BY Zenon DEF Entry
<1>2. DOMAIN Entry(a, x) = {"op", "tx"} /\ DOMAIN InsertEntry(y, t) = {"op", "tx", "table"}
  BY Zenon DEF Entry, InsertEntry
<1>3. "table" \notin DOMAIN Entry(a, x) /\ "table" \in DOMAIN InsertEntry(y, t)
  BY <1>2, Zenon
<1> QED BY <1>1, <1>3 DEF Entry

\* A transaction the step does not concern keeps its part of the invariant.
LEMMA Frame ==
    ASSUME NEW x \in Txns, OwnerOK(x), StageOK(x),
           x \in active' <=> x \in active, x \in rpc' <=> x \in rpc,
           cpc'[x] = cpc[x], left'[x] = left[x], buffer'[x] = buffer[x],
           reply'[x] = reply[x], Held(x)' = Held(x), Acked(x)' = Acked(x),
           Begun(x)' <=> Begun(x), Logged(x)' <=> Logged(x),
           up' = up \/ ~InHand(x), mutateLock = x => mutateLock' = x
    PROVE  OwnerOK(x)' /\ StageOK(x)'
<1>1. OwnerOK(x)'
  BY Zenon DEF OwnerOK, InHand
<1>2. StageOK(x)'
  BY Zenon DEF StageOK, Unwritten, Written
<1> QED BY <1>1, <1>2, Zenon

\* What a transaction has in the tables, with the client and in the log depends
\* on these alone.
LEMMA StateFrame ==
    ASSUME NEW x \in Txns
    PROVE  /\ copies' = copies => Held(x)' = Held(x)
           /\ acked' = acked => Acked(x)' = Acked(x)
           /\ log' = log => (Begun(x)' <=> Begun(x)) /\ (Logged(x)' <=> Logged(x))
           /\ cpc' = cpc /\ left' = left /\ buffer' = buffer => Ahead(x)' = Ahead(x)
<1>1. copies' = copies => Held(x)' = Held(x)
  BY Zenon DEF Held
<1>2. acked' = acked => Acked(x)' = Acked(x)
  BY Zenon DEF Acked
<1>3. log' = log => (Begun(x)' <=> Begun(x)) /\ (Logged(x)' <=> Logged(x))
  BY Zenon DEF Begun, Logged
<1>4. cpc' = cpc /\ left' = left /\ buffer' = buffer => Ahead(x)' = Ahead(x)
  BY Zenon DEF Ahead, Written
<1> QED BY <1>1, <1>2, <1>3, <1>4, Zenon

\* The conjuncts about the server as a whole, when a step leaves alone what they
\* are about.
LEMMA ServerFrame ==
    ASSUME TypeOK, ServerOK, up' = up, todo' = todo, restarts' = restarts, log \subseteq log'
    PROVE  ServerOK'
BY Zenon DEF ServerOK, Logged

\* A step that leaves every idle transaction's batches as they were, all or none,
\* keeps the batches atomic.
LEMMA AtomicFrame ==
    ASSUME AtomicOK, setting' = setting, up' = up,
           \A x \in Txns : cpc'[x] = "idle" => \/ Held(x)' = {} \/ Held(x)' = Acked(x)'
                                               \/ /\ cpc[x] = "idle" /\ Held(x)' = Held(x)
                                                  /\ Acked(x)' = Acked(x)
    PROVE  AtomicOK'
BY Zenon DEF AtomicOK, Faults

\* A step that moves no table and no pinned snapshot keeps what the snapshots show.
LEMMA PinnedFrame ==
    ASSUME PinnedOK, setting' = setting, pinned' = pinned, seq' = seq, prev' = prev,
           \A x \in Txns : (reply[x] # "error" => reply'[x] # "error") /\ Ahead(x)' = Ahead(x)
    PROVE  PinnedOK'
BY Zenon DEF PinnedOK, Faults, Kinds

\* At most one commit is under way, and none while mutate_lock is free.
LEMMA OneCommit ==
    ASSUME IInv, NEW x \in Txns, cpc[x] # "idle"
    PROVE  mutateLock = x /\ \A y \in Txns \ {x} : cpc[y] = "idle" /\ Ahead(y) = {}
<1>1. \A y \in Txns : cpc[y] # "idle" => mutateLock = y
  BY Zenon DEF IInv, OwnerOK
<1> QED BY <1>1, Zenon DEF Ahead

\* With mutate_lock free no commit is under way.
LEMMA NoCommit ==
    ASSUME IInv, mutateLock = None, NEW x \in Txns
    PROVE  cpc[x] = "idle" /\ Ahead(x) = {}
BY TransactionsAssumption, Zenon DEF IInv, OwnerOK, Ahead

-----------------------------------------------------------------------------
(***************************************************************************)
(* Every step keeps the invariant.                                         *)
(***************************************************************************)

\* The invariant holds when the server starts for the first time.
LEMMA InitIInv == Init => IInv
<1> SUFFICES ASSUME Init PROVE IInv
  OBVIOUS
<1> USE TransactionsAssumption
<1>1. TypeOK
  BY Zenon DEF Init, TypeOK, Batches, Tables
<1>2. ServerOK
  BY Zenon DEF Init, ServerOK
<1>3. CountOK
  BY DEF Init, CountOK
<1>4. \A tx \in Txns : Held(tx) = {} /\ Acked(tx) = {} /\ Ahead(tx) = {}
  BY DEF Init, Held, Acked, Ahead, Batches
<1>5. AtomicOK
  BY <1>4, Zenon DEF Init, AtomicOK
<1>6. PinnedOK
  BY <1>4, Zenon DEF Init, PinnedOK, None
<1>7. \A tx \in Txns : OwnerOK(tx) /\ StageOK(tx)
  BY <1>4, Zenon DEF Init, OwnerOK, StageOK, InHand, Unwritten, Logged, Begun, None
<1> QED BY <1>1, <1>2, <1>3, <1>5, <1>6, <1>7, Zenon DEF IInv

\* The name of a transaction that has not begun is not in use.
LEMMA BeginKeeps ==
    ASSUME IInv, NEW tx \in Txns, Begin(tx), UNCHANGED setting
    PROVE  IInv'
<1>1. /\ TypeOK /\ ServerOK /\ CountOK /\ AtomicOK /\ PinnedOK
      /\ \A x \in Txns : OwnerOK(x) /\ StageOK(x)
  BY Zenon DEF IInv
<1>2. /\ copies' = copies /\ seq' = seq /\ up' = up /\ todo' = todo /\ buffer' = buffer
      /\ ins' = ins /\ mutateLock' = mutateLock /\ locks' = locks /\ cpc' = cpc /\ left' = left
      /\ prev' = prev /\ rpc' = rpc /\ pinned' = pinned /\ warm' = warm /\ acked' = acked
      /\ refused' = refused /\ reply' = reply /\ restarts' = restarts /\ external' = external
      /\ setting' = setting
  BY Zenon DEF Begin, commit, provider, client, bounds
<1>3. /\ up = "serving" /\ ~Begun(tx)
      /\ log' = log \cup {Entry("begin", tx)} /\ active' = active \cup {tx}
  BY Zenon DEF Begin, Begun
<1>4. TypeOK'
  BY <1>1, <1>2, <1>3, Zenon DEF TypeOK
<1>5. \A x \in Txns : Held(x)' = Held(x) /\ Acked(x)' = Acked(x) /\ Ahead(x)' = Ahead(x)
  BY <1>2, StateFrame, Zenon
<1>6. /\ Begun(tx)'
      /\ \A x \in Txns : (Logged(x)' <=> Logged(x)) /\ (x # tx => (Begun(x)' <=> Begun(x)))
  BY <1>3, EntryFacts DEF Logged, Begun
<1>7. ServerOK' /\ CountOK'
  BY <1>1, <1>2, <1>3, ServerFrame, Zenon DEF CountOK
<1>8. AtomicOK' /\ PinnedOK'
  BY <1>1, <1>2, <1>5, AtomicFrame, PinnedFrame, Zenon
<1>9. OwnerOK(tx)' /\ StageOK(tx)'
  <2>1. OwnerOK(tx) /\ StageOK(tx)
    BY <1>1, Zenon
  <2>2. /\ cpc[tx] = "idle" /\ tx \notin rpc
        /\ Acked(tx) = {} /\ buffer[tx] = {} /\ reply[tx] = None
    BY <1>3, <2>1, Zenon DEF OwnerOK, InHand
  <2>3. Held(tx) = {} /\ ~Logged(tx)
    BY <1>3, <2>1, Zenon DEF StageOK, Unwritten
  <2>4. OwnerOK(tx)'
    BY <1>2, <1>3, <1>5, <1>6, <2>2, Zenon DEF OwnerOK, InHand
  <2>5. StageOK(tx)'
    BY <1>2, <1>5, <1>6, <2>2, <2>3, Zenon DEF StageOK, None
  <2> QED BY <2>4, <2>5, Zenon
<1>10. ASSUME NEW x \in Txns, x # tx PROVE OwnerOK(x)' /\ StageOK(x)'
  BY <1>1, <1>2, <1>3, <1>5, <1>6, <1>10, Frame, Zenon
<1> QED BY <1>4, <1>7, <1>8, <1>9, <1>10, Zenon DEF IInv

\* An insert record says nothing of how far a transaction has come.
LEMMA LogInsertKeeps ==
    ASSUME IInv, NEW tx \in Txns, NEW t \in Tables, LogInsert(tx, t), UNCHANGED setting
    PROVE  IInv'
<1>1. /\ TypeOK /\ ServerOK /\ CountOK /\ AtomicOK /\ PinnedOK
      /\ \A x \in Txns : OwnerOK(x) /\ StageOK(x)
  BY Zenon DEF IInv
<1>2. /\ copies' = copies /\ seq' = seq /\ up' = up /\ todo' = todo /\ buffer' = buffer
      /\ active' = active /\ mutateLock' = mutateLock /\ locks' = locks /\ cpc' = cpc
      /\ left' = left /\ prev' = prev /\ rpc' = rpc /\ pinned' = pinned /\ warm' = warm
      /\ acked' = acked /\ refused' = refused /\ reply' = reply /\ restarts' = restarts
      /\ external' = external /\ setting' = setting
  BY Zenon DEF LogInsert, commit, provider, client, bounds
<1>3. log' = log \cup {InsertEntry(tx, t)} /\ ins' = [ins EXCEPT ![tx] = t]
  BY Zenon DEF LogInsert
<1>4. TypeOK'
  BY <1>1, <1>2, <1>3, Zenon DEF TypeOK
<1>5. \A x \in Txns : Held(x)' = Held(x) /\ Acked(x)' = Acked(x) /\ Ahead(x)' = Ahead(x)
  BY <1>2, StateFrame, Zenon
<1>6. \A x \in Txns : (Logged(x)' <=> Logged(x)) /\ (Begun(x)' <=> Begun(x))
  BY <1>3, EntryFacts DEF Logged, Begun
<1>7. ServerOK' /\ CountOK'
  BY <1>1, <1>2, <1>3, ServerFrame, Zenon DEF CountOK
<1>8. AtomicOK' /\ PinnedOK'
  BY <1>1, <1>2, <1>5, AtomicFrame, PinnedFrame, Zenon
<1>9. ASSUME NEW x \in Txns PROVE OwnerOK(x)' /\ StageOK(x)'
  BY <1>1, <1>2, <1>5, <1>6, Frame, Zenon
<1> QED BY <1>4, <1>7, <1>8, <1>9, Zenon DEF IInv

\* An insert that finds its transaction active is in its buffer when the client is
\* told so; the transaction has written nothing yet.
LEMMA BufferInsertKeeps ==
    ASSUME IInv, NEW tx \in Txns, BufferInsert(tx), UNCHANGED setting
    PROVE  IInv'
<1>1. /\ TypeOK /\ ServerOK /\ CountOK /\ AtomicOK /\ PinnedOK
      /\ \A x \in Txns : OwnerOK(x) /\ StageOK(x)
  BY DEF IInv
<1>2. /\ log' = log /\ copies' = copies /\ seq' = seq /\ up' = up /\ todo' = todo
      /\ active' = active /\ mutateLock' = mutateLock /\ locks' = locks /\ cpc' = cpc
      /\ left' = left /\ prev' = prev /\ rpc' = rpc /\ pinned' = pinned /\ warm' = warm
      /\ reply' = reply /\ restarts' = restarts /\ external' = external /\ setting' = setting
  BY Zenon DEF BufferInsert, disk, commit, provider, bounds
<1>3. /\ ins[tx] \in Tables /\ <<tx, ins[tx]>> \in Batches
      /\ ins' = [ins EXCEPT ![tx] = 0] /\ ins' \in [Txns -> Tables \cup {0}]
  BY <1>1, Zenon DEF BufferInsert, TypeOK, Batches
<1>4. \A x \in Txns : Held(x)' = Held(x) /\ (Logged(x)' <=> Logged(x)) /\ (Begun(x)' <=> Begun(x))
  BY <1>2, StateFrame, Zenon
<1>5. ServerOK' /\ CountOK'
  BY <1>1, <1>2, ServerFrame, Zenon DEF CountOK
<1>6. CASE tx \in active
  <2>1. /\ buffer' = [buffer EXCEPT ![tx] = @ \cup {ins[tx]}] /\ refused' = refused
        /\ acked' = acked \cup {<<tx, ins[tx]>>}
    BY <1>6, Zenon DEF BufferInsert
  <2>2. TypeOK'
    BY <1>1, <1>2, <1>3, <2>1, Zenon DEF TypeOK
  <2>3. OwnerOK(tx) /\ StageOK(tx)
    BY <1>1
  <2>4. cpc[tx] = "idle" /\ Held(tx) = {} /\ ~Logged(tx) /\ reply[tx] = None /\ Begun(tx)
    BY <1>6, <2>3, Zenon DEF OwnerOK, InHand, StageOK, Unwritten
  <2>5. Acked(tx)' = Acked(tx) \cup {ins[tx]} /\ \A x \in Txns : x # tx => Acked(x)' = Acked(x)
    BY <1>3, <2>1, Zenon DEF Acked
  <2>6. /\ buffer'[tx] = buffer[tx] \cup {ins[tx]}
        /\ \A x \in Txns : x # tx => buffer'[x] = buffer[x]
    BY <1>1, <2>1, Zenon DEF TypeOK
  <2>7. buffer'[tx] = Acked(tx)'
    BY <1>6, <2>3, <2>5, <2>6, Zenon DEF OwnerOK
  <2>8. OwnerOK(tx)'
    BY <1>2, <1>4, <1>6, <2>3, <2>4, <2>7, Zenon DEF OwnerOK, InHand
  <2>9. StageOK(tx)'
    BY <1>2, <1>4, <2>4, Zenon DEF StageOK, None
  <2>10. \A x \in Txns : Ahead(x)' = Ahead(x)
    BY <1>2, <2>4, <2>6, Zenon DEF Ahead, Written
  <2>11. AtomicOK' /\ PinnedOK'
    BY <1>1, <1>2, <1>4, <2>4, <2>5, <2>10, AtomicFrame, PinnedFrame, Zenon
  <2>12. ASSUME NEW x \in Txns, x # tx PROVE OwnerOK(x)' /\ StageOK(x)'
    BY <1>1, <1>2, <1>4, <2>5, <2>6, <2>12, Frame, Zenon
  <2> QED BY <1>5, <2>2, <2>8, <2>9, <2>11, <2>12, Zenon DEF IInv
<1>7. CASE tx \notin active
  <2>1. buffer' = buffer /\ acked' = acked /\ refused' = refused \cup {<<tx, ins[tx]>>}
    BY <1>7, Zenon DEF BufferInsert
  <2>2. TypeOK'
    BY <1>1, <1>2, <1>3, <2>1, Zenon DEF TypeOK
  <2>3. \A x \in Txns : Acked(x)' = Acked(x) /\ Ahead(x)' = Ahead(x)
    BY <1>2, <2>1, StateFrame
  <2>4. AtomicOK' /\ PinnedOK'
    BY <1>1, <1>2, <1>4, <2>3, AtomicFrame, PinnedFrame
  <2>5. ASSUME NEW x \in Txns PROVE OwnerOK(x)' /\ StageOK(x)'
    BY <1>1, <1>2, <1>4, <2>1, <2>3, Frame
  <2> QED BY <1>5, <2>2, <2>4, <2>5, Zenon DEF IInv
<1> QED BY <1>6, <1>7, Zenon

\* A rollback has the transaction to itself once it is out of the map ...
LEMMA RollbackKeeps ==
    ASSUME IInv, NEW tx \in Txns, Rollback(tx), UNCHANGED setting
    PROVE  IInv'
<1>1. /\ TypeOK /\ ServerOK /\ CountOK /\ AtomicOK /\ PinnedOK
      /\ \A x \in Txns : OwnerOK(x) /\ StageOK(x)
  BY DEF IInv
<1>2. /\ log' = log /\ copies' = copies /\ seq' = seq /\ up' = up /\ todo' = todo
      /\ buffer' = buffer /\ ins' = ins /\ mutateLock' = mutateLock /\ locks' = locks
      /\ cpc' = cpc /\ left' = left /\ prev' = prev /\ pinned' = pinned /\ warm' = warm
      /\ acked' = acked /\ refused' = refused /\ reply' = reply /\ restarts' = restarts
      /\ external' = external /\ setting' = setting
  BY Zenon DEF Rollback, disk, commit, provider, client, bounds
<1>3. tx \in active /\ active' = active \ {tx} /\ rpc' = rpc \cup {tx}
  BY Zenon DEF Rollback
<1>4. TypeOK'
  BY <1>1, <1>2, <1>3, Zenon DEF TypeOK
<1>5. \A x \in Txns : /\ Held(x)' = Held(x) /\ Acked(x)' = Acked(x) /\ Ahead(x)' = Ahead(x)
                      /\ (Logged(x)' <=> Logged(x)) /\ (Begun(x)' <=> Begun(x))
  BY <1>2, StateFrame, Zenon
<1>6. ServerOK' /\ CountOK'
  BY <1>1, <1>2, ServerFrame, Zenon DEF CountOK
<1>7. AtomicOK' /\ PinnedOK'
  BY <1>1, <1>2, <1>5, AtomicFrame, PinnedFrame, Zenon
<1>8. OwnerOK(tx)' /\ StageOK(tx)'
  <2>1. OwnerOK(tx) /\ StageOK(tx)
    BY <1>1
  <2>2. /\ cpc[tx] = "idle" /\ Held(tx) = {} /\ ~Logged(tx) /\ Begun(tx) /\ reply[tx] = None
        /\ up = "serving"
    BY <1>3, <2>1, Zenon DEF OwnerOK, InHand, StageOK, Unwritten
  <2>3. OwnerOK(tx)'
    BY <1>2, <1>3, <1>5, <2>2, Zenon DEF OwnerOK
  <2>4. StageOK(tx)'
    BY <1>2, <1>5, <2>2, Zenon DEF StageOK, None
  <2> QED BY <2>3, <2>4
<1>9. ASSUME NEW x \in Txns, x # tx PROVE OwnerOK(x)' /\ StageOK(x)'
  BY <1>1, <1>2, <1>3, <1>5, <1>9, Frame
<1> QED BY <1>4, <1>6, <1>7, <1>8, <1>9 DEF IInv

\* ... and logs and reports it with nothing written.
LEMMA LogRollbackKeeps ==
    ASSUME IInv, NEW tx \in Txns, LogRollback(tx), UNCHANGED setting
    PROVE  IInv'
<1>1. /\ TypeOK /\ ServerOK /\ CountOK /\ AtomicOK /\ PinnedOK
      /\ \A x \in Txns : OwnerOK(x) /\ StageOK(x)
  BY DEF IInv
<1>2. /\ copies' = copies /\ seq' = seq /\ up' = up /\ todo' = todo /\ active' = active
      /\ buffer' = buffer /\ ins' = ins /\ mutateLock' = mutateLock /\ locks' = locks
      /\ cpc' = cpc /\ left' = left /\ prev' = prev /\ pinned' = pinned /\ warm' = warm
      /\ acked' = acked /\ refused' = refused /\ restarts' = restarts
      /\ external' = external /\ setting' = setting
  BY Zenon DEF LogRollback, session, commit, provider, bounds
<1>3. /\ tx \in rpc /\ rpc' = rpc \ {tx} /\ log' = log \cup {Entry("rollback", tx)}
      /\ reply' = [reply EXCEPT ![tx] = "rolledBack"]
  BY Zenon DEF LogRollback
<1>4. TypeOK'
  BY <1>1, <1>2, <1>3, Zenon DEF TypeOK
<1>5. \A x \in Txns : Held(x)' = Held(x) /\ Acked(x)' = Acked(x) /\ Ahead(x)' = Ahead(x)
  BY <1>2, StateFrame, Zenon
<1>6. \A x \in Txns : (Logged(x)' <=> Logged(x)) /\ (Begun(x)' <=> Begun(x))
  BY <1>3, EntryFacts DEF Logged, Begun
<1>7. reply'[tx] = "rolledBack" /\ \A x \in Txns : x # tx => reply'[x] = reply[x]
  BY <1>1, <1>3, Zenon DEF TypeOK
<1>8. ServerOK' /\ CountOK'
  BY <1>1, <1>2, <1>3, ServerFrame, Zenon DEF CountOK
<1>9. AtomicOK' /\ PinnedOK'
  BY <1>1, <1>2, <1>5, <1>7, AtomicFrame, PinnedFrame, Zenon
<1>10. OwnerOK(tx)' /\ StageOK(tx)'
  <2>1. OwnerOK(tx) /\ StageOK(tx)
    BY <1>1
  <2>2. /\ cpc[tx] = "idle" /\ Held(tx) = {} /\ ~Logged(tx) /\ Begun(tx)
        /\ tx \notin active
    BY <1>3, <2>1, Zenon DEF OwnerOK, InHand, StageOK, Unwritten
  <2>3. OwnerOK(tx)'
    BY <1>2, <1>3, <1>6, <2>2, Zenon DEF OwnerOK, InHand
  <2>4. StageOK(tx)'
    BY <1>2, <1>5, <1>6, <1>7, <2>2, Zenon DEF StageOK
  <2> QED BY <2>3, <2>4
<1>11. ASSUME NEW x \in Txns, x # tx PROVE OwnerOK(x)' /\ StageOK(x)'
  BY <1>1, <1>2, <1>3, <1>5, <1>6, <1>7, <1>11, Frame, Zenon
<1> QED BY <1>4, <1>8, <1>9, <1>10, <1>11 DEF IInv

\* A commit takes what the client was told is in the transaction, with nothing
\* written of it and no other commit under way.
LEMMA TakeKeeps ==
    ASSUME IInv, NEW tx \in Txns, Take(tx), UNCHANGED setting
    PROVE  IInv'
<1>1. /\ TypeOK /\ ServerOK /\ CountOK /\ AtomicOK /\ PinnedOK
      /\ \A x \in Txns : OwnerOK(x) /\ StageOK(x)
  BY DEF IInv
<1>2. /\ log' = log /\ copies' = copies /\ seq' = seq /\ up' = up /\ todo' = todo
      /\ buffer' = buffer /\ ins' = ins /\ locks' = locks /\ prev' = prev /\ rpc' = rpc
      /\ pinned' = pinned /\ warm' = warm /\ acked' = acked /\ refused' = refused
      /\ reply' = reply /\ restarts' = restarts /\ external' = external /\ setting' = setting
  BY Zenon DEF Take, disk, provider, client, bounds
<1>3. tx \in active /\ active' = active \ {tx} /\ mutateLock = None /\ mutateLock' = tx
  BY Zenon DEF Take
<1>4. TypeOK'
  <2>1. /\ left' \in [Txns -> SUBSET Tables]
        /\ cpc' \in [Txns -> {"idle", "lock", "write", "log", "refresh"}]
    BY <1>1, Zenon DEF Take, TypeOK
  <2> QED BY <1>1, <1>2, <1>3, <2>1, Zenon DEF TypeOK
<1>5. \A x \in Txns : /\ Held(x)' = Held(x) /\ Acked(x)' = Acked(x)
                      /\ (Logged(x)' <=> Logged(x)) /\ (Begun(x)' <=> Begun(x))
  BY <1>2, StateFrame, Zenon
<1>6. /\ left'[tx] = buffer[tx] /\ cpc'[tx] = IF buffer[tx] = {} THEN "log" ELSE "lock"
      /\ \A x \in Txns : x # tx => cpc'[x] = cpc[x] /\ left'[x] = left[x]
  BY <1>1, Zenon DEF Take, TypeOK
<1>7. \A x \in Txns : Ahead(x)' = Ahead(x)
  <2>1. Ahead(tx) = {}
    BY <1>3, NoCommit, Zenon
  <2>2. Ahead(tx)' = {}
    BY <1>2, <1>6, Zenon DEF Ahead, Written
  <2>3. \A x \in Txns : x # tx => Ahead(x)' = Ahead(x)
    BY <1>2, <1>6, Zenon DEF Ahead, Written
  <2> QED BY <2>1, <2>2, <2>3, Zenon
<1>8. ServerOK' /\ CountOK'
  BY <1>1, <1>2, ServerFrame, Zenon DEF CountOK
<1>9. AtomicOK' /\ PinnedOK'
  BY <1>1, <1>2, <1>5, <1>6, <1>7, AtomicFrame, PinnedFrame, Zenon
<1>10. OwnerOK(tx)' /\ StageOK(tx)'
  <2>1. OwnerOK(tx) /\ StageOK(tx)
    BY <1>1
  <2>2. /\ Held(tx) = {} /\ ~Logged(tx) /\ reply[tx] = None /\ Begun(tx) /\ up = "serving"
        /\ tx \notin rpc /\ buffer[tx] = Acked(tx)
    BY <1>3, <2>1, Zenon DEF OwnerOK, InHand, StageOK, Unwritten
  <2>3. OwnerOK(tx)'
    BY <1>2, <1>3, <1>5, <2>2, Zenon DEF OwnerOK
  <2>4. StageOK(tx)'
    BY <1>2, <1>5, <1>6, <2>2, Zenon DEF StageOK, Written, None
  <2> QED BY <2>3, <2>4
<1>11. ASSUME NEW x \in Txns, x # tx PROVE OwnerOK(x)' /\ StageOK(x)'
  BY <1>1, <1>2, <1>3, <1>5, <1>6, <1>11, TransactionsAssumption, Frame, Zenon
<1> QED BY <1>4, <1>8, <1>9, <1>10, <1>11 DEF IInv

\* The table a commit is at is one of those it has left.
LEMMA NextTable ==
    ASSUME TypeOK, NEW tx \in Txns, StageOK(tx), cpc[tx] \in {"lock", "write", "refresh"}
    PROVE  Min(left[tx]) \in left[tx] /\ left[tx] \in SUBSET Tables
BY MinIsMember, Zenon DEF TypeOK, StageOK

\* What Advance leaves to do.
LEMMA AdvanceFacts ==
    ASSUME TypeOK, NEW tx \in Txns, NEW t \in Tables,
           NEW here \in {"lock", "write"}, NEW next \in {"write", "log"},
           Advance(tx, t, here, next)
    PROVE  /\ left' \in [Txns -> SUBSET Tables]
           /\ cpc' \in [Txns -> {"idle", "lock", "write", "log", "refresh"}]
           /\ left[tx] = {t} \/ left[tx] = {} => cpc'[tx] = next /\ left'[tx] = buffer[tx]
           /\ left[tx] \ {t} # {} => cpc'[tx] = here /\ left'[tx] = left[tx] \ {t}
           /\ \A x \in Txns : x # tx => cpc'[x] = cpc[x] /\ left'[x] = left[x]
BY Zenon DEF TypeOK, Advance

\* The first tables' locks are taken with nothing written.
LEMMA LockTableKeeps ==
    ASSUME IInv, NEW tx \in Txns, LockTable(tx), UNCHANGED setting
    PROVE  IInv'
<1> DEFINE t == Min(left[tx])
<1>1. /\ TypeOK /\ ServerOK /\ CountOK /\ AtomicOK /\ PinnedOK
      /\ \A x \in Txns : OwnerOK(x) /\ StageOK(x)
  BY DEF IInv
<1>2. /\ log' = log /\ copies' = copies /\ seq' = seq /\ up' = up /\ todo' = todo
      /\ active' = active /\ buffer' = buffer /\ ins' = ins /\ mutateLock' = mutateLock
      /\ prev' = prev /\ rpc' = rpc /\ pinned' = pinned /\ warm' = warm /\ acked' = acked
      /\ refused' = refused /\ reply' = reply /\ restarts' = restarts
      /\ external' = external /\ setting' = setting
  BY Zenon DEF LockTable, disk, session, provider, client, bounds
<1>3. cpc[tx] = "lock" /\ locks' = [locks EXCEPT ![t] = tx] /\ Advance(tx, t, "lock", "write")
  BY Zenon DEF LockTable
<1>4. t \in left[tx] /\ t \in Tables
  BY <1>1, <1>3, NextTable, Zenon
<1> HIDE DEF t
<1>5. /\ left' \in [Txns -> SUBSET Tables]
      /\ cpc' \in [Txns -> {"idle", "lock", "write", "log", "refresh"}]
      /\ left[tx] = {t} => cpc'[tx] = "write" /\ left'[tx] = buffer[tx]
      /\ left[tx] \ {t} # {} => cpc'[tx] = "lock" /\ left'[tx] = left[tx] \ {t}
      /\ \A x \in Txns : x # tx => cpc'[x] = cpc[x] /\ left'[x] = left[x]
  BY <1>1, <1>3, <1>4, AdvanceFacts, Zenon
<1>6. TypeOK'
  BY <1>1, <1>2, <1>3, <1>5, Zenon DEF TypeOK
<1>7. \A x \in Txns : /\ Held(x)' = Held(x) /\ Acked(x)' = Acked(x)
                      /\ (Logged(x)' <=> Logged(x)) /\ (Begun(x)' <=> Begun(x))
  BY <1>2, StateFrame
<1>8. \/ cpc'[tx] = "write" /\ left'[tx] = buffer[tx]
      \/ cpc'[tx] = "lock" /\ left'[tx] = left[tx] \ {t} /\ left[tx] \ {t} # {}
  BY <1>4, <1>5
<1>9. \A x \in Txns : Ahead(x)' = Ahead(x)
  <2>1. Ahead(tx) = {}
    BY <1>3 DEF Ahead
  <2>2. Ahead(tx)' = {}
    BY <1>2, <1>8 DEF Ahead, Written
  <2>3. \A x \in Txns : x # tx => Ahead(x)' = Ahead(x)
    BY <1>2, <1>5, Zenon DEF Ahead, Written
  <2> QED BY <2>1, <2>2, <2>3
<1>10. ServerOK' /\ CountOK'
  BY <1>1, <1>2, ServerFrame DEF CountOK
<1>11. AtomicOK' /\ PinnedOK'
  BY <1>1, <1>2, <1>5, <1>7, <1>8, <1>9, AtomicFrame, PinnedFrame, Zenon
<1>12. OwnerOK(tx)' /\ StageOK(tx)'
  <2>1. OwnerOK(tx) /\ StageOK(tx)
    BY <1>1
  <2>2. /\ Held(tx) = {} /\ ~Logged(tx) /\ reply[tx] = None /\ Begun(tx) /\ up = "serving"
        /\ tx \notin active /\ tx \notin rpc /\ mutateLock = tx /\ buffer[tx] = Acked(tx)
        /\ left[tx] \subseteq buffer[tx] /\ buffer[tx] # {}
    BY <1>3, <1>4, <2>1, Zenon DEF OwnerOK, InHand, StageOK, Unwritten
  <2>3. OwnerOK(tx)'
    BY <1>2, <1>7, <2>2, Zenon DEF OwnerOK
  <2>4. StageOK(tx)'
    BY <1>2, <1>7, <1>8, <2>2, Zenon DEF StageOK, Written, None
  <2> QED BY <2>3, <2>4
<1>13. ASSUME NEW x \in Txns, x # tx PROVE OwnerOK(x)' /\ StageOK(x)'
  BY <1>1, <1>2, <1>5, <1>7, <1>13, Frame, Zenon
<1> QED BY <1>6, <1>10, <1>11, <1>12, <1>13 DEF IInv

\* A table commit writes a table the transaction has not written, and moves it one
\* ahead of its provider.
LEMMA CommitTableKeeps ==
    ASSUME IInv, NEW tx \in Txns, CommitTable(tx), UNCHANGED setting
    PROVE  IInv'
<1> DEFINE t == Min(left[tx])
<1>1. /\ TypeOK /\ ServerOK /\ CountOK /\ AtomicOK /\ PinnedOK
      /\ \A x \in Txns : OwnerOK(x) /\ StageOK(x)
  BY DEF IInv
<1>2. /\ log' = log /\ up' = up /\ todo' = todo /\ active' = active /\ buffer' = buffer
      /\ ins' = ins /\ mutateLock' = mutateLock /\ locks' = locks /\ rpc' = rpc
      /\ pinned' = pinned /\ warm' = warm /\ acked' = acked /\ refused' = refused
      /\ reply' = reply /\ restarts' = restarts /\ external' = external /\ setting' = setting
  BY Zenon DEF CommitTable, session, provider, client, bounds
<1>3. cpc[tx] = "write" /\ Advance(tx, t, "write", "log")
  BY Zenon DEF CommitTable
<1>4. /\ copies' = [copies EXCEPT ![<<tx, t>>] = @ + 1]
      /\ seq' = [seq EXCEPT ![t] = @ + 1] /\ prev' = [prev EXCEPT ![<<tx, t>>] = seq[t]]
  BY Zenon DEF CommitTable
<1>5. t \in left[tx] /\ t \in Tables /\ <<tx, t>> \in Batches
  BY <1>1, <1>3, NextTable, Zenon DEF Batches
<1> HIDE DEF t
<1>6. /\ left' \in [Txns -> SUBSET Tables]
      /\ cpc' \in [Txns -> {"idle", "lock", "write", "log", "refresh"}]
      /\ left[tx] = {t} => cpc'[tx] = "log" /\ left'[tx] = buffer[tx]
      /\ left[tx] \ {t} # {} => cpc'[tx] = "write" /\ left'[tx] = left[tx] \ {t}
      /\ \A x \in Txns : x # tx => cpc'[x] = cpc[x] /\ left'[x] = left[x]
  BY <1>1, <1>3, <1>5, AdvanceFacts, Zenon
<1>7. TypeOK'
  <2>1. copies' \in [Batches -> Nat] /\ seq' \in [Tables -> Nat] /\ prev' \in [Batches -> Nat]
    BY <1>1, <1>4, <1>5 DEF TypeOK
  <2> QED BY <1>1, <1>2, <1>6, <2>1, Zenon DEF TypeOK
<1>8. \A x \in Txns : /\ Acked(x)' = Acked(x)
                      /\ (Logged(x)' <=> Logged(x)) /\ (Begun(x)' <=> Begun(x))
  BY <1>2, StateFrame, Zenon
<1>9. \/ cpc'[tx] = "log" /\ left'[tx] = buffer[tx] /\ left[tx] = {t}
      \/ cpc'[tx] = "write" /\ left'[tx] = left[tx] \ {t} /\ left[tx] \ {t} # {}
  BY <1>5, <1>6, Zenon
<1>10. /\ left[tx] \subseteq buffer[tx] /\ Held(tx) = buffer[tx] \ left[tx]
       /\ ~Logged(tx) /\ reply[tx] = None /\ Begun(tx) /\ up = "serving" /\ tx \notin active
       /\ tx \notin rpc /\ mutateLock = tx /\ buffer[tx] = Acked(tx)
  <2>1. OwnerOK(tx) /\ StageOK(tx)
    BY <1>1
  <2> QED BY <1>3, <2>1, Zenon DEF OwnerOK, InHand, StageOK, Written
<1>11. copies[<<tx, t>>] = 0
  <2>1. copies[<<tx, t>>] \in Nat /\ t \notin Held(tx)
    BY <1>1, <1>5, <1>10, Zenon DEF TypeOK
  <2> QED BY <1>5, <2>1 DEF Held
<1>12. \A x \in Txns : \A u \in Tables :
          copies'[<<x, u>>] = IF x = tx /\ u = t THEN 1 ELSE copies[<<x, u>>]
  BY <1>1, <1>4, <1>5, <1>11 DEF TypeOK, Batches
<1>13. Held(tx)' = Held(tx) \cup {t} /\ \A x \in Txns : x # tx => Held(x)' = Held(x)
  BY <1>5, <1>12 DEF Held
<1>14. ServerOK'
  BY <1>1, <1>2, ServerFrame, Zenon
<1>15. CountOK'
  <2>1. \A b \in Batches : copies'[b] = IF b = <<tx, t>> THEN 1 ELSE copies[b]
    BY <1>1, <1>4, <1>11 DEF TypeOK
  <2> QED BY <1>1, <1>2, <2>1 DEF CountOK
<1>16. AtomicOK'
  BY <1>1, <1>2, <1>6, <1>8, <1>9, <1>13, AtomicFrame, Zenon
<1>17. Held(tx)' = Written(tx)'
  <2>1. CASE cpc'[tx] = "log"
    BY <1>2, <1>9, <1>10, <1>13, <2>1, Zenon DEF Written
  <2>2. CASE cpc'[tx] = "write"
    BY <1>2, <1>5, <1>9, <1>10, <1>13, <2>2 DEF Written
  <2> QED BY <1>9, <2>1, <2>2, Zenon
<1>18. PinnedOK'
  <2> SUFFICES ASSUME "query" \notin Kinds, Faults = {}
               PROVE  /\ \A x \in Txns : reply'[x] # "error"
                      /\ \A u \in Tables : (\A x \in Txns : u \notin Ahead(x)') => pinned'[u] = seq'[u]
                      /\ \A x \in Txns : \A u \in Ahead(x)' :
                            pinned'[u] = prev'[<<x, u>>] /\ seq'[u] = prev'[<<x, u>>] + 1
    BY <1>2, Zenon DEF PinnedOK, Kinds, Faults
  <2>1. /\ \A x \in Txns : reply[x] # "error"
        /\ \A u \in Tables : (\A x \in Txns : u \notin Ahead(x)) => pinned[u] = seq[u]
        /\ \A x \in Txns : \A u \in Ahead(x) :
              pinned[u] = prev[<<x, u>>] /\ seq[u] = prev[<<x, u>>] + 1
    BY <1>1, Zenon DEF PinnedOK
  <2>2. \A x \in Txns : x # tx => Ahead(x) = {} /\ Ahead(x)' = {}
    BY <1>3, <1>6, OneCommit, Zenon DEF Ahead
  <2>3. Ahead(tx) = Held(tx)
    BY <1>3, <1>10, Zenon DEF Ahead, Written
  <2>4. Ahead(tx)' = Held(tx) \cup {t}
    BY <1>9, <1>13, <1>17, Zenon DEF Ahead
  <2>5. t \notin Held(tx) /\ Held(tx) \subseteq Tables /\ seq[t] \in Nat
    BY <1>1, <1>5, <1>10, Zenon DEF TypeOK, Held
  <2>6. pinned[t] = seq[t]
    BY <1>5, <2>1, <2>2, <2>3, <2>5, Zenon
  <2>7. /\ seq'[t] = seq[t] + 1 /\ \A u \in Tables : u # t => seq'[u] = seq[u]
        /\ prev'[<<tx, t>>] = seq[t]
        /\ \A u \in Tables : u # t => prev'[<<tx, u>>] = prev[<<tx, u>>]
    BY <1>1, <1>4, <1>5, Zenon DEF TypeOK, Batches
  <2>8. \A u \in Tables : (\A x \in Txns : u \notin Ahead(x)') => pinned'[u] = seq'[u]
    BY <1>2, <2>1, <2>2, <2>3, <2>4, <2>7
  <2>9. \A x \in Txns : \A u \in Ahead(x)' :
           pinned'[u] = prev'[<<x, u>>] /\ seq'[u] = prev'[<<x, u>>] + 1
    <3>1. pinned'[t] = prev'[<<tx, t>>] /\ seq'[t] = prev'[<<tx, t>>] + 1
      BY <1>2, <2>6, <2>7, Zenon
    <3>2. ASSUME NEW u \in Held(tx), u # t
          PROVE  pinned'[u] = prev'[<<tx, u>>] /\ seq'[u] = prev'[<<tx, u>>] + 1
      <4>1. pinned[u] = prev[<<tx, u>>] /\ seq[u] = prev[<<tx, u>>] + 1 /\ u \in Tables
        BY <2>1, <2>3, <2>5, Zenon
      <4> QED BY <1>2, <2>7, <3>2, <4>1, Zenon
    <3> QED BY <2>2, <2>4, <3>1, <3>2, Zenon
  <2> QED BY <1>2, <2>1, <2>8, <2>9, Zenon
<1>19. OwnerOK(tx)' /\ StageOK(tx)'
  <2>1. OwnerOK(tx)'
    BY <1>2, <1>8, <1>10, Zenon DEF OwnerOK
  <2>2. ~Unwritten(tx)'
    BY <1>2, <1>8, <1>9, <1>10, Zenon DEF Unwritten, None
  <2>3. StageOK(tx)'
    BY <1>2, <1>8, <1>9, <1>10, <1>17, <2>2 DEF StageOK, None
  <2> QED BY <2>1, <2>3
<1>20. ASSUME NEW x \in Txns, x # tx PROVE OwnerOK(x)' /\ StageOK(x)'
  BY <1>1, <1>2, <1>6, <1>8, <1>13, <1>20, Frame, Zenon
<1> QED BY <1>7, <1>14, <1>15, <1>16, <1>18, <1>19, <1>20 DEF IInv

\* The commit record comes when every buffered batch is in its table; a commit of
\* no batches is then over.
LEMMA LogCommitKeeps ==
    ASSUME IInv, NEW tx \in Txns, LogCommit(tx), UNCHANGED setting
    PROVE  IInv'
<1>1. /\ TypeOK /\ ServerOK /\ CountOK /\ AtomicOK /\ PinnedOK
      /\ \A x \in Txns : OwnerOK(x) /\ StageOK(x)
  BY DEF IInv
<1>2. /\ copies' = copies /\ seq' = seq /\ up' = up /\ todo' = todo /\ active' = active
      /\ buffer' = buffer /\ ins' = ins /\ prev' = prev /\ rpc' = rpc /\ pinned' = pinned
      /\ warm' = warm /\ acked' = acked /\ refused' = refused /\ restarts' = restarts
      /\ external' = external /\ setting' = setting
  BY Zenon DEF LogCommit, session, provider, bounds
<1>3. cpc[tx] = "log" /\ log' = log \cup {Entry("commit", tx)}
  BY Zenon DEF LogCommit
<1>4. TypeOK'
  <2>1. /\ left' \in [Txns -> SUBSET Tables] /\ mutateLock' \in Txns \cup {None}
        /\ cpc' \in [Txns -> {"idle", "lock", "write", "log", "refresh"}]
        /\ reply' \in [Txns -> {None, "committed", "rolledBack", "error"}]
    BY <1>1 DEF LogCommit, Answer, TypeOK
  <2>2. locks' \in [Tables -> Txns \cup {None}]
    BY <1>1, Zenon DEF LogCommit, Unlocked, TypeOK
  <2> QED BY <1>1, <1>2, <2>1, <2>2, Zenon DEF TypeOK
<1>5. \A x \in Txns : Held(x)' = Held(x) /\ Acked(x)' = Acked(x)
  BY <1>2, StateFrame, Zenon
<1>6. /\ Logged(tx)'
      /\ \A x \in Txns : (x # tx => (Logged(x)' <=> Logged(x))) /\ (Begun(x)' <=> Begun(x))
  BY <1>3, EntryFacts DEF Logged, Begun
<1>7. ServerOK' /\ CountOK'
  BY <1>1, <1>2, <1>3, ServerFrame, Zenon DEF CountOK
<1>8. /\ left[tx] = buffer[tx] /\ Held(tx) = buffer[tx] /\ buffer[tx] = Acked(tx)
      /\ reply[tx] = None /\ Begun(tx) /\ up = "serving" /\ tx \notin active /\ tx \notin rpc
      /\ mutateLock = tx
  <2>1. OwnerOK(tx) /\ StageOK(tx)
    BY <1>1
  <2> QED BY <1>3, <2>1, Zenon DEF OwnerOK, InHand, StageOK, Written
<1>9. \A x \in Txns : x # tx => cpc'[x] = cpc[x] /\ left'[x] = left[x] /\ reply'[x] = reply[x]
  BY <1>1, Zenon DEF LogCommit, Answer, TypeOK
<1>10. \A x \in Txns : x # tx => Ahead(x)' = Ahead(x)
  BY <1>2, <1>9, Zenon DEF Ahead, Written
<1>11. ASSUME NEW x \in Txns, x # tx PROVE OwnerOK(x)' /\ StageOK(x)'
  BY <1>1, <1>2, <1>5, <1>6, <1>8, <1>9, <1>11, Frame, Zenon
<1>12. Ahead(tx) = buffer[tx]
  BY <1>3, <1>8, Zenon DEF Ahead, Written
<1>13. CASE buffer[tx] = {}
  <2>1. cpc'[tx] = "idle" /\ left'[tx] = {} /\ reply'[tx] = "committed"
    BY <1>1, <1>13, Zenon DEF LogCommit, Answer, TypeOK
  <2>2. Ahead(tx)' = {}
    BY <2>1, Zenon DEF Ahead
  <2>3. AtomicOK'
    BY <1>1, <1>2, <1>5, <1>8, <1>9, AtomicFrame, Zenon
  <2>4. PinnedOK'
    BY <1>1, <1>2, <1>9, <1>10, <1>12, <1>13, <2>1, <2>2, PinnedFrame, Zenon
  <2>5. OwnerOK(tx)'
    BY <1>2, <1>6, <1>8, <2>1, Zenon DEF OwnerOK, InHand
  <2>6. StageOK(tx)'
    BY <1>2, <1>5, <1>6, <1>8, <2>1, Zenon DEF StageOK, Unwritten
  <2> QED BY <1>4, <1>7, <1>11, <2>3, <2>4, <2>5, <2>6, Zenon DEF IInv
<1>14. CASE buffer[tx] # {}
  <2>1. cpc'[tx] = "refresh" /\ left' = left /\ reply' = reply /\ mutateLock' = mutateLock
    BY <1>1, <1>14, Zenon DEF LogCommit, TypeOK
  <2>2. Ahead(tx)' = buffer[tx]
    BY <1>8, <2>1, Zenon DEF Ahead
  <2>3. AtomicOK'
    BY <1>1, <1>2, <1>5, <1>9, <2>1, AtomicFrame, Zenon
  <2>4. PinnedOK'
    BY <1>1, <1>2, <1>10, <1>12, <2>1, <2>2, PinnedFrame
  <2>5. OwnerOK(tx)'
    BY <1>2, <1>5, <1>6, <1>8, <2>1, Zenon DEF OwnerOK
  <2>6. StageOK(tx)'
    BY <1>2, <1>5, <1>6, <1>8, <1>14, <2>1 DEF StageOK, Unwritten, Written, None
  <2> QED BY <1>4, <1>7, <1>11, <2>3, <2>4, <2>5, <2>6 DEF IInv
<1> QED BY <1>13, <1>14, Zenon

\* A commit fails and leaves some tables written; it is over, and not committed.
LEMMA FailKeeps ==
    ASSUME IInv, NEW tx \in Txns, Fail(tx), UNCHANGED setting
    PROVE  IInv'
<1>1. /\ TypeOK /\ ServerOK /\ CountOK /\ AtomicOK /\ PinnedOK
      /\ \A x \in Txns : OwnerOK(x) /\ StageOK(x)
  BY DEF IInv
<1>2. /\ log' = log /\ copies' = copies /\ seq' = seq /\ up' = up /\ todo' = todo
      /\ active' = active /\ buffer' = buffer /\ ins' = ins /\ prev' = prev /\ rpc' = rpc
      /\ pinned' = pinned /\ warm' = warm /\ acked' = acked /\ refused' = refused
      /\ restarts' = restarts /\ external' = external /\ setting' = setting
  BY Zenon DEF Fail, disk, session, provider, bounds
<1>3. "fail" \in Faults /\ cpc[tx] # "idle"
  BY Zenon DEF Fail
<1>4. TypeOK'
  <2>1. /\ left' \in [Txns -> SUBSET Tables] /\ mutateLock' \in Txns \cup {None}
        /\ cpc' \in [Txns -> {"idle", "lock", "write", "log", "refresh"}]
        /\ reply' \in [Txns -> {None, "committed", "rolledBack", "error"}]
    BY <1>1, Zenon DEF Fail, Answer, TypeOK
  <2>2. locks' \in [Tables -> Txns \cup {None}]
    BY <1>1, Zenon DEF Fail, Unlocked, TypeOK
  <2> QED BY <1>1, <1>2, <2>1, <2>2, Zenon DEF TypeOK
<1>5. \A x \in Txns : /\ Held(x)' = Held(x) /\ Acked(x)' = Acked(x)
                      /\ (Logged(x)' <=> Logged(x)) /\ (Begun(x)' <=> Begun(x))
  BY <1>2, StateFrame, Zenon
<1>6. ServerOK' /\ CountOK'
  BY <1>1, <1>2, ServerFrame, Zenon DEF CountOK
<1>7. AtomicOK' /\ PinnedOK'
  BY <1>2, <1>3 DEF AtomicOK, PinnedOK, Faults
<1>8. /\ cpc'[tx] = "idle" /\ reply'[tx] = "error"
      /\ \A x \in Txns : x # tx => cpc'[x] = cpc[x] /\ left'[x] = left[x] /\ reply'[x] = reply[x]
  BY <1>1, Zenon DEF Fail, Answer, TypeOK
<1>9. mutateLock = tx /\ tx \notin active /\ tx \notin rpc /\ Begun(tx)
  <2>1. OwnerOK(tx)
    BY <1>1, Zenon
  <2> QED BY <1>3, <2>1, Zenon DEF OwnerOK, InHand
<1>10. OwnerOK(tx)'
  BY <1>2, <1>5, <1>8, <1>9, Zenon DEF OwnerOK, InHand
<1>11. StageOK(tx)'
  BY <1>2, <1>5, <1>8, <1>9, Zenon DEF StageOK, Unwritten
<1>12. ASSUME NEW x \in Txns, x # tx PROVE OwnerOK(x)' /\ StageOK(x)'
  BY <1>1, <1>2, <1>5, <1>8, <1>9, <1>12, Frame, Zenon
<1> QED BY <1>4, <1>6, <1>7, <1>10, <1>11, <1>12 DEF IInv

\* A refresh brings one provider up with its table.  It only meets a provider that
\* is elsewhere when something else has moved provider or table.
LEMMA RefreshKeeps ==
    ASSUME IInv, NEW tx \in Txns, Refresh(tx), UNCHANGED setting
    PROVE  IInv'
<1> DEFINE t == Min(left[tx])
<1>1. /\ TypeOK /\ ServerOK /\ CountOK /\ AtomicOK /\ PinnedOK
      /\ \A x \in Txns : OwnerOK(x) /\ StageOK(x)
  BY DEF IInv
<1>2. /\ log' = log /\ copies' = copies /\ seq' = seq /\ up' = up /\ todo' = todo
      /\ active' = active /\ buffer' = buffer /\ ins' = ins /\ locks' = locks /\ prev' = prev
      /\ rpc' = rpc /\ warm' = warm /\ acked' = acked /\ refused' = refused
      /\ restarts' = restarts /\ external' = external /\ setting' = setting
  BY Zenon DEF Refresh, disk, session, bounds
<1>3. cpc[tx] = "refresh"
  BY Zenon DEF Refresh
<1>4. IF pinned[t] # prev[<<tx, t>>]
      THEN Answer(tx, "error") /\ pinned' = pinned
      ELSE /\ pinned' = [pinned EXCEPT ![t] = prev[<<tx, t>>] + 1]
           /\ IF left[tx] = {t} THEN Answer(tx, "committed")
              ELSE /\ left' = [left EXCEPT ![tx] = @ \ {t}]
                   /\ cpc' = cpc /\ mutateLock' = mutateLock /\ reply' = reply
  BY Zenon DEF Refresh
<1>5. t \in left[tx] /\ t \in Tables /\ <<tx, t>> \in Batches
  BY <1>1, <1>3, NextTable, Zenon DEF Batches
<1> HIDE DEF t
<1>6. TypeOK'
  <2>1. /\ left' \in [Txns -> SUBSET Tables] /\ mutateLock' \in Txns \cup {None}
        /\ cpc' \in [Txns -> {"idle", "lock", "write", "log", "refresh"}]
        /\ reply' \in [Txns -> {None, "committed", "rolledBack", "error"}]
    BY <1>1, <1>4 DEF Answer, TypeOK
  <2>2. pinned' \in [Tables -> Nat]
    BY <1>1, <1>4, <1>5 DEF TypeOK
  <2> QED BY <1>1, <1>2, <2>1, <2>2, Zenon DEF TypeOK
<1>7. \A x \in Txns : /\ Held(x)' = Held(x) /\ Acked(x)' = Acked(x)
                      /\ (Logged(x)' <=> Logged(x)) /\ (Begun(x)' <=> Begun(x))
  BY <1>2, StateFrame
<1>8. ServerOK' /\ CountOK'
  BY <1>1, <1>2, ServerFrame DEF CountOK
<1>9. /\ left[tx] \subseteq buffer[tx] /\ Held(tx) = buffer[tx] /\ buffer[tx] = Acked(tx)
      /\ reply[tx] = None /\ Begun(tx) /\ Logged(tx) /\ up = "serving"
      /\ tx \notin active /\ tx \notin rpc /\ mutateLock = tx
  <2>1. OwnerOK(tx) /\ StageOK(tx)
    BY <1>1
  <2> QED BY <1>3, <2>1, Zenon DEF OwnerOK, InHand, StageOK, Written
<1>10. \A x \in Txns : x # tx => cpc'[x] = cpc[x] /\ left'[x] = left[x] /\ reply'[x] = reply[x]
  BY <1>1, <1>4 DEF Answer, TypeOK
<1>11. \A x \in Txns : x # tx => Ahead(x) = {} /\ Ahead(x)' = {}
  BY <1>3, <1>10, OneCommit, Zenon DEF Ahead
<1>12. ASSUME NEW x \in Txns, x # tx PROVE OwnerOK(x)' /\ StageOK(x)'
  BY <1>1, <1>2, <1>7, <1>9, <1>10, <1>12, Frame, Zenon
<1>13. \/ cpc'[tx] = "idle" /\ reply'[tx] \in {"error", "committed"}
       \/ /\ cpc'[tx] = "refresh" /\ reply'[tx] = None /\ mutateLock' = tx
          /\ left'[tx] = left[tx] \ {t} /\ left[tx] # {t}
  BY <1>1, <1>3, <1>4, <1>9 DEF Answer, TypeOK
<1>14. AtomicOK'
  BY <1>1, <1>2, <1>7, <1>9, <1>10, AtomicFrame, Zenon
<1>15. OwnerOK(tx)'
  BY <1>2, <1>7, <1>9, <1>13, Zenon DEF OwnerOK, InHand
<1>16. StageOK(tx)'
  <2>1. CASE cpc'[tx] = "idle"
    BY <1>2, <1>7, <1>9, <1>13, <2>1, Zenon DEF StageOK, Unwritten
  <2>2. CASE cpc'[tx] = "refresh"
    <3>1. left'[tx] # {} /\ left'[tx] \subseteq buffer'[tx]
      BY <1>2, <1>5, <1>9, <1>13, <2>2, Zenon
    <3> QED BY <1>2, <1>7, <1>9, <1>13, <2>2, <3>1, Zenon DEF StageOK, Unwritten, Written, None
  <2> QED BY <1>13, <2>1, <2>2, Zenon
<1>17. PinnedOK'
  <2> SUFFICES ASSUME "query" \notin Kinds, Faults = {}
               PROVE  /\ \A x \in Txns : reply'[x] # "error"
                      /\ \A u \in Tables : (\A x \in Txns : u \notin Ahead(x)') => pinned'[u] = seq'[u]
                      /\ \A x \in Txns : \A u \in Ahead(x)' :
                            pinned'[u] = prev'[<<x, u>>] /\ seq'[u] = prev'[<<x, u>>] + 1
    BY <1>2, Zenon DEF PinnedOK, Kinds, Faults
  <2>1. /\ \A x \in Txns : reply[x] # "error"
        /\ \A u \in Tables : (\A x \in Txns : u \notin Ahead(x)) => pinned[u] = seq[u]
        /\ \A x \in Txns : \A u \in Ahead(x) :
              pinned[u] = prev[<<x, u>>] /\ seq[u] = prev[<<x, u>>] + 1
    BY <1>1 DEF PinnedOK
  <2>2. Ahead(tx) = left[tx]
    BY <1>3, Zenon DEF Ahead
  <2>3. pinned[t] = prev[<<tx, t>>] /\ seq[t] = prev[<<tx, t>>] + 1
    BY <1>5, <2>1, <2>2
  <2>4. pinned'[t] = seq[t] /\ \A u \in Tables : u # t => pinned'[u] = pinned[u]
    BY <1>1, <1>4, <1>5, <2>3 DEF TypeOK
  <2>5. reply'[tx] # "error" /\ Ahead(tx)' = left[tx] \ {t}
    <3>1. CASE left[tx] = {t}
      <4>1. cpc'[tx] = "idle" /\ reply'[tx] = "committed"
        BY <1>1, <1>4, <2>3, <3>1 DEF Answer, TypeOK
      <4> QED BY <3>1, <4>1 DEF Ahead
    <3>2. CASE left[tx] # {t}
      <4>1. cpc'[tx] = "refresh" /\ reply'[tx] = None /\ left'[tx] = left[tx] \ {t}
        BY <1>1, <1>3, <1>4, <1>9, <2>3, <3>2 DEF TypeOK
      <4> QED BY <4>1, Zenon DEF Ahead, None
    <3> QED BY <3>1, <3>2
  <2>6. \A u \in Tables : (\A x \in Txns : u \notin Ahead(x)') => pinned'[u] = seq'[u]
    <3> SUFFICES ASSUME NEW u \in Tables, \A x \in Txns : u \notin Ahead(x)', u # t
                 PROVE  pinned[u] = seq[u]
      BY <1>2, <2>4
    <3>1. \A x \in Txns : u \notin Ahead(x)
      BY <1>11, <2>2, <2>5
    <3> QED BY <2>1, <3>1
  <2>7. \A x \in Txns : \A u \in Ahead(x)' :
           pinned'[u] = prev'[<<x, u>>] /\ seq'[u] = prev'[<<x, u>>] + 1
    <3> SUFFICES ASSUME NEW u \in left[tx], u # t
                 PROVE  pinned'[u] = prev[<<tx, u>>] /\ seq[u] = prev[<<tx, u>>] + 1
      BY <1>2, <1>11, <2>5
    <3>1. u \in Tables
      BY <1>1, Zenon DEF TypeOK
    <3> QED BY <2>1, <2>2, <2>4, <3>1
  <2> QED BY <1>10, <2>1, <2>5, <2>6, <2>7, Zenon
<1> QED BY <1>6, <1>8, <1>12, <1>14, <1>15, <1>16, <1>17 DEF IInv

\* A query only moves the pin of a provider.
LEMMA QueryKeeps ==
    ASSUME IInv, NEW t \in Tables, Query(t), UNCHANGED setting
    PROVE  IInv'
<1>1. /\ TypeOK /\ ServerOK /\ CountOK /\ AtomicOK /\ PinnedOK
      /\ \A x \in Txns : OwnerOK(x) /\ StageOK(x)
  BY Zenon DEF IInv
<1>2. /\ log' = log /\ copies' = copies /\ seq' = seq /\ up' = up /\ todo' = todo
      /\ active' = active /\ buffer' = buffer /\ ins' = ins /\ mutateLock' = mutateLock
      /\ locks' = locks /\ cpc' = cpc /\ left' = left /\ prev' = prev /\ rpc' = rpc
      /\ acked' = acked /\ refused' = refused /\ reply' = reply /\ restarts' = restarts
      /\ external' = external /\ setting' = setting
  BY Zenon DEF Query, disk, session, commit, client, bounds
<1>3. Max({pinned[t], seq[t]}) \in Nat
  <2>1. pinned[t] \in Nat /\ seq[t] \in Nat
    BY <1>1, Zenon DEF TypeOK
  <2>2. \E m \in {pinned[t], seq[t]} : \A n \in {pinned[t], seq[t]} : m >= n
    BY <2>1
  <2> QED BY <2>1, <2>2, Zenon DEF Max
<1>4. TypeOK'
  <2>1. pinned' \in [Tables -> Nat] /\ warm' \in [Tables -> BOOLEAN]
    BY <1>1, <1>3, Zenon DEF Query, TypeOK
  <2> QED BY <1>1, <1>2, <2>1, Zenon DEF TypeOK
<1>5. \A x \in Txns : /\ Held(x)' = Held(x) /\ Acked(x)' = Acked(x)
                      /\ (Logged(x)' <=> Logged(x)) /\ (Begun(x)' <=> Begun(x))
  BY <1>2, StateFrame, Zenon
<1>6. ServerOK' /\ CountOK'
  BY <1>1, <1>2, ServerFrame, Zenon DEF CountOK
<1>7. AtomicOK'
  BY <1>1, <1>2, <1>5, AtomicFrame, Zenon
<1>8. PinnedOK'
  BY <1>2, Zenon DEF Query, PinnedOK, Kinds
<1>9. ASSUME NEW x \in Txns PROVE OwnerOK(x)' /\ StageOK(x)'
  BY <1>1, <1>2, <1>5, Frame, Zenon
<1> QED BY <1>4, <1>6, <1>7, <1>8, <1>9 DEF IInv

\* Another process only moves the sequence of a table.
LEMMA ExternalKeeps ==
    ASSUME IInv, NEW t \in Tables, External(t), UNCHANGED setting
    PROVE  IInv'
<1>1. /\ TypeOK /\ ServerOK /\ CountOK /\ AtomicOK /\ PinnedOK
      /\ \A x \in Txns : OwnerOK(x) /\ StageOK(x)
  BY DEF IInv
<1>2. /\ log' = log /\ copies' = copies /\ up' = up /\ todo' = todo /\ active' = active
      /\ buffer' = buffer /\ ins' = ins /\ mutateLock' = mutateLock /\ locks' = locks
      /\ cpc' = cpc /\ left' = left /\ prev' = prev /\ rpc' = rpc /\ pinned' = pinned
      /\ warm' = warm /\ acked' = acked /\ refused' = refused /\ reply' = reply
      /\ restarts' = restarts /\ setting' = setting
  BY Zenon DEF External, session, commit, provider, client
<1>3. TypeOK'
  <2>1. seq' \in [Tables -> Nat] /\ external' \in Nat
    BY <1>1 DEF External, TypeOK
  <2> QED BY <1>1, <1>2, <2>1, Zenon DEF TypeOK
<1>4. \A x \in Txns : /\ Held(x)' = Held(x) /\ Acked(x)' = Acked(x)
                      /\ (Logged(x)' <=> Logged(x)) /\ (Begun(x)' <=> Begun(x))
  BY <1>2, StateFrame, Zenon
<1>5. ServerOK' /\ CountOK'
  BY <1>1, <1>2, ServerFrame, Zenon DEF CountOK
<1>6. AtomicOK'
  BY <1>1, <1>2, <1>4, AtomicFrame, Zenon
<1>7. PinnedOK'
  BY <1>2, Zenon DEF External, PinnedOK, Faults
<1>8. ASSUME NEW x \in Txns PROVE OwnerOK(x)' /\ StageOK(x)'
  BY <1>1, <1>2, <1>4, Frame, Zenon
<1> QED BY <1>3, <1>5, <1>6, <1>7, <1>8 DEF IInv

\* A crash takes every transaction out of every hand and leaves the disk as it is.
LEMMA CrashKeeps ==
    ASSUME IInv, Crash, UNCHANGED setting
    PROVE  IInv'
<1>1. /\ TypeOK /\ ServerOK /\ CountOK /\ AtomicOK /\ PinnedOK
      /\ \A x \in Txns : OwnerOK(x) /\ StageOK(x)
  BY Zenon DEF IInv
<1>2. /\ log' = log /\ copies' = copies /\ seq' = seq /\ pinned' = pinned /\ warm' = warm
      /\ acked' = acked /\ refused' = refused /\ reply' = reply /\ external' = external
      /\ setting' = setting
  BY Zenon DEF Crash, disk, provider, client
<1>3. /\ "crash" \in Faults /\ restarts' = restarts + 1 /\ up' = "down" /\ todo' = {}
      /\ active' = {} /\ rpc' = {} /\ mutateLock' = None
      /\ \A x \in Txns : cpc'[x] = "idle" /\ buffer'[x] = {}
  BY Zenon DEF Crash
<1>4. TypeOK'
  <2>1. /\ buffer' \in [Txns -> SUBSET Tables] /\ ins' \in [Txns -> Tables \cup {0}]
        /\ locks' \in [Tables -> Txns \cup {None}] /\ left' \in [Txns -> SUBSET Tables]
        /\ cpc' \in [Txns -> {"idle", "lock", "write", "log", "refresh"}]
        /\ prev' \in [Batches -> Nat] /\ restarts' \in Nat
    BY <1>1 DEF Crash, TypeOK
  <2> QED BY <1>1, <1>2, <1>3, <2>1, Zenon DEF TypeOK
<1>5. \A x \in Txns : /\ Held(x)' = Held(x) /\ Acked(x)' = Acked(x)
                      /\ (Logged(x)' <=> Logged(x)) /\ (Begun(x)' <=> Begun(x))
  BY <1>2, StateFrame, Zenon
<1>6. ServerOK' /\ CountOK'
  <2>1. restarts \in Nat
    BY <1>1, Zenon DEF TypeOK
  <2>2. restarts' # 0
    BY <1>3, <2>1
  <2> QED BY <1>3, <2>2, Zenon DEF ServerOK, CountOK
<1>7. AtomicOK' /\ PinnedOK'
  BY <1>2, <1>3 DEF AtomicOK, PinnedOK, Faults
<1>8. ASSUME NEW x \in Txns PROVE OwnerOK(x)' /\ StageOK(x)'
  <2>1. OwnerOK(x) /\ StageOK(x)
    BY <1>1, Zenon
  <2>2. OwnerOK(x)'
    BY <1>2, <1>3, <1>5, <2>1, Zenon DEF OwnerOK, InHand
  <2>3. StageOK(x)'
    BY <1>2, <1>3, <1>5, <2>1, Zenon DEF StageOK, Unwritten
  <2> QED BY <2>2, <2>3, Zenon
<1> QED BY <1>4, <1>6, <1>7, <1>8, Zenon DEF IInv

\* While the server is not serving no request has a transaction, and it has
\* crashed before.
LEMMA NotServing ==
    ASSUME IInv, up # "serving"
    PROVE  /\ restarts # 0 /\ ~(Faults \subseteq {"external"}) /\ Faults # {}
           /\ \A x \in Txns : ~InHand(x)
BY Zenon DEF IInv, ServerOK, AtomicOK, OwnerOK

\* Recovery takes up transactions with a commit record only.
LEMMA StartKeeps ==
    ASSUME IInv, Start, UNCHANGED setting
    PROVE  IInv'
<1>1. /\ TypeOK /\ ServerOK /\ CountOK /\ AtomicOK /\ PinnedOK
      /\ \A x \in Txns : OwnerOK(x) /\ StageOK(x)
  BY DEF IInv
<1>2. /\ log' = log /\ copies' = copies /\ seq' = seq /\ active' = active /\ buffer' = buffer
      /\ ins' = ins /\ mutateLock' = mutateLock /\ locks' = locks /\ cpc' = cpc /\ left' = left
      /\ prev' = prev /\ rpc' = rpc /\ acked' = acked /\ refused' = refused /\ reply' = reply
      /\ restarts' = restarts /\ external' = external /\ setting' = setting
  BY Zenon DEF Start, disk, session, commit, client, bounds
<1>3. up = "down" /\ up' = "recovering" /\ pinned' = seq /\ warm' = [t \in Tables |-> FALSE]
  BY Zenon DEF Start
<1>4. todo' \subseteq Batches /\ \A b \in todo' : Logged(b[1])
  BY Zenon DEF Start, Committed, Logged
<1>5. TypeOK'
  BY <1>1, <1>2, <1>3, <1>4, Zenon DEF TypeOK
<1>6. \A x \in Txns : /\ Held(x)' = Held(x) /\ Acked(x)' = Acked(x)
                      /\ (Logged(x)' <=> Logged(x)) /\ (Begun(x)' <=> Begun(x))
  BY <1>2, StateFrame, Zenon
<1>7. /\ restarts # 0 /\ ~(Faults \subseteq {"external"}) /\ Faults # {}
      /\ \A x \in Txns : ~InHand(x)
  BY <1>3, NotServing, Zenon
<1>8. ServerOK' /\ CountOK'
  BY <1>2, <1>3, <1>4, <1>7, Zenon DEF ServerOK, CountOK, Logged
<1>9. AtomicOK' /\ PinnedOK'
  BY <1>2, <1>7, Zenon DEF AtomicOK, PinnedOK, Faults
<1>10. ASSUME NEW x \in Txns PROVE OwnerOK(x)' /\ StageOK(x)'
  BY <1>1, <1>2, <1>6, <1>7, Frame, Zenon
<1> QED BY <1>5, <1>8, <1>9, <1>10 DEF IInv

\* Recovery adds to the tables of a transaction with a commit record, which no
\* request has and which is not rolled back.
LEMMA RecoverKeeps ==
    ASSUME IInv, Recover, UNCHANGED setting
    PROVE  IInv'
<1>1. /\ TypeOK /\ ServerOK /\ CountOK /\ AtomicOK /\ PinnedOK
      /\ \A x \in Txns : OwnerOK(x) /\ StageOK(x)
  BY DEF IInv
<1>2. /\ log' = log /\ up' = up /\ active' = active /\ buffer' = buffer /\ ins' = ins
      /\ mutateLock' = mutateLock /\ locks' = locks /\ cpc' = cpc /\ left' = left
      /\ prev' = prev /\ rpc' = rpc /\ pinned' = pinned /\ warm' = warm /\ acked' = acked
      /\ refused' = refused /\ reply' = reply /\ restarts' = restarts
      /\ external' = external /\ setting' = setting /\ up = "recovering"
  BY Zenon DEF Recover, session, commit, provider, client, bounds
<1>3. PICK b \in todo : /\ copies' = [copies EXCEPT ![b] = @ + 1]
                        /\ seq' = [seq EXCEPT ![b[2]] = @ + 1] /\ todo' = todo \ {b}
  BY Zenon DEF Recover
<1>4. b \in Batches /\ b[1] \in Txns /\ b[2] \in Tables /\ Logged(b[1])
  BY <1>1, Zenon DEF TypeOK, Batches, ServerOK
<1>5. TypeOK'
  <2>1. copies' \in [Batches -> Nat] /\ seq' \in [Tables -> Nat]
    BY <1>1, <1>3, <1>4 DEF TypeOK
  <2> QED BY <1>1, <1>2, <1>3, <2>1 DEF TypeOK
<1>6. \A x \in Txns : /\ Acked(x)' = Acked(x)
                      /\ (Logged(x)' <=> Logged(x)) /\ (Begun(x)' <=> Begun(x))
  BY <1>2, StateFrame
<1>7. /\ restarts # 0 /\ ~(Faults \subseteq {"external"}) /\ Faults # {}
      /\ \A x \in Txns : ~InHand(x)
  BY <1>2, NotServing
<1>8. ServerOK' /\ CountOK'
  BY <1>1, <1>2, <1>3, <1>7 DEF ServerOK, CountOK, Logged
<1>9. AtomicOK' /\ PinnedOK'
  BY <1>2, <1>7, Zenon DEF AtomicOK, PinnedOK, Faults
<1>10. \A x \in Txns : \A t \in Tables :
         /\ copies[<<x, t>>] \in Nat
         /\ copies'[<<x, t>>] = IF b = <<x, t>> THEN copies[<<x, t>>] + 1 ELSE copies[<<x, t>>]
  BY <1>1, <1>3, <1>4, Zenon DEF TypeOK, Batches
<1>11. ASSUME NEW x \in Txns, x # b[1] PROVE OwnerOK(x)' /\ StageOK(x)'
  <2>1. Held(x)' = Held(x)
    BY <1>10, <1>11 DEF Held
  <2> QED BY <1>1, <1>2, <1>6, <2>1, Frame, Zenon
<1>12. OwnerOK(b[1])' /\ StageOK(b[1])'
  <2> DEFINE x == b[1]
  <2>1. x \in Txns /\ OwnerOK(x) /\ StageOK(x) /\ ~InHand(x) /\ Logged(x)
    BY <1>1, <1>4, <1>7
  <2>2. Held(x) \subseteq Held(x)'
    BY <1>4, <1>10 DEF Held
  <2> HIDE DEF x
  <2>3. ~Unwritten(x)
    BY <2>1, Zenon DEF StageOK
  <2>4. Unwritten(x)' <=> Unwritten(x)
    BY <1>2, <1>6, <2>1, Zenon DEF Unwritten
  <2>5. OwnerOK(x)'
    BY <1>2, <1>6, <2>1, Zenon DEF OwnerOK, InHand
  <2>6. StageOK(x)'
    BY <1>2, <1>6, <2>1, <2>2, <2>3, <2>4, Zenon DEF StageOK, InHand
  <2> QED BY <2>5, <2>6 DEF x
<1> QED BY <1>5, <1>8, <1>9, <1>11, <1>12, Zenon DEF IInv

\* The server serves again when recovery has nothing left.
LEMMA ServeKeeps ==
    ASSUME IInv, Serve, UNCHANGED setting
    PROVE  IInv'
<1>1. /\ TypeOK /\ ServerOK /\ CountOK /\ AtomicOK /\ PinnedOK
      /\ \A x \in Txns : OwnerOK(x) /\ StageOK(x)
  BY DEF IInv
<1>2. /\ log' = log /\ copies' = copies /\ seq' = seq /\ todo' = todo /\ active' = active
      /\ buffer' = buffer /\ ins' = ins /\ mutateLock' = mutateLock /\ locks' = locks
      /\ cpc' = cpc /\ left' = left /\ prev' = prev /\ rpc' = rpc /\ pinned' = pinned
      /\ warm' = warm /\ acked' = acked /\ refused' = refused /\ reply' = reply
      /\ restarts' = restarts /\ external' = external /\ setting' = setting
  BY Zenon DEF Serve, disk, session, commit, provider, client, bounds
<1>3. up = "recovering" /\ todo = {} /\ up' = "serving"
  BY Zenon DEF Serve
<1>4. TypeOK'
  BY <1>1, <1>2, <1>3, Zenon DEF TypeOK
<1>5. \A x \in Txns : /\ Held(x)' = Held(x) /\ Acked(x)' = Acked(x)
                      /\ (Logged(x)' <=> Logged(x)) /\ (Begun(x)' <=> Begun(x))
  BY <1>2, StateFrame, Zenon
<1>6. /\ restarts # 0 /\ ~(Faults \subseteq {"external"}) /\ Faults # {}
      /\ \A x \in Txns : ~InHand(x)
  BY <1>3, NotServing, Zenon
<1>7. ServerOK' /\ CountOK'
  BY <1>2, <1>3, <1>6, Zenon DEF ServerOK, CountOK
<1>8. AtomicOK' /\ PinnedOK'
  BY <1>2, <1>6, Zenon DEF AtomicOK, PinnedOK, Faults
<1>9. ASSUME NEW x \in Txns PROVE OwnerOK(x)' /\ StageOK(x)'
  BY <1>1, <1>2, <1>5, <1>6, Frame, Zenon
<1> QED BY <1>4, <1>7, <1>8, <1>9 DEF IInv

\* No step of a request, of another process or of a restart breaks the invariant.
LEMMA NextIInv ==
    ASSUME IInv, [Next]_vars
    PROVE  IInv'
<1>1. CASE Next
  <2>1. ASSUME NEW tx \in Txns,
               \/ Begin(tx) \/ BufferInsert(tx) \/ Rollback(tx) \/ LogRollback(tx)
               \/ Take(tx) \/ LockTable(tx) \/ CommitTable(tx) \/ LogCommit(tx) \/ Refresh(tx)
               \/ Fail(tx)
        PROVE  IInv'
    BY <1>1, <2>1, BeginKeeps, BufferInsertKeeps, RollbackKeeps, LogRollbackKeeps, TakeKeeps,
       LockTableKeeps, CommitTableKeeps, LogCommitKeeps, RefreshKeeps, FailKeeps DEF Next
  <2>2. ASSUME NEW tx \in Txns, NEW t \in Tables, LogInsert(tx, t) PROVE IInv'
    BY <1>1, <2>2, LogInsertKeeps, Zenon DEF Next
  <2>3. ASSUME NEW t \in Tables, Query(t) \/ External(t) PROVE IInv'
    BY <1>1, <2>3, QueryKeeps, ExternalKeeps, Zenon DEF Next
  <2>4. CASE Crash \/ Start \/ Recover \/ Serve
    BY <1>1, <2>4, CrashKeeps, StartKeeps, RecoverKeeps, ServeKeeps, Zenon DEF Next
  <2> QED BY <1>1, <2>1, <2>2, <2>3, <2>4, Zenon DEF Next, Step
<1>2. CASE UNCHANGED vars
  <2>1. /\ TypeOK /\ ServerOK /\ CountOK /\ AtomicOK /\ PinnedOK
        /\ \A x \in Txns : OwnerOK(x) /\ StageOK(x)
    BY Zenon DEF IInv
  <2>2. /\ log' = log /\ copies' = copies /\ seq' = seq /\ up' = up /\ todo' = todo
        /\ active' = active /\ buffer' = buffer /\ ins' = ins /\ mutateLock' = mutateLock
        /\ locks' = locks /\ cpc' = cpc /\ left' = left /\ prev' = prev /\ rpc' = rpc
        /\ pinned' = pinned /\ warm' = warm /\ acked' = acked /\ refused' = refused
        /\ reply' = reply /\ restarts' = restarts /\ external' = external /\ setting' = setting
    BY <1>2, Zenon DEF vars, disk, session, commit, provider, client, bounds
  <2>3. TypeOK'
    BY <2>1, <2>2, Zenon DEF TypeOK
  <2>4. \A x \in Txns : /\ Held(x)' = Held(x) /\ Acked(x)' = Acked(x) /\ Ahead(x)' = Ahead(x)
                        /\ (Logged(x)' <=> Logged(x)) /\ (Begun(x)' <=> Begun(x))
    BY <2>2, StateFrame, Zenon
  <2>5. ServerOK' /\ CountOK'
    BY <2>1, <2>2, ServerFrame DEF CountOK
  <2>6. AtomicOK' /\ PinnedOK'
    BY <2>1, <2>2, <2>4, AtomicFrame, PinnedFrame, Zenon
  <2>7. ASSUME NEW x \in Txns PROVE OwnerOK(x)' /\ StageOK(x)'
    BY <2>1, <2>2, <2>4, Frame, Zenon
  <2> QED BY <2>3, <2>5, <2>6, <2>7 DEF IInv
<1> QED BY <1>1, <1>2, Zenon

-----------------------------------------------------------------------------
(***************************************************************************)
(* Theorems.                                                               *)
(***************************************************************************)

\* The invariant holds throughout: a transaction is in the hands of one request,
\* and log, tables and providers are where its step says.
THEOREM Invariance == Spec => []IInv
<1>1. Init => IInv
  BY InitIInv, Zenon
<1>2. IInv /\ [Next]_vars => IInv'
  BY NextIInv, Zenon
<1> QED BY <1>1, <1>2, PTL DEF Spec

\* While no commit stops half way, a transaction is one atomic batch: outside its
\* commit the tables hold all of the inserts the client was told are in it or none
\* (transaction.rs:75-92, transaction.rs:141-147).
THEOREM TransactionsAreAtomic == Spec => []AtomicBatch
<1>1. IInv => AtomicBatch
  BY Zenon DEF IInv, AtomicOK, AtomicBatch
<1> QED BY <1>1, Invariance, PTL

\* No batch is in its table twice before a restart, and nothing of a transaction
\* that was reported rolled back is ever in a table (transaction.rs:83-92,
\* transaction.rs:141-154).
THEOREM BatchesAreWrittenOnce == Spec => []ExactlyOnce
<1>1. IInv => ExactlyOnce
  BY Zenon DEF IInv, CountOK, StageOK, Unwritten, ExactlyOnce
<1> QED BY <1>1, Invariance, PTL

\* What was reported committed has every acknowledged insert in its table, through
\* crashes and recoveries; and without queries and faults a commit in the log is
\* not reported as an error (transaction.rs:130-138, server.rs:37-44).
THEOREM CommitsSurvive == Spec => []AckedCommitSurvives
<1>1. IInv => AckedCommitSurvives
  BY Zenon DEF IInv, StageOK, PinnedOK, AckedCommitSurvives
<1> QED BY <1>1, Invariance, PTL
=============================================================================
