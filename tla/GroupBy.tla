------------------------------ MODULE GroupBy -------------------------------
(***************************************************************************)
(* The streaming group-by of execution/streaming_group_by.rs over one      *)
(* partition of its input.  It keeps a running group for every key it has  *)
(* seen and not emitted, and emits the groups below the first key of a     *)
(* batch when that key grows, trusting the input to be in key order.       *)
(*                                                                         *)
(* A row is its position in the input, and its group key the rank of its   *)
(* encoded key among all keys (a NULL comes first).  An accumulator is the *)
(* set of rows it has taken in: COUNT, SUM and AVG are functions of it.    *)
(***************************************************************************)
EXTENDS Integers, Sequences

VARIABLES
    input,      \* the group keys of the rows of the partition, in scan order
    pos,        \* the rows the operator has taken in
    groups,     \* StreamingState.groups: the set of running groups
    drained,    \* StreamingState.drained_up_to, <<>> or <<key>>
    emitted,    \* the output batches sent to the consumer, each a set of groups
    phase       \* "idle", "reading", "done" or "unsorted"

streamVars == <<input, pos, groups, drained, emitted, phase>>

Group(k, rows) == [key |-> k, rows |-> rows]

StreamInit ==
    /\ input = <<>>
    /\ pos = 0
    /\ groups = {}
    /\ drained = <<>>
    /\ emitted = <<>>
    /\ phase = "idle"

(* execute: the state a partition's stream starts in. *)
StreamOpen(in) ==
    /\ input' = in
    /\ pos' = 0
    /\ groups' = {}
    /\ drained' = <<>>
    /\ emitted' = <<>>
    /\ phase' = "reading"

Taken(k, last) == {i \in 1..last : input[i] = k}

KeysOf(gs) == {g.key : g \in gs}

(* The rows of a batch of n, each in the group of its key. *)
Absorb(gs, n) ==
    LET batch == (pos + 1)..(pos + n)
        of(k) == {j \in batch : input[j] = k}
    IN {Group(g.key, g.rows \union of(g.key)) : g \in gs}
           \union {Group(input[i], of(input[i])) : i \in {j \in batch : input[j] \notin KeysOf(gs)}}

(* An output batch goes out unless it would be empty.  The stream hands it *)
(* over before it reads on, so that the batches keep their order.          *)
Sent(out) == IF out = {} THEN emitted ELSE Append(emitted, out)

(* Wrong on purpose: the group the batch begins with goes out as well. *)
BelowOrAt(gs, k) == {g \in gs : g.key <= k}

(* drain_groups_lt: the groups below the threshold. *)
Below(gs, k) == {g \in gs : g.key < k}

(* Wrong on purpose: the drained groups stay in the map. *)
AllKept(gs, out) == gs

(* drain_groups_lt: the groups that stay in the map, split off from those  *)
(* that go out.                                                            *)
Kept(gs, out) == gs \ out

(* process_batch: a first key below the last threshold is refused, a key   *)
(* above it drains the groups below it.                                    *)
ProcessBatch(n) ==
    /\ phase = "reading"
    /\ n \in 1..(Len(input) - pos)
    /\ LET first == input[pos + 1]
           out == IF drained # <<>> /\ first > drained[1] THEN Below(groups, first) ELSE {}
       IN IF drained # <<>> /\ first < drained[1]
          THEN phase' = "unsorted" /\ UNCHANGED <<pos, groups, drained, emitted>>
          ELSE /\ drained' = <<first>>
               /\ emitted' = Sent(out)
               /\ groups' = Absorb(Kept(groups, out), n)
               /\ pos' = pos + n
               /\ UNCHANGED phase
    /\ UNCHANGED input

(* Wrong on purpose: the last groups are not flushed. *)
EndOfStreamUnflushed ==
    /\ phase = "reading"
    /\ pos = Len(input)
    /\ phase' = "done"
    /\ UNCHANGED <<input, pos, groups, drained, emitted>>

(* flush_remaining at the end of the input. *)
EndOfStream ==
    /\ phase = "reading"
    /\ pos = Len(input)
    /\ emitted' = Sent(groups)
    /\ groups' = {}
    /\ phase' = "done"
    /\ UNCHANGED <<input, pos, drained>>

StreamNext ==
    \/ phase # "reading" /\ input' \in Seq(Int) /\ StreamOpen(input')
    \/ \E n \in 1..Len(input) : ProcessBatch(n)
    \/ EndOfStream

StreamSpec == StreamInit /\ [][StreamNext]_streamVars

-----------------------------------------------------------------------------
InOrder(keys) == \A i, j \in DOMAIN keys : i < j => keys[i] <= keys[j]

GroupsOut == UNION {emitted[b] : b \in DOMAIN emitted}

(* A group that went out is complete: it holds every row of its key, those *)
(* still to come included (process_batch drains a key only once the input  *)
(* has passed it).                                                         *)
EmittedComplete == InOrder(input) => \A g \in GroupsOut : g.rows = Taken(g.key, Len(input))

(* At the end of an input in key order every key has its group, and the    *)
(* operator never refuses such an input.                                   *)
EveryGroupEmitted ==
    InOrder(input) => /\ phase # "unsorted"
                      /\ phase = "done" => KeysOf(GroupsOut) = {input[i] : i \in DOMAIN input}

(* The consumer never sees a key again: each output batch has one group of *)
(* a key, and all its keys lie above those of the batches before it        *)
(* (drain_groups_lt takes a group out of the map for good, and a key that  *)
(* went out does not come back).                                           *)
EmittedOnce ==
    InOrder(input) =>
        \A b, c \in DOMAIN emitted : \A g \in emitted[b], h \in emitted[c] :
            /\ b < c => g.key < h.key
            /\ b = c /\ g.key = h.key => g = h
=============================================================================
