--------------------------- MODULE GroupByProofs ----------------------------
(***************************************************************************)
(* What GroupBy promises of an input in key order, for every input, every  *)
(* cut of it into batches and every number of streams one after another.   *)
(***************************************************************************)
EXTENDS GroupBy, TLAPS

GroupType == [key : Int, rows : SUBSET Int]

Shape ==
    /\ input \in Seq(Int)
    /\ pos \in 0..Len(input)
    /\ groups \subseteq GroupType
    /\ drained \in Seq(Int)
    /\ emitted \in Seq(SUBSET GroupType)
    /\ phase \in {"idle", "reading", "done", "unsorted"}

(* The keys of the output batches grow from batch to batch. *)
Ascending ==
    \A b, c \in DOMAIN emitted : b < c => \A g \in emitted[b], h \in emitted[c] : g.key < h.key

(* The running groups hold exactly the rows taken in of their keys, and no *)
(* key below the threshold; the emitted ones lie below it, or the stream   *)
(* is over.  The two together know every key met so far.                   *)
Running ==
    /\ phase # "unsorted"
    /\ drained = <<>> => pos = 0
    /\ drained # <<>> => pos > 0 /\ drained[1] <= input[pos]
    /\ \A g \in groups : /\ g.rows = Taken(g.key, pos)
                         /\ drained # <<>> /\ drained[1] <= g.key
    /\ \A g \in GroupsOut : /\ g.rows = Taken(g.key, Len(input))
                            /\ phase = "done" \/ (drained # <<>> /\ g.key < drained[1])
    /\ Ascending
    /\ KeysOf(groups) \union KeysOf(GroupsOut) = {input[i] : i \in 1..pos}
    /\ phase = "done" => pos = Len(input) /\ groups = {}

StreamInv == Shape /\ (InOrder(input) => Running)

(* The fields of a group. *)
LEMMA GroupFields ==
    ASSUME NEW k, NEW rows
    PROVE  Group(k, rows).key = k /\ Group(k, rows).rows = rows
BY DEF Group

(* What the consumer has after one more output batch, if it is not empty.  *)
LEMMA SentBatches ==
    ASSUME NEW S, emitted \in Seq(SUBSET S), NEW out \in SUBSET S
    PROVE  /\ Sent(out) \in Seq(SUBSET S)
           /\ UNION {Sent(out)[b] : b \in DOMAIN Sent(out)} = GroupsOut \union out
           /\ \A b, c \in DOMAIN Sent(out) : b < c =>
                 /\ b \in DOMAIN emitted /\ Sent(out)[b] = emitted[b]
                 /\ \/ c \in DOMAIN emitted /\ Sent(out)[c] = emitted[c]
                    \/ Sent(out)[c] = out
<1>1. CASE out = {}
    BY <1>1 DEF Sent, GroupsOut
<1>2. CASE out # {}
    <2>1. Sent(out) = Append(emitted, out)
        BY <1>2 DEF Sent
    <2>2. /\ Sent(out) \in Seq(SUBSET S)
          /\ DOMAIN emitted = 1..Len(emitted) /\ Len(emitted) \in Nat
          /\ DOMAIN Sent(out) = 1..(Len(emitted) + 1)
          /\ \A b \in DOMAIN emitted : Sent(out)[b] = emitted[b]
          /\ Sent(out)[Len(emitted) + 1] = out
        BY <2>1
    <2>3. DOMAIN Sent(out) = DOMAIN emitted \union {Len(emitted) + 1}
        BY <2>2
    <2>4. UNION {Sent(out)[b] : b \in DOMAIN Sent(out)} = GroupsOut \union out
        BY <2>2, <2>3 DEF GroupsOut
    <2>5. \A b, c \in DOMAIN Sent(out) : b < c =>
             b \in DOMAIN emitted /\ (c \in DOMAIN emitted \/ c = Len(emitted) + 1)
        BY <2>2
    <2> QED BY <2>2, <2>4, <2>5
<1> QED BY <1>1, <1>2

(* So the groups that went out are those before and the new ones. *)
LEMMA SentGroups ==
    ASSUME NEW S, emitted \in Seq(SUBSET S), NEW out \in SUBSET S, emitted' = Sent(out)
    PROVE  GroupsOut' = GroupsOut \union out
<1>1. GroupsOut' = UNION {Sent(out)[b] : b \in DOMAIN Sent(out)}
    BY Zenon DEF GroupsOut
<1>2. UNION {Sent(out)[b] : b \in DOMAIN Sent(out)} = GroupsOut \union out
    BY SentBatches
<1> QED BY <1>1, <1>2

(* The batches go on ascending when the new one lies above what went out.  *)
LEMMA SentAscending ==
    ASSUME NEW S, emitted \in Seq(SUBSET S), NEW out \in SUBSET S, Ascending,
           \A g \in GroupsOut, h \in out : g.key < h.key, emitted' = Sent(out)
    PROVE  Ascending'
<1> SUFFICES ASSUME NEW b \in DOMAIN Sent(out), NEW c \in DOMAIN Sent(out), b < c,
                    NEW g \in Sent(out)[b], NEW h \in Sent(out)[c]
             PROVE  g.key < h.key
    BY DEF Ascending
<1>1. /\ b \in DOMAIN emitted /\ Sent(out)[b] = emitted[b]
      /\ \/ c \in DOMAIN emitted /\ Sent(out)[c] = emitted[c]
         \/ Sent(out)[c] = out
    BY SentBatches
<1>2. CASE c \in DOMAIN emitted /\ Sent(out)[c] = emitted[c]
    BY <1>1, <1>2 DEF Ascending
<1>3. CASE Sent(out)[c] = out
    BY <1>1, <1>3 DEF GroupsOut
<1> QED BY <1>1, <1>2, <1>3

(* A batch of rows leaves groups. *)
LEMMA AbsorbType ==
    ASSUME Shape, NEW gs \in SUBSET GroupType, NEW n \in 1..(Len(input) - pos)
    PROVE  Absorb(gs, n) \subseteq GroupType
<1> DEFINE batch == (pos + 1)..(pos + n)
           of(k) == {j \in batch : input[j] = k}
<1>1. \A k : of(k) \in SUBSET Int
    BY DEF Shape
<1>2. \A i \in batch : input[i] \in Int
    BY DEF Shape
<1> HIDE DEF of, batch
<1>3. \A g \in gs : Group(g.key, g.rows \union of(g.key)) \in GroupType
    BY <1>1 DEF Group, GroupType
<1>4. \A i \in batch : Group(input[i], of(input[i])) \in GroupType
    BY <1>1, <1>2 DEF Group, GroupType
<1> QED BY <1>3, <1>4 DEF Absorb, of, batch

(* The keys after a batch are the keys before it and those of its rows. *)
LEMMA AbsorbKeys ==
    ASSUME NEW gs, NEW n \in Nat
    PROVE  KeysOf(Absorb(gs, n)) = KeysOf(gs) \union {input[i] : i \in (pos + 1)..(pos + n)}
<1> DEFINE batch == (pos + 1)..(pos + n)
           of(k) == {j \in batch : input[j] = k}
<1>1. ASSUME NEW k \in KeysOf(Absorb(gs, n)) PROVE k \in KeysOf(gs) \union {input[i] : i \in batch}
    <2>1. PICK g \in Absorb(gs, n) : k = g.key
        BY <1>1 DEF KeysOf
    <2>2. CASE \E h \in gs : g = Group(h.key, h.rows \union of(h.key))
        <3>1. PICK h \in gs : g = Group(h.key, h.rows \union of(h.key))
            BY <2>2
        <3>2. g.key = h.key
            BY <3>1, GroupFields
        <3> QED BY <2>1, <3>2 DEF KeysOf
    <2>3. CASE \E i \in batch : g = Group(input[i], of(input[i]))
        <3>1. PICK i \in batch : g = Group(input[i], of(input[i]))
            BY <2>3
        <3>2. g.key = input[i]
            BY <3>1, GroupFields
        <3> QED BY <2>1, <3>2
    <2> QED BY <2>1, <2>2, <2>3 DEF Absorb
<1>2. ASSUME NEW h \in gs PROVE h.key \in KeysOf(Absorb(gs, n))
    <2>1. Group(h.key, h.rows \union of(h.key)) \in Absorb(gs, n)
        BY DEF Absorb
    <2> QED BY <2>1, GroupFields DEF KeysOf
<1>3. ASSUME NEW i \in batch, input[i] \notin KeysOf(gs) PROVE input[i] \in KeysOf(Absorb(gs, n))
    <2>1. Group(input[i], of(input[i])) \in Absorb(gs, n)
        BY <1>3 DEF Absorb
    <2> QED BY <2>1, GroupFields DEF KeysOf
<1>4. \A k \in KeysOf(gs) : k \in KeysOf(Absorb(gs, n))
    BY <1>2 DEF KeysOf
<1> HIDE DEF batch
<1>5. \A i \in batch : input[i] \in KeysOf(Absorb(gs, n))
    BY <1>3, <1>4
<1> QED BY <1>1, <1>4, <1>5 DEF batch

(* Opening a stream starts from nothing taken in. *)
LEMMA OpenKeeps ==
    ASSUME NEW in \in Seq(Int), StreamOpen(in)
    PROVE  StreamInv'
<1>1. Shape'
    BY DEF StreamOpen, Shape
<1>2. Running'
    BY DEF StreamOpen, Running, KeysOf, GroupsOut, Ascending
<1> QED BY <1>1, <1>2 DEF StreamInv

(* A batch of an input in key order keeps the running state. *)
LEMMA BatchKeeps ==
    ASSUME StreamInv, NEW n \in Nat, ProcessBatch(n)
    PROVE  StreamInv'
<1> DEFINE first == input[pos + 1]
           out == IF drained # <<>> /\ first > drained[1] THEN Below(groups, first) ELSE {}
           gs == Kept(groups, out)
<1>1. /\ phase = "reading" /\ n \in 1..(Len(input) - pos) /\ input' = input
      /\ pos \in 0..Len(input) /\ Len(input) \in Nat /\ input \in Seq(Int) /\ first \in Int
    BY DEF ProcessBatch, StreamInv, Shape
<1>2. CASE drained # <<>> /\ first < drained[1]
    <2>1. phase' = "unsorted" /\ UNCHANGED <<pos, groups, drained, emitted>>
        BY <1>2 DEF ProcessBatch
    <2>2. Shape'
        BY <1>1, <2>1 DEF StreamInv, Shape
    <2>3. ~InOrder(input)
        <3> SUFFICES ASSUME InOrder(input) PROVE FALSE
            OBVIOUS
        <3>1. pos > 0 /\ drained[1] <= input[pos]
            BY <1>2 DEF StreamInv, Running
        <3>2. pos \in DOMAIN input /\ pos + 1 \in DOMAIN input
            BY <1>1, <3>1
        <3>3. input[pos] <= first
            BY <1>1, <3>1, <3>2 DEF InOrder
        <3>4. input[pos] \in Int /\ drained[1] \in Int
            <4>1. input[pos] \in Int
                BY <1>1, <3>2
            <4>2. drained \in Seq(Int) /\ drained # <<>>
                BY <1>2 DEF StreamInv, Shape
            <4>3. drained[1] \in Int
                BY <4>2
            <4> QED BY <4>1, <4>3
        <3>5. first \in Int
            BY <1>1
        <3> HIDE DEF first
        <3> QED BY <1>2, <3>1, <3>3, <3>4, <3>5
    <2> QED BY <1>1, <2>2, <2>3 DEF StreamInv
<1>3. CASE ~(drained # <<>> /\ first < drained[1])
    <2>1. /\ drained' = <<first>> /\ emitted' = Sent(out)
          /\ groups' = Absorb(gs, n) /\ pos' = pos + n /\ phase' = phase
        BY <1>3 DEF ProcessBatch
    <2>a. /\ emitted \in Seq(SUBSET GroupType) /\ groups \subseteq GroupType
          /\ out \in SUBSET GroupType /\ gs = groups \ out /\ gs \in SUBSET GroupType
        BY DEF StreamInv, Shape, Below, Kept
    <2>b. Sent(out) \in Seq(SUBSET GroupType) /\ GroupsOut' = GroupsOut \union out
        BY <2>1, <2>a, SentBatches, SentGroups
    <2>c. \A g \in GroupsOut : g \in GroupType
        BY <2>a DEF GroupsOut
    <2>2. Shape'
        <3>1. Absorb(gs, n) \subseteq GroupType
            BY <1>1, <2>a, AbsorbType DEF StreamInv
        <3> HIDE DEF out, gs
        <3> QED BY <1>1, <2>1, <2>b, <3>1 DEF StreamInv, Shape
    <2> SUFFICES ASSUME InOrder(input) PROVE Running'
        BY <1>1, <2>2 DEF StreamInv
    <2>3. Running
        BY DEF StreamInv
    <2>4. \A i \in (pos + 1)..Len(input) : first <= input[i]
        BY <1>1 DEF InOrder
    <2>5. /\ \A i \in 1..Len(input) : input[i] \in Int
          /\ {input[i] : i \in 1..pos} \subseteq Int
        <3>1. \A i \in 1..Len(input) : input[i] \in Int
            BY <1>1
        <3>2. 1..pos \subseteq 1..Len(input)
            BY <1>1
        <3> QED BY <3>1, <3>2, Zenon
    <2>6. drained # <<>> => drained[1] \in Int /\ drained[1] <= first
        <3> SUFFICES ASSUME drained # <<>> PROVE drained[1] \in Int /\ drained[1] <= first
            OBVIOUS
        <3>1. drained[1] \in Int
            BY DEF StreamInv, Shape
        <3> QED BY <1>1, <1>3, <3>1
    <2>7. \A g \in groups : g.key \in Int /\ (g \in out <=> g.key < first)
        <3> SUFFICES ASSUME NEW g \in groups PROVE g.key \in Int /\ (g \in out <=> g.key < first)
            OBVIOUS
        <3>1. drained # <<>> /\ drained[1] <= g.key
            BY <2>3 DEF Running
        <3>2. g.key \in KeysOf(groups)
            BY DEF KeysOf
        <3>3. g.key \in Int
            <4>1. g.key \in {input[i] : i \in 1..pos}
                BY <2>3, <3>2 DEF Running
            <4> QED BY <4>1, <2>5, Zenon
        <3>4. CASE first > drained[1]
            <4>1. out = Below(groups, first)
                BY <3>1, <3>4
            <4> QED BY <3>3, <4>1 DEF Below
        <3>5. CASE ~(first > drained[1])
            BY <3>1, <3>3, <3>5, <2>6, <1>1
        <3> QED BY <3>3, <3>4, <3>5
    <2>8. \A g \in out : g \in groups
        BY DEF Below
    <2>9. \A g \in GroupsOut \union out : g.key < first /\ g.rows = Taken(g.key, Len(input))
        <3>1. \A g \in GroupsOut : g.key < first /\ g.rows = Taken(g.key, Len(input))
            <4> SUFFICES ASSUME NEW g \in GroupsOut PROVE g.key < first /\ g.rows = Taken(g.key, Len(input))
                OBVIOUS
            <4>1. drained # <<>> /\ g.key < drained[1] /\ g.rows = Taken(g.key, Len(input))
                BY <1>1, <2>3 DEF Running
            <4>2. g.key \in Int
                <5>1. g.key \in KeysOf(GroupsOut)
                    BY DEF KeysOf
                <5>2. g.key \in {input[i] : i \in 1..pos}
                    BY <2>3, <5>1 DEF Running
                <5> QED BY <5>2, <2>5, Zenon
            <4> QED BY <4>1, <4>2, <2>6, <1>1
        <3>2. \A g \in out : g.key < first /\ g.rows = Taken(g.key, Len(input))
            <4> SUFFICES ASSUME NEW g \in out PROVE g.key < first /\ g.rows = Taken(g.key, Len(input))
                OBVIOUS
            <4>1. g \in groups /\ g.key < first /\ g.key \in Int
                BY <2>7, <2>8
            <4>2. g.rows = Taken(g.key, pos)
                BY <2>3, <4>1 DEF Running
            <4>3. \A i \in (pos + 1)..Len(input) : input[i] # g.key
                BY <2>4, <2>5, <4>1, <1>1
            <4>4. Taken(g.key, pos) = Taken(g.key, Len(input))
                BY <4>3, <1>1 DEF Taken
            <4> QED BY <4>1, <4>2, <4>4
        <3> QED BY <3>1, <3>2
    <2>10. \A g \in Absorb(gs, n) : g.rows = Taken(g.key, pos + n) /\ first <= g.key
        <3> DEFINE batch == (pos + 1)..(pos + n)
                   of(k) == {j \in batch : input[j] = k}
        <3>1. \A g \in gs : /\ g.rows \union of(g.key) = Taken(g.key, pos + n)
                            /\ first <= g.key
            <4> SUFFICES ASSUME NEW g \in gs
                         PROVE  g.rows \union of(g.key) = Taken(g.key, pos + n) /\ first <= g.key
                OBVIOUS
            <4>1. g.rows = Taken(g.key, pos)
                BY <2>3, <2>a DEF Running
            <4>2. Taken(g.key, pos) \union of(g.key) = Taken(g.key, pos + n)
                BY <1>1 DEF Taken
            <4>3. first <= g.key
                BY <2>7, <2>a, <1>1
            <4> QED BY <4>1, <4>2, <4>3
        <3>2. \A i \in batch : input[i] \notin KeysOf(gs) =>
                 of(input[i]) = Taken(input[i], pos + n) /\ first <= input[i]
            <4> SUFFICES ASSUME NEW i \in batch, input[i] \notin KeysOf(gs)
                         PROVE  of(input[i]) = Taken(input[i], pos + n) /\ first <= input[i]
                OBVIOUS
            <4>1. first <= input[i] /\ input[i] \in Int
                <5>1. i \in (pos + 1)..Len(input) /\ i \in 1..Len(input)
                    BY <1>1
                <5> QED BY <5>1, <2>4, <2>5, Zenon
            <4>2. Taken(input[i], pos) = {}
                <5> SUFFICES ASSUME NEW j \in 1..pos, input[j] = input[i] PROVE FALSE
                    BY DEF Taken
                <5>1. input[i] \in KeysOf(groups) \union KeysOf(GroupsOut)
                    BY <2>3 DEF Running
                <5>2. input[i] \notin KeysOf(GroupsOut)
                    <6> SUFFICES ASSUME input[i] \in KeysOf(GroupsOut) PROVE FALSE
                        OBVIOUS
                    <6>1. PICK h \in GroupsOut : h.key = input[i]
                        BY DEF KeysOf
                    <6>2. h.key < first
                        BY <2>9
                    <6>3. first \in Int
                        BY <1>1
                    <6> HIDE DEF first
                    <6> QED BY <6>1, <6>2, <6>3, <4>1
                <5>3. PICK g \in groups : g.key = input[i]
                    BY <5>1, <5>2 DEF KeysOf
                <5>4. g \notin out
                    <6>1. first \in Int
                        BY <1>1
                    <6>2. g \in out => g.key < first
                        BY <2>7
                    <6> HIDE DEF first, out
                    <6> QED BY <4>1, <5>3, <6>1, <6>2
                <5> QED BY <5>3, <5>4, <2>a DEF KeysOf
            <4>3. Taken(input[i], pos) \union of(input[i]) = Taken(input[i], pos + n)
                BY <1>1 DEF Taken
            <4> QED BY <4>1, <4>2, <4>3
        <3>3. \A g \in Absorb(gs, n) :
                 \/ \E h \in gs : g = Group(h.key, h.rows \union of(h.key))
                 \/ \E i \in batch : input[i] \notin KeysOf(gs) /\ g = Group(input[i], of(input[i]))
            BY DEF Absorb
        <3> SUFFICES ASSUME NEW g \in Absorb(gs, n) PROVE g.rows = Taken(g.key, pos + n) /\ first <= g.key
            OBVIOUS
        <3>4. CASE \E h \in gs : g = Group(h.key, h.rows \union of(h.key))
            <4>1. PICK h \in gs : g = Group(h.key, h.rows \union of(h.key))
                BY <3>4
            <4>2. g.key = h.key /\ g.rows = h.rows \union of(h.key)
                BY <4>1, GroupFields
            <4> QED BY <3>1, <4>2
        <3>5. CASE \E i \in batch : input[i] \notin KeysOf(gs) /\ g = Group(input[i], of(input[i]))
            <4>1. PICK i \in batch : input[i] \notin KeysOf(gs) /\ g = Group(input[i], of(input[i]))
                BY <3>5
            <4>2. g.key = input[i] /\ g.rows = of(input[i])
                BY <4>1, GroupFields
            <4> QED BY <3>2, <4>1, <4>2
        <3> QED BY <3>3, <3>4, <3>5
    <2>11. KeysOf(Absorb(gs, n)) \union KeysOf(GroupsOut \union out) = {input[i] : i \in 1..(pos + n)}
        <3>1. KeysOf(Absorb(gs, n)) = KeysOf(gs) \union {input[i] : i \in (pos + 1)..(pos + n)}
            BY AbsorbKeys
        <3>2. KeysOf(gs) \union KeysOf(GroupsOut \union out) = KeysOf(groups) \union KeysOf(GroupsOut)
            BY <2>8, <2>a DEF KeysOf
        <3>3. KeysOf(groups) \union KeysOf(GroupsOut) = {input[i] : i \in 1..pos}
            BY <2>3 DEF Running
        <3>4. 1..(pos + n) = (1..pos) \union ((pos + 1)..(pos + n))
            BY <1>1
        <3>5. {input[i] : i \in 1..(pos + n)} = {input[i] : i \in 1..pos} \union {input[i] : i \in (pos + 1)..(pos + n)}
            BY <3>4
        <3> QED BY <3>1, <3>2, <3>3, <3>5
    <2>12. first <= input[pos + n] /\ pos + n > 0
        BY <2>4, <1>1
    <2> HIDE DEF out, gs
    <2>13. /\ phase' # "unsorted" /\ phase' # "done"
           /\ drained' # <<>> /\ drained'[1] = first /\ pos' > 0 /\ first <= input'[pos']
        BY <1>1, <2>1, <2>12
    <2>14. \A g \in groups' : g.rows = Taken(g.key, pos)' /\ first <= g.key
        BY <1>1, <2>1, <2>10 DEF Taken
    <2>15. \A g \in GroupsOut' : g.rows = Taken(g.key, Len(input))' /\ g.key < first
        BY <1>1, <2>b, <2>9 DEF Taken
    <2>16. KeysOf(groups') \union KeysOf(GroupsOut') = {input'[i] : i \in 1..pos'}
        BY <1>1, <2>1, <2>b, <2>11
    <2>17. Ascending'
        <3>1. \A g \in GroupsOut, h \in out : g.key < h.key
            <4> SUFFICES ASSUME NEW g \in GroupsOut, NEW h \in out PROVE g.key < h.key
                OBVIOUS
            <4>1. h \in groups
                BY <2>8
            <4>2. drained # <<>> /\ g.key < drained[1] /\ drained[1] <= h.key
                BY <1>1, <2>3, <4>1 DEF Running
            <4>3. g.key \in Int /\ h.key \in Int /\ drained[1] \in Int
                BY <2>5, <2>6, <2>a, <2>c, <4>2 DEF GroupType
            <4> QED BY <4>2, <4>3
        <3> QED BY <2>1, <2>3, <2>a, <3>1, SentAscending DEF Running
    <2> HIDE DEF first
    <2> QED BY <2>13, <2>14, <2>15, <2>16, <2>17 DEF Running, KeysOf
<1> QED BY <1>2, <1>3

(* The end of the stream emits groups that are complete by then. *)
LEMMA EndKeeps ==
    ASSUME StreamInv, EndOfStream
    PROVE  StreamInv'
<1>1. /\ phase = "reading" /\ phase' = "done" /\ groups' = {} /\ emitted' = Sent(groups)
      /\ pos' = Len(input') /\ pos' = pos /\ drained' = drained /\ input' = input
    BY DEF EndOfStream
<1>2. emitted \in Seq(SUBSET GroupType) /\ groups \in SUBSET GroupType
    BY DEF StreamInv, Shape
<1>3. Sent(groups) \in Seq(SUBSET GroupType) /\ GroupsOut' = GroupsOut \union groups
    BY <1>1, <1>2, SentBatches, SentGroups
<1>4. Shape'
    BY <1>1, <1>3 DEF StreamInv, Shape
<1>5. ASSUME InOrder(input) PROVE Running'
    <2>1. Running
        BY <1>5 DEF StreamInv
    <2>2. \A g \in GroupsOut' : g.rows = Taken(g.key, Len(input))'
        BY <1>1, <1>3, <2>1 DEF Running, Taken
    <2>3. KeysOf(groups)' \union KeysOf(GroupsOut)' = {input'[i] : i \in 1..pos'}
        BY <1>1, <1>3, <2>1 DEF Running, KeysOf
    <2>4. /\ drained' = <<>> => pos' = 0
          /\ drained' # <<>> => pos' > 0 /\ drained'[1] <= input'[pos']
        BY <1>1, <2>1 DEF Running
    <2>5. Ascending'
        <3>1. \A g \in GroupsOut, h \in groups : g.key < h.key
            <4> SUFFICES ASSUME NEW g \in GroupsOut, NEW h \in groups PROVE g.key < h.key
                OBVIOUS
            <4>1. drained # <<>> /\ g.key < drained[1] /\ drained[1] <= h.key
                BY <1>1, <2>1 DEF Running
            <4>2. g \in GroupType /\ h \in GroupType
                BY <1>2 DEF GroupsOut
            <4>3. drained[1] \in Int
                BY <4>1 DEF StreamInv, Shape
            <4> QED BY <4>1, <4>2, <4>3 DEF GroupType
        <3> QED BY <1>1, <1>2, <2>1, <3>1, SentAscending DEF Running
    <2> QED BY <1>1, <2>2, <2>3, <2>4, <2>5 DEF Running
<1> QED BY <1>1, <1>4, <1>5 DEF StreamInv

(* Every step of the operator keeps the invariant. *)
LEMMA StreamInductive ==
    StreamInv /\ [StreamNext]_streamVars => StreamInv'
<1> SUFFICES ASSUME StreamInv, [StreamNext]_streamVars PROVE StreamInv'
    OBVIOUS
<1>1. CASE \E in \in Seq(Int) : StreamOpen(in)
    BY <1>1, OpenKeeps
<1>2. CASE \E n \in Nat : ProcessBatch(n)
    BY <1>2, BatchKeeps
<1>3. CASE EndOfStream
    BY <1>3, EndKeeps
<1>4. CASE UNCHANGED streamVars
    <2>1. /\ input' = input /\ pos' = pos /\ groups' = groups /\ drained' = drained
          /\ emitted' = emitted /\ phase' = phase
        BY <1>4 DEF streamVars
    <2>2. Shape' = Shape /\ InOrder(input)' = InOrder(input)
        BY <2>1 DEF Shape, InOrder
    <2>3. GroupsOut' = GroupsOut /\ Ascending' = Ascending
        BY <2>1 DEF GroupsOut, Ascending
    <2>4. Running => Running'
        BY <2>1, <2>3 DEF Running, KeysOf, Taken
    <2> QED BY <2>2, <2>4 DEF StreamInv
<1> QED BY <1>1, <1>2, <1>3, <1>4 DEF StreamNext

(* So it holds of every state of the operator. *)
LEMMA StreamInvariant == StreamSpec => []StreamInv
<1>1. StreamInit => StreamInv
    BY DEF StreamInit, StreamInv, Shape, Running, KeysOf, GroupsOut, Ascending
<1> QED BY <1>1, StreamInductive, PTL DEF StreamSpec

(* For every input in key order, however it is cut into batches, a group   *)
(* the streaming group-by has emitted holds every row of its key.          *)
THEOREM StreamEmitsCompleteGroups == StreamSpec => []EmittedComplete
<1>1. StreamInv => EmittedComplete
    BY DEF StreamInv, Running, EmittedComplete
<1> QED BY <1>1, StreamInvariant, PTL

(* For every input in key order the streaming group-by accepts every batch *)
(* and, at the end of the input, has emitted a group for every key.        *)
THEOREM StreamEmitsEveryGroup == StreamSpec => []EveryGroupEmitted
<1>1. StreamInv => EveryGroupEmitted
    <2> SUFFICES ASSUME StreamInv, InOrder(input) PROVE EveryGroupEmitted
        BY DEF EveryGroupEmitted
    <2>1. Running /\ input \in Seq(Int)
        BY DEF StreamInv, Shape
    <2>2. ASSUME phase = "done" PROVE KeysOf(GroupsOut) = {input[i] : i \in DOMAIN input}
        <3>1. groups = {} /\ pos = Len(input) /\ DOMAIN input = 1..Len(input)
            BY <2>1, <2>2 DEF Running
        <3> QED BY <2>1, <3>1 DEF Running, KeysOf
    <2> QED BY <2>1, <2>2 DEF Running, EveryGroupEmitted
<1> QED BY <1>1, StreamInvariant, PTL

(* For every input in key order the consumer of the streaming group-by     *)
(* never sees a key twice, and sees the keys in ascending order.           *)
THEOREM StreamEmitsOnce == StreamSpec => []EmittedOnce
<1>1. StreamInv => EmittedOnce
    <2> SUFFICES ASSUME StreamInv, InOrder(input),
                        NEW b \in DOMAIN emitted, NEW c \in DOMAIN emitted,
                        NEW g \in emitted[b], NEW h \in emitted[c]
                 PROVE  (b < c => g.key < h.key) /\ (b = c /\ g.key = h.key => g = h)
        BY DEF EmittedOnce
    <2>1. Running
        BY DEF StreamInv
    <2>2. b < c => g.key < h.key
        BY <2>1 DEF Running, Ascending
    <2>3. ASSUME g.key = h.key PROVE g = h
        <3>1. g \in GroupsOut /\ h \in GroupsOut
            BY DEF GroupsOut
        <3>2. g.rows = h.rows
            BY <2>1, <2>3, <3>1 DEF Running
        <3>3. g \in GroupType /\ h \in GroupType
            BY DEF StreamInv, Shape
        <3> QED BY <2>3, <3>2, <3>3 DEF GroupType
    <2> QED BY <2>2, <2>3
<1> QED BY <1>1, StreamInvariant, PTL
=============================================================================
