---------------------------- MODULE AtomicTable ----------------------------
(***************************************************************************)
(* What a table promises its users, with no files in sight: a history of   *)
(* transactions that only ever grows, one whole transaction at a time.  A  *)
(* transaction whose call returned Ok is in the history; one whose call    *)
(* failed, or whose process died, is in the history entirely or not at     *)
(* all.  README.md:35 ("every commit is atomic and crash-safe") and        *)
(* docs/querying.md:70-72 are the promises stated here.                    *)
(***************************************************************************)
EXTENDS Sequences, Functions

CONSTANTS
    Txns,      \* every transaction that is ever attempted
    Initial    \* the history the table is opened with

VARIABLES
    history,   \* the transactions the current snapshot contains, in commit order
    acked      \* the transactions whose call returned Ok

avars == <<history, acked>>

AInit ==
    /\ history = Initial
    /\ acked = {}

\* A transaction takes effect, all of it, at one instant.
Commit(t) ==
    /\ t \notin Range(history)
    /\ history' = Append(history, t)
    /\ UNCHANGED acked

\* Its caller is told so; only for a transaction that has taken effect.
Acknowledge(t) ==
    /\ t \in Range(history)
    /\ acked' = acked \cup {t}
    /\ UNCHANGED history

ANext == \E t \in Txns : Commit(t) \/ Acknowledge(t)

ASpec == AInit /\ [][ANext]_avars
=============================================================================
