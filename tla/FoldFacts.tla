----------------------------- MODULE FoldFacts -----------------------------
(***************************************************************************)
(* What a left fold over a sequence computes, for every step operator op:  *)
(* the value of an empty sequence, of one more element, and the induction  *)
(* over the sequence that the proofs about the replay of a log use.  A     *)
(* module that folds takes these facts by INSTANCE, with its own step.     *)
(***************************************************************************)
EXTENDS Integers, Sequences, WellFoundedInduction, TLAPS

CONSTANT op(_, _)

Fold(b, s) ==
    LET acc[i \in 0 .. Len(s)] == IF i = 0 THEN b ELSE op(acc[i - 1], s[i])
    IN  acc[Len(s)]

\* A set of naturals that is not empty has a least element.
LEMMA LeastNatural ==
    ASSUME NEW T \in SUBSET Nat, T # {}
    PROVE  \E n \in T : \A m \in T : n <= m
<1> DEFINE R == OpToRel(<, Nat)
<1>1. IsWellFoundedOn(R, Nat)
    BY NatLessThanWellFounded
<1>2. \A x, y \in Nat : y < x => <<y, x>> \in R
    BY DEF OpToRel
<1> HIDE DEF R
<1>3. PICK n \in T : \A m \in T : ~(<<m, n>> \in R)
    BY <1>1, WFMin
<1>4. \A m \in T : ~(m < n)
    BY <1>2, <1>3
<1>5. \A m \in T : n <= m
    <2>1. n \in Nat OBVIOUS
    <2>2. \A m \in T : m \in Nat OBVIOUS
    <2> QED BY <1>4, <2>1, <2>2
<1> QED BY <1>5

\* g holds the fold of every prefix of s up to n elements.
Iterates(g, b, s, n) == g = [i \in 0 .. n |-> IF i = 0 THEN b ELSE op(g[i - 1], s[i])]

\* There is such a function, by induction on n.
LEMMA IteratesExists ==
    ASSUME NEW b, NEW s, NEW n \in Nat
    PROVE  \E g : Iterates(g, b, s, n)
<1> DEFINE T == {k \in Nat : ~\E g : Iterates(g, b, s, k)}
<1> SUFFICES ASSUME T # {} PROVE FALSE
    OBVIOUS
<1>1. PICK k \in T : \A m \in T : k <= m
    BY LeastNatural
<1>2. CASE k = 0
    <2>1. Iterates([i \in 0 .. 0 |-> b], b, s, 0)
        BY DEF Iterates
    <2> QED BY <1>1, <1>2, <2>1
<1>3. CASE k > 0
    <2>1. k \in Nat /\ k - 1 \in Nat /\ k - 1 \notin T
        BY <1>1, <1>3
    <2>2. PICK g : Iterates(g, b, s, k - 1)
        BY <2>1
    <2> DEFINE h == [i \in 0 .. k |-> IF i = k THEN op(g[k - 1], s[k]) ELSE g[i]]
               e(i) == IF i = 0 THEN b ELSE op(h[i - 1], s[i])
    <2>3. ASSUME NEW i \in 0 .. k PROVE h[i] = e(i)
        <3>1. CASE i = k
            BY <1>3, <2>1, <3>1
        <3>2. CASE i # k
            <4>1. i \in 0 .. k - 1
                BY <2>1, <3>2
            <4>2. h[i] = g[i]
                BY <3>2
            <4>3. g[i] = IF i = 0 THEN b ELSE op(g[i - 1], s[i])
                BY <2>2, <4>1 DEF Iterates
            <4>4. i # 0 => h[i - 1] = g[i - 1]
                BY <2>1, <4>1
            <4> QED BY <4>2, <4>3, <4>4
        <3> QED BY <3>1, <3>2
    <2>4. h = [i \in 0 .. k |-> h[i]]
        OBVIOUS
    <2> HIDE DEF h
    <2>5. h = [i \in 0 .. k |-> e(i)]
        BY <2>3, <2>4
    <2>6. Iterates(h, b, s, k)
        BY <2>5 DEF Iterates
    <2> QED BY <1>1, <2>6
<1> QED BY <1>1, <1>2, <1>3

\* The fold is that function at the whole of the sequence.
LEMMA FoldIterates ==
    ASSUME NEW b, NEW s, Len(s) \in Nat
    PROVE  \E g : Iterates(g, b, s, Len(s)) /\ Fold(b, s) = g[Len(s)]
<1> DEFINE c == CHOOSE g : Iterates(g, b, s, Len(s))
<1>1. Iterates(c, b, s, Len(s))
    BY IteratesExists
<1>2. Fold(b, s) = c[Len(s)]
    BY DEF Fold, Iterates
<1> QED BY <1>1, <1>2

\* Induction over a sequence: what holds of the base at stage 0, and goes from
\* each stage to the next with the element there, holds of the fold at the last.
LEMMA FoldStages ==
    ASSUME NEW b, NEW s, Len(s) \in Nat, NEW T, b \in T[0],
           \A k \in 1 .. Len(s) : \A x \in T[k - 1] : op(x, s[k]) \in T[k]
    PROVE  Fold(b, s) \in T[Len(s)]
<1> DEFINE n == Len(s)
<1>1. PICK g : Iterates(g, b, s, n) /\ Fold(b, s) = g[n]
    BY FoldIterates
<1> DEFINE N == {k \in 0 .. n : g[k] \notin T[k]}
<1>2. N = {}
    <2> SUFFICES ASSUME N # {} PROVE FALSE
        OBVIOUS
    <2>1. N \in SUBSET Nat
        OBVIOUS
    <2>2. PICK k \in N : \A l \in N : k <= l
        <3> HIDE DEF N
        <3> QED BY <2>1, LeastNatural
    <2>3. k \in 0 .. n /\ g[k] \notin T[k]
        BY <2>2
    <2>4. g[k] = IF k = 0 THEN b ELSE op(g[k - 1], s[k])
        BY <1>1, <2>3 DEF Iterates
    <2>5. k \in 1 .. n /\ k - 1 \in 0 .. n /\ ~(k <= k - 1)
        BY <2>3, <2>4
    <2>6. g[k - 1] \in T[k - 1]
        <3>1. k - 1 \notin N
            BY <2>2, <2>5
        <3> QED BY <2>5, <3>1
    <2> QED BY <2>3, <2>4, <2>5, <2>6
<1>3. n \in 0 .. n /\ n \notin N
    BY <1>2
<1>4. g[n] \in T[n]
    BY <1>3
<1> QED BY <1>1, <1>4

\* Nothing folded is the base.
LEMMA FoldEmpty ==
    ASSUME NEW b
    PROVE  Fold(b, <<>>) = b
<1>1. Len(<<>>) = 0 /\ Len(<<>>) \in Nat
    OBVIOUS
<1>2. PICK g : Iterates(g, b, <<>>, 0) /\ Fold(b, <<>>) = g[0]
    BY <1>1, FoldIterates
<1>3. g[0] = b
    BY <1>2 DEF Iterates
<1> QED BY <1>2, <1>3

\* One more element is one more step.
LEMMA FoldAppend ==
    ASSUME NEW b, NEW S, NEW s \in Seq(S), NEW x \in S
    PROVE  Fold(b, Append(s, x)) = op(Fold(b, s), x)
<1> DEFINE n == Len(s)
           r == Append(s, x)
<1>1. /\ n \in Nat /\ Len(r) = n + 1 /\ Len(r) \in Nat
      /\ \A i \in 1 .. n : r[i] = s[i]
      /\ r[n + 1] = x
    OBVIOUS
<1>2. PICK h : Iterates(h, b, r, n + 1) /\ Fold(b, r) = h[n + 1]
    <2> HIDE DEF r, n
    <2>1. PICK h : Iterates(h, b, r, Len(r)) /\ Fold(b, r) = h[Len(r)]
        BY <1>1, FoldIterates
    <2> QED BY <1>1, <2>1
<1>3. Fold(b, s) = h[n]
    <2> DEFINE T == [i \in Nat |-> {h[i]}]
    <2>1. \A i \in Nat : T[i] = {h[i]}
        OBVIOUS
    <2> HIDE DEF T, r
    <2>2. b \in T[0]
        <3>1. h[0] = b
            BY <1>1, <1>2 DEF Iterates
        <3> QED BY <2>1, <3>1
    <2>3. ASSUME NEW k \in 1 .. n, NEW y \in T[k - 1]
          PROVE  op(y, s[k]) \in T[k]
        <3>1. k \in Nat /\ k - 1 \in Nat /\ k \in 0 .. n + 1 /\ k # 0
            BY <1>1
        <3>2. h[k] = op(h[k - 1], r[k])
            BY <1>2, <3>1 DEF Iterates
        <3>3. r[k] = s[k] /\ y = h[k - 1]
            BY <1>1, <2>1, <3>1
        <3> QED BY <2>1, <3>1, <3>2, <3>3
    <2>4. Fold(b, s) \in T[n]
        BY <1>1, <2>2, <2>3, FoldStages
    <2> QED BY <1>1, <2>1, <2>4
<1>4. h[n + 1] = op(h[n], r[n + 1])
    <2>1. n + 1 \in 0 .. n + 1 /\ n + 1 # 0 /\ (n + 1) - 1 = n
        BY <1>1
    <2> HIDE DEF r, n
    <2>2. h[n + 1] = op(h[(n + 1) - 1], r[n + 1])
        BY <1>2, <2>1 DEF Iterates
    <2> QED BY <2>1, <2>2
<1>5. Fold(b, r) = op(Fold(b, s), x)
    <2> HIDE DEF r, n
    <2> QED BY <1>1, <1>2, <1>3, <1>4
<1> QED BY <1>5
=============================================================================
