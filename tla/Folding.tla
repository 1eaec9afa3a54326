------------------------------ MODULE Folding ------------------------------
(***************************************************************************)
(* What FoldLeft of the community modules computes, for any operator and   *)
(* any sequence: the last of the values that go from the base through the  *)
(* elements, one at a time.  A module that proves something of a fold      *)
(* instantiates this one with the operator that it folds; an invariant of  *)
(* the values then holds of the result by CountingUp.                      *)
(***************************************************************************)
EXTENDS Integers, Sequences, NaturalsInduction, WellFoundedInduction, TLAPS

CONSTANT Op(_, _)

(* FoldLeft, written out. *)
Largest(S) == CHOOSE x \in S : \A y \in S : x >= y

Fold(base, q) ==
    LET iter[s \in SUBSET DOMAIN q] ==
          IF s = {} THEN base ELSE Op(iter[s \ {Largest(s)}], q[Largest(s)])
    IN  iter[DOMAIN q]

-----------------------------------------------------------------------------
(* Every set of natural numbers with a member has a least one. *)
LEMMA LeastNumber ==
    ASSUME NEW T, T \subseteq Nat, T # {}
    PROVE  \E x \in T : \A y \in T : x <= y
<1>1. IsWellFoundedOn({ss \in Nat \X Nat : ss[1] < ss[2]}, Nat)
    BY NatLessThanWellFounded DEF OpToRel
<1>2. PICK x \in T : \A y \in T : <<y, x>> \notin {ss \in Nat \X Nat : ss[1] < ss[2]}
    BY <1>1, WFMin
<1>3. ASSUME NEW y \in T PROVE x <= y
    <2>1. x \in Nat /\ y \in Nat
        OBVIOUS
    <2>2. ~(y < x)
        BY <1>2, <2>1
    <2>3. QED
        BY <2>1, <2>2
<1>4. QED
    BY <1>3

(* Induction on the numbers up to n: what holds of 0, and of every successor *)
(* of a number it holds of, holds of n.                                      *)
LEMMA CountingUp ==
    ASSUME NEW n \in Nat, NEW T, 0 \in T, \A i \in 0 .. n - 1 : i \in T => i + 1 \in T
    PROVE  \A i \in 0 .. n : i \in T
<1>1. SUFFICES ASSUME (0 .. n) \ T # {} PROVE FALSE
    OBVIOUS
<1>2. PICK m \in (0 .. n) \ T : \A y \in (0 .. n) \ T : m <= y
    <2>1. (0 .. n) \ T \subseteq Nat
        OBVIOUS
    <2>2. QED
        BY <1>1, <2>1, LeastNumber
<1>3. m # 0 /\ m - 1 \in 0 .. n - 1
    OBVIOUS
<1>4. m - 1 \in T
    BY <1>2, <1>3
<1>5. (m - 1) + 1 \in T
    BY <1>3, <1>4
<1>6. QED
    BY <1>3, <1>5

-----------------------------------------------------------------------------
(* The largest of the first k numbers, and of what is left without it. *)
LEMMA LargestFacts ==
    ASSUME NEW k \in Nat
    PROVE  /\ k # 0 => Largest(1 .. k) = k /\ (1 .. k) \ {k} = 1 .. k - 1
           /\ (1 .. k = {}) <=> k = 0
<1>1. ASSUME k # 0 PROVE Largest(1 .. k) = k
    <2>1. k \in 1 .. k /\ \A y \in 1 .. k : k >= y
        BY <1>1
    <2>2. \A z \in 1 .. k : (\A y \in 1 .. k : z >= y) => z = k
        BY <1>1
    <2>3. QED
        BY <2>1, <2>2 DEF Largest
<1>2. k # 0 => (1 .. k) \ {k} = 1 .. k - 1
    OBVIOUS
<1>3. QED
    BY <1>1, <1>2

(* The recursion is well-defined: some function satisfies its equation. *)
Steps(base, q, f) ==
    [s \in SUBSET DOMAIN q |-> IF s = {} THEN base ELSE Op(f[s \ {Largest(s)}], q[Largest(s)])]

(* The values of the fold, from the base to the result. *)
IsTrace(base, q, v) ==
    /\ v[0] = base
    /\ \A i \in 0 .. Len(q) - 1 : v[i + 1] = Op(v[i], q[i + 1])

LEMMA RecursionHasSolution ==
    ASSUME NEW base, NEW X, NEW q \in Seq(X)
    PROVE  \E f : f = Steps(base, q, f)
<1> DEFINE n == Len(q)
<1> DEFINE Sol(k, g) ==
       g = [s \in SUBSET (1 .. k) |->
              IF s = {} THEN base ELSE Op(g[s \ {Largest(s)}], q[Largest(s)])]
<1> DEFINE T == {k \in 0 .. n : \E g : Sol(k, g)}
<1>1. 0 \in T
    <2>1. Sol(0, [s \in {{}} |-> base])
        OBVIOUS
    <2>2. 0 \in 0 .. n
        OBVIOUS
    <2> HIDE DEF Sol
    <2>3. QED
        BY <2>1, <2>2
<1>2. ASSUME NEW i \in 0 .. n - 1, i \in T PROVE i + 1 \in T
    <2>1. PICK g : Sol(i, g)
        BY <1>2
    <2> DEFINE h == [s \in SUBSET (1 .. i + 1) |->
                       IF i + 1 \in s THEN Op(g[s \ {i + 1}], q[i + 1]) ELSE g[s]]
    <2>2. ASSUME NEW s \in SUBSET (1 .. i + 1)
          PROVE  h[s] = IF s = {} THEN base ELSE Op(h[s \ {Largest(s)}], q[Largest(s)])
        <3>1. CASE i + 1 \in s
            <4>1. Largest(s) = i + 1
                <5>1. \A y \in s : i + 1 >= y
                    OBVIOUS
                <5>2. \A z \in s : (\A y \in s : z >= y) => z = i + 1
                    BY <3>1
                <5>3. QED
                    BY <3>1, <5>1, <5>2 DEF Largest
            <4>2. s \ {i + 1} \in SUBSET (1 .. i)
                OBVIOUS
            <4>3. s \ {i + 1} \in SUBSET (1 .. i + 1) /\ i + 1 \notin s \ {i + 1}
                OBVIOUS
            <4>4. h[s \ {i + 1}] = g[s \ {i + 1}]
                BY <4>3
            <4>5. QED
                BY <3>1, <4>1, <4>4
        <3>2. CASE i + 1 \notin s
            <4>1. s \in SUBSET (1 .. i)
                BY <3>2
            <4>2. h[s] = g[s]
                BY <3>2
            <4>3. g[s] = IF s = {} THEN base ELSE Op(g[s \ {Largest(s)}], q[Largest(s)])
                BY <2>1, <4>1
            <4>4. s \ {Largest(s)} \in SUBSET (1 .. i + 1) /\ i + 1 \notin s \ {Largest(s)}
                BY <3>2
            <4>5. h[s \ {Largest(s)}] = g[s \ {Largest(s)}]
                BY <4>4
            <4>6. QED
                BY <4>2, <4>3, <4>5
        <3>3. QED
            BY <3>1, <3>2
    <2>3. Sol(i + 1, h)
        BY <2>2
    <2>4. i + 1 \in 0 .. n
        OBVIOUS
    <2>5. QED
        BY <2>3, <2>4
<1>3. n \in Nat /\ DOMAIN q = 1 .. n
    OBVIOUS
<1> HIDE DEF T, Sol, n
<1>4. n \in T
    BY <1>1, <1>2, <1>3, CountingUp
<1>5. QED
    BY <1>3, <1>4 DEF T, Sol, Steps

LEMMA FoldTrace ==
    ASSUME NEW base, NEW X, NEW q \in Seq(X)
    PROVE  \E v : IsTrace(base, q, v) /\ Fold(base, q) = v[Len(q)]
<1> DEFINE f == CHOOSE g : g = Steps(base, q, g)
<1>1. f = Steps(base, q, f)
    BY RecursionHasSolution
<1> HIDE DEF f
<1>2. Fold(base, q) = f[DOMAIN q]
    BY DEF Fold, Steps, f
<1> DEFINE v == [i \in 0 .. Len(q) |-> f[1 .. i]]
<1>3. Len(q) \in Nat /\ DOMAIN q = 1 .. Len(q)
    OBVIOUS
<1>4. v[0] = base
    <2>1. 1 .. 0 = {} /\ {} \in SUBSET DOMAIN q /\ 0 \in 0 .. Len(q)
        BY <1>3
    <2>2. f[{}] = base
        BY <1>1, <2>1 DEF Steps
    <2>3. QED
        BY <2>1, <2>2
<1>5. ASSUME NEW i \in 0 .. Len(q) - 1 PROVE v[i + 1] = Op(v[i], q[i + 1])
    <2>1. /\ i \in 0 .. Len(q) /\ i + 1 \in 0 .. Len(q) /\ i + 1 \in Nat /\ i + 1 # 0
          /\ (i + 1) - 1 = i
        BY <1>3
    <2>2. 1 .. i + 1 \in SUBSET DOMAIN q
        BY <1>3
    <2>3. Largest(1 .. i + 1) = i + 1 /\ (1 .. i + 1) \ {i + 1} = 1 .. i /\ 1 .. i + 1 # {}
        BY <2>1, LargestFacts
    <2>4. f[1 .. i + 1] = Op(f[1 .. i], q[i + 1])
        BY <1>1, <2>2, <2>3 DEF Steps
    <2>5. QED
        BY <2>1, <2>4
<1>6. v[Len(q)] = f[DOMAIN q]
    BY <1>3
<1>7. IsTrace(base, q, v)
    BY <1>4, <1>5 DEF IsTrace
<1>8. QED
    BY <1>2, <1>6, <1>7

(* The values of a fold are determined: whoever finds them has the result.  *)
LEMMA FoldOfTrace ==
    ASSUME NEW base, NEW X, NEW q \in Seq(X), NEW v, IsTrace(base, q, v)
    PROVE  Fold(base, q) = v[Len(q)]
<1>1. PICK u : IsTrace(base, q, u) /\ Fold(base, q) = u[Len(q)]
    BY FoldTrace
<1> DEFINE W == {i \in 0 .. Len(q) : u[i] = v[i]}
<1>2. Len(q) \in Nat
    OBVIOUS
<1>3. 0 \in W
    BY <1>1, <1>2 DEF IsTrace
<1>4. ASSUME NEW i \in 0 .. Len(q) - 1, i \in W PROVE i + 1 \in W
    BY <1>1, <1>2, <1>4 DEF IsTrace
<1> HIDE DEF W
<1>5. \A i \in 0 .. Len(q) : i \in W
    BY <1>2, <1>3, <1>4, CountingUp
<1>6. u[Len(q)] = v[Len(q)]
    BY <1>2, <1>5 DEF W
<1>7. QED
    BY <1>1, <1>6

(* The fold of nothing is the base. *)
LEMMA FoldNothing == ASSUME NEW base PROVE Fold(base, <<>>) = base
<1>1. <<>> \in Seq({}) /\ Len(<<>>) = 0
    OBVIOUS
<1>2. PICK v : IsTrace(base, <<>>, v) /\ Fold(base, <<>>) = v[0]
    BY <1>1, FoldTrace
<1>3. QED
    BY <1>2 DEF IsTrace

(* One element more is one turn more. *)
LEMMA FoldAppend ==
    ASSUME NEW base, NEW X, NEW q \in Seq(X), NEW e \in X
    PROVE  Fold(base, Append(q, e)) = Op(Fold(base, q), e)
<1> DEFINE n == Len(q)
           p == Append(q, e)
<1>1. PICK u : IsTrace(base, q, u) /\ Fold(base, q) = u[n]
    BY FoldTrace
<1> DEFINE v == [i \in 0 .. n + 1 |-> IF i = n + 1 THEN Op(u[n], e) ELSE u[i]]
<1>2. n \in Nat /\ p \in Seq(X) /\ Len(p) = n + 1 /\ p[n + 1] = e
      /\ \A i \in 1 .. n : p[i] = q[i]
    OBVIOUS
<1> HIDE DEF n, p
<1>3. v[0] = base
    BY <1>1, <1>2 DEF IsTrace
<1>4. ASSUME NEW i \in 0 .. Len(p) - 1 PROVE v[i + 1] = Op(v[i], p[i + 1])
    <2>1. CASE i = n
        BY <1>2, <2>1
    <2>2. CASE i # n
        <3>1. i \in 0 .. n - 1 /\ i + 1 \in 1 .. n /\ i # n + 1 /\ i + 1 # n + 1
            BY <1>2, <2>2
        <3>2. u[i + 1] = Op(u[i], q[i + 1])
            BY <1>1, <3>1 DEF IsTrace, n
        <3>3. v[i + 1] = u[i + 1] /\ v[i] = u[i]
            BY <1>2, <3>1
        <3>4. QED
            BY <1>2, <3>1, <3>2, <3>3
    <2>3. QED
        BY <2>1, <2>2
<1>5. v[Len(p)] = Op(u[n], e)
    BY <1>2
<1> HIDE DEF v
<1>6. IsTrace(base, p, v)
    BY <1>3, <1>4 DEF IsTrace
<1>7. Fold(base, p) = v[Len(p)]
    BY <1>2, <1>6, FoldOfTrace
<1>8. QED
    BY <1>1, <1>5, <1>7 DEF n, p

(* One element before the others is a turn before the others. *)
LEMMA FoldPrepend ==
    ASSUME NEW base, NEW X, NEW q \in Seq(X), NEW e \in X
    PROVE  Fold(base, <<e>> \o q) = Fold(Op(base, e), q)
<1> DEFINE n == Len(q)
           p == <<e>> \o q
<1>1. PICK u : IsTrace(Op(base, e), q, u) /\ Fold(Op(base, e), q) = u[n]
    BY FoldTrace
<1> DEFINE v == [i \in 0 .. n + 1 |-> IF i = 0 THEN base ELSE u[i - 1]]
<1>2. n \in Nat /\ p \in Seq(X) /\ Len(p) = n + 1 /\ p[1] = e
      /\ \A i \in 1 .. n : p[i + 1] = q[i]
    OBVIOUS
<1> HIDE DEF n, p
<1>3. v[0] = base
    BY <1>2
<1>4. ASSUME NEW i \in 0 .. Len(p) - 1 PROVE v[i + 1] = Op(v[i], p[i + 1])
    <2>1. i \in 0 .. n + 1 /\ i + 1 \in 0 .. n + 1 /\ (i + 1) - 1 = i /\ i + 1 # 0
        BY <1>2
    <2>2. v[i + 1] = u[i]
        BY <2>1
    <2>3. CASE i = 0
        <3>1. u[0] = Op(base, e)
            BY <1>1 DEF IsTrace
        <3>2. QED
            BY <1>2, <2>1, <2>2, <2>3, <3>1
    <2>4. CASE i # 0
        <3>1. i - 1 \in 0 .. n - 1 /\ (i - 1) + 1 = i /\ i \in 1 .. n
            BY <1>2, <2>4
        <3>2. u[i] = Op(u[i - 1], q[i])
            BY <1>1, <3>1 DEF IsTrace, n
        <3>3. v[i] = u[i - 1]
            BY <2>1, <2>4
        <3>4. QED
            BY <1>2, <2>2, <3>1, <3>2, <3>3
    <2>5. QED
        BY <2>3, <2>4
<1>5. v[Len(p)] = u[n]
    BY <1>2
<1> HIDE DEF v
<1>6. IsTrace(base, p, v)
    BY <1>3, <1>4 DEF IsTrace
<1>7. Fold(base, p) = v[Len(p)]
    BY <1>2, <1>6, FoldOfTrace
<1>8. QED
    BY <1>1, <1>5, <1>7 DEF n, p

(* What holds of the base and is kept by every element holds of the fold. *)
LEMMA FoldStaysIn ==
    ASSUME NEW base, NEW X, NEW q \in Seq(X), NEW T, base \in T,
           \A i \in 1 .. Len(q), x \in T : Op(x, q[i]) \in T
    PROVE  Fold(base, q) \in T
<1>1. PICK v : IsTrace(base, q, v) /\ Fold(base, q) = v[Len(q)]
    BY FoldTrace
<1> DEFINE W == {i \in 0 .. Len(q) : v[i] \in T}
<1>2. Len(q) \in Nat
    OBVIOUS
<1>3. 0 \in W
    BY <1>1, <1>2 DEF IsTrace
<1>4. ASSUME NEW i \in 0 .. Len(q) - 1, i \in W PROVE i + 1 \in W
    BY <1>1, <1>2, <1>4 DEF IsTrace
<1> HIDE DEF W
<1>5. \A i \in 0 .. Len(q) : i \in W
    BY <1>2, <1>3, <1>4, CountingUp
<1>6. v[Len(q)] \in T
    BY <1>2, <1>5 DEF W
<1>7. QED
    BY <1>1, <1>6

(* The same when what holds depends on how far the fold has come. *)
LEMMA FoldAdvances ==
    ASSUME NEW base, NEW X, NEW q \in Seq(X), NEW T, base \in T[0],
           \A i \in 1 .. Len(q) : \A x \in T[i - 1] : Op(x, q[i]) \in T[i]
    PROVE  Fold(base, q) \in T[Len(q)]
<1>1. PICK v : IsTrace(base, q, v) /\ Fold(base, q) = v[Len(q)]
    BY FoldTrace
<1> DEFINE W == {i \in 0 .. Len(q) : v[i] \in T[i]}
<1>2. Len(q) \in Nat
    OBVIOUS
<1>3. 0 \in W
    BY <1>1, <1>2 DEF IsTrace
<1>4. ASSUME NEW i \in 0 .. Len(q) - 1, i \in W PROVE i + 1 \in W
    <2>1. i + 1 \in 1 .. Len(q) /\ (i + 1) - 1 = i /\ i + 1 \in 0 .. Len(q)
        BY <1>2
    <2>2. v[i + 1] = Op(v[i], q[i + 1])
        BY <1>1 DEF IsTrace
    <2>3. QED
        BY <1>4, <2>1, <2>2
<1> HIDE DEF W
<1>5. \A i \in 0 .. Len(q) : i \in W
    BY <1>2, <1>3, <1>4, CountingUp
<1>6. v[Len(q)] \in T[Len(q)]
    BY <1>2, <1>5 DEF W
<1>7. QED
    BY <1>1, <1>6
=============================================================================
