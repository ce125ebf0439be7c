------------------------------ MODULE Induction ------------------------------
(* Natural numbers in the proofs: least elements, induction over a set of     *)
(* numbers, and functions that are defined by iteration.                      *)
EXTENDS Integers, WellFoundedInduction, TLAPS

\* A set of natural numbers that is not empty has a least element.
LEMMA LeastNat ==
    ASSUME NEW T, T \subseteq Nat, T # {}
    PROVE  \E x \in T : \A y \in T : x <= y
<1> DEFINE R == {ss \in Nat \X Nat : ss[1] < ss[2]}
<1>1. IsWellFoundedOn(R, Nat)
    BY NatLessThanWellFounded DEF OpToRel
<1> HIDE DEF R
<1>2. PICK x \in T : \A y \in T : ~ (<<y, x>> \in R)
    BY <1>1, WFMin
<1>3. ASSUME NEW y \in T PROVE x <= y
    <2>1. x \in Nat /\ y \in Nat
        OBVIOUS
    <2>2. y < x => <<y, x>> \in R
        BY <2>1 DEF R
    <2> QED
        BY <1>2, <2>1, <2>2
<1> QED
    BY <1>3

\* A set with 0 and the successors, up to n, of its elements holds 0..n.
LEMMA UpTo ==
    ASSUME NEW n \in Nat, NEW T, 0 \in T, \A k \in 0..(n - 1) : k \in T => k + 1 \in T
    PROVE  0..n \subseteq T
<1> DEFINE Missing == (0..n) \ T
<1>1. SUFFICES ASSUME Missing # {} PROVE FALSE
    OBVIOUS
<1>2. PICK x \in Missing : \A y \in Missing : x <= y
    <2>1. Missing \subseteq Nat
        OBVIOUS
    <2> HIDE DEF Missing
    <2> QED
        BY <1>1, <2>1, LeastNat
<1>3. x # 0 /\ x - 1 \in 0..(n - 1) /\ x - 1 \notin Missing
    BY <1>2
<1>4. x - 1 \in T
    BY <1>3
<1>5. x = (x - 1) + 1
    BY <1>2
<1> QED
    BY <1>2, <1>3, <1>4, <1>5

\* The function on 0..n that starts with a and goes on with G.
IsRun(f, X, a, G, n) ==
    f \in [0..n -> X] /\ f[0] = a /\ \A k \in 1..n : f[k] = G[<<f[k - 1], k>>]

\* There is one.
LEMMA Iterated ==
    ASSUME NEW n \in Nat, NEW X, NEW a \in X, NEW G, \A x \in X, k \in 1..n : G[<<x, k>>] \in X
    PROVE  \E f : IsRun(f, X, a, G, n)
<1> DEFINE Good(f, m) == f[0] = a /\ \A k \in 1..m : f[k] = G[<<f[k - 1], k>>]
           T == {m \in 0..n : \E f \in [0..m -> X] : Good(f, m)}
<1>1. 0 \in T
    <2> DEFINE f == [k \in 0..0 |-> a]
    <2>1. f \in [0..0 -> X] /\ Good(f, 0)
        OBVIOUS
    <2> HIDE DEF f
    <2> QED
        BY <2>1
<1>2. ASSUME NEW m \in 0..(n - 1), m \in T PROVE m + 1 \in T
    <2>1. PICK f \in [0..m -> X] : Good(f, m)
        BY <1>2
    <2> DEFINE g == [k \in 0..(m + 1) |-> IF k <= m THEN f[k] ELSE G[<<f[m], m + 1>>]]
    <2>2. G[<<f[m], m + 1>>] \in X
        OBVIOUS
    <2>3. g \in [0..(m + 1) -> X]
        BY <2>2
    <2>4. (\A k \in 0..m : g[k] = f[k]) /\ g[m + 1] = G[<<f[m], m + 1>>]
        OBVIOUS
    <2> HIDE DEF g
    <2>5. ASSUME NEW k \in 1..(m + 1) PROVE g[k] = G[<<g[k - 1], k>>]
        <3>1. CASE k = m + 1
            BY <2>4, <3>1
        <3>2. CASE k \in 1..m
            <4>1. k - 1 \in 0..m
                BY <3>2
            <4> QED
                BY <2>1, <2>4, <3>2, <4>1
        <3> QED
            BY <3>1, <3>2
    <2>6. g[0] = a
        BY <2>1, <2>4
    <2> QED
        BY <2>3, <2>5, <2>6
<1> HIDE DEF T
<1>3. 0..n \subseteq T
    BY <1>1, <1>2, UpTo
<1> QED
    <2>1. PICK f \in [0..n -> X] : Good(f, n)
        <3>1. n \in T
            BY <1>3
        <3> QED
            BY <3>1 DEF T
    <2> QED
        BY <2>1 DEF IsRun
=============================================================================
