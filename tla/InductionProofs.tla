-------------------------- MODULE InductionProofs --------------------------
(***************************************************************************)
(* Induction and recursion over the natural numbers, stated about sets and *)
(* functions: a property is the set of numbers that have it, a recursive   *)
(* definition is given by a function from a value to the next.             *)
(***************************************************************************)
EXTENDS Integers, TLAPS, WellFoundedInduction

\* Every nonempty set of natural numbers has a least element.
LEMMA LeastNat ==
    ASSUME NEW T, T \subseteq Nat, T # {}
    PROVE  \E x \in T : \A y \in T : x <= y
<1> DEFINE R == OpToRel(<, Nat)
<1>1. IsWellFoundedOn(R, Nat)
    BY NatLessThanWellFounded
<1>2. \A x, y \in Nat : y < x => <<y, x>> \in R
    BY DEF OpToRel
<1> HIDE DEF R
<1>3. PICK x \in T : \A y \in T : ~ (<<y, x>> \in R)
    BY <1>1, WFMin
<1>4. \A y \in T : x \in Nat /\ y \in Nat /\ ~(y < x)
    BY <1>2, <1>3
<1>5. QED
    BY <1>4

\* A set that holds 0 and with every number the next holds all of them.
LEMMA Induct ==
    ASSUME NEW T, 0 \in T, \A n \in Nat : n \in T => n + 1 \in T
    PROVE  Nat \subseteq T
<1> SUFFICES ASSUME Nat \ T # {} PROVE FALSE
    OBVIOUS
<1>1. PICK x \in Nat \ T : \A y \in Nat \ T : x <= y
    BY LeastNat
<1>2. x - 1 \in Nat /\ x - 1 \in T
    BY <1>1
<1>3. QED
    BY <1>1, <1>2

\* The same up to a bound.
LEMMA InductTo ==
    ASSUME NEW m \in Nat, NEW T, 0 \in T, \A n \in 0..m - 1 : n \in T => n + 1 \in T
    PROVE  0..m \subseteq T
<1> DEFINE U == {n \in Nat : n <= m => n \in T}
<1>1. 0 \in U
    OBVIOUS
<1>2. \A n \in Nat : n \in U => n + 1 \in U
    OBVIOUS
<1> HIDE DEF U
<1>3. Nat \subseteq U
    BY <1>1, <1>2, Induct
<1>4. QED
    BY <1>3 DEF U

\* f starts with a, and F gives each value from its number and the one before.
Iterates(f, m, S, a, F) ==
    /\ f \in [0..m -> S]
    /\ f[0] = a
    /\ \A i \in 1..m : f[i] = F[<<i, f[i - 1]>>]

\* A value, and a function to the next one, give a sequence of values.
LEMMA Iteration ==
    ASSUME NEW m \in Nat, NEW S, NEW a \in S, NEW F \in [(1..m) \X S -> S]
    PROVE  \E f : Iterates(f, m, S, a, F)
<1> DEFINE Good(f, n) == f[0] = a /\ \A i \in 1..n : f[i] = F[<<i, f[i - 1]>>]
           T == {n \in 0..m : \E f \in [0..n -> S] : Good(f, n)}
<1>1. 0 \in T
    <2> DEFINE f == [i \in 0..0 |-> a]
    <2>1. f \in [0..0 -> S] /\ Good(f, 0)
        OBVIOUS
    <2> HIDE DEF f, Good
    <2>2. QED
        BY <2>1
<1>2. \A n \in 0..m - 1 : n \in T => n + 1 \in T
    <2> SUFFICES ASSUME NEW n \in 0..m - 1, n \in T PROVE n + 1 \in T
        OBVIOUS
    <2>1. PICK f \in [0..n -> S] : Good(f, n)
        OBVIOUS
    <2> DEFINE g == [i \in 0..n + 1 |-> IF i <= n THEN f[i] ELSE F[<<n + 1, f[n]>>]]
    <2>2. F[<<n + 1, f[n]>>] \in S
        OBVIOUS
    <2>3. g \in [0..n + 1 -> S]
        BY <2>2
    <2>4. \A i \in 1..n : g[i] = f[i] /\ g[i - 1] = f[i - 1]
        OBVIOUS
    <2>5. g[0] = a /\ g[n + 1] = F[<<n + 1, g[n]>>] /\ n + 1 - 1 = n
        <3>1. 0 \in 0..n + 1 /\ n + 1 \in 0..n + 1 /\ n \in 0..n + 1 /\ 0 <= n /\ ~(n + 1 <= n)
            OBVIOUS
        <3>2. QED
            BY <2>1, <3>1
    <2> HIDE DEF g
    <2>6. Good(g, n + 1)
        BY <2>1, <2>4, <2>5
    <2>7. QED
        BY <2>3, <2>6
<1> HIDE DEF T
<1>3. 0..m \subseteq T
    BY <1>1, <1>2, InductTo
<1>4. m \in T
    BY <1>3
<1>5. QED
    BY <1>4 DEF T, Iterates

\* f is given on B, and elsewhere by F from its value at a smaller number.
Descends(f, S, B, base, smaller, F) ==
    /\ f \in [Nat -> S]
    /\ \A n \in Nat : f[n] = IF n \in B THEN base[n] ELSE F[<<n, f[smaller[n]]>>]

\* Recursion on a smaller number is a definition, too.
LEMMA Descent ==
    ASSUME NEW S, NEW B, NEW base \in [Nat -> S], NEW smaller \in [Nat -> Nat],
           \A n \in Nat \ B : smaller[n] < n, NEW F \in [Nat \X S -> S]
    PROVE  \E f : Descends(f, S, B, base, smaller, F)
<1> DEFINE Val(g, i) == IF i \in B THEN base[i] ELSE F[<<i, g[smaller[i]]>>]
           Good(g, n) == \A i \in 0..n : g[i] = Val(g, i)
           T == {n \in Nat : \E g \in [0..n -> S] : Good(g, n)}
           part(n) == CHOOSE g : g \in [0..n -> S] /\ Good(g, n)
           f == [n \in Nat |-> part(n)[n]]
\* Functions that agree below i have the same value at i.
<1>1. ASSUME NEW g, NEW h, NEW i \in Nat, \A j \in Nat : j < i => g[j] = h[j]
      PROVE  Val(g, i) = Val(h, i)
    BY <1>1
<1>2. ASSUME NEW g, NEW i \in Nat, \A j \in Nat : j < i => g[j] \in S
      PROVE  Val(g, i) \in S
    <2>1. CASE i \in B
        BY <2>1
    <2>2. CASE i \notin B
        <3>1. g[smaller[i]] \in S
            BY <1>2, <2>2
        <3>2. <<i, g[smaller[i]]>> \in Nat \X S
            BY <3>1
        <3>3. QED
            BY <2>2, <3>2
    <2>3. QED
        BY <2>1, <2>2
<1> HIDE DEF Val
<1>3. Nat \subseteq T
    <2>1. 0 \in T
        <3> DEFINE g == [i \in 0..0 |-> Val(base, 0)]
        <3>1. Val(base, 0) \in S /\ Val(g, 0) = Val(base, 0)
            BY <1>1, <1>2
        <3>2. g \in [0..0 -> S] /\ g[0] = Val(base, 0)
            BY <3>1
        <3> HIDE DEF g
        <3>3. Good(g, 0)
            BY <3>1, <3>2
        <3>4. QED
            BY <3>2, <3>3
    <2>2. \A n \in Nat : n \in T => n + 1 \in T
        <3> SUFFICES ASSUME NEW n \in Nat, n \in T PROVE n + 1 \in T
            OBVIOUS
        <3>1. PICK g \in [0..n -> S] : Good(g, n)
            OBVIOUS
        <3> DEFINE h == [i \in 0..n + 1 |-> IF i <= n THEN g[i] ELSE Val(g, n + 1)]
        <3>2. \A j \in Nat : j < n + 1 => g[j] \in S
            OBVIOUS
        <3>3. n + 1 \in Nat
            OBVIOUS
        <3>4. Val(g, n + 1) \in S
            BY <1>2, <3>2, <3>3
        <3>5. h \in [0..n + 1 -> S]
            BY <3>4
        <3>6. \A i \in 0..n : h[i] = g[i]
            OBVIOUS
        <3>7. h[n + 1] = Val(g, n + 1)
            OBVIOUS
        <3> HIDE DEF h
        <3>8. ASSUME NEW i \in 0..n + 1 PROVE Val(h, i) = Val(g, i)
            <4>1. i \in Nat /\ \A j \in Nat : j < i => h[j] = g[j]
                BY <3>6
            <4>2. QED
                BY <1>1, <4>1
        <3>9. \A i \in 0..n : g[i] = Val(g, i)
            BY <3>1
        <3>10. ASSUME NEW i \in 0..n + 1 PROVE h[i] = Val(h, i)
            <4>1. i \in 0..n \/ i = n + 1
                OBVIOUS
            <4>2. QED
                BY <3>6, <3>7, <3>8, <3>9, <4>1
        <3>11. Good(h, n + 1)
            BY <3>10
        <3>12. QED
            BY <3>3, <3>5, <3>11
    <2> HIDE DEF T
    <2>3. QED
        BY <2>1, <2>2, Induct
<1>4. ASSUME NEW n \in Nat PROVE part(n) \in [0..n -> S] /\ Good(part(n), n)
    <2>1. n \in T
        BY <1>3
    <2>2. \E g : g \in [0..n -> S] /\ Good(g, n)
        BY <2>1
    <2> HIDE DEF Good
    <2>3. QED
        BY <2>2
<1>5. ASSUME NEW n \in Nat, NEW m \in Nat, n <= m PROVE \A i \in 0..n : part(m)[i] = part(n)[i]
    <2> DEFINE W == {i \in 0..n : part(m)[i] # part(n)[i]}
    <2> SUFFICES ASSUME W # {} PROVE FALSE
        OBVIOUS
    <2> HIDE DEF part
    <2>1. W \subseteq Nat
        OBVIOUS
    <2> HIDE DEF W
    <2>2. PICK i \in W : \A j \in W : i <= j
        BY <2>1, LeastNat
    <2>3. i \in 0..n /\ i \in 0..m /\ i \in Nat
        BY <1>5, <2>2 DEF W
    <2>4. \A j \in Nat : j < i => part(m)[j] = part(n)[j]
        BY <2>2, <2>3 DEF W
    <2>5. Val(part(m), i) = Val(part(n), i)
        BY <1>1, <2>3, <2>4
    <2>6. part(m)[i] = Val(part(m), i) /\ part(n)[i] = Val(part(n), i)
        BY <1>4, <2>3
    <2>7. QED
        BY <2>2, <2>5, <2>6 DEF W
<1>6. f \in [Nat -> S]
    <2>1. \A n \in Nat : part(n)[n] \in S
        <3> HIDE DEF part
        <3>1. QED
            BY <1>4
    <2> HIDE DEF part
    <2>2. QED
        BY <2>1
<1>7. ASSUME NEW n \in Nat PROVE f[n] = Val(f, n)
    <2>1. part(n)[n] = Val(part(n), n)
        <3> HIDE DEF part
        <3>1. QED
            BY <1>4
    <2>2. \A j \in Nat : j < n => part(n)[j] = f[j]
        <3> HIDE DEF part
        <3>1. QED
            BY <1>5
    <2> HIDE DEF f
    <2>3. Val(part(n), n) = Val(f, n)
        BY <1>1, <2>2
    <2>4. QED
        BY <2>1, <2>3 DEF f
<1> HIDE DEF f
<1>8. QED
    BY <1>6, <1>7 DEF Descends, Val
=============================================================================
