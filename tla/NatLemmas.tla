------------------------------ MODULE NatLemmas ------------------------------
(* Facts that the proofs of several modules need: least and largest elements of *)
(* sets of numbers, on which the CHOOSE of Max, of Min and of the models' own   *)
(* searches rely, and with them induction over numbers, stated for a set instead *)
(* of a predicate. Recursive functions and folds exist by that induction.       *)
EXTENDS Integers, FiniteSetsExt, FiniteSetTheorems, WellFoundedInduction, TLAPS

\* A set of numbers that is not empty has a least element.
LEMMA LeastNat ==
    ASSUME NEW S \in SUBSET Nat, S # {}
    PROVE  \E x \in S : \A y \in S : x <= y
<1>1. PICK x \in S : \A y \in S : ~(<<y, x>> \in OpToRel(<, Nat))
    BY WFMin, NatLessThanWellFounded
<1>2. \A y \in S : ~(y < x)
    BY <1>1 DEF OpToRel
<1> QED  BY <1>2

\* A bounded set of numbers that is not empty has a largest element.
LEMMA LargestNat ==
    ASSUME NEW S \in SUBSET Nat, S # {}, NEW K \in Nat, \A x \in S : x <= K
    PROVE  \E x \in S : \A y \in S : y <= x
<1> DEFINE T == {K - x : x \in S}
<1>1. \A x \in S : K - x \in Nat
    OBVIOUS
<1>2. T \subseteq Nat /\ T # {}
    BY <1>1
<1>3. PICK t \in T : \A u \in T : t <= u
    <2> HIDE DEF T
    <2> QED  BY <1>2, LeastNat
<1>4. PICK x \in S : t = K - x
    OBVIOUS
<1>5. ASSUME NEW y \in S PROVE y <= x
    <2>1. t <= K - y
        BY <1>3
    <2> QED  BY <2>1, <1>4
<1> QED  BY <1>5

\* Max of a bounded set of numbers is its largest element.
LEMMA MaxNat ==
    ASSUME NEW S \in SUBSET Nat, S # {}, NEW K \in Nat, \A x \in S : x <= K
    PROVE  Max(S) \in S /\ \A y \in S : y <= Max(S)
<1>1. \E x \in S : \A y \in S : x >= y
    BY LargestNat
<1> QED  BY <1>1 DEF Max

\* Max and Min of two numbers.
LEMMA MaxMinOfTwo ==
    ASSUME NEW a \in Int, NEW b \in Int
    PROVE  /\ Max({a, b}) = IF a >= b THEN a ELSE b
           /\ Min({a, b}) = IF a <= b THEN a ELSE b
<1>1. Max({a, b}) \in {a, b} /\ \A y \in {a, b} : Max({a, b}) >= y
    <2>1. \E x \in {a, b} : \A y \in {a, b} : x >= y
        OBVIOUS
    <2> QED  BY <2>1 DEF Max
<1>2. Min({a, b}) \in {a, b} /\ \A y \in {a, b} : Min({a, b}) <= y
    <2>1. \E x \in {a, b} : \A y \in {a, b} : x <= y
        OBVIOUS
    <2> QED  BY <2>1 DEF Min
<1> QED  BY <1>1, <1>2

-----------------------------------------------------------------------------
(* Induction.                                                              *)

\* A set with 0 and the successor of each of its numbers has every number.
LEMMA NatSteps ==
    ASSUME NEW S, 0 \in S, \A n \in Nat : n \in S => n + 1 \in S
    PROVE  \A n \in Nat : n \in S
<1> DEFINE C == {n \in Nat : n \notin S}
<1>1. SUFFICES ASSUME C # {} PROVE FALSE
    OBVIOUS
<1>2. PICK m \in C : \A k \in C : m <= k
    <2>1. C \in SUBSET Nat
        OBVIOUS
    <2> HIDE DEF C
    <2> QED  BY <1>1, <2>1, LeastNat
<1>3. m \in Nat /\ m # 0 /\ m \notin S
    OBVIOUS
<1>4. m - 1 \in Nat /\ m - 1 \notin C
    BY <1>2, <1>3
<1> QED  BY <1>3, <1>4

\* f starts with b and goes on with F, n times.
IsRecursion(f, n, V, b, F) ==
    /\ f \in [0..n -> V]
    /\ f[0] = b /\ \A i \in 1..n : f[i] = F[i][f[i-1]]

\* Such a function exists.
LEMMA RecursionExists ==
    ASSUME NEW V, NEW b \in V, NEW n \in Nat, NEW F \in [1..n -> [V -> V]]
    PROVE  \E st : IsRecursion(st, n, V, b, F)
<1> DEFINE Ok(k, st) == \A i \in 0..k : st[i] = IF i = 0 THEN b ELSE F[i][st[i-1]]
           S == {k \in Nat : k <= n => \E st \in [0..k -> V] : Ok(k, st)}
<1>1. 0 \in S
    <2>1. [i \in 0..0 |-> b] \in [0..0 -> V] /\ Ok(0, [i \in 0..0 |-> b])
        OBVIOUS
    <2> QED  BY <2>1
<1>2. ASSUME NEW k \in Nat, k \in S PROVE k + 1 \in S
    <2> SUFFICES ASSUME k + 1 <= n PROVE \E st \in [0..(k + 1) -> V] : Ok(k + 1, st)
        OBVIOUS
    <2>1. PICK st \in [0..k -> V] : Ok(k, st)
        BY <1>2
    <2> DEFINE nx == [i \in 0..(k + 1) |-> IF i <= k THEN st[i] ELSE F[k + 1][st[k]]]
    <2>2. nx \in [0..(k + 1) -> V]
        <3>1. F[k + 1][st[k]] \in V
            OBVIOUS
        <3> QED  BY <3>1
    <2>3. ASSUME NEW i \in 0..(k + 1)
          PROVE  nx[i] = IF i = 0 THEN b ELSE F[i][nx[i-1]]
        <3>1. CASE i <= k
            <4>1. nx[i] = st[i] /\ (i # 0 => nx[i-1] = st[i-1])
                BY <3>1
            <4>2. st[i] = IF i = 0 THEN b ELSE F[i][st[i-1]]
                BY <3>1, <2>1
            <4> HIDE DEF nx
            <4> QED  BY <4>1, <4>2
        <3>2. CASE i = k + 1
            <4>1. nx[i] = F[k + 1][st[k]] /\ nx[i-1] = st[k]
                BY <3>2
            <4>2. F[i][nx[i-1]] = F[k + 1][st[k]] /\ i # 0
                BY <3>2, <4>1
            <4> HIDE DEF nx
            <4> QED  BY <4>1, <4>2
        <3> QED  BY <3>1, <3>2
    <2> HIDE DEF nx
    <2> QED  BY <2>2, <2>3
<1>3. n \in S
    <2> HIDE DEF S
    <2> QED  BY <1>1, <1>2, NatSteps
<1>4. PICK st \in [0..n -> V] : Ok(n, st)
    BY <1>3
<1>5. st[0] = b /\ \A i \in 1..n : st[i] = F[i][st[i-1]]
    BY <1>4
<1> QED  BY <1>5 DEF IsRecursion

\* Pick(s) is the element that the folds of the community modules remove from s.
Pick(s) == CHOOSE x \in s : TRUE

\* The sum of the numbers w[x], one by one, over every part of a finite set.
IsSum(f, D, w) ==
    f = [s \in SUBSET D |-> IF s = {} THEN 0 ELSE w[Pick(s)] + f[s \ {Pick(s)}]]

\* Without the element picked a set has one element less.
LEMMA PickRemoves ==
    ASSUME NEW D, IsFiniteSet(D), NEW s \in SUBSET D, s # {}
    PROVE  /\ Pick(s) \in s /\ IsFiniteSet(s) /\ s \ {Pick(s)} \in SUBSET D
           /\ Cardinality(s) \in Nat
           /\ Cardinality(s \ {Pick(s)}) = Cardinality(s) - 1
<1>1. Pick(s) \in s
    BY DEF Pick
<1>2. IsFiniteSet(s)
    BY FS_Subset
<1> QED  BY <1>1, <1>2, FS_RemoveElement, FS_CardinalityType

\* Such a sum exists.
LEMMA SumExists ==
    ASSUME NEW D, IsFiniteSet(D), NEW w \in [D -> Int]
    PROVE  \E f \in [SUBSET D -> Int] : IsSum(f, D, w)
<1> DEFINE Upto(k) == {s \in SUBSET D : Cardinality(s) <= k}
           Val(f, s) == IF s = {} THEN 0 ELSE w[Pick(s)] + f[s \ {Pick(s)}]
           S == {k \in Nat : \E f \in [Upto(k) -> Int] : \A s \in Upto(k) : f[s] = Val(f, s)}
<1>0. \A s \in SUBSET D : IsFiniteSet(s) /\ Cardinality(s) \in Nat
    BY FS_Subset, FS_CardinalityType
<1>1. 0 \in S
    <2>1. \A s \in Upto(0) : s = {}
        BY <1>0, FS_EmptySet
    <2>2. [s \in Upto(0) |-> 0] \in [Upto(0) -> Int]
        OBVIOUS
    <2>3. \A s \in Upto(0) : [r \in Upto(0) |-> 0][s] = Val([r \in Upto(0) |-> 0], s)
        BY <2>1
    <2> QED  BY <2>2, <2>3
<1>2. ASSUME NEW k \in Nat, k \in S PROVE k + 1 \in S
    <2>1. PICK f \in [Upto(k) -> Int] : \A s \in Upto(k) : f[s] = Val(f, s)
        BY <1>2
    <2> DEFINE g == [s \in Upto(k + 1) |-> Val(f, s)]
    <2>2. Upto(k) \subseteq Upto(k + 1)
        BY <1>0
    <2>3. ASSUME NEW s \in Upto(k + 1), s # {}
          PROVE  s \ {Pick(s)} \in Upto(k) /\ Pick(s) \in D
        BY <1>0, <2>3, PickRemoves
    <2>4. \A s \in Upto(k + 1) : Val(f, s) \in Int
        BY <2>3
    <2>5. g \in [Upto(k + 1) -> Int]
        BY <2>4
    <2>6. \A s \in Upto(k) : g[s] = f[s]
        BY <2>1, <2>2
    <2>7. \A s \in Upto(k + 1) : g[s] = Val(g, s)
        BY <2>3, <2>6
    <2>8. k + 1 \in Nat
        OBVIOUS
    <2> HIDE DEF g, Upto, Val
    <2> QED  BY <2>5, <2>7, <2>8
<1>3. Cardinality(D) \in Nat /\ Cardinality(D) \in S
    <2>1. Cardinality(D) \in Nat
        BY FS_CardinalityType
    <2> HIDE DEF S
    <2> QED  BY <1>1, <1>2, <2>1, NatSteps
<1>4. Upto(Cardinality(D)) = SUBSET D
    BY FS_Subset
<1>5. PICK f \in [SUBSET D -> Int] : \A s \in SUBSET D : f[s] = Val(f, s)
    BY <1>3, <1>4
<1>6. f = [s \in SUBSET D |-> Val(f, s)]
    BY <1>5
<1> QED  BY <1>6 DEF IsSum

\* A set of sets with the empty set and, with a set, every one that it is left of
\* when an element is picked, has every part of a finite set.
LEMMA SetSteps ==
    ASSUME NEW D, IsFiniteSet(D), NEW C, {} \in C,
           \A s \in SUBSET D : s # {} /\ s \ {Pick(s)} \in C => s \in C
    PROVE  \A s \in SUBSET D : s \in C
<1> DEFINE S == {k \in Nat : \A s \in SUBSET D : Cardinality(s) <= k => s \in C}
<1>0. \A s \in SUBSET D : IsFiniteSet(s) /\ Cardinality(s) \in Nat
    BY FS_Subset, FS_CardinalityType
<1>1. 0 \in S
    <2>1. \A s \in SUBSET D : Cardinality(s) <= 0 => s = {}
        BY <1>0, FS_EmptySet
    <2> QED  BY <2>1
<1>2. ASSUME NEW k \in Nat, k \in S PROVE k + 1 \in S
    <2> SUFFICES ASSUME NEW s \in SUBSET D, Cardinality(s) <= k + 1, s # {}
                 PROVE  s \in C
        OBVIOUS
    <2>1. s \ {Pick(s)} \in SUBSET D /\ Cardinality(s \ {Pick(s)}) <= k
        BY PickRemoves
    <2>2. s \ {Pick(s)} \in C
        BY <1>2, <2>1
    <2> QED  BY <2>2
<1>3. Cardinality(D) \in Nat /\ Cardinality(D) \in S
    <2>1. Cardinality(D) \in Nat
        BY FS_CardinalityType
    <2> HIDE DEF S
    <2> QED  BY <1>1, <1>2, <2>1, NatSteps
<1>4. \A s \in SUBSET D : Cardinality(s) <= Cardinality(D)
    BY FS_Subset
<1> QED  BY <1>3, <1>4

\* A sum of numbers is a number.
LEMMA SumType ==
    ASSUME NEW D, IsFiniteSet(D), NEW w \in [D -> Nat], NEW f, IsSum(f, D, w)
    PROVE  f[D] \in Nat
<1> DEFINE C == {s \in SUBSET D : f[s] \in Nat}
<1>1. \A s \in SUBSET D : f[s] = IF s = {} THEN 0 ELSE w[Pick(s)] + f[s \ {Pick(s)}]
    BY DEF IsSum
<1>2. {} \in C
    <2>1. f[{}] = 0
        BY <1>1
    <2> QED  BY <2>1
<1>3. ASSUME NEW s \in SUBSET D, s # {}, s \ {Pick(s)} \in C PROVE s \in C
    <2>1. Pick(s) \in D
        BY <1>3, PickRemoves
    <2> QED  BY <1>1, <1>3, <2>1
<1>4. D \in C
    <2> HIDE DEF C
    <2> QED  BY <1>2, <1>3, SetSteps
<1> QED  BY <1>4

\* Sums of integers are integers, and may be added term by term.
LEMMA SumAdds ==
    ASSUME NEW D, IsFiniteSet(D), NEW w \in [D -> Int], NEW v \in [D -> Int], NEW u \in [D -> Int],
           \A x \in D : u[x] = w[x] + v[x],
           NEW f, IsSum(f, D, w), NEW g, IsSum(g, D, v), NEW h, IsSum(h, D, u)
    PROVE  f[D] \in Int /\ g[D] \in Int /\ h[D] = f[D] + g[D]
<1> DEFINE C == {s \in SUBSET D : f[s] \in Int /\ g[s] \in Int /\ h[s] = f[s] + g[s]}
<1>1. /\ \A s \in SUBSET D : f[s] = IF s = {} THEN 0 ELSE w[Pick(s)] + f[s \ {Pick(s)}]
      /\ \A s \in SUBSET D : g[s] = IF s = {} THEN 0 ELSE v[Pick(s)] + g[s \ {Pick(s)}]
      /\ \A s \in SUBSET D : h[s] = IF s = {} THEN 0 ELSE u[Pick(s)] + h[s \ {Pick(s)}]
    BY DEF IsSum
<1>2. {} \in C
    <2>1. f[{}] = 0 /\ g[{}] = 0 /\ h[{}] = 0
        BY <1>1
    <2>2. {} \in SUBSET D
        OBVIOUS
    <2> QED  BY <2>1, <2>2
<1>3. ASSUME NEW s \in SUBSET D, s # {}, s \ {Pick(s)} \in C PROVE s \in C
    <2> DEFINE x == Pick(s)
               r == s \ {x}
    <2>1. x \in D
        BY <1>3, PickRemoves
    <2>2. w[x] \in Int /\ v[x] \in Int /\ u[x] = w[x] + v[x]
        BY <2>1
    <2>3. f[r] \in Int /\ g[r] \in Int /\ h[r] = f[r] + g[r]
        BY <1>3
    <2>4. f[s] = w[x] + f[r] /\ g[s] = v[x] + g[r] /\ h[s] = u[x] + h[r]
        BY <1>1, <1>3
    <2> HIDE DEF x, r
    <2> QED  BY <2>2, <2>3, <2>4
<1>4. D \in C
    <2> HIDE DEF C
    <2> QED  BY <1>2, <1>3, SetSteps
<1> QED  BY <1>4

\* The elements of the sets A[x] together.
Joined(A, D) == UNION {A[x] : x \in D}

\* The sizes of disjoint sets add up to the size of their union.
LEMMA SumOfSizes ==
    ASSUME NEW D, IsFiniteSet(D), NEW A, \A x \in D : IsFiniteSet(A[x]),
           \A x, y \in D : x # y => A[x] \intersect A[y] = {},
           NEW w, \A x \in D : w[x] = Cardinality(A[x]), NEW f, IsSum(f, D, w)
    PROVE  IsFiniteSet(Joined(A, D)) /\ f[D] = Cardinality(Joined(A, D))
<1> DEFINE All(s) == Joined(A, s)
           C == {s \in SUBSET D : IsFiniteSet(All(s)) /\ f[s] = Cardinality(All(s))}
<1>1. \A s \in SUBSET D : f[s] = IF s = {} THEN 0 ELSE w[Pick(s)] + f[s \ {Pick(s)}]
    BY DEF IsSum
<1>2. {} \in C
    <2>1. All({}) = {}
        BY DEF Joined
    <2>2. f[{}] = 0
        BY <1>1
    <2> QED  BY <2>1, <2>2, FS_EmptySet
<1>3. ASSUME NEW s \in SUBSET D, s # {}, s \ {Pick(s)} \in C PROVE s \in C
    <2> DEFINE x == Pick(s)
               r == s \ {x}
    <2>1. x \in s /\ x \in D /\ s = r \union {x} /\ x \notin r /\ r \subseteq D
        <3>1. Pick(s) \in s
            BY <1>3 DEF Pick
        <3> QED  BY <3>1
    <2>2. f[s] = Cardinality(A[x]) + f[r]
        BY <1>1, <1>3, <2>1
    <2>3. IsFiniteSet(All(r)) /\ f[r] = Cardinality(All(r))
        BY <1>3
    <2> HIDE DEF x, r
    <2>4. All(s) = A[x] \union All(r) /\ A[x] \intersect All(r) = {}
        BY <2>1 DEF Joined
    <2>5. IsFiniteSet(A[x])
        BY <2>1
    <2> HIDE DEF All
    <2>6. IsFiniteSet(A[x] \union All(r))
        BY <2>3, <2>5, FS_Union
    <2>7. Cardinality(A[x] \union All(r)) = Cardinality(A[x]) + Cardinality(All(r))
        <3>1. /\ Cardinality(A[x] \union All(r)) =
                    Cardinality(A[x]) + Cardinality(All(r)) - Cardinality(A[x] \intersect All(r))
              /\ Cardinality(A[x]) \in Nat /\ Cardinality(All(r)) \in Nat
            BY <2>3, <2>5, FS_Union, FS_CardinalityType
        <3>2. Cardinality(A[x] \intersect All(r)) = 0
            BY <2>4, FS_EmptySet
        <3> QED  BY <3>1, <3>2
    <2> QED  BY <2>2, <2>3, <2>4, <2>6, <2>7
<1>4. D \in C
    <2> HIDE DEF C
    <2> QED  BY <1>2, <1>3, SetSteps
<1> QED  BY <1>4

-----------------------------------------------------------------------------
(* Steps one after the other, and sums over sets that change.               *)

\* What starts in V and goes on with steps of V stays in V.
LEMMA StaysIn ==
    ASSUME NEW V, NEW n \in Nat, NEW F \in [1..n -> [V -> V]], NEW T, T[0] \in V,
           \A i \in 1..n : T[i-1] \in V => T[i] = F[i][T[i-1]]
    PROVE  \A i \in 0..n : T[i] \in V
<1> DEFINE S == {k \in Nat : k <= n => T[k] \in V}
<1>1. 0 \in S
    OBVIOUS
<1>2. ASSUME NEW k \in Nat, k \in S PROVE k + 1 \in S
    <2> SUFFICES ASSUME k + 1 <= n PROVE T[k + 1] \in V
        OBVIOUS
    <2>1. k + 1 \in 1..n /\ (k + 1) - 1 = k /\ T[k] \in V
        BY <1>2
    <2>2. T[k + 1] = F[k + 1][T[k]]
        BY <2>1
    <2>3. F[k + 1] \in [V -> V]
        BY <2>1
    <2> QED  BY <2>1, <2>2, <2>3
<1>3. \A k \in Nat : k \in S
    <2> HIDE DEF S
    <2> QED  BY <1>1, <1>2, NatSteps
<1> QED  BY <1>3

\* Two functions that are defined by the same steps agree.
LEMMA RecursionUnique ==
    ASSUME NEW V, NEW b, NEW F, NEW n \in Nat, NEW m \in Nat, NEW f, NEW g,
           IsRecursion(f, n, V, b, F), IsRecursion(g, m, V, b, F)
    PROVE  \A k \in Nat : k <= n /\ k <= m => f[k] = g[k]
<1> DEFINE S == {k \in Nat : k <= n /\ k <= m => f[k] = g[k]}
<1>1. 0 \in S
    BY DEF IsRecursion
<1>2. ASSUME NEW k \in Nat, k \in S PROVE k + 1 \in S
    <2> SUFFICES ASSUME k + 1 <= n, k + 1 <= m PROVE f[k + 1] = g[k + 1]
        OBVIOUS
    <2>1. k + 1 \in 1 .. n /\ k + 1 \in 1 .. m /\ (k + 1) - 1 = k /\ f[k] = g[k]
        BY <1>2
    <2>2. f[k + 1] = F[k + 1][f[(k + 1) - 1]] /\ g[k + 1] = F[k + 1][g[(k + 1) - 1]]
        BY <2>1 DEF IsRecursion
    <2> QED  BY <2>1, <2>2
<1>3. \A k \in Nat : k \in S
    <2> HIDE DEF S
    <2> QED  BY <1>1, <1>2, NatSteps
<1> QED  BY <1>3

\* f starts with b and goes on with F, for ever.
IsNatRecursion(f, V, b, F) ==
    /\ f \in [Nat -> V]
    /\ f[0] = b /\ \A i \in Nat : i # 0 => f[i] = F[i][f[i-1]]

\* A function on the numbers that is defined step by step exists.
LEMMA NatRecursion ==
    ASSUME NEW V, NEW b \in V, NEW F \in [Nat -> [V -> V]]
    PROVE  \E f : IsNatRecursion(f, V, b, F)
<1> DEFINE part(n) == CHOOSE f : IsRecursion(f, n, V, b, F)
           f == [n \in Nat |-> part(n)[n]]
<1>1. ASSUME NEW n \in Nat PROVE IsRecursion(part(n), n, V, b, F)
    <2> DEFINE G == [i \in 1 .. n |-> F[i]]
    <2>1. G \in [1 .. n -> [V -> V]]
        OBVIOUS
    <2>2. PICK h : IsRecursion(h, n, V, b, G)
        <3> HIDE DEF G
        <3> QED  BY <2>1, RecursionExists
    <2>3. IsRecursion(h, n, V, b, F)
        BY <2>2 DEF IsRecursion
    <2> QED  BY <2>3
<1> HIDE DEF part
<1>2. ASSUME NEW n \in Nat PROVE f[n] \in V
    <2>1. part(n) \in [0 .. n -> V] /\ n \in 0 .. n
        BY <1>1 DEF IsRecursion
    <2> QED  BY <2>1
<1>3. f[0] = b
    BY <1>1 DEF IsRecursion
<1>4. ASSUME NEW n \in Nat, n # 0 PROVE f[n] = F[n][f[n - 1]]
    <2>1. n - 1 \in Nat /\ n \in 1 .. n
        BY <1>4
    <2>2. part(n)[n] = F[n][part(n)[n - 1]]
        BY <1>1, <2>1 DEF IsRecursion
    <2>3. IsRecursion(part(n), n, V, b, F) /\ IsRecursion(part(n - 1), n - 1, V, b, F)
        BY <1>1, <2>1
    <2>4. part(n)[n - 1] = part(n - 1)[n - 1]
        BY <2>1, <2>3, RecursionUnique
    <2> QED  BY <2>1, <2>2, <2>4
<1>5. f \in [Nat -> V]
    BY <1>2
<1> HIDE DEF f
<1>6. IsNatRecursion(f, V, b, F)
    BY <1>3, <1>4, <1>5 DEF IsNatRecursion
<1> QED  BY <1>6

\* The sum of w over D.
SumOver(w, D) == (CHOOSE f : IsSum(f, D, w))[D]

\* Such sums are integers.
LEMMA SumIntegers ==
    ASSUME NEW D, IsFiniteSet(D), NEW w, \A x \in D : w[x] \in Int, NEW f, IsSum(f, D, w)
    PROVE  \A s \in SUBSET D : f[s] \in Int
<1> DEFINE C == {s \in SUBSET D : f[s] \in Int}
<1>1. \A s \in SUBSET D : f[s] = IF s = {} THEN 0 ELSE w[Pick(s)] + f[s \ {Pick(s)}]
    BY DEF IsSum
<1>2. {} \in C
    <2>1. f[{}] = 0 /\ {} \in SUBSET D
        BY <1>1
    <2> QED  BY <2>1
<1>3. ASSUME NEW s \in SUBSET D, s # {}, s \ {Pick(s)} \in C PROVE s \in C
    <2> DEFINE p == Pick(s)
               r == s \ {p}
    <2>1. w[p] \in Int
        <3>1. Pick(s) \in D
            BY <1>3, PickRemoves
        <3> QED  BY <3>1
    <2>2. f[r] \in Int
        BY <1>3
    <2>3. f[s] = w[p] + f[r]
        <3>1. f[s] = IF s = {} THEN 0 ELSE w[Pick(s)] + f[s \ {Pick(s)}]
            BY <1>1, Zenon
        <3> QED  BY <1>3, <3>1
    <2>4. f[s] \in Int
        <3> HIDE DEF p, r
        <3> QED  BY <2>1, <2>2, <2>3
    <2> QED  BY <2>4
<1>4. \A s \in SUBSET D : s \in C
    <2> HIDE DEF C
    <2> QED  BY <1>2, <1>3, SetSteps
<1> QED  BY <1>4

\* An element that is taken out of a set is taken out of its sum.
TakesOut(f, D, w) == \A s \in SUBSET D : \A x \in s : f[s] = w[x] + f[s \ {x}]
LEMMA SumTakesOut ==
    ASSUME NEW D, IsFiniteSet(D), NEW w, \A x \in D : w[x] \in Int, NEW f, IsSum(f, D, w)
    PROVE  TakesOut(f, D, w)
<1> DEFINE Ok(s) == \A x \in s : f[s] = w[x] + f[s \ {x}]
           S == {k \in Nat : \A s \in SUBSET D : Cardinality(s) = k => Ok(s)}
<1>1. \A s \in SUBSET D : f[s] = IF s = {} THEN 0 ELSE w[Pick(s)] + f[s \ {Pick(s)}]
    BY DEF IsSum
<1>2. \A s \in SUBSET D : IsFiniteSet(s) /\ Cardinality(s) \in Nat /\ f[s] \in Int
    BY FS_Subset, FS_CardinalityType, SumIntegers
<1>3. 0 \in S
    <2> SUFFICES ASSUME NEW s \in SUBSET D, Cardinality(s) = 0 PROVE Ok(s)
        OBVIOUS
    <2>1. s = {}
        BY <1>2, FS_EmptySet
    <2> QED  BY <2>1
<1>4. ASSUME NEW k \in Nat, k \in S PROVE k + 1 \in S
    <2> SUFFICES ASSUME NEW s \in SUBSET D, Cardinality(s) = k + 1, NEW x \in s
                 PROVE  f[s] = w[x] + f[s \ {x}]
        OBVIOUS
    <2>1. ASSUME NEW y \in s PROVE s \ {y} \in SUBSET D /\ Ok(s \ {y})
        <3>1. Cardinality(s \ {y}) = k
            <4>1. IsFiniteSet(s) /\ Cardinality(s \ {y}) = Cardinality(s) - 1
                BY <1>2, FS_RemoveElement
            <4> QED  BY <4>1
        <3> QED  BY <1>4, <3>1
    <2> DEFINE p == Pick(s)
    <2>2. p \in s /\ f[s] = w[p] + f[s \ {p}]
        <3>1. s # {}
            OBVIOUS
        <3>2. p \in s
            BY <3>1 DEF Pick
        <3> QED  BY <1>1, <3>1, <3>2
    <2> HIDE DEF p
    <2>3. CASE x = p
        BY <2>2, <2>3
    <2>4. CASE x # p
        <3> DEFINE rest == (s \ {p}) \ {x}
        <3>1. x \in s \ {p} /\ p \in s \ {x} /\ rest = (s \ {x}) \ {p}
            BY <2>2, <2>4
        <3>2. f[s \ {p}] = w[x] + f[rest]
            BY <2>1, <2>2, <3>1
        <3>3. f[s \ {x}] = w[p] + f[rest]
            BY <2>1, <3>1
        <3>4. f[rest] \in Int /\ w[x] \in Int /\ w[p] \in Int
            <4>1. rest \in SUBSET D /\ x \in D /\ p \in D
                BY <2>2
            <4> QED  BY <1>2, <4>1
        <3> HIDE DEF rest
        <3> QED  BY <2>2, <3>2, <3>3, <3>4
    <2> QED  BY <2>3, <2>4
<1>5. \A k \in Nat : k \in S
    <2> HIDE DEF S
    <2> QED  BY <1>3, <1>4, NatSteps
<1> QED  BY <1>2, <1>5 DEF TakesOut

\* The sum over a set does not depend on what is outside of it.
LEMMA SumAgrees ==
    ASSUME NEW D, IsFiniteSet(D), NEW w, NEW f, IsSum(f, D, w), NEW E \in SUBSET D,
           NEW v, NEW g, IsSum(g, E, v), \A x \in E : w[x] = v[x]
    PROVE  f[E] = g[E]
<1> DEFINE C == {s \in SUBSET E : f[s] = g[s]}
<1>1. /\ \A s \in SUBSET D : f[s] = IF s = {} THEN 0 ELSE w[Pick(s)] + f[s \ {Pick(s)}]
      /\ \A s \in SUBSET E : g[s] = IF s = {} THEN 0 ELSE v[Pick(s)] + g[s \ {Pick(s)}]
    BY DEF IsSum
<1>2. {} \in C
    <2>1. f[{}] = 0 /\ g[{}] = 0
        BY <1>1
    <2> QED  BY <2>1
<1>3. ASSUME NEW s \in SUBSET E, s # {}, s \ {Pick(s)} \in C PROVE s \in C
    <2>1. Pick(s) \in s
        BY <1>3 DEF Pick
    <2>2. f[s] = w[Pick(s)] + f[s \ {Pick(s)}] /\ g[s] = v[Pick(s)] + g[s \ {Pick(s)}]
        BY <1>1, <1>3
    <2> QED  BY <1>3, <2>1, <2>2
<1>4. IsFiniteSet(E)
    BY FS_Subset
<1>5. E \in C
    <2> HIDE DEF C
    <2> QED  BY <1>2, <1>3, <1>4, SetSteps
<1> QED  BY <1>5

\* A sum that is chosen is one.
LEMMA SumChosen ==
    ASSUME NEW D, IsFiniteSet(D), NEW w, \A x \in D : w[x] \in Int
    PROVE  IsSum(CHOOSE f : IsSum(f, D, w), D, w)
<1> DEFINE v == [x \in D |-> w[x]]
<1>1. PICK f : IsSum(f, D, v)
    <2>1. v \in [D -> Int]
        OBVIOUS
    <2> HIDE DEF v
    <2> QED  BY <2>1, SumExists
<1>2. IsSum(f, D, w)
    <2> DEFINE a(s) == IF s = {} THEN 0 ELSE v[Pick(s)] + f[s \ {Pick(s)}]
               b(s) == IF s = {} THEN 0 ELSE w[Pick(s)] + f[s \ {Pick(s)}]
    <2>1. ASSUME NEW s \in SUBSET D PROVE a(s) = b(s)
        <3>1. s # {} => Pick(s) \in D
            BY DEF Pick
        <3> QED  BY <3>1
    <2>2. f = [s \in SUBSET D |-> a(s)]
        BY <1>1, Zenon DEF IsSum
    <2>3. [s \in SUBSET D |-> a(s)] = [s \in SUBSET D |-> b(s)]
        <3> HIDE DEF a, b
        <3> QED  BY <2>1
    <2>4. f = [s \in SUBSET D |-> b(s)]
        BY <2>2, <2>3, Zenon
    <2> QED  BY <2>4, Zenon DEF IsSum
<1> QED  BY <1>2, Zenon

\* Sums: of nothing, of a set with an element, and of the same numbers.
LEMMA Sums ==
    ASSUME NEW D, IsFiniteSet(D), NEW w, \A x \in D : w[x] \in Int
    PROVE  /\ SumOver(w, D) \in Int
           /\ D = {} => SumOver(w, D) = 0
           /\ \A x \in D : SumOver(w, D) = w[x] + SumOver(w, D \ {x}) /\ SumOver(w, D \ {x}) \in Int
           /\ \A v : (\A x \in D : w[x] = v[x]) => SumOver(w, D) = SumOver(v, D)
<1> DEFINE f == CHOOSE g : IsSum(g, D, w)
<1>1. IsSum(f, D, w) /\ SumOver(w, D) = f[D]
    BY SumChosen, Zenon DEF SumOver
<1> HIDE DEF f
<1>2. \A s \in SUBSET D : f[s] \in Int
    BY <1>1, SumIntegers
<1>3. SumOver(w, D) \in Int
    BY <1>1, <1>2
<1>4. D = {} => SumOver(w, D) = 0
    BY <1>1 DEF IsSum
<1>7. \A s \in SUBSET D : \A x \in s : f[s] = w[x] + f[s \ {x}]
    <2>1. IsSum(f, D, w)
        BY <1>1
    <2>2. TakesOut(f, D, w)
        BY <2>1, SumTakesOut, Zenon
    <2> QED  BY <2>2, Zenon DEF TakesOut
<1>5. ASSUME NEW x \in D
      PROVE  SumOver(w, D) = w[x] + SumOver(w, D \ {x}) /\ SumOver(w, D \ {x}) \in Int
    <2> DEFINE E == D \ {x}
               g == CHOOSE h : IsSum(h, E, w)
    <2>1. IsFiniteSet(E) /\ E \in SUBSET D
        BY FS_Subset
    <2>2. IsSum(g, E, w) /\ SumOver(w, E) = g[E]
        <3>1. \A y \in E : w[y] \in Int
            OBVIOUS
        <3> HIDE DEF E
        <3> QED  BY <2>1, <3>1, SumChosen, Zenon DEF SumOver
    <2> HIDE DEF g
    <2>3. f[E] = g[E]
        <3> HIDE DEF E
        <3> QED  BY <1>1, <2>1, <2>2, SumAgrees
    <2>4. f[D] = w[x] + f[E]
        <3>1. D \in SUBSET D
            OBVIOUS
        <3> QED  BY <1>7, <3>1, Zenon
    <2> QED  BY <1>1, <1>2, <2>1, <2>2, <2>3, <2>4
<1>6. ASSUME NEW v, \A x \in D : w[x] = v[x] PROVE SumOver(w, D) = SumOver(v, D)
    <2> DEFINE g == CHOOSE h : IsSum(h, D, v)
    <2>1. IsSum(g, D, v) /\ SumOver(v, D) = g[D]
        <3>1. \A x \in D : v[x] \in Int
            BY <1>6
        <3> QED  BY <3>1, SumChosen, Zenon DEF SumOver
    <2> HIDE DEF g
    <2>2. f[D] = g[D]
        <3>1. D \in SUBSET D
            OBVIOUS
        <3> QED  BY <1>1, <1>6, <2>1, <3>1, SumAgrees
    <2> QED  BY <1>1, <2>1, <2>2
<1> QED  BY <1>3, <1>4, <1>5, <1>6

\* A number that changes changes the sum by the difference.
LEMMA SumChanges ==
    ASSUME NEW D, IsFiniteSet(D), NEW w, \A x \in D : w[x] \in Int,
           NEW v, \A x \in D : v[x] \in Int, NEW x \in D, \A y \in D \ {x} : w[y] = v[y]
    PROVE  SumOver(v, D) = SumOver(w, D) - w[x] + v[x]
<1> DEFINE E == D \ {x}
<1>1. /\ SumOver(w, D) = w[x] + SumOver(w, E) /\ SumOver(w, E) \in Int
      /\ SumOver(v, D) = v[x] + SumOver(v, E) /\ SumOver(v, E) \in Int
    BY Sums
<1>2. SumOver(w, E) = SumOver(v, E)
    <2>1. IsFiniteSet(E) /\ \A y \in E : w[y] \in Int /\ w[y] = v[y]
        BY FS_RemoveElement
    <2> HIDE DEF E
    <2> QED  BY <2>1, Sums
<1>3. w[x] \in Int /\ v[x] \in Int
    OBVIOUS
<1> HIDE DEF E
<1> QED  BY <1>1, <1>2, <1>3

\* The sum the community module computes.
LEMMA MapThenSumIsSum ==
    ASSUME NEW D, NEW w
    PROVE  MapThenSumSet(LAMBDA x : w[x], D) = SumOver(w, D)
BY Zenon DEF MapThenSumSet, MapThenFoldSet, SumOver, IsSum, Pick
=============================================================================
