--------------------------- MODULE RangeProofProofs ---------------------------
(***************************************************************************)
(* What the Python proof engine promises, for every curve of secp256k1's   *)
(* shape, every width and every random scalar.                             *)
(*                                                                         *)
(* The argument is in factors: every point is a multiple E(k) of the       *)
(* generator, H is E(h), a commitment to v with blinding r is E(v + r*h),  *)
(* and an equation between points is a congruence modulo N between         *)
(* factors.  The inductive invariant says what was made, in these factors, *)
(* and what was judged, by the equations of the verifiers.                 *)
(*                                                                         *)
(* What a question is about follows from the framing: a transcript is      *)
(* taken apart from its end, or from its front, into chunks whose lengths  *)
(* are known.                                                              *)
(***************************************************************************)
EXTENDS RangeProof, CurveProofs, SequenceTheorems

-----------------------------------------------------------------------------
(* Recursion over all naturals, and the powers of two *)

\* A recursive function over the naturals exists: it agrees with those over 0..n.
RecursionOnNat(S, a, st) ==
    \E g \in [Nat -> S] : g[0] = a /\ \A k \in Nat \ {0} : g[k] = st[k][g[k - 1]]

\* It does: the finite parts exist, and agree where they overlap.
LEMMA RecursionOnNatExists ==
    ASSUME NEW S, NEW a \in S, NEW st \in [Nat -> [S -> S]]
    PROVE  RecursionOnNat(S, a, st)
    <1> DEFINE Steps(n, f) == /\ f \in [0..n -> S] /\ f[0] = a
                              /\ \A k \in 1..n : f[k] = st[k][f[k - 1]]
               F(n) == CHOOSE f : Steps(n, f)
               g == [n \in Nat |-> F(n)[n]]
    <1>1. ASSUME NEW n \in Nat PROVE Steps(n, F(n))
        <2> DEFINE t == [k \in 1..n |-> st[k]]
        <2>1. t \in [1..n -> [S -> S]]
            OBVIOUS
        <2>2. \A k \in 1..n : t[k] = st[k]
            OBVIOUS
        <2> HIDE DEF t
        <2>3. Recursion(n, S, a, t)
            BY <2>1, RecursionExists
        <2>4. PICK f \in [0..n -> S] : f[0] = a /\ \A k \in 1..n : f[k] = t[k][f[k - 1]]
            BY <2>3 DEF Recursion
        <2>5. Steps(n, f)
            BY <2>2, <2>4
        <2> HIDE DEF Steps
        <2> QED
            BY <2>5
    <1> HIDE DEF F
    <1>2. ASSUME NEW n \in Nat, NEW i \in 0..n PROVE F(n + 1)[i] = F(n)[i]
        <2>0. Steps(n, F(n)) /\ Steps(n + 1, F(n + 1))
            BY <1>1
        <2> DEFINE f1 == F(n)
                   f2 == F(n + 1)
                   T == {k \in 0..n : f2[k] = f1[k]}
        <2> HIDE DEF f1, f2
        <2>s. Steps(n, f1) /\ Steps(n + 1, f2)
            BY <2>0 DEF f1, f2
        <2>1. 0 \in T
            BY <2>s
        <2>2. ASSUME NEW k \in 0..n, k < n, k \in T PROVE k + 1 \in T
            <3>1. k + 1 \in 1..n /\ k + 1 \in 1..(n + 1) /\ (k + 1) - 1 = k /\ k + 1 \in 0..n
                BY <2>2
            <3>2. f1[k + 1] = st[k + 1][f1[k]] /\ f2[k + 1] = st[k + 1][f2[k]]
                BY <2>s, <3>1
            <3> QED
                BY <2>2, <3>1, <3>2
        <2>3. 0..n \subseteq T
            <3> HIDE DEF T
            <3> QED
                BY <2>1, <2>2, UpTo
        <2> QED
            BY <2>3 DEF f1, f2
    <1>3. g \in [Nat -> S]
        <2>1. ASSUME NEW n \in Nat PROVE F(n)[n] \in S
            BY <1>1
        <2> QED
            BY <2>1
    <1>4. g[0] = a
        <2>1. F(0)[0] = a
            BY <1>1
        <2> QED
            BY <2>1
    <1>5. ASSUME NEW k \in Nat \ {0} PROVE g[k] = st[k][g[k - 1]]
        <2>1. k - 1 \in Nat /\ k - 1 \in 0..(k - 1) /\ (k - 1) + 1 = k /\ k \in 1..k /\ k \in Nat
            OBVIOUS
        <2>2. F(k)[k] = st[k][F(k)[k - 1]]
            BY <1>1, <2>1
        <2>3. F(k)[k - 1] = F(k - 1)[k - 1]
            <3> DEFINE j == k - 1
            <3>1. j \in Nat /\ j \in 0..j /\ j + 1 = k
                BY <2>1
            <3> HIDE DEF j
            <3>2. F(j + 1)[j] = F(j)[j]
                BY <1>2, <3>1
            <3> QED
                BY <3>1, <3>2 DEF j
        <2> QED
            BY <2>1, <2>2, <2>3
    <1> HIDE DEF g
    <1> QED
        BY <1>3, <1>4, <1>5 DEF RecursionOnNat

\* 1 << n is a positive number, and doubles with n.
LEMMA Pow2Facts ==
    /\ Pow2[0] = 1
    /\ \A n \in Nat : Pow2[n] \in Nat \ {0} /\ Pow2[n] \in Int /\ Pow2[n + 1] = 2 * Pow2[n]
    <1> DEFINE S == Nat \ {0}
               st == [k \in Nat |-> [x \in S |-> 2 * x]]
    <1>1. 1 \in S /\ st \in [Nat -> [S -> S]]
        OBVIOUS
    <1>2. PICK g \in [Nat -> S] : g[0] = 1 /\ \A k \in Nat \ {0} : g[k] = st[k][g[k - 1]]
        <2> HIDE DEF S, st
        <2>1. RecursionOnNat(S, 1, st)
            BY <1>1, RecursionOnNatExists
        <2> QED
            BY <2>1 DEF RecursionOnNat
    <1>3. ASSUME NEW k \in Nat \ {0} PROVE g[k] = 2 * g[k - 1]
        <2>1. k - 1 \in Nat
            OBVIOUS
        <2>2. g[k - 1] \in S
            BY <1>2, <2>1
        <2>3. st[k][g[k - 1]] = 2 * g[k - 1]
            BY <2>2
        <2> QED
            BY <1>2, <2>3
    <1>4. g = [n \in Nat |-> IF n = 0 THEN 1 ELSE 2 * g[n - 1]]
        BY <1>2, <1>3
    <1>5. Pow2 = [n \in Nat |-> IF n = 0 THEN 1 ELSE 2 * Pow2[n - 1]]
        BY <1>4 DEF Pow2
    <1> HIDE DEF Pow2
    <1>6. Pow2[0] = 1
        BY <1>5
    <1>7. ASSUME NEW n \in Nat PROVE Pow2[n + 1] = 2 * Pow2[n]
        <2>1. n + 1 \in Nat /\ n + 1 # 0 /\ (n + 1) - 1 = n
            OBVIOUS
        <2> QED
            BY <1>5, <2>1
    <1>8. Nat \subseteq {n \in Nat : Pow2[n] \in Nat \ {0}}
        <2> DEFINE T == {n \in Nat : Pow2[n] \in Nat \ {0}}
        <2>1. 0 \in T
            BY <1>6
        <2>2. ASSUME NEW n \in Nat, n \in T PROVE n + 1 \in T
            <3>1. Pow2[n] \in Nat \ {0} /\ n + 1 \in Nat /\ Pow2[n + 1] = 2 * Pow2[n]
                BY <1>7, <2>2
            <3> QED
                BY <3>1
        <2> HIDE DEF T
        <2>3. Nat \subseteq T
            BY <2>1, <2>2, NatInduct
        <2> QED
            BY <2>3 DEF T
    <1> QED
        BY <1>6, <1>7, <1>8

-----------------------------------------------------------------------------
(* Weighted sums *)

\* What the bits of a number weigh.
BitWeights(n) == [i \in 1..n |-> Pow2[i - 1]]

\* Sums are summed in one way only.
LEMMA AccumulatesOnce ==
    ASSUME NEW n \in Nat, NEW x, NEW w, NEW S, NEW T,
           Accumulates(S, n, x, w), Accumulates(T, n, x, w)
    PROVE  S[n] = T[n]
    <1> DEFINE D == {i \in 0..n : S[i] = T[i]}
    <1>1. 0 \in D
        BY DEF Accumulates
    <1>2. ASSUME NEW i \in 0..n, i < n, i \in D PROVE i + 1 \in D
        <2>1. i + 1 \in 1..n /\ (i + 1) - 1 = i /\ i + 1 \in 0..n
            BY <1>2
        <2>2. S[i + 1] = S[i] + w[i + 1] * x[i + 1] /\ T[i + 1] = T[i] + w[i + 1] * x[i + 1]
            BY <2>1 DEF Accumulates
        <2> QED
            BY <1>2, <2>1, <2>2
    <1>3. 0..n \subseteq D
        <2> HIDE DEF D
        <2> QED
            BY <1>1, <1>2, UpTo
    <1> QED
        BY <1>3

\* Sums exist.
LEMMA AccumulatesExists ==
    ASSUME NEW n \in Nat, NEW x \in [1..n -> Int], NEW w \in [1..n -> Int]
    PROVE  \E S : Accumulates(S, n, x, w)
    <1> DEFINE st == [k \in 1..n |-> [a \in Int |-> a + w[k] * x[k]]]
    <1>1. st \in [1..n -> [Int -> Int]] /\ 0 \in Int
        <2>1. ASSUME NEW k \in 1..n, NEW a \in Int PROVE a + w[k] * x[k] \in Int
            <3>1. w[k] \in Int /\ x[k] \in Int
                OBVIOUS
            <3> QED
                BY <3>1
        <2> QED
            BY <2>1
    <1>2. Recursion(n, Int, 0, st)
        <2> HIDE DEF st
        <2> QED
            BY <1>1, RecursionExists
    <1>3. PICK S \in [0..n -> Int] : S[0] = 0 /\ \A k \in 1..n : S[k] = st[k][S[k - 1]]
        BY <1>2 DEF Recursion
    <1>4. ASSUME NEW k \in 1..n PROVE S[k] = S[k - 1] + w[k] * x[k]
        <2>1. k - 1 \in 0..n
            OBVIOUS
        <2>2. S[k - 1] \in Int
            BY <1>3, <2>1
        <2>3. st[k][S[k - 1]] = S[k - 1] + w[k] * x[k]
            BY <2>2
        <2> QED
            BY <1>3, <2>3
    <1>5. Accumulates(S, n, x, w)
        BY <1>3, <1>4 DEF Accumulates
    <1> QED
        BY <1>5

\* The weights are positive numbers.
LEMMA WeightsType ==
    ASSUME NEW n \in Nat
    PROVE  /\ BitWeights(n) \in [1..n -> Int]
           /\ \A i \in 1..n : BitWeights(n)[i] = Pow2[i - 1] /\ Pow2[i - 1] \in Nat \ {0} /\ i - 1 \in Nat
    <1>1. ASSUME NEW i \in 1..n PROVE i - 1 \in Nat /\ Pow2[i - 1] \in Nat \ {0} /\ Pow2[i - 1] \in Int
        <2>1. i - 1 \in Nat
            OBVIOUS
        <2> QED
            BY <2>1, Pow2Facts
    <1> QED
        BY <1>1 DEF BitWeights

\* Weigh is such a sum.
LEMMA WeighIs ==
    ASSUME NEW n \in Nat, NEW s \in [1..n -> Int], NEW S, Accumulates(S, n, s, BitWeights(n))
    PROVE  Weigh(s) = S[n]
    <1> DEFINE W(f) == [i \in 0..Len(s) |-> IF i = 0 THEN 0 ELSE f[i - 1] + Pow2[i - 1] * s[i]]
               sum == CHOOSE f : f = W(f)
    <1>1. Len(s) = n
        OBVIOUS
    <1>2. S = W(S)
        <2>1. ASSUME NEW i \in 0..n PROVE S[i] = IF i = 0 THEN 0 ELSE S[i - 1] + Pow2[i - 1] * s[i]
            <3>1. CASE i = 0
                BY <3>1 DEF Accumulates
            <3>2. CASE i # 0
                <4>1. i \in 1..n
                    BY <3>2
                <4>2. BitWeights(n)[i] = Pow2[i - 1]
                    BY <4>1 DEF BitWeights
                <4> QED
                    BY <3>2, <4>1, <4>2 DEF Accumulates
            <3> QED
                BY <3>1, <3>2
        <2>2. S \in [0..n -> Int]
            BY DEF Accumulates
        <2> QED
            BY <1>1, <2>1, <2>2
    <1>3. sum = W(sum)
        <2> HIDE DEF W
        <2> QED
            BY <1>2
    <1>4. Weigh(s) = sum[n]
        BY <1>1 DEF Weigh
    <1> HIDE DEF sum
    <1>5. sum[0] = 0 /\ \A i \in 1..n : sum[i] = sum[i - 1] + Pow2[i - 1] * s[i]
        <2> DEFINE t == W(sum)
        <2>1. \A i \in 0..n : t[i] = IF i = 0 THEN 0 ELSE sum[i - 1] + Pow2[i - 1] * s[i]
            BY <1>1
        <2>2. sum = t
            BY <1>3
        <2> HIDE DEF t
        <2> QED
            BY <2>1, <2>2
    <1> HIDE DEF W
    <1> DEFINE D == {i \in 0..n : sum[i] = S[i]}
    <1>6. 0 \in D
        BY <1>5 DEF Accumulates
    <1>7. ASSUME NEW i \in 0..n, i < n, i \in D PROVE i + 1 \in D
        <2>1. i + 1 \in 1..n /\ (i + 1) - 1 = i /\ i + 1 \in 0..n
            BY <1>7
        <2>2. BitWeights(n)[i + 1] = Pow2[(i + 1) - 1]
            BY <2>1 DEF BitWeights
        <2>3. S[i + 1] = S[i] + BitWeights(n)[i + 1] * s[i + 1]
            BY <2>1 DEF Accumulates
        <2>4. sum[i + 1] = sum[i] + Pow2[i] * s[i + 1]
            BY <1>5, <2>1
        <2> QED
            BY <1>7, <2>1, <2>2, <2>3, <2>4
    <1>8. 0..n \subseteq D
        <2> HIDE DEF D
        <2> QED
            BY <1>6, <1>7, UpTo
    <1> QED
        BY <1>4, <1>8

\* Weigh is a sum with these weights ...
LEMMA WeighSum ==
    ASSUME NEW n \in Nat, NEW s \in [1..n -> Int]
    PROVE  \E S : Accumulates(S, n, s, BitWeights(n)) /\ Weigh(s) = S[n]
    BY WeightsType, AccumulatesExists, WeighIs

\* ... and a number.
LEMMA WeighType ==
    ASSUME NEW n \in Nat, NEW s \in [1..n -> Int]
    PROVE  Weigh(s) \in Int
    <1>1. PICK S : Accumulates(S, n, s, BitWeights(n)) /\ Weigh(s) = S[n]
        BY WeighSum
    <1> QED
        BY <1>1 DEF Accumulates

\* n bits weigh less than 1 << n.
LEMMA WeighBound ==
    ASSUME NEW n \in Nat, NEW s \in [1..n -> {0, 1}]
    PROVE  Weigh(s) \in 0..(Pow2[n] - 1)
    <1>0. s \in [1..n -> Int]
        OBVIOUS
    <1>1. PICK S : Accumulates(S, n, s, BitWeights(n)) /\ Weigh(s) = S[n]
        BY <1>0, WeighSum
    <1> DEFINE D == {i \in 0..n : S[i] \in 0..(Pow2[i] - 1)}
    <1>2. 0 \in D
        BY <1>1, Pow2Facts DEF Accumulates
    <1>3. ASSUME NEW i \in 0..n, i < n, i \in D PROVE i + 1 \in D
        <2>1. i + 1 \in 1..n /\ (i + 1) - 1 = i /\ i + 1 \in 0..n /\ i \in Nat
            BY <1>3
        <2>2. BitWeights(n)[i + 1] = Pow2[i]
            BY <2>1, WeightsType
        <2>3. S[i + 1] = S[i] + Pow2[i] * s[i + 1]
            BY <1>1, <2>1, <2>2 DEF Accumulates
        <2>4. Pow2[i + 1] = 2 * Pow2[i] /\ Pow2[i] \in Nat
            BY <2>1, Pow2Facts
        <2>5. s[i + 1] \in {0, 1}
            BY <2>1
        <2>6. S[i + 1] \in 0..(Pow2[i + 1] - 1)
            <3>1. S[i] \in 0..(Pow2[i] - 1)
                BY <1>3
            <3>2. CASE s[i + 1] = 0
                BY <2>3, <2>4, <3>1, <3>2
            <3>3. CASE s[i + 1] = 1
                BY <2>3, <2>4, <3>1, <3>3
            <3> QED
                BY <2>5, <3>2, <3>3
        <2> QED
            BY <2>1, <2>6
    <1>4. 0..n \subseteq D
        <2> HIDE DEF D
        <2> QED
            BY <1>2, <1>3, UpTo
    <1> QED
        BY <1>1, <1>4

-----------------------------------------------------------------------------
(* Bits and blindings *)

\* The quotient, and that there is only one.
LEMMA DivFacts ==
    ASSUME NEW m \in Nat \ {0}, NEW a \in Nat
    PROVE  /\ a \div m \in Nat
           /\ \E r \in 0..(m - 1) : a = m * (a \div m) + r
    <1> DEFINE q == a \div m
               r == a % m
    <1>1. r \in 0..(m - 1) /\ r \in Int /\ q \in Int /\ a = m * q + r
        OBVIOUS
    <1> HIDE DEF q, r
    <1>2. q >= 0
        <2> SUFFICES ASSUME ~(q >= 0) PROVE FALSE
            OBVIOUS
        <2>1. PICK k \in Nat : q = -1 - k
            <3>1. -1 - q \in Nat /\ q = -1 - (-1 - q)
                BY <1>1
            <3> QED
                BY <3>1
        <2>2. m * q = -m - m * k /\ m * k >= 0
            BY <2>1
        <2> QED
            BY <1>1, <2>2
    <1>3. q \in Nat /\ \E x \in 0..(m - 1) : a = m * q + x
        BY <1>1, <1>2
    <1> QED
        BY <1>3 DEF q

\* One quotient only.
LEMMA DivOnce ==
    ASSUME NEW m \in Nat \ {0}, NEW q \in Int, NEW q2 \in Int,
           NEW r \in 0..(m - 1), NEW r2 \in 0..(m - 1), m * q + r = m * q2 + r2
    PROVE  q = q2
    <1>1. ~(q >= q2 + 1)
        <2> SUFFICES ASSUME q >= q2 + 1 PROVE FALSE
            OBVIOUS
        <2>1. PICK k \in Nat : q = q2 + 1 + k
            <3>1. q - q2 - 1 \in Nat
                OBVIOUS
            <3> QED
                BY <3>1
        <2>2. m * q = m * q2 + m + m * k
            BY <2>1
        <2>3. m * k >= 0
            OBVIOUS
        <2> QED
            BY <2>2, <2>3
    <1>2. ~(q2 >= q + 1)
        <2> SUFFICES ASSUME q2 >= q + 1 PROVE FALSE
            OBVIOUS
        <2>1. PICK k \in Nat : q2 = q + 1 + k
            <3>1. q2 - q - 1 \in Nat
                OBVIOUS
            <3> QED
                BY <3>1
        <2>2. m * q2 = m * q + m + m * k
            BY <2>1
        <2>3. m * k >= 0
            OBVIOUS
        <2> QED
            BY <2>2, <2>3
    <1> QED
        BY <1>1, <1>2

\* Shifting by one more place halves: q and q2 are the quotients of one number by
\* m and by 2 * m.
LEMMA ShiftOnce ==
    ASSUME NEW m \in Nat \ {0}, NEW q \in Nat, NEW q2 \in Int,
           NEW r \in 0..(m - 1), NEW r2 \in 0..(2 * m - 1),
           m * q + r = (2 * m) * q2 + r2
    PROVE  q = 2 * q2 + (q % 2)
    <1> DEFINE h == q \div 2
               b == q % 2
    <1>1. h \in Int /\ b \in 0..1 /\ q = 2 * h + b
        OBVIOUS
    <1> HIDE DEF h, b
    <1> DEFINE s == b * m + r
               d == 2 * m
    <1>2. d * h + s = d * q2 + r2
        <2>1. m * q = m * (2 * h + b)
            BY <1>1
        <2>2. m * (2 * h + b) = d * h + b * m
            BY <1>1
        <2>3. d * h + s = m * q + r
            BY <1>1, <2>1, <2>2
        <2> QED
            BY <2>3
    <1>3. s \in 0..(d - 1)
        <2>1. CASE b = 0
            BY <2>1
        <2>2. CASE b = 1
            BY <2>2
        <2> QED
            BY <1>1, <2>1, <2>2
    <1>4. h = q2
        <2>1. d \in Nat \ {0} /\ r2 \in 0..(d - 1)
            OBVIOUS
        <2> HIDE DEF d, s
        <2> QED
            BY <1>1, <1>2, <1>3, <2>1, DivOnce
    <1>5. q = 2 * q2 + b
        BY <1>1, <1>4
    <1> QED
        BY <1>5 DEF b

\* _decompose gives bits.
LEMMA DecomposeType ==
    ASSUME NEW n \in Nat, NEW v \in Nat
    PROVE  Decompose(v, n) \in [1..n -> {0, 1}]
    <1>1. ASSUME NEW i \in 1..n PROVE (v \div Pow2[i - 1]) % 2 \in {0, 1}
        <2>1. Pow2[i - 1] \in Nat \ {0}
            BY WeightsType
        <2>2. v \div Pow2[i - 1] \in Nat
            BY <2>1, DivFacts
        <2> QED
            BY <2>2
    <1> QED
        BY <1>1 DEF Decompose

\* The bits of a number that fits weigh the number.
LEMMA WeighDecompose ==
    ASSUME NEW n \in Nat, NEW v \in Nat, v < Pow2[n]
    PROVE  Weigh(Decompose(v, n)) = v
    <1> DEFINE s == Decompose(v, n)
    <1>0. s \in [1..n -> Int]
        BY DecomposeType
    <1>1. PICK S : Accumulates(S, n, s, BitWeights(n)) /\ Weigh(s) = S[n]
        <2> HIDE DEF s
        <2> QED
            BY <1>0, WeighSum
    <1>2. ASSUME NEW i \in 0..n PROVE Pow2[i] \in Nat \ {0} /\ v \div Pow2[i] \in Nat
        <2> DEFINE p == Pow2[i]
        <2>1. p \in Nat \ {0}
            BY Pow2Facts
        <2> HIDE DEF p
        <2>2. v \div p \in Nat
            BY <2>1, DivFacts
        <2> QED
            BY <2>1, <2>2 DEF p
    <1> DEFINE D == {i \in 0..n : v = Pow2[i] * (v \div Pow2[i]) + S[i]}
    <1>3. 0 \in D
        <2>1. Pow2[0] = 1 /\ S[0] = 0
            BY <1>1, Pow2Facts DEF Accumulates
        <2>2. v \div 1 = v
            OBVIOUS
        <2> QED
            BY <2>1, <2>2
    <1>4. ASSUME NEW i \in 0..n, i < n, i \in D PROVE i + 1 \in D
        <2>1. i + 1 \in 1..n /\ (i + 1) - 1 = i /\ i + 1 \in 0..n /\ i \in Nat
            BY <1>4
        <2>2. BitWeights(n)[i + 1] = Pow2[i]
            BY <2>1, WeightsType
        <2>3. S[i + 1] = S[i] + Pow2[i] * s[i + 1]
            <3> HIDE DEF s
            <3> QED
                BY <1>1, <2>1, <2>2 DEF Accumulates
        <2>4. s[i + 1] = (v \div Pow2[i]) % 2
            BY <2>1 DEF Decompose
        <2>5. Pow2[i + 1] = 2 * Pow2[i] /\ Pow2[i] \in Nat \ {0}
            BY <2>1, Pow2Facts
        <2> DEFINE p == Pow2[i]
                   q == v \div p
                   q2 == v \div (2 * p)
                   b == q % 2
        <2>6. q = 2 * q2 + b
            <3> DEFINE d == 2 * p
            <3>1. p \in Nat \ {0} /\ d \in Nat \ {0}
                BY <2>5
            <3> HIDE DEF p
            <3>2. q \in Nat /\ \E x \in 0..(p - 1) : v = p * q + x
                BY <3>1, DivFacts
            <3>3. q2 \in Nat /\ \E x \in 0..(d - 1) : v = d * q2 + x
                <4> HIDE DEF d
                <4>1. v \div d \in Nat /\ \E x \in 0..(d - 1) : v = d * (v \div d) + x
                    BY <3>1, DivFacts
                <4> QED
                    BY <4>1 DEF d
            <3> HIDE DEF q, q2
            <3>4. PICK x \in 0..(p - 1) : v = p * q + x
                BY <3>2
            <3>5. PICK y \in 0..(2 * p - 1) : v = (2 * p) * q2 + y
                BY <3>3
            <3> QED
                BY <3>1, <3>2, <3>3, <3>4, <3>5, ShiftOnce
        <2>7. v = p * q + S[i]
            BY <1>4
        <2>8. p \in Int /\ q \in Int /\ q2 \in Int /\ b \in Int /\ S[i] \in Int /\ v \in Int
            <3>1. 2 * p \in Nat \ {0} /\ p \in Nat \ {0}
                BY <2>5
            <3>2. q \in Nat /\ S[i] \in Int
                BY <1>1, <1>2, <2>1 DEF Accumulates
            <3>3. q2 \in Nat
                <4> DEFINE d == 2 * p
                <4> HIDE DEF d
                <4>1. v \div d \in Nat
                    BY <3>1, DivFacts DEF d
                <4> QED
                    BY <4>1 DEF d
            <3> HIDE DEF q, q2
            <3> QED
                BY <3>1, <3>2, <3>3
        <2>9. S[i + 1] = S[i] + p * b /\ Pow2[i + 1] = 2 * p
            BY <2>3, <2>4, <2>5
        <2>10. v = Pow2[i + 1] * (v \div Pow2[i + 1]) + S[i + 1]
            <3>1. v = (2 * p) * q2 + S[i + 1]
                <4> HIDE DEF p, q, q2, b
                <4>1. v = p * (2 * q2 + b) + S[i]
                    BY <2>6, <2>7
                <4>2. p * (2 * q2 + b) = (2 * p) * q2 + p * b
                    BY <2>8
                <4> QED
                    BY <2>8, <2>9, <4>1, <4>2
            <3> QED
                BY <2>9, <3>1
        <2> QED
            BY <2>1, <2>10
    <1>5. 0..n \subseteq D
        <2> HIDE DEF D
        <2> QED
            BY <1>3, <1>4, UpTo
    <1>6. v = Pow2[n] * (v \div Pow2[n]) + S[n]
        BY <1>5
    <1>7. v \div Pow2[n] = 0
        <2> DEFINE p == Pow2[n]
                   q == v \div p
        <2>1. p \in Nat \ {0} /\ v < p
            BY Pow2Facts
        <2> HIDE DEF p
        <2>2. q \in Nat /\ \E r \in 0..(p - 1) : v = p * q + r
            BY <2>1, DivFacts
        <2> HIDE DEF q
        <2>3. PICK r \in 0..(p - 1) : v = p * q + r
            BY <2>2
        <2>4. p * q + r = p * 0 + v /\ v \in 0..(p - 1) /\ q \in Int /\ 0 \in Int
            BY <2>1, <2>2, <2>3
        <2>5. q = 0
            BY <2>1, <2>4, DivOnce
        <2> QED
            BY <2>5 DEF p, q
    <1>8. S[n] \in Int
        BY <1>1 DEF Accumulates
    <1>9. S[n] = v
        BY <1>6, <1>7, <1>8, Pow2Facts
    <1> QED
        BY <1>1, <1>9

\* The blindings of the two values cancel out, as prove_range_leq makes them.
LEMMA TargetedCancels ==
    ASSUME NEW n \in Nat \ {0}, NEW rv \in [1..n -> Int], NEW rd \in [1..(n - 1) -> Int]
    PROVE  /\ Targeted(rv, rd) \in [1..n -> Int]
           /\ Cong(N, Weigh(rv) + Weigh(Targeted(rv, rd)), 0)
    <1> DEFINE x == -Weigh(rv) - 2 * Weigh(rd)
               first == x % N
               t == Targeted(rv, rd)
    <1>0. n - 1 \in Nat /\ n \in Nat
        OBVIOUS
    <1>1. Weigh(rv) \in Int /\ Weigh(rd) \in Int
        BY <1>0, WeighType
    <1>2. x \in Int
        BY <1>1
    <1>3. first \in Int /\ Cong(N, first, x)
        <2> HIDE DEF x
        <2> QED
            BY <1>2, ModN
    <1>4. t = [i \in 1..n |-> IF i = 1 THEN first ELSE rd[i - 1]]
        BY DEF Targeted
    <1>5. t \in [1..n -> Int]
        <2> HIDE DEF first
        <2>1. ASSUME NEW i \in 1..n, i # 1 PROVE rd[i - 1] \in Int
            <3>1. i - 1 \in 1..(n - 1)
                BY <2>1
            <3> QED
                BY <3>1
        <2> QED
            BY <1>3, <1>4, <2>1
    <1> HIDE DEF first
    <1>6. PICK S : Accumulates(S, n - 1, rd, BitWeights(n - 1)) /\ Weigh(rd) = S[n - 1]
        BY <1>0, WeighSum
    <1> DEFINE T == [i \in 0..n |-> IF i = 0 THEN 0 ELSE first + 2 * S[i - 1]]
    <1>7. Accumulates(T, n, t, BitWeights(n))
        <2>1. ASSUME NEW i \in 1..n PROVE i - 1 \in 0..(n - 1) /\ S[i - 1] \in Int
            BY <1>6 DEF Accumulates
        <2>2. T \in [0..n -> Int] /\ T[0] = 0
            BY <1>3, <2>1
        <2>3. ASSUME NEW i \in 1..n PROVE T[i] = T[i - 1] + BitWeights(n)[i] * t[i]
            <3>1. T[i] = first + 2 * S[i - 1] /\ BitWeights(n)[i] = Pow2[i - 1]
                <4>1. BitWeights(n)[i] = Pow2[i - 1]
                    BY <1>0, WeightsType
                <4>2. T[i] = first + 2 * S[i - 1]
                    OBVIOUS
                <4> QED
                    BY <4>1, <4>2
            <3>2. CASE i = 1
                <4>1. S[0] = 0 /\ T[i - 1] = 0 /\ t[i] = first /\ BitWeights(n)[i] = 1
                    <5> HIDE DEF t
                    <5> QED
                        BY <1>4, <1>6, <3>1, <3>2, Pow2Facts DEF Accumulates
                <4> HIDE DEF T, t
                <4>2. T[i] = first
                    BY <1>3, <3>1, <3>2, <4>1
                <4> QED
                    BY <1>3, <4>1, <4>2
            <3>3. CASE i # 1
                <4> DEFINE j == i - 1
                           k == j - 1
                <4>1. j \in 1..(n - 1) /\ k \in Nat /\ k + 1 = j /\ j # 0 /\ j \in 0..n
                    BY <3>3
                <4>2. t[i] = rd[j] /\ T[i - 1] = first + 2 * S[k] /\ T[i] = first + 2 * S[j]
                    BY <1>4, <3>1, <3>3, <4>1
                <4>3. BitWeights(n - 1)[j] = Pow2[k] /\ Pow2[j] = 2 * Pow2[k] /\ Pow2[k] \in Int
                    <5>1. BitWeights(n - 1)[j] = Pow2[j - 1]
                        BY <1>0, <4>1, WeightsType
                    <5>2. Pow2[k + 1] = 2 * Pow2[k] /\ Pow2[k] \in Int
                        BY <4>1, Pow2Facts
                    <5> QED
                        BY <4>1, <5>1, <5>2
                <4>4. S[j] = S[k] + BitWeights(n - 1)[j] * rd[j] /\ S[k] \in Int /\ rd[j] \in Int
                    BY <1>6, <4>1 DEF Accumulates
                <4>5. BitWeights(n)[i] = 2 * Pow2[k]
                    BY <3>1, <4>3
                <4> HIDE DEF T, t, j, k
                <4>6. T[i] = first + 2 * (S[k] + Pow2[k] * rd[j])
                    BY <4>2, <4>3, <4>4
                <4> DEFINE a == S[k]
                           p == Pow2[k]
                           y == rd[j]
                <4>7. a \in Int /\ p \in Int /\ y \in Int
                    BY <4>3, <4>4
                <4>8. T[i] = first + 2 * (a + p * y) /\ T[i - 1] = first + 2 * a
                      /\ BitWeights(n)[i] = 2 * p /\ t[i] = y
                    BY <4>2, <4>5, <4>6
                <4> HIDE DEF a, p, y
                <4> QED
                    BY <1>3, <4>7, <4>8
            <3> QED
                BY <3>2, <3>3
        <2> HIDE DEF T, t
        <2> QED
            BY <2>2, <2>3 DEF Accumulates
    <1>8. T[n] = first + 2 * Weigh(rd)
        BY <1>6
    <1>9. Weigh(t) = first + 2 * Weigh(rd)
        <2> HIDE DEF T, t
        <2> QED
            BY <1>0, <1>5, <1>7, <1>8, WeighIs
    <1>10. PICK k \in Int : first = x + k * N
        BY <1>3 DEF Cong
    <1>11. Weigh(rv) + Weigh(t) = 0 + k * N
        <2> DEFINE a == Weigh(rv)
                   b == Weigh(rd)
                   c == Weigh(t)
                   l == k * N
        <2>1. l \in Int /\ a \in Int /\ b \in Int
            BY <1>1, NFacts
        <2>2. first = -a - 2 * b + l /\ c = first + 2 * b
            BY <1>9, <1>10
        <2> HIDE DEF a, b, c, l
        <2>3. a + c = 0 + l
            BY <1>3, <2>1, <2>2
        <2> QED
            BY <2>3 DEF a, c, l
    <1>12. Cong(N, Weigh(rv) + Weigh(t), 0)
        <2> HIDE DEF t
        <2> QED
            BY <1>11 DEF Cong
    <1> QED
        BY <1>5, <1>12

-----------------------------------------------------------------------------
(* Commitments and the proof of a bit, in factors of the generator *)

\* Two multiples of the generator are equal exactly if the factors are congruent.
LEMMA EIff ==
    ASSUME NEW a \in Int, NEW b \in Int
    PROVE  E(a) = E(b) <=> Cong(N, a, b)
    BY EOf, EInjective

\* A factor may be reduced.
LEMMA ReducedFactor ==
    ASSUME NEW k \in Int, NEW a \in Int
    PROVE  E((k % N) * a) = E(k * a)
    <1> DEFINE r == k % N
    <1>1. r \in Int /\ Cong(N, r, k)
        BY ModN
    <1> HIDE DEF r
    <1>2. PICK j \in Int : r = k + j * N
        BY <1>1 DEF Cong
    <1>3. r * a = k * a + (j * a) * N
        BY <1>2, NFacts
    <1>4. r * a \in Int /\ k * a \in Int /\ j * a \in Int
        BY <1>1
    <1>5. Cong(N, r * a, k * a)
        BY <1>3, <1>4 DEF Cong
    <1>6. E(r * a) = E(k * a)
        BY <1>4, <1>5, EOf
    <1> QED
        BY <1>6 DEF r

\* H is a multiple of the generator: of its own discrete logarithm.
LEMMA LogOfH ==
    ASSUME H \in Points \ {IDENTITY}
    PROVE  \E h \in 1..(N - 1) : H = E(h)
    <1>1. PICK h \in Scalars : H = E(h)
        BY EveryPoint
    <1>2. h # 0
        BY <1>1, EZero
    <1> QED
        BY <1>1, <1>2, NFacts DEF Scalars

\* A commitment to v with blinding r.
LEMMA CommitE ==
    ASSUME NEW h \in Int, H = E(h), NEW v \in Int, NEW r \in Int
    PROVE  Commit(v, r) = E(v + r * h)
    <1> DEFINE a == v % N
               b == r % N
    <1>1. a \in Int /\ b \in Int /\ 1 \in Int
        BY ModN
    <1>2. E(a * 1) = E(v * 1) /\ E(b * h) = E(r * h)
        BY <1>1, ReducedFactor
    <1>3. Commit(v, r) = Plus(Mul(a, E(1)), Mul(b, E(h)))
        BY EZero DEF Commit
    <1> HIDE DEF a, b
    <1>4. Mul(a, E(1)) = E(a * 1) /\ Mul(b, E(h)) = E(b * h)
        BY <1>1, MulE
    <1>5. v * 1 = v /\ r * h \in Int
        OBVIOUS
    <1>6. Plus(E(v), E(r * h)) = E(v + r * h)
        BY <1>5, PlusE
    <1> QED
        BY <1>2, <1>3, <1>4, <1>5, <1>6

\* The proof of one bit, as it comes out for H = h*G: points by their factors.
BitMade(h, bit, r, nonces, e) ==
    LET w == nonces[1]
        s == nonces[2]
        z == nonces[3]
        own == (e - s) % N
        answer == (w + own * r) % N
    IN [a0 |-> IF bit = 0 THEN E(w * h) ELSE E(z * h - s * (bit + r * h)),
        a1 |-> IF bit = 0 THEN E(z * h - s * (bit + r * h - 1)) ELSE E(w * h),
        e0 |-> IF bit = 0 THEN own ELSE s,
        z0 |-> IF bit = 0 THEN answer ELSE z,
        z1 |-> IF bit = 0 THEN z ELSE answer]

\* Both phases of the prover compute it.
LEMMA PhasesE ==
    ASSUME NEW h \in Int, H = E(h), NEW bit \in Int, NEW r \in Int, NEW e,
           NEW w \in Int, NEW s \in Int, NEW z \in Int
    PROVE  LET state == Phase1(bit, E(bit + r * h), r, <<w, s, z>>)
           IN /\ Phase2(state, e) = BitMade(h, bit, r, <<w, s, z>>, e)
              /\ state.a0 = BitMade(h, bit, r, <<w, s, z>>, e).a0
              /\ state.a1 = BitMade(h, bit, r, <<w, s, z>>, e).a1
    <1> DEFINE c == bit + r * h
               state == Phase1(bit, E(c), r, <<w, s, z>>)
    <1>1. c \in Int /\ c - 1 \in Int /\ w * h \in Int /\ z * h \in Int /\ 1 \in Int
        OBVIOUS
    <1> DEFINE c1 == c - 1
    <1>m. c1 \in Int
        BY <1>1
    <1>2. Mul(w, H) = E(w * h) /\ Mul(z, H) = E(z * h)
        BY MulE
    <1>3. Minus(E(c), G) = E(c1)
        <2> HIDE DEF c
        <2> QED
            BY <1>1, EZero, MinusE
    <1>4. Mul(s, E(c)) = E(s * c) /\ Mul(s, E(c1)) = E(s * c1) /\ s * c \in Int /\ s * c1 \in Int
        <2>1. c \in Int /\ c1 \in Int
            BY <1>1, <1>m
        <2> HIDE DEF c, c1
        <2>2. Mul(s, E(c)) = E(s * c) /\ Mul(s, E(c1)) = E(s * c1)
            BY <2>1, MulE
        <2>3. s * c \in Int /\ s * c1 \in Int
            BY <2>1
        <2> QED
            BY <2>2, <2>3
    <1>5. /\ Minus(E(z * h), E(s * c)) = E(z * h - s * c)
          /\ Minus(E(z * h), E(s * c1)) = E(z * h - s * c1)
        <2> DEFINE a == z * h
                   b == s * c
                   b1 == s * c1
        <2>1. a \in Int /\ b \in Int /\ b1 \in Int
            BY <1>1, <1>4
        <2> HIDE DEF a, b, b1
        <2>2. Minus(E(a), E(b)) = E(a - b) /\ Minus(E(a), E(b1)) = E(a - b1)
            BY <2>1, MinusE
        <2> QED
            BY <2>2 DEF a, b, b1
    <1>6. state = [bit |-> bit, w |-> w, r |-> r, e |-> s, z |-> z,
                   a0 |-> IF bit = 0 THEN E(w * h) ELSE E(z * h - s * c),
                   a1 |-> IF bit = 0 THEN E(z * h - s * c1) ELSE E(w * h)]
        <2> HIDE DEF c, c1
        <2> QED
            BY <1>2, <1>3, <1>4, <1>5 DEF Phase1
    <1>7. BitMade(h, bit, r, <<w, s, z>>, e) =
              [a0 |-> IF bit = 0 THEN E(w * h) ELSE E(z * h - s * c),
               a1 |-> IF bit = 0 THEN E(z * h - s * c1) ELSE E(w * h),
               e0 |-> IF bit = 0 THEN (e - s) % N ELSE s,
               z0 |-> IF bit = 0 THEN (w + ((e - s) % N) * r) % N ELSE z,
               z1 |-> IF bit = 0 THEN z ELSE (w + ((e - s) % N) * r) % N]
        BY DEF BitMade
    <1> HIDE DEF state, c, c1
    <1>8. Phase2(state, e) = BitMade(h, bit, r, <<w, s, z>>, e)
        BY <1>6, <1>7 DEF Phase2
    <1>9. /\ state.a0 = BitMade(h, bit, r, <<w, s, z>>, e).a0
          /\ state.a1 = BitMade(h, bit, r, <<w, s, z>>, e).a1
        BY <1>6, <1>7
    <1> QED
        BY <1>8, <1>9 DEF state, c

\* What the two equations of _or_verify say of the factors.
LEMMA OrVerifyE ==
    ASSUME NEW h \in Int, H = E(h), NEW c \in Int, NEW x0 \in Int, NEW x1 \in Int,
           NEW e0 \in Int, NEW z0 \in Int, NEW z1 \in Int, NEW e \in Int, NEW prf,
           prf.a0 = E(x0), prf.a1 = E(x1), prf.e0 = e0, prf.z0 = z0, prf.z1 = z1
    PROVE  OrVerify(E(c), prf, e) <=>
               /\ Cong(N, z0 * h, x0 + e0 * c)
               /\ Cong(N, z1 * h, x1 + (e - e0) * (c - 1))
    <1> DEFINE d == e - e0
               e1 == d % N
               c1 == c - 1
    <1>1. d \in Int /\ c1 \in Int /\ e1 \in Int /\ 1 \in Int
        <2>1. d \in Int /\ c1 \in Int
            OBVIOUS
        <2> HIDE DEF d
        <2> QED
            BY <2>1, ModN
    <1>2. OrVerify(E(c), prf, e) <=>
              /\ Mul(z0, E(h)) = Plus(E(x0), Mul(e0, E(c)))
              /\ Mul(z1, E(h)) = Plus(E(x1), Mul(e1, Minus(E(c), E(1))))
        BY EZero DEF OrVerify
    <1>3. Minus(E(c), E(1)) = E(c1)
        BY <1>1, MinusE
    <1> HIDE DEF e1
    <1>4. /\ Mul(z0, E(h)) = E(z0 * h) /\ Mul(e0, E(c)) = E(e0 * c)
          /\ Mul(z1, E(h)) = E(z1 * h) /\ Mul(e1, E(c1)) = E(e1 * c1)
        <2> HIDE DEF c1
        <2> QED
            BY <1>1, MulE
    <1>5. E(e1 * c1) = E(d * c1)
        <2> HIDE DEF c1, d
        <2> QED
            BY <1>1, ReducedFactor DEF e1
    <1> DEFINE p == e0 * c
               q == d * c1
               l0 == z0 * h
               l1 == z1 * h
    <1>6. p \in Int /\ q \in Int /\ l0 \in Int /\ l1 \in Int
        <2> HIDE DEF d, c1
        <2> QED
            BY <1>1
    <1>7. OrVerify(E(c), prf, e) <=>
              E(l0) = Plus(E(x0), E(p)) /\ E(l1) = Plus(E(x1), E(q))
        <2> HIDE DEF c1, d
        <2> QED
            BY <1>2, <1>3, <1>4, <1>5
    <1> HIDE DEF p, q, l0, l1
    <1>8. Plus(E(x0), E(p)) = E(x0 + p) /\ Plus(E(x1), E(q)) = E(x1 + q)
        BY <1>6, PlusE
    <1>9. x0 + p \in Int /\ x1 + q \in Int
        BY <1>6
    <1>10. OrVerify(E(c), prf, e) <=> Cong(N, l0, x0 + p) /\ Cong(N, l1, x1 + q)
        BY <1>6, <1>7, <1>8, <1>9, EIff
    <1> QED
        BY <1>10 DEF p, q, l0, l1, d, c1

-----------------------------------------------------------------------------
(* Which proofs of a bit are accepted *)

\* Numbers that differ by a multiple of N are congruent.
LEMMA CongBy ==
    ASSUME NEW a \in Int, NEW b \in Int, NEW k \in Int, a = b + k * N
    PROVE  Cong(N, a, b)
    BY DEF Cong

\* The proof of a bit made at challenge e holds at e2 exactly if these factors
\* of H and G give the same point.
BitRelation(h, bit, r, s, e, e2) ==
    Cong(N, ((e - e2) * r) * h, IF bit = 0 THEN e - e2 ELSE (e2 - s) * (bit - 1))

\* The numbers of the proof of a bit, judged at e2.
Numbers(h, bit, r, e, e2, w, s, z, c, own, ans) ==
    /\ {h, bit, r, e, e2, w, s, z, c, own, ans} \subseteq Int
    /\ c = bit + r * h
    /\ Cong(N, own, e - s)
    /\ Cong(N, ans, w + own * r)

\* The two equations for a bit that is zero ...
LEMMA ZeroAccepted ==
    ASSUME NEW h, NEW r, NEW e, NEW e2, NEW w, NEW s, NEW z, NEW c, NEW own, NEW ans,
           Numbers(h, 0, r, e, e2, w, s, z, c, own, ans)
    PROVE  (/\ Cong(N, ans * h, w * h + own * c)
            /\ Cong(N, z * h, z * h - s * (c - 1) + (e2 - own) * (c - 1)))
           <=> Cong(N, ((e - e2) * r) * h, e - e2)
    <1> USE DEF Numbers
    <1>0. /\ N \in Int /\ h \in Int /\ r \in Int /\ e \in Int /\ e2 \in Int /\ w \in Int
          /\ s \in Int /\ z \in Int /\ c \in Int /\ own \in Int /\ ans \in Int /\ c = r * h
        BY NFacts
    <1>1. PICK j \in Int : own = (e - s) + j * N
        BY DEF Cong
    <1>2. PICK k \in Int : ans = (w + own * r) + k * N
        BY DEF Cong
    <1> HIDE DEF Numbers
    <1>3. Cong(N, ans * h, w * h + own * c)
        <2>1. ans * h = w * h + own * (r * h) + (k * h) * N
            BY <1>0, <1>2
        <2>2. ans * h \in Int /\ w * h + own * c \in Int /\ k * h \in Int
            BY <1>0
        <2> QED
            BY <1>0, <2>1, <2>2, CongBy
    <1> DEFINE t == c - 1
               left == ((e - e2) * r) * h
               right == z * h - s * t + (e2 - own) * t
    <1>4. t \in Int /\ left \in Int /\ right \in Int /\ z * h \in Int /\ e - e2 \in Int
        <2>1. t \in Int
            BY <1>0
        <2> HIDE DEF t
        <2> QED
            BY <1>0, <2>1
    <1>5. left = (e - e2) + (e - e2) * t
        <2>1. left = (e - e2) * (r * h)
            BY <1>0
        <2>2. left = (e - e2) * (t + 1)
            BY <1>0, <2>1
        <2> HIDE DEF left, t
        <2> QED
            BY <1>0, <1>4, <2>2
    <1>6. right = z * h - (e - e2) * t - (j * t) * N
        <2> HIDE DEF t
        <2>1. right = z * h + (e2 - own - s) * t
            BY <1>0, <1>4
        <2>2. e2 - own - s = -(e - e2) - j * N
            BY <1>0, <1>1
        <2>3. right = z * h + (-(e - e2) - j * N) * t
            BY <2>1, <2>2
        <2> HIDE DEF right
        <2> QED
            BY <1>0, <1>4, <2>3
    <1> DEFINE zh == z * h
               d == e - e2
               dt == d * t
               jt == j * t
    <1>7. zh \in Int /\ d \in Int /\ dt \in Int /\ jt \in Int
        <2> HIDE DEF t
        <2> QED
            BY <1>0, <1>4
    <1>8. left = d + dt /\ right = zh - dt - jt * N
        BY <1>5, <1>6
    <1> HIDE DEF left, right, zh, dt, jt, d
    <1>9. Cong(N, zh, right) => Cong(N, left, d)
        <2> SUFFICES ASSUME Cong(N, zh, right) PROVE Cong(N, left, d)
            OBVIOUS
        <2>1. PICK m \in Int : zh = right + m * N
            BY DEF Cong
        <2>2. left = d + (m - jt) * N /\ m - jt \in Int
            BY <1>0, <1>4, <1>7, <1>8, <2>1
        <2> QED
            BY <1>4, <1>7, <2>2, CongBy
    <1>10. Cong(N, left, d) => Cong(N, zh, right)
        <2> SUFFICES ASSUME Cong(N, left, d) PROVE Cong(N, zh, right)
            OBVIOUS
        <2>1. PICK m \in Int : left = d + m * N
            BY DEF Cong
        <2>2. zh = right + (m + jt) * N /\ m + jt \in Int
            BY <1>0, <1>4, <1>7, <1>8, <2>1
        <2> QED
            BY <1>4, <1>7, <2>2, CongBy
    <1>11. Cong(N, zh, right) <=> Cong(N, left, d)
        BY <1>9, <1>10
    <1> QED
        BY <1>3, <1>11 DEF left, right, zh, d

\* ... and for any other.
LEMMA OneAccepted ==
    ASSUME NEW h, NEW bit, NEW r, NEW e, NEW e2, NEW w, NEW s, NEW z, NEW c, NEW own, NEW ans,
           Numbers(h, bit, r, e, e2, w, s, z, c, own, ans)
    PROVE  (/\ Cong(N, z * h, z * h - s * c + s * c)
            /\ Cong(N, ans * h, w * h + (e2 - s) * (c - 1)))
           <=> Cong(N, ((e - e2) * r) * h, (e2 - s) * (bit - 1))
    <1> USE DEF Numbers
    <1>0. /\ N \in Int /\ h \in Int /\ bit \in Int /\ r \in Int /\ e \in Int /\ e2 \in Int
          /\ w \in Int /\ s \in Int /\ z \in Int /\ c \in Int /\ own \in Int /\ ans \in Int
          /\ c = bit + r * h
        BY NFacts
    <1>1. PICK j \in Int : own = (e - s) + j * N
        BY DEF Cong
    <1>2. PICK k \in Int : ans = (w + own * r) + k * N
        BY DEF Cong
    <1> HIDE DEF Numbers
    <1>3. Cong(N, z * h, z * h - s * c + s * c)
        <2>1. z * h = (z * h - s * c + s * c) + 0 * N
            BY <1>0
        <2>2. z * h \in Int /\ z * h - s * c + s * c \in Int /\ 0 \in Int
            BY <1>0
        <2> QED
            BY <2>1, <2>2, CongBy
    <1> DEFINE rh == r * h
               wh == w * h
               left == ((e - e2) * r) * h
               b == (e2 - s) * (bit - 1)
               right == wh + (e2 - s) * (c - 1)
               x == (e2 - s) * rh
               y == (e - s) * rh
               ah == ans * h
               f == j * rh + k * h
    <1>4. /\ rh \in Int /\ wh \in Int /\ left \in Int /\ b \in Int /\ right \in Int
          /\ x \in Int /\ y \in Int /\ ah \in Int /\ f \in Int
        BY <1>0
    <1>5. right = wh + b + x
        <2>1. c - 1 = (bit - 1) + rh
            BY <1>0
        <2> HIDE DEF rh
        <2>2. right = wh + (e2 - s) * ((bit - 1) + rh)
            BY <2>1
        <2> HIDE DEF wh, right
        <2> QED
            BY <1>0, <1>4, <2>2
    <1>6. left = y - x
        <2>1. left = (e - e2) * rh
            BY <1>0
        <2> HIDE DEF rh, left
        <2> QED
            BY <1>0, <1>4, <2>1
    <1>7. ah = wh + y + f * N
        <2>1. ah = ((w + ((e - s) + j * N) * r) + k * N) * h
            BY <1>1, <1>2
        <2> QED
            BY <1>0, <2>1
    <1> HIDE DEF rh, wh, left, b, right, x, y, ah, f
    <1>8. Cong(N, ah, right) => Cong(N, left, b)
        <2> SUFFICES ASSUME Cong(N, ah, right) PROVE Cong(N, left, b)
            OBVIOUS
        <2>1. PICK m \in Int : ah = right + m * N
            BY DEF Cong
        <2>2. left = b + (m - f) * N /\ m - f \in Int
            BY <1>0, <1>4, <1>5, <1>6, <1>7, <2>1
        <2> QED
            BY <1>4, <2>2, CongBy
    <1>9. Cong(N, left, b) => Cong(N, ah, right)
        <2> SUFFICES ASSUME Cong(N, left, b) PROVE Cong(N, ah, right)
            OBVIOUS
        <2>1. PICK m \in Int : left = b + m * N
            BY DEF Cong
        <2>2. ah = right + (m + f) * N /\ m + f \in Int
            BY <1>0, <1>4, <1>5, <1>6, <1>7, <2>1
        <2> QED
            BY <1>4, <2>2, CongBy
    <1>10. Cong(N, ah, right) <=> Cong(N, left, b)
        BY <1>8, <1>9
    <1> QED
        BY <1>3, <1>10 DEF left, right, ah, b, wh

\* Exactly these proofs of a bit are accepted.
LEMMA BitAccepted ==
    ASSUME NEW h \in Int, H = E(h), NEW bit \in Int, NEW r \in Int,
           NEW w \in Int, NEW s \in Int, NEW z \in Int, NEW e \in Int, NEW e2 \in Int
    PROVE  OrVerify(E(bit + r * h), BitMade(h, bit, r, <<w, s, z>>, e), e2)
               <=> BitRelation(h, bit, r, s, e, e2)
    <1> DEFINE own == (e - s) % N
               ans == (w + own * r) % N
               c == bit + r * h
               prf == BitMade(h, bit, r, <<w, s, z>>, e)
    <1>1. own \in Int /\ Cong(N, own, e - s)
        <2> DEFINE d == e - s
        <2>1. d \in Int
            OBVIOUS
        <2> HIDE DEF d
        <2>2. d % N \in Int /\ Cong(N, d % N, d)
            BY <2>1, ModN
        <2> QED
            BY <2>2 DEF d
    <1>p. prf = [a0 |-> IF bit = 0 THEN E(w * h) ELSE E(z * h - s * c),
                 a1 |-> IF bit = 0 THEN E(z * h - s * (c - 1)) ELSE E(w * h),
                 e0 |-> IF bit = 0 THEN own ELSE s,
                 z0 |-> IF bit = 0 THEN ans ELSE z,
                 z1 |-> IF bit = 0 THEN z ELSE ans]
        BY DEF BitMade
    <1> HIDE DEF own
    <1>2. ans \in Int /\ Cong(N, ans, w + own * r)
        <2> DEFINE d == w + own * r
        <2>1. d \in Int
            BY <1>1
        <2> HIDE DEF d
        <2>2. d % N \in Int /\ Cong(N, d % N, d)
            BY <2>1, ModN
        <2> QED
            BY <2>2 DEF d
    <1> HIDE DEF ans, prf
    <1>3. c \in Int
        OBVIOUS
    <1>4. CASE bit = 0
        <2>1. c = r * h
            BY <1>4
        <2> HIDE DEF c
        <2> DEFINE x0 == w * h
                   x1 == z * h - s * (c - 1)
        <2>2. x0 \in Int /\ x1 \in Int
            BY <1>3
        <2>3. /\ prf.a0 = E(x0) /\ prf.a1 = E(x1) /\ prf.e0 = own
              /\ prf.z0 = ans /\ prf.z1 = z
            BY <1>4, <1>p
        <2>4. OrVerify(E(c), prf, e2) <=>
                  /\ Cong(N, ans * h, x0 + own * c)
                  /\ Cong(N, z * h, x1 + (e2 - own) * (c - 1))
            <3> HIDE DEF x0, x1
            <3> QED
                BY <1>1, <1>2, <1>3, <2>2, <2>3, OrVerifyE
        <2>5. (/\ Cong(N, ans * h, w * h + own * c)
               /\ Cong(N, z * h, z * h - s * (c - 1) + (e2 - own) * (c - 1)))
              <=> Cong(N, ((e - e2) * r) * h, e - e2)
            <3>1. Numbers(h, 0, r, e, e2, w, s, z, c, own, ans)
                BY <1>1, <1>2, <1>3, <2>1 DEF Numbers
            <3> QED
                BY <3>1, ZeroAccepted
        <2>6. OrVerify(E(c), prf, e2) <=> Cong(N, ((e - e2) * r) * h, e - e2)
            BY <2>4, <2>5
        <2> QED
            BY <1>4, <2>6 DEF c, prf, BitRelation
    <1>5. CASE bit # 0
        <2>1. c = bit + r * h
            OBVIOUS
        <2> HIDE DEF c
        <2> DEFINE x0 == z * h - s * c
                   x1 == w * h
        <2>2. x0 \in Int /\ x1 \in Int
            BY <1>3
        <2>3. /\ prf.a0 = E(x0) /\ prf.a1 = E(x1) /\ prf.e0 = s
              /\ prf.z0 = z /\ prf.z1 = ans
            BY <1>5, <1>p
        <2>4. OrVerify(E(c), prf, e2) <=>
                  /\ Cong(N, z * h, x0 + s * c)
                  /\ Cong(N, ans * h, x1 + (e2 - s) * (c - 1))
            <3> HIDE DEF x0, x1
            <3> QED
                BY <1>1, <1>2, <1>3, <2>2, <2>3, OrVerifyE
        <2>5. (/\ Cong(N, z * h, z * h - s * c + s * c)
               /\ Cong(N, ans * h, w * h + (e2 - s) * (c - 1)))
              <=> Cong(N, ((e - e2) * r) * h, (e2 - s) * (bit - 1))
            <3>1. Numbers(h, bit, r, e, e2, w, s, z, c, own, ans)
                BY <1>1, <1>2, <1>3, <2>1 DEF Numbers
            <3> QED
                BY <3>1, OneAccepted
        <2>6. OrVerify(E(c), prf, e2) <=> Cong(N, ((e - e2) * r) * h, (e2 - s) * (bit - 1))
            BY <2>4, <2>5
        <2> QED
            BY <1>5, <2>6 DEF c, prf, BitRelation
    <1> QED
        BY <1>4, <1>5

-----------------------------------------------------------------------------
(* The wire, and the sums of commitments *)

\* A point survives the wire.
LEMMA PointRoundTrip ==
    ASSUME NEW p \in Points
    PROVE  DePoint(SerPoint(p)) = p /\ Decodes(SerPoint(p))
    <1>1. CASE p = IDENTITY
        BY <1>1 DEF SerPoint, Compress, DePoint, Decodes
    <1>2. CASE p # IDENTITY
        <2>1. PICK x \in Field, y \in Field : p = <<x, y>> /\ (y * y) % P = YSquared(x)
            BY <1>2, Finite
        <2>2. y \in Int
            BY FieldFacts
        <2> DEFINE tag == 2 + (y % 2)
        <2>3. SerPoint(p) = <<tag, x, 33>>
            BY <1>2, <2>1 DEF SerPoint, Compress
        <2>4. tag # 0 /\ tag % 2 = y % 2
            BY <2>2
        <2>5. OnCurve(x) /\ Lift(x, y % 2) = p
            BY <1>2, <2>1, LiftOfCompressed
        <2> HIDE DEF tag
        <2>6. DePoint(<<tag, x, 33>>) = Lift(x, tag % 2)
            BY <2>4 DEF DePoint
        <2>7. Decodes(<<tag, x, 33>>)
            BY <2>5 DEF Decodes
        <2> QED
            BY <2>3, <2>4, <2>5, <2>6, <2>7
    <1> QED
        BY <1>1, <1>2

\* A proof survives the wire: serialize_proof, then deserialize_proof.
LEMMA ProofRoundTrip ==
    ASSUME NEW proof \in RangeLeqProof
    PROVE  /\ DeserializeProof(SerializeProof(proof)) = proof
           /\ Deserializes(SerializeProof(proof))
    <1> DEFINE raw == SerializeProof(proof)
               Ser(pts) == [i \in DOMAIN pts |-> SerPoint(pts[i])]
               De(pts) == [i \in DOMAIN pts |-> DePoint(pts[i])]
               Readable(pts) == \A i \in DOMAIN pts : Decodes(pts[i])
               BothReadable(prfs) ==
                   \A i \in DOMAIN prfs : Decodes(prfs[i].a0) /\ Decodes(prfs[i].a1)
    <1>1. ASSUME NEW pts \in Seq(Points)
          PROVE  De(Ser(pts)) = pts /\ Readable(Ser(pts))
        <2> DEFINE ser == Ser(pts)
        <2>1. ASSUME NEW i \in DOMAIN pts PROVE pts[i] \in Points
            OBVIOUS
        <2>2. ASSUME NEW i \in DOMAIN pts
              PROVE  DePoint(ser[i]) = pts[i] /\ Decodes(ser[i])
            BY <2>1, PointRoundTrip
        <2>3. DOMAIN ser = DOMAIN pts /\ pts = [i \in DOMAIN pts |-> pts[i]]
            OBVIOUS
        <2> HIDE DEF ser
        <2>4. De(ser) = pts /\ Readable(ser)
            BY <2>2, <2>3
        <2> QED
            BY <2>4 DEF ser
    <1>2. ASSUME NEW prfs \in Seq(BitOrProof)
          PROVE  /\ WithPoints(WithPoints(prfs, SerPoint), DePoint) = prfs
                 /\ BothReadable(WithPoints(prfs, SerPoint))
        <2> DEFINE ser == WithPoints(prfs, SerPoint)
        <2>1. ASSUME NEW i \in DOMAIN prfs PROVE prfs[i] \in BitOrProof
            OBVIOUS
        <2>2. ASSUME NEW i \in DOMAIN prfs
              PROVE  ser[i] = [a0 |-> SerPoint(prfs[i].a0), a1 |-> SerPoint(prfs[i].a1),
                               e0 |-> prfs[i].e0, z0 |-> prfs[i].z0, z1 |-> prfs[i].z1]
            BY DEF WithPoints
        <2>3. DOMAIN ser = DOMAIN prfs
            BY DEF WithPoints
        <2>4. WithPoints(ser, DePoint) =
                  [i \in DOMAIN prfs |->
                      [a0 |-> DePoint(ser[i].a0), a1 |-> DePoint(ser[i].a1),
                       e0 |-> ser[i].e0, z0 |-> ser[i].z0, z1 |-> ser[i].z1]]
            BY <2>3 DEF WithPoints
        <2> HIDE DEF ser
        <2>5. ASSUME NEW i \in DOMAIN prfs
              PROVE  /\ DePoint(ser[i].a0) = prfs[i].a0 /\ Decodes(ser[i].a0)
                     /\ DePoint(ser[i].a1) = prfs[i].a1 /\ Decodes(ser[i].a1)
                     /\ ser[i].e0 = prfs[i].e0 /\ ser[i].z0 = prfs[i].z0
                     /\ ser[i].z1 = prfs[i].z1
            <3>1. prfs[i].a0 \in Points /\ prfs[i].a1 \in Points
                BY <2>1 DEF BitOrProof
            <3> DEFINE written ==
                           [a0 |-> SerPoint(prfs[i].a0), a1 |-> SerPoint(prfs[i].a1),
                            e0 |-> prfs[i].e0, z0 |-> prfs[i].z0, z1 |-> prfs[i].z1]
            <3>4. ser[i] = written
                BY <2>2
            <3>2. /\ written.a0 = SerPoint(prfs[i].a0) /\ written.a1 = SerPoint(prfs[i].a1)
                  /\ written.e0 = prfs[i].e0 /\ written.z0 = prfs[i].z0
                  /\ written.z1 = prfs[i].z1
                OBVIOUS
            <3>3. /\ DePoint(SerPoint(prfs[i].a0)) = prfs[i].a0 /\ Decodes(SerPoint(prfs[i].a0))
                  /\ DePoint(SerPoint(prfs[i].a1)) = prfs[i].a1 /\ Decodes(SerPoint(prfs[i].a1))
                BY <3>1, PointRoundTrip
            <3> HIDE DEF written
            <3> QED
                BY <3>2, <3>3, <3>4
        <2>6. ASSUME NEW i \in DOMAIN prfs
              PROVE  [a0 |-> DePoint(ser[i].a0), a1 |-> DePoint(ser[i].a1),
                      e0 |-> ser[i].e0, z0 |-> ser[i].z0, z1 |-> ser[i].z1] = prfs[i]
            BY <2>1, <2>5 DEF BitOrProof
        <2>7. WithPoints(ser, DePoint) = [i \in DOMAIN prfs |-> prfs[i]]
            BY <2>4, <2>6
        <2>8. prfs = [i \in DOMAIN prfs |-> prfs[i]]
            OBVIOUS
        <2>9. WithPoints(ser, DePoint) = prfs /\ BothReadable(ser)
            BY <2>3, <2>5, <2>7, <2>8
        <2> QED
            BY <2>9 DEF ser
    <1>3. /\ raw.nbits = proof.nbits
          /\ raw.Cv = Ser(proof.Cv)
          /\ raw.Pv = WithPoints(proof.Pv, SerPoint)
          /\ raw.Cd = Ser(proof.Cd)
          /\ raw.Pd = WithPoints(proof.Pd, SerPoint)
        BY DEF SerializeProof, Converted
    <1> HIDE DEF raw
    <1>4. /\ proof.Cv \in Seq(Points) /\ proof.Cd \in Seq(Points)
          /\ proof.Pv \in Seq(BitOrProof) /\ proof.Pd \in Seq(BitOrProof)
        BY DEF RangeLeqProof
    <1>5. DeserializeProof(raw) =
              [nbits |-> raw.nbits, Cv |-> De(raw.Cv), Pv |-> WithPoints(raw.Pv, DePoint),
               Cd |-> De(raw.Cd), Pd |-> WithPoints(raw.Pd, DePoint)]
        BY DEF DeserializeProof, Converted
    <1>6. Deserializes(raw) <=>
              /\ Readable(raw.Cv) /\ Readable(raw.Cd)
              /\ BothReadable(raw.Pv) /\ BothReadable(raw.Pd)
        BY DEF Deserializes
    <1> HIDE DEF Ser, De, Readable, BothReadable
    <1>7. /\ De(raw.Cv) = proof.Cv /\ Readable(raw.Cv)
          /\ De(raw.Cd) = proof.Cd /\ Readable(raw.Cd)
        BY <1>1, <1>3, <1>4
    <1>8. /\ WithPoints(raw.Pv, DePoint) = proof.Pv /\ BothReadable(raw.Pv)
          /\ WithPoints(raw.Pd, DePoint) = proof.Pd /\ BothReadable(raw.Pd)
        BY <1>2, <1>3, <1>4
    <1>9. DeserializeProof(raw) =
              [nbits |-> proof.nbits, Cv |-> proof.Cv, Pv |-> proof.Pv,
               Cd |-> proof.Cd, Pd |-> proof.Pd]
        BY <1>3, <1>5, <1>7, <1>8
    <1>10. proof = [nbits |-> proof.nbits, Cv |-> proof.Cv, Pv |-> proof.Pv,
                    Cd |-> proof.Cd, Pd |-> proof.Pd]
        BY DEF RangeLeqProof
    <1>11. Deserializes(raw)
        BY <1>6, <1>7, <1>8
    <1> QED
        BY <1>9, <1>10, <1>11 DEF raw

\* The weighted sum of multiples of the generator.
LEMMA WeightedE ==
    ASSUME NEW n \in Nat, NEW x \in [1..n -> Int], NEW S, Accumulates(S, n, x, BitWeights(n)),
           NEW points, AreMultiples(points, n, x)
    PROVE  MultiScalarWeighted(points, BitWeights(n)) = E(S[n])
    <1> DEFINE w == BitWeights(n)
    <1>1. w \in [1..n -> Int]
        BY WeightsType
    <1> HIDE DEF w
    <1>2. Accumulates(S, n, x, w)
        BY DEF w
    <1>3. MultiScalarWeighted(points, w) = E(S[n])
        BY <1>1, <1>2, MultiScalarE
    <1> QED
        BY <1>3 DEF w

\* The commitments of bits sum up to a commitment to the number they are the
\* bits of.
LEMMA AggregateE ==
    ASSUME NEW n \in Nat, NEW bits \in [1..n -> Int], NEW r \in [1..n -> Int], NEW h \in Int,
           NEW points \in [1..n -> Points], \A i \in 1..n : points[i] = E(bits[i] + r[i] * h)
    PROVE  Aggregate(points) = E(Weigh(bits) + Weigh(r) * h)
    <1> DEFINE w == BitWeights(n)
               x == [i \in 1..n |-> bits[i] + r[i] * h]
    <1>1. w \in [1..n -> Int]
        BY WeightsType
    <1>2. x \in [1..n -> Int] /\ \A i \in 1..n : x[i] = bits[i] + r[i] * h
        <2>1. ASSUME NEW i \in 1..n PROVE bits[i] + r[i] * h \in Int
            <3>1. bits[i] \in Int /\ r[i] \in Int
                OBVIOUS
            <3> QED
                BY <3>1
        <2> QED
            BY <2>1
    <1>3. PICK S : Accumulates(S, n, bits, w) /\ Weigh(bits) = S[n]
        BY WeighSum
    <1>4. PICK T : Accumulates(T, n, r, w) /\ Weigh(r) = T[n]
        BY WeighSum
    <1> DEFINE U == [i \in 0..n |-> S[i] + T[i] * h]
    <1> HIDE DEF w, x
    <1>5. \A i \in 0..n : S[i] \in Int /\ T[i] \in Int
        BY <1>3, <1>4 DEF Accumulates
    <1>6. Accumulates(U, n, x, w)
        <2>1. U \in [0..n -> Int]
            <3>1. ASSUME NEW i \in 0..n PROVE S[i] + T[i] * h \in Int
                <4>1. S[i] \in Int /\ T[i] \in Int
                    BY <1>5
                <4> QED
                    BY <4>1
            <3> QED
                BY <3>1
        <2>2. U[0] = 0
            <3>1. S[0] = 0 /\ T[0] = 0 /\ U[0] = S[0] + T[0] * h
                BY <1>3, <1>4 DEF Accumulates
            <3> QED
                BY <3>1
        <2>3. ASSUME NEW i \in 1..n PROVE U[i] = U[i - 1] + w[i] * x[i]
            <3> DEFINE a == S[i - 1]
                       b == T[i - 1]
                       c == w[i]
                       y == bits[i]
                       z == r[i]
            <3>1. i - 1 \in 0..n /\ i \in 0..n
                OBVIOUS
            <3>2. a \in Int /\ b \in Int /\ c \in Int /\ y \in Int /\ z \in Int
                BY <1>1, <1>5, <3>1
            <3>3. S[i] = a + c * y /\ T[i] = b + c * z
                BY <1>3, <1>4 DEF Accumulates
            <3>4. U[i] = S[i] + T[i] * h /\ U[i - 1] = a + b * h
                BY <3>1
            <3>5. x[i] = y + z * h
                BY <1>2
            <3> HIDE DEF U, a, b, c, y, z
            <3>6. U[i] = (a + c * y) + (b + c * z) * h
                BY <3>3, <3>4
            <3>7. (a + c * y) + (b + c * z) * h = (a + b * h) + c * (y + z * h)
                BY <3>2
            <3>8. U[i] = U[i - 1] + c * x[i]
                BY <3>4, <3>5, <3>6, <3>7
            <3> QED
                BY <3>8 DEF c
        <2> HIDE DEF U
        <2> QED
            BY <2>1, <2>2, <2>3 DEF Accumulates
    <1>7. U[n] = Weigh(bits) + Weigh(r) * h
        BY <1>3, <1>4
    <1>8. Len(points) = n
        OBVIOUS
    <1>9. \A i \in 1..n : points[i] = E(x[i])
        BY <1>2
    <1>10. MultiScalarWeighted(points, w) = E(U[n])
        <2> HIDE DEF U
        <2> QED
            <3>1. AreMultiples(points, n, x)
                BY <1>8, <1>9 DEF AreMultiples
            <3> QED
                BY <1>2, <1>6, <3>1, WeightedE DEF w
    <1>11. Aggregate(points) = MultiScalarWeighted(points, w)
        BY <1>8 DEF Aggregate, w, BitWeights
    <1> QED
        BY <1>7, <1>10, <1>11

\* Two halves of a proof whose blindings cancel out.
Halves(n, h, bv, rv, bd, rd, proof) ==
    /\ bv \in [1..n -> Int] /\ rv \in [1..n -> Int]
    /\ bd \in [1..n -> Int] /\ rd \in [1..n -> Int]
    /\ Cong(N, Weigh(rv) + Weigh(rd), 0)
    /\ proof.Cv \in [1..n -> Points] /\ proof.Cd \in [1..n -> Points]
    /\ \A i \in 1..n : proof.Cv[i] = E(bv[i] + rv[i] * h)
    /\ \A i \in 1..n : proof.Cd[i] = E(bd[i] + rd[i] * h)

\* The comparison of the sums: the blindings do not matter.
LEMMA ConsistentE ==
    ASSUME NEW n \in Nat, NEW h \in Int, NEW cap \in Int,
           NEW bv, NEW rv, NEW bd, NEW rd, NEW proof, Halves(n, h, bv, rv, bd, rd, proof)
    PROVE  Consistent(proof, cap) <=> Cong(N, Weigh(bv) + Weigh(bd), cap)
    <1>0. /\ bv \in [1..n -> Int] /\ rv \in [1..n -> Int]
          /\ bd \in [1..n -> Int] /\ rd \in [1..n -> Int]
          /\ Cong(N, Weigh(rv) + Weigh(rd), 0)
          /\ proof.Cv \in [1..n -> Points] /\ proof.Cd \in [1..n -> Points]
          /\ \A i \in 1..n : proof.Cv[i] = E(bv[i] + rv[i] * h)
          /\ \A i \in 1..n : proof.Cd[i] = E(bd[i] + rd[i] * h)
        BY DEF Halves
    <1> DEFINE wv == Weigh(bv)
               wd == Weigh(bd)
               tv == Weigh(rv)
               td == Weigh(rd)
    <1>1. wv \in Int /\ wd \in Int /\ tv \in Int /\ td \in Int /\ N \in Int
        BY <1>0, WeighType, NFacts
    <1>2. Aggregate(proof.Cv) = E(wv + tv * h)
        BY <1>0, AggregateE
    <1>3. Aggregate(proof.Cd) = E(wd + td * h)
        BY <1>0, AggregateE
    <1>4. PICK k \in Int : tv + td = 0 + k * N
        BY <1>0 DEF Cong
    <1> HIDE DEF wv, wd, tv, td
    <1> DEFINE a == tv * h
               b == td * h
    <1>5. a \in Int /\ b \in Int /\ a + b = (k * h) * N /\ k * h \in Int
        <2>1. a + b = (tv + td) * h
            BY <1>1
        <2>2. a + b = (0 + k * N) * h
            BY <1>4, <2>1
        <2> HIDE DEF a, b
        <2>3. a + b = (k * h) * N
            BY <1>1, <2>2
        <2> QED
            BY <1>1, <2>3 DEF a, b
    <1>6. wv + a \in Int /\ wd + b \in Int /\ cap * 1 = cap /\ 1 \in Int
        BY <1>1, <1>5
    <1>7. Mul(cap, G) = E(cap)
        BY <1>6, EZero, MulE
    <1> HIDE DEF a, b
    <1>8. Minus(E(cap), E(wv + a)) = E(cap - (wv + a)) /\ cap - (wv + a) \in Int
        <2> DEFINE g == wv + a
        <2>1. g \in Int /\ cap - g \in Int
            BY <1>6
        <2> HIDE DEF g
        <2>2. Minus(E(cap), E(g)) = E(cap - g)
            BY <2>1, MinusE
        <2> QED
            BY <2>1, <2>2 DEF g
    <1>9. Consistent(proof, cap) <=> Cong(N, wd + b, cap - (wv + a))
        <2>1. Consistent(proof, cap) <=> E(wd + b) = E(cap - (wv + a))
            BY <1>2, <1>3, <1>7, <1>8 DEF Consistent, a, b
        <2> QED
            BY <1>6, <1>8, <2>1, EIff
    <1> DEFINE f == k * h
    <1>f. f \in Int /\ a + b = f * N
        BY <1>5
    <1> HIDE DEF f
    <1>10. Cong(N, wd + b, cap - (wv + a)) => Cong(N, wv + wd, cap)
        <2> SUFFICES ASSUME Cong(N, wd + b, cap - (wv + a)) PROVE Cong(N, wv + wd, cap)
            OBVIOUS
        <2>1. PICK m \in Int : wd + b = cap - (wv + a) + m * N
            BY DEF Cong
        <2>2. m * N \in Int /\ f * N \in Int /\ (m - f) * N = m * N - f * N
            BY <1>1, <1>f
        <2>3. wv + wd = cap + (m - f) * N /\ m - f \in Int /\ wv + wd \in Int
            BY <1>1, <1>5, <1>f, <2>1, <2>2
        <2> QED
            BY <2>3, CongBy
    <1>11. Cong(N, wv + wd, cap) => Cong(N, wd + b, cap - (wv + a))
        <2> SUFFICES ASSUME Cong(N, wv + wd, cap) PROVE Cong(N, wd + b, cap - (wv + a))
            OBVIOUS
        <2>1. PICK m \in Int : wv + wd = cap + m * N
            BY DEF Cong
        <2>2. wd + b = cap - (wv + a) + (m + f) * N /\ m + f \in Int
            BY <1>1, <1>5, <1>f, <2>1
        <2> QED
            BY <1>6, <1>8, <2>2, CongBy
    <1> QED
        BY <1>9, <1>10, <1>11 DEF wv, wd

-----------------------------------------------------------------------------
(* What is made *)

\* What a prover draws for a bit.
Triples == RandScalars \X RandScalars \X RandScalars

\* One half of a range proof: the commitments to bits, and their proofs.
HalfRight(h, n, bits, r, C, prfs, e) ==
    /\ bits \in [1..n -> Scalars]
    /\ r \in [1..n -> Scalars]
    /\ C = [i \in 1..n |-> E(bits[i] + r[i] * h)]
    /\ \E nonces \in [1..n -> Triples] :
          prfs = [i \in 1..n |-> BitMade(h, bits[i], r[i], nonces[i], e)]

\* The widths and the caps that are written in 32 bytes.
WrittenWidths == {n \in Nat \ {0} : n \in Writable}
WrittenCaps == {cap \in Nat : cap \in Writable}

\* What is proved for the bits of a number and of what is missing to the cap.
RangeRight(h, m, e) ==
    /\ m.job = "range" /\ m.honest \in BOOLEAN
    /\ m.proof.nbits \in WrittenWidths /\ m.cap \in WrittenCaps
    /\ m.proof = [nbits |-> m.proof.nbits, Cv |-> m.proof.Cv, Pv |-> m.proof.Pv,
                  Cd |-> m.proof.Cd, Pd |-> m.proof.Pd]
    /\ HalfRight(h, m.proof.nbits, m.bitsv, m.rv, m.proof.Cv, m.proof.Pv, e)
    /\ HalfRight(h, m.proof.nbits, m.bitsd, m.rd, m.proof.Cd, m.proof.Pd, e)
    /\ \A i \in 1..m.proof.nbits : m.rv[i] \in RandScalars
    /\ Cong(N, Weigh(m.rv) + Weigh(m.rd), 0)
    /\ m.question = RangeQuestion(m.context, m.cap, m.proof.nbits, m.proof.Cv, m.proof.Cd,
                                  Announced(m.proof.Pv), Announced(m.proof.Pd))
    /\ m.honest =>
          /\ m.bitsv \in [1..m.proof.nbits -> {0, 1}]
          /\ m.bitsd \in [1..m.proof.nbits -> {0, 1}]
          /\ m.cap < Pow2[m.proof.nbits]
          /\ Weigh(m.bitsv) + Weigh(m.bitsd) = m.cap

\* What schnorr_prove makes with the challenge e.
SchnorrRight(m, e) ==
    \E domain : \E secret \in Scalars, base \in Points, w \in Scalars :
        m = SchnorrMade(domain, secret, base, w, e)

\* What sign makes with the challenge e.
SignatureRight(m, e) ==
    \E msg : \E secret \in Scalars, w \in Scalars : m = SignatureMade(secret, msg, w, e)

\* Whatever was made, was made so with what SHA-256 answered.
MadeRight ==
    made # Nothing =>
        /\ made.question \in DOMAIN oracle
        /\ \/ \E h \in 1..(N - 1) : H = E(h) /\ RangeRight(h, made, oracle[made.question])
           \/ SchnorrRight(made, oracle[made.question])
           \/ SignatureRight(made, oracle[made.question])

\* H is derived as a point that is not the point at infinity.
LEMMA GeneratorFound ==
    ASSUME NEW digests \in Digests
    PROVE  HashToCurve(digests) \in Points \ {IDENTITY}
    <1> DEFINE T == {i \in 1..Len(digests) : OnCurve(digests[i])}
               First(c) == OnCurve(digests[c]) /\ \A k \in 1..(c - 1) : ~OnCurve(digests[k])
               ctr == CHOOSE c \in 1..Len(digests) : First(c)
    <1>1. T # {} /\ \A i \in 1..Len(digests) : digests[i] \in Field
        BY RangeProofAssumption
    <1>2. T \subseteq Nat
        OBVIOUS
    <1>3. PICK c \in T : \A d \in T : c <= d
        BY <1>1, <1>2, LeastNat
    <1>4. c \in 1..Len(digests) /\ First(c)
        <2>1. ASSUME NEW k \in 1..(c - 1) PROVE ~OnCurve(digests[k])
            <3>1. k \in 1..Len(digests) /\ ~(c <= k)
                OBVIOUS
            <3> QED
                BY <1>3, <3>1
        <2> QED
            BY <2>1
    <1> HIDE DEF T, First
    <1>5. ctr \in 1..Len(digests) /\ First(ctr)
        BY <1>4
    <1>6. HashToCurve(digests) = Lift(digests[ctr], 0)
        BY DEF HashToCurve, First
    <1> HIDE DEF ctr
    <1>7. digests[ctr] \in Field /\ OnCurve(digests[ctr])
        BY <1>1, <1>5 DEF First
    <1> QED
        BY <1>6, <1>7, LiftPoint

\* What Ask leaves behind.
LEMMA AskFacts ==
    ASSUME NEW question, NEW e, Ask(question, e),
           \A q \in DOMAIN oracle : oracle[q] \in Challenges
    PROVE  /\ question \in DOMAIN oracle'
           /\ oracle'[question] = e
           /\ \A q \in DOMAIN oracle : q \in DOMAIN oracle' /\ oracle'[q] = oracle[q]
           /\ \A q \in DOMAIN oracle' : oracle'[q] \in Challenges
    BY DEF Ask, Answers

\* How the two halves of a proof are made.
HalfFrom(n, bits, r, nonces, C, states, prfs, e) ==
    /\ bits \in [1..n -> Scalars] /\ r \in [1..n -> Scalars]
    /\ nonces \in Nonces /\ Len(nonces) = n
    /\ C = Commitments(bits, r)
    /\ states = [i \in 1..n |-> Phase1(bits[i], C[i], r[i], nonces[i])]
    /\ prfs = [i \in 1..n |-> Phase2(states[i], e)]

\* The commitments and the states, for H = h*G.
LEMMA HalfMade ==
    ASSUME NEW h \in 1..(N - 1), H = E(h), NEW n \in Nat, NEW e, NEW bits, NEW r, NEW nonces,
           NEW C, NEW states, NEW prfs, HalfFrom(n, bits, r, nonces, C, states, prfs, e)
    PROVE  HalfRight(h, n, bits, r, C, prfs, e) /\ Announced(states) = Announced(prfs)
    <1>0. /\ bits \in [1..n -> Scalars] /\ r \in [1..n -> Scalars]
          /\ nonces \in Nonces /\ Len(nonces) = n
          /\ C = Commitments(bits, r)
          /\ states = [i \in 1..n |-> Phase1(bits[i], C[i], r[i], nonces[i])]
          /\ prfs = [i \in 1..n |-> Phase2(states[i], e)]
        BY DEF HalfFrom
    <1> DEFINE drawn == [i \in 1..n |-> nonces[i]]
    <1>1. drawn \in [1..n -> Triples] /\ \A i \in 1..n : drawn[i] = nonces[i]
        BY <1>0, RangeProofAssumption DEF Triples
    <1> HIDE DEF drawn
    <1>2. ASSUME NEW i \in 1..n
          PROVE  /\ bits[i] \in Int /\ r[i] \in Int /\ h \in Int
                 /\ \E w \in Int, s \in Int, z \in Int : nonces[i] = <<w, s, z>>
        <2>1. drawn[i] \in Triples /\ nonces[i] = drawn[i]
            BY <1>1
        <2>2. nonces[i] = <<nonces[i][1], nonces[i][2], nonces[i][3]>>
            BY <2>1 DEF Triples
        <2>3. nonces[i][1] \in Int /\ nonces[i][2] \in Int /\ nonces[i][3] \in Int
            BY <2>1, NFacts DEF Triples, RandScalars
        <2>4. bits[i] \in Scalars /\ r[i] \in Scalars
            BY <1>0
        <2>5. bits[i] \in Int /\ r[i] \in Int
            BY <2>4, ScalarFacts
        <2>6. h \in Int
            OBVIOUS
        <2> QED
            BY <2>2, <2>3, <2>5, <2>6
    <1>3. ASSUME NEW i \in 1..n PROVE C[i] = E(bits[i] + r[i] * h)
        <2>1. Len(bits) = n
            BY <1>0
        <2>2. C[i] = Commit(bits[i], r[i])
            BY <1>0, <2>1 DEF Commitments
        <2> QED
            BY <1>2, <2>2, CommitE
    <1>4. C = [i \in 1..n |-> E(bits[i] + r[i] * h)]
        <2>1. Len(bits) = n
            BY <1>0
        <2>2. C = [i \in 1..n |-> C[i]]
            BY <1>0, <2>1 DEF Commitments
        <2> QED
            BY <1>3, <2>2
    <1>5. ASSUME NEW i \in 1..n
          PROVE  /\ prfs[i] = BitMade(h, bits[i], r[i], drawn[i], e)
                 /\ states[i].a0 = prfs[i].a0 /\ states[i].a1 = prfs[i].a1
        <2>1. PICK w \in Int, s \in Int, z \in Int : nonces[i] = <<w, s, z>>
            BY <1>2
        <2> DEFINE c == E(bits[i] + r[i] * h)
                   b == bits[i]
                   t == r[i]
        <2>2. states[i] = Phase1(b, c, t, <<w, s, z>>) /\ prfs[i] = Phase2(states[i], e)
            BY <1>0, <1>3, <2>1
        <2>3. b \in Int /\ t \in Int /\ h \in Int
            BY <1>2
        <2>4. c = E(b + t * h)
            OBVIOUS
        <2> HIDE DEF c, b, t
        <2>5. /\ Phase2(states[i], e) = BitMade(h, b, t, <<w, s, z>>, e)
              /\ states[i].a0 = BitMade(h, b, t, <<w, s, z>>, e).a0
              /\ states[i].a1 = BitMade(h, b, t, <<w, s, z>>, e).a1
            BY <2>2, <2>3, <2>4, PhasesE
        <2>6. drawn[i] = <<w, s, z>>
            BY <1>1, <2>1
        <2> QED
            BY <2>2, <2>5, <2>6 DEF b, t
    <1>6. prfs = [i \in 1..n |-> BitMade(h, bits[i], r[i], drawn[i], e)]
        <2>1. prfs = [i \in 1..n |-> prfs[i]]
            BY <1>0
        <2> QED
            BY <1>5, <2>1
    <1>7. Announced(states) = Announced(prfs)
        <2>1. DOMAIN states = 1..n /\ DOMAIN prfs = 1..n
            BY <1>0
        <2> QED
            BY <1>5, <2>1 DEF Announced
    <1> QED
        BY <1>0, <1>1, <1>4, <1>6, <1>7 DEF HalfRight

\* The blindings that MakeRangeProof draws.
LEMMA BlindingsDrawn ==
    ASSUME NEW n \in Nat \ {0}, NEW rv \in [1..n -> Blindings], NEW rd \in [1..(n - 1) -> Blindings]
    PROVE  /\ rv \in [1..n -> Scalars] /\ Targeted(rv, rd) \in [1..n -> Scalars]
           /\ \A i \in 1..n : rv[i] \in RandScalars
           /\ Cong(N, Weigh(rv) + Weigh(Targeted(rv, rd)), 0)
    <1>1. Blindings \subseteq RandScalars /\ RandScalars \subseteq Scalars /\ Scalars \subseteq Int
        BY RangeProofAssumption, ScalarFacts, NFacts DEF RandScalars, Scalars
    <1>2. rv \in [1..n -> Scalars] /\ \A i \in 1..n : rv[i] \in RandScalars
        BY <1>1
    <1>b. Blindings \subseteq Int
        BY <1>1
    <1>3. rv \in [1..n -> Int] /\ rd \in [1..(n - 1) -> Int] /\ n - 1 \in Nat /\ n \in Nat
        <2>1. n - 1 \in Nat /\ n \in Nat
            OBVIOUS
        <2>2. ASSUME NEW D, NEW f \in [D -> Blindings] PROVE f \in [D -> Int]
            BY <1>b
        <2> QED
            BY <2>1, <2>2
    <1>4. Cong(N, Weigh(rv) + Weigh(Targeted(rv, rd)), 0)
        BY <1>3, TargetedCancels
    <1> DEFINE x == -Weigh(rv) - 2 * Weigh(rd)
               first == x % N
    <1>5. x \in Int
        BY <1>3, WeighType
    <1> HIDE DEF x
    <1>6. first \in Scalars
        BY <1>5, ModN
    <1> HIDE DEF first
    <1>7. Targeted(rv, rd) = [i \in 1..n |-> IF i = 1 THEN first ELSE rd[i - 1]]
        <2>1. Len(rv) = n
            OBVIOUS
        <2> QED
            BY <2>1 DEF Targeted, first, x
    <1>8. ASSUME NEW i \in 1..n PROVE (IF i = 1 THEN first ELSE rd[i - 1]) \in Scalars
        <2>1. CASE i = 1
            BY <1>6, <2>1
        <2>2. CASE i # 1
            <3>1. i - 1 \in 1..(n - 1)
                BY <2>2
            <3>2. rd[i - 1] \in Scalars
                BY <1>1, <3>1
            <3> QED
                BY <2>2, <3>2
        <2> QED
            BY <2>1, <2>2
    <1> QED
        BY <1>2, <1>4, <1>7, <1>8

-----------------------------------------------------------------------------
(* Making keeps the invariant *)

\* What is drawn for a proof of n bits.
Drawn(n, rv, rd, nv, nd) ==
    /\ n \in WrittenWidths
    /\ rv \in [1..n -> Blindings] /\ rd \in [1..(n - 1) -> Blindings]
    /\ nv \in Nonces /\ Len(nv) = n
    /\ nd \in Nonces /\ Len(nd) = n

\* The cap and the bits that a proof is made for: an honest prover's are bits
\* and add up.
BitsFor(honest, n, cap, bitsv, bitsd) ==
    /\ honest \in BOOLEAN
    /\ cap \in WrittenCaps
    /\ bitsv \in [1..n -> Scalars] /\ bitsd \in [1..n -> Scalars]
    /\ honest =>
          /\ bitsv \in [1..n -> {0, 1}] /\ bitsd \in [1..n -> {0, 1}]
          /\ cap < Pow2[n]
          /\ Weigh(bitsv) + Weigh(bitsd) = cap

\* MakeRangeProof makes a range proof in this sense.
LEMMA RangeMakes ==
    ASSUME NEW h \in 1..(N - 1), H = E(h), NEW n, NEW rv, NEW rd, NEW nv, NEW nd,
           Drawn(n, rv, rd, nv, nd),
           NEW honest, NEW context, NEW cap, NEW bitsv, NEW bitsd,
           BitsFor(honest, n, cap, bitsv, bitsd), NEW e
    PROVE  RangeRight(h, RangeMade(honest, context, cap, bitsv, bitsd,
                                   rv, Targeted(rv, rd), nv, nd, e), e)
    <1> DEFINE t == Targeted(rv, rd)
               Cv == Commitments(bitsv, rv)
               Cd == Commitments(bitsd, t)
               statesv == [i \in 1..n |-> Phase1(bitsv[i], Cv[i], rv[i], nv[i])]
               statesd == [i \in 1..n |-> Phase1(bitsd[i], Cd[i], t[i], nd[i])]
               Pv == [i \in 1..n |-> Phase2(statesv[i], e)]
               Pd == [i \in 1..n |-> Phase2(statesd[i], e)]
               m == RangeMade(honest, context, cap, bitsv, bitsd, rv, t, nv, nd, e)
               proof == [nbits |-> n, Cv |-> Cv, Pv |-> Pv, Cd |-> Cd, Pd |-> Pd]
               question == RangeQuestion(context, cap, n, Cv, Cd,
                                         Announced(statesv), Announced(statesd))
    <1>1. n \in Nat \ {0} /\ n \in Nat /\ n \in WrittenWidths
        BY DEF Drawn, WrittenWidths
    <1>2. bitsv \in [1..n -> Scalars] /\ bitsd \in [1..n -> Scalars] /\ Len(bitsv) = n
        BY <1>1 DEF BitsFor
    <1>3. /\ rv \in [1..n -> Scalars] /\ t \in [1..n -> Scalars]
          /\ \A i \in 1..n : rv[i] \in RandScalars
          /\ Cong(N, Weigh(rv) + Weigh(t), 0)
        BY <1>1, BlindingsDrawn DEF Drawn
    <1>4. m = [job |-> "range", honest |-> honest, context |-> context, cap |-> cap,
               bitsv |-> bitsv, bitsd |-> bitsd, rv |-> rv, rd |-> t,
               question |-> question, proof |-> proof]
        BY <1>2 DEF RangeMade
    <1> HIDE DEF t, m
    <1>5. HalfRight(h, n, bitsv, rv, Cv, Pv, e) /\ Announced(statesv) = Announced(Pv)
        <2>1. HalfFrom(n, bitsv, rv, nv, Cv, statesv, Pv, e)
            BY <1>2, <1>3 DEF Drawn, HalfFrom
        <2> HIDE DEF Cv, statesv, Pv
        <2> QED
            BY <1>1, <2>1, HalfMade
    <1>6. HalfRight(h, n, bitsd, t, Cd, Pd, e) /\ Announced(statesd) = Announced(Pd)
        <2>1. HalfFrom(n, bitsd, t, nd, Cd, statesd, Pd, e)
            BY <1>2, <1>3 DEF Drawn, HalfFrom
        <2> HIDE DEF Cd, statesd, Pd
        <2> QED
            BY <1>1, <2>1, HalfMade
    <1> HIDE DEF Cv, Cd, Pv, Pd, statesv, statesd
    <1>7. question = RangeQuestion(context, cap, n, Cv, Cd, Announced(Pv), Announced(Pd))
        BY <1>5, <1>6
    <1> HIDE DEF question
    <1>8. /\ m.job = "range" /\ m.honest = honest /\ m.context = context /\ m.cap = cap
          /\ m.bitsv = bitsv /\ m.bitsd = bitsd /\ m.rv = rv /\ m.rd = t
          /\ m.question = question /\ m.proof = proof
        BY <1>4
    <1>9. /\ proof.nbits = n /\ proof.Cv = Cv /\ proof.Pv = Pv
          /\ proof.Cd = Cd /\ proof.Pd = Pd
        OBVIOUS
    <1>10. /\ m.proof.nbits = n /\ m.proof.Cv = Cv /\ m.proof.Pv = Pv
           /\ m.proof.Cd = Cd /\ m.proof.Pd = Pd
        BY <1>8, <1>9
    <1>11. m.proof = [nbits |-> m.proof.nbits, Cv |-> m.proof.Cv, Pv |-> m.proof.Pv,
                      Cd |-> m.proof.Cd, Pd |-> m.proof.Pd]
        BY <1>8, <1>10
    <1> HIDE DEF proof
    <1>12. RangeRight(h, m, e)
        BY <1>1, <1>3, <1>5, <1>6, <1>7, <1>8, <1>10, <1>11 DEF RangeRight, BitsFor
    <1> QED
        BY <1>12 DEF m, t

\* A range proof is made right, by whoever makes it.
LEMMA MakeRangeProofRight ==
    ASSUME TypeOK, NEW n \in WrittenWidths, NEW honest, NEW context, NEW cap, NEW bitsv, NEW bitsd,
           BitsFor(honest, n, cap, bitsv, bitsd),
           MakeRangeProof(honest, context, cap, bitsv, bitsd)
    PROVE  MadeRight' /\ made = Nothing /\ UNCHANGED <<H, judged>>
           /\ \A q \in DOMAIN oracle' : oracle'[q] \in Challenges
    <1>1. Len(bitsv) = n
        BY DEF BitsFor, WrittenWidths
    <1>2. PICK rv \in [1..n -> Blindings], rd \in [1..(n - 1) -> Blindings],
               nv \in {nonces \in Nonces : Len(nonces) = n},
               nd \in {nonces \in Nonces : Len(nonces) = n}, e \in Challenges :
             /\ made = Nothing
             /\ made' = RangeMade(honest, context, cap, bitsv, bitsd,
                                  rv, Targeted(rv, rd), nv, nd, e)
             /\ Ask(made'.question, e)
             /\ UNCHANGED <<H, judged>>
        BY <1>1, Zenon DEF MakeRangeProof
    <1>3. PICK h \in 1..(N - 1) : H = E(h)
        BY LogOfH DEF TypeOK
    <1>4. Drawn(n, rv, rd, nv, nd)
        BY DEF Drawn
    <1>5. RangeRight(h, made', e)
        BY <1>2, <1>3, <1>4, RangeMakes
    <1>6. /\ made'.question \in DOMAIN oracle' /\ oracle'[made'.question] = e
          /\ \A q \in DOMAIN oracle' : oracle'[q] \in Challenges
        BY <1>2, AskFacts DEF TypeOK
    <1>7. H' = H /\ UNCHANGED judged
        BY <1>2
    <1>8. H' = E(h) /\ RangeRight(h, made', oracle'[made'.question])
        BY <1>3, <1>5, <1>6, <1>7
    <1>9. MadeRight'
        BY <1>6, <1>8 DEF MadeRight
    <1> QED
        BY <1>2, <1>6, <1>7, <1>9

\* What an honest prover decomposes.
LEMMA HonestBits ==
    ASSUME NEW n \in WrittenWidths, NEW cap \in Int, NEW value \in Int, cap \in Writable,
           0 <= value, value <= cap, cap < Pow2[n]
    PROVE  BitsFor(TRUE, n, cap, Decompose(value, n), Decompose(cap - value, n))
    <1> DEFINE d == cap - value
    <1>1. n \in Nat /\ Pow2[n] \in Int
        BY Pow2Facts DEF WrittenWidths
    <1>2. value \in Nat /\ d \in Nat /\ cap \in Nat /\ value + d = cap
          /\ value < Pow2[n] /\ d < Pow2[n]
        BY <1>1
    <1> HIDE DEF d
    <1>3. /\ Decompose(value, n) \in [1..n -> {0, 1}] /\ Decompose(d, n) \in [1..n -> {0, 1}]
          /\ Weigh(Decompose(value, n)) = value /\ Weigh(Decompose(d, n)) = d
        BY <1>1, <1>2, DecomposeType, WeighDecompose
    <1>4. {0, 1} \subseteq Scalars
        BY NFacts DEF Scalars
    <1>5. Decompose(value, n) \in [1..n -> Scalars] /\ Decompose(d, n) \in [1..n -> Scalars]
        <2> DEFINE f == Decompose(value, n)
                   g == Decompose(d, n)
        <2>1. f \in [1..n -> {0, 1}] /\ g \in [1..n -> {0, 1}]
            BY <1>3
        <2> HIDE DEF f, g
        <2>2. f \in [1..n -> Scalars] /\ g \in [1..n -> Scalars]
            BY <1>4, <2>1
        <2> QED
            BY <2>2 DEF f, g
    <1>6. BitsFor(TRUE, n, cap, Decompose(value, n), Decompose(d, n))
        BY <1>2, <1>3, <1>5 DEF BitsFor, WrittenCaps
    <1> QED
        BY <1>6 DEF d

\* Each action that makes something makes it right.
LEMMA MakeRight ==
    ASSUME TypeOK, Make
    PROVE  /\ MadeRight' /\ made = Nothing /\ UNCHANGED <<H, judged>>
           /\ \A q \in DOMAIN oracle' : oracle'[q] \in Challenges
    <1>1. CASE \E nbits \in Widths : \E cap \in 0..Pow2[nbits], value \in 0..Pow2[nbits] :
                   ProveRangeLeq(value, cap, nbits, Own)
        <2>w. PICK n \in Widths : \E cap \in 0..Pow2[n], value \in 0..Pow2[n] :
                  ProveRangeLeq(value, cap, n, Own)
            BY <1>1
        <2>1. PICK cap \in 0..Pow2[n], value \in 0..Pow2[n] :
                  ProveRangeLeq(value, cap, n, Own)
            BY <2>w
        <2>2. cap \in Int /\ value \in Int /\ 0 <= value /\ value <= cap /\ cap < Pow2[n]
            BY <2>1 DEF ProveRangeLeq
        <2>5. n \in WrittenWidths /\ cap \in Writable
            BY <2>1, RangeProofAssumption DEF ProveRangeLeq, WrittenWidths
        <2>3. BitsFor(TRUE, n, cap, Decompose(value, n), Decompose(cap - value, n))
            BY <2>2, <2>5, HonestBits
        <2>4. MakeRangeProof(TRUE, Own, cap, Decompose(value, n), Decompose(cap - value, n))
            BY <2>1 DEF ProveRangeLeq
        <2> QED
            BY <2>3, <2>4, <2>5, MakeRangeProofRight
    <1>2. CASE \E claim \in Unchecked : ProveUnchecked(claim, Own)
        <2>1. PICK claim \in Unchecked : ProveUnchecked(claim, Own)
            BY <1>2
        <2> DEFINE n == Len(claim.bitsv)
        <2>2. /\ claim.cap \in Nat /\ n \in Nat \ {0}
              /\ {claim.bitsv, claim.bitsd} \subseteq [1..n -> Scalars]
            BY RangeProofAssumption
        <2>3. claim.cap \in WrittenCaps /\ n \in WrittenWidths
            BY <2>2, TranscriptAssumption DEF WrittenCaps, WrittenWidths
        <2> HIDE DEF n
        <2>4. BitsFor(FALSE, n, claim.cap, claim.bitsv, claim.bitsd)
            BY <2>2, <2>3 DEF BitsFor
        <2>5. MakeRangeProof(FALSE, Own, claim.cap, claim.bitsv, claim.bitsd)
            BY <2>1 DEF ProveUnchecked
        <2> QED
            BY <2>3, <2>4, <2>5, MakeRangeProofRight
    <1>3. CASE \E secret \in Blindings, w \in Blindings, base \in {G, H} :
                   Identify(<<"id">>, secret, base, w)
        <2>1. PICK secret \in Blindings, w \in Blindings, base \in {G, H} :
                   Identify(<<"id">>, secret, base, w)
            BY <1>3
        <2>2. PICK e \in Challenges :
                  /\ made = Nothing
                  /\ made' = SchnorrMade(<<"id">>, secret, base, w, e)
                  /\ Ask(made'.question, e)
                  /\ UNCHANGED <<H, judged>>
            BY <2>1 DEF Identify
        <2>3. base \in Points /\ secret \in Scalars /\ w \in Scalars
            BY NFacts, RangeProofAssumption DEF TypeOK, RandScalars, Scalars
        <2>4. SchnorrRight(made', e)
            BY <2>2, <2>3 DEF SchnorrRight
        <2>5. /\ made'.question \in DOMAIN oracle' /\ oracle'[made'.question] = e
              /\ \A q \in DOMAIN oracle' : oracle'[q] \in Challenges
            BY <2>2, AskFacts DEF TypeOK
        <2> QED
            BY <2>2, <2>4, <2>5 DEF MadeRight
    <1>4. CASE \E secret \in Blindings, w \in Blindings, msg \in Messages :
                   SignMessage(secret, msg, w)
        <2>1. PICK secret \in Blindings, w \in Blindings, msg \in Messages :
                   SignMessage(secret, msg, w)
            BY <1>4
        <2>2. PICK e \in Challenges :
                  /\ made = Nothing
                  /\ made' = SignatureMade(secret, msg, w, e)
                  /\ Ask(made'.question, e)
                  /\ UNCHANGED <<H, judged>>
            BY <2>1 DEF SignMessage
        <2>3. secret \in Scalars /\ w \in Scalars
            BY NFacts, RangeProofAssumption DEF RandScalars, Scalars
        <2>4. SignatureRight(made', e)
            BY <2>2, <2>3 DEF SignatureRight
        <2>5. /\ made'.question \in DOMAIN oracle' /\ oracle'[made'.question] = e
              /\ \A q \in DOMAIN oracle' : oracle'[q] \in Challenges
            BY <2>2, AskFacts DEF TypeOK
        <2> QED
            BY <2>2, <2>4, <2>5 DEF MadeRight
    <1> QED
        BY <1>1, <1>2, <1>3, <1>4 DEF Make

-----------------------------------------------------------------------------
(* Judging keeps the invariant *)

\* _or_verify and verify_range_leq for a second generator K.
Holds(K, C, prf, e) ==
    /\ Mul(prf.z0, K) = Plus(prf.a0, Mul(prf.e0, C))
    /\ Mul(prf.z1, K) = Plus(prf.a1, Mul((e - prf.e0) % N, Minus(C, G)))

\* The same of the whole proof.
Verifies(K, proof, cap, e) ==
    /\ \A i \in 1..proof.nbits : Holds(K, proof.Cv[i], proof.Pv[i], e)
    /\ \A i \in 1..proof.nbits : Holds(K, proof.Cd[i], proof.Pd[i], e)
    /\ Consistent(proof, cap)

\* For H they are the model's own.
LEMMA VerifiesIs ==
    ASSUME NEW proof, NEW cap, NEW e
    PROVE  VerifyRangeLeq(proof, cap, e) <=> Verifies(H, proof, cap, e)
    BY DEF VerifyRangeLeq, Verifies, OrVerify, Holds

\* What a boolean result amounts to.
Verdict(b) == IF b THEN "accepted" ELSE "rejected"

\* What was not judged by the equations.
RangeSettled(j) ==
    /\ j.cap \in Int
    /\ j.verdict \in {"raised", "refused"}
    /\ \/ ~Deserializes(j.sent)
       \/ ~WellFormed(DeserializeProof(j.sent), j.cap)
       \/ ~Absorbable(DeserializeProof(j.sent), j.cap)

\* What was, for a second generator K and the answer e.
RangeJudged(K, j, e) ==
    /\ j.cap \in Nat
    /\ Deserializes(j.sent)
    /\ j.proof = DeserializeProof(j.sent)
    /\ WellFormed(j.proof, j.cap)
    /\ Absorbable(j.proof, j.cap)
    /\ j.question = RangeQuestion(j.context, j.cap, j.proof.nbits, j.proof.Cv, j.proof.Cd,
                                  Announced(j.proof.Pv), Announced(j.proof.Pd))
    /\ j.verdict = Verdict(Verifies(K, j.proof, j.cap, e))

\* What schnorr_verify says.
SchnorrJudged(j, e) ==
    /\ j.sent = j.proof
    /\ j.question = SchnorrQuestion(j.domain, j.base, j.public, j.proof.commitment)
    /\ j.verdict = Verdict(SchnorrVerify(j.proof, j.base, j.public, e))

\* What sig_verify says.
SignatureJudged(j, e) ==
    /\ j.sent = j.proof
    /\ j.question = SignatureQuestion(Recovered(j.pub, j.proof), j.pub, j.msg)
    /\ j.verdict = Verdict(j.proof[1] = e)

\* By the job.
JudgedAs(job, K, j, e) ==
    \/ job = "range" /\ RangeJudged(K, j, e)
    \/ job = "schnorr" /\ SchnorrJudged(j, e)
    \/ job = "signature" /\ SignatureJudged(j, e)

\* Whatever was judged, was judged so with what SHA-256 answered.
JudgedRight ==
    judged # Nothing =>
        /\ made # Nothing
        /\ \/ made.job = "range" /\ RangeSettled(judged)
           \/ /\ judged.question \in DOMAIN oracle
              /\ JudgedAs(made.job, H, judged, oracle[judged.question])

\* The inductive invariant.
IInv ==
    /\ H \in Points \ {IDENTITY}
    /\ \A q \in DOMAIN oracle : oracle[q] \in Challenges
    /\ MadeRight
    /\ JudgedRight

\* What was made is right for as long as the answers it rests on stay.
LEMMA MadeStays ==
    ASSUME MadeRight, UNCHANGED <<H, made>>,
           \A q \in DOMAIN oracle : q \in DOMAIN oracle' /\ oracle'[q] = oracle[q]
    PROVE  MadeRight'
    <1>1. CASE made = Nothing
        BY <1>1 DEF MadeRight
    <1>2. CASE made # Nothing
        <2>1. made.question \in DOMAIN oracle
            BY <1>2 DEF MadeRight
        <2>2. /\ made.question \in DOMAIN oracle' /\ made' = made /\ H' = H
              /\ oracle'[made.question] = oracle[made.question]
            BY <2>1
        <2> QED
            BY <1>2, <2>2 DEF MadeRight
    <1> QED
        BY <1>1, <1>2

\* The job of what is made, by its kind.
LEMMA JobOf ==
    ASSUME NEW m, NEW e
    PROVE  /\ \A h : RangeRight(h, m, e) => m.job = "range"
           /\ SchnorrRight(m, e) => m.job = "schnorr"
           /\ SignatureRight(m, e) => m.job = "signature"
    <1>1. ASSUME NEW h, RangeRight(h, m, e) PROVE m.job = "range"
        BY <1>1 DEF RangeRight
    <1>2. ASSUME SchnorrRight(m, e) PROVE m.job = "schnorr"
        BY <1>2 DEF SchnorrRight, SchnorrMade
    <1>3. ASSUME SignatureRight(m, e) PROVE m.job = "signature"
        BY <1>3 DEF SignatureRight, SignatureMade
    <1> QED
        BY <1>1, <1>2, <1>3

\* What was made as a range proof was made right.
LEMMA MadeRange ==
    ASSUME MadeRight, made # Nothing, made.job = "range"
    PROVE  /\ made.question \in DOMAIN oracle
           /\ \E h \in 1..(N - 1) : H = E(h) /\ RangeRight(h, made, oracle[made.question])
    <1> DEFINE e == oracle[made.question]
    <1>1. /\ made.question \in DOMAIN oracle
          /\ \/ \E h \in 1..(N - 1) : H = E(h) /\ RangeRight(h, made, e)
             \/ SchnorrRight(made, e) \/ SignatureRight(made, e)
        BY DEF MadeRight
    <1> HIDE DEF e
    <1>2. ~SchnorrRight(made, e) /\ ~SignatureRight(made, e)
        BY JobOf
    <1> QED
        BY <1>1, <1>2 DEF e

\* Each of the three verifiers keeps the invariant.
LEMMA JudgeRangeRight ==
    ASSUME IInv, made # Nothing, made.job = "range",
           NEW raw, NEW cap \in Int, NEW context, JudgeRange(raw, cap, context)
    PROVE  IInv'
    <1> DEFINE proof == DeserializeProof(raw)
               question == RangeQuestion(context, cap, proof.nbits, proof.Cv, proof.Cd,
                                         Announced(proof.Pv), Announced(proof.Pd))
               Settled(verdict) == Settle(verdict, raw, cap, context)
    <1>1. ASSUME NEW verdict \in {"raised", "refused"}, Settled(verdict),
                 ~Deserializes(raw) \/ ~WellFormed(proof, cap) \/ ~Absorbable(proof, cap)
          PROVE  IInv'
        <2>1. /\ judged' = [verdict |-> verdict, sent |-> raw, cap |-> cap,
                            context |-> context, asked |-> FALSE]
              /\ H' = H /\ oracle' = oracle /\ made' = made
            BY <1>1 DEF Settle
        <2>2. judged'.verdict = verdict /\ judged'.sent = raw /\ judged'.cap = cap
            BY <2>1
        <2>3. RangeSettled(judged')
            BY <1>1, <2>2 DEF RangeSettled
        <2>4. JudgedRight'
            BY <2>1, <2>3 DEF JudgedRight
        <2>5. MadeRight'
            BY <2>1, MadeStays DEF IInv
        <2> QED
            BY <2>1, <2>4, <2>5 DEF IInv
    <1>2. CASE ~Deserializes(raw)
        <2>1. Settled("raised")
            BY <1>2 DEF JudgeRange
        <2> QED
            BY <1>1, <1>2, <2>1
    <1>3. CASE Deserializes(raw) /\ ~WellFormed(proof, cap)
        <2>1. Settled("refused")
            BY <1>3 DEF JudgeRange
        <2> QED
            BY <1>1, <1>3, <2>1
    <1>4. CASE Deserializes(raw) /\ WellFormed(proof, cap) /\ ~Absorbable(proof, cap)
        <2>1. Settled("raised")
            BY <1>4 DEF JudgeRange
        <2> QED
            BY <1>1, <1>4, <2>1
    <1>5. CASE Deserializes(raw) /\ WellFormed(proof, cap) /\ Absorbable(proof, cap)
        <2>1. PICK e \in Answers(question) :
                  /\ Ask(question, e)
                  /\ judged' = [verdict |-> IF VerifyRangeLeq(proof, cap, e)
                                            THEN "accepted" ELSE "rejected",
                                sent |-> raw, proof |-> proof, cap |-> cap,
                                context |-> context, question |-> question, asked |-> TRUE]
                  /\ UNCHANGED <<H, made>>
            BY <1>5, Zenon DEF JudgeRange
        <2> HIDE DEF proof
        <2>2. /\ question \in DOMAIN oracle' /\ oracle'[question] = e
              /\ \A q \in DOMAIN oracle : q \in DOMAIN oracle' /\ oracle'[q] = oracle[q]
              /\ \A q \in DOMAIN oracle' : oracle'[q] \in Challenges
            BY <2>1, AskFacts DEF IInv
        <2> DEFINE verdict == IF VerifyRangeLeq(proof, cap, e) THEN "accepted" ELSE "rejected"
                   q == question
        <2>3. verdict = Verdict(Verifies(H, proof, cap, e))
            BY VerifiesIs DEF Verdict
        <2>4. judged' = [verdict |-> verdict, sent |-> raw, proof |-> proof, cap |-> cap,
                         context |-> context, question |-> q, asked |-> TRUE]
            BY <2>1
        <2>5. q = RangeQuestion(context, cap, proof.nbits, proof.Cv, proof.Cd,
                                Announced(proof.Pv), Announced(proof.Pd))
            OBVIOUS
        <2>6. question = q
            OBVIOUS
        <2> HIDE DEF verdict, question, q
        <2>7. /\ judged'.verdict = verdict /\ judged'.sent = raw /\ judged'.proof = proof
              /\ judged'.cap = cap /\ judged'.context = context /\ judged'.question = q
            BY <2>4
        <2>8. cap \in Nat
            BY <1>5, TranscriptAssumption DEF Absorbable
        <2>9. RangeJudged(H, judged', e)
            BY <1>5, <2>3, <2>5, <2>7, <2>8 DEF RangeJudged, proof
        <2>10. /\ judged'.question \in DOMAIN oracle' /\ oracle'[judged'.question] = e
               /\ H' = H /\ made' = made
            BY <2>1, <2>2, <2>6, <2>7
        <2>11. JudgedRight'
            BY <2>9, <2>10 DEF JudgedRight, JudgedAs
        <2>12. MadeRight'
            BY <2>2, <2>10, MadeStays DEF IInv
        <2> QED
            BY <2>2, <2>10, <2>11, <2>12 DEF IInv
    <1> QED
        BY <1>2, <1>3, <1>4, <1>5

\* schnorr_verify.
LEMMA JudgeSchnorrRight ==
    ASSUME IInv, made # Nothing, made.job = "schnorr",
           NEW proof, NEW domain, NEW base, NEW public, JudgeSchnorr(proof, domain, base, public)
    PROVE  IInv'
    <1> DEFINE question == SchnorrQuestion(domain, base, public, proof.commitment)
    <1>1. PICK e \in Answers(question) :
              /\ Ask(question, e)
              /\ judged' = [verdict |-> IF SchnorrVerify(proof, base, public, e)
                                        THEN "accepted" ELSE "rejected",
                            sent |-> proof, proof |-> proof, domain |-> domain,
                            base |-> base, public |-> public,
                            question |-> question, asked |-> TRUE]
        BY Zenon DEF JudgeSchnorr
    <1>2. H' = H /\ made' = made
        BY DEF JudgeSchnorr
    <1>3. /\ question \in DOMAIN oracle' /\ oracle'[question] = e
          /\ \A q \in DOMAIN oracle : q \in DOMAIN oracle' /\ oracle'[q] = oracle[q]
          /\ \A q \in DOMAIN oracle' : oracle'[q] \in Challenges
        BY <1>1, AskFacts DEF IInv
    <1>4. /\ judged'.verdict = Verdict(SchnorrVerify(proof, base, public, e))
          /\ judged'.sent = proof /\ judged'.proof = proof /\ judged'.domain = domain
          /\ judged'.base = base /\ judged'.public = public /\ judged'.question = question
        BY <1>1 DEF Verdict
    <1>5. SchnorrJudged(judged', e)
        BY <1>4 DEF SchnorrJudged
    <1>6. judged'.question \in DOMAIN oracle' /\ oracle'[judged'.question] = e
        BY <1>3, <1>4
    <1>7. JudgedRight'
        BY <1>2, <1>5, <1>6 DEF JudgedRight, JudgedAs
    <1>8. MadeRight'
        BY <1>2, <1>3, MadeStays DEF IInv
    <1> QED
        BY <1>2, <1>3, <1>7, <1>8 DEF IInv

\* sig_verify.
LEMMA JudgeSignatureRight ==
    ASSUME IInv, made # Nothing, made.job = "signature",
           NEW sig, NEW pub, NEW msg, JudgeSignature(sig, pub, msg)
    PROVE  IInv'
    <1> DEFINE question == SignatureQuestion(Recovered(pub, sig), pub, msg)
    <1>1. PICK e \in Answers(question) :
              /\ Ask(question, e)
              /\ judged' = [verdict |-> IF sig[1] = e THEN "accepted" ELSE "rejected",
                            sent |-> sig, proof |-> sig, pub |-> pub, msg |-> msg,
                            question |-> question, asked |-> TRUE]
        BY Zenon DEF JudgeSignature
    <1>2. H' = H /\ made' = made
        BY DEF JudgeSignature
    <1>3. /\ question \in DOMAIN oracle' /\ oracle'[question] = e
          /\ \A q \in DOMAIN oracle : q \in DOMAIN oracle' /\ oracle'[q] = oracle[q]
          /\ \A q \in DOMAIN oracle' : oracle'[q] \in Challenges
        BY <1>1, AskFacts DEF IInv
    <1>4. /\ judged'.verdict = Verdict(sig[1] = e)
          /\ judged'.sent = sig /\ judged'.proof = sig
          /\ judged'.pub = pub /\ judged'.msg = msg /\ judged'.question = question
        BY <1>1 DEF Verdict
    <1>5. SignatureJudged(judged', e)
        BY <1>4 DEF SignatureJudged
    <1>6. judged'.question \in DOMAIN oracle' /\ oracle'[judged'.question] = e
        BY <1>3, <1>4
    <1>7. JudgedRight'
        BY <1>2, <1>5, <1>6 DEF JudgedRight, JudgedAs
    <1>8. MadeRight'
        BY <1>2, <1>3, MadeStays DEF IInv
    <1> QED
        BY <1>2, <1>3, <1>7, <1>8 DEF IInv

-----------------------------------------------------------------------------
(* The inductive invariant and the types *)

\* Judge keeps the invariant; what is handed to the verifier has a cap that is a
\* number.
LEMMA JudgeRight ==
    ASSUME IInv, Judge
    PROVE  IInv'
    <1>1. made # Nothing
        BY DEF Judge
    <1>2. CASE made.job = "range" /\ \E shown \in Presented : JudgeRange(shown[1], shown[2], shown[3])
        <2>1. PICK shown \in Presented : JudgeRange(shown[1], shown[2], shown[3])
            BY <1>2
        <2>2. PICK h \in 1..(N - 1) : RangeRight(h, made, oracle[made.question])
            BY <1>1, <1>2, MadeRange DEF IInv
        <2>3. made.cap \in Nat
            BY <2>2 DEF RangeRight, WrittenCaps
        <2> DEFINE raw == SerializeProof(made.proof)
                   altered == IF made.honest THEN Altered(raw) ELSE {}
        <2>4. shown \in (altered \X {made.cap} \X {made.context})
                        \cup ({raw} \X (made.cap - 1 .. made.cap + 1) \X {made.context})
                        \cup ({raw} \X {made.cap} \X Contexts)
            BY <2>1 DEF Presented
        <2> HIDE DEF raw, altered
        <2>5. shown[2] \in Int
            BY <2>3, <2>4
        <2> QED
            BY <1>1, <1>2, <2>1, <2>5, JudgeRangeRight
    <1>3. CASE /\ made.job = "schnorr"
               /\ \E response \in 0..(2 * N - 1), domain \in {made.domain, <<"id", "2">>},
                     public \in {made.public, G, H} :
                      JudgeSchnorr([made.proof EXCEPT !.response = response],
                                   domain, made.base, public)
        BY <1>1, <1>3, JudgeSchnorrRight
    <1>4. CASE /\ made.job = "signature"
               /\ \E z \in 0..(2 * N - 1), msg \in Messages, pub \in {made.pub, H} :
                      JudgeSignature(<<made.proof[1], z>>, pub, msg)
        BY <1>1, <1>4, JudgeSignatureRight
    <1> QED
        BY <1>2, <1>3, <1>4 DEF Judge

\* The module is imported with a second generator.
LEMMA InitRight ==
    ASSUME Init
    PROVE  IInv
    <1>1. H \in Points \ {IDENTITY}
        BY GeneratorFound DEF Init
    <1>2. oracle = <<>> /\ made = Nothing /\ judged = Nothing
        BY DEF Init
    <1>3. DOMAIN oracle = {}
        BY <1>2
    <1> QED
        BY <1>1, <1>2, <1>3 DEF IInv, MadeRight, JudgedRight

\* The type of the proof of a bit.
LEMMA BitType ==
    ASSUME NEW h \in Int, NEW b \in Int, NEW t \in Int, NEW w \in Int,
           NEW s \in Scalars, NEW z \in Scalars, NEW e \in Scalars
    PROVE  BitMade(h, b, t, <<w, s, z>>, e) \in BitOrProof
    <1> DEFINE d == e - s
               own == d % N
               u == w + own * t
               answer == u % N
               c == b + t * h
               x0 == w * h
               x1 == z * h - s * c
               x2 == z * h - s * (c - 1)
    <1>1. s \in Int /\ z \in Int /\ e \in Int
        BY ScalarFacts
    <1>2. BitMade(h, b, t, <<w, s, z>>, e) =
             [a0 |-> IF b = 0 THEN E(x0) ELSE E(x1), a1 |-> IF b = 0 THEN E(x2) ELSE E(x0),
              e0 |-> IF b = 0 THEN own ELSE s, z0 |-> IF b = 0 THEN answer ELSE z,
              z1 |-> IF b = 0 THEN z ELSE answer]
        BY DEF BitMade
    <1>3. x0 \in Int /\ x1 \in Int /\ x2 \in Int /\ d \in Int
        <2>1. c \in Int
            OBVIOUS
        <2> HIDE DEF c
        <2> QED
            BY <1>1, <2>1
    <1> HIDE DEF x0, x1, x2, d
    <1>4. own \in Scalars /\ own \in Int
        BY <1>3, ModN
    <1> HIDE DEF own
    <1>5. u \in Int
        BY <1>4
    <1> HIDE DEF u
    <1>6. answer \in Scalars
        BY <1>5, ModN
    <1> HIDE DEF answer
    <1>7. E(x0) \in Points /\ E(x1) \in Points /\ E(x2) \in Points
        BY <1>3, EPoint
    <1> QED
        BY <1>2, <1>4, <1>6, <1>7 DEF BitOrProof

\* The types of one half of a proof.
LEMMA HalfType ==
    ASSUME NEW h \in 1..(N - 1), NEW n \in Nat, NEW bits, NEW r, NEW C, NEW prfs,
           NEW e \in Scalars, HalfRight(h, n, bits, r, C, prfs, e)
    PROVE  /\ C \in Seq(Points) /\ C \in [1..n -> Points] /\ Len(C) = n
           /\ prfs \in Seq(BitOrProof) /\ Len(prfs) = n
    <1>1. PICK nonces \in [1..n -> Triples] :
              prfs = [i \in 1..n |-> BitMade(h, bits[i], r[i], nonces[i], e)]
        BY DEF HalfRight
    <1>2. ASSUME NEW i \in 1..n
          PROVE  /\ bits[i] \in Int /\ r[i] \in Int /\ h \in Int
                 /\ nonces[i][1] \in Int /\ nonces[i][2] \in Scalars /\ nonces[i][3] \in Scalars
        <2>1. bits[i] \in Scalars /\ r[i] \in Scalars /\ nonces[i] \in Triples
            BY DEF HalfRight
        <2>2. RandScalars \subseteq Scalars
            BY NFacts DEF RandScalars, Scalars
        <2>3. /\ nonces[i][1] \in RandScalars /\ nonces[i][2] \in RandScalars
              /\ nonces[i][3] \in RandScalars
            BY <2>1 DEF Triples
        <2>4. /\ nonces[i][1] \in Scalars /\ nonces[i][2] \in Scalars
              /\ nonces[i][3] \in Scalars
            BY <2>2, <2>3
        <2>5. h \in Int
            OBVIOUS
        <2> QED
            BY <2>1, <2>4, <2>5, ScalarFacts
    <1>3. ASSUME NEW i \in 1..n
          PROVE  BitMade(h, bits[i], r[i], nonces[i], e) \in BitOrProof
        <2> DEFINE w == nonces[i][1]
                   s == nonces[i][2]
                   z == nonces[i][3]
        <2>1. nonces[i] = <<w, s, z>>
            BY DEF Triples
        <2>2. w \in Int /\ s \in Scalars /\ z \in Scalars
            BY <1>2
        <2> HIDE DEF w, s, z
        <2>3. BitMade(h, bits[i], r[i], <<w, s, z>>, e) \in BitOrProof
            BY <1>2, <2>2, BitType
        <2> QED
            BY <2>1, <2>3
    <1>4. prfs \in [1..n -> BitOrProof]
        BY <1>1, <1>3
    <1>5. C \in [1..n -> Points]
        <2>1. ASSUME NEW i \in 1..n PROVE E(bits[i] + r[i] * h) \in Points
            <3>1. bits[i] + r[i] * h \in Int
                BY <1>2
            <3> QED
                BY <3>1, EPoint
        <2> QED
            BY <2>1 DEF HalfRight
    <1> QED
        BY <1>4, <1>5

\* A range proof that was made has the type.
LEMMA RangeType ==
    ASSUME NEW h \in 1..(N - 1), NEW m, NEW e \in Scalars, RangeRight(h, m, e)
    PROVE  /\ m.proof \in RangeLeqProof /\ m.proof.nbits \in Nat \ {0}
           /\ Len(m.proof.Cv) = m.proof.nbits /\ Len(m.proof.Pv) = m.proof.nbits
           /\ Len(m.proof.Cd) = m.proof.nbits /\ Len(m.proof.Pd) = m.proof.nbits
           /\ m.proof.Cv \in [1..m.proof.nbits -> Points]
           /\ m.proof.Cd \in [1..m.proof.nbits -> Points]
    <1> DEFINE p == m.proof
               n == p.nbits
    <1>1. /\ n \in WrittenWidths
          /\ p = [nbits |-> n, Cv |-> p.Cv, Pv |-> p.Pv, Cd |-> p.Cd, Pd |-> p.Pd]
          /\ HalfRight(h, n, m.bitsv, m.rv, p.Cv, p.Pv, e)
          /\ HalfRight(h, n, m.bitsd, m.rd, p.Cd, p.Pd, e)
        BY DEF RangeRight
    <1>2. n \in Nat \ {0} /\ n \in Nat
        BY <1>1 DEF WrittenWidths
    <1> HIDE DEF p, n
    <1>3. /\ p.Cv \in Seq(Points) /\ p.Cv \in [1..n -> Points] /\ Len(p.Cv) = n
          /\ p.Pv \in Seq(BitOrProof) /\ Len(p.Pv) = n
        BY <1>1, <1>2, HalfType
    <1>4. /\ p.Cd \in Seq(Points) /\ p.Cd \in [1..n -> Points] /\ Len(p.Cd) = n
          /\ p.Pd \in Seq(BitOrProof) /\ Len(p.Pd) = n
        BY <1>1, <1>2, HalfType
    <1>5. p \in RangeLeqProof
        BY <1>1, <1>2, <1>3, <1>4 DEF RangeLeqProof
    <1> QED
        BY <1>2, <1>3, <1>4, <1>5 DEF p, n

\* The proof of a Schnorr identification has its type.
LEMMA SchnorrType ==
    ASSUME NEW m, NEW e \in Scalars, SchnorrRight(m, e)
    PROVE  m.proof \in SchnorrProof
    <1>1. PICK domain : \E secret \in Scalars, base \in Points, w \in Scalars :
                            m = SchnorrMade(domain, secret, base, w, e)
        BY DEF SchnorrRight
    <1>2. PICK secret \in Scalars, base \in Points, w \in Scalars :
              m = SchnorrMade(domain, secret, base, w, e)
        BY <1>1
    <1>3. m.proof = SchnorrProve(secret, base, w, e)
        BY <1>2 DEF SchnorrMade
    <1>4. PICK b \in Scalars : base = E(b)
        BY EveryPoint
    <1>5. w \in Int /\ b \in Int /\ secret \in Int /\ e \in Int
        BY ScalarFacts
    <1>6. Mul(w, base) = E(w * b) /\ w * b \in Int
        BY <1>4, <1>5, MulE
    <1> DEFINE u == w + e * secret
    <1>7. u \in Int
        BY <1>5
    <1>8. m.proof = [commitment |-> Mul(w, base), response |-> u % N]
        BY <1>3 DEF SchnorrProve
    <1> HIDE DEF u
    <1>9. u % N \in Scalars /\ Mul(w, base) \in Points
        BY <1>6, <1>7, ModN, EPoint
    <1> QED
        BY <1>8, <1>9 DEF SchnorrProof

\* A signature is two scalars.
LEMMA SignatureType ==
    ASSUME NEW m, NEW e \in Scalars, SignatureRight(m, e)
    PROVE  m.proof \in Scalars \X Scalars
    <1>1. PICK msg : \E secret \in Scalars, w \in Scalars :
                         m = SignatureMade(secret, msg, w, e)
        BY DEF SignatureRight
    <1>2. PICK secret \in Scalars, w \in Scalars : m = SignatureMade(secret, msg, w, e)
        BY <1>1
    <1> DEFINE u == w + e * secret
    <1>3. u \in Int
        BY ScalarFacts
    <1>4. m.proof = <<e, u % N>>
        BY <1>2 DEF SignatureMade, Sign
    <1> HIDE DEF u
    <1>5. u % N \in Scalars
        BY <1>3, ModN
    <1> QED
        BY <1>4, <1>5

\* The type invariant follows from the inductive one.
LEMMA TypeFollows ==
    ASSUME IInv
    PROVE  TypeOK
    <1> DEFINE e == oracle[made.question]
    <1>1. ASSUME made # Nothing
          PROVE  /\ made.job \in {"range", "schnorr", "signature"}
                 /\ made.proof \in ProofOf(made.job)
                 /\ made.question \in DOMAIN oracle
        <2>1. /\ made.question \in DOMAIN oracle
              /\ \/ \E h \in 1..(N - 1) : H = E(h) /\ RangeRight(h, made, e)
                 \/ SchnorrRight(made, e) \/ SignatureRight(made, e)
            BY <1>1 DEF IInv, MadeRight
        <2>2. e \in Scalars
            BY <2>1, RangeProofAssumption DEF IInv
        <2> HIDE DEF e
        <2>3. CASE \E h \in 1..(N - 1) : H = E(h) /\ RangeRight(h, made, e)
            <3>1. PICK h \in 1..(N - 1) : RangeRight(h, made, e)
                BY <2>3
            <3>2. made.job = "range" /\ made.proof \in RangeLeqProof
                BY <2>2, <3>1, JobOf, RangeType
            <3> QED
                BY <2>1, <3>2 DEF ProofOf
        <2>4. CASE SchnorrRight(made, e)
            <3>1. made.job = "schnorr" /\ made.proof \in SchnorrProof
                BY <2>2, <2>4, JobOf, SchnorrType
            <3> QED
                BY <2>1, <3>1 DEF ProofOf
        <2>5. CASE SignatureRight(made, e)
            <3>1. made.job = "signature" /\ made.proof \in Scalars \X Scalars
                BY <2>2, <2>5, JobOf, SignatureType
            <3> QED
                BY <2>1, <3>1 DEF ProofOf
        <2> QED
            BY <2>1, <2>3, <2>4, <2>5
    <1>2. ASSUME judged # Nothing PROVE judged.verdict \in Verdicts
        BY <1>2 DEF IInv, JudgedRight, RangeSettled, JudgedAs, RangeJudged, SchnorrJudged,
                    SignatureJudged, Verdict, Verdicts
    <1> QED
        BY <1>1, <1>2 DEF IInv, TypeOK

\* The inductive invariant holds: Init gives it, and each action of making and of
\* judging keeps it.
THEOREM Invariant == Spec => []IInv
    <1>1. Init => IInv
        BY InitRight
    <1>2. IInv /\ [Next]_vars => IInv'
        <2> SUFFICES ASSUME IInv, [Next]_vars PROVE IInv'
            OBVIOUS
        <2>1. CASE Make
            <3>1. /\ MadeRight' /\ made = Nothing /\ UNCHANGED <<H, judged>>
                  /\ \A q \in DOMAIN oracle' : oracle'[q] \in Challenges
                BY <2>1, MakeRight, TypeFollows
            <3>2. judged = Nothing
                BY <3>1 DEF IInv, JudgedRight
            <3>3. JudgedRight'
                BY <3>1, <3>2 DEF JudgedRight
            <3> QED
                BY <3>1, <3>3 DEF IInv
        <2>2. CASE Judge
            BY <2>2, JudgeRight
        <2>3. CASE UNCHANGED vars
            <3>1. H' = H /\ oracle' = oracle /\ made' = made /\ judged' = judged
                BY <2>3 DEF vars
            <3>2. MadeRight' /\ JudgedRight'
                BY <3>1 DEF IInv, MadeRight, JudgedRight
            <3> QED
                BY <3>1, <3>2 DEF IInv
        <2> QED
            BY <2>1, <2>2, <2>3 DEF Next
    <1> QED
        BY <1>1, <1>2, PTL DEF Spec

\* Every proof and signature that is made has its type: points on the curve,
\* reduced scalars, a challenge that SHA-256 gave.
THEOREM TypeCorrect == Spec => []TypeOK
    <1>1. IInv => TypeOK
        BY TypeFollows
    <1> QED
        BY <1>1, Invariant, PTL

-----------------------------------------------------------------------------
(* Completeness, and the group law *)

\* Exactly when the proof of one bit of a half is accepted at e2.
BitOfHalf(h, bits, r, C, prfs, e, e2, i) ==
    \E s \in Scalars :
        /\ OrVerify(C[i], prfs[i], e2) <=> BitRelation(h, bits[i], r[i], s, e, e2)
        /\ bits[i] # 0 => prfs[i].e0 = s

\* Every bit of a half is such a one.
LEMMA HalfAccepted ==
    ASSUME NEW h \in 1..(N - 1), H = E(h), NEW n \in Nat, NEW bits, NEW r, NEW C, NEW prfs,
           NEW e \in Scalars, NEW e2 \in Scalars, HalfRight(h, n, bits, r, C, prfs, e),
           NEW i \in 1..n
    PROVE  BitOfHalf(h, bits, r, C, prfs, e, e2, i)
    <1>1. PICK nonces \in [1..n -> Triples] :
              prfs = [k \in 1..n |-> BitMade(h, bits[k], r[k], nonces[k], e)]
        BY DEF HalfRight
    <1> DEFINE b == bits[i]
               t == r[i]
               w == nonces[i][1]
               s == nonces[i][2]
               z == nonces[i][3]
    <1>2. b \in Int /\ t \in Int /\ h \in Int /\ e \in Int /\ e2 \in Int
        <2>1. bits[i] \in Scalars /\ r[i] \in Scalars
            BY DEF HalfRight
        <2>2. h \in Int
            OBVIOUS
        <2>3. bits[i] \in Int /\ r[i] \in Int /\ e \in Int /\ e2 \in Int
            BY <2>1, ScalarFacts
        <2> QED
            BY <2>2, <2>3
    <1>3. nonces[i] = <<w, s, z>> /\ s \in Scalars /\ w \in Int /\ z \in Int /\ s \in Int
        <2>1. nonces[i] \in Triples
            OBVIOUS
        <2>2. nonces[i] = <<w, s, z>> /\ s \in RandScalars /\ w \in RandScalars /\ z \in RandScalars
            BY <2>1 DEF Triples
        <2>3. RandScalars \subseteq Scalars
            BY NFacts DEF RandScalars, Scalars
        <2> QED
            BY <2>2, <2>3, ScalarFacts
    <1>4. C[i] = E(b + t * h) /\ prfs[i] = BitMade(h, b, t, nonces[i], e)
        BY <1>1 DEF HalfRight
    <1> HIDE DEF b, t, w, s, z
    <1>5. OrVerify(C[i], prfs[i], e2) <=> BitRelation(h, b, t, s, e, e2)
        <2>1. OrVerify(E(b + t * h), BitMade(h, b, t, <<w, s, z>>, e), e2)
                  <=> BitRelation(h, b, t, s, e, e2)
            BY <1>2, <1>3, BitAccepted
        <2> QED
            BY <1>3, <1>4, <2>1
    <1>6. b # 0 => prfs[i].e0 = s
        <2>1. BitMade(h, b, t, <<w, s, z>>, e).e0 = IF b = 0 THEN (e - s) % N ELSE s
            BY DEF BitMade
        <2> QED
            BY <1>3, <1>4, <2>1
    <1> QED
        BY <1>3, <1>5, <1>6 DEF BitOfHalf, b, t

\* What is judged as it was made has survived the wire.
LEMMA RangeAsMade ==
    ASSUME IInv, made # Nothing, made.job = "range", AsMade, NEW h \in 1..(N - 1), H = E(h),
           RangeRight(h, made, oracle[made.question])
    PROVE  /\ oracle[made.question] \in Scalars
           /\ Deserializes(judged.sent) /\ DeserializeProof(judged.sent) = made.proof
    <1>1. made.question \in DOMAIN oracle
        BY MadeRange DEF IInv
    <1>2. oracle[made.question] \in Scalars
        BY <1>1, RangeProofAssumption DEF IInv
    <1>3. made.proof \in RangeLeqProof
        BY <1>2, RangeType
    <1>4. judged.sent = SerializeProof(made.proof)
        BY DEF AsMade
    <1> QED
        BY <1>2, <1>3, <1>4, ProofRoundTrip

\* The bits of an honest prover are accepted at the challenge they were made at.
LEMMA HonestHalf ==
    ASSUME NEW h \in 1..(N - 1), H = E(h), NEW n \in Nat, NEW bits, NEW r, NEW C, NEW prfs,
           NEW e \in Scalars, HalfRight(h, n, bits, r, C, prfs, e), bits \in [1..n -> {0, 1}]
    PROVE  \A i \in 1..n : OrVerify(C[i], prfs[i], e)
    <1> SUFFICES ASSUME NEW i \in 1..n PROVE OrVerify(C[i], prfs[i], e)
        OBVIOUS
    <1>1. BitOfHalf(h, bits, r, C, prfs, e, e, i)
        BY HalfAccepted
    <1>2. PICK s \in Scalars : OrVerify(C[i], prfs[i], e) <=> BitRelation(h, bits[i], r[i], s, e, e)
        BY <1>1 DEF BitOfHalf
    <1> DEFINE b == bits[i]
               t == r[i]
    <1>3. b \in {0, 1} /\ t \in Int /\ e \in Int /\ s \in Int /\ h \in Int
        <2>1. t \in Scalars
            BY DEF HalfRight
        <2>2. h \in Int /\ b \in {0, 1}
            OBVIOUS
        <2>3. t \in Int /\ e \in Int /\ s \in Int
            BY <2>1, ScalarFacts
        <2> QED
            BY <2>2, <2>3
    <1> HIDE DEF b, t
    <1>4. e - e = 0 /\ (e - s) * 0 = 0 /\ (0 * t) * h = 0 /\ 1 - 1 = 0
        BY <1>3
    <1>5. Cong(N, 0, 0)
        BY NFacts, CongRefl
    <1>6. BitRelation(h, b, t, s, e, e)
        <2>1. CASE b = 0
            BY <1>4, <1>5, <2>1 DEF BitRelation
        <2>2. CASE b = 1
            BY <1>4, <1>5, <2>2 DEF BitRelation
        <2> QED
            BY <1>3, <2>1, <2>2
    <1> QED
        BY <1>2, <1>6 DEF b, t

\* The comparison of the sums, of what was made.
LEMMA RangeSums ==
    ASSUME NEW h \in 1..(N - 1), NEW m, NEW e \in Scalars, RangeRight(h, m, e), NEW cap \in Int
    PROVE  /\ Consistent(m.proof, cap) <=> Cong(N, Weigh(m.bitsv) + Weigh(m.bitsd), cap)
           /\ Aggregate(m.proof.Cv) = E(Weigh(m.bitsv) + Weigh(m.rv) * h)
           /\ Aggregate(m.proof.Cd) = E(Weigh(m.bitsd) + Weigh(m.rd) * h)
           /\ m.bitsv \in [1..m.proof.nbits -> Int] /\ m.rv \in [1..m.proof.nbits -> Int]
           /\ m.bitsd \in [1..m.proof.nbits -> Int] /\ m.rd \in [1..m.proof.nbits -> Int]
    <1> DEFINE proof == m.proof
               n == m.proof.nbits
               bv == m.bitsv
               bd == m.bitsd
               rv == m.rv
               rd == m.rd
    <1>1. n \in Nat /\ proof.Cv \in [1..n -> Points] /\ proof.Cd \in [1..n -> Points]
        BY RangeType
    <1>2. /\ bv \in [1..n -> Scalars] /\ rv \in [1..n -> Scalars]
          /\ bd \in [1..n -> Scalars] /\ rd \in [1..n -> Scalars]
          /\ proof.Cv = [i \in 1..n |-> E(bv[i] + rv[i] * h)]
          /\ proof.Cd = [i \in 1..n |-> E(bd[i] + rd[i] * h)]
          /\ Cong(N, Weigh(rv) + Weigh(rd), 0)
        BY DEF RangeRight, HalfRight
    <1> HIDE DEF proof, n, bv, bd, rv, rd
    <1>3. ASSUME NEW f \in [1..n -> Scalars] PROVE f \in [1..n -> Int]
        BY ScalarFacts
    <1>4. bv \in [1..n -> Int] /\ bd \in [1..n -> Int] /\ rv \in [1..n -> Int] /\ rd \in [1..n -> Int]
        BY <1>2, <1>3
    <1>5. h \in Int
        OBVIOUS
    <1>6. /\ \A i \in 1..n : proof.Cv[i] = E(bv[i] + rv[i] * h)
          /\ \A i \in 1..n : proof.Cd[i] = E(bd[i] + rd[i] * h)
        BY <1>2
    <1>7. Consistent(proof, cap) <=> Cong(N, Weigh(bv) + Weigh(bd), cap)
        <2>1. Halves(n, h, bv, rv, bd, rd, proof)
            BY <1>1, <1>2, <1>4, <1>6 DEF Halves
        <2> QED
            BY <1>1, <1>5, <2>1, ConsistentE
    <1>8. Aggregate(proof.Cv) = E(Weigh(bv) + Weigh(rv) * h)
        BY <1>1, <1>4, <1>5, <1>6, AggregateE
    <1>9. Aggregate(proof.Cd) = E(Weigh(bd) + Weigh(rd) * h)
        BY <1>1, <1>4, <1>5, <1>6, AggregateE
    <1> QED
        BY <1>4, <1>7, <1>8, <1>9 DEF proof, n, bv, bd, rv, rd

\* What was made can be absorbed, with every cap that is written.
LEMMA MadeAbsorbable ==
    ASSUME NEW h \in 1..(N - 1), NEW m, NEW e \in Scalars, RangeRight(h, m, e)
    PROVE  \A cap \in Writable : Absorbable(m.proof, cap)
    <1> DEFINE p == m.proof
               n == p.nbits
    <1>1. /\ p \in RangeLeqProof /\ n \in Nat /\ n \in Writable
          /\ Len(p.Cv) = n /\ Len(p.Pv) = n /\ Len(p.Cd) = n /\ Len(p.Pd) = n
        BY RangeType DEF RangeRight, WrittenWidths
    <1> HIDE DEF p, n
    <1>2. /\ p.Cv \in Seq(Points) /\ p.Pv \in Seq(BitOrProof)
          /\ p.Cd \in Seq(Points) /\ p.Pd \in Seq(BitOrProof)
        BY <1>1 DEF RangeLeqProof
    <1>3. ASSUME NEW pt \in Points PROVE Compress(pt)[2] \in Writable
        <2>1. CASE pt = IDENTITY
            BY <2>1, PFacts, TranscriptAssumption DEF Compress
        <2>2. CASE pt # IDENTITY
            <3>1. PICK x \in Field, y \in Field : pt = <<x, y>>
                BY <2>2, Finite
            <3>2. Compress(pt)[2] = x
                BY <2>2, <3>1 DEF Compress
            <3>3. x \in 0..P
                BY PFacts DEF Field
            <3> QED
                BY <3>2, <3>3, TranscriptAssumption
        <2> QED
            BY <2>1, <2>2
    <1>4. ASSUME NEW i \in 1..n
          PROVE  /\ p.Cv[i] \in Points /\ p.Cd[i] \in Points
                 /\ p.Pv[i] \in BitOrProof /\ p.Pd[i] \in BitOrProof
        BY <1>1, <1>2
    <1>5. ASSUME NEW i \in 1..n
          PROVE  /\ p.Pv[i].a0 \in Points /\ p.Pv[i].a1 \in Points
                 /\ p.Pd[i].a0 \in Points /\ p.Pd[i].a1 \in Points
        BY <1>4 DEF BitOrProof
    <1>6. n = p.nbits
        BY DEF n
    <1>7. ASSUME NEW cap \in Writable PROVE Absorbable(p, cap)
        <2>1. \A i \in 1..p.nbits :
                  \A pt \in {p.Cv[i], p.Cd[i], p.Pv[i].a0, p.Pv[i].a1,
                             p.Pd[i].a0, p.Pd[i].a1} : Compress(pt)[2] \in Writable
            BY <1>3, <1>4, <1>5, <1>6
        <2> QED
            BY <1>1, <1>6, <2>1 DEF Absorbable
    <1> QED
        BY <1>7 DEF p

\* prove_range_leq, then verify_range_leq.
LEMMA RangeComplete ==
    ASSUME IInv, made # Nothing, made.honest, AsMade, made.job = "range",
           Claim(made.job, judged) = Claim(made.job, made)
    PROVE  judged.verdict = "accepted"
    <1> DEFINE e == oracle[made.question]
               p == made.proof
               n == made.proof.nbits
    <1>1. PICK h \in 1..(N - 1) : H = E(h) /\ RangeRight(h, made, e)
        BY MadeRange DEF IInv
    <1>2. e \in Scalars /\ Deserializes(judged.sent) /\ DeserializeProof(judged.sent) = p
        BY <1>1, RangeAsMade
    <1>3. judged.context = made.context /\ judged.cap = made.cap
        BY DEF Claim
    <1>4. /\ made.honest => /\ made.bitsv \in [1..n -> {0, 1}]
                            /\ made.bitsd \in [1..n -> {0, 1}]
                            /\ made.cap < Pow2[n]
                            /\ Weigh(made.bitsv) + Weigh(made.bitsd) = made.cap
          /\ HalfRight(h, n, made.bitsv, made.rv, p.Cv, p.Pv, e)
          /\ HalfRight(h, n, made.bitsd, made.rd, p.Cd, p.Pd, e)
          /\ made.cap \in Nat /\ made.cap \in Writable
          /\ made.question = RangeQuestion(made.context, made.cap, n, p.Cv, p.Cd,
                                           Announced(p.Pv), Announced(p.Pd))
        BY <1>1 DEF RangeRight, WrittenCaps
    <1>5. n \in Nat /\ Len(p.Cv) = n /\ Len(p.Pv) = n /\ Len(p.Cd) = n /\ Len(p.Pd) = n
        BY <1>1, <1>2, RangeType
    <1>6. WellFormed(p, judged.cap) /\ Absorbable(p, judged.cap)
        BY <1>1, <1>2, <1>3, <1>4, <1>5, MadeAbsorbable DEF WellFormed
    <1>7. judged # Nothing
        BY DEF AsMade
    <1>8. ~RangeSettled(judged)
        BY <1>2, <1>6 DEF RangeSettled
    <1>9. RangeJudged(H, judged, oracle[judged.question])
        BY <1>7, <1>8 DEF IInv, JudgedRight, JudgedAs
    <1>10. judged.proof = p /\ judged.question = made.question
        BY <1>2, <1>3, <1>4, <1>9 DEF RangeJudged
    <1>11. judged.verdict = Verdict(VerifyRangeLeq(p, made.cap, e))
        BY <1>3, <1>9, <1>10, VerifiesIs DEF RangeJudged
    <1> HIDE DEF e
    <1>12. /\ \A i \in 1..n : OrVerify(p.Cv[i], p.Pv[i], e)
           /\ \A i \in 1..n : OrVerify(p.Cd[i], p.Pd[i], e)
        BY <1>1, <1>2, <1>4, <1>5, HonestHalf
    <1>13. Consistent(p, made.cap)
        <2>1. made.cap \in Int
            BY <1>4
        <2>2. Consistent(p, made.cap) <=> Cong(N, made.cap, made.cap)
            BY <1>1, <1>2, <1>4, <2>1, RangeSums
        <2> QED
            BY <2>1, <2>2, NFacts, CongRefl
    <1>14. VerifyRangeLeq(p, made.cap, e)
        BY <1>12, <1>13 DEF VerifyRangeLeq
    <1> QED
        BY <1>11, <1>14 DEF Verdict

\* schnorr_prove, then schnorr_verify.
LEMMA SchnorrComplete ==
    ASSUME IInv, made # Nothing, AsMade, SchnorrRight(made, oracle[made.question]),
           made.question \in DOMAIN oracle,
           Claim(made.job, judged) = Claim(made.job, made)
    PROVE  judged.verdict = "accepted"
    <1> DEFINE e == oracle[made.question]
    <1>1. made.job = "schnorr"
        BY JobOf
    <1>2. PICK domain : \E secret \in Scalars, base \in Points, w \in Scalars :
                            made = SchnorrMade(domain, secret, base, w, e)
        BY DEF SchnorrRight
    <1>3. PICK secret \in Scalars, base \in Points, w \in Scalars :
              made = SchnorrMade(domain, secret, base, w, e)
        BY <1>2
    <1>e. e \in Scalars
        BY RangeProofAssumption DEF IInv
    <1>4. judged # Nothing /\ judged.sent = made.proof
        BY <1>1 DEF AsMade
    <1>5. SchnorrJudged(judged, oracle[judged.question])
        BY <1>1, <1>4 DEF IInv, JudgedRight, JudgedAs
    <1> DEFINE public == Mul(secret, base)
               a == Mul(w, base)
               u == w + e * secret
               z == u % N
    <1>6. /\ made.domain = domain /\ made.base = base /\ made.public = public
          /\ made.question = SchnorrQuestion(domain, base, public, a)
          /\ made.proof = SchnorrProve(secret, base, w, e)
        BY <1>3 DEF SchnorrMade
    <1>7. judged.domain = domain /\ judged.base = base /\ judged.public = public
        BY <1>1, <1>6 DEF Claim
    <1>8. made.proof.commitment = a /\ made.proof.response = z
        BY <1>6 DEF SchnorrProve
    <1>9. judged.proof = made.proof /\ judged.question = made.question
        BY <1>4, <1>5, <1>6, <1>7, <1>8 DEF SchnorrJudged
    <1>10. judged.verdict = Verdict(SchnorrVerify(made.proof, base, public, e))
        BY <1>5, <1>7, <1>9 DEF SchnorrJudged
    <1>11. PICK b \in Scalars : base = E(b)
        BY EveryPoint
    <1> HIDE DEF e
    <1>12. w \in Int /\ b \in Int /\ secret \in Int /\ e \in Int
        BY <1>e, ScalarFacts
    <1> DEFINE sb == secret * b
               wb == w * b
               esb == e * sb
    <1>13. u \in Int /\ sb \in Int /\ wb \in Int /\ esb \in Int
        BY <1>12
    <1>14. public = E(sb) /\ a = E(wb)
        BY <1>11, <1>12, MulE
    <1>15. Mul(z, base) = E(u * b)
        <2> HIDE DEF u
        <2>1. z \in Int
            BY <1>13, ModN
        <2>2. E(z * b) = E(u * b)
            BY <1>12, <1>13, ReducedFactor
        <2> HIDE DEF z
        <2> QED
            BY <1>11, <1>12, <2>1, <2>2, MulE
    <1>16. u * b = wb + esb
        BY <1>12
    <1> HIDE DEF public, a, z, u, sb, wb
    <1>17. Mul(e, public) = E(esb)
        BY <1>12, <1>13, <1>14, MulE
    <1> HIDE DEF esb
    <1>18. Plus(a, Mul(e, public)) = E(wb + esb)
        BY <1>13, <1>14, <1>17, PlusE
    <1>19. SchnorrVerify(made.proof, base, public, e)
        BY <1>8, <1>15, <1>16, <1>18 DEF SchnorrVerify
    <1> QED
        BY <1>10, <1>19 DEF Verdict

\* sign, then sig_verify.
LEMMA SignatureComplete ==
    ASSUME IInv, made # Nothing, AsMade, SignatureRight(made, oracle[made.question]),
           made.question \in DOMAIN oracle,
           Claim(made.job, judged) = Claim(made.job, made)
    PROVE  judged.verdict = "accepted"
    <1> DEFINE e == oracle[made.question]
    <1>1. made.job = "signature"
        BY JobOf
    <1>2. PICK msg : \E secret \in Scalars, w \in Scalars :
                         made = SignatureMade(secret, msg, w, e)
        BY DEF SignatureRight
    <1>3. PICK secret \in Scalars, w \in Scalars : made = SignatureMade(secret, msg, w, e)
        BY <1>2
    <1>e. e \in Scalars
        BY RangeProofAssumption DEF IInv
    <1>4. judged # Nothing /\ judged.sent = made.proof
        BY <1>1 DEF AsMade
    <1>5. SignatureJudged(judged, oracle[judged.question])
        BY <1>1, <1>4 DEF IInv, JudgedRight, JudgedAs
    <1> DEFINE pub == Mul(secret, G)
               u == w + e * secret
               z == u % N
    <1>6. /\ made.pub = pub /\ made.msg = msg
          /\ made.question = SignatureQuestion(Mul(w, G), pub, msg)
          /\ made.proof = <<e, z>>
        BY <1>3 DEF SignatureMade, Sign
    <1>7. judged.pub = pub /\ judged.msg = msg
        BY <1>1, <1>6 DEF Claim
    <1> HIDE DEF e
    <1>8. w \in Int /\ secret \in Int /\ e \in Int /\ 1 \in Int
        BY <1>e, ScalarFacts
    <1>9. Mul(w, G) = E(w) /\ pub = E(secret)
        <2>1. w * 1 = w /\ secret * 1 = secret
            BY <1>8
        <2> QED
            BY <1>8, <2>1, EZero, MulE
    <1> DEFINE es == e * secret
    <1>10. u \in Int /\ es \in Int /\ u - es = w
        BY <1>8
    <1>11. Mul(z, G) = E(u)
        <2> HIDE DEF u
        <2>1. z \in Int /\ E(z) = E(u)
            BY <1>10, ModN, EOf
        <2> HIDE DEF z
        <2>2. Mul(z, E(1)) = E(z * 1) /\ z * 1 = z
            BY <1>8, <2>1, MulE
        <2> QED
            BY <2>1, <2>2, EZero
    <1> HIDE DEF z, u, pub
    <1>12. Mul(e, pub) = E(es)
        BY <1>8, <1>9, MulE
    <1> HIDE DEF es
    <1>13. Recovered(pub, <<e, z>>) = Mul(w, G)
        BY <1>9, <1>10, <1>11, <1>12, MinusE DEF Recovered
    <1>14. judged.question = made.question /\ judged.proof = <<e, z>>
        BY <1>4, <1>5, <1>6, <1>7, <1>13 DEF SignatureJudged
    <1>15. judged.verdict = Verdict(e = e)
        BY <1>5, <1>14 DEF SignatureJudged, e
    <1> QED
        BY <1>15 DEF Verdict

\* For every curve, width and choice of random scalars: what prove_range_leq,
\* schnorr_prove and sign make is accepted by verify_range_leq, schnorr_verify and
\* sig_verify after its way over the wire, judged for what it was made for.
THEOREM HonestComplete == Spec => []Complete
    <1>1. IInv => Complete
        <2> SUFFICES ASSUME IInv, made # Nothing, made.honest, AsMade,
                            Claim(made.job, judged) = Claim(made.job, made)
                     PROVE  judged.verdict = "accepted"
            BY DEF Complete
        <2>1. /\ made.question \in DOMAIN oracle
              /\ \/ \E h \in 1..(N - 1) : H = E(h) /\ RangeRight(h, made, oracle[made.question])
                 \/ SchnorrRight(made, oracle[made.question])
                 \/ SignatureRight(made, oracle[made.question])
            BY DEF IInv, MadeRight
        <2>2. CASE \E h \in 1..(N - 1) : H = E(h) /\ RangeRight(h, made, oracle[made.question])
            BY <2>2, JobOf, RangeComplete
        <2>3. CASE SchnorrRight(made, oracle[made.question])
            BY <2>1, <2>3, SchnorrComplete
        <2>4. CASE SignatureRight(made, oracle[made.question])
            BY <2>1, <2>4, SignatureComplete
        <2> QED
            BY <2>1, <2>2, <2>3, <2>4
    <1> QED
        BY <1>1, Invariant, PTL

\* What the group law gives for a commitment.
LEMMA OpeningE ==
    ASSUME NEW h \in Int, H = E(h), NEW v \in Int, NEW r \in Int
    PROVE  GroupSum(LawMultiples[v % N][G], LawMultiples[r % N][H]) = E(v + r * h)
    <1> DEFINE a == r % N
               rh == r * h
    <1>1. LawMultiples[v % N][G] = E(v)
        BY DEF E
    <1>2. a \in Scalars /\ a \in Int
        BY ModN
    <1>3. E(a * h) = E(rh) /\ rh \in Int
        BY ReducedFactor
    <1> HIDE DEF a, rh
    <1>4. LawMultiples[a][H] = E(a * h)
        BY <1>2, EMultiple
    <1>5. GroupSum(E(v), E(rh)) = E(v + rh)
        BY <1>3, EAdd
    <1> QED
        BY <1>1, <1>3, <1>4, <1>5 DEF a, rh

\* Commitments of this form open, and so does their sum.
LEMMA OpensE ==
    ASSUME NEW h \in Int, H = E(h), NEW n \in Nat, NEW points, NEW bits \in [1..n -> Int],
           NEW r \in [1..n -> Int], points = [i \in 1..n |-> E(bits[i] + r[i] * h)],
           Aggregate(points) = E(Weigh(bits) + Weigh(r) * h)
    PROVE  Opens(points, bits, r)
    <1> DEFINE Opening(v, t) == GroupSum(LawMultiples[v % N][G], LawMultiples[t % N][H])
    <1>1. ASSUME NEW i \in DOMAIN points PROVE points[i] = Opening(bits[i], r[i])
        <2>1. i \in 1..n
            OBVIOUS
        <2> DEFINE b == bits[i]
                   t == r[i]
        <2>2. b \in Int /\ t \in Int /\ points[i] = E(b + t * h)
            BY <2>1
        <2> HIDE DEF b, t
        <2>3. points[i] = Opening(b, t)
            BY <2>2, OpeningE
        <2> QED
            BY <2>3 DEF b, t
    <1>2. Weigh(bits) \in Int /\ Weigh(r) \in Int
        BY WeighType
    <1>3. Aggregate(points) = Opening(Weigh(bits), Weigh(r))
        BY <1>2, OpeningE
    <1> HIDE DEF Opening
    <1> QED
        BY <1>1, <1>3 DEF Opens, Opening

\* For every curve and width: the loops in Jacobian coordinates give commitments
\* that open as they were made, and so do their weighted sums.
THEOREM CommitmentsOpen == Spec => []GroupLaw
    <1>1. IInv => GroupLaw
        <2> SUFFICES ASSUME IInv, made # Nothing, made.job = "range"
                     PROVE  /\ Opens(made.proof.Cv, made.bitsv, made.rv)
                            /\ Opens(made.proof.Cd, made.bitsd, made.rd)
            BY DEF GroupLaw
        <2> DEFINE e == oracle[made.question]
                   n == made.proof.nbits
        <2>1. PICK h \in 1..(N - 1) : H = E(h) /\ RangeRight(h, made, e)
            BY MadeRange DEF IInv
        <2>2. e \in Scalars
            BY MadeRange, RangeProofAssumption DEF IInv
        <2> HIDE DEF e
        <2>3. n \in Nat /\ h \in Int /\ 0 \in Int
            BY <2>1, <2>2, RangeType
        <2>4. /\ made.proof.Cv = [i \in 1..n |-> E(made.bitsv[i] + made.rv[i] * h)]
              /\ made.proof.Cd = [i \in 1..n |-> E(made.bitsd[i] + made.rd[i] * h)]
            BY <2>1 DEF RangeRight, HalfRight
        <2>5. /\ Aggregate(made.proof.Cv) = E(Weigh(made.bitsv) + Weigh(made.rv) * h)
              /\ Aggregate(made.proof.Cd) = E(Weigh(made.bitsd) + Weigh(made.rd) * h)
              /\ made.bitsv \in [1..n -> Int] /\ made.rv \in [1..n -> Int]
              /\ made.bitsd \in [1..n -> Int] /\ made.rd \in [1..n -> Int]
            BY <2>1, <2>2, <2>3, RangeSums
        <2> HIDE DEF n
        <2> QED
            BY <2>1, <2>3, <2>4, <2>5, OpensE
    <1> QED
        BY <1>1, Invariant, PTL

-----------------------------------------------------------------------------
(* One challenge, and soundness *)

\* Two scalars that are congruent are equal.
LEMMA ScalarsOnce ==
    ASSUME NEW a \in Scalars, NEW b \in Scalars, Cong(N, a - b, 0)
    PROVE  a = b
    <1>1. a \in Int /\ b \in Int /\ a - b \in Int
        BY ScalarFacts
    <1>2. PICK k \in Int : a - b = 0 + k * N
        BY DEF Cong
    <1>3. a = b + k * N
        BY <1>1, <1>2, NFacts
    <1>4. Cong(N, a, b)
        BY <1>1, <1>2, <1>3, CongBy
    <1> QED
        BY <1>4, NFacts, CongSmall DEF Scalars

\* A bit accepted at another challenge than the one it was made at gives away
\* the logarithm, unless its blinding is zero.
LEMMA LogGiven ==
    ASSUME NEW h \in 1..(N - 1), H = E(h), NEW bit \in Int, NEW r \in RandScalars,
           NEW s \in Scalars, NEW e \in Scalars, NEW e2 \in Scalars, e # e2,
           BitRelation(h, bit, r, s, e, e2), NEW prf, bit # 0 => prf.e0 = s
    PROVE  GivesLog(bit, r, prf, e, e2)
    <1> DEFINE d == e - e2
               a == d * r
               b == IF bit = 0 THEN d ELSE (e2 - s) * (bit - 1)
    <1>1. /\ h \in Int /\ r \in Int /\ e \in Int /\ e2 \in Int /\ s \in Int
          /\ r \in Scalars /\ r # 0 /\ 0 \in Scalars /\ N \in Int
        <2>1. h \in Int /\ r # 0
            BY DEF RandScalars
        <2>2. r \in Scalars /\ 0 \in Scalars
            BY NFacts DEF RandScalars, Scalars
        <2> QED
            BY <2>1, <2>2, ScalarFacts, NFacts
    <1>2. d \in Int /\ a \in Int /\ b \in Int
        BY <1>1
    <1>3. ~Cong(N, d, 0)
        BY ScalarsOnce
    <1>4. ~Cong(N, r, 0)
        <2>1. r - 0 = r
            BY <1>1
        <2> QED
            BY <1>1, <2>1, ScalarsOnce
    <1>5. ~Cong(N, a, 0)
        <2> HIDE DEF d
        <2> QED
            BY <1>1, <1>2, <1>3, <1>4, PrimeDivides, NFacts
    <1>6. Cong(N, a * h, b)
        BY DEF BitRelation
    <1>7. b = IF bit = 0 THEN e - e2 ELSE (e2 - prf.e0) * (bit - 1)
        OBVIOUS
    <1> HIDE DEF b
    <1>8. a = (e - e2) * r
        OBVIOUS
    <1> HIDE DEF a, d
    <1>9. a % N # 0
        <2>1. Cong(N, a % N, a) /\ a % N \in Int
            BY <1>2, ModN
        <2>2. a % N = 0 => Cong(N, a, 0)
            BY <1>2, <2>1, NFacts, CongSym
        <2> QED
            BY <1>5, <2>2
    <1>10. Mul(a, H) = E(a * h) /\ Mul(b, G) = E(b) /\ a * h \in Int
        <2>1. b * 1 = b /\ 1 \in Int /\ a * h \in Int
            BY <1>1, <1>2
        <2> QED
            BY <1>1, <1>2, <2>1, MulE, EZero
    <1>11. E(a * h) = E(b)
        BY <1>2, <1>6, <1>10, EOf
    <1> QED
        BY <1>7, <1>8, <1>9, <1>10, <1>11 DEF GivesLog

\* A digit that is no bit is accepted, at the challenge the proof was made at,
\* only if that is the one its simulation had chosen.
LEMMA ChosenHit ==
    ASSUME NEW h \in Int, NEW bit \in Scalars, bit \notin {0, 1}, NEW r \in Int,
           NEW s \in Scalars, NEW e \in Scalars, BitRelation(h, bit, r, s, e, e)
    PROVE  s = e
    <1> DEFINE d == e - s
               f == bit - 1
    <1>1. bit \in Int /\ s \in Int /\ e \in Int /\ 1 \in Scalars
        BY ScalarFacts, NFacts DEF Scalars
    <1>2. e - e = 0 /\ (0 * r) * h = 0
        BY <1>1
    <1>3. Cong(N, 0, d * f)
        BY <1>2 DEF BitRelation
    <1>4. d \in Int /\ f \in Int /\ d * f \in Int
        BY <1>1
    <1>5. ~Cong(N, f, 0)
        BY <1>1, ScalarsOnce
    <1>6. ~Cong(N, d, 0) \/ e = s
        BY ScalarsOnce
    <1> HIDE DEF d, f
    <1>7. Cong(N, d * f, 0)
        BY <1>3, <1>4, NFacts, CongSym
    <1>8. Cong(N, d, 0) \/ Cong(N, f, 0)
        BY <1>4, <1>7, PrimeDivides, NFacts
    <1> QED
        BY <1>5, <1>6, <1>8

\* What an accepted proof has gone through.
LEMMA AcceptedFacts ==
    ASSUME IInv, made # Nothing, made.job = "range", AsMade, judged.verdict = "accepted",
           NEW h \in 1..(N - 1), H = E(h), RangeRight(h, made, oracle[made.question])
    PROVE  /\ oracle[judged.question] \in Scalars /\ oracle[made.question] \in Scalars
           /\ judged.cap \in Nat /\ WellFormed(made.proof, judged.cap)
           /\ VerifyRangeLeq(made.proof, judged.cap, oracle[judged.question])
    <1>1. judged # Nothing
        BY DEF AsMade
    <1>2. /\ judged.question \in DOMAIN oracle
          /\ RangeJudged(H, judged, oracle[judged.question])
        BY <1>1 DEF IInv, JudgedRight, JudgedAs, RangeSettled
    <1>3. oracle[made.question] \in Scalars /\ DeserializeProof(judged.sent) = made.proof
        BY RangeAsMade
    <1>4. oracle[judged.question] \in Scalars
        BY <1>2, RangeProofAssumption DEF IInv
    <1>5. Verifies(H, made.proof, judged.cap, oracle[judged.question])
        BY <1>2, <1>3 DEF RangeJudged, Verdict
    <1>6. judged.cap \in Nat /\ WellFormed(made.proof, judged.cap)
        BY <1>2, <1>3 DEF RangeJudged
    <1> QED
        BY <1>3, <1>4, <1>5, <1>6, VerifiesIs

\* Both challenges are the same, or the first bit gives away the logarithm.
LEMMA OneChallengeFollows ==
    ASSUME IInv, made # Nothing, made.job = "range", AsMade, judged.verdict = "accepted",
           NEW h \in 1..(N - 1), H = E(h), RangeRight(h, made, oracle[made.question]),
           oracle[judged.question] # oracle[made.question]
    PROVE  LogKnown
    <1> DEFINE e == oracle[made.question]
               e2 == oracle[judged.question]
               p == made.proof
               n == made.proof.nbits
               bits == made.bitsv
               r == made.rv
    <1>1. /\ e \in Scalars /\ e2 \in Scalars /\ VerifyRangeLeq(p, judged.cap, e2)
        BY AcceptedFacts
    <1>2. n \in Nat \ {0} /\ n \in Nat /\ 1 \in 1..n
        BY <1>1, RangeType
    <1>3. /\ HalfRight(h, n, bits, r, p.Cv, p.Pv, e)
          /\ \A i \in 1..n : r[i] \in RandScalars
        BY DEF RangeRight
    <1>4. bits \in [1..n -> Scalars]
        BY <1>3 DEF HalfRight
    <1>5. OrVerify(p.Cv[1], p.Pv[1], e2)
        BY <1>1, <1>2 DEF VerifyRangeLeq
    <1>6. e # e2
        OBVIOUS
    <1> HIDE DEF e, e2, n, p, bits, r
    <1>7. BitOfHalf(h, bits, r, p.Cv, p.Pv, e, e2, 1)
        BY <1>1, <1>2, <1>3, HalfAccepted
    <1>8. PICK s \in Scalars : /\ BitRelation(h, bits[1], r[1], s, e, e2)
                               /\ bits[1] # 0 => p.Pv[1].e0 = s
        BY <1>5, <1>7 DEF BitOfHalf
    <1>9. bits[1] \in Int /\ r[1] \in RandScalars
        BY <1>2, <1>3, <1>4, ScalarFacts
    <1>10. GivesLog(bits[1], r[1], p.Pv[1], e, e2)
        BY <1>1, <1>6, <1>8, <1>9, LogGiven
    <1>11. 1 \in DOMAIN bits
        BY <1>2, <1>4
    <1> QED
        BY <1>10, <1>11 DEF LogKnown, e, e2, p, bits, r

\* For every curve and width: a range proof is accepted by verify_range_leq at the
\* challenge it was made at and at no other, unless its numbers give away the
\* logarithm of H.
THEOREM ChallengeFixed == Spec => []OneChallenge
    <1>1. IInv => OneChallenge
        <2> SUFFICES ASSUME IInv, made # Nothing, made.job = "range", AsMade,
                            judged.verdict = "accepted",
                            oracle[judged.question] # oracle[made.question]
                     PROVE  LogKnown
            BY DEF OneChallenge
        <2>1. PICK h \in 1..(N - 1) : H = E(h) /\ RangeRight(h, made, oracle[made.question])
            BY MadeRange DEF IInv
        <2> QED
            BY <2>1, OneChallengeFollows
    <1> QED
        BY <1>1, Invariant, PTL

\* The challenges chosen in one half, when its bits are accepted at the
\* challenge they were made at.
LEMMA ChosenOfHalf ==
    ASSUME NEW h \in 1..(N - 1), H = E(h), NEW n \in Nat, NEW bits, NEW r, NEW C, NEW prfs,
           NEW e \in Scalars, HalfRight(h, n, bits, r, C, prfs, e),
           \A i \in 1..n : OrVerify(C[i], prfs[i], e)
    PROVE  Chosen(bits, prfs) \subseteq {e}
    <1>1. bits \in [1..n -> Scalars] /\ r \in [1..n -> Scalars]
        BY DEF HalfRight
    <1>2. ASSUME NEW i \in 1..n, bits[i] \notin {0, 1} PROVE prfs[i].e0 = e
        <2>1. BitOfHalf(h, bits, r, C, prfs, e, e, i)
            BY HalfAccepted
        <2>2. PICK s \in Scalars : /\ BitRelation(h, bits[i], r[i], s, e, e)
                                   /\ bits[i] # 0 => prfs[i].e0 = s
            BY <2>1 DEF BitOfHalf
        <2>3. bits[i] \in Scalars /\ r[i] \in Int /\ h \in Int
            <3>1. bits[i] \in Scalars /\ r[i] \in Scalars /\ h \in Int
                BY <1>1
            <3> QED
                BY <3>1, ScalarFacts
        <2>4. s = e
            BY <1>2, <2>2, <2>3, ChosenHit
        <2> QED
            BY <1>2, <2>2, <2>4
    <1> QED
        BY <1>1, <1>2 DEF Chosen

\* Where nothing was chosen there are only bits.
LEMMA NoneChosen ==
    ASSUME NEW n \in Nat, NEW bits \in [1..n -> Scalars], NEW prfs, Chosen(bits, prfs) = {}
    PROVE  bits \in [1..n -> {0, 1}]
    <1>1. ASSUME NEW i \in 1..n, bits[i] \notin {0, 1} PROVE FALSE
        <2>1. prfs[i].e0 \in Chosen(bits, prfs)
            BY <1>1 DEF Chosen
        <2> QED
            BY <2>1
    <1> QED
        BY <1>1

\* Sums of bits that agree with the cap modulo N agree with it.
LEMMA NoWrap ==
    ASSUME NEW p \in Nat, NEW a \in 0..(p - 1), NEW b \in 0..(p - 1), NEW cap \in 0..(p - 1),
           2 * p <= N, Cong(N, a + b, cap)
    PROVE  a <= cap
    <1>1. a + b \in 0..(N - 1) /\ cap \in 0..(N - 1)
        BY NFacts
    <1>2. a + b = cap
        BY <1>1, NFacts, CongSmall
    <1> QED
        BY <1>2

\* Sums that agree with the cap modulo N differ from it by a multiple of N.
LEMMA SumsAgree ==
    ASSUME NEW a \in Int, NEW b \in Int, NEW cap \in Int, Cong(N, a + b, cap)
    PROVE  (a + b - cap) % N = 0
    <1> DEFINE t == a + b - cap
    <1>1. PICK k \in Int : a + b = cap + k * N
        BY DEF Cong
    <1>2. t \in Int /\ t = 0 + k * N
        BY <1>1, NFacts
    <1> HIDE DEF t
    <1>3. Cong(N, t, 0)
        BY <1>2 DEF Cong
    <1>4. t % N = 0 % N /\ 0 % N = 0
        BY <1>2, <1>3, CongN, NFacts
    <1> QED
        BY <1>4 DEF t

\* For every curve and every width a proof names, and whatever numbers a prover
\* puts in the place of bits: when verify_range_leq accepts, the sums committed to
\* make the cap modulo N, and the value is at most the cap where 2^(nbits+1) is at
\* most N; or the challenge is the one its simulation had chosen, or the logarithm
\* of H is known.
THEOREM AcceptedSound == Spec => []AcceptedIsTrue
    <1>1. IInv => AcceptedIsTrue
        <2> DEFINE e == oracle[made.question]
                   e2 == oracle[judged.question]
                   p == made.proof
                   n == made.proof.nbits
                   bv == made.bitsv
                   bd == made.bitsd
                   chosen == Chosen(bv, p.Pv) \cup Chosen(bd, p.Pd)
        <2> SUFFICES ASSUME IInv, made # Nothing, made.job = "range", AsMade,
                            judged.verdict = "accepted"
                     PROVE  IF chosen = {}
                            THEN /\ (Weigh(bv) + Weigh(bd) - judged.cap) % N = 0
                                 /\ Pow2[n + 1] <= N => Weigh(bv) <= judged.cap
                            ELSE chosen = {e2} \/ LogKnown
            BY DEF AcceptedIsTrue
        <2>1. PICK h \in 1..(N - 1) : H = E(h) /\ RangeRight(h, made, e)
            BY MadeRange DEF IInv
        <2>2. /\ e \in Scalars /\ e2 \in Scalars /\ judged.cap \in Nat
              /\ WellFormed(p, judged.cap) /\ VerifyRangeLeq(p, judged.cap, e2)
            BY <2>1, AcceptedFacts
        <2>3. /\ HalfRight(h, n, bv, made.rv, p.Cv, p.Pv, e)
              /\ HalfRight(h, n, bd, made.rd, p.Cd, p.Pd, e)
              /\ n \in WrittenWidths
            BY <2>1 DEF RangeRight
        <2>4. n \in Nat
            BY <2>3 DEF WrittenWidths
        <2>5. bv \in [1..n -> Scalars] /\ bd \in [1..n -> Scalars]
            BY <2>3 DEF HalfRight
        <2>6. CASE chosen = {}
            <3>1. bv \in [1..n -> {0, 1}] /\ bd \in [1..n -> {0, 1}]
                <4>1. Chosen(bv, p.Pv) = {} /\ Chosen(bd, p.Pd) = {}
                    BY <2>6
                <4> HIDE DEF bv, bd, n, p
                <4>2. bv \in [1..n -> {0, 1}]
                    BY <2>4, <2>5, <4>1, NoneChosen
                <4>3. bd \in [1..n -> {0, 1}]
                    BY <2>4, <2>5, <4>1, NoneChosen
                <4> QED
                    BY <4>2, <4>3
            <3>2. Weigh(bv) \in 0..(Pow2[n] - 1) /\ Weigh(bd) \in 0..(Pow2[n] - 1)
                BY <2>4, <3>1, WeighBound
            <3>3. judged.cap \in 0..(Pow2[n] - 1) /\ judged.cap \in Int
                <4>1. judged.cap < Pow2[n]
                    BY <2>2 DEF WellFormed
                <4> QED
                    BY <2>2, <2>4, <4>1, Pow2Facts
            <3>4. Consistent(p, judged.cap)
                BY <2>2 DEF VerifyRangeLeq
            <3>5. Cong(N, Weigh(bv) + Weigh(bd), judged.cap)
                BY <2>1, <2>2, <3>3, <3>4, RangeSums
            <3>6. Pow2[n] \in Nat /\ Pow2[n + 1] = 2 * Pow2[n]
                BY <2>4, Pow2Facts
            <3>7. Pow2[n + 1] <= N => Weigh(bv) <= judged.cap
                BY <3>2, <3>3, <3>5, <3>6, NoWrap
            <3>8. Weigh(bv) \in Int /\ Weigh(bd) \in Int
                BY <3>2, <3>6
            <3>9. (Weigh(bv) + Weigh(bd) - judged.cap) % N = 0
                BY <3>3, <3>5, <3>8, SumsAgree
            <3> QED
                BY <2>6, <3>7, <3>9
        <2>7. CASE chosen # {} /\ e = e2
            <3>1. /\ \A i \in 1..n : OrVerify(p.Cv[i], p.Pv[i], e)
                  /\ \A i \in 1..n : OrVerify(p.Cd[i], p.Pd[i], e)
                BY <2>2, <2>7 DEF VerifyRangeLeq
            <3>2. Chosen(bv, p.Pv) \subseteq {e} /\ Chosen(bd, p.Pd) \subseteq {e}
                BY <2>1, <2>2, <2>3, <2>4, <3>1, ChosenOfHalf
            <3>3. chosen = {e2}
                BY <2>7, <3>2
            <3> QED
                BY <2>7, <3>3
        <2>8. CASE chosen # {} /\ e # e2
            BY <2>1, <2>8, OneChallengeFollows
        <2> QED
            BY <2>6, <2>7, <2>8
    <1> QED
        BY <1>1, Invariant, PTL

-----------------------------------------------------------------------------
(* Hiding: the numbers of the other bit *)

\* A blinding for any number: H being no multiple of zero.
LEMMA BlindingFor ==
    ASSUME NEW h \in 1..(N - 1), NEW x \in Int
    PROVE  \E r \in Scalars : Cong(N, r * h, x)
    <1>1. h \in Int /\ h % N # 0
        <2>1. h \in Scalars /\ h # 0
            BY DEF Scalars
        <2> QED
            BY <2>1, ScalarFacts
    <1>2. PICK i \in 0..(N - 1) : (h * i) % N = 1
        BY <1>1, NFacts, InverseExists
    <1> DEFINE k == h * i
               r == (i * x) % N
    <1>3. i \in Int /\ k \in Int /\ i * x \in Int /\ N \in Int
        BY <1>1, NFacts
    <1>4. Cong(N, 1, k)
        <2> HIDE DEF k
        <2>1. Cong(N, k % N, k)
            BY <1>3, ModN
        <2> QED
            BY <1>2, <2>1 DEF k
    <1>5. PICK m \in Int : 1 = k + m * N
        BY <1>4 DEF Cong
    <1>6. r \in Scalars /\ Cong(N, r, i * x) /\ r \in Int
        <2> DEFINE y == i * x
        <2>1. y \in Int
            BY <1>3
        <2> HIDE DEF y
        <2>2. y % N \in Scalars /\ Cong(N, y % N, y) /\ y % N \in Int
            BY <2>1, ModN
        <2> QED
            BY <2>2 DEF y
    <1> HIDE DEF r
    <1>7. PICK j \in Int : r = i * x + j * N
        BY <1>6 DEF Cong
    <1> DEFINE f == j * h - m * x
    <1>8. r * h = x + f * N /\ f \in Int
        <2>1. r * h = (i * x + j * N) * h
            BY <1>7
        <2>2. h * i = 1 - m * N
            BY <1>3, <1>5
        <2>3. (i * x + j * N) * h = (h * i) * x + (j * h) * N
            BY <1>1, <1>3
        <2>4. (h * i) * x = (1 - m * N) * x
            BY <2>2
        <2>5. (1 - m * N) * x + (j * h) * N = x + (j * h - m * x) * N
            BY <1>1, <1>3
        <2>6. f \in Int
            BY <1>1
        <2> QED
            BY <2>1, <2>3, <2>4, <2>5, <2>6
    <1> HIDE DEF f, k
    <1>9. r * h \in Int
        BY <1>1, <1>6
    <1>10. Cong(N, r * h, x)
        BY <1>8, <1>9, CongBy
    <1> QED
        BY <1>6, <1>10

\* The numbers of the proof of a bit made at e with blinding r, and those of the
\* other bit's with blinding t and nonce v.
Swapped(h, bit, r, t, w, s, z, v, e, own, ans) ==
    /\ {h, r, t, w, v, own, ans, e} \subseteq Int
    /\ bit \in {0, 1} /\ s \in Scalars /\ z \in Scalars
    /\ Cong(N, t * h, bit + r * h - (1 - bit))
    /\ own = (e - s) % N
    /\ ans = (w + own * r) % N
    /\ v = (z - s * t) % N

\* A number made up of congruent ones.
LEMMA ModUnique ==
    ASSUME NEW a \in Int, NEW b \in Scalars, Cong(N, a, b)
    PROVE  a % N = b
    <1>1. a % N \in Scalars /\ a % N \in Int /\ Cong(N, a % N, a) /\ b \in Int
        BY ModN, ScalarFacts
    <1>2. Cong(N, a % N, b)
        BY <1>1, NFacts, CongTrans
    <1> QED
        BY <1>1, <1>2, NFacts, CongSmall DEF Scalars

\* The challenge of the other branch and its answer come out the same.
LEMMA SwappedNumbers ==
    ASSUME NEW h, NEW bit, NEW r, NEW t, NEW w, NEW s, NEW z, NEW v, NEW e, NEW own, NEW ans,
           Swapped(h, bit, r, t, w, s, z, v, e, own, ans)
    PROVE  /\ (e - own) % N = s
           /\ (v + s * t) % N = z
    <1>1. /\ h \in Int /\ r \in Int /\ t \in Int /\ w \in Int /\ v \in Int
          /\ own \in Int /\ ans \in Int /\ e \in Int
          /\ s \in Scalars /\ z \in Scalars /\ s \in Int /\ z \in Int /\ N \in Int
        BY ScalarFacts, NFacts DEF Swapped
    <1>2. PICK j \in Int : own = (e - s) + j * N
        <2> DEFINE d == e - s
        <2>1. d \in Int
            BY <1>1
        <2> HIDE DEF d
        <2>2. Cong(N, d % N, d)
            BY <2>1, ModN
        <2>3. own = d % N
            BY DEF d, Swapped
        <2>4. PICK j \in Int : own = d + j * N
            BY <2>2, <2>3 DEF Cong
        <2> QED
            BY <2>4 DEF d
    <1> DEFINE st == s * t
    <1>s. st \in Int
        BY <1>1
    <1>3. PICK k \in Int : v = (z - st) + k * N
        <2> DEFINE d == z - st
        <2>1. d \in Int
            BY <1>1, <1>s
        <2>3. v = d % N
            BY DEF Swapped
        <2> HIDE DEF d
        <2>2. Cong(N, d % N, d)
            BY <2>1, ModN
        <2>4. PICK k \in Int : v = d + k * N
            BY <2>2, <2>3 DEF Cong
        <2> QED
            BY <2>4 DEF d
    <1> HIDE DEF st
    <1> DEFINE a == e - own
               b == v + st
    <1>4. a \in Int /\ b \in Int /\ -j \in Int
        BY <1>1, <1>s
    <1>5. a = s + (-j) * N /\ b = z + k * N
        BY <1>1, <1>2, <1>3, <1>s
    <1> HIDE DEF a, b
    <1>6. Cong(N, a, s) /\ Cong(N, b, z)
        BY <1>1, <1>4, <1>5, CongBy
    <1>7. a % N = s /\ b % N = z
        BY <1>1, <1>4, <1>6, ModUnique
    <1> QED
        BY <1>7 DEF a, b, st

-----------------------------------------------------------------------------
(* Hiding: its proof is the same *)

\* The announcements come out the same.
LEMMA SwappedAnnouncements ==
    ASSUME NEW h, NEW bit, NEW r, NEW t, NEW w, NEW s, NEW z, NEW v, NEW e, NEW own, NEW ans,
           Swapped(h, bit, r, t, w, s, z, v, e, own, ans),
           NEW x, x = bit + r * h - (1 - bit), NEW y, y = IF bit = 0 THEN 1 + t * h ELSE t * h - 1
    PROVE  /\ E(v * h) = E(z * h - s * x)
           /\ E(w * h) = E(ans * h - own * y)
    <1>1. /\ h \in Int /\ r \in Int /\ t \in Int /\ w \in Int /\ v \in Int
          /\ own \in Int /\ ans \in Int /\ s \in Int /\ z \in Int /\ N \in Int
          /\ bit \in {0, 1} /\ bit \in Int
        BY ScalarFacts, NFacts DEF Swapped
    <1> DEFINE rh == r * h
               th == t * h
    <1>2. PICK k \in Int : th = x + k * N
        BY DEF Swapped, Cong
    <1>3. rh \in Int /\ th \in Int /\ x \in Int /\ y \in Int
        BY <1>1
    <1>4. y = rh + k * N
        <2>1. CASE bit = 0
            <3>1. x = rh - 1 /\ y = 1 + th
                BY <1>1, <1>3, <2>1
            <3> QED
                BY <1>1, <1>2, <1>3, <3>1
        <2>2. CASE bit = 1
            <3>1. x = 1 + rh /\ y = th - 1
                BY <1>1, <1>3, <2>2
            <3> QED
                BY <1>1, <1>2, <1>3, <3>1
        <2> QED
            BY <1>1, <2>1, <2>2
    <1> DEFINE st == s * t
    <1>5. PICK m \in Int : v = (z - st) + m * N
        <2> DEFINE d == z - st
        <2>1. d \in Int
            BY <1>1
        <2>2. v = d % N
            BY DEF Swapped
        <2> HIDE DEF d
        <2>3. Cong(N, d % N, d)
            BY <2>1, ModN
        <2>4. PICK m \in Int : v = d + m * N
            BY <2>2, <2>3 DEF Cong
        <2> QED
            BY <2>4 DEF d
    <1>6. PICK j \in Int : ans = (w + own * r) + j * N
        <2> DEFINE d == w + own * r
        <2>1. d \in Int
            BY <1>1
        <2>2. ans = d % N
            BY DEF Swapped
        <2> HIDE DEF d
        <2>3. Cong(N, d % N, d)
            BY <2>1, ModN
        <2>4. PICK j \in Int : ans = d + j * N
            BY <2>2, <2>3 DEF Cong
        <2> QED
            BY <2>4 DEF d
    <1>7. E(v * h) = E(z * h - s * x)
        <2> DEFINE f == m * h - s * k
                   a == v * h
                   b == z * h - s * x
        <2>1. f \in Int /\ a \in Int /\ b \in Int
            <3> HIDE DEF th, rh
            <3> QED
                BY <1>1, <1>3
        <2>2. a = ((z - s * t) + m * N) * h
            BY <1>5
        <2>3. ((z - s * t) + m * N) * h = z * h - s * (t * h) + (m * h) * N
            BY <1>1
        <2>4. s * (t * h) = s * (x + k * N)
            BY <1>2
        <2>5. z * h - s * (x + k * N) + (m * h) * N = (z * h - s * x) + (m * h - s * k) * N
            <3> HIDE DEF th, rh
            <3> QED
                BY <1>1, <1>3
        <2>6. a = b + f * N
            BY <2>2, <2>3, <2>4, <2>5
        <2> HIDE DEF a, b, f
        <2>7. E(a) = E(b)
            BY <2>1, <2>6, CongBy, EOf
        <2> QED
            BY <2>7 DEF a, b
    <1>8. E(w * h) = E(ans * h - own * y)
        <2> DEFINE f == own * k - j * h
                   a == w * h
                   b == ans * h - own * y
        <2>1. f \in Int /\ a \in Int /\ b \in Int
            <3> HIDE DEF th, rh
            <3> QED
                BY <1>1, <1>3
        <2>2. b = ((w + own * r) + j * N) * h - own * (r * h + k * N)
            BY <1>4, <1>6
        <2>3. ((w + own * r) + j * N) * h - own * (r * h + k * N) = w * h - (own * k - j * h) * N
            BY <1>1
        <2>4. b = a - f * N
            BY <2>2, <2>3
        <2> HIDE DEF a, b, f
        <2>5. a = b + f * N
            <3> DEFINE g == f * N
            <3>1. g \in Int
                BY <1>1, <2>1
            <3>2. b = a - g
                BY <2>4
            <3> HIDE DEF g
            <3>3. a = b + g
                BY <2>1, <3>1, <3>2
            <3> QED
                BY <3>3 DEF g
        <2>6. E(a) = E(b)
            BY <2>1, <2>5, CongBy, EOf
        <2> QED
            BY <2>6 DEF a, b
    <1> QED
        BY <1>7, <1>8

\* So the proof of the other bit is the same.
LEMMA SwappedProof ==
    ASSUME NEW h, NEW bit, NEW r, NEW t, NEW w, NEW s, NEW z, NEW v, NEW e, NEW own, NEW ans,
           Swapped(h, bit, r, t, w, s, z, v, e, own, ans)
    PROVE  BitMade(h, 1 - bit, t, <<v, own, ans>>, e) = BitMade(h, bit, r, <<w, s, z>>, e)
    <1> DEFINE x == bit + r * h - (1 - bit)
               y == IF bit = 0 THEN 1 + t * h ELSE t * h - 1
               own2 == (e - own) % N
               answer2 == (v + own2 * t) % N
    <1>1. E(v * h) = E(z * h - s * x) /\ E(w * h) = E(ans * h - own * y)
        BY SwappedAnnouncements
    <1>2. own2 = s /\ answer2 = z
        <2>1. (e - own) % N = s /\ (v + s * t) % N = z
            BY SwappedNumbers
        <2> QED
            BY <2>1
    <1>3. /\ h \in Int /\ r \in Int /\ t \in Int /\ bit \in {0, 1}
          /\ own = (e - s) % N /\ ans = (w + own * r) % N
        BY DEF Swapped
    <1> DEFINE rh == r * h
               th == t * h
    <1>4. rh \in Int /\ th \in Int
        BY <1>3
    <1>5. BitMade(h, 1 - bit, t, <<v, own, ans>>, e) =
              [a0 |-> IF 1 - bit = 0 THEN E(v * h) ELSE E(ans * h - own * (1 - bit + th)),
               a1 |-> IF 1 - bit = 0 THEN E(ans * h - own * (1 - bit + th - 1)) ELSE E(v * h),
               e0 |-> IF 1 - bit = 0 THEN own2 ELSE own,
               z0 |-> IF 1 - bit = 0 THEN answer2 ELSE ans,
               z1 |-> IF 1 - bit = 0 THEN ans ELSE answer2]
        BY DEF BitMade
    <1>6. BitMade(h, bit, r, <<w, s, z>>, e) =
              [a0 |-> IF bit = 0 THEN E(w * h) ELSE E(z * h - s * (bit + rh)),
               a1 |-> IF bit = 0 THEN E(z * h - s * (bit + rh - 1)) ELSE E(w * h),
               e0 |-> IF bit = 0 THEN own ELSE s,
               z0 |-> IF bit = 0 THEN ans ELSE z,
               z1 |-> IF bit = 0 THEN z ELSE ans]
        <2>1. BitMade(h, bit, r, <<w, s, z>>, e) =
                  [a0 |-> IF bit = 0 THEN E(w * h) ELSE E(z * h - s * (bit + rh)),
                   a1 |-> IF bit = 0 THEN E(z * h - s * (bit + rh - 1)) ELSE E(w * h),
                   e0 |-> IF bit = 0 THEN (e - s) % N ELSE s,
                   z0 |-> IF bit = 0 THEN (w + ((e - s) % N) * r) % N ELSE z,
                   z1 |-> IF bit = 0 THEN z ELSE (w + ((e - s) % N) * r) % N]
            BY DEF BitMade
        <2> QED
            BY <1>3, <2>1
    <1>7. x = bit + rh - (1 - bit) /\ y = IF bit = 0 THEN 1 + th ELSE th - 1
        OBVIOUS
    <1> HIDE DEF own2, answer2, x, y, rh, th
    <1>8. CASE bit = 0
        <2>1. /\ 1 - bit # 0 /\ 1 - bit + th = y /\ bit + rh - 1 = x
            BY <1>4, <1>7, <1>8
        <2> QED
            BY <1>1, <1>2, <1>5, <1>6, <1>8, <2>1
    <1>9. CASE bit = 1
        <2>1. /\ 1 - bit = 0 /\ 1 - bit + th - 1 = y /\ bit + rh = x /\ bit # 0
            BY <1>4, <1>7, <1>9
        <2> QED
            BY <1>1, <1>2, <1>5, <1>6, <2>1
    <1> QED
        BY <1>3, <1>8, <1>9

\* Both phases together.
LEMMA PhasesMake ==
    ASSUME NEW h \in Int, H = E(h), NEW bit \in Int, NEW r \in Int, NEW e,
           NEW w \in Int, NEW s \in Int, NEW z \in Int
    PROVE  Phase2(Phase1(bit, E(bit + r * h), r, <<w, s, z>>), e)
               = BitMade(h, bit, r, <<w, s, z>>, e)
    BY PhasesE

\* The other bit fits, with the blinding and the nonce that Swapped gives.
LEMMA OtherFits ==
    ASSUME NEW h \in 1..(N - 1), H = E(h), NEW bit \in {0, 1}, NEW r \in Int,
           NEW w \in Int, NEW s \in Scalars, NEW z \in Scalars, NEW e \in Scalars,
           NEW C, C = E(bit + r * h), NEW prf, prf = BitMade(h, bit, r, <<w, s, z>>, e)
    PROVE  OtherBitFits(bit, C, prf, e)
    <1> DEFINE x == bit + r * h - (1 - bit)
               own == (e - s) % N
               u == w + own * r
               ans == u % N
    <1>1. h \in Int /\ s \in Int /\ z \in Int /\ e \in Int /\ bit \in Int /\ 1 - bit \in Int
        <2>1. h \in Int /\ bit \in Int /\ 1 - bit \in Int
            OBVIOUS
        <2> QED
            BY <2>1, ScalarFacts
    <1>2. x \in Int
        BY <1>1
    <1>3. PICK t \in Scalars : Cong(N, t * h, x)
        <2> HIDE DEF x
        <2> QED
            BY <1>2, BlindingFor
    <1>4. t \in Int
        BY ScalarFacts
    <1> DEFINE d == z - s * t
               v == d % N
    <1>5. own \in Int
        <2> DEFINE f == e - s
        <2>1. f \in Int
            BY <1>1
        <2> HIDE DEF f
        <2>2. f % N \in Int
            BY <2>1, ModN
        <2> QED
            BY <2>2 DEF f
    <1>6. d \in Int
        BY <1>1, <1>4
    <1>o. own = (e - s) % N /\ v = (z - s * t) % N
        OBVIOUS
    <1> HIDE DEF own
    <1>7. u \in Int
        BY <1>5
    <1>a. ans = (w + own * r) % N
        OBVIOUS
    <1> HIDE DEF u, d
    <1>8. ans \in Int
        BY <1>7, ModN
    <1>9. v \in Scalars /\ v \in Int
        BY <1>6, ModN
    <1> HIDE DEF ans, v
    <1>10. Swapped(h, bit, r, t, w, s, z, v, e, own, ans)
        BY <1>1, <1>3, <1>4, <1>5, <1>8, <1>9, <1>o, <1>a DEF Swapped
    <1>11. BitMade(h, 1 - bit, t, <<v, own, ans>>, e) = prf
        BY <1>10, SwappedProof
    <1>12. C = E((1 - bit) + t * h)
        <2> DEFINE rh == r * h
                   th == t * h
                   a == bit + rh
                   b == (1 - bit) + th
        <2>1. rh \in Int /\ th \in Int
            BY <1>1, <1>4
        <2>2. PICK k \in Int : th = x + k * N
            BY <1>3 DEF Cong
        <2>3. x = bit + rh - (1 - bit)
            OBVIOUS
        <2> HIDE DEF x, rh, th
        <2>4. a \in Int /\ b \in Int
            BY <1>1, <2>1
        <2>5. b = a + k * N
            <3> DEFINE g == k * N
            <3>1. g \in Int /\ th = x + g
                BY <2>2, NFacts
            <3> HIDE DEF g
            <3>2. b = a + g
                BY <1>1, <2>1, <2>3, <3>1
            <3> QED
                BY <3>2 DEF g
        <2> HIDE DEF a, b
        <2>6. E(b) = E(a)
            BY <2>4, <2>5, CongBy, EOf
        <2> QED
            BY <2>6 DEF a, b, rh, th
    <1>13. Commit(1 - bit, t) = C
        BY <1>1, <1>4, <1>12, CommitE
    <1> DEFINE c == 1 - bit
               state == Phase1(c, E(c + t * h), t, <<v, own, ans>>)
    <1>14. Phase2(Phase1(1 - bit, C, t, <<v, own, ans>>), e) = prf
        <2>1. c \in Int
            BY <1>1
        <2>2. C = E(c + t * h) /\ BitMade(h, c, t, <<v, own, ans>>, e) = prf
            BY <1>11, <1>12
        <2> HIDE DEF c
        <2>3. Phase2(state, e) = BitMade(h, c, t, <<v, own, ans>>, e)
            BY <1>1, <1>4, <1>5, <1>8, <1>9, <2>1, PhasesMake
        <2> QED
            BY <2>2, <2>3 DEF c
    <1> DEFINE simulated == IF bit = 1 THEN <<(e - prf.e0) % N, prf.z1>> ELSE <<prf.e0, prf.z0>>
    <1>15. simulated[1] = own /\ simulated[2] = ans
        <2>1. prf = [a0 |-> IF bit = 0 THEN E(w * h) ELSE E(z * h - s * (bit + r * h)),
                     a1 |-> IF bit = 0 THEN E(z * h - s * (bit + r * h - 1)) ELSE E(w * h),
                     e0 |-> IF bit = 0 THEN (e - s) % N ELSE s,
                     z0 |-> IF bit = 0 THEN (w + ((e - s) % N) * r) % N ELSE z,
                     z1 |-> IF bit = 0 THEN z ELSE (w + ((e - s) % N) * r) % N]
            BY DEF BitMade
        <2>2. /\ prf.e0 = IF bit = 0 THEN own ELSE s
              /\ prf.z0 = IF bit = 0 THEN ans ELSE z
              /\ prf.z1 = IF bit = 0 THEN z ELSE ans
            BY <1>o, <1>a, <2>1
        <2>3. CASE bit = 0
            BY <2>2, <2>3
        <2>4. CASE bit = 1
            <3>1. prf.e0 = s /\ prf.z1 = ans
                BY <2>2, <2>4
            <3> QED
                BY <1>o, <2>4, <3>1
        <2> QED
            BY <2>3, <2>4
    <1> HIDE DEF simulated
    <1>16. \E r2 \in Scalars :
              /\ Commit(1 - bit, r2) = C
              /\ \E w2 \in Scalars :
                    Phase2(Phase1(1 - bit, C, r2, <<w2, simulated[1], simulated[2]>>), e) = prf
        BY <1>9, <1>13, <1>14, <1>15
    <1> QED
        BY <1>16 DEF OtherBitFits, simulated

\* In both halves of a proof.
LEMMA HalfHidden ==
    ASSUME NEW h \in 1..(N - 1), H = E(h), NEW n \in Nat, NEW bits, NEW r, NEW C, NEW prfs,
           NEW e \in Scalars, HalfRight(h, n, bits, r, C, prfs, e), bits \in [1..n -> {0, 1}],
           NEW i \in 1..n
    PROVE  OtherBitFits(bits[i], C[i], prfs[i], e)
    <1>1. PICK nonces \in [1..n -> Triples] :
              prfs = [k \in 1..n |-> BitMade(h, bits[k], r[k], nonces[k], e)]
        BY DEF HalfRight
    <1> DEFINE b == bits[i]
               t == r[i]
               w == nonces[i][1]
               s == nonces[i][2]
               z == nonces[i][3]
    <1>2. b \in {0, 1} /\ t \in Scalars
        BY DEF HalfRight
    <1>3. nonces[i] = <<w, s, z>> /\ s \in Scalars /\ w \in Int /\ z \in Scalars
        <2>1. nonces[i] \in Triples
            OBVIOUS
        <2>2. nonces[i] = <<w, s, z>> /\ s \in RandScalars /\ w \in RandScalars /\ z \in RandScalars
            BY <2>1 DEF Triples
        <2>3. RandScalars \subseteq Scalars
            BY NFacts DEF RandScalars, Scalars
        <2> QED
            BY <2>2, <2>3, ScalarFacts
    <1>4. C[i] = E(b + t * h) /\ prfs[i] = BitMade(h, b, t, nonces[i], e)
        BY <1>1 DEF HalfRight
    <1> HIDE DEF b, t, w, s, z
    <1>5. t \in Int /\ prfs[i] = BitMade(h, b, t, <<w, s, z>>, e)
        BY <1>2, <1>3, <1>4, ScalarFacts
    <1>6. OtherBitFits(b, C[i], prfs[i], e)
        BY <1>2, <1>3, <1>4, <1>5, OtherFits
    <1> QED
        BY <1>6 DEF b

\* For every curve, width and choice of random scalars: the proof that
\* _or_prove_phase1 and _or_prove_phase2 make of a bit is one of the other bit as well.
THEOREM BitsStayHidden == Spec => []BitsHidden
    <1>1. IInv => BitsHidden
        <2> DEFINE e == oracle[made.question]
                   p == made.proof
                   n == made.proof.nbits
        <2> SUFFICES ASSUME IInv, made # Nothing, made.job = "range", made.honest,
                            NEW i \in 1..n
                     PROVE  /\ OtherBitFits(made.bitsv[i], p.Cv[i], p.Pv[i], e)
                            /\ OtherBitFits(made.bitsd[i], p.Cd[i], p.Pd[i], e)
            BY DEF BitsHidden
        <2>1. PICK h \in 1..(N - 1) : H = E(h) /\ RangeRight(h, made, e)
            BY MadeRange DEF IInv
        <2>2. e \in Scalars
            BY MadeRange, RangeProofAssumption DEF IInv
        <2> HIDE DEF e
        <2>3. n \in Nat
            BY <2>1, <2>2, RangeType
        <2>4. /\ HalfRight(h, n, made.bitsv, made.rv, p.Cv, p.Pv, e)
              /\ HalfRight(h, n, made.bitsd, made.rd, p.Cd, p.Pd, e)
              /\ made.bitsv \in [1..n -> {0, 1}] /\ made.bitsd \in [1..n -> {0, 1}]
            BY <2>1 DEF RangeRight
        <2> HIDE DEF n, p
        <2> QED
            BY <2>1, <2>2, <2>3, <2>4, HalfHidden
    <1> QED
        BY <1>1, Invariant, PTL

-----------------------------------------------------------------------------
(* Framing: a chunk of a transcript *)

\* The labels of the code.
Marks ==
    {"domain", "bitor", "ctx/", "cap", "nbits", "Cv", "Cd", "a0v", "a1v", "a0d", "a1d", "e",
     "schnorr/base", "schnorr/pub", "schnorr/a", "schnorr/e", "id", "2", "zkgw/sig/v1|",
     "||challenge||"}

\* What is hashed: labels, texts, and what is written of numbers and points.
Alphabet == Character \cup Marks
\* Sequences of it.
Txt == Seq(Alphabet)

\* Concatenation, which the provers are not to regroup by themselves.
Cat(a, b) == a \o b

\* A concatenation and its length.
LEMMA Join ==
    ASSUME NEW a \in Txt, NEW b \in Txt
    PROVE  /\ Cat(a, b) \in Txt /\ Len(Cat(a, b)) = Len(a) + Len(b)
           /\ Len(a) \in Nat /\ Len(b) \in Nat
    BY ConcatProperties, LenProperties DEF Txt, Cat

\* Concatenations can be regrouped.
LEMMA Regroup ==
    ASSUME NEW a \in Txt, NEW b \in Txt, NEW c \in Txt
    PROVE  Cat(Cat(a, b), c) = Cat(a, Cat(b, c))
    BY ConcatAssociative DEF Txt, Cat

\* The hypotheses of the next lemma.
CutAt(a, b, c, d) ==
    /\ a \in Txt /\ b \in Txt /\ c \in Txt /\ d \in Txt
    /\ Len(a) = Len(b) \/ Len(c) = Len(d)

\* A sequence is cut into two in one way only, where one part is as long.
LEMMA Cut ==
    ASSUME NEW a, NEW b, NEW c, NEW d, CutAt(a, b, c, d), Cat(a, c) = Cat(b, d)
    PROVE  a = b /\ c = d
    <1>0. /\ a \in Txt /\ b \in Txt /\ c \in Txt /\ d \in Txt
          /\ Len(a) = Len(b) \/ Len(c) = Len(d)
        BY DEF CutAt
    <1> DEFINE s == Cat(a, c)
               t == Cat(b, d)
    <1>1. /\ Len(a) \in Nat /\ Len(b) \in Nat /\ Len(c) \in Nat /\ Len(d) \in Nat
          /\ Len(s) = Len(a) + Len(c) /\ Len(t) = Len(b) + Len(d)
          /\ \A i \in 1..(Len(a) + Len(c)) : s[i] = IF i <= Len(a) THEN a[i] ELSE c[i - Len(a)]
          /\ \A i \in 1..(Len(b) + Len(d)) : t[i] = IF i <= Len(b) THEN b[i] ELSE d[i - Len(b)]
          /\ s = t
        BY <1>0, ConcatProperties, LenProperties DEF Txt, Cat
    <1> HIDE DEF s, t
    <1>2. Len(a) = Len(b) /\ Len(c) = Len(d)
        BY <1>0, <1>1
    <1>3. ASSUME NEW i \in 1..Len(a) PROVE a[i] = b[i]
        BY <1>1, <1>2
    <1>4. ASSUME NEW i \in 1..Len(c) PROVE c[i] = d[i]
        <2>1. /\ Len(a) + i \in 1..(Len(a) + Len(c)) /\ ~(Len(a) + i <= Len(a))
              /\ (Len(a) + i) - Len(a) = i
            BY <1>1
        <2> QED
            BY <1>1, <1>2, <2>1
    <1>5. a = b
        BY <1>0, <1>2, <1>3, SeqEqual DEF Txt
    <1>6. c = d
        BY <1>0, <1>2, <1>4, SeqEqual DEF Txt
    <1> QED
        BY <1>5, <1>6

\* A label or a text whose length fits into a number.
Fits(s) == s \in Txt /\ Len(s) \in Writable

\* Different numbers are written differently.
LEMMA UnitFacts ==
    ASSUME NEW x \in Writable
    PROVE  /\ Units(x) \in Txt /\ Len(Units(x)) = 1
           /\ \A y \in Writable : Units(x) = Units(y) => x = y
    <1>1. Numeral[x] \in Alphabet
        BY TranscriptAssumption DEF Alphabet
    <1>2. ASSUME NEW y \in Writable, Units(x) = Units(y) PROVE x = y
        <2>1. Numeral[x] = Numeral[y]
            BY <1>2 DEF Units
        <2> QED
            BY <2>1, TranscriptAssumption
    <1>3. <<Numeral[x]>> \in Seq(Alphabet) /\ Len(<<Numeral[x]>>) = 1
        <2> HIDE DEF Alphabet
        <2> QED
            BY <1>1
    <1> QED
        BY <1>2, <1>3 DEF Units, Txt

\* What is absorbed in front of the data, and with it.
Heading(ts, label, n) == Cat(Cat(Cat(ts, Units(Len(label))), label), Units(n))

\* Absorb is that.
LEMMA AbsorbIs ==
    ASSUME NEW ts, NEW label, NEW data
    PROVE  Absorb(ts, label, data) = Cat(Heading(ts, label, Len(data)), data)
    BY DEF Absorb, Cat, Heading

\* What absorb adds.
LEMMA AbsorbType ==
    ASSUME NEW ts \in Txt, NEW label, NEW data, Fits(label), Fits(data)
    PROVE  /\ Absorb(ts, label, data) \in Txt
           /\ Len(Absorb(ts, label, data)) = Len(ts) + 2 + Len(label) + Len(data)
           /\ Len(ts) \in Nat /\ Len(label) \in Nat /\ Len(data) \in Nat
    <1> DEFINE u == Units(Len(label))
               v == Units(Len(data))
    <1>1. u \in Txt /\ v \in Txt /\ Len(u) = 1 /\ Len(v) = 1 /\ label \in Txt /\ data \in Txt
        BY UnitFacts DEF Fits
    <1> DEFINE a1 == Cat(ts, u)
               a2 == Cat(a1, label)
               a3 == Cat(a2, v)
               a4 == Cat(a3, data)
    <1>2. Absorb(ts, label, data) = a4
        BY AbsorbIs DEF Heading
    <1> HIDE DEF u, v
    <1>3. a1 \in Txt /\ Len(a1) = Len(ts) + 1 /\ Len(ts) \in Nat
        BY <1>1, Join
    <1> HIDE DEF a1
    <1>4. a2 \in Txt /\ Len(a2) = Len(a1) + Len(label) /\ Len(label) \in Nat
        BY <1>1, <1>3, Join
    <1> HIDE DEF a2
    <1>5. a3 \in Txt /\ Len(a3) = Len(a2) + 1
        <2>1. a2 \in Txt /\ v \in Txt /\ Len(v) = 1
            BY <1>1, <1>4
        <2>2. a3 \in Txt /\ Len(a3) = Len(a2) + Len(v)
            BY <2>1, Join
        <2> HIDE DEF a3
        <2> QED
            BY <2>1, <2>2
    <1> HIDE DEF a3
    <1>6. a4 \in Txt /\ Len(a4) = Len(a3) + Len(data) /\ Len(data) \in Nat
        BY <1>1, <1>5, Join
    <1> HIDE DEF a4
    <1> QED
        BY <1>2, <1>3, <1>4, <1>5, <1>6

\* The last thing absorbed is known where its length and its label's are.
LEMMA AbsorbCut ==
    ASSUME NEW t1 \in Txt, NEW t2 \in Txt, NEW l1, NEW l2, NEW d1, NEW d2,
           Fits(l1), Fits(l2), Fits(d1), Fits(d2), Len(l1) = Len(l2), Len(d1) = Len(d2),
           Absorb(t1, l1, d1) = Absorb(t2, l2, d2)
    PROVE  t1 = t2 /\ l1 = l2 /\ d1 = d2
    <1> DEFINE u == Units(Len(l1))
               v == Units(Len(d1))
    <1>1. /\ u \in Txt /\ v \in Txt
          /\ l1 \in Txt /\ d1 \in Txt /\ l2 \in Txt /\ d2 \in Txt
        BY UnitFacts DEF Fits
    <1>2. Cat(Cat(Cat(Cat(t1, u), l1), v), d1) = Cat(Cat(Cat(Cat(t2, u), l2), v), d2)
        BY AbsorbIs DEF Heading
    <1> HIDE DEF u, v
    <1>3. Cat(t1, u) \in Txt /\ Cat(t2, u) \in Txt
        BY <1>1, Join
    <1>4. Cat(Cat(t1, u), l1) \in Txt /\ Cat(Cat(t2, u), l2) \in Txt
        BY <1>1, <1>3, Join
    <1>5. Cat(Cat(Cat(t1, u), l1), v) \in Txt /\ Cat(Cat(Cat(t2, u), l2), v) \in Txt
        BY <1>1, <1>4, Join
    <1>6. Cat(Cat(Cat(t1, u), l1), v) = Cat(Cat(Cat(t2, u), l2), v) /\ d1 = d2
        BY <1>1, <1>2, <1>5, Cut DEF CutAt
    <1>7. Cat(Cat(t1, u), l1) = Cat(Cat(t2, u), l2)
        BY <1>1, <1>4, <1>6, Cut DEF CutAt
    <1>8. Cat(t1, u) = Cat(t2, u) /\ l1 = l2
        BY <1>1, <1>3, <1>7, Cut DEF CutAt
    <1>9. t1 = t2
        BY <1>1, <1>8, Cut DEF CutAt
    <1> QED
        BY <1>6, <1>8, <1>9

\* What is absorbed after ts, and whatever follows it.
Rest(label, data, r) == Cat(label, Cat(Units(Len(data)), Cat(data, r)))

\* It is a sequence like the others, and starts with the length of the label.
LEMMA RestOf ==
    ASSUME NEW ts \in Txt, NEW l, NEW d, NEW r \in Txt, Fits(l), Fits(d)
    PROVE  /\ Cat(Absorb(ts, l, d), r) = Cat(ts, Cat(Units(Len(l)), Rest(l, d, r)))
           /\ Rest(l, d, r) \in Txt /\ Units(Len(l)) \in Txt /\ Len(Units(Len(l))) = 1
           /\ Cat(Units(Len(l)), Rest(l, d, r)) \in Txt
    <1> DEFINE u == Units(Len(l))
               v == Units(Len(d))
    <1>1. u \in Txt /\ v \in Txt /\ l \in Txt /\ d \in Txt /\ Len(u) = 1
        BY UnitFacts DEF Fits
    <1>2. Absorb(ts, l, d) = Cat(Cat(Cat(Cat(ts, u), l), v), d)
        BY AbsorbIs DEF Heading
    <1>3. Rest(l, d, r) = Cat(l, Cat(v, Cat(d, r)))
        BY DEF Rest
    <1> HIDE DEF u, v
    <1>4. Cat(d, r) \in Txt /\ Cat(ts, u) \in Txt
        BY <1>1, Join
    <1>5. Cat(v, Cat(d, r)) \in Txt /\ Cat(Cat(ts, u), l) \in Txt
        BY <1>1, <1>4, Join
    <1>6. Cat(l, Cat(v, Cat(d, r))) \in Txt /\ Cat(Cat(Cat(ts, u), l), v) \in Txt
        BY <1>1, <1>5, Join
    <1>7. Cat(Cat(Cat(Cat(Cat(ts, u), l), v), d), r) = Cat(Cat(Cat(Cat(ts, u), l), v), Cat(d, r))
        BY <1>1, <1>6, Regroup
    <1>8. Cat(Cat(Cat(Cat(ts, u), l), v), Cat(d, r)) = Cat(Cat(Cat(ts, u), l), Cat(v, Cat(d, r)))
        BY <1>1, <1>4, <1>5, Regroup
    <1>9. Cat(Cat(Cat(ts, u), l), Cat(v, Cat(d, r))) = Cat(Cat(ts, u), Cat(l, Cat(v, Cat(d, r))))
        BY <1>1, <1>4, <1>5, Regroup
    <1>10. Cat(Cat(ts, u), Cat(l, Cat(v, Cat(d, r)))) = Cat(ts, Cat(u, Cat(l, Cat(v, Cat(d, r)))))
        BY <1>1, <1>6, Regroup
    <1>11. Cat(u, Cat(l, Cat(v, Cat(d, r)))) \in Txt
        BY <1>1, <1>6, Join
    <1> QED
        BY <1>1, <1>2, <1>3, <1>6, <1>7, <1>8, <1>9, <1>10, <1>11 DEF u

\* The next thing absorbed is known whatever its length.
LEMMA AbsorbParse ==
    ASSUME NEW ts \in Txt, NEW l1, NEW l2, NEW d1, NEW d2, NEW r1 \in Txt, NEW r2 \in Txt,
           Fits(l1), Fits(l2), Fits(d1), Fits(d2),
           Cat(Absorb(ts, l1, d1), r1) = Cat(Absorb(ts, l2, d2), r2)
    PROVE  l1 = l2 /\ d1 = d2
    <1> DEFINE u1 == Units(Len(l1))
               u2 == Units(Len(l2))
               v1 == Units(Len(d1))
               v2 == Units(Len(d2))
               s1 == Rest(l1, d1, r1)
               s2 == Rest(l2, d2, r2)
    <1>1. /\ Cat(ts, Cat(u1, s1)) = Cat(ts, Cat(u2, s2))
          /\ s1 \in Txt /\ s2 \in Txt /\ u1 \in Txt /\ u2 \in Txt /\ Len(u1) = 1 /\ Len(u2) = 1
          /\ Cat(u1, s1) \in Txt /\ Cat(u2, s2) \in Txt
        BY RestOf
    <1>2. /\ v1 \in Txt /\ v2 \in Txt /\ Len(v1) = 1 /\ Len(v2) = 1
          /\ l1 \in Txt /\ l2 \in Txt /\ d1 \in Txt /\ d2 \in Txt
        BY UnitFacts DEF Fits
    <1>3. s1 = Cat(l1, Cat(v1, Cat(d1, r1))) /\ s2 = Cat(l2, Cat(v2, Cat(d2, r2)))
        BY DEF Rest
    <1>4. u1 = u2 => Len(l1) = Len(l2)
        BY UnitFacts DEF Fits
    <1>5. v1 = v2 => Len(d1) = Len(d2)
        BY UnitFacts DEF Fits
    <1> HIDE DEF u1, u2, v1, v2, s1, s2
    <1>6. Cat(d1, r1) \in Txt /\ Cat(d2, r2) \in Txt
        BY <1>2, Join
    <1>7. Cat(v1, Cat(d1, r1)) \in Txt /\ Cat(v2, Cat(d2, r2)) \in Txt
        BY <1>2, <1>6, Join
    <1>8. Cat(u1, s1) = Cat(u2, s2)
        BY <1>1, Cut DEF CutAt
    <1>9. u1 = u2 /\ s1 = s2
        BY <1>1, <1>8, Cut DEF CutAt
    <1>10. Cat(l1, Cat(v1, Cat(d1, r1))) = Cat(l2, Cat(v2, Cat(d2, r2)))
        BY <1>3, <1>9
    <1>11. l1 = l2 /\ Cat(v1, Cat(d1, r1)) = Cat(v2, Cat(d2, r2))
        BY <1>2, <1>4, <1>7, <1>9, <1>10, Cut DEF CutAt
    <1>12. v1 = v2 /\ Cat(d1, r1) = Cat(d2, r2)
        BY <1>2, <1>6, <1>11, Cut DEF CutAt
    <1>13. d1 = d2
        BY <1>2, <1>5, <1>12, Cut DEF CutAt
    <1> QED
        BY <1>11, <1>13

-----------------------------------------------------------------------------
(* Framing: points and numbers *)

\* A label of the code.
LEMMA MarkFits ==
    ASSUME NEW m \in Marks
    PROVE  <<m>> \in Txt /\ Len(<<m>>) = 1 /\ Fits(<<m>>)
    <1>1. m \in Alphabet
        BY DEF Alphabet
    <1> HIDE DEF Alphabet
    <1>2. <<m>> \in Seq(Alphabet) /\ Len(<<m>>) = 1
        BY <1>1
    <1>3. 1 \in Writable
        BY TranscriptAssumption, PFacts
    <1> QED
        BY <1>2, <1>3 DEF Fits, Txt

\* What _de_point reads: an abscissa may be any number, and the ordinate one of the
\* two that are lifted from it.
ReadPoints == {IDENTITY} \cup {Lift(x, b) : x \in Nat, b \in {0, 1}}

\* Those that absorb_point can write.
WirePoints == {pt \in ReadPoints : Compress(pt)[2] \in Writable}

\* What is lifted has the abscissa and the parity that were read.
LEMMA LiftedFacts ==
    ASSUME NEW x \in Nat, NEW b \in {0, 1}
    PROVE  Lift(x, b) # IDENTITY /\ Compress(Lift(x, b)) = <<2 + b, x>>
    <1> DEFINE y == Root(YSquared(x))
    <1>1. y \in Field
        <2>1. x \in Int
            OBVIOUS
        <2> QED
            BY <2>1, YSquaredType, RootType
    <1>2. Lift(x, b) = IF y % 2 = b THEN <<x, y>> ELSE <<x, P - y>>
        BY DEF Lift
    <1> HIDE DEF y
    <1>3. y \in Int /\ P \in Int /\ P % 2 = 1
        BY <1>1, FieldFacts, PFacts
    <1>4. CASE y % 2 = b
        BY <1>2, <1>4 DEF Compress, IDENTITY
    <1>5. CASE y % 2 # b
        <2> DEFINE n == P - y
        <2>1. n % 2 = b
            BY <1>3, <1>5
        <2>2. Lift(x, b) = <<x, n>>
            BY <1>2, <1>5
        <2> HIDE DEF n
        <2> QED
            BY <2>1, <2>2 DEF Compress, IDENTITY
    <1> QED
        BY <1>4, <1>5

\* The points of the curve are read and written.
LEMMA PointsOnWire == Points \subseteq WirePoints
    <1> SUFFICES ASSUME NEW p \in Points PROVE p \in WirePoints
        OBVIOUS
    <1>0. 0 \in Writable /\ Field \subseteq Writable
        BY TranscriptAssumption, PFacts DEF Field
    <1>1. CASE p = IDENTITY
        BY <1>0, <1>1 DEF WirePoints, ReadPoints, Compress
    <1>2. CASE p # IDENTITY
        <2>1. PICK x \in Field, y \in Field : p = <<x, y>>
            BY <1>2, Finite
        <2>2. x \in Nat /\ y % 2 \in {0, 1}
            BY FieldFacts
        <2> DEFINE b == y % 2
        <2>3. Lift(x, b) = p
            BY <1>2, <2>1, LiftOfCompressed
        <2>4. Compress(p)[2] = x
            BY <1>2, <2>1 DEF Compress
        <2> HIDE DEF b
        <2>5. p \in ReadPoints
            BY <2>2, <2>3 DEF ReadPoints, b
        <2> QED
            BY <1>0, <2>4, <2>5 DEF WirePoints
    <1> QED
        BY <1>1, <1>2

\* Different ones of them are written differently ...
LEMMA ReadOnce ==
    ASSUME NEW p \in ReadPoints, NEW q \in ReadPoints, Compress(p) = Compress(q)
    PROVE  p = q
    <1>1. ASSUME NEW r \in ReadPoints
          PROVE  \/ r = IDENTITY /\ Compress(r) = <<0, 0>>
                 \/ \E x \in Nat, b \in {0, 1} : r = Lift(x, b) /\ Compress(r) = <<2 + b, x>>
        <2>1. CASE r = IDENTITY
            BY <2>1 DEF Compress
        <2>2. CASE r # IDENTITY
            <3>1. PICK x \in Nat, b \in {0, 1} : r = Lift(x, b)
                BY <2>2 DEF ReadPoints
            <3> QED
                BY <3>1, LiftedFacts
        <2> QED
            BY <2>1, <2>2
    <1>u. \A y \in Nat, c \in {0, 1} : <<2 + c, y>> # <<0, 0>>
        OBVIOUS
    <1>2. CASE Compress(p) = <<0, 0>>
        <2>1. p = IDENTITY
            BY <1>1, <1>2, <1>u
        <2>2. q = IDENTITY
            BY <1>1, <1>2, <1>u
        <2> QED
            BY <2>1, <2>2
    <1>3. CASE Compress(p) # <<0, 0>>
        <2>1. PICK x \in Nat, b \in {0, 1} : p = Lift(x, b) /\ Compress(p) = <<2 + b, x>>
            BY <1>1, <1>3
        <2>2. PICK y \in Nat, c \in {0, 1} : q = Lift(y, c) /\ Compress(q) = <<2 + c, y>>
            BY <1>1, <1>3
        <2>3. x = y /\ b = c
            BY <2>1, <2>2
        <2> QED
            BY <2>1, <2>2, <2>3
    <1> QED
        BY <1>2, <1>3

\* ... and as long as one another.
LEMMA PointUnitsFacts ==
    ASSUME NEW p \in WirePoints
    PROVE  /\ Fits(PointUnits(p)) /\ Len(PointUnits(p)) = 2
           /\ \A q \in WirePoints : PointUnits(p) = PointUnits(q) => p = q
    <1>1. ASSUME NEW q \in WirePoints
          PROVE  Compress(q) = <<Compress(q)[1], Compress(q)[2]>>
                 /\ Compress(q)[1] \in Writable /\ Compress(q)[2] \in Writable
        <2>0. 0 \in Writable /\ 2 \in Writable /\ 3 \in Writable
            BY TranscriptAssumption, PFacts
        <2>1. CASE q = IDENTITY
            BY <2>0, <2>1 DEF Compress
        <2>2. CASE q # IDENTITY
            <3>1. PICK x \in Nat, b \in {0, 1} : q = Lift(x, b)
                BY <2>2 DEF WirePoints, ReadPoints
            <3>2. Compress(q) = <<2 + b, x>>
                BY <3>1, LiftedFacts
            <3>3. Compress(q)[2] \in Writable
                BY DEF WirePoints
            <3>4. 2 + b \in Writable
                BY <2>0
            <3> QED
                BY <3>2, <3>3, <3>4
        <2> QED
            BY <2>1, <2>2
    <1>2. ASSUME NEW q \in WirePoints
          PROVE  PointUnits(q) = Cat(Units(Compress(q)[1]), Units(Compress(q)[2]))
        BY DEF PointUnits, Cat
    <1> DEFINE a == Compress(p)[1]
               b == Compress(p)[2]
    <1>3. ASSUME NEW q \in WirePoints, PointUnits(p) = PointUnits(q) PROVE p = q
        <2> DEFINE c == Compress(q)[1]
                   d == Compress(q)[2]
        <2>1. a \in Writable /\ b \in Writable /\ c \in Writable /\ d \in Writable
            BY <1>1
        <2>2. Cat(Units(a), Units(b)) = Cat(Units(c), Units(d))
            BY <1>2, <1>3
        <2>3. Compress(p) = <<a, b>> /\ Compress(q) = <<c, d>>
            BY <1>1
        <2> HIDE DEF a, b, c, d
        <2>4. Units(a) = Units(c) /\ Units(b) = Units(d)
            BY <2>1, <2>2, UnitFacts, Cut DEF CutAt
        <2>5. a = c /\ b = d
            BY <2>1, <2>4, UnitFacts
        <2>6. Compress(p) = Compress(q)
            BY <2>3, <2>5
        <2> QED
            BY <2>6, ReadOnce DEF WirePoints
    <1>4. a \in Writable /\ b \in Writable
        BY <1>1
    <1>5. PointUnits(p) = Cat(Units(a), Units(b))
        BY <1>2
    <1> HIDE DEF a, b
    <1> DEFINE u == Units(a)
               v == Units(b)
    <1>6. u \in Txt /\ v \in Txt /\ Len(u) = 1 /\ Len(v) = 1
        BY <1>4, UnitFacts
    <1> HIDE DEF u, v
    <1>7. Cat(u, v) \in Txt /\ Len(Cat(u, v)) = 2
        <2>1. u \in Txt /\ v \in Txt
            BY <1>6
        <2>2. Cat(u, v) \in Txt /\ Len(Cat(u, v)) = Len(u) + Len(v)
            BY <2>1, Join
        <2> QED
            BY <1>6, <2>2
    <1>8. 2 \in Writable
        BY TranscriptAssumption, PFacts
    <1> QED
        BY <1>3, <1>5, <1>7, <1>8 DEF Fits, u, v

\* What absorb_point leaves is a transcript.
LEMMA AbsorbPointType ==
    ASSUME NEW ts \in Txt, NEW m \in Marks, NEW p \in WirePoints
    PROVE  AbsorbPoint(ts, <<m>>, p) \in Txt
    BY MarkFits, PointUnitsFacts, AbsorbType DEF AbsorbPoint

\* From a transcript that ends with a point, the one before it, the label and the point
\* are known.
LEMMA AbsorbPointCut ==
    ASSUME NEW t1 \in Txt, NEW t2 \in Txt, NEW m1 \in Marks, NEW m2 \in Marks,
           NEW p1 \in WirePoints, NEW p2 \in WirePoints,
           AbsorbPoint(t1, <<m1>>, p1) = AbsorbPoint(t2, <<m2>>, p2)
    PROVE  t1 = t2 /\ m1 = m2 /\ p1 = p2
    <1> DEFINE l1 == <<m1>>
               l2 == <<m2>>
               d1 == PointUnits(p1)
               d2 == PointUnits(p2)
    <1>1. Fits(l1) /\ Fits(l2) /\ Len(l1) = 1 /\ Len(l2) = 1
        BY MarkFits
    <1>2. Fits(d1) /\ Fits(d2) /\ Len(d1) = 2 /\ Len(d2) = 2 /\ (d1 = d2 => p1 = p2)
        BY PointUnitsFacts
    <1>3. Absorb(t1, l1, d1) = Absorb(t2, l2, d2)
        BY DEF AbsorbPoint
    <1>4. l1 = l2 => m1 = m2
        OBVIOUS
    <1> HIDE DEF l1, l2, d1, d2
    <1>5. t1 = t2 /\ l1 = l2 /\ d1 = d2
        BY <1>1, <1>2, <1>3, AbsorbCut
    <1> QED
        BY <1>2, <1>4, <1>5

\* So is what absorb_int leaves.
LEMMA AbsorbIntType ==
    ASSUME NEW ts \in Txt, NEW m \in Marks, NEW x \in Writable
    PROVE  AbsorbInt(ts, <<m>>, x) \in Txt /\ Fits(Units(x)) /\ Len(Units(x)) = 1
    <1>1. 1 \in Writable
        BY TranscriptAssumption, PFacts
    <1>2. Fits(Units(x)) /\ Len(Units(x)) = 1
        BY <1>1, UnitFacts DEF Fits
    <1> QED
        BY <1>2, MarkFits, AbsorbType DEF AbsorbInt

\* From one that ends with a number, the one before it and the number are known.
LEMMA AbsorbIntCut ==
    ASSUME NEW t1 \in Txt, NEW t2 \in Txt, NEW m \in Marks, NEW x \in Writable, NEW y \in Writable,
           AbsorbInt(t1, <<m>>, x) = AbsorbInt(t2, <<m>>, y)
    PROVE  t1 = t2 /\ x = y
    <1> DEFINE l == <<m>>
               d1 == Units(x)
               d2 == Units(y)
    <1>1. Fits(l) /\ Len(l) = 1
        BY MarkFits
    <1>2. Fits(d1) /\ Fits(d2) /\ Len(d1) = 1 /\ Len(d2) = 1 /\ (d1 = d2 => x = y)
        BY UnitFacts, AbsorbIntType
    <1>3. Absorb(t1, l, d1) = Absorb(t2, l, d2)
        BY DEF AbsorbInt
    <1> HIDE DEF l, d1, d2
    <1>4. t1 = t2 /\ d1 = d2
        BY <1>1, <1>2, <1>3, AbsorbCut
    <1> QED
        BY <1>2, <1>4

\* What absorb_point of each of some points leaves, point by point.
PointsAbsorbed(ts, m, n, points, g) ==
    /\ g \in [0..n -> Txt] /\ g[0] = ts
    /\ \A i \in 1..n : g[i] = AbsorbPoint(g[i - 1], <<m>>, points[i])

\* Such a sequence of transcripts exists, and AbsorbPoints is its last.
LEMMA AbsorbPointsIs ==
    ASSUME NEW ts \in Txt, NEW m \in Marks, NEW n \in Nat, NEW points \in [1..n -> WirePoints]
    PROVE  \E g : /\ PointsAbsorbed(ts, m, n, points, g)
                  /\ AbsorbPoints(ts, <<m>>, points) = g[n]
    <1> DEFINE st == [i \in 1..n |-> [x \in Txt |-> AbsorbPoint(x, <<m>>, points[i])]]
    <1>1. st \in [1..n -> [Txt -> Txt]]
        <2>1. ASSUME NEW i \in 1..n, NEW x \in Txt PROVE AbsorbPoint(x, <<m>>, points[i]) \in Txt
            BY AbsorbPointType
        <2> QED
            BY <2>1
    <1>2. Recursion(n, Txt, ts, st)
        <2> HIDE DEF st
        <2> QED
            BY <1>1, RecursionExists
    <1>3. PICK g \in [0..n -> Txt] : g[0] = ts /\ \A i \in 1..n : g[i] = st[i][g[i - 1]]
        BY <1>2 DEF Recursion
    <1>4. ASSUME NEW i \in 1..n PROVE g[i] = AbsorbPoint(g[i - 1], <<m>>, points[i])
        <2>1. i - 1 \in 0..n
            OBVIOUS
        <2>2. g[i - 1] \in Txt
            BY <1>3, <2>1
        <2> QED
            BY <1>3, <2>2
    <1>5. PointsAbsorbed(ts, m, n, points, g)
        BY <1>3, <1>4 DEF PointsAbsorbed
    <1> DEFINE W(f) == [i \in 0..Len(points) |->
                           IF i = 0 THEN ts ELSE AbsorbPoint(f[i - 1], <<m>>, points[i])]
               absorbed == CHOOSE f : f = W(f)
    <1>6. Len(points) = n
        OBVIOUS
    <1>7. g = W(g)
        <2>1. ASSUME NEW i \in 0..n
              PROVE  g[i] = IF i = 0 THEN ts ELSE AbsorbPoint(g[i - 1], <<m>>, points[i])
            <3>1. i = 0 \/ i \in 1..n
                OBVIOUS
            <3> QED
                BY <1>3, <1>4, <3>1
        <2> QED
            BY <1>3, <1>6, <2>1
    <1>8. absorbed = W(absorbed)
        <2> HIDE DEF W
        <2> QED
            BY <1>7
    <1>9. AbsorbPoints(ts, <<m>>, points) = absorbed[n]
        BY <1>6 DEF AbsorbPoints
    <1> HIDE DEF absorbed
    <1> DEFINE D == {i \in 0..n : absorbed[i] = g[i]}
    <1>10. 0 \in D
        BY <1>3, <1>6, <1>8
    <1>11. ASSUME NEW i \in 0..n, i < n, i \in D PROVE i + 1 \in D
        <2>1. i + 1 \in 1..n /\ (i + 1) - 1 = i /\ i + 1 \in 0..n /\ i + 1 # 0
            BY <1>11
        <2>2. absorbed[i + 1] = AbsorbPoint(absorbed[i], <<m>>, points[i + 1])
            BY <1>6, <1>8, <2>1
        <2> QED
            BY <1>4, <1>11, <2>1, <2>2
    <1>12. 0..n \subseteq D
        <2> HIDE DEF D
        <2> QED
            BY <1>10, <1>11, UpTo
    <1> QED
        BY <1>5, <1>9, <1>12

\* From a transcript that ends with points, as many as given, the one before them and
\* the points are known.
LEMMA AbsorbPointsCut ==
    ASSUME NEW t1 \in Txt, NEW t2 \in Txt, NEW m \in Marks, NEW n \in Nat,
           NEW p1 \in [1..n -> WirePoints], NEW p2 \in [1..n -> WirePoints],
           AbsorbPoints(t1, <<m>>, p1) = AbsorbPoints(t2, <<m>>, p2)
    PROVE  t1 = t2 /\ p1 = p2
    <1>1. PICK g : PointsAbsorbed(t1, m, n, p1, g) /\ AbsorbPoints(t1, <<m>>, p1) = g[n]
        BY AbsorbPointsIs
    <1>2. PICK f : PointsAbsorbed(t2, m, n, p2, f) /\ AbsorbPoints(t2, <<m>>, p2) = f[n]
        BY AbsorbPointsIs
    <1> DEFINE D == {k \in 0..n : g[n - k] = f[n - k]
                                  /\ \A i \in (n - k + 1)..n : p1[i] = p2[i]}
    <1>3. 0 \in D
        BY <1>1, <1>2
    <1>4. ASSUME NEW k \in 0..n, k < n, k \in D PROVE k + 1 \in D
        <2> DEFINE i == n - k
        <2>1. i \in 1..n /\ i - 1 \in 0..n /\ n - (k + 1) = i - 1 /\ k + 1 \in 0..n
            BY <1>4
        <2>2. g[i] = f[i] /\ \A j \in (i + 1)..n : p1[j] = p2[j]
            BY <1>4
        <2> HIDE DEF i
        <2>3. /\ g[i] = AbsorbPoint(g[i - 1], <<m>>, p1[i]) /\ g[i - 1] \in Txt
              /\ f[i] = AbsorbPoint(f[i - 1], <<m>>, p2[i]) /\ f[i - 1] \in Txt
              /\ p1[i] \in WirePoints /\ p2[i] \in WirePoints
            BY <1>1, <1>2, <2>1 DEF PointsAbsorbed
        <2> DEFINE x == g[i - 1]
                   y == f[i - 1]
        <2>4. x = y /\ p1[i] = p2[i]
            <3>1. /\ AbsorbPoint(x, <<m>>, p1[i]) = AbsorbPoint(y, <<m>>, p2[i])
                  /\ x \in Txt /\ y \in Txt /\ p1[i] \in WirePoints /\ p2[i] \in WirePoints
                BY <2>2, <2>3
            <3> HIDE DEF x, y
            <3> QED
                BY <3>1, AbsorbPointCut
        <2>5. ASSUME NEW j \in ((i - 1) + 1)..n PROVE p1[j] = p2[j]
            <3>1. j = i \/ j \in (i + 1)..n
                BY <2>1
            <3> QED
                BY <2>2, <2>4, <3>1
        <2> QED
            BY <2>1, <2>4, <2>5
    <1>5. 0..n \subseteq D
        <2> HIDE DEF D
        <2> QED
            BY <1>3, <1>4, UpTo
    <1>6. n \in D
        <2> HIDE DEF D
        <2> QED
            BY <1>5
    <1>7. g[0] = f[0] /\ \A i \in 1..n : p1[i] = p2[i]
        BY <1>6
    <1> QED
        BY <1>1, <1>2, <1>7 DEF PointsAbsorbed

\* What AbsorbPoints leaves is a transcript.
LEMMA AbsorbPointsType ==
    ASSUME NEW ts \in Txt, NEW m \in Marks, NEW n \in Nat, NEW points \in [1..n -> WirePoints]
    PROVE  AbsorbPoints(ts, <<m>>, points) \in Txt
    <1>1. PICK g : PointsAbsorbed(ts, m, n, points, g) /\ AbsorbPoints(ts, <<m>>, points) = g[n]
        BY AbsorbPointsIs
    <1> QED
        BY <1>1 DEF PointsAbsorbed

-----------------------------------------------------------------------------
(* Framing: the announcements *)

\* The two announcements of a bit.
Pair(x, m0, m1, a) == AbsorbPoint(AbsorbPoint(x, <<m0>>, a[1]), <<m1>>, a[2])

\* What the announcements of n bits leave, bit by bit.
Announces(ts, m0, m1, n, ann, g) ==
    /\ g \in [0..n -> Txt] /\ g[0] = ts
    /\ \A i \in 1..n : g[i] = Pair(g[i - 1], m0, m1, ann[i])

\* The hypotheses of the lemmas about them.
Given(ts, m0, m1, n, ann) ==
    /\ ts \in Txt /\ m0 \in Marks /\ m1 \in Marks /\ n \in Nat
    /\ ann \in [1..n -> WirePoints \X WirePoints]

\* It leaves a transcript.
LEMMA PairType ==
    ASSUME NEW x \in Txt, NEW m0 \in Marks, NEW m1 \in Marks, NEW a \in WirePoints \X WirePoints
    PROVE  Pair(x, m0, m1, a) \in Txt
    <1> DEFINE p == a[1]
               q == a[2]
    <1>1. p \in WirePoints /\ q \in WirePoints
        OBVIOUS
    <1> HIDE DEF p, q
    <1>2. AbsorbPoint(x, <<m0>>, p) \in Txt
        BY <1>1, AbsorbPointType
    <1>3. AbsorbPoint(AbsorbPoint(x, <<m0>>, p), <<m1>>, q) \in Txt
        BY <1>1, <1>2, AbsorbPointType
    <1> QED
        BY <1>3 DEF p, q, Pair

\* From a transcript that ends with a pair, the one before it and the pair are known.
LEMMA PairCut ==
    ASSUME NEW x \in Txt, NEW y \in Txt, NEW m0 \in Marks, NEW m1 \in Marks,
           NEW a \in WirePoints \X WirePoints, NEW b \in WirePoints \X WirePoints,
           Pair(x, m0, m1, a) = Pair(y, m0, m1, b)
    PROVE  x = y /\ a = b
    <1> DEFINE a1 == a[1]
               a2 == a[2]
               b1 == b[1]
               b2 == b[2]
               u == AbsorbPoint(x, <<m0>>, a1)
               v == AbsorbPoint(y, <<m0>>, b1)
    <1>1. /\ a1 \in WirePoints /\ a2 \in WirePoints /\ b1 \in WirePoints /\ b2 \in WirePoints
          /\ a = <<a1, a2>> /\ b = <<b1, b2>>
          /\ AbsorbPoint(u, <<m1>>, a2) = AbsorbPoint(v, <<m1>>, b2)
        BY DEF Pair
    <1> HIDE DEF a1, a2, b1, b2
    <1>2. u \in Txt /\ v \in Txt
        BY <1>1, AbsorbPointType
    <1>3. u = v /\ a2 = b2
        <2> HIDE DEF u, v
        <2> QED
            BY <1>1, <1>2, AbsorbPointCut
    <1>4. x = y /\ a1 = b1
        BY <1>1, <1>3, AbsorbPointCut
    <1> QED
        BY <1>1, <1>3, <1>4

\* Such a sequence of transcripts exists, and AbsorbAnnouncements is its last.
LEMMA AbsorbAnnouncementsIs ==
    ASSUME NEW ts, NEW m0, NEW m1, NEW n, NEW ann, Given(ts, m0, m1, n, ann)
    PROVE  \E g : /\ Announces(ts, m0, m1, n, ann, g)
                  /\ AbsorbAnnouncements(ts, <<m0>>, <<m1>>, ann) = g[n]
    <1>0. /\ ts \in Txt /\ m0 \in Marks /\ m1 \in Marks /\ n \in Nat
          /\ ann \in [1..n -> WirePoints \X WirePoints]
        BY DEF Given
    <1> DEFINE Step(x, i) == Pair(x, m0, m1, ann[i])
               st == [i \in 1..n |-> [x \in Txt |-> Step(x, i)]]
    <1>1. st \in [1..n -> [Txt -> Txt]]
        <2>1. ASSUME NEW i \in 1..n, NEW x \in Txt PROVE Step(x, i) \in Txt
            <3>1. ann[i] \in WirePoints \X WirePoints
                BY <1>0
            <3> QED
                BY <1>0, <3>1, PairType
        <2> HIDE DEF Step
        <2> QED
            BY <2>1
    <1> HIDE DEF Step
    <1>2. Recursion(n, Txt, ts, st)
        <2> HIDE DEF st
        <2> QED
            BY <1>0, <1>1, RecursionExists
    <1>3. PICK g \in [0..n -> Txt] : g[0] = ts /\ \A i \in 1..n : g[i] = st[i][g[i - 1]]
        BY <1>2 DEF Recursion
    <1>4. ASSUME NEW i \in 1..n PROVE g[i] = Step(g[i - 1], i)
        <2>1. i - 1 \in 0..n
            BY <1>0
        <2>2. g[i - 1] \in Txt
            BY <1>3, <2>1
        <2> QED
            BY <1>3, <2>2
    <1>5. Announces(ts, m0, m1, n, ann, g)
        BY <1>3, <1>4 DEF Announces, Step
    <1> DEFINE W(f) == [i \in 0..Len(ann) |-> IF i = 0 THEN ts ELSE Step(f[i - 1], i)]
               absorbed == CHOOSE f : f = W(f)
    <1>6. Len(ann) = n
        BY <1>0
    <1>7. g = W(g)
        <2>1. ASSUME NEW i \in 0..n PROVE g[i] = IF i = 0 THEN ts ELSE Step(g[i - 1], i)
            <3>1. i = 0 \/ i \in 1..n
                BY <1>0
            <3> QED
                BY <1>3, <1>4, <3>1
        <2> QED
            BY <1>3, <1>6, <2>1
    <1>8. absorbed = W(absorbed)
        <2> HIDE DEF W
        <2> QED
            BY <1>7
    <1>9. AbsorbAnnouncements(ts, <<m0>>, <<m1>>, ann) = absorbed[n]
        BY <1>6 DEF AbsorbAnnouncements, Step, Pair
    <1> HIDE DEF absorbed
    <1> DEFINE D == {i \in 0..n : absorbed[i] = g[i]}
    <1>10. 0 \in D
        BY <1>3, <1>6, <1>8
    <1>11. ASSUME NEW i \in 0..n, i < n, i \in D PROVE i + 1 \in D
        <2>1. i + 1 \in 1..n /\ (i + 1) - 1 = i /\ i + 1 \in 0..n /\ i + 1 # 0
            BY <1>0, <1>11
        <2>2. absorbed[i + 1] = Step(absorbed[i], i + 1)
            BY <1>6, <1>8, <2>1
        <2> QED
            BY <1>4, <1>11, <2>1, <2>2
    <1>12. 0..n \subseteq D
        <2> HIDE DEF D
        <2> QED
            BY <1>0, <1>10, <1>11, UpTo
    <1> QED
        BY <1>0, <1>5, <1>9, <1>12

Longer(c, n, k) == k \in Nat /\ n \in Nat /\ c = k + n

\* The hypotheses of the next lemma: n announcements a after t1 leave what k + n
\* announcements b after t2 leave.
Matched(t1, t2, m0, m1, n, k, c, a, b, f) ==
    /\ Given(t1, m0, m1, n, a) /\ Given(t2, m0, m1, c, b) /\ Longer(c, n, k)
    /\ Announces(t2, m0, m1, c, b, f)
    /\ AbsorbAnnouncements(t1, <<m0>>, <<m1>>, a) = f[c]

\* Announcements of more bits than others end like those; what is in front of the
\* others is in front of the last ones.
LEMMA AnnouncementsCut ==
    ASSUME NEW t1, NEW t2, NEW m0, NEW m1, NEW n, NEW k, NEW c, NEW a, NEW b, NEW f,
           Matched(t1, t2, m0, m1, n, k, c, a, b, f)
    PROVE  t1 = f[k] /\ \A i \in 1..n : a[i] = b[k + i]
    <1>a. /\ Given(t1, m0, m1, n, a) /\ Given(t2, m0, m1, c, b) /\ Longer(c, n, k)
          /\ Announces(t2, m0, m1, c, b, f)
          /\ AbsorbAnnouncements(t1, <<m0>>, <<m1>>, a) = f[c]
        BY DEF Matched
    <1>0. /\ t1 \in Txt /\ t2 \in Txt /\ m0 \in Marks /\ m1 \in Marks /\ n \in Nat
          /\ k \in Nat /\ c = k + n
          /\ a \in [1..n -> WirePoints \X WirePoints] /\ b \in [1..(k + n) -> WirePoints \X WirePoints]
        BY <1>a DEF Given, Longer
    <1>1. PICK g : Announces(t1, m0, m1, n, a, g)
                   /\ AbsorbAnnouncements(t1, <<m0>>, <<m1>>, a) = g[n]
        BY <1>a, AbsorbAnnouncementsIs
    <1> DEFINE D == {j \in 0..n : g[n - j] = f[k + n - j]
                                  /\ \A i \in (n - j + 1)..n : a[i] = b[k + i]}
    <1>2. 0 \in D
        BY <1>0, <1>1, <1>a
    <1>3. ASSUME NEW j \in 0..n, j < n, j \in D PROVE j + 1 \in D
        <2> DEFINE i == n - j
        <2>1. /\ i \in 1..n /\ i - 1 \in 0..n /\ n - (j + 1) = i - 1 /\ j + 1 \in 0..n
              /\ k + n - j = k + i /\ k + n - (j + 1) = (k + i) - 1
              /\ k + i \in 1..(k + n) /\ (k + i) - 1 \in 0..(k + n)
            <3>1. n \in Nat /\ k \in Nat /\ j \in 0..n /\ j < n
                BY <1>0, <1>3
            <3> HIDE DEF D
            <3> QED
                BY <3>1
        <2>2. g[i] = f[k + i] /\ \A l \in (i + 1)..n : a[l] = b[k + l]
            BY <1>3, <2>1
        <2> HIDE DEF i
        <2> DEFINE x == g[i - 1]
                   y == f[(k + i) - 1]
                   v == a[i]
                   w == b[k + i]
        <2>3. g[i] = Pair(x, m0, m1, v) /\ x \in Txt /\ v \in WirePoints \X WirePoints
            BY <1>0, <1>1, <2>1 DEF Announces
        <2>4. f[k + i] = Pair(y, m0, m1, w) /\ y \in Txt /\ w \in WirePoints \X WirePoints
            BY <1>0, <1>a, <2>1 DEF Announces
        <2> HIDE DEF x, y, v, w
        <2>5. Pair(x, m0, m1, v) = Pair(y, m0, m1, w)
            BY <2>2, <2>3, <2>4
        <2>6. x = y /\ v = w
            BY <1>0, <2>3, <2>4, <2>5, PairCut
        <2>7. ASSUME NEW l \in ((i - 1) + 1)..n PROVE a[l] = b[k + l]
            <3>1. l = i \/ l \in (i + 1)..n
                BY <2>1
            <3> QED
                BY <2>2, <2>6, <3>1 DEF v, w
        <2> QED
            BY <2>1, <2>6, <2>7 DEF x, y
    <1>4. 0..n \subseteq D
        <2> HIDE DEF D
        <2> QED
            BY <1>0, <1>2, <1>3, UpTo
    <1>5. n \in D
        <2> HIDE DEF D
        <2> QED
            BY <1>0, <1>4
    <1>6. g[0] = f[k] /\ \A i \in 1..n : a[i] = b[k + i]
        BY <1>0, <1>5
    <1> QED
        BY <1>1, <1>6 DEF Announces

\* The last announcement carries its label.
LEMMA AnnouncementsEnd ==
    ASSUME NEW ts, NEW m0, NEW m1, NEW n, NEW j \in 1..n, NEW a, NEW g,
           Given(ts, m0, m1, n, a), Announces(ts, m0, m1, n, a, g)
    PROVE  \E u \in Txt : \E p \in WirePoints : g[j] = AbsorbPoint(u, <<m1>>, p)
    <1>0. /\ ts \in Txt /\ m0 \in Marks /\ m1 \in Marks /\ n \in Nat
          /\ a \in [1..n -> WirePoints \X WirePoints]
        BY DEF Given
    <1> DEFINE x == g[j - 1]
               p == a[j][1]
               q == a[j][2]
    <1>1. j - 1 \in 0..n
        BY <1>0
    <1>2. x \in Txt /\ p \in WirePoints /\ q \in WirePoints
        BY <1>0, <1>1 DEF Announces
    <1>3. g[j] = AbsorbPoint(AbsorbPoint(x, <<m0>>, p), <<m1>>, q)
        BY DEF Announces, Pair
    <1> HIDE DEF x, p, q
    <1>4. AbsorbPoint(x, <<m0>>, p) \in Txt
        BY <1>0, <1>2, AbsorbPointType
    <1> QED
        BY <1>2, <1>3, <1>4

\* What AbsorbAnnouncements leaves is a transcript.
LEMMA AnnouncedType ==
    ASSUME NEW ts, NEW m0, NEW m1, NEW n, NEW ann, Given(ts, m0, m1, n, ann)
    PROVE  AbsorbAnnouncements(ts, <<m0>>, <<m1>>, ann) \in Txt
    <1>1. PICK g : Announces(ts, m0, m1, n, ann, g)
                   /\ AbsorbAnnouncements(ts, <<m0>>, <<m1>>, ann) = g[n]
        BY AbsorbAnnouncementsIs
    <1>2. n \in 0..n
        BY DEF Given
    <1> QED
        BY <1>1, <1>2 DEF Announces

\* From a transcript that ends with the announcements of as many bits as given, the
\* one before them and the announcements are known.
LEMMA SameNumberCut ==
    ASSUME NEW x, NEW y, NEW m0, NEW m1, NEW n, NEW a, NEW b,
           Given(x, m0, m1, n, a), Given(y, m0, m1, n, b),
           AbsorbAnnouncements(x, <<m0>>, <<m1>>, a) = AbsorbAnnouncements(y, <<m0>>, <<m1>>, b)
    PROVE  x = y /\ a = b
    <1>1. PICK f : /\ Announces(y, m0, m1, n, b, f)
                   /\ AbsorbAnnouncements(y, <<m0>>, <<m1>>, b) = f[n]
        BY AbsorbAnnouncementsIs
    <1>2. f[0] = y
        BY <1>1 DEF Announces
    <1>3. a \in [1..n -> WirePoints \X WirePoints] /\ b \in [1..n -> WirePoints \X WirePoints] /\ n \in Nat
        BY DEF Given
    <1> DEFINE z == 0
               l == z + n
    <1>4. z \in Nat /\ l = n /\ z = 0 /\ \A i \in 1..n : z + i = i
        BY <1>3
    <1> HIDE DEF z
    <1>5. Longer(n, n, z) /\ AbsorbAnnouncements(x, <<m0>>, <<m1>>, a) = f[n]
        BY <1>1, <1>3, <1>4 DEF Longer
    <1>6. Matched(x, y, m0, m1, n, z, n, a, b, f)
        BY <1>1, <1>5 DEF Matched
    <1>7. x = f[z] /\ \A i \in 1..n : a[i] = b[z + i]
        BY <1>6, AnnouncementsCut
    <1> QED
        BY <1>2, <1>3, <1>4, <1>7

\* The announcements of both halves, with the four labels in l.
Both(ts, l, annv, annd) ==
    AbsorbAnnouncements(AbsorbAnnouncements(ts, <<l[1]>>, <<l[2]>>, annv),
                        <<l[3]>>, <<l[4]>>, annd)

\* The hypotheses of the lemmas about them.
BothGiven(ts, l, n, annv, annd) ==
    /\ Given(ts, l[1], l[2], n, annv) /\ Given(ts, l[3], l[4], n, annd)
    /\ n # 0 /\ l[2] # l[4]

\* Neither side has more of them.
LEMMA NotMore ==
    ASSUME NEW t1, NEW t2, NEW l, NEW n, NEW k, NEW c, NEW av, NEW ad, NEW bv, NEW bd,
           BothGiven(t1, l, n, av, ad), BothGiven(t2, l, c, bv, bd), Longer(c, n, k),
           Both(t1, l, av, ad) = Both(t2, l, bv, bd)
    PROVE  k = 0
    <1> DEFINE m0 == l[1]
               m1 == l[2]
               m2 == l[3]
               m3 == l[4]
               u1 == AbsorbAnnouncements(t1, <<m0>>, <<m1>>, av)
               u2 == AbsorbAnnouncements(t2, <<m0>>, <<m1>>, bv)
    <1>0. /\ Given(t1, m0, m1, n, av) /\ Given(t1, m2, m3, n, ad)
          /\ Given(t2, m0, m1, c, bv) /\ Given(t2, m2, m3, c, bd)
          /\ n # 0 /\ m1 # m3
        BY DEF BothGiven
    <1>1. u1 \in Txt /\ u2 \in Txt
        BY <1>0, AnnouncedType
    <1>2. PICK g : Announces(t1, m0, m1, n, av, g) /\ u1 = g[n]
        BY <1>0, AbsorbAnnouncementsIs
    <1>3. AbsorbAnnouncements(u1, <<m2>>, <<m3>>, ad) = AbsorbAnnouncements(u2, <<m2>>, <<m3>>, bd)
        BY DEF Both
    <1> HIDE DEF u1, u2, m0, m1, m2, m3
    <1>4. Given(u1, m2, m3, n, ad) /\ Given(u2, m2, m3, c, bd) /\ n \in Nat
        BY <1>0, <1>1 DEF Given
    <1>5. PICK f : /\ Announces(u2, m2, m3, c, bd, f)
                   /\ AbsorbAnnouncements(u2, <<m2>>, <<m3>>, bd) = f[c]
        BY <1>4, AbsorbAnnouncementsIs
    <1>6. u1 = f[k]
        <2>1. AbsorbAnnouncements(u1, <<m2>>, <<m3>>, ad) = f[c]
            BY <1>3, <1>5
        <2>2. Matched(u1, u2, m2, m3, n, k, c, ad, bd, f)
            BY <1>4, <1>5, <2>1 DEF Matched
        <2> QED
            BY <2>2, AnnouncementsCut
    <1>7. n \in 1..n /\ (k # 0 => k \in 1..c)
        BY <1>0, <1>4 DEF Longer
    <1>8. PICK u \in Txt : \E p \in WirePoints : g[n] = AbsorbPoint(u, <<m1>>, p)
        BY <1>0, <1>2, <1>7, AnnouncementsEnd
    <1>9. PICK p \in WirePoints : g[n] = AbsorbPoint(u, <<m1>>, p)
        BY <1>8
    <1>10. ASSUME k # 0 PROVE FALSE
        <2>1. k \in 1..c
            BY <1>7, <1>10
        <2>2. PICK v \in Txt : \E q \in WirePoints : f[k] = AbsorbPoint(v, <<m3>>, q)
            BY <1>4, <1>5, <2>1, AnnouncementsEnd
        <2>3. PICK q \in WirePoints : f[k] = AbsorbPoint(v, <<m3>>, q)
            BY <2>2
        <2>4. AbsorbPoint(u, <<m1>>, p) = AbsorbPoint(v, <<m3>>, q)
            BY <1>2, <1>6, <1>9, <2>3
        <2>5. m1 \in Marks /\ m3 \in Marks
            BY <1>0 DEF Given
        <2>6. m1 = m3
            BY <2>4, <2>5, AbsorbPointCut
        <2> QED
            BY <1>0, <2>6
    <1> QED
        BY <1>10

\* From the announcements of both halves their number, what is before them and the
\* announcements are known, although no length is written in front of them.
LEMMA BothCut ==
    ASSUME NEW t1, NEW t2, NEW l, NEW n, NEW k, NEW av, NEW ad, NEW bv, NEW bd,
           BothGiven(t1, l, n, av, ad), BothGiven(t2, l, k, bv, bd),
           Both(t1, l, av, ad) = Both(t2, l, bv, bd)
    PROVE  n = k /\ t1 = t2 /\ av = bv /\ ad = bd
    <1>0. n \in Nat /\ k \in Nat
        BY DEF BothGiven, Given
    <1>1. n = k
        <2>1. CASE n <= k
            <3> DEFINE d == k - n
            <3>1. d \in Nat /\ k = d + n /\ Longer(k, n, d)
                BY <1>0, <2>1 DEF Longer
            <3> HIDE DEF d
            <3>2. d = 0
                BY <3>1, NotMore
            <3> QED
                BY <1>0, <3>1, <3>2
        <2>2. CASE k <= n
            <3> DEFINE d == n - k
            <3>1. d \in Nat /\ n = d + k /\ Longer(n, k, d)
                BY <1>0, <2>2 DEF Longer
            <3> HIDE DEF d
            <3>2. d = 0
                BY <3>1, NotMore
            <3> QED
                BY <1>0, <3>1, <3>2
        <2> QED
            BY <1>0, <2>1, <2>2
    <1> DEFINE m0 == l[1]
               m1 == l[2]
               m2 == l[3]
               m3 == l[4]
               u1 == AbsorbAnnouncements(t1, <<m0>>, <<m1>>, av)
               u2 == AbsorbAnnouncements(t2, <<m0>>, <<m1>>, bv)
    <1>2. /\ Given(t1, m0, m1, n, av) /\ Given(t1, m2, m3, n, ad)
          /\ Given(t2, m0, m1, n, bv) /\ Given(t2, m2, m3, n, bd)
        BY <1>1 DEF BothGiven
    <1>3. u1 \in Txt /\ u2 \in Txt
        BY <1>2, AnnouncedType
    <1>4. AbsorbAnnouncements(u1, <<m2>>, <<m3>>, ad) = AbsorbAnnouncements(u2, <<m2>>, <<m3>>, bd)
        BY DEF Both
    <1>5. Given(u1, m2, m3, n, ad) /\ Given(u2, m2, m3, n, bd)
        <2> HIDE DEF u1, u2, m0, m1, m2, m3
        <2> QED
            BY <1>2, <1>3 DEF Given
    <1>6. u1 = u2 /\ ad = bd
        <2> HIDE DEF u1, u2, m0, m1, m2, m3
        <2> QED
            BY <1>4, <1>5, SameNumberCut
    <1>7. t1 = t2 /\ av = bv
        <2> HIDE DEF m0, m1, m2, m3
        <2> QED
            BY <1>2, <1>6, SameNumberCut
    <1> QED
        BY <1>1, <1>6, <1>7

-----------------------------------------------------------------------------
(* Framing: any number of items *)

\* What is absorbed of a context: labels and texts.
Items(n, ls, ds) ==
    /\ n \in Nat /\ \A i \in 1..n : Fits(ls[i]) /\ Fits(ds[i])

\* What they leave, item by item.
Absorbing(ts, n, ls, ds, g) ==
    /\ ts \in Txt /\ Items(n, ls, ds)
    /\ g \in [0..n -> Txt] /\ g[0] = ts
    /\ \A i \in 1..n : g[i] = Absorb(g[i - 1], ls[i], ds[i])

\* What was absorbed first stays in front.
LEMMA FrontStays ==
    ASSUME NEW ts, NEW n, NEW ls, NEW ds, NEW g, Absorbing(ts, n, ls, ds, g), NEW i \in 0..n
    PROVE  \E r \in Txt : g[n] = Cat(g[i], r)
    <1>0. /\ n \in Nat /\ \A k \in 1..n : Fits(ls[k]) /\ Fits(ds[k])
          /\ g \in [0..n -> Txt]
          /\ \A k \in 1..n : g[k] = Absorb(g[k - 1], ls[k], ds[k])
        BY DEF Absorbing, Items
    <1> DEFINE Q(x) == \E r \in Txt : g[n] = Cat(x, r)
               D == {j \in 0..n : Q(g[n - j])}
    <1>1. 0 \in D
        <2>1. <<>> \in Txt /\ g[n] \in Txt /\ n - 0 = n
            BY <1>0 DEF Txt
        <2>2. Cat(g[n], <<>>) = g[n]
            BY <2>1, ConcatEmptySeq DEF Txt, Cat
        <2> QED
            BY <1>0, <2>1, <2>2
    <1>2. ASSUME NEW j \in 0..n, j < n, j \in D PROVE j + 1 \in D
        <2> DEFINE k == n - j
        <2>1. k \in 1..n /\ k - 1 \in 0..n /\ n - (j + 1) = k - 1 /\ j + 1 \in 0..n
            BY <1>0, <1>2
        <2>2. Q(g[k])
            BY <1>2
        <2> HIDE DEF k
        <2> DEFINE x == g[k - 1]
                   l == ls[k]
                   d == ds[k]
        <2>3. g[k] = Absorb(x, l, d) /\ x \in Txt /\ Fits(l) /\ Fits(d)
            BY <1>0, <2>1
        <2>4. PICK r \in Txt : g[n] = Cat(g[k], r)
            BY <2>2
        <2> HIDE DEF x, l, d
        <2> DEFINE u == Units(Len(l))
                   w == Cat(u, Rest(l, d, r))
        <2>5. Cat(Absorb(x, l, d), r) = Cat(x, w) /\ w \in Txt
            BY <2>3, RestOf
        <2> HIDE DEF w
        <2>6. Q(x)
            BY <2>3, <2>4, <2>5
        <2> HIDE DEF Q
        <2> QED
            BY <2>1, <2>6 DEF x
    <1>3. 0..n \subseteq D
        <2> HIDE DEF D
        <2> QED
            BY <1>0, <1>1, <1>2, UpTo
    <1>4. n - i \in D /\ n - (n - i) = i
        <2> HIDE DEF D
        <2> QED
            BY <1>0, <1>3
    <1> QED
        BY <1>4

\* The hypotheses of the next two lemmas.
SameEnd(ts, n, l1, d1, g, k, l2, d2, f) ==
    /\ Absorbing(ts, n, l1, d1, g) /\ Absorbing(ts, k, l2, d2, f)
    /\ g[n] = f[k] /\ n <= k

\* Contexts that leave the same transcript have the same items.
LEMMA SameItems ==
    ASSUME NEW ts, NEW n, NEW l1, NEW d1, NEW g, NEW k, NEW l2, NEW d2, NEW f,
           SameEnd(ts, n, l1, d1, g, k, l2, d2, f)
    PROVE  g[n] = f[n] /\ \A i \in 1..n : l1[i] = l2[i] /\ d1[i] = d2[i]
    <1>0. /\ n \in Nat /\ k \in Nat /\ n <= k /\ g[n] = f[k] /\ g[0] = f[0]
          /\ g \in [0..n -> Txt] /\ f \in [0..k -> Txt]
          /\ \A i \in 1..n : Fits(l1[i]) /\ Fits(d1[i]) /\ g[i] = Absorb(g[i - 1], l1[i], d1[i])
          /\ \A i \in 1..k : Fits(l2[i]) /\ Fits(d2[i]) /\ f[i] = Absorb(f[i - 1], l2[i], d2[i])
        BY DEF SameEnd, Absorbing, Items
    <1>a. Absorbing(ts, n, l1, d1, g) /\ Absorbing(ts, k, l2, d2, f)
        BY DEF SameEnd
    <1> DEFINE S(i) == l1[i] = l2[i] /\ d1[i] = d2[i]
               D == {j \in 0..n : g[j] = f[j] /\ \A i \in 1..j : S(i)}
    <1>1. 0 \in D
        BY <1>0
    <1>2. ASSUME NEW j \in 0..n, j < n, j \in D PROVE j + 1 \in D
        <2> DEFINE i == j + 1
        <2>1. /\ i \in 1..n /\ i \in 1..k /\ i - 1 = j /\ i \in 0..n /\ i \in 0..k /\ j \in 0..k
              /\ \A m \in 1..i : m \in 1..j \/ m = i
            BY <1>0, <1>2
        <2>2. g[j] = f[j] /\ \A m \in 1..j : S(m)
            BY <1>2
        <2> HIDE DEF i, S
        <2> DEFINE x == g[j]
                   p == l1[i]
                   q == d1[i]
                   v == l2[i]
                   w == d2[i]
        <2>3. g[i] = Absorb(x, p, q) /\ Fits(p) /\ Fits(q) /\ x \in Txt
            BY <1>0, <2>1
        <2>4. f[i] = Absorb(x, v, w) /\ Fits(v) /\ Fits(w)
            BY <1>0, <2>1, <2>2
        <2>5. PICK r1 \in Txt : g[n] = Cat(g[i], r1)
            BY <1>a, <2>1, FrontStays
        <2>6. PICK r2 \in Txt : f[k] = Cat(f[i], r2)
            BY <1>a, <2>1, FrontStays
        <2> HIDE DEF x, p, q, v, w
        <2>7. Cat(Absorb(x, p, q), r1) = Cat(Absorb(x, v, w), r2)
            BY <1>0, <2>3, <2>4, <2>5, <2>6
        <2>8. p = v /\ q = w
            BY <2>3, <2>4, <2>7, AbsorbParse
        <2>9. g[i] = f[i] /\ S(i)
            BY <2>3, <2>4, <2>8 DEF S, p, q, v, w
        <2>10. i \in D
            BY <2>1, <2>2, <2>9
        <2> QED
            BY <2>10 DEF i
    <1>3. 0..n \subseteq D
        <2> HIDE DEF D
        <2> QED
            BY <1>0, <1>1, <1>2, UpTo
    <1>4. n \in D
        <2> HIDE DEF D
        <2> QED
            BY <1>0, <1>3
    <1> QED
        BY <1>4

\* ... and as many.
LEMMA SameNumber ==
    ASSUME NEW ts, NEW n, NEW l1, NEW d1, NEW g, NEW k, NEW l2, NEW d2, NEW f,
           SameEnd(ts, n, l1, d1, g, k, l2, d2, f)
    PROVE  n = k
    <1>0. /\ n \in Nat /\ k \in Nat /\ n <= k /\ g[n] = f[k]
          /\ g \in [0..n -> Txt] /\ f \in [0..k -> Txt]
          /\ \A i \in 1..k : Fits(l2[i]) /\ Fits(d2[i]) /\ f[i] = Absorb(f[i - 1], l2[i], d2[i])
        BY DEF SameEnd, Absorbing, Items
    <1>1. Absorbing(ts, k, l2, d2, f)
        BY DEF SameEnd
    <1>2. g[n] = f[n]
        BY SameItems
    <1> SUFFICES ASSUME n # k PROVE FALSE
        OBVIOUS
    <1> DEFINE i == n + 1
    <1>3. i \in 1..k /\ i \in 0..k /\ i - 1 = n /\ n \in 0..k
        BY <1>0
    <1> HIDE DEF i
    <1>4. PICK r \in Txt : f[k] = Cat(f[i], r)
        BY <1>1, <1>3, FrontStays
    <1> DEFINE x == f[n]
               y == f[i]
               l == l2[i]
               d == d2[i]
    <1>5. y = Absorb(x, l, d) /\ x \in Txt /\ y \in Txt /\ Fits(l) /\ Fits(d)
        BY <1>0, <1>3
    <1>6. x = Cat(y, r)
        BY <1>0, <1>2, <1>4
    <1> HIDE DEF x, y, l, d
    <1>7. Len(y) = Len(x) + 2 + Len(l) + Len(d) /\ Len(x) \in Nat /\ Len(l) \in Nat /\ Len(d) \in Nat
        BY <1>5, AbsorbType
    <1>8. Len(Cat(y, r)) = Len(y) + Len(r) /\ Len(r) \in Nat
        BY <1>5, Join
    <1>9. Len(x) = Len(Cat(y, r))
        BY <1>6
    <1> HIDE DEF Cat
    <1> QED
        BY <1>7, <1>8, <1>9

-----------------------------------------------------------------------------
(* Framing: the context *)

CtxMark == "ctx/"
\* The labels, and the texts, that bind_context absorbs of a context.
CtxLabels(c) == [i \in 1..Len(c) |-> Cat(<<CtxMark>>, c[i].key)]
CtxTexts(c) == [i \in 1..Len(c) |-> c[i].value.text]

\* A text is one of those that can be hashed.
LEMMA TextIsTxt ==
    ASSUME NEW s \in Text
    PROVE  s \in Txt
    <1>1. s \in Seq(Character) /\ \A i \in 1..Len(s) : s[i] \in Alphabet
        BY DEF Text, Alphabet
    <1> HIDE DEF Alphabet, Character
    <1> QED
        BY <1>1 DEF Txt

\* Its parts fit.
LEMMA ContextItems ==
    ASSUME NEW c \in Contexts
    PROVE  /\ Items(Len(c), CtxLabels(c), CtxTexts(c))
           /\ \A i \in 1..Len(c) : c[i].key \in Txt
    <1>1. /\ c \in Seq([key : Text, value : Value])
          /\ \A i \in 1..Len(c) : {Len(c[i].key) + 1, Len(c[i].value.text)} \subseteq Writable
        BY TranscriptAssumption
    <1>2. Len(c) \in Nat
        BY <1>1
    <1>3. ASSUME NEW i \in 1..Len(c)
          PROVE  c[i].key \in Txt /\ Fits(CtxLabels(c)[i]) /\ Fits(CtxTexts(c)[i])
        <2> DEFINE k == c[i].key
                   v == c[i].value.text
        <2>1. c[i] \in [key : Text, value : Value]
            <3> DEFINE R == [key : Text, value : Value]
            <3>1. c \in Seq(R)
                BY <1>1
            <3> HIDE DEF R
            <3>2. c[i] \in R
                BY <3>1
            <3> QED
                BY <3>2 DEF R
        <2>2. k \in Text /\ v \in Text
            BY <2>1 DEF Value
        <2>3. Len(k) + 1 \in Writable /\ Len(v) \in Writable
            BY <1>1
        <2>4. CtxLabels(c)[i] = Cat(<<CtxMark>>, k) /\ CtxTexts(c)[i] = v
            BY DEF CtxLabels, CtxTexts
        <2> HIDE DEF k, v
        <2>5. k \in Txt /\ v \in Txt
            BY <2>2, TextIsTxt
        <2>6. CtxMark \in Marks
            BY DEF CtxMark, Marks
        <2>7. <<CtxMark>> \in Txt /\ Len(<<CtxMark>>) = 1
            BY <2>6, MarkFits
        <2> DEFINE m == <<CtxMark>>
        <2> HIDE DEF m
        <2>8. Cat(m, k) \in Txt /\ Len(Cat(m, k)) = Len(m) + Len(k) /\ Len(k) \in Nat
            BY <2>5, <2>7, Join DEF m
        <2>9. Len(Cat(m, k)) = Len(k) + 1
            <3> DEFINE z == Cat(m, k)
            <3>1. Len(z) = Len(m) + Len(k) /\ Len(k) \in Nat /\ Len(m) = 1
                BY <2>7, <2>8 DEF m
            <3> HIDE DEF z
            <3>2. Len(z) = Len(k) + 1
                BY <3>1
            <3> QED
                BY <3>2 DEF z
        <2>10. Fits(Cat(m, k)) /\ Fits(v)
            BY <2>3, <2>5, <2>8, <2>9 DEF Fits
        <2> QED
            BY <2>4, <2>5, <2>10 DEF m, k
    <1> QED
        BY <1>2, <1>3 DEF Items

\* bind_context, item by item.
LEMMA BindContextIs ==
    ASSUME NEW ts \in Txt, NEW c \in Contexts
    PROVE  \E g : /\ Absorbing(ts, Len(c), CtxLabels(c), CtxTexts(c), g)
                  /\ BindContext(ts, c) = g[Len(c)]
    <1> DEFINE n == Len(c)
               ls == CtxLabels(c)
               ds == CtxTexts(c)
               Step(x, i) == Absorb(x, ls[i], ds[i])
               st == [i \in 1..n |-> [x \in Txt |-> Step(x, i)]]
               W(f) == [i \in 0..n |-> IF i = 0 THEN ts ELSE Step(f[i - 1], i)]
               absorbed == CHOOSE f : f = W(f)
    <1>a. BindContext(ts, c) = absorbed[n]
        <2>1. ASSUME NEW f
              PROVE  W(f) = [i \in 0..Len(c) |->
                        IF i = 0 THEN ts
                        ELSE Absorb(f[i - 1], <<"ctx/">> \o c[i].key, c[i].value.text)]
            <3>1. ASSUME NEW i \in 0..Len(c), i # 0
                  PROVE  Step(f[i - 1], i)
                         = Absorb(f[i - 1], <<"ctx/">> \o c[i].key, c[i].value.text)
                <4>1. i \in 1..Len(c)
                    <5>1. Len(c) \in Nat
                        BY TranscriptAssumption
                    <5> QED
                        BY <3>1, <5>1
                <4> QED
                    BY <4>1 DEF CtxLabels, CtxTexts, CtxMark, Cat
            <3> HIDE DEF Step
            <3> QED
                BY <3>1
        <2> HIDE DEF W
        <2> QED
            BY <2>1 DEF BindContext
    <1>0. Items(n, ls, ds) /\ n \in Nat
        BY ContextItems DEF Items
    <1> HIDE DEF ls, ds, n
    <1>1. st \in [1..n -> [Txt -> Txt]]
        <2>1. ASSUME NEW i \in 1..n, NEW x \in Txt PROVE Step(x, i) \in Txt
            <3>1. Fits(ls[i]) /\ Fits(ds[i])
                BY <1>0 DEF Items
            <3> QED
                BY <3>1, AbsorbType
        <2> HIDE DEF Step
        <2> QED
            BY <2>1
    <1> HIDE DEF Step
    <1>2. Recursion(n, Txt, ts, st)
        <2> HIDE DEF st
        <2> QED
            BY <1>0, <1>1, RecursionExists
    <1>3. PICK g \in [0..n -> Txt] : g[0] = ts /\ \A i \in 1..n : g[i] = st[i][g[i - 1]]
        BY <1>2 DEF Recursion
    <1>4. ASSUME NEW i \in 1..n PROVE g[i] = Step(g[i - 1], i)
        <2>1. i - 1 \in 0..n
            BY <1>0
        <2>2. g[i - 1] \in Txt
            BY <1>3, <2>1
        <2> QED
            BY <1>3, <2>2
    <1>5. Absorbing(ts, n, ls, ds, g)
        BY <1>0, <1>3, <1>4 DEF Absorbing, Step
    <1>7. g = W(g)
        <2>1. ASSUME NEW i \in 0..n PROVE g[i] = IF i = 0 THEN ts ELSE Step(g[i - 1], i)
            <3>1. i = 0 \/ i \in 1..n
                BY <1>0
            <3> QED
                BY <1>3, <1>4, <3>1
        <2> QED
            BY <1>3, <2>1
    <1>8. absorbed = W(absorbed)
        <2> HIDE DEF W
        <2> QED
            BY <1>7
    <1> HIDE DEF absorbed
    <1> DEFINE D == {i \in 0..n : absorbed[i] = g[i]}
    <1>10. 0 \in D
        BY <1>0, <1>3, <1>8
    <1>11. ASSUME NEW i \in 0..n, i < n, i \in D PROVE i + 1 \in D
        <2>1. i + 1 \in 1..n /\ (i + 1) - 1 = i /\ i + 1 \in 0..n /\ i + 1 # 0
            BY <1>0, <1>11
        <2>2. absorbed[i + 1] = Step(absorbed[i], i + 1)
            BY <1>8, <2>1
        <2> QED
            BY <1>4, <1>11, <2>1, <2>2
    <1>12. 0..n \subseteq D
        <2> HIDE DEF D
        <2> QED
            BY <1>0, <1>10, <1>11, UpTo
    <1>13. absorbed[n] = g[n]
        BY <1>0, <1>12
    <1> QED
        BY <1>a, <1>5, <1>13 DEF n, ls, ds

\* What bind_context leaves is a transcript.
LEMMA BindContextType ==
    ASSUME NEW ts \in Txt, NEW c \in Contexts
    PROVE  BindContext(ts, c) \in Txt
    <1>1. PICK g : /\ Absorbing(ts, Len(c), CtxLabels(c), CtxTexts(c), g)
                   /\ BindContext(ts, c) = g[Len(c)]
        BY BindContextIs
    <1>2. Len(c) \in 0..Len(c)
        BY TranscriptAssumption
    <1> QED
        BY <1>1, <1>2 DEF Absorbing

\* From what it leaves, the context is known, but for the types of its values.
LEMMA BindContextCut ==
    ASSUME NEW ts \in Txt, NEW c1 \in Contexts, NEW c2 \in Contexts,
           BindContext(ts, c1) = BindContext(ts, c2)
    PROVE  Texts(c1) = Texts(c2)
    <1>1. ASSUME NEW a \in Contexts, NEW b \in Contexts,
                 BindContext(ts, a) = BindContext(ts, b), Len(a) <= Len(b)
          PROVE  Texts(a) = Texts(b)
        <2> DEFINE n == Len(a)
                   k == Len(b)
                   l1 == CtxLabels(a)
                   d1 == CtxTexts(a)
                   l2 == CtxLabels(b)
                   d2 == CtxTexts(b)
        <2>1. PICK g : Absorbing(ts, n, l1, d1, g) /\ BindContext(ts, a) = g[n]
            BY BindContextIs
        <2>2. PICK f : Absorbing(ts, k, l2, d2, f) /\ BindContext(ts, b) = f[k]
            BY BindContextIs
        <2>3. SameEnd(ts, n, l1, d1, g, k, l2, d2, f)
            BY <1>1, <2>1, <2>2 DEF SameEnd
        <2> HIDE DEF n, k, l1, d1, l2, d2
        <2>4. n = k /\ \A i \in 1..n : l1[i] = l2[i] /\ d1[i] = d2[i]
            BY <2>3, SameItems, SameNumber
        <2>5. Len(a) = Len(b)
            BY <2>4 DEF n, k
        <2>6. ASSUME NEW i \in 1..Len(a)
              PROVE  a[i].key = b[i].key /\ a[i].value.text = b[i].value.text
            <3> DEFINE p == a[i].key
                       q == b[i].key
                       m == <<CtxMark>>
            <3>1. p \in Txt /\ q \in Txt
                BY <2>5, ContextItems
            <3>2. Cat(m, p) = Cat(m, q) /\ a[i].value.text = b[i].value.text
                BY <2>4, <2>5 DEF n, l1, l2, d1, d2, CtxLabels, CtxTexts
            <3>3. CtxMark \in Marks
                BY DEF CtxMark, Marks
            <3>4. m \in Txt
                BY <3>3, MarkFits
            <3> HIDE DEF p, q, m
            <3>5. CutAt(m, m, p, q)
                BY <3>1, <3>4 DEF CutAt
            <3>6. p = q
                BY <3>2, <3>5, Cut
            <3> QED
                BY <3>2, <3>6 DEF p, q
        <2>7. DOMAIN a = 1..Len(a) /\ DOMAIN b = 1..Len(b)
            BY TranscriptAssumption
        <2> QED
            BY <2>5, <2>6, <2>7 DEF Texts
    <1>2. Len(c1) \in Nat /\ Len(c2) \in Nat
        BY TranscriptAssumption
    <1>3. Len(c1) <= Len(c2) \/ Len(c2) <= Len(c1)
        BY <1>2
    <1> QED
        BY <1>1, <1>3

-----------------------------------------------------------------------------
(* Framing: what a question is about *)

\* The labels of a range proof.
DomainMark == "domain"
BitorMark == "bitor"
CapMark == "cap"
NbitsMark == "nbits"
CvMark == "Cv"
CdMark == "Cd"
AnnouncementMarks == <<"a0v", "a1v", "a0d", "a1d">>
ChallengeMark == "||challenge||"
EMark == "e"

\* They are labels, and the announcements of the two halves end differently.
LEMMA RangeMarks ==
    /\ DomainMark \in Marks /\ BitorMark \in Marks /\ CapMark \in Marks /\ NbitsMark \in Marks
    /\ CvMark \in Marks /\ CdMark \in Marks /\ ChallengeMark \in Marks /\ EMark \in Marks
    /\ AnnouncementMarks[1] \in Marks /\ AnnouncementMarks[2] \in Marks
    /\ AnnouncementMarks[3] \in Marks /\ AnnouncementMarks[4] \in Marks
    /\ AnnouncementMarks[2] # AnnouncementMarks[4]
    BY DEF DomainMark, BitorMark, CapMark, NbitsMark, CvMark, CdMark, ChallengeMark, EMark,
           AnnouncementMarks, Marks

\* A transcript of its own.
LEMMA TranscriptType ==
    ASSUME NEW d, Fits(d)
    PROVE  Transcript(d) \in Txt
    <1> DEFINE l == <<DomainMark>>
    <1>1. Fits(l)
        BY RangeMarks, MarkFits
    <1>2. <<>> \in Txt
        BY DEF Txt
    <1>3. Transcript(d) = Absorb(<<>>, l, d)
        BY DEF Transcript, DomainMark
    <1> HIDE DEF l
    <1> QED
        BY <1>1, <1>2, <1>3, AbsorbType

\* The transcript before the points, and before the announcements.
Headed(c, cap, n) ==
    AbsorbInt(AbsorbInt(BindContext(Transcript(<<BitorMark>>), c), <<CapMark>>, cap),
              <<NbitsMark>>, n)

\* With the commitments.
Pointed(c, cap, n, Cv, Cd) ==
    AbsorbPoints(AbsorbPoints(Headed(c, cap, n), <<CvMark>>, Cv), <<CdMark>>, Cd)

\* What a range proof is asked about, by its parts.
Asked(c, cap, n, Cv, Cd, av, ad) ==
    /\ c \in Contexts /\ cap \in Writable /\ n \in Writable /\ n \in Nat \ {0}
    /\ Cv \in [1..n -> WirePoints] /\ Cd \in [1..n -> WirePoints]
    /\ av \in [1..n -> WirePoints \X WirePoints] /\ ad \in [1..n -> WirePoints \X WirePoints]

\* The question is the transcript with its announcements and an end.
LEMMA RangeQuestionIs ==
    ASSUME NEW c, NEW cap, NEW n, NEW Cv, NEW Cd, NEW av, NEW ad
    PROVE  RangeQuestion(c, cap, n, Cv, Cd, av, ad)
           = Cat(Cat(Both(Pointed(c, cap, n, Cv, Cd), AnnouncementMarks, av, ad),
                     <<ChallengeMark>>), <<EMark>>)
    BY DEF RangeQuestion, Question, Cat, Both, Pointed, Headed, AnnouncementMarks,
           ChallengeMark, EMark, BitorMark, CapMark, NbitsMark, CvMark, CdMark

\* Each part of it leaves a transcript.
LEMMA AskedTypes ==
    ASSUME NEW c, NEW cap, NEW n, NEW Cv, NEW Cd, NEW av, NEW ad,
           Asked(c, cap, n, Cv, Cd, av, ad)
    PROVE  /\ BindContext(Transcript(<<BitorMark>>), c) \in Txt
           /\ AbsorbInt(BindContext(Transcript(<<BitorMark>>), c), <<CapMark>>, cap) \in Txt
           /\ Headed(c, cap, n) \in Txt
           /\ AbsorbPoints(Headed(c, cap, n), <<CvMark>>, Cv) \in Txt
           /\ Pointed(c, cap, n, Cv, Cd) \in Txt
           /\ BothGiven(Pointed(c, cap, n, Cv, Cd), AnnouncementMarks, n, av, ad)
           /\ Both(Pointed(c, cap, n, Cv, Cd), AnnouncementMarks, av, ad) \in Txt
    <1> DEFINE b == <<BitorMark>>
               t == Transcript(b)
               t0 == BindContext(t, c)
               t1 == AbsorbInt(t0, <<CapMark>>, cap)
               t2 == AbsorbInt(t1, <<NbitsMark>>, n)
               t3 == AbsorbPoints(t2, <<CvMark>>, Cv)
               t4 == AbsorbPoints(t3, <<CdMark>>, Cd)
               m1 == AnnouncementMarks[1]
               m2 == AnnouncementMarks[2]
               m3 == AnnouncementMarks[3]
               m4 == AnnouncementMarks[4]
               t5 == AbsorbAnnouncements(t4, <<m1>>, <<m2>>, av)
               t6 == AbsorbAnnouncements(t5, <<m3>>, <<m4>>, ad)
    <1>0. /\ c \in Contexts /\ cap \in Writable /\ n \in Writable /\ n \in Nat /\ n # 0
          /\ Cv \in [1..n -> WirePoints] /\ Cd \in [1..n -> WirePoints]
          /\ av \in [1..n -> WirePoints \X WirePoints] /\ ad \in [1..n -> WirePoints \X WirePoints]
        BY DEF Asked
    <1>a. m1 \in Marks /\ m2 \in Marks /\ m3 \in Marks /\ m4 \in Marks /\ m2 # m4
        BY RangeMarks
    <1>b. Fits(b)
        BY RangeMarks, MarkFits
    <1>1. t \in Txt
        <2> HIDE DEF b
        <2> QED
            BY <1>b, TranscriptType
    <1>2. t0 \in Txt
        <2> HIDE DEF t
        <2> QED
            BY <1>0, <1>1, BindContextType
    <1>3. t1 \in Txt
        <2> HIDE DEF t0
        <2> QED
            BY <1>0, <1>2, RangeMarks, AbsorbIntType
    <1>4. t2 \in Txt
        <2> HIDE DEF t1
        <2> QED
            BY <1>0, <1>3, RangeMarks, AbsorbIntType
    <1>5. t3 \in Txt
        <2> HIDE DEF t2
        <2> QED
            BY <1>0, <1>4, RangeMarks, AbsorbPointsType
    <1>6. t4 \in Txt
        <2> HIDE DEF t3
        <2> QED
            BY <1>0, <1>5, RangeMarks, AbsorbPointsType
    <1>7. Given(t4, m1, m2, n, av) /\ Given(t4, m3, m4, n, ad)
        <2> HIDE DEF t4, m1, m2, m3, m4
        <2> QED
            BY <1>0, <1>6, <1>a DEF Given
    <1>8. t5 \in Txt
        <2> HIDE DEF t4, m1, m2
        <2> QED
            BY <1>7, AnnouncedType
    <1>9. Given(t5, m3, m4, n, ad)
        <2> HIDE DEF t5, m3, m4
        <2> QED
            BY <1>0, <1>8, <1>a DEF Given
    <1>10. t6 \in Txt
        <2> HIDE DEF t5, m3, m4
        <2> QED
            BY <1>9, AnnouncedType
    <1>11. /\ Headed(c, cap, n) = t2 /\ Pointed(c, cap, n, Cv, Cd) = t4
           /\ Both(t4, AnnouncementMarks, av, ad) = t6
        BY DEF Headed, Pointed, Both
    <1>12. BothGiven(t4, AnnouncementMarks, n, av, ad)
        <2> HIDE DEF t4
        <2> QED
            BY <1>0, <1>7, <1>a DEF BothGiven
    <1> HIDE DEF t2, t4, t6
    <1> QED
        BY <1>2, <1>3, <1>4, <1>5, <1>6, <1>10, <1>11, <1>12 DEF t2, t4, t6

\* A question is about one claim only.
LEMMA RangeFraming ==
    ASSUME NEW c1, NEW p1, NEW n, NEW Cv1, NEW Cd1, NEW av1, NEW ad1,
           NEW c2, NEW p2, NEW k, NEW Cv2, NEW Cd2, NEW av2, NEW ad2,
           Asked(c1, p1, n, Cv1, Cd1, av1, ad1), Asked(c2, p2, k, Cv2, Cd2, av2, ad2),
           RangeQuestion(c1, p1, n, Cv1, Cd1, av1, ad1)
           = RangeQuestion(c2, p2, k, Cv2, Cd2, av2, ad2)
    PROVE  /\ Texts(c1) = Texts(c2) /\ p1 = p2 /\ n = k
           /\ Cv1 = Cv2 /\ Cd1 = Cd2 /\ av1 = av2 /\ ad1 = ad2
    <1> DEFINE t == Transcript(<<BitorMark>>)
               a0 == BindContext(t, c1)
               b0 == BindContext(t, c2)
               a1 == AbsorbInt(a0, <<CapMark>>, p1)
               b1 == AbsorbInt(b0, <<CapMark>>, p2)
               a2 == Headed(c1, p1, n)
               b2 == Headed(c2, p2, k)
               a3 == AbsorbPoints(a2, <<CvMark>>, Cv1)
               b3 == AbsorbPoints(b2, <<CvMark>>, Cv2)
               a4 == Pointed(c1, p1, n, Cv1, Cd1)
               b4 == Pointed(c2, p2, k, Cv2, Cd2)
               a5 == Both(a4, AnnouncementMarks, av1, ad1)
               b5 == Both(b4, AnnouncementMarks, av2, ad2)
               x == <<ChallengeMark>>
               y == <<EMark>>
    <1>0. /\ a0 \in Txt /\ a1 \in Txt /\ a2 \in Txt /\ a3 \in Txt /\ a4 \in Txt /\ a5 \in Txt
          /\ BothGiven(a4, AnnouncementMarks, n, av1, ad1)
        BY AskedTypes
    <1>1. /\ b0 \in Txt /\ b1 \in Txt /\ b2 \in Txt /\ b3 \in Txt /\ b4 \in Txt /\ b5 \in Txt
          /\ BothGiven(b4, AnnouncementMarks, k, av2, ad2)
        BY AskedTypes
    <1>2. Cat(Cat(a5, x), y) = Cat(Cat(b5, x), y)
        BY RangeQuestionIs
    <1>3. x \in Txt /\ y \in Txt
        BY RangeMarks, MarkFits
    <1>4. /\ a2 = AbsorbInt(a1, <<NbitsMark>>, n) /\ b2 = AbsorbInt(b1, <<NbitsMark>>, k)
          /\ a4 = AbsorbPoints(a3, <<CdMark>>, Cd1) /\ b4 = AbsorbPoints(b3, <<CdMark>>, Cd2)
        BY DEF Headed, Pointed
    <1>5. a5 = b5
        <2> HIDE DEF a5, b5, x, y
        <2>1. Cat(a5, x) \in Txt /\ Cat(b5, x) \in Txt
            BY <1>0, <1>1, <1>3, Join
        <2>2. CutAt(Cat(a5, x), Cat(b5, x), y, y) /\ CutAt(a5, b5, x, x)
            BY <1>0, <1>1, <1>3, <2>1 DEF CutAt
        <2>3. Cat(a5, x) = Cat(b5, x)
            BY <1>2, <2>2, Cut
        <2> QED
            BY <2>2, <2>3, Cut
    <1>6. n = k /\ a4 = b4 /\ av1 = av2 /\ ad1 = ad2
        <2> HIDE DEF a4, b4
        <2> QED
            BY <1>0, <1>1, <1>5, BothCut
    <1>7. /\ n \in Nat /\ n \in Writable /\ k \in Writable /\ p1 \in Writable /\ p2 \in Writable
          /\ Cv1 \in [1..n -> WirePoints] /\ Cv2 \in [1..n -> WirePoints]
          /\ Cd1 \in [1..n -> WirePoints] /\ Cd2 \in [1..n -> WirePoints]
          /\ c1 \in Contexts /\ c2 \in Contexts
        BY <1>6 DEF Asked
    <1>8. a3 = b3 /\ Cd1 = Cd2
        <2> DEFINE m == CdMark
        <2>1. /\ AbsorbPoints(a3, <<m>>, Cd1) = AbsorbPoints(b3, <<m>>, Cd2)
              /\ a3 \in Txt /\ b3 \in Txt /\ m \in Marks
            BY <1>0, <1>1, <1>4, <1>6, RangeMarks
        <2> HIDE DEF a3, b3, m
        <2> QED
            BY <1>7, <2>1, AbsorbPointsCut
    <1>9. a2 = b2 /\ Cv1 = Cv2
        <2> HIDE DEF a2, b2
        <2> QED
            BY <1>0, <1>1, <1>7, <1>8, RangeMarks, AbsorbPointsCut
    <1>10. a1 = b1
        <2> DEFINE m == NbitsMark
        <2>1. /\ AbsorbInt(a1, <<m>>, n) = AbsorbInt(b1, <<m>>, k)
              /\ a1 \in Txt /\ b1 \in Txt /\ m \in Marks
            BY <1>0, <1>1, <1>4, <1>9, RangeMarks
        <2> HIDE DEF a1, b1, m
        <2> QED
            BY <1>7, <2>1, AbsorbIntCut
    <1>11. a0 = b0 /\ p1 = p2
        <2> HIDE DEF a0, b0
        <2> QED
            BY <1>0, <1>1, <1>7, <1>10, RangeMarks, AbsorbIntCut
    <1>12. t \in Txt
        <2> DEFINE b == <<BitorMark>>
        <2>1. Fits(b)
            BY RangeMarks, MarkFits
        <2> HIDE DEF b
        <2>2. Transcript(b) \in Txt
            BY <2>1, TranscriptType
        <2> QED
            BY <2>2 DEF b
    <1>13. Texts(c1) = Texts(c2)
        <2> HIDE DEF t
        <2> QED
            BY <1>7, <1>11, <1>12, BindContextCut
    <1> QED
        BY <1>6, <1>8, <1>9, <1>11, <1>13

\* The labels of an identification.
BaseMark == "schnorr/base"
PubMark == "schnorr/pub"
AMark == "schnorr/a"
SchnorrEMark == "schnorr/e"

\* The question of an identification is about one claim only.
LEMMA SchnorrFraming ==
    ASSUME NEW d1, NEW b1 \in WirePoints, NEW p1 \in WirePoints, NEW a1 \in WirePoints,
           NEW d2, NEW b2 \in WirePoints, NEW p2 \in WirePoints, NEW a2 \in WirePoints,
           Fits(d1), Fits(d2),
           SchnorrQuestion(d1, b1, p1, a1) = SchnorrQuestion(d2, b2, p2, a2)
    PROVE  d1 = d2 /\ b1 = b2 /\ p1 = p2 /\ a1 = a2
    <1> DEFINE x == <<ChallengeMark>>
               y == <<SchnorrEMark>>
               t1 == Transcript(d1)
               t2 == Transcript(d2)
               u1 == AbsorbPoint(t1, <<BaseMark>>, b1)
               u2 == AbsorbPoint(t2, <<BaseMark>>, b2)
               v1 == AbsorbPoint(u1, <<PubMark>>, p1)
               v2 == AbsorbPoint(u2, <<PubMark>>, p2)
               w1 == AbsorbPoint(v1, <<AMark>>, a1)
               w2 == AbsorbPoint(v2, <<AMark>>, a2)
    <1>1. BaseMark \in Marks /\ PubMark \in Marks /\ AMark \in Marks /\ SchnorrEMark \in Marks
        BY DEF BaseMark, PubMark, AMark, SchnorrEMark, Marks
    <1>2. x \in Txt /\ y \in Txt
        BY <1>1, RangeMarks, MarkFits
    <1>3. Cat(Cat(w1, x), y) = Cat(Cat(w2, x), y)
        BY DEF SchnorrQuestion, Question, Cat, BaseMark, PubMark, AMark, SchnorrEMark,
               ChallengeMark
    <1>4. t1 \in Txt /\ t2 \in Txt
        BY TranscriptType
    <1> HIDE DEF t1, t2
    <1>5. u1 \in Txt /\ u2 \in Txt
        BY <1>1, <1>4, AbsorbPointType
    <1> HIDE DEF u1, u2
    <1>6. v1 \in Txt /\ v2 \in Txt
        BY <1>1, <1>5, AbsorbPointType
    <1> HIDE DEF v1, v2
    <1>7. w1 \in Txt /\ w2 \in Txt
        BY <1>1, <1>6, AbsorbPointType
    <1>8. w1 = w2
        <2> HIDE DEF w1, w2, x, y
        <2>1. Cat(w1, x) \in Txt /\ Cat(w2, x) \in Txt
            BY <1>2, <1>7, Join
        <2>2. CutAt(Cat(w1, x), Cat(w2, x), y, y) /\ CutAt(w1, w2, x, x)
            BY <1>2, <1>7, <2>1 DEF CutAt
        <2>3. Cat(w1, x) = Cat(w2, x)
            BY <1>3, <2>2, Cut
        <2> QED
            BY <2>2, <2>3, Cut
    <1>9. v1 = v2 /\ a1 = a2
        BY <1>1, <1>6, <1>8, AbsorbPointCut
    <1>10. u1 = u2 /\ p1 = p2
        BY <1>1, <1>5, <1>9, AbsorbPointCut DEF v1, v2
    <1>11. t1 = t2 /\ b1 = b2
        BY <1>1, <1>4, <1>10, AbsorbPointCut DEF u1, u2
    <1>12. d1 = d2
        <2> DEFINE l == <<DomainMark>>
                   o == <<>>
        <2>1. Fits(l) /\ o \in Txt
            BY RangeMarks, MarkFits DEF Txt
        <2>2. t1 = Absorb(o, l, d1) /\ t2 = Absorb(o, l, d2)
            BY DEF t1, t2, Transcript, DomainMark
        <2> HIDE DEF l, o
        <2>3. Cat(Absorb(o, l, d1), o) = Cat(Absorb(o, l, d2), o)
            BY <1>11, <2>2
        <2> QED
            BY <2>1, <2>3, AbsorbParse
    <1> QED
        BY <1>9, <1>10, <1>11, <1>12

\* So is that of a signature.
SigMark == "zkgw/sig/v1|"

\* What is hashed for a signature has no lengths in it, but both points are as long as
\* any: it is about one commitment, key and message only.
LEMMA SignatureFraming ==
    ASSUME NEW a1 \in WirePoints, NEW p1 \in WirePoints, NEW m1 \in Text,
           NEW a2 \in WirePoints, NEW p2 \in WirePoints, NEW m2 \in Text,
           SignatureQuestion(a1, p1, m1) = SignatureQuestion(a2, p2, m2)
    PROVE  a1 = a2 /\ p1 = p2 /\ m1 = m2
    <1> DEFINE s == <<SigMark>>
               x1 == PointUnits(a1)
               x2 == PointUnits(a2)
               y1 == PointUnits(p1)
               y2 == PointUnits(p2)
    <1>1. SigMark \in Marks
        BY DEF SigMark, Marks
    <1>2. s \in Txt
        BY <1>1, MarkFits
    <1>3. /\ x1 \in Txt /\ x2 \in Txt /\ y1 \in Txt /\ y2 \in Txt
          /\ Len(x1) = 2 /\ Len(x2) = 2 /\ Len(y1) = 2 /\ Len(y2) = 2
          /\ m1 \in Txt /\ m2 \in Txt
        BY PointUnitsFacts, TextIsTxt DEF Fits
    <1>4. Cat(Cat(Cat(s, x1), y1), m1) = Cat(Cat(Cat(s, x2), y2), m2)
        BY DEF SignatureQuestion, SigMark, Cat
    <1> HIDE DEF s, x1, x2, y1, y2
    <1>5. /\ Cat(s, x1) \in Txt /\ Cat(s, x2) \in Txt
          /\ Len(Cat(s, x1)) = Len(s) + 2 /\ Len(Cat(s, x2)) = Len(s) + 2
        <2>1. Cat(s, x1) \in Txt /\ Len(Cat(s, x1)) = Len(s) + Len(x1)
            BY <1>2, <1>3, Join
        <2>2. Cat(s, x2) \in Txt /\ Len(Cat(s, x2)) = Len(s) + Len(x2)
            BY <1>2, <1>3, Join
        <2> QED
            BY <1>3, <2>1, <2>2
    <1> DEFINE f1 == Cat(s, x1)
               f2 == Cat(s, x2)
               g1 == Cat(f1, y1)
               g2 == Cat(f2, y2)
    <1>6. f1 \in Txt /\ f2 \in Txt /\ Len(f1) = Len(f2)
        BY <1>5
    <1> HIDE DEF f1, f2
    <1>7. g1 \in Txt /\ g2 \in Txt /\ Len(g1) = Len(g2)
        <2>1. g1 \in Txt /\ Len(g1) = Len(f1) + Len(y1)
            BY <1>3, <1>6, Join
        <2>2. g2 \in Txt /\ Len(g2) = Len(f2) + Len(y2)
            BY <1>3, <1>6, Join
        <2> QED
            BY <1>3, <1>6, <2>1, <2>2
    <1> HIDE DEF g1, g2
    <1>8. g1 = g2 /\ m1 = m2
        <2>1. Cat(g1, m1) = Cat(g2, m2)
            BY <1>4 DEF f1, f2, g1, g2
        <2>2. CutAt(g1, g2, m1, m2)
            BY <1>3, <1>7 DEF CutAt
        <2> QED
            BY <2>1, <2>2, Cut
    <1>9. f1 = f2 /\ y1 = y2
        <2>1. CutAt(f1, f2, y1, y2)
            BY <1>3, <1>6 DEF CutAt
        <2> QED
            BY <1>8, <2>1, Cut DEF g1, g2
    <1>10. x1 = x2
        <2>1. CutAt(s, s, x1, x2)
            BY <1>2, <1>3 DEF CutAt
        <2> QED
            BY <1>9, <2>1, Cut DEF f1, f2
    <1> QED
        BY <1>8, <1>9, <1>10, PointUnitsFacts DEF x1, x2, y1, y2

-----------------------------------------------------------------------------
(* What is made and judged, and for what *)

\* What a proof is made for.
MadeFor ==
    made # Nothing =>
        /\ made.job = "range" => made.context = Own /\ made.cap \in Writable
        /\ made.job = "schnorr" => made.domain = <<"id">> /\ made.base \in {G, H}
        /\ made.job = "signature" => made.msg \in Messages

\* What an identification and a signature are judged as.
SchnorrShown(j) ==
    /\ \E response \in 0..(2 * N - 1) : j.proof = [made.proof EXCEPT !.response = response]
    /\ j.domain \in {made.domain, <<"id", "2">>}
    /\ j.base = made.base
    /\ j.public \in {made.public, G, H}

SignatureShown(j) ==
    /\ \E z \in 0..(2 * N - 1) : j.proof = <<made.proof[1], z>>
    /\ j.msg \in Messages
    /\ j.pub \in {made.pub, H}

\* What is judged beside what was made.
JudgedFrom ==
    judged # Nothing =>
        /\ judged.asked => judged.verdict \in {"accepted", "rejected"}
        /\ made.job = "range" => <<judged.sent, judged.cap, judged.context>> \in Presented
        /\ made.job = "schnorr" => SchnorrShown(judged)
        /\ made.job = "signature" => SignatureShown(judged)

\* Whatever makes, makes it for that.
LEMMA MakesFor ==
    ASSUME TypeOK, Make
    PROVE  MadeFor'
    <1>1. CASE \E nbits \in Widths : \E cap \in 0..Pow2[nbits], value \in 0..Pow2[nbits] :
                   ProveRangeLeq(value, cap, nbits, Own)
        <2>w. PICK n \in Widths : \E cap \in 0..Pow2[n], value \in 0..Pow2[n] :
                  ProveRangeLeq(value, cap, n, Own)
            BY <1>1
        <2>1. PICK cap \in 0..Pow2[n], value \in 0..Pow2[n] :
                  ProveRangeLeq(value, cap, n, Own)
            BY <2>w
        <2>2. MakeRangeProof(TRUE, Own, cap, Decompose(value, n), Decompose(cap - value, n))
            BY <2>1 DEF ProveRangeLeq
        <2>3. cap \in Writable
            BY <2>1 DEF ProveRangeLeq
        <2>4. made'.job = "range" /\ made'.context = Own /\ made'.cap = cap
            BY <2>2 DEF MakeRangeProof, RangeMade
        <2> QED
            BY <2>3, <2>4 DEF MadeFor
    <1>2. CASE \E claim \in Unchecked : ProveUnchecked(claim, Own)
        <2>1. PICK claim \in Unchecked : ProveUnchecked(claim, Own)
            BY <1>2
        <2>2. made'.job = "range" /\ made'.context = Own /\ made'.cap = claim.cap
            BY <2>1 DEF ProveUnchecked, MakeRangeProof, RangeMade
        <2>3. claim.cap \in Writable
            BY TranscriptAssumption
        <2> QED
            BY <2>2, <2>3 DEF MadeFor
    <1>3. CASE \E secret \in Blindings, w \in Blindings, base \in {G, H} :
                   Identify(<<"id">>, secret, base, w)
        <2>1. PICK secret \in Blindings, w \in Blindings, base \in {G, H} :
                   Identify(<<"id">>, secret, base, w)
            BY <1>3
        <2>2. /\ made'.job = "schnorr" /\ made'.domain = <<"id">> /\ made'.base = base
              /\ H' = H
            BY <2>1 DEF Identify, SchnorrMade
        <2> QED
            BY <2>2 DEF MadeFor
    <1>4. CASE \E secret \in Blindings, w \in Blindings, msg \in Messages :
                   SignMessage(secret, msg, w)
        <2>1. PICK secret \in Blindings, w \in Blindings, msg \in Messages :
                   SignMessage(secret, msg, w)
            BY <1>4
        <2>2. made'.job = "signature" /\ made'.msg = msg
            BY <2>1 DEF SignMessage, SignatureMade
        <2> QED
            BY <2>2 DEF MadeFor
    <1> QED
        BY <1>1, <1>2, <1>3, <1>4 DEF Make

\* Whatever judges, judges that.
LEMMA JudgesFrom ==
    ASSUME Judge
    PROVE  JudgedFrom' /\ UNCHANGED <<H, made>>
    <1>1. CASE /\ made.job = "range"
               /\ \E shown \in Presented : JudgeRange(shown[1], shown[2], shown[3])
        <2>1. PICK shown \in Presented : JudgeRange(shown[1], shown[2], shown[3])
            BY <1>1
        <2>2. shown = <<shown[1], shown[2], shown[3]>>
            BY <2>1 DEF Presented
        <2>3. /\ judged'.sent = shown[1] /\ judged'.cap = shown[2] /\ judged'.context = shown[3]
              /\ judged'.asked => judged'.verdict \in {"accepted", "rejected"}
              /\ UNCHANGED <<H, made>>
            <3> DEFINE raw == shown[1]
                       cap == shown[2]
                       context == shown[3]
            <3>1. JudgeRange(raw, cap, context)
                BY <2>1
            <3> HIDE DEF raw, cap, context
            <3>2. /\ judged'.sent = raw /\ judged'.cap = cap /\ judged'.context = context
                  /\ judged'.asked => judged'.verdict \in {"accepted", "rejected"}
                  /\ UNCHANGED <<H, made>>
                BY <3>1 DEF JudgeRange, Settle
            <3> QED
                BY <3>2 DEF raw, cap, context
        <2>4. Presented' = Presented
            BY <2>3 DEF Presented
        <2> QED
            BY <1>1, <2>1, <2>2, <2>3, <2>4 DEF JudgedFrom
    <1>2. CASE /\ made.job = "schnorr"
               /\ \E response \in 0..(2 * N - 1), domain \in {made.domain, <<"id", "2">>},
                     public \in {made.public, G, H} :
                      JudgeSchnorr([made.proof EXCEPT !.response = response],
                                   domain, made.base, public)
        <2>1. PICK response \in 0..(2 * N - 1), domain \in {made.domain, <<"id", "2">>},
                   public \in {made.public, G, H} :
                      JudgeSchnorr([made.proof EXCEPT !.response = response],
                                   domain, made.base, public)
            BY <1>2
        <2> DEFINE proof == [made.proof EXCEPT !.response = response]
        <2>2. JudgeSchnorr(proof, domain, made.base, public)
            BY <2>1
        <2>p. proof = [made.proof EXCEPT !.response = response]
            OBVIOUS
        <2> HIDE DEF proof
        <2>3. /\ judged'.proof = proof /\ judged'.domain = domain /\ judged'.base = made.base
              /\ judged'.public = public /\ judged'.verdict \in {"accepted", "rejected"}
              /\ H' = H /\ made' = made
            BY <2>2 DEF JudgeSchnorr
        <2>4. SchnorrShown(judged)'
            BY <2>1, <2>p, <2>3 DEF SchnorrShown
        <2> QED
            BY <1>2, <2>3, <2>4 DEF JudgedFrom
    <1>3. CASE /\ made.job = "signature"
               /\ \E z \in 0..(2 * N - 1), msg \in Messages, pub \in {made.pub, H} :
                      JudgeSignature(<<made.proof[1], z>>, pub, msg)
        <2>1. PICK z \in 0..(2 * N - 1), msg \in Messages, pub \in {made.pub, H} :
                      JudgeSignature(<<made.proof[1], z>>, pub, msg)
            BY <1>3
        <2> DEFINE sig == <<made.proof[1], z>>
        <2>2. JudgeSignature(sig, pub, msg)
            BY <2>1
        <2>s. sig = <<made.proof[1], z>>
            OBVIOUS
        <2> HIDE DEF sig
        <2>3. /\ judged'.proof = sig /\ judged'.pub = pub /\ judged'.msg = msg
              /\ judged'.verdict \in {"accepted", "rejected"}
              /\ H' = H /\ made' = made
            BY <2>2 DEF JudgeSignature
        <2>4. SignatureShown(judged)'
            BY <2>1, <2>s, <2>3 DEF SignatureShown
        <2> QED
            BY <1>3, <2>3, <2>4 DEF JudgedFrom
    <1> QED
        BY <1>1, <1>2, <1>3 DEF Judge

\* Every proof is made for one of those, and what is judged is what was made or differs
\* from it by what Presented, SchnorrShown and SignatureShown list.
LEMMA Origins == Spec => [](MadeFor /\ JudgedFrom)
    <1>1. Init => MadeFor /\ JudgedFrom
        BY DEF Init, MadeFor, JudgedFrom
    <1>2. IInv /\ MadeFor /\ JudgedFrom /\ [Next]_vars => (MadeFor /\ JudgedFrom)'
        <2> SUFFICES ASSUME IInv, MadeFor, JudgedFrom, [Next]_vars
                     PROVE  (MadeFor /\ JudgedFrom)'
            OBVIOUS
        <2>1. CASE Make
            <3>1. made = Nothing /\ judged' = judged
                BY <2>1, MakeRight, TypeFollows
            <3>2. judged = Nothing
                BY <3>1 DEF IInv, JudgedRight
            <3>3. JudgedFrom'
                BY <3>1, <3>2 DEF JudgedFrom
            <3> QED
                BY <2>1, <3>3, MakesFor, TypeFollows
        <2>2. CASE Judge
            <3>1. JudgedFrom' /\ H' = H /\ made' = made
                BY <2>2, JudgesFrom
            <3>2. MadeFor'
                BY <3>1 DEF MadeFor
            <3> QED
                BY <3>1, <3>2
        <2>3. CASE UNCHANGED vars
            <3>1. H' = H /\ made' = made /\ judged' = judged
                BY <2>3 DEF vars
            <3>2. Presented' = Presented
                BY <3>1 DEF Presented
            <3>3. SchnorrShown(judged)' <=> SchnorrShown(judged)
                BY <3>1 DEF SchnorrShown
            <3>4. SignatureShown(judged)' <=> SignatureShown(judged)
                BY <3>1 DEF SignatureShown
            <3> QED
                BY <3>1, <3>2, <3>3, <3>4 DEF MadeFor, JudgedFrom
        <2> QED
            BY <2>1, <2>2, <2>3 DEF Next
    <1> QED
        BY <1>1, <1>2, Invariant, PTL DEF Spec

-----------------------------------------------------------------------------
(* What arrives: a number altered *)

\* By how much a number is raised on the wire.
Raises == {1, N, -N}

\* The proof of a bit with one of its numbers raised by d.
BitRaised(p, b, d) ==
    /\ p.a0 = b.a0 /\ p.a1 = b.a1
    /\ \/ p.e0 = b.e0 + d /\ p.z0 = b.z0 /\ p.z1 = b.z1
       \/ p.e0 = b.e0 /\ p.z0 = b.z0 + d /\ p.z1 = b.z1
       \/ p.e0 = b.e0 /\ p.z0 = b.z0 /\ p.z1 = b.z1 + d

\* The proof of a bit with one of its numbers raised.
BitMoved(p, b) == \E d \in Raises : BitRaised(p, b, d)

\* The proofs of n bits of which the first has been.
HalfMoved(n, ps, qs) ==
    /\ DOMAIN ps = 1..n
    /\ BitMoved(ps[1], qs[1])
    /\ \A i \in 2..n : ps[i] = qs[i]

\* What is done to the proof of a bit on the wire.
BitAltered(r, s) ==
    \E d \in Raises :
        \/ r = [s EXCEPT !.e0 = @ + d]
        \/ r = [s EXCEPT !.z0 = @ + d]
        \/ r = [s EXCEPT !.z1 = @ + d]

\* The proof of a bit as it is written and read.
BitSent(b) ==
    [a0 |-> SerPoint(b.a0), a1 |-> SerPoint(b.a1), e0 |-> b.e0, z0 |-> b.z0, z1 |-> b.z1]

BitRead(s) ==
    [a0 |-> DePoint(s.a0), a1 |-> DePoint(s.a1), e0 |-> s.e0, z0 |-> s.z0, z1 |-> s.z1]

\* The proofs of the bits as they are written and read.
HalfSent(prfs) == WithPoints(prfs, SerPoint)
HalfRead(prfs) == WithPoints(prfs, DePoint)

\* Bit by bit.
LEMMA HalfSentIs ==
    ASSUME NEW prfs
    PROVE  HalfSent(prfs) = [i \in DOMAIN prfs |-> BitSent(prfs[i])]
    BY DEF HalfSent, WithPoints, BitSent

\* Likewise.
LEMMA HalfReadIs ==
    ASSUME NEW prfs
    PROVE  HalfRead(prfs) = [i \in DOMAIN prfs |-> BitRead(prfs[i])]
    BY DEF HalfRead, WithPoints, BitRead

\* A bit survives the wire.
LEMMA BitRoundTrip ==
    ASSUME NEW b \in BitOrProof
    PROVE  BitRead(BitSent(b)) = b
    <1> DEFINE s == BitSent(b)
    <1>1. b.a0 \in Points /\ b.a1 \in Points
        BY DEF BitOrProof
    <1>2. /\ s.a0 = SerPoint(b.a0) /\ s.a1 = SerPoint(b.a1)
          /\ s.e0 = b.e0 /\ s.z0 = b.z0 /\ s.z1 = b.z1
        BY DEF BitSent
    <1> HIDE DEF s
    <1>3. DePoint(s.a0) = b.a0 /\ DePoint(s.a1) = b.a1
        BY <1>1, <1>2, PointRoundTrip
    <1>4. BitRead(s) = [a0 |-> b.a0, a1 |-> b.a1, e0 |-> b.e0, z0 |-> b.z0, z1 |-> b.z1]
        BY <1>2, <1>3 DEF BitRead
    <1>5. b = [a0 |-> b.a0, a1 |-> b.a1, e0 |-> b.e0, z0 |-> b.z0, z1 |-> b.z1]
        BY DEF BitOrProof
    <1> QED
        BY <1>4, <1>5 DEF s

\* One that was altered on it has moved.
LEMMA AlteredBit ==
    ASSUME NEW b \in BitOrProof, NEW r, BitAltered(r, BitSent(b))
    PROVE  BitMoved(BitRead(r), b)
    <1>1. b.a0 \in Points /\ b.a1 \in Points
        BY DEF BitOrProof
    <1>2. /\ r.a0 = SerPoint(b.a0) /\ r.a1 = SerPoint(b.a1)
          /\ \E d \in Raises :
                \/ r.e0 = b.e0 + d /\ r.z0 = b.z0 /\ r.z1 = b.z1
                \/ r.e0 = b.e0 /\ r.z0 = b.z0 + d /\ r.z1 = b.z1
                \/ r.e0 = b.e0 /\ r.z0 = b.z0 /\ r.z1 = b.z1 + d
        <2>1. PICK d \in Raises :
                  \/ r = [BitSent(b) EXCEPT !.e0 = @ + d]
                  \/ r = [BitSent(b) EXCEPT !.z0 = @ + d]
                  \/ r = [BitSent(b) EXCEPT !.z1 = @ + d]
            BY DEF BitAltered
        <2> QED
            BY <2>1 DEF BitSent
    <1>3. DePoint(r.a0) = b.a0 /\ DePoint(r.a1) = b.a1
        BY <1>1, <1>2, PointRoundTrip
    <1>4. /\ BitRead(r).a0 = b.a0 /\ BitRead(r).a1 = b.a1
          /\ BitRead(r).e0 = r.e0 /\ BitRead(r).z0 = r.z0 /\ BitRead(r).z1 = r.z1
        BY <1>3 DEF BitRead
    <1> QED
        BY <1>2, <1>4 DEF BitMoved, BitRaised

\* So have the proofs of n bits.
LEMMA AlteredHalf ==
    ASSUME NEW n \in Nat \ {0}, NEW prfs \in [1..n -> BitOrProof], NEW r, NEW v,
           r = [HalfSent(prfs) EXCEPT ![1] = v],
           BitAltered(v, HalfSent(prfs)[1])
    PROVE  HalfMoved(n, HalfRead(r), prfs)
    <1> DEFINE s == HalfSent(prfs)
               d == HalfRead(r)
    <1>1. s = [i \in 1..n |-> BitSent(prfs[i])] /\ 1 \in 1..n
        BY HalfSentIs
    <1>2. r = [s EXCEPT ![1] = v] /\ BitAltered(v, s[1])
        OBVIOUS
    <1> HIDE DEF s
    <1>3. DOMAIN r = 1..n /\ r[1] = v /\ \A i \in 2..n : r[i] = BitSent(prfs[i])
        BY <1>1, <1>2
    <1>4. d = [i \in 1..n |-> BitRead(r[i])]
        BY <1>3, HalfReadIs
    <1> HIDE DEF d
    <1>5. BitMoved(d[1], prfs[1])
        <2>1. prfs[1] \in BitOrProof /\ BitAltered(v, BitSent(prfs[1]))
            BY <1>1, <1>2
        <2>2. BitMoved(BitRead(v), prfs[1])
            BY <2>1, AlteredBit
        <2> QED
            BY <1>1, <1>3, <1>4, <2>2
    <1>6. ASSUME NEW i \in 2..n PROVE d[i] = prfs[i]
        <2>1. i \in 1..n /\ prfs[i] \in BitOrProof
            BY <1>1
        <2>2. BitRead(BitSent(prfs[i])) = prfs[i]
            BY <2>1, BitRoundTrip
        <2> QED
            BY <1>3, <1>4, <2>1, <2>2
    <1> QED
        BY <1>4, <1>5, <1>6 DEF HalfMoved, d

\* What is judged of what was made: as it was, one number of it moved, or its
\* commitments to the bits of the value changed.
Arrives(p, m) ==
    /\ p.nbits = m.nbits /\ p.Cd = m.Cd
    /\ p = [nbits |-> p.nbits, Cv |-> p.Cv, Pv |-> p.Pv, Cd |-> p.Cd, Pd |-> p.Pd]
    /\ \/ p.Cv = m.Cv /\ p.Pv = m.Pv /\ p.Pd = m.Pd
       \/ made.honest /\ p.Cv = m.Cv /\ HalfMoved(m.nbits, p.Pv, m.Pv) /\ p.Pd = m.Pd
       \/ made.honest /\ p.Cv = m.Cv /\ p.Pv = m.Pv /\ HalfMoved(m.nbits, p.Pd, m.Pd)
       \/ p.Cv \in [1..m.nbits -> ReadPoints] /\ p.Pv = m.Pv /\ p.Pd = m.Pd

\* A proof as it is written and read.
PointsSent(pts) == [i \in DOMAIN pts |-> SerPoint(pts[i])]
PointsRead(pts) == [i \in DOMAIN pts |-> DePoint(pts[i])]

\* serialize_proof, by its parts.
LEMMA ProofSent ==
    ASSUME NEW p
    PROVE  SerializeProof(p) = [nbits |-> p.nbits,
                                Cv |-> PointsSent(p.Cv), Pv |-> HalfSent(p.Pv),
                                Cd |-> PointsSent(p.Cd), Pd |-> HalfSent(p.Pd)]
    BY DEF SerializeProof, Converted, PointsSent, HalfSent

\* deserialize_proof, by its parts.
LEMMA ProofRead ==
    ASSUME NEW p
    PROVE  DeserializeProof(p) = [nbits |-> p.nbits,
                                  Cv |-> PointsRead(p.Cv), Pv |-> HalfRead(p.Pv),
                                  Cd |-> PointsRead(p.Cd), Pd |-> HalfRead(p.Pd)]
    BY DEF DeserializeProof, Converted, PointsRead, HalfRead

\* The hypotheses of the next lemma: m is what was made, s what was sent.
Sending(m, n, s) ==
    /\ m \in RangeLeqProof /\ n \in Nat \ {0} /\ m.nbits = n
    /\ Len(m.Cv) = n /\ Len(m.Pv) = n /\ Len(m.Cd) = n /\ Len(m.Pd) = n
    /\ s = SerializeProof(m)

\* One number altered.
LEMMA NumberAltered ==
    ASSUME NEW m, NEW n, NEW s, Sending(m, n, s), made.honest, NEW r, NEW v,
           \/ r = [s EXCEPT !.Pv[1] = v] /\ BitAltered(v, s.Pv[1])
           \/ r = [s EXCEPT !.Pd[1] = v] /\ BitAltered(v, s.Pd[1])
    PROVE  Arrives(DeserializeProof(r), m)
    <1> DEFINE d == DeserializeProof(r)
               t == DeserializeProof(s)
    <1>1. /\ m.Pv \in [1..n -> BitOrProof] /\ m.Pd \in [1..n -> BitOrProof]
          /\ n \in Nat \ {0} /\ m \in RangeLeqProof /\ m.nbits = n
        BY DEF Sending, RangeLeqProof
    <1>2. t = m
        BY <1>1, ProofRoundTrip DEF Sending
    <1>3. /\ t.nbits = s.nbits /\ t.Cv = PointsRead(s.Cv)
          /\ t.Cd = PointsRead(s.Cd)
          /\ t.Pv = HalfRead(s.Pv) /\ t.Pd = HalfRead(s.Pd)
        BY ProofRead
    <1>4. /\ d = [nbits |-> d.nbits, Cv |-> d.Cv, Pv |-> d.Pv, Cd |-> d.Cd, Pd |-> d.Pd]
          /\ d.nbits = r.nbits /\ d.Cv = PointsRead(r.Cv)
          /\ d.Cd = PointsRead(r.Cd)
          /\ d.Pv = HalfRead(r.Pv) /\ d.Pd = HalfRead(r.Pd)
        BY ProofRead
    <1> DEFINE sCv == s.Cv
               sPv == s.Pv
               sCd == s.Cd
               sPd == s.Pd
    <1>5. s = [nbits |-> s.nbits, Cv |-> sCv, Pv |-> sPv, Cd |-> sCd, Pd |-> sPd]
        BY ProofSent DEF Sending
    <1>6. sPv = HalfSent(m.Pv) /\ sPd = HalfSent(m.Pd)
        BY ProofSent DEF Sending
    <1> HIDE DEF d, t
    <1>7. CASE r = [s EXCEPT !.Pv[1] = v] /\ BitAltered(v, s.Pv[1])
        <2>1. /\ r.nbits = s.nbits /\ r.Cv = sCv
              /\ r.Pv = [sPv EXCEPT ![1] = v] /\ r.Cd = sCd /\ r.Pd = sPd
            BY <1>5, <1>7
        <2>2. d.nbits = m.nbits /\ d.Cv = m.Cv /\ d.Cd = m.Cd /\ d.Pd = m.Pd
            BY <1>2, <1>3, <1>4, <2>1
        <2> DEFINE x == r.Pv
        <2>3. x = [HalfSent(m.Pv) EXCEPT ![1] = v]
              /\ BitAltered(v, HalfSent(m.Pv)[1])
            BY <1>6, <1>7, <2>1
        <2> HIDE DEF x
        <2>4. HalfMoved(n, HalfRead(x), m.Pv)
            BY <1>1, <2>3, AlteredHalf
        <2>5. HalfMoved(n, d.Pv, m.Pv)
            BY <1>4, <2>4 DEF x
        <2> QED
            BY <1>1, <1>4, <2>2, <2>5 DEF Arrives, d
    <1>8. CASE r = [s EXCEPT !.Pd[1] = v] /\ BitAltered(v, s.Pd[1])
        <2>1. /\ r.nbits = s.nbits /\ r.Cv = sCv
              /\ r.Pv = sPv /\ r.Cd = sCd /\ r.Pd = [sPd EXCEPT ![1] = v]
            BY <1>5, <1>8
        <2>2. d.nbits = m.nbits /\ d.Cv = m.Cv /\ d.Cd = m.Cd /\ d.Pv = m.Pv
            BY <1>2, <1>3, <1>4, <2>1
        <2> DEFINE x == r.Pd
        <2>3. x = [HalfSent(m.Pd) EXCEPT ![1] = v]
              /\ BitAltered(v, HalfSent(m.Pd)[1])
            BY <1>6, <1>8, <2>1
        <2> HIDE DEF x
        <2>4. HalfMoved(n, HalfRead(x), m.Pd)
            BY <1>1, <2>3, AlteredHalf
        <2>5. HalfMoved(n, d.Pd, m.Pd)
            BY <1>4, <2>4 DEF x
        <2> QED
            BY <1>1, <1>4, <2>2, <2>5 DEF Arrives, d
    <1> QED
        BY <1>7, <1>8

\* The commitments to the bits of the value altered.
LEMMA CommitmentsAltered ==
    ASSUME NEW m, NEW n, NEW s, Sending(m, n, s), NEW r, NEW v,
           r = [s EXCEPT !.Cv = v], PointsRead(v) \in [1..n -> ReadPoints]
    PROVE  Arrives(DeserializeProof(r), m)
    <1> DEFINE d == DeserializeProof(r)
               t == DeserializeProof(s)
    <1>1. m \in RangeLeqProof /\ m.nbits = n
        BY DEF Sending
    <1>2. t = m
        BY <1>1, ProofRoundTrip DEF Sending
    <1>3. /\ t.nbits = s.nbits /\ t.Cd = PointsRead(s.Cd)
          /\ t.Pv = HalfRead(s.Pv) /\ t.Pd = HalfRead(s.Pd)
        BY ProofRead
    <1>4. /\ d = [nbits |-> d.nbits, Cv |-> d.Cv, Pv |-> d.Pv, Cd |-> d.Cd, Pd |-> d.Pd]
          /\ d.nbits = r.nbits /\ d.Cv = PointsRead(r.Cv)
          /\ d.Cd = PointsRead(r.Cd)
          /\ d.Pv = HalfRead(r.Pv) /\ d.Pd = HalfRead(r.Pd)
        BY ProofRead
    <1> DEFINE sCv == s.Cv
               sPv == s.Pv
               sCd == s.Cd
               sPd == s.Pd
    <1>5. s = [nbits |-> s.nbits, Cv |-> sCv, Pv |-> sPv, Cd |-> sCd, Pd |-> sPd]
        BY ProofSent DEF Sending
    <1> HIDE DEF d, t
    <1>6. r.nbits = s.nbits /\ r.Cv = v /\ r.Pv = sPv /\ r.Cd = sCd /\ r.Pd = sPd
        BY <1>5
    <1>7. d.nbits = m.nbits /\ d.Cd = m.Cd /\ d.Pv = m.Pv /\ d.Pd = m.Pd
        BY <1>2, <1>3, <1>4, <1>6
    <1>8. d.Cv \in [1..n -> ReadPoints]
        BY <1>4, <1>6
    <1> QED
        BY <1>1, <1>4, <1>7, <1>8 DEF Arrives, d

-----------------------------------------------------------------------------
(* What arrives: a commitment altered *)

\* What a compressed point consists of.
LEMMA SentPoint ==
    ASSUME NEW p \in Points
    PROVE  /\ SerPoint(p) = <<SerPoint(p)[1], SerPoint(p)[2], 33>>
           /\ SerPoint(p)[1] \in Nat /\ SerPoint(p)[2] \in Nat
    <1>1. CASE p = IDENTITY
        BY <1>1 DEF SerPoint, Compress
    <1>2. CASE p # IDENTITY
        <2>1. PICK u \in Field, v \in Field : p = <<u, v>>
            BY <1>2, Finite
        <2>2. u \in Nat /\ 2 + (v % 2) \in Nat
            BY FieldFacts
        <2> DEFINE t == 2 + (v % 2)
        <2>3. SerPoint(p) = <<t, u, 33>>
            BY <1>2, <2>1 DEF SerPoint, Compress
        <2> HIDE DEF t
        <2> QED
            BY <2>2, <2>3 DEF t
    <1> QED
        BY <1>1, <1>2

\* What _de_point reads, of whatever tag and length.
LEMMA ReadPoint ==
    ASSUME NEW tag \in Int, NEW x \in Nat, NEW k
    PROVE  DePoint(<<tag, x, k>>) \in ReadPoints
    <1> DEFINE raw == <<tag, x, k>>
    <1>1. DePoint(raw) = IDENTITY \/ DePoint(raw) = Lift(x, tag % 2)
        BY DEF DePoint
    <1>2. tag % 2 \in {0, 1}
        OBVIOUS
    <1> HIDE DEF raw
    <1> QED
        BY <1>1, <1>2 DEF ReadPoints, raw

\* A point that was written is one that is read.
LEMMA ReadSent ==
    ASSUME NEW p \in Points
    PROVE  DePoint(SerPoint(p)) \in ReadPoints
    BY PointRoundTrip, PointsOnWire DEF WirePoints

\* The first two commitments exchanged.
LEMMA SwapArrives ==
    ASSUME NEW m, NEW n, NEW s, Sending(m, n, s), NEW r, NEW cap,
           2 \in DOMAIN s.Cv, r = [s EXCEPT !.Cv = <<s.Cv[2], s.Cv[1]>>],
           WellFormed(DeserializeProof(r), cap)
    PROVE  Arrives(DeserializeProof(r), m)
    <1>1. /\ m.Cv \in [1..n -> Points] /\ n \in Nat \ {0} /\ m.nbits = n
          /\ s.Cv = PointsSent(m.Cv)
          /\ s = [nbits |-> n, Cv |-> s.Cv, Pv |-> s.Pv, Cd |-> s.Cd, Pd |-> s.Pd]
        BY ProofSent DEF Sending, RangeLeqProof
    <1> DEFINE sCv == s.Cv
               v == <<sCv[2], sCv[1]>>
               sPv == s.Pv
               sCd == s.Cd
               sPd == s.Pd
    <1>2. sCv = [i \in 1..n |-> SerPoint(m.Cv[i])] /\ 1 \in 1..n /\ 2 \in 1..n
        BY <1>1 DEF PointsSent
    <1>3. DePoint(sCv[1]) \in ReadPoints /\ DePoint(sCv[2]) \in ReadPoints
        BY <1>1, <1>2, ReadSent
    <1>4. r = [s EXCEPT !.Cv = v]
        OBVIOUS
    <1>5. r.nbits = n /\ r.Cv = v
        BY <1>1, <1>4
    <1>6. v[1] = sCv[2] /\ v[2] = sCv[1] /\ DOMAIN v = 1..2
        OBVIOUS
    <1> HIDE DEF sCv, v
    <1>7. PointsRead(v) = [i \in 1..2 |-> DePoint(v[i])]
        BY <1>6 DEF PointsRead
    <1>8. ASSUME NEW i \in 1..2 PROVE DePoint(v[i]) \in ReadPoints
        <2>1. i = 1 \/ i = 2
            OBVIOUS
        <2> QED
            BY <1>3, <1>6, <2>1
    <1>9. PointsRead(v) \in [1..2 -> ReadPoints]
        BY <1>7, <1>8
    <1>10. Len(PointsRead(v)) = n
        <2> DEFINE d == DeserializeProof(r)
        <2>1. d.nbits = n /\ d.Cv = PointsRead(v)
            BY <1>5, ProofRead
        <2> HIDE DEF d
        <2>2. Len(d.Cv) = d.nbits
            BY DEF WellFormed, d
        <2> QED
            BY <2>1, <2>2
    <1>11. n = 2
        <2> DEFINE x == PointsRead(v)
        <2>1. x \in [1..2 -> ReadPoints] /\ Len(x) = n
            BY <1>9, <1>10
        <2> HIDE DEF x
        <2> QED
            BY <2>1
    <1> QED
        BY <1>4, <1>9, <1>11, CommitmentsAltered

\* The first commitment written otherwise: another tag, abscissa or length.
LEMMA MoveArrives ==
    ASSUME NEW m, NEW n, NEW s, Sending(m, n, s), NEW r, NEW tag \in Int, NEW x \in Nat, NEW k,
           r = [s EXCEPT !.Cv[1] = <<tag, x, k>>]
    PROVE  Arrives(DeserializeProof(r), m)
    <1>1. /\ m.Cv \in [1..n -> Points] /\ n \in Nat \ {0} /\ m.nbits = n
          /\ s.Cv = PointsSent(m.Cv)
          /\ s = [nbits |-> n, Cv |-> s.Cv, Pv |-> s.Pv, Cd |-> s.Cd, Pd |-> s.Pd]
        BY ProofSent DEF Sending, RangeLeqProof
    <1> DEFINE sCv == s.Cv
               sPv == s.Pv
               sCd == s.Cd
               sPd == s.Pd
               w == <<tag, x, k>>
               v == [sCv EXCEPT ![1] = w]
    <1>2. sCv = [i \in 1..n |-> SerPoint(m.Cv[i])] /\ 1 \in 1..n
        BY <1>1 DEF PointsSent
    <1>3. r = [s EXCEPT !.Cv = v]
        <2>1. s = [nbits |-> n, Cv |-> sCv, Pv |-> sPv, Cd |-> sCd, Pd |-> sPd]
            BY <1>1
        <2>2. r = [s EXCEPT !.Cv[1] = w]
            OBVIOUS
        <2> HIDE DEF sCv, sPv, sCd, sPd, w
        <2> QED
            BY <2>1, <2>2
    <1>4. DePoint(w) \in ReadPoints
        BY ReadPoint
    <1> HIDE DEF sCv, w
    <1>5. /\ DOMAIN v = 1..n /\ v[1] = w
          /\ \A i \in 2..n : v[i] = SerPoint(m.Cv[i])
        BY <1>2
    <1> HIDE DEF v
    <1>6. ASSUME NEW i \in 1..n PROVE DePoint(v[i]) \in ReadPoints
        <2>1. CASE i = 1
            BY <1>4, <1>5, <2>1
        <2>2. CASE i # 1
            <3>1. i \in 2..n
                BY <2>2
            <3>2. m.Cv[i] \in Points
                BY <1>1
            <3> QED
                BY <1>5, <3>1, <3>2, ReadSent
        <2> QED
            BY <2>1, <2>2
    <1>7. PointsRead(v) \in [1..n -> ReadPoints]
        BY <1>5, <1>6 DEF PointsRead
    <1> QED
        BY <1>3, <1>7, CommitmentsAltered

\* What is presented and passes the checks in front of the challenge.
LEMMA PresentedArrives ==
    ASSUME NEW h \in 1..(N - 1), NEW e \in Scalars, RangeRight(h, made, e),
           made.context \in Contexts, NEW raw, NEW cap, NEW context,
           <<raw, cap, context>> \in Presented,
           Deserializes(raw), WellFormed(DeserializeProof(raw), cap)
    PROVE  Arrives(DeserializeProof(raw), made.proof) /\ context \in Contexts /\ cap \in Int
    <1> DEFINE m == made.proof
               n == m.nbits
               s == SerializeProof(m)
               changed == IF made.honest THEN Altered(s) ELSE {}
    <1>1. /\ m \in RangeLeqProof /\ n \in Nat \ {0}
          /\ Len(m.Cv) = n /\ Len(m.Pv) = n /\ Len(m.Cd) = n /\ Len(m.Pd) = n
        BY RangeType
    <1>2. Sending(m, n, s)
        BY <1>1 DEF Sending
    <1>3. made.cap \in Int
        BY DEF RangeRight, WrittenCaps
    <1>4. <<raw, cap, context>> \in (changed \X {made.cap} \X {made.context})
                        \cup ({s} \X (made.cap - 1 .. made.cap + 1) \X {made.context})
                        \cup ({s} \X {made.cap} \X Contexts)
        BY DEF Presented
    <1> HIDE DEF m, n, s
    <1>5. context \in Contexts /\ cap \in Int /\ (raw = s \/ raw \in changed)
        <2> HIDE DEF changed
        <2> QED
            BY <1>3, <1>4
    <1>6. CASE raw = s
        <2>1. DeserializeProof(raw) = m
            BY <1>2, <1>6, ProofRoundTrip DEF Sending
        <2>2. m = [nbits |-> m.nbits, Cv |-> m.Cv, Pv |-> m.Pv, Cd |-> m.Cd, Pd |-> m.Pd]
            BY <1>1 DEF RangeLeqProof
        <2> QED
            BY <1>5, <2>1, <2>2 DEF Arrives, m
    <1>7. CASE raw \in changed
        <2>0. made.honest /\ raw \in Altered(s)
            BY <1>7
        <2> HIDE DEF changed
        <2> DEFINE sCv == s.Cv
                   sPv == s.Pv
                   sCd == s.Cd
                   sPd == s.Pd
        <2>1. s = [nbits |-> n, Cv |-> sCv, Pv |-> sPv, Cd |-> sCd, Pd |-> sPd]
            BY <1>2, ProofSent DEF Sending, n
        <2>2. \/ \E d \in Raises : \/ raw = [s EXCEPT !.Pv[1].e0 = @ + d]
                                 \/ raw = [s EXCEPT !.Pv[1].z0 = @ + d]
                                 \/ raw = [s EXCEPT !.Pv[1].z1 = @ + d]
              \/ \E d \in Raises : \/ raw = [s EXCEPT !.Pd[1].e0 = @ + d]
                                 \/ raw = [s EXCEPT !.Pd[1].z0 = @ + d]
                                 \/ raw = [s EXCEPT !.Pd[1].z1 = @ + d]
              \/ 2 \in DOMAIN s.Cv /\ raw = [s EXCEPT !.Cv = <<s.Cv[2], s.Cv[1]>>]
              \/ \E d \in {1, 2} : raw = [s EXCEPT !.Cv[1][1] = @ + d]
              \/ \E d \in {1, P, 2 * P} : raw = [s EXCEPT !.Cv[1][2] = @ + d]
              \/ raw = [s EXCEPT !.Cv[1][3] = @ + 1]
              \/ raw = [s EXCEPT !.nbits = @ + 1]
            <3> DEFINE S1 == UNION {{[s EXCEPT !.Pv[1].e0 = @ + d], [s EXCEPT !.Pv[1].z0 = @ + d],
                                     [s EXCEPT !.Pv[1].z1 = @ + d], [s EXCEPT !.Pd[1].e0 = @ + d],
                                     [s EXCEPT !.Pd[1].z0 = @ + d], [s EXCEPT !.Pd[1].z1 = @ + d]} :
                                    d \in {1, N, -N}}
                       S2 == {[s EXCEPT !.Cv[1][1] = @ + d] : d \in {1, 2}}
                       S3 == {[s EXCEPT !.Cv[1][2] = @ + d] : d \in {1, P, 2 * P}}
                       S4 == {[s EXCEPT !.Cv[1][3] = @ + 1], [s EXCEPT !.nbits = @ + 1]}
                       S5 == {[s EXCEPT !.Cv = <<s.Cv[2], s.Cv[1]>>] : i \in {2} \cap DOMAIN s.Cv}
            <3>1. raw \in UNION {S1, S2, S3, S4, S5}
                BY <2>0 DEF Altered
            <3>2. raw \in S1 \/ raw \in S2 \/ raw \in S3 \/ raw \in S4 \/ raw \in S5
                <4> HIDE DEF S1, S2, S3, S4, S5
                <4> QED
                    BY <3>1
            <3>3. CASE raw \in S1
                <4>1. PICK d \in {1, N, -N} :
                          raw \in {[s EXCEPT !.Pv[1].e0 = @ + d], [s EXCEPT !.Pv[1].z0 = @ + d],
                                   [s EXCEPT !.Pv[1].z1 = @ + d], [s EXCEPT !.Pd[1].e0 = @ + d],
                                   [s EXCEPT !.Pd[1].z0 = @ + d], [s EXCEPT !.Pd[1].z1 = @ + d]}
                    BY <3>3
                <4> QED
                    BY <4>1 DEF Raises
            <3>4. CASE raw \in S2
                BY <3>4
            <3>5. CASE raw \in S3
                BY <3>5
            <3>6. CASE raw \in S4
                BY <3>6
            <3>7. CASE raw \in S5
                BY <3>7
            <3> HIDE DEF S1, S2, S3, S4, S5
            <3> QED
                BY <3>2, <3>3, <3>4, <3>5, <3>6, <3>7
        <2>3. ASSUME NEW d \in Raises, \/ raw = [s EXCEPT !.Pv[1].e0 = @ + d]
                                     \/ raw = [s EXCEPT !.Pv[1].z0 = @ + d]
                                     \/ raw = [s EXCEPT !.Pv[1].z1 = @ + d]
              PROVE  Arrives(DeserializeProof(raw), m)
            <3>1. PICK v : BitAltered(v, s.Pv[1]) /\ raw = [s EXCEPT !.Pv[1] = v]
                <4> DEFINE b == sPv[1]
                           v1 == [b EXCEPT !.e0 = @ + d]
                           v2 == [b EXCEPT !.z0 = @ + d]
                           v3 == [b EXCEPT !.z1 = @ + d]
                <4>1. \/ raw = [s EXCEPT !.Pv[1] = v1]
                      \/ raw = [s EXCEPT !.Pv[1] = v2]
                      \/ raw = [s EXCEPT !.Pv[1] = v3]
                    BY <2>1, <2>3
                <4>2. BitAltered(v1, b) /\ BitAltered(v2, b) /\ BitAltered(v3, b)
                    BY DEF BitAltered
                <4> HIDE DEF v1, v2, v3
                <4> QED
                    BY <4>1, <4>2
            <3> QED
                BY <1>2, <2>0, <3>1, NumberAltered
        <2>4. ASSUME NEW d \in Raises, \/ raw = [s EXCEPT !.Pd[1].e0 = @ + d]
                                     \/ raw = [s EXCEPT !.Pd[1].z0 = @ + d]
                                     \/ raw = [s EXCEPT !.Pd[1].z1 = @ + d]
              PROVE  Arrives(DeserializeProof(raw), m)
            <3>1. PICK v : BitAltered(v, s.Pd[1]) /\ raw = [s EXCEPT !.Pd[1] = v]
                <4> DEFINE b == sPd[1]
                           v1 == [b EXCEPT !.e0 = @ + d]
                           v2 == [b EXCEPT !.z0 = @ + d]
                           v3 == [b EXCEPT !.z1 = @ + d]
                <4>1. \/ raw = [s EXCEPT !.Pd[1] = v1]
                      \/ raw = [s EXCEPT !.Pd[1] = v2]
                      \/ raw = [s EXCEPT !.Pd[1] = v3]
                    BY <2>1, <2>4
                <4>2. BitAltered(v1, b) /\ BitAltered(v2, b) /\ BitAltered(v3, b)
                    BY DEF BitAltered
                <4> HIDE DEF v1, v2, v3
                <4> QED
                    BY <4>1, <4>2
            <3> QED
                BY <1>2, <2>0, <3>1, NumberAltered
        <2>5. ASSUME 2 \in DOMAIN s.Cv /\ raw = [s EXCEPT !.Cv = <<s.Cv[2], s.Cv[1]>>]
              PROVE  Arrives(DeserializeProof(raw), m)
            BY <1>2, <2>5, SwapArrives
        <2> DEFINE o == sCv[1]
        <2>o. o = <<o[1], o[2], 33>> /\ o[1] \in Nat /\ o[2] \in Nat
            <3>1. m.Cv \in [1..n -> Points] /\ n \in Nat \ {0} /\ sCv = PointsSent(m.Cv)
                BY <1>1, <1>2, ProofSent DEF Sending, RangeLeqProof, n
            <3> HIDE DEF sCv
            <3>2. o = SerPoint(m.Cv[1]) /\ m.Cv[1] \in Points
                BY <3>1 DEF PointsSent
            <3> QED
                BY <3>2, SentPoint
        <2>6. ASSUME \/ \E d \in {1, 2} : raw = [s EXCEPT !.Cv[1][1] = @ + d]
                     \/ \E d \in {1, P, 2 * P} : raw = [s EXCEPT !.Cv[1][2] = @ + d]
                     \/ raw = [s EXCEPT !.Cv[1][3] = @ + 1]
              PROVE  Arrives(DeserializeProof(raw), m)
            <3>1. PICK tag \in Int, x \in Nat, k \in Int : raw = [s EXCEPT !.Cv[1] = <<tag, x, k>>]
                <4> DEFINE a == o[1]
                           b == o[2]
                <4>0. o = <<a, b, 33>> /\ a \in Nat /\ b \in Nat /\ P \in Nat
                    BY <2>o, PFacts
                <4>1. CASE \E d \in {1, 2} : raw = [s EXCEPT !.Cv[1][1] = @ + d]
                    <5>1. PICK d \in {1, 2} : raw = [s EXCEPT !.Cv[1][1] = @ + d]
                        BY <4>1
                    <5>2. raw = [s EXCEPT !.Cv[1] = [o EXCEPT ![1] = @ + d]]
                        BY <2>1, <5>1
                    <5> HIDE DEF o, a, b
                    <5>3. [o EXCEPT ![1] = @ + d] = <<a + d, b, 33>> /\ a + d \in Int
                        BY <4>0
                    <5>4. raw = [s EXCEPT !.Cv[1] = <<a + d, b, 33>>]
                        <6> DEFINE y == [o EXCEPT ![1] = @ + d]
                                   z == <<a + d, b, 33>>
                        <6>1. y = z /\ raw = [s EXCEPT !.Cv[1] = y]
                            BY <5>2, <5>3
                        <6> HIDE DEF y, z
                        <6>2. raw = [s EXCEPT !.Cv[1] = z]
                            BY <6>1
                        <6> QED
                            BY <6>2 DEF z
                    <5> DEFINE tg == a + d
                               ab == b
                    <5>5. tg \in Int /\ ab \in Nat /\ raw = [s EXCEPT !.Cv[1] = <<tg, ab, 33>>]
                        BY <4>0, <5>3, <5>4
                    <5> HIDE DEF tg, ab
                    <5>6. 33 \in Int
                        OBVIOUS
                    <5> QED
                        BY <5>5, <5>6
                <4>2. CASE \E d \in {1, P, 2 * P} : raw = [s EXCEPT !.Cv[1][2] = @ + d]
                    <5>1. PICK d \in {1, P, 2 * P} : raw = [s EXCEPT !.Cv[1][2] = @ + d]
                        BY <4>2
                    <5>2. raw = [s EXCEPT !.Cv[1] = [o EXCEPT ![2] = @ + d]]
                        BY <2>1, <5>1
                    <5> HIDE DEF o, a, b
                    <5>3. [o EXCEPT ![2] = @ + d] = <<a, b + d, 33>> /\ b + d \in Nat
                        BY <4>0, <5>1
                    <5>4. raw = [s EXCEPT !.Cv[1] = <<a, b + d, 33>>]
                        <6> DEFINE y == [o EXCEPT ![2] = @ + d]
                                   z == <<a, b + d, 33>>
                        <6>1. y = z /\ raw = [s EXCEPT !.Cv[1] = y]
                            BY <5>2, <5>3
                        <6> HIDE DEF y, z
                        <6>2. raw = [s EXCEPT !.Cv[1] = z]
                            BY <6>1
                        <6> QED
                            BY <6>2 DEF z
                    <5> DEFINE tg == a
                               ab == b + d
                    <5>5. tg \in Int /\ ab \in Nat /\ raw = [s EXCEPT !.Cv[1] = <<tg, ab, 33>>]
                        BY <4>0, <5>3, <5>4
                    <5> HIDE DEF tg, ab
                    <5>6. 33 \in Int
                        OBVIOUS
                    <5> QED
                        BY <5>5, <5>6
                <4>3. CASE raw = [s EXCEPT !.Cv[1][3] = @ + 1]
                    <5>2. raw = [s EXCEPT !.Cv[1] = [o EXCEPT ![3] = @ + 1]]
                        BY <2>1, <4>3
                    <5> HIDE DEF o, a, b
                    <5>3. [o EXCEPT ![3] = @ + 1] = <<a, b, 34>>
                        BY <4>0
                    <5>4. raw = [s EXCEPT !.Cv[1] = <<a, b, 34>>]
                        <6> DEFINE y == [o EXCEPT ![3] = @ + 1]
                                   z == <<a, b, 34>>
                        <6>1. y = z /\ raw = [s EXCEPT !.Cv[1] = y]
                            BY <5>2, <5>3
                        <6> HIDE DEF y, z
                        <6>2. raw = [s EXCEPT !.Cv[1] = z]
                            BY <6>1
                        <6> QED
                            BY <6>2 DEF z
                    <5> DEFINE tg == a
                               ab == b
                    <5>5. tg \in Int /\ ab \in Nat /\ raw = [s EXCEPT !.Cv[1] = <<tg, ab, 34>>]
                        BY <4>0, <5>3, <5>4
                    <5> HIDE DEF tg, ab
                    <5>6. 34 \in Int
                        OBVIOUS
                    <5> QED
                        BY <5>5, <5>6
                <4> QED
                    BY <2>6, <4>1, <4>2, <4>3
            <3> HIDE DEF o
            <3> QED
                BY <1>2, <3>1, MoveArrives
        <2>7. ASSUME raw = [s EXCEPT !.nbits = @ + 1]
              PROVE  FALSE
            <3> DEFINE d == DeserializeProof(raw)
                       t == DeserializeProof(s)
            <3>1. raw.nbits = n + 1 /\ raw.Cv = sCv
                <4> HIDE DEF sCv, sPv, sCd, sPd
                <4> QED
                    BY <2>1, <2>7
            <3>2. d.nbits = n + 1 /\ d.Cv = PointsRead(sCv) /\ t.Cv = PointsRead(sCv)
                BY <3>1, ProofRead
            <3>3. t = m
                BY <1>2, ProofRoundTrip DEF Sending
            <3>4. Len(d.Cv) = d.nbits
                <4> QED
                    BY DEF WellFormed
            <3> HIDE DEF d, t
            <3>5. Len(m.Cv) = n + 1
                BY <3>2, <3>3, <3>4
            <3> QED
                BY <1>2, <3>5 DEF Sending
        <2>8. Arrives(DeserializeProof(raw), m)
            BY <2>2, <2>3, <2>4, <2>5, <2>6, <2>7
        <2> QED
            BY <1>5, <2>8 DEF m
    <1> QED
        BY <1>5, <1>6, <1>7

-----------------------------------------------------------------------------
(* The same question is about the same statement: range proofs *)

\* Multiples of points are points.
LEMMA MulPoint ==
    ASSUME NEW k \in Int, NEW p \in Points
    PROVE  Mul(k, p) \in Points
    <1>1. PICK a \in Scalars : p = E(a)
        BY EveryPoint
    <1>2. a \in Int /\ k * a \in Int
        BY ScalarFacts
    <1> QED
        BY <1>1, <1>2, MulE, EPoint

\* So are differences of points.
LEMMA MinusPoint ==
    ASSUME NEW p \in Points, NEW q \in Points
    PROVE  Minus(p, q) \in Points
    <1>1. PICK a \in Scalars : p = E(a)
        BY EveryPoint
    <1>2. PICK b \in Scalars : q = E(b)
        BY EveryPoint
    <1>3. a \in Int /\ b \in Int /\ a - b \in Int
        BY ScalarFacts
    <1> QED
        BY <1>1, <1>2, <1>3, MinusE, EPoint

\* The announcements of a half that has moved are those it had.
LEMMA MovedAnnouncements ==
    ASSUME NEW n \in Nat \ {0}, NEW qs \in [1..n -> BitOrProof], NEW ps, HalfMoved(n, ps, qs)
    PROVE  Announced(ps) = Announced(qs)
    <1>1. DOMAIN ps = 1..n /\ DOMAIN qs = 1..n
        BY DEF HalfMoved
    <1>2. ASSUME NEW i \in 1..n PROVE ps[i].a0 = qs[i].a0 /\ ps[i].a1 = qs[i].a1
        <2>1. CASE i = 1
            BY <2>1 DEF HalfMoved, BitMoved, BitRaised
        <2>2. CASE i # 1
            <3>1. i \in 2..n
                BY <2>2
            <3> QED
                BY <3>1 DEF HalfMoved
        <2> QED
            BY <2>1, <2>2
    <1> QED
        BY <1>1, <1>2 DEF Announced

\* They are points.
LEMMA AnnouncedPoints ==
    ASSUME NEW n \in Nat, NEW ps \in [1..n -> BitOrProof]
    PROVE  Announced(ps) \in [1..n -> WirePoints \X WirePoints]
    <1>1. ASSUME NEW i \in 1..n PROVE <<ps[i].a0, ps[i].a1>> \in WirePoints \X WirePoints
        <2>1. ps[i] \in BitOrProof
            OBVIOUS
        <2> QED
            BY <2>1, PointsOnWire DEF BitOrProof
    <1> QED
        BY <1>1 DEF Announced

\* Announcements that are equal are equal bit by bit.
LEMMA AnnouncedEach ==
    ASSUME NEW ps, NEW qs, NEW n \in Nat, DOMAIN ps = 1..n, DOMAIN qs = 1..n,
           Announced(ps) = Announced(qs), NEW i \in 1..n
    PROVE  ps[i].a0 = qs[i].a0 /\ ps[i].a1 = qs[i].a1
    <1>1. Announced(ps)[i] = <<ps[i].a0, ps[i].a1>> /\ Announced(qs)[i] = <<qs[i].a0, qs[i].a1>>
        BY DEF Announced
    <1> QED
        BY <1>1

\* What arrives has the shape of what was made.
LEMMA ArrivedShape ==
    ASSUME NEW m \in RangeLeqProof, NEW n \in Nat \ {0}, m.nbits = n,
           Len(m.Cv) = n, Len(m.Pv) = n, Len(m.Cd) = n, Len(m.Pd) = n,
           NEW p, Arrives(p, m)
    PROVE  /\ p.nbits = n /\ p.Cv \in [1..n -> ReadPoints] /\ p.Cd = m.Cd
           /\ DOMAIN p.Pv = 1..n /\ DOMAIN p.Pd = 1..n
           /\ Announced(p.Pv) = Announced(m.Pv) /\ Announced(p.Pd) = Announced(m.Pd)
           /\ m.Cv \in [1..n -> WirePoints] /\ m.Cd \in [1..n -> WirePoints]
           /\ m.Pv \in [1..n -> BitOrProof] /\ m.Pd \in [1..n -> BitOrProof]
           /\ Announced(m.Pv) \in [1..n -> WirePoints \X WirePoints]
           /\ Announced(m.Pd) \in [1..n -> WirePoints \X WirePoints]
    <1>1. /\ m.Cv \in [1..n -> Points] /\ m.Cd \in [1..n -> Points]
          /\ m.Pv \in [1..n -> BitOrProof] /\ m.Pd \in [1..n -> BitOrProof]
        BY DEF RangeLeqProof
    <1>2. /\ p.Pv = m.Pv \/ HalfMoved(n, p.Pv, m.Pv)
          /\ p.Pd = m.Pd \/ HalfMoved(n, p.Pd, m.Pd)
          /\ p.nbits = n /\ p.Cd = m.Cd
          /\ p.Cv = m.Cv \/ p.Cv \in [1..n -> ReadPoints]
        BY DEF Arrives
    <1>3. DOMAIN p.Pv = 1..n /\ DOMAIN p.Pd = 1..n
        BY <1>1, <1>2 DEF HalfMoved
    <1>4. Announced(p.Pv) = Announced(m.Pv) /\ Announced(p.Pd) = Announced(m.Pd)
        BY <1>1, <1>2, MovedAnnouncements
    <1>5. m.Cv \in [1..n -> WirePoints] /\ m.Cd \in [1..n -> WirePoints]
        BY <1>1, PointsOnWire
    <1>6. p.Cv \in [1..n -> ReadPoints]
        BY <1>2, <1>5 DEF WirePoints
    <1> QED
        BY <1>1, <1>2, <1>3, <1>4, <1>5, <1>6, AnnouncedPoints

\* A range proof that was asked about was judged, and it arrived.
LEMMA AskedRange ==
    ASSUME IInv, MadeFor, JudgedFrom, made # Nothing, made.job = "range",
           judged # Nothing, judged.asked, NEW h \in 1..(N - 1), NEW e \in Scalars,
           RangeRight(h, made, e)
    PROVE  /\ RangeJudged(H, judged, oracle[judged.question])
           /\ Arrives(judged.proof, made.proof) /\ judged.context \in Contexts
    <1>1. judged.verdict \in {"accepted", "rejected"}
        BY DEF JudgedFrom
    <1>2. ~RangeSettled(judged)
        BY <1>1 DEF RangeSettled
    <1>3. RangeJudged(H, judged, oracle[judged.question])
        BY <1>2 DEF IInv, JudgedRight, JudgedAs
    <1>4. made.context \in Contexts
        BY TranscriptAssumption DEF MadeFor
    <1> DEFINE raw == judged.sent
               cap == judged.cap
               c == judged.context
    <1>5. <<raw, cap, c>> \in Presented
        BY DEF JudgedFrom
    <1>6. Deserializes(raw) /\ WellFormed(DeserializeProof(raw), cap)
          /\ judged.proof = DeserializeProof(raw)
        BY <1>3 DEF RangeJudged
    <1> HIDE DEF raw, cap
    <1>7. Arrives(DeserializeProof(raw), made.proof) /\ c \in Contexts
        BY <1>4, <1>5, <1>6, PresentedArrives
    <1> QED
        BY <1>3, <1>6, <1>7

\* The same question is about the same context, cap and commitments.
LEMMA RangeBound ==
    ASSUME IInv, MadeFor, JudgedFrom, made # Nothing, made.job = "range",
           judged # Nothing, judged.asked, judged.question = made.question,
           NEW h \in 1..(N - 1), NEW e \in Scalars, RangeRight(h, made, e)
    PROVE  /\ Texts(judged.context) = Texts(made.context) /\ judged.cap = made.cap
           /\ judged.proof.Cv = made.proof.Cv
    <1> DEFINE m == made.proof
               n == m.nbits
               p == judged.proof
               av == Announced(m.Pv)
               ad == Announced(m.Pd)
    <1>1. /\ RangeJudged(H, judged, oracle[judged.question])
          /\ Arrives(p, m) /\ judged.context \in Contexts
        BY AskedRange
    <1>2. /\ m \in RangeLeqProof /\ n \in Nat \ {0}
          /\ Len(m.Cv) = n /\ Len(m.Pv) = n /\ Len(m.Cd) = n /\ Len(m.Pd) = n
        BY RangeType
    <1>3. n \in Writable
        BY DEF RangeRight, WrittenWidths
    <1>4. judged.cap \in Writable /\ Absorbable(p, judged.cap)
        BY <1>1 DEF RangeJudged, Absorbable
    <1>5. made.context \in Contexts /\ made.cap \in Writable
        BY TranscriptAssumption DEF MadeFor
    <1>6. /\ p.nbits = n /\ p.Cv \in [1..n -> WirePoints] /\ p.Cd = m.Cd
          /\ Announced(p.Pv) = av /\ Announced(p.Pd) = ad
          /\ m.Cv \in [1..n -> WirePoints] /\ m.Cd \in [1..n -> WirePoints]
          /\ av \in [1..n -> WirePoints \X WirePoints] /\ ad \in [1..n -> WirePoints \X WirePoints]
        <2> HIDE DEF m, p
        <2>1. /\ p.nbits = n /\ p.Cv \in [1..n -> ReadPoints] /\ p.Cd = m.Cd
              /\ Announced(p.Pv) = av /\ Announced(p.Pd) = ad
              /\ m.Cv \in [1..n -> WirePoints] /\ m.Cd \in [1..n -> WirePoints]
              /\ av \in [1..n -> WirePoints \X WirePoints]
              /\ ad \in [1..n -> WirePoints \X WirePoints]
            BY <1>1, <1>2, ArrivedShape
        <2> HIDE DEF n, av, ad
        <2>2. ASSUME NEW i \in 1..n PROVE Compress(p.Cv[i])[2] \in Writable
            BY <1>4, <2>1 DEF Absorbable
        <2>3. p.Cv \in [1..n -> WirePoints]
            BY <2>1, <2>2 DEF WirePoints
        <2> QED
            BY <2>1, <2>3
    <1>7. made.question = RangeQuestion(made.context, made.cap, n, m.Cv, m.Cd, av, ad)
        BY DEF RangeRight
    <1>8. judged.question = RangeQuestion(judged.context, judged.cap, n, p.Cv, m.Cd, av, ad)
        <2>1. judged.question = RangeQuestion(judged.context, judged.cap, p.nbits, p.Cv, p.Cd,
                                              Announced(p.Pv), Announced(p.Pd))
            BY <1>1 DEF RangeJudged
        <2> HIDE DEF n, p, m, av, ad
        <2> QED
            BY <1>6, <2>1
    <1> HIDE DEF n, p, m, av, ad
    <1> DEFINE c1 == made.context
               c2 == judged.context
               x1 == made.cap
               x2 == judged.cap
               y1 == m.Cv
               y2 == p.Cv
               d == m.Cd
    <1>9. Asked(c1, x1, n, y1, d, av, ad) /\ Asked(c2, x2, n, y2, d, av, ad)
        BY <1>1, <1>2, <1>3, <1>4, <1>5, <1>6 DEF Asked
    <1>10. RangeQuestion(c1, x1, n, y1, d, av, ad) = RangeQuestion(c2, x2, n, y2, d, av, ad)
        BY <1>7, <1>8
    <1> HIDE DEF c1, c2, x1, x2, y1, y2, d
    <1>11. Texts(c1) = Texts(c2) /\ x1 = x2 /\ y1 = y2
        BY <1>9, <1>10, RangeFraming
    <1> QED
        BY <1>11 DEF c1, c2, x1, x2, y1, y2, m, p

\* So it is about the same statement.
LEMMA RangeBinds ==
    ASSUME IInv, MadeFor, JudgedFrom, made # Nothing, made.job = "range",
           judged # Nothing, judged.asked, judged.question = made.question,
           NEW h \in 1..(N - 1), NEW e \in Scalars, RangeRight(h, made, e)
    PROVE  Statement("range", judged) = Statement("range", made)
    <1> DEFINE m == made.proof
               n == m.nbits
               p == judged.proof
    <1>1. /\ Texts(judged.context) = Texts(made.context) /\ judged.cap = made.cap
          /\ p.Cv = m.Cv /\ Arrives(p, m)
        BY RangeBound, AskedRange
    <1>2. /\ m \in RangeLeqProof /\ n \in Nat \ {0}
          /\ Len(m.Cv) = n /\ Len(m.Pv) = n /\ Len(m.Cd) = n /\ Len(m.Pd) = n
        BY RangeType
    <1> DEFINE a == p.Pv
               b == m.Pv
               c == p.Pd
               d == m.Pd
    <1>3. /\ p.nbits = n /\ p.Cd = m.Cd
          /\ DOMAIN a = 1..n /\ DOMAIN c = 1..n /\ DOMAIN b = 1..n /\ DOMAIN d = 1..n
          /\ Announced(a) = Announced(b) /\ Announced(c) = Announced(d)
        <2> HIDE DEF m, p
        <2>1. /\ p.nbits = n /\ p.Cd = m.Cd
              /\ DOMAIN p.Pv = 1..n /\ DOMAIN p.Pd = 1..n
              /\ Announced(p.Pv) = Announced(m.Pv) /\ Announced(p.Pd) = Announced(m.Pd)
              /\ m.Pv \in [1..n -> BitOrProof] /\ m.Pd \in [1..n -> BitOrProof]
            BY <1>1, <1>2, ArrivedShape
        <2> QED
            BY <2>1
    <1>4. /\ Statement("range", judged) =
                 [context |-> Texts(judged.context), cap |-> judged.cap, nbits |-> p.nbits,
                  Cv |-> p.Cv, Cd |-> p.Cd,
                  announced |-> [i \in 1..p.nbits |-> <<a[i].a0, a[i].a1, c[i].a0, c[i].a1>>]]
          /\ Statement("range", made) =
                 [context |-> Texts(made.context), cap |-> made.cap, nbits |-> n,
                  Cv |-> m.Cv, Cd |-> m.Cd,
                  announced |-> [i \in 1..n |-> <<b[i].a0, b[i].a1, d[i].a0, d[i].a1>>]]
        BY DEF Statement
    <1>n. n \in Nat
        BY <1>2
    <1> HIDE DEF m, n, p, a, b, c, d
    <1>5. [i \in 1..p.nbits |-> <<a[i].a0, a[i].a1, c[i].a0, c[i].a1>>]
          = [i \in 1..n |-> <<b[i].a0, b[i].a1, d[i].a0, d[i].a1>>]
        <2>1. ASSUME NEW i \in 1..n
              PROVE  /\ a[i].a0 = b[i].a0 /\ a[i].a1 = b[i].a1
                     /\ c[i].a0 = d[i].a0 /\ c[i].a1 = d[i].a1
            BY <1>3, <1>n, AnnouncedEach
        <2> QED
            BY <1>3, <2>1
    <1> QED
        BY <1>1, <1>3, <1>4, <1>5

-----------------------------------------------------------------------------
(* The same question is about the same statement: the others *)

\* The domains of an identification.
IdMark == "id"
TwoMark == "2"

\* Both can be absorbed.
LEMMA DomainsFit == Fits(<<"id">>) /\ Fits(<<"id", "2">>)
    <1>1. IdMark \in Marks /\ TwoMark \in Marks
        BY DEF IdMark, TwoMark, Marks
    <1>2. Fits(<<IdMark>>)
        BY <1>1, MarkFits
    <1> DEFINE s == <<IdMark, TwoMark>>
    <1>3. s \in Txt /\ Len(s) = 2
        BY <1>1 DEF Txt, Alphabet
    <1>4. 2 \in Writable
        BY NFacts, TranscriptAssumption
    <1> HIDE DEF s
    <1>5. Fits(s)
        BY <1>3, <1>4 DEF Fits
    <1> QED
        BY <1>2, <1>5 DEF s, IdMark, TwoMark

\* An identification that was judged: its points.
LEMMA SchnorrPoints ==
    ASSUME IInv, MadeFor, JudgedFrom, made # Nothing, made.job = "schnorr", judged # Nothing,
           NEW e \in Scalars, SchnorrRight(made, e)
    PROVE  /\ SchnorrJudged(judged, oracle[judged.question])
           /\ judged.base = made.base
           /\ made.base \in {G, H} /\ made.base \in Points
           /\ made.public \in Points /\ judged.public \in Points
           /\ made.proof \in SchnorrProof
           /\ \E response \in 0..(2 * N - 1) :
                 judged.proof = [made.proof EXCEPT !.response = response]
           /\ made.question = SchnorrQuestion(made.domain, made.base, made.public,
                                              made.proof.commitment)
           /\ Fits(made.domain) /\ Fits(judged.domain)
    <1>1. SchnorrJudged(judged, oracle[judged.question])
        BY DEF IInv, JudgedRight, JudgedAs
    <1>2. SchnorrShown(judged) /\ made.domain = <<"id">> /\ made.base \in {G, H}
        BY DEF JudgedFrom, MadeFor
    <1>3. Fits(made.domain) /\ Fits(judged.domain)
        BY <1>2, DomainsFit DEF SchnorrShown
    <1>4. G \in Points /\ H \in Points
        BY NFacts DEF IInv
    <1>5. PICK domain : \E secret \in Scalars, base \in Points, w \in Scalars :
                            made = SchnorrMade(domain, secret, base, w, e)
        BY DEF SchnorrRight
    <1>6. PICK secret \in Scalars, base \in Points, w \in Scalars :
              made = SchnorrMade(domain, secret, base, w, e)
        BY <1>5
    <1>7. /\ made.domain = domain /\ made.base = base /\ made.public = Mul(secret, base)
          /\ made.question = SchnorrQuestion(domain, base, Mul(secret, base), Mul(w, base))
          /\ made.proof.commitment = Mul(w, base)
        BY <1>6 DEF SchnorrMade, SchnorrProve
    <1>8. made.public \in Points
        BY <1>7, MulPoint, ScalarFacts
    <1>9. made.proof \in SchnorrProof
        BY SchnorrType
    <1>10. judged.public \in Points
        BY <1>2, <1>4, <1>8 DEF SchnorrShown
    <1> QED
        BY <1>1, <1>2, <1>3, <1>4, <1>7, <1>8, <1>9, <1>10 DEF SchnorrShown

\* With the same question it was judged for the same domain, base, key and commitment.
LEMMA SchnorrBinds ==
    ASSUME IInv, MadeFor, JudgedFrom, made # Nothing, made.job = "schnorr", judged # Nothing,
           judged.question = made.question, NEW e \in Scalars, SchnorrRight(made, e)
    PROVE  Statement("schnorr", judged) = Statement("schnorr", made)
    <1> DEFINE d1 == made.domain
               d2 == judged.domain
               b1 == made.base
               b2 == judged.base
               p1 == made.public
               p2 == judged.public
               a1 == made.proof.commitment
               a2 == judged.proof.commitment
    <1>1. /\ Fits(d1) /\ Fits(d2) /\ b1 \in Points /\ b2 = b1 /\ p1 \in Points /\ p2 \in Points
          /\ made.proof \in SchnorrProof
          /\ SchnorrQuestion(d1, b1, p1, a1) = SchnorrQuestion(d2, b2, p2, a2)
        BY SchnorrPoints DEF SchnorrJudged
    <1>2. a1 \in Points /\ a2 = a1
        <2>1. PICK response \in 0..(2 * N - 1) :
                  judged.proof = [made.proof EXCEPT !.response = response]
            BY SchnorrPoints
        <2>2. judged.proof.commitment = made.proof.commitment
            BY <1>1, <2>1 DEF SchnorrProof
        <2> QED
            BY <1>1, <2>2 DEF SchnorrProof
    <1>3. /\ Statement("schnorr", judged) = <<d2, b2, p2, a2>>
          /\ Statement("schnorr", made) = <<d1, b1, p1, a1>>
        BY DEF Statement
    <1> HIDE DEF d1, d2, b1, b2, p1, p2, a1, a2
    <1>4. d1 = d2 /\ b1 = b2 /\ p1 = p2 /\ a1 = a2
        BY <1>1, <1>2, SchnorrFraming, PointsOnWire
    <1> QED
        BY <1>3, <1>4

\* The commitment that is recovered from a signature as it was made is the one
\* it was made with.
LEMMA SignatureMakes ==
    ASSUME NEW e \in Scalars, SignatureRight(made, e)
    PROVE  /\ made.proof[1] = e /\ made.proof \in Scalars \X Scalars
           /\ made.pub \in Points /\ Recovered(made.pub, made.proof) \in Points
           /\ made.question = SignatureQuestion(Recovered(made.pub, made.proof), made.pub, made.msg)
    <1>2. PICK msg : \E secret \in Scalars, w \in Scalars :
                         made = SignatureMade(secret, msg, w, e)
        BY DEF SignatureRight
    <1>3. PICK secret \in Scalars, w \in Scalars : made = SignatureMade(secret, msg, w, e)
        BY <1>2
    <1> DEFINE pub == Mul(secret, G)
               u == w + e * secret
               z == u % N
    <1>6. /\ made.pub = pub /\ made.msg = msg
          /\ made.question = SignatureQuestion(Mul(w, G), pub, msg)
          /\ made.proof = <<e, z>>
        BY <1>3 DEF SignatureMade, Sign
    <1>t. made.proof \in Scalars \X Scalars
        BY SignatureType
    <1>8. w \in Int /\ secret \in Int /\ e \in Int /\ 1 \in Int
        BY ScalarFacts
    <1>9. Mul(w, G) = E(w) /\ pub = E(secret)
        <2>1. w * 1 = w /\ secret * 1 = secret
            BY <1>8
        <2> QED
            BY <1>8, <2>1, EZero, MulE
    <1> DEFINE es == e * secret
    <1>10. u \in Int /\ es \in Int /\ u - es = w
        BY <1>8
    <1>11. Mul(z, G) = E(u)
        <2> HIDE DEF u
        <2>1. z \in Int /\ E(z) = E(u)
            BY <1>10, ModN, EOf
        <2> HIDE DEF z
        <2>2. Mul(z, E(1)) = E(z * 1) /\ z * 1 = z
            BY <1>8, <2>1, MulE
        <2> QED
            BY <2>1, <2>2, EZero
    <1> HIDE DEF z, u, pub
    <1>12. Mul(e, pub) = E(es)
        BY <1>8, <1>9, MulE
    <1> HIDE DEF es
    <1>13. Recovered(pub, <<e, z>>) = Mul(w, G)
        BY <1>9, <1>10, <1>11, <1>12, MinusE DEF Recovered
    <1>14. E(w) \in Points /\ E(secret) \in Points
        BY <1>8, EPoint
    <1> QED
        BY <1>6, <1>t, <1>9, <1>13, <1>14

\* A signature that was judged: its points.
LEMMA SignaturePoints ==
    ASSUME IInv, MadeFor, JudgedFrom, made # Nothing, made.job = "signature", judged # Nothing,
           NEW e \in Scalars, SignatureRight(made, e)
    PROVE  /\ SignatureJudged(judged, oracle[judged.question])
           /\ \E z \in 0..(2 * N - 1) : judged.proof = <<made.proof[1], z>>
           /\ judged.pub \in Points /\ Recovered(judged.pub, judged.proof) \in Points
           /\ made.msg \in Text /\ judged.msg \in Text
    <1>1. SignatureJudged(judged, oracle[judged.question])
        BY DEF IInv, JudgedRight, JudgedAs
    <1>2. SignatureShown(judged) /\ made.msg \in Messages
        BY DEF JudgedFrom, MadeFor
    <1>3. judged.pub \in Points
        BY <1>2, SignatureMakes DEF SignatureShown, IInv
    <1>4. PICK z \in 0..(2 * N - 1) : judged.proof = <<made.proof[1], z>>
        BY <1>2 DEF SignatureShown
    <1> DEFINE s == judged.proof
               q == judged.pub
    <1>5. s[1] \in Int /\ s[2] \in Int /\ G \in Points
        BY <1>4, SignatureMakes, ScalarFacts, NFacts
    <1> HIDE DEF s
    <1>6. Recovered(q, s) \in Points
        BY <1>3, <1>5, MulPoint, MinusPoint DEF Recovered
    <1> QED
        BY <1>1, <1>2, <1>3, <1>4, <1>6, TranscriptAssumption DEF SignatureShown, s

\* With the same question it was judged for the same key, message and commitment.
LEMMA SignatureBinds ==
    ASSUME IInv, MadeFor, JudgedFrom, made # Nothing, made.job = "signature", judged # Nothing,
           judged.question = made.question, NEW e \in Scalars, SignatureRight(made, e)
    PROVE  Statement("signature", judged) = Statement("signature", made)
    <1> DEFINE a1 == Recovered(made.pub, made.proof)
               a2 == Recovered(judged.pub, judged.proof)
               p1 == made.pub
               p2 == judged.pub
               m1 == made.msg
               m2 == judged.msg
    <1>1. /\ a1 \in Points /\ a2 \in Points /\ p1 \in Points /\ p2 \in Points
          /\ m1 \in Text /\ m2 \in Text
          /\ SignatureQuestion(a1, p1, m1) = SignatureQuestion(a2, p2, m2)
        BY SignatureMakes, SignaturePoints DEF SignatureJudged
    <1>2. /\ Statement("signature", judged) = <<p2, m2, a2>>
          /\ Statement("signature", made) = <<p1, m1, a1>>
        BY DEF Statement
    <1> HIDE DEF a1, a2, p1, p2, m1, m2
    <1>3. a1 = a2 /\ p1 = p2 /\ m1 = m2
        BY <1>1, SignatureFraming, PointsOnWire
    <1> QED
        BY <1>2, <1>3

\* What was made, by its kind and with its answer.
LEMMA MadeCases ==
    ASSUME IInv, made # Nothing
    PROVE  /\ oracle[made.question] \in Scalars
           /\ \/ /\ made.job = "range"
                 /\ \E h \in 1..(N - 1) : H = E(h) /\ RangeRight(h, made, oracle[made.question])
              \/ made.job = "schnorr" /\ SchnorrRight(made, oracle[made.question])
              \/ made.job = "signature" /\ SignatureRight(made, oracle[made.question])
    <1>1. /\ made.question \in DOMAIN oracle
          /\ \/ \E h \in 1..(N - 1) : H = E(h) /\ RangeRight(h, made, oracle[made.question])
             \/ SchnorrRight(made, oracle[made.question])
             \/ SignatureRight(made, oracle[made.question])
        BY DEF IInv, MadeRight
    <1>2. oracle[made.question] \in Scalars
        BY <1>1, RangeProofAssumption DEF IInv
    <1> QED
        BY <1>1, <1>2, JobOf

\* For every curve and width, every context and message, and every way of writing
\* numbers that keeps them apart: prover and verifier hash the same bytes only for the
\* same context, cap, width, commitments and announcements (or key and message).
THEOREM QuestionsBind == Spec => []BoundToStatement
    <1>1. IInv /\ MadeFor /\ JudgedFrom => BoundToStatement
        <2> SUFFICES ASSUME IInv, MadeFor, JudgedFrom, judged # Nothing, judged.asked,
                            judged.question = made.question
                     PROVE  Statement(made.job, judged) = Statement(made.job, made)
            BY DEF BoundToStatement
        <2>1. made # Nothing
            BY DEF IInv, JudgedRight
        <2> DEFINE e == oracle[made.question]
        <2>2. /\ e \in Scalars
              /\ \/ made.job = "range" /\ \E h \in 1..(N - 1) : H = E(h) /\ RangeRight(h, made, e)
                 \/ made.job = "schnorr" /\ SchnorrRight(made, e)
                 \/ made.job = "signature" /\ SignatureRight(made, e)
            BY <2>1, MadeCases
        <2> HIDE DEF e
        <2>3. CASE made.job = "range" /\ \E h \in 1..(N - 1) : H = E(h) /\ RangeRight(h, made, e)
            <3>1. PICK h \in 1..(N - 1) : H = E(h) /\ RangeRight(h, made, e)
                BY <2>3
            <3>2. Statement("range", judged) = Statement("range", made)
                BY <2>1, <2>2, <2>3, <3>1, RangeBinds
            <3> QED
                BY <2>3, <3>2
        <2>4. CASE made.job = "schnorr" /\ SchnorrRight(made, e)
            <3>1. Statement("schnorr", judged) = Statement("schnorr", made)
                BY <2>1, <2>2, <2>4, SchnorrBinds
            <3> QED
                BY <2>4, <3>1
        <2>5. CASE made.job = "signature" /\ SignatureRight(made, e)
            <3>1. Statement("signature", judged) = Statement("signature", made)
                BY <2>1, <2>2, <2>5, SignatureBinds
            <3> QED
                BY <2>5, <3>1
        <2> QED
            BY <2>2, <2>3, <2>4, <2>5
    <1> QED
        BY <1>1, Invariant, Origins, PTL

-----------------------------------------------------------------------------
(* The same question has the same responses, modulo N *)

\* Numbers congruent to the same are congruent.
LEMMA CongSame ==
    ASSUME NEW a \in Int, NEW b \in Int, NEW c \in Int, Cong(N, a, c), Cong(N, b, c)
    PROVE  Cong(N, a - b, 0)
    <1>1. PICK j \in Int : a = c + j * N
        BY DEF Cong
    <1>2. PICK k \in Int : b = c + k * N
        BY DEF Cong
    <1>3. a - b = 0 + (j - k) * N /\ j - k \in Int
        BY <1>1, <1>2, NFacts
    <1> DEFINE d == a - b
    <1>4. d \in Int /\ d = 0 + (j - k) * N
        BY <1>3
    <1> HIDE DEF d
    <1>5. Cong(N, d, 0)
        BY <1>3, <1>4 DEF Cong
    <1> QED
        BY <1>5 DEF d

\* And the other way round.
LEMMA SameCong ==
    ASSUME NEW a \in Int, NEW b \in Int, NEW c \in Int, Cong(N, c, a), Cong(N, c, b)
    PROVE  Cong(N, a - b, 0)
    <1>1. PICK j \in Int : c = a + j * N
        BY DEF Cong
    <1>2. PICK k \in Int : c = b + k * N
        BY DEF Cong
    <1>3. a - b = 0 + (k - j) * N /\ k - j \in Int
        BY <1>1, <1>2, NFacts
    <1> DEFINE d == a - b
    <1>4. d = 0 + (k - j) * N
        BY <1>3
    <1> HIDE DEF d
    <1>5. Cong(N, d, 0)
        BY <1>3, <1>4 DEF Cong
    <1> QED
        BY <1>5 DEF d

\* A factor raised by one makes no difference only to zero.
LEMMA Raised ==
    ASSUME NEW x \in Int, NEW y \in Int, y = x + 1, NEW a \in Int,
           Cong(N, y * a - x * a, 0)
    PROVE  Cong(N, a, 0)
    <1>1. y * a - x * a = a
        OBVIOUS
    <1> QED
        BY <1>1

\* No other scalar is zero.
LEMMA ZeroOnly ==
    ASSUME NEW k \in Scalars, Cong(N, k, 0)
    PROVE  k = 0
    <1> DEFINE z == 0
    <1>1. z \in Scalars
        BY NFacts DEF Scalars
    <1>2. k - z = k
        BY ScalarFacts
    <1>4. Cong(N, k - z, 0)
        BY <1>2
    <1> HIDE DEF z
    <1>3. k = z
        BY <1>1, <1>4, ScalarsOnce
    <1> QED
        BY <1>3 DEF z

\* The proof of a bit of which one number was raised by one does not hold.
LEMMA MovedRejected ==
    ASSUME NEW h \in 1..(N - 1), H = E(h), NEW C \in Points, NEW b \in BitOrProof,
           NEW e \in Scalars, NEW p, BitRaised(p, b, 1), OrVerify(C, b, e), OrVerify(C, p, e)
    PROVE  FALSE
    <1>1. PICK c \in Scalars : C = E(c)
        BY EveryPoint
    <1>2. /\ b.a0 \in Points /\ b.a1 \in Points
          /\ b.e0 \in Scalars /\ b.z0 \in Scalars /\ b.z1 \in Scalars
        BY DEF BitOrProof
    <1>3. PICK x0 \in Scalars : b.a0 = E(x0)
        BY <1>2, EveryPoint
    <1>4. PICK x1 \in Scalars : b.a1 = E(x1)
        BY <1>2, EveryPoint
    <1> DEFINE e0 == b.e0
               z0 == b.z0
               z1 == b.z1
               f0 == p.e0
               y0 == p.z0
               y1 == p.z1
    <1>5. /\ h \in Int /\ c \in Int /\ x0 \in Int /\ x1 \in Int /\ e \in Int
          /\ e0 \in Int /\ z0 \in Int /\ z1 \in Int
        <2>1. h \in Int
            OBVIOUS
        <2> HIDE DEF e0, z0, z1
        <2>2. e0 \in Scalars /\ z0 \in Scalars /\ z1 \in Scalars
            BY <1>2 DEF e0, z0, z1
        <2> QED
            BY <2>1, <2>2, ScalarFacts
    <1>n. h \in Scalars /\ h # 0
        BY NFacts DEF Scalars
    <1>6. /\ p.a0 = E(x0) /\ p.a1 = E(x1)
          /\ \/ f0 = e0 + 1 /\ y0 = z0 /\ y1 = z1
             \/ f0 = e0 /\ y0 = z0 + 1 /\ y1 = z1
             \/ f0 = e0 /\ y0 = z0 /\ y1 = z1 + 1
        BY <1>3, <1>4 DEF BitRaised
    <1>7. f0 \in Int /\ y0 \in Int /\ y1 \in Int
        <2> HIDE DEF e0, z0, z1, f0, y0, y1
        <2> QED
            BY <1>5, <1>6
    <1>8. /\ Cong(N, z0 * h, x0 + e0 * c)
          /\ Cong(N, z1 * h, x1 + (e - e0) * (c - 1))
        BY <1>1, <1>3, <1>4, <1>5, OrVerifyE
    <1>9. /\ Cong(N, y0 * h, x0 + f0 * c)
          /\ Cong(N, y1 * h, x1 + (e - f0) * (c - 1))
        BY <1>1, <1>5, <1>6, <1>7, OrVerifyE
    <1> HIDE DEF e0, z0, z1, f0, y0, y1
    <1> DEFINE c1 == c - 1
               l0 == z0 * h
               l1 == z1 * h
               k0 == y0 * h
               k1 == y1 * h
               r0 == x0 + e0 * c
               r1 == x1 + (e - e0) * c1
               s0 == x0 + f0 * c
               s1 == x1 + (e - f0) * c1
    <1>10. /\ l0 \in Int /\ l1 \in Int /\ k0 \in Int /\ k1 \in Int
           /\ r0 \in Int /\ r1 \in Int /\ s0 \in Int /\ s1 \in Int /\ c1 \in Int
        BY <1>5, <1>7
    <1>11. Cong(N, l0, r0) /\ Cong(N, l1, r1) /\ Cong(N, k0, s0) /\ Cong(N, k1, s1)
        BY <1>8, <1>9
    <1>12. CASE f0 = e0 /\ y0 = z0 + 1
        <2>1. s0 = r0
            BY <1>12
        <2>2. Cong(N, k0 - l0, 0)
            <3> HIDE DEF k0, l0, r0, s0
            <3> QED
                BY <1>10, <1>11, <2>1, CongSame
        <2>3. Cong(N, y0 * h - z0 * h, 0)
            BY <2>2
        <2>4. Cong(N, h, 0)
            BY <1>5, <1>7, <1>12, <2>3, Raised
        <2> QED
            BY <1>n, <2>4, ZeroOnly
    <1>13. CASE f0 = e0 /\ y1 = z1 + 1
        <2>1. s1 = r1
            BY <1>13
        <2>2. Cong(N, k1 - l1, 0)
            <3> HIDE DEF k1, l1, r1, s1
            <3> QED
                BY <1>10, <1>11, <2>1, CongSame
        <2>3. Cong(N, y1 * h - z1 * h, 0)
            BY <2>2
        <2>4. Cong(N, h, 0)
            BY <1>5, <1>7, <1>13, <2>3, Raised
        <2> QED
            BY <1>n, <2>4, ZeroOnly
    <1>14. CASE f0 = e0 + 1 /\ y0 = z0 /\ y1 = z1
        <2>1. k0 = l0 /\ k1 = l1
            BY <1>14
        <2>2. Cong(N, s0 - r0, 0) /\ Cong(N, r1 - s1, 0)
            <3> HIDE DEF k0, l0, r0, s0, k1, l1, r1, s1
            <3> QED
                BY <1>10, <1>11, <2>1, SameCong
        <2>3. s0 - r0 = f0 * c - e0 * c
            BY <1>5, <1>7
        <2>4. r1 - s1 = f0 * c1 - e0 * c1
            <3> HIDE DEF c1
            <3> QED
                BY <1>5, <1>7, <1>10
        <2>5. Cong(N, f0 * c - e0 * c, 0) /\ Cong(N, f0 * c1 - e0 * c1, 0)
            BY <2>2, <2>3, <2>4
        <2>6. Cong(N, c, 0)
            BY <1>5, <1>7, <1>14, <2>5, Raised
        <2> DEFINE d == c1
        <2>7. d = c - 1 /\ d \in Int /\ Cong(N, f0 * d - e0 * d, 0)
            BY <1>10, <2>5
        <2> HIDE DEF d
        <2>8. Cong(N, d, 0)
            BY <1>5, <1>7, <1>14, <2>7, Raised
        <2>9. Cong(N, c - d, 0) /\ c - d = 1
            BY <1>5, <2>6, <2>7, <2>8, CongSame
        <2>10. Cong(N, 1, 0)
            BY <2>9
        <2>11. 1 \in Scalars
            BY NFacts DEF Scalars
        <2> QED
            BY <2>10, <2>11, ZeroOnly
    <1> QED
        BY <1>6, <1>12, <1>13, <1>14

\* The proofs of the bits with their numbers reduced.
BitReduced(b) ==
    [a0 |-> b.a0, a1 |-> b.a1, e0 |-> b.e0 % N, z0 |-> b.z0 % N, z1 |-> b.z1 % N]

Reduced(prfs) == [i \in DOMAIN prfs |-> BitReduced(prfs[i])]

\* The residues of a range proof, by its parts.
LEMMA RangeResidues ==
    ASSUME NEW p
    PROVE  Residues("range", p) = [nbits |-> p.nbits, Cv |-> p.Cv, Pv |-> Reduced(p.Pv),
                                   Cd |-> p.Cd, Pd |-> Reduced(p.Pd)]
    BY DEF Residues, Reduced, BitReduced

\* What is made is reduced.
LEMMA MadeReduced ==
    ASSUME NEW b \in BitOrProof
    PROVE  BitReduced(b) = b
    <1>1. /\ b.e0 % N = b.e0 /\ b.z0 % N = b.z0 /\ b.z1 % N = b.z1
          /\ b = [a0 |-> b.a0, a1 |-> b.a1, e0 |-> b.e0, z0 |-> b.z0, z1 |-> b.z1]
        BY ScalarFacts DEF BitOrProof
    <1> QED
        BY <1>1 DEF BitReduced

\* The order of the group added to a scalar, or taken from it, makes no difference to its
\* residue.
LEMMA SameResidue ==
    ASSUME NEW k \in Scalars, NEW d \in {N, -N}
    PROVE  (k + d) % N = k
    <1>1. k \in Int /\ k % N = k /\ N \in Int
        BY ScalarFacts, NFacts
    <1> DEFINE s == k + d
    <1>2. s \in Int /\ (s = k + 1 * N \/ s = k + (-1) * N)
        BY <1>1
    <1> HIDE DEF s
    <1>3. Cong(N, s, k)
        BY <1>2 DEF Cong
    <1>4. s % N = k % N
        BY <1>1, <1>2, <1>3, CongN
    <1> QED
        BY <1>1, <1>4 DEF s

\* A bit that has moved and still holds has moved by the order of the group.
LEMMA MovedReduced ==
    ASSUME NEW h \in 1..(N - 1), H = E(h), NEW C \in Points, NEW b \in BitOrProof,
           NEW e \in Scalars, NEW p, BitMoved(p, b), OrVerify(C, b, e), OrVerify(C, p, e)
    PROVE  BitReduced(p) = b
    <1>1. PICK d \in Raises : BitRaised(p, b, d)
        BY DEF BitMoved
    <1>2. d # 1
        BY <1>1, MovedRejected
    <1>3. d \in {N, -N}
        BY <1>2 DEF Raises
    <1>4. b.e0 \in Scalars /\ b.z0 \in Scalars /\ b.z1 \in Scalars
        BY DEF BitOrProof
    <1>5. /\ (b.e0 + d) % N = b.e0 /\ (b.z0 + d) % N = b.z0 /\ (b.z1 + d) % N = b.z1
          /\ b.e0 % N = b.e0 /\ b.z0 % N = b.z0 /\ b.z1 % N = b.z1
        BY <1>3, <1>4, SameResidue, ScalarFacts
    <1>6. p.a0 = b.a0 /\ p.a1 = b.a1 /\ p.e0 % N = b.e0 /\ p.z0 % N = b.z0 /\ p.z1 % N = b.z1
        BY <1>1, <1>5 DEF BitRaised
    <1>7. b = [a0 |-> b.a0, a1 |-> b.a1, e0 |-> b.e0, z0 |-> b.z0, z1 |-> b.z1]
        BY DEF BitOrProof
    <1> QED
        BY <1>6, <1>7 DEF BitReduced

\* A half that has moved and is accepted is, modulo N, the one that was made.
LEMMA HalfMovedReduced ==
    ASSUME NEW h \in 1..(N - 1), H = E(h), NEW n \in Nat \ {0}, NEW bits, NEW r, NEW C, NEW prfs,
           NEW e \in Scalars, HalfRight(h, n, bits, r, C, prfs, e), bits \in [1..n -> {0, 1}],
           NEW ps, HalfMoved(n, ps, prfs), OrVerify(C[1], ps[1], e)
    PROVE  Reduced(ps) = prfs
    <1>1. 1 \in 1..n
        OBVIOUS
    <1>2. OrVerify(C[1], prfs[1], e)
        BY <1>1, HonestHalf
    <1>3. C \in [1..n -> Points] /\ prfs \in Seq(BitOrProof) /\ Len(prfs) = n
        BY HalfType
    <1>4. C[1] \in Points /\ prfs[1] \in BitOrProof
        BY <1>1, <1>3
    <1>5. BitMoved(ps[1], prfs[1]) /\ DOMAIN ps = 1..n /\ \A i \in 2..n : ps[i] = prfs[i]
        BY DEF HalfMoved
    <1>6. BitReduced(ps[1]) = prfs[1]
        BY <1>2, <1>4, <1>5, MovedReduced
    <1>7. ASSUME NEW i \in 1..n PROVE BitReduced(ps[i]) = prfs[i]
        <2>1. CASE i = 1
            BY <1>6, <2>1
        <2>2. CASE i # 1
            <3>1. i \in 2..n /\ prfs[i] \in BitOrProof
                BY <1>3, <2>2
            <3> QED
                BY <1>5, <3>1, MadeReduced
        <2> QED
            BY <2>1, <2>2
    <1>8. prfs \in [1..n -> BitOrProof]
        BY <1>3
    <1> QED
        BY <1>5, <1>7, <1>8 DEF Reduced

\* One that has not is the one that was made.
LEMMA HalfReduced ==
    ASSUME NEW prfs \in Seq(BitOrProof)
    PROVE  Reduced(prfs) = prfs
    <1>1. ASSUME NEW i \in DOMAIN prfs PROVE BitReduced(prfs[i]) = prfs[i]
        <2>1. prfs[i] \in BitOrProof
            OBVIOUS
        <2> QED
            BY <2>1, MadeReduced
    <1>2. prfs = [i \in DOMAIN prfs |-> prfs[i]]
        OBVIOUS
    <1> QED
        BY <1>1, <1>2 DEF Reduced

\* So no response that is another one modulo N is accepted for the same question.
LEMMA RangeResponses ==
    ASSUME IInv, MadeFor, JudgedFrom, made # Nothing, made.job = "range",
           judged # Nothing, judged.asked, judged.question = made.question,
           judged.verdict = "accepted", NEW h \in 1..(N - 1), H = E(h), NEW e \in Scalars,
           e = oracle[made.question], RangeRight(h, made, e)
    PROVE  Residues("range", judged.proof) = made.proof
    <1> DEFINE m == made.proof
               n == m.nbits
               p == judged.proof
    <1>1. /\ RangeJudged(H, judged, e) /\ Arrives(p, m) /\ p.Cv = m.Cv
        BY AskedRange, RangeBound
    <1>2. n \in Nat \ {0} /\ p.nbits = n /\ p.Cd = m.Cd
        BY <1>1, RangeType DEF Arrives
    <1>3. Verifies(H, p, judged.cap, e)
        <2>1. "accepted" = Verdict(Verifies(H, p, judged.cap, e))
            BY <1>1 DEF RangeJudged
        <2> QED
            BY <2>1 DEF Verdict
    <1>4. OrVerify(m.Cv[1], p.Pv[1], e) /\ OrVerify(m.Cd[1], p.Pd[1], e)
        <2>1. 1 \in 1..p.nbits
            BY <1>2
        <2>2. Holds(H, p.Cv[1], p.Pv[1], e) /\ Holds(H, p.Cd[1], p.Pd[1], e)
            BY <1>3, <2>1 DEF Verifies
        <2> QED
            BY <1>1, <1>2, <2>2 DEF Holds, OrVerify
    <1>5. /\ HalfRight(h, n, made.bitsv, made.rv, m.Cv, m.Pv, e)
          /\ HalfRight(h, n, made.bitsd, made.rd, m.Cd, m.Pd, e)
          /\ made.honest => /\ made.bitsv \in [1..n -> {0, 1}]
                            /\ made.bitsd \in [1..n -> {0, 1}]
          /\ m = [nbits |-> n, Cv |-> m.Cv, Pv |-> m.Pv, Cd |-> m.Cd, Pd |-> m.Pd]
        BY DEF RangeRight
    <1> DEFINE a == m.Pv
               b == p.Pv
               c == m.Pd
               d == p.Pd
    <1>8. a \in Seq(BitOrProof) /\ c \in Seq(BitOrProof)
        BY RangeType DEF RangeLeqProof
    <1>9. Residues("range", p) = [nbits |-> p.nbits, Cv |-> p.Cv, Pv |-> Reduced(b),
                                  Cd |-> p.Cd, Pd |-> Reduced(d)]
        BY RangeResidues
    <1>10. \/ b = a /\ d = c
           \/ made.honest /\ HalfMoved(n, b, a) /\ d = c
           \/ made.honest /\ b = a /\ HalfMoved(n, d, c)
        BY <1>1 DEF Arrives
    <1>11. Reduced(b) = a /\ Reduced(d) = c
        <2> DEFINE Cv == m.Cv
                   Cd == m.Cd
        <2>1. /\ HalfRight(h, n, made.bitsv, made.rv, Cv, a, e)
              /\ HalfRight(h, n, made.bitsd, made.rd, Cd, c, e)
              /\ OrVerify(Cv[1], b[1], e) /\ OrVerify(Cd[1], d[1], e)
            BY <1>4, <1>5
        <2> HIDE DEF n, a, b, c, d, Cv, Cd
        <2>2. Reduced(a) = a /\ Reduced(c) = c
            BY <1>8, HalfReduced
        <2>3. CASE b = a /\ d = c
            BY <2>2, <2>3
        <2>4. CASE made.honest /\ HalfMoved(n, b, a) /\ d = c
            BY <1>2, <1>5, <2>1, <2>2, <2>4, HalfMovedReduced
        <2>5. CASE made.honest /\ b = a /\ HalfMoved(n, d, c)
            BY <1>2, <1>5, <2>1, <2>2, <2>5, HalfMovedReduced
        <2> QED
            BY <1>10, <2>3, <2>4, <2>5
    <1>12. m = [nbits |-> n, Cv |-> m.Cv, Pv |-> a, Cd |-> m.Cd, Pd |-> c]
        BY <1>5
    <1> HIDE DEF m, n, p, a, b, c, d
    <1>13. Residues("range", p) = m
        BY <1>1, <1>2, <1>9, <1>11, <1>12
    <1> QED
        BY <1>13 DEF p, m

\* An identification that was made verifies.
LEMMA SchnorrHolds ==
    ASSUME NEW e \in Scalars, SchnorrRight(made, e)
    PROVE  /\ Mul(made.proof.response, made.base)
              = Plus(made.proof.commitment, Mul(e, made.public))
           /\ made.proof \in SchnorrProof /\ made.base \in Points
    <1>1. PICK domain : \E secret \in Scalars, base \in Points, w \in Scalars :
                            made = SchnorrMade(domain, secret, base, w, e)
        BY DEF SchnorrRight
    <1>2. PICK secret \in Scalars, base \in Points, w \in Scalars :
              made = SchnorrMade(domain, secret, base, w, e)
        BY <1>1
    <1> DEFINE u == w + e * secret
               z == u % N
    <1>3. /\ made.base = base /\ made.public = Mul(secret, base)
          /\ made.proof.commitment = Mul(w, base) /\ made.proof.response = z
        BY <1>2 DEF SchnorrMade, SchnorrProve
    <1>4. PICK b \in Scalars : base = E(b)
        BY EveryPoint
    <1>5. w \in Int /\ secret \in Int /\ e \in Int /\ b \in Int
        BY ScalarFacts
    <1> DEFINE sb == secret * b
               wb == w * b
               esb == e * sb
    <1>6. sb \in Int /\ wb \in Int /\ esb \in Int /\ u \in Int /\ u * b \in Int
        BY <1>5
    <1>7. u * b = wb + esb
        BY <1>5
    <1>8. Mul(z, base) = E(u * b)
        <2> HIDE DEF u
        <2>1. z \in Int
            BY <1>6, ModN
        <2>2. Mul(z, E(b)) = E(z * b)
            BY <1>5, <2>1, MulE
        <2>3. E(z * b) = E(u * b)
            BY <1>5, <1>6, ReducedFactor
        <2> QED
            BY <1>4, <2>2, <2>3
    <1>9. Mul(secret, base) = E(sb) /\ Mul(w, base) = E(wb)
        BY <1>4, <1>5, MulE
    <1> HIDE DEF sb, wb
    <1>10. Mul(e, E(sb)) = E(esb)
        BY <1>5, <1>6, MulE
    <1> HIDE DEF esb, z, u
    <1>11. Plus(E(wb), E(esb)) = E(wb + esb)
        BY <1>6, PlusE
    <1>12. made.proof \in SchnorrProof
        BY SchnorrType
    <1> QED
        BY <1>3, <1>7, <1>8, <1>9, <1>10, <1>11, <1>12

\* Numbers whose difference is zero modulo N have the same residue.
LEMMA ResidueOf ==
    ASSUME NEW x \in Scalars, NEW y \in Int, Cong(N, x - y, 0)
    PROVE  y % N = x
    <1>1. x \in Int /\ x % N = x /\ N \in Int
        BY ScalarFacts, NFacts
    <1>2. PICK j \in Int : x - y = 0 + j * N
        BY DEF Cong
    <1>3. y = x + (-j) * N /\ -j \in Int
        BY <1>1, <1>2
    <1>4. Cong(N, y, x)
        BY <1>3 DEF Cong
    <1> QED
        BY <1>1, <1>4, CongN

\* Nor is another response of an identification, modulo N.
LEMMA SchnorrResponses ==
    ASSUME IInv, MadeFor, JudgedFrom, made # Nothing, made.job = "schnorr", judged # Nothing,
           judged.question = made.question, judged.verdict = "accepted",
           NEW e \in Scalars, e = oracle[made.question], SchnorrRight(made, e)
    PROVE  Residues("schnorr", judged.proof) = made.proof
    <1>1. /\ SchnorrJudged(judged, e) /\ judged.base = made.base
          /\ made.base \in {G, H} /\ made.base \in Points /\ made.proof \in SchnorrProof
        BY SchnorrPoints
    <1>2. PICK y \in 0..(2 * N - 1) : judged.proof = [made.proof EXCEPT !.response = y]
        BY SchnorrPoints
    <1>3. /\ judged.public = made.public
        <2>1. Statement("schnorr", judged) = Statement("schnorr", made)
            BY SchnorrBinds
        <2> QED
            BY <2>1 DEF Statement
    <1> DEFINE a == made.proof.commitment
               x == made.proof.response
               base == made.base
    <1>4. /\ judged.proof = [commitment |-> a, response |-> y]
          /\ made.proof = [commitment |-> a, response |-> x] /\ x \in Scalars
        BY <1>1, <1>2 DEF SchnorrProof
    <1>5. Mul(y, base) = Plus(a, Mul(e, made.public))
        <2>1. "accepted" = Verdict(SchnorrVerify(judged.proof, judged.base, judged.public, e))
            BY <1>1 DEF SchnorrJudged
        <2>2. SchnorrVerify(judged.proof, judged.base, judged.public, e)
            BY <2>1 DEF Verdict
        <2> QED
            BY <1>1, <1>3, <1>4, <2>2 DEF SchnorrVerify
    <1>6. Mul(x, base) = Plus(a, Mul(e, made.public))
        BY SchnorrHolds
    <1>7. base # IDENTITY
        BY <1>1, NFacts DEF IInv
    <1>b. base \in Points
        BY <1>1
    <1> HIDE DEF a, x, base
    <1>8. PICK b \in Scalars : base = E(b)
        BY <1>b, EveryPoint
    <1>9. x \in Int /\ y \in Int /\ b \in Int /\ 0 \in Int /\ x - y \in Int
        <2>1. x \in Int /\ b \in Int
            BY <1>4, ScalarFacts
        <2>2. y \in Int
            OBVIOUS
        <2> QED
            BY <2>1, <2>2
    <1> DEFINE xb == x * b
               yb == y * b
    <1>10. xb \in Int /\ yb \in Int /\ (x - y) * b = xb - yb
        BY <1>9
    <1>11. E(xb) = E(yb)
        BY <1>5, <1>6, <1>8, <1>9, MulE
    <1> HIDE DEF xb, yb
    <1>12. Cong(N, xb, yb) /\ Cong(N, yb, yb)
        BY <1>10, <1>11, EIff
    <1>13. Cong(N, xb - yb, 0)
        BY <1>10, <1>12, CongSame
    <1> DEFINE d == x - y
    <1>14. d \in Int /\ Cong(N, d * b, 0)
        BY <1>9, <1>10, <1>13
    <1> HIDE DEF d
    <1>15. Cong(N, d, 0) \/ Cong(N, b, 0)
        BY <1>9, <1>14, NFacts, PrimeDivides
    <1>16. ~ Cong(N, b, 0)
        BY <1>7, <1>8, <1>9, EIff, EZero
    <1>17. y % N = x
        BY <1>4, <1>9, <1>15, <1>16, ResidueOf DEF d
    <1>18. Residues("schnorr", judged.proof) = [commitment |-> a, response |-> y % N]
        BY <1>4 DEF Residues
    <1> QED
        BY <1>4, <1>17, <1>18

\* A signature with another response, modulo N, asks another question.
LEMMA SignatureResponses ==
    ASSUME IInv, MadeFor, JudgedFrom, made # Nothing, made.job = "signature", judged # Nothing,
           judged.question = made.question, NEW e \in Scalars, SignatureRight(made, e)
    PROVE  Residues("signature", judged.proof) = made.proof
    <1>1. PICK z \in 0..(2 * N - 1) : judged.proof = <<made.proof[1], z>>
        BY SignaturePoints
    <1>2. made.proof[1] = e /\ made.proof \in Scalars \X Scalars /\ made.pub \in Points
        BY SignatureMakes
    <1>3. PICK y \in Scalars : made.proof = <<e, y>>
        BY <1>2
    <1>4. /\ judged.pub = made.pub
          /\ Recovered(judged.pub, judged.proof) = Recovered(made.pub, made.proof)
        <2>1. Statement("signature", judged) = Statement("signature", made)
            BY SignatureBinds
        <2> QED
            BY <2>1 DEF Statement
    <1>5. PICK b \in Scalars : made.pub = E(b)
        BY <1>2, EveryPoint
    <1>6. z \in Int /\ y \in Int /\ b \in Int /\ e \in Int /\ 1 \in Int /\ z * 1 = z /\ y * 1 = y
        BY ScalarFacts
    <1> DEFINE eb == e * b
    <1>7. eb \in Int /\ z - eb \in Int /\ y - eb \in Int
        BY <1>6
    <1>8. Mul(z, G) = E(z) /\ Mul(y, G) = E(y) /\ Mul(e, made.pub) = E(eb)
        BY <1>5, <1>6, EZero, MulE
    <1>9. Minus(E(z), E(eb)) = Minus(E(y), E(eb))
        BY <1>1, <1>2, <1>3, <1>4, <1>8 DEF Recovered
    <1> HIDE DEF eb
    <1>10. E(z - eb) = E(y - eb)
        BY <1>6, <1>7, <1>9, MinusE
    <1> DEFINE zb == z - eb
               yb == y - eb
    <1>11. zb \in Int /\ yb \in Int /\ zb - yb = z - y /\ E(zb) = E(yb)
        BY <1>6, <1>7, <1>10
    <1> HIDE DEF zb, yb
    <1>12. Cong(N, zb, yb) /\ Cong(N, yb, yb)
        BY <1>11, EIff
    <1>13. Cong(N, yb - zb, 0) /\ yb - zb = y - z
        <2>1. Cong(N, yb, yb) /\ Cong(N, zb, yb)
            BY <1>12
        <2>2. yb - zb = y - z
            BY <1>6, <1>11
        <2> QED
            BY <1>11, <2>1, <2>2, CongSame
    <1>14. z % N = y
        BY <1>6, <1>13, ResidueOf
    <1>15. Residues("signature", judged.proof) = <<made.proof[1], z % N>>
        BY <1>1 DEF Residues
    <1> QED
        BY <1>2, <1>3, <1>14, <1>15

\* For every curve and width: with the same question, what verify_range_leq accepts of
\* the proofs with a bit's number raised, and what schnorr_verify and sig_verify accept
\* of all responses, reduced or not, is the proof that was made, modulo N.
THEOREM ResponsesAreFixed == Spec => []ResponsesFixed
    <1>1. IInv /\ MadeFor /\ JudgedFrom => ResponsesFixed
        <2> SUFFICES ASSUME IInv, MadeFor, JudgedFrom, judged # Nothing, judged.asked,
                            judged.question = made.question, judged.verdict = "accepted"
                     PROVE  Residues(made.job, judged.proof) = made.proof
            BY DEF ResponsesFixed
        <2>1. made # Nothing
            BY DEF IInv, JudgedRight
        <2> DEFINE e == oracle[made.question]
        <2>2. /\ e \in Scalars
              /\ \/ made.job = "range" /\ \E h \in 1..(N - 1) : H = E(h) /\ RangeRight(h, made, e)
                 \/ made.job = "schnorr" /\ SchnorrRight(made, e)
                 \/ made.job = "signature" /\ SignatureRight(made, e)
            BY <2>1, MadeCases
        <2>e. e = oracle[made.question]
            OBVIOUS
        <2> HIDE DEF e
        <2>3. CASE made.job = "range" /\ \E h \in 1..(N - 1) : H = E(h) /\ RangeRight(h, made, e)
            <3>1. PICK h \in 1..(N - 1) : H = E(h) /\ RangeRight(h, made, e)
                BY <2>3
            <3> QED
                BY <2>1, <2>2, <2>e, <2>3, <3>1, RangeResponses
        <2>4. CASE made.job = "schnorr" /\ SchnorrRight(made, e)
            BY <2>1, <2>2, <2>e, <2>4, SchnorrResponses
        <2>5. CASE made.job = "signature" /\ SignatureRight(made, e)
            BY <2>1, <2>2, <2>5, SignatureResponses
        <2> QED
            BY <2>2, <2>3, <2>4, <2>5
    <1> QED
        BY <1>1, Invariant, Origins, PTL
=============================================================================
