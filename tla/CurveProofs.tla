------------------------------ MODULE CurveProofs ------------------------------
(***************************************************************************)
(* curve.py computes the group law: for every curve of secp256k1's shape,  *)
(* doubling, addition, multiplication and sums of multiples in Jacobian    *)
(* coordinates give what chord and tangent give on affine points, in every *)
(* special case; and a compressed point is lifted to itself.               *)
(*                                                                         *)
(* Induction is over the natural numbers as a well-founded set, with a set *)
(* in the place of a predicate; recursive functions are shown to exist     *)
(* first.                                                                  *)
(***************************************************************************)
EXTENDS Curve, WellFoundedInduction, TLAPS

-----------------------------------------------------------------------------
(* Induction, with a set in the place of a predicate *)

\* A set of naturals that is not empty has a least element.
LEMMA LeastNat ==
    ASSUME NEW T, T \subseteq Nat, T # {}
    PROVE  \E x \in T : \A y \in T : x <= y
    <1> DEFINE R == OpToRel(<, Nat)
    <1>1. IsWellFoundedOn(R, Nat)
        BY NatLessThanWellFounded
    <1>2. \A x, y \in Nat : y < x => <<y, x>> \in R
        BY DEF OpToRel
    <1> HIDE DEF R
    <1>3. PICK x \in T : \A y \in T : <<y, x>> \notin R
        BY <1>1, WFMin
    <1>4. ASSUME NEW y \in T
          PROVE  x <= y
        <2>1. x \in Nat /\ y \in Nat /\ ~(y < x)
            BY <1>2, <1>3
        <2> QED
            BY <2>1
    <1> QED
        BY <1>3, <1>4

\* Induction over the naturals.
LEMMA NatInduct ==
    ASSUME NEW T, 0 \in T, \A n \in Nat : n \in T => n + 1 \in T
    PROVE  Nat \subseteq T
    <1> SUFFICES ASSUME Nat \ T # {} PROVE FALSE
        OBVIOUS
    <1> DEFINE U == Nat \ T
    <1>1. U \subseteq Nat /\ U # {}
        OBVIOUS
    <1> HIDE DEF U
    <1>2. PICK x \in U : \A y \in U : x <= y
        BY <1>1, LeastNat
    <1>3. x \in Nat /\ x # 0 /\ x - 1 \in Nat
        BY <1>2 DEF U
    <1>4. x - 1 \in T
        BY <1>2, <1>3 DEF U
    <1>5. x \in T
        BY <1>3, <1>4
    <1> QED
        BY <1>2, <1>5 DEF U

\* Up to a bound.
LEMMA UpTo ==
    ASSUME NEW n \in Nat, NEW T, 0 \in T, \A i \in 0..n : i < n /\ i \in T => i + 1 \in T
    PROVE  0..n \subseteq T
    <1> DEFINE U == {i \in Nat : i <= n => i \in T}
    <1>1. Nat \subseteq U
        <2>1. 0 \in U
            OBVIOUS
        <2>2. \A i \in Nat : i \in U => i + 1 \in U
            OBVIOUS
        <2> HIDE DEF U
        <2> QED
            BY <2>1, <2>2, NatInduct
    <1> QED
        BY <1>1

\* A recursive function exists: the value for i is a function st[i] of the one
\* before.
Recursion(n, S, a, st) ==
    \E g \in [0..n -> S] : g[0] = a /\ \A i \in 1..n : g[i] = st[i][g[i - 1]]

\* A function that is defined step by step along 0..n exists.
LEMMA RecursionExists ==
    ASSUME NEW n \in Nat, NEW S, NEW a \in S, NEW st \in [1..n -> [S -> S]]
    PROVE  Recursion(n, S, a, st)
    <1> DEFINE Good(m, g) == g[0] = a /\ \A i \in 1..m : g[i] = st[i][g[i - 1]]
               T == {m \in 0..n : \E g \in [0..m -> S] : Good(m, g)}
    <1>1. 0 \in T
        <2>1. \E g \in [0..0 -> S] : Good(0, g)
            <3> DEFINE g == [i \in 0..0 |-> a]
            <3>1. g \in [0..0 -> S] /\ Good(0, g)
                OBVIOUS
            <3> QED
                BY <3>1
        <2> QED
            BY <2>1
    <1>2. ASSUME NEW m \in 0..n, m < n, m \in T
          PROVE  m + 1 \in T
        <2>1. PICK g \in [0..m -> S] : Good(m, g)
            BY <1>2
        <2> DEFINE h == [i \in 0..(m + 1) |-> IF i <= m THEN g[i] ELSE st[m + 1][g[m]]]
        <2>2. h \in [0..(m + 1) -> S]
            <3>1. m + 1 \in 1..n /\ m \in 0..m
                BY <1>2
            <3>2. st[m + 1][g[m]] \in S
                BY <3>1
            <3> QED
                BY <3>2
        <2>3. Good(m + 1, h)
            <3>1. h[0] = a
                BY <2>1
            <3>2. ASSUME NEW i \in 1..(m + 1)
                  PROVE  h[i] = st[i][h[i - 1]]
                <4>1. i - 1 \in 0..(m + 1) /\ i \in 0..(m + 1) /\ h[i - 1] = g[i - 1]
                    OBVIOUS
                <4>2. CASE i <= m
                    BY <2>1, <4>1, <4>2
                <4>3. CASE i = m + 1
                    BY <4>1, <4>3
                <4> QED
                    BY <4>2, <4>3
            <3> QED
                BY <3>1, <3>2
        <2>4. m + 1 \in 0..n
            BY <1>2
        <2> HIDE DEF h, Good
        <2> QED
            BY <2>2, <2>3, <2>4
    <1> HIDE DEF T
    <1>3. 0..n \subseteq T
        BY <1>1, <1>2, UpTo
    <1>4. n \in T
        BY <1>3
    <1> QED
        BY <1>4 DEF T, Recursion

\* The same where the value for k is made from the one for k \div 2.
Halving(S, a, st) ==
    \E g \in [Nat -> S] : g[0] = a /\ \A k \in Nat \ {0} : g[k] = st[k][g[k \div 2]]

\* A function whose step calls it at half its argument exists.
LEMMA HalvingExists ==
    ASSUME NEW S, NEW a \in S, NEW st \in [Nat -> [S -> S]]
    PROVE  Halving(S, a, st)
    <1> DEFINE Good(m, g) == g[0] = a /\ \A k \in 1..m : g[k] = st[k][g[k \div 2]]
               T == {m \in Nat : \E g \in [0..m -> S] : Good(m, g)}
    <1>0. \A k \in Nat \ {0} : k \div 2 \in Nat /\ k \div 2 < k
        OBVIOUS
    <1>1. 0 \in T
        <2>1. [i \in 0..0 |-> a] \in [0..0 -> S] /\ Good(0, [i \in 0..0 |-> a])
            OBVIOUS
        <2> QED
            BY <2>1
    <1>2. ASSUME NEW m \in Nat, m \in T
          PROVE  m + 1 \in T
        <2>1. PICK g \in [0..m -> S] : Good(m, g)
            BY <1>2
        <2>2. (m + 1) \div 2 \in 0..m
            BY <1>0
        <2> DEFINE h == [i \in 0..(m + 1) |->
                            IF i <= m THEN g[i] ELSE st[m + 1][g[(m + 1) \div 2]]]
        <2>3. h \in [0..(m + 1) -> S]
            BY <2>2
        <2>4. Good(m + 1, h)
            <3>1. h[0] = a
                BY <2>1
            <3>2. ASSUME NEW k \in 1..(m + 1)
                  PROVE  h[k] = st[k][h[k \div 2]]
                <4>1. k \div 2 \in 0..m /\ k \in 0..(m + 1)
                    BY <1>0
                <4>2. h[k \div 2] = g[k \div 2]
                    BY <4>1
                <4>3. CASE k <= m
                    BY <2>1, <4>1, <4>2, <4>3
                <4>4. CASE k = m + 1
                    BY <4>1, <4>2, <4>4
                <4> QED
                    BY <4>3, <4>4
            <3> QED
                BY <3>1, <3>2
        <2> HIDE DEF h, Good
        <2> QED
            BY <2>3, <2>4
    <1>3. Nat \subseteq T
        <2> HIDE DEF T
        <2> QED
            BY <1>1, <1>2, NatInduct
    <1> DEFINE c == [m \in Nat |-> CHOOSE g \in [0..m -> S] : Good(m, g)]
    <1>4. \A m \in Nat : c[m] \in [0..m -> S] /\ Good(m, c[m])
        BY <1>3
    <1> HIDE DEF c
    \* Any two of them agree where both are defined.
    <1>5. ASSUME NEW m \in Nat, NEW l \in Nat, m <= l
          PROVE  \A k \in 0..m : c[m][k] = c[l][k]
        <2> DEFINE U == {j \in Nat : \A k \in 0..m : k <= j => c[m][k] = c[l][k]}
        <2>1. 0 \in U
            BY <1>4
        <2>2. ASSUME NEW j \in Nat, j \in U
              PROVE  j + 1 \in U
            <3> SUFFICES ASSUME NEW k \in 0..m, k = j + 1 PROVE c[m][k] = c[l][k]
                BY <2>2
            <3>1. k \in Nat \ {0} /\ k \in 1..m /\ k \in 1..l
                BY <1>5
            <3>2. k \div 2 \in 0..m /\ k \div 2 <= j
                BY <1>0, <3>1
            <3>3. c[m][k] = st[k][c[m][k \div 2]] /\ c[l][k] = st[k][c[l][k \div 2]]
                BY <1>4, <3>1
            <3> QED
                BY <2>2, <3>2, <3>3
        <2>3. Nat \subseteq U
            <3> HIDE DEF U
            <3> QED
                BY <2>1, <2>2, NatInduct
        <2> QED
            BY <2>3
    <1> DEFINE f == [m \in Nat |-> c[m][m]]
    <1>6. f \in [Nat -> S]
        BY <1>4
    <1>7. f[0] = a
        BY <1>4
    <1>8. ASSUME NEW k \in Nat \ {0}
          PROVE  f[k] = st[k][f[k \div 2]]
        <2>1. k \div 2 \in Nat /\ k \div 2 < k /\ k \in 1..k
            BY <1>0
        <2>2. f[k] = st[k][c[k][k \div 2]]
            BY <1>4, <2>1
        <2>3. c[k \div 2][k \div 2] = c[k][k \div 2]
            BY <1>5, <2>1
        <2> QED
            BY <2>1, <2>2, <2>3
    <1> HIDE DEF f
    <1> QED
        BY <1>6, <1>7, <1>8 DEF Halving

-----------------------------------------------------------------------------
(* Congruence *)

Cong(m, a, b) == \E k \in Int : a = b + k * m

\* The remainder is in range and congruent to what was divided.
LEMMA ModFacts ==
    ASSUME NEW m \in Nat \ {0}, NEW a \in Int
    PROVE  /\ a % m \in 0..(m - 1) /\ a % m \in Int
           /\ Cong(m, a % m, a)
           /\ Cong(m, a, a % m)
    <1> DEFINE r == a % m
               q == a \div m
    <1>1. r \in 0..(m - 1) /\ r \in Int /\ q \in Int /\ a = m * q + r
        OBVIOUS
    <1> HIDE DEF r, q
    <1>2. -q \in Int /\ a = r + q * m /\ r = a + (-q) * m
        BY <1>1
    <1>3. Cong(m, r, a) /\ Cong(m, a, r)
        BY <1>1, <1>2 DEF Cong
    <1> QED
        BY <1>1, <1>3 DEF r

\* Congruence is an equivalence ...
LEMMA CongRefl ==
    ASSUME NEW m \in Nat, NEW a \in Int
    PROVE  Cong(m, a, a)
    <1>1. a = a + 0 * m
        OBVIOUS
    <1> QED
        BY <1>1 DEF Cong

LEMMA CongSym ==
    ASSUME NEW m \in Nat, NEW a \in Int, NEW b \in Int, Cong(m, a, b)
    PROVE  Cong(m, b, a)
    <1>1. PICK k \in Int : a = b + k * m
        BY DEF Cong
    <1>2. b = a + (-k) * m
        BY <1>1
    <1> QED
        BY <1>2 DEF Cong

LEMMA CongTrans ==
    ASSUME NEW m \in Nat, NEW a \in Int, NEW b \in Int, NEW c \in Int,
           Cong(m, a, b), Cong(m, b, c)
    PROVE  Cong(m, a, c)
    <1>1. PICK k \in Int : a = b + k * m
        BY DEF Cong
    <1>2. PICK l \in Int : b = c + l * m
        BY DEF Cong
    <1>3. a = c + (k + l) * m /\ k + l \in Int
        BY <1>1, <1>2
    <1> QED
        BY <1>3 DEF Cong

\* ... that sums, differences and products respect.
LEMMA CongAdd ==
    ASSUME NEW m \in Nat, NEW a \in Int, NEW b \in Int, NEW c \in Int, NEW d \in Int,
           Cong(m, a, b), Cong(m, c, d)
    PROVE  Cong(m, a + c, b + d) /\ Cong(m, a - c, b - d)
    <1>1. PICK k \in Int : a = b + k * m
        BY DEF Cong
    <1>2. PICK l \in Int : c = d + l * m
        BY DEF Cong
    <1>3. k + l \in Int /\ a + c = (b + d) + (k + l) * m
        BY <1>1, <1>2
    <1>4. k - l \in Int /\ a - c = (b - d) + (k - l) * m
        BY <1>1, <1>2
    <1>5. Cong(m, a + c, b + d)
        BY <1>3 DEF Cong
    <1>6. Cong(m, a - c, b - d)
        BY <1>4 DEF Cong
    <1> QED
        BY <1>5, <1>6

LEMMA CongMul ==
    ASSUME NEW m \in Nat, NEW a \in Int, NEW b \in Int, NEW c \in Int, NEW d \in Int,
           Cong(m, a, b), Cong(m, c, d)
    PROVE  Cong(m, a * c, b * d)
    <1>1. PICK k \in Int : a = b + k * m
        BY DEF Cong
    <1>2. PICK l \in Int : c = d + l * m
        BY DEF Cong
    <1>3. a * c = b * d + (b * l + k * d + k * l * m) * m
        BY <1>1, <1>2
    <1>4. b * l + k * d + k * l * m \in Int
        OBVIOUS
    <1> QED
        BY <1>3, <1>4 DEF Cong

\* Numbers below the modulus that are congruent are equal.
LEMMA CongSmall ==
    ASSUME NEW m \in Nat \ {0}, NEW a \in 0..(m - 1), NEW b \in 0..(m - 1), Cong(m, a, b)
    PROVE  a = b
    <1>1. PICK k \in Int : a = b + k * m
        BY DEF Cong
    <1>2. k = 0
        <2>1. CASE k >= 1
            <3>1. k * m >= m
                BY <2>1
            <3> QED
                BY <1>1, <3>1
        <2>2. CASE k <= -1
            <3>1. k * m <= -m
                BY <2>2
            <3> QED
                BY <1>1, <3>1
        <2> QED
            BY <2>1, <2>2
    <1> QED
        BY <1>1, <1>2

\* Congruent numbers are those of equal remainders.
LEMMA CongIff ==
    ASSUME NEW m \in Nat \ {0}, NEW a \in Int, NEW b \in Int
    PROVE  Cong(m, a, b) <=> a % m = b % m
    <1> DEFINE r == a % m
               s == b % m
    <1>1. r \in 0..(m - 1) /\ s \in 0..(m - 1) /\ r \in Int /\ s \in Int
          /\ Cong(m, r, a) /\ Cong(m, a, r) /\ Cong(m, s, b) /\ Cong(m, b, s)
        BY ModFacts
    <1> HIDE DEF r, s
    <1>2. ASSUME Cong(m, a, b)
          PROVE  r = s
        <2>1. Cong(m, r, b)
            BY <1>1, <1>2, CongTrans
        <2>2. Cong(m, r, s)
            BY <1>1, <2>1, CongTrans
        <2> QED
            BY <1>1, <2>2, CongSmall
    <1>3. ASSUME r = s
          PROVE  Cong(m, a, b)
        BY <1>1, <1>3, CongTrans
    <1> QED
        BY <1>2, <1>3 DEF r, s

-----------------------------------------------------------------------------
(* Primes *)

Prime(m) == m \in Nat /\ m > 1 /\ \A a \in 2..(m - 1) : m % a # 0

\* A number that a prime does not divide has an inverse: the least number d that
\* is congruent to a multiple of z divides the prime.
LEMMA InverseExists ==
    ASSUME NEW m, Prime(m), NEW z \in Int, z % m # 0
    PROVE  \E i \in 0..(m - 1) : (z * i) % m = 1
    <1> DEFINE T == {d \in Nat : d > 0 /\ \E i \in Int : Cong(m, z * i, d)}
    <1>1. m \in Nat \ {0} /\ m \in Nat /\ m > 1
        BY DEF Prime
    <1>2. z % m \in T
        <2>1. z % m \in Nat /\ z % m > 0 /\ z % m < m /\ z * 1 = z
            BY <1>1
        <2>2. Cong(m, z, z % m)
            BY <1>1, ModFacts
        <2>3. Cong(m, z * 1, z % m)
            BY <2>1, <2>2
        <2>4. \E i \in Int : Cong(m, z * i, z % m)
            BY <2>3
        <2> QED
            BY <2>1, <2>4
    <1>3. PICK d \in T : \A e \in T : d <= e
        <2>1. T \subseteq Nat /\ T # {}
            BY <1>2
        <2> HIDE DEF T
        <2> QED
            BY <2>1, LeastNat
    <1>4. PICK i \in Int : Cong(m, z * i, d)
        BY <1>3
    <1>5. d \in Nat /\ d > 0 /\ d < m
        <2>1. d <= z % m
            BY <1>2, <1>3
        <2>2. z % m \in 0..(m - 1)
            BY <1>1
        <2>3. d \in Nat /\ d > 0
            BY <1>3
        <2> HIDE DEF T
        <2> QED
            BY <1>1, <2>1, <2>2, <2>3
    <1>6. m % d = 0
        <2> DEFINE r == m % d
                   q == m \div d
        <2>1. r \in Nat /\ r < d /\ q \in Int /\ m = q * d + r
            BY <1>1, <1>5
        <2> HIDE DEF r, q
        <2>2. SUFFICES ASSUME r > 0 PROVE FALSE
            BY <2>1 DEF r
        <2>3. PICK k \in Int : z * i = d + k * m
            BY <1>4 DEF Cong
        <2>4. z * (-(q * i)) = r + (-(1 + q * k)) * m
            <3>1. z * (-(q * i)) = -(q * (z * i))
                BY <2>1
            <3>2. q * (z * i) = q * d + q * (k * m)
                BY <1>5, <1>1, <2>1, <2>3
            <3>3. q * d = m - r
                BY <1>1, <1>5, <2>1
            <3>4. q * (k * m) = (q * k) * m
                BY <1>1, <2>1, <2>3
            <3>5. (-(1 + q * k)) * m = -m - (q * k) * m
                BY <1>1, <2>1, <2>3
            <3> QED
                BY <1>1, <2>1, <3>1, <3>2, <3>3, <3>4, <3>5
        <2>5. -(q * i) \in Int /\ -(1 + q * k) \in Int
            BY <2>1
        <2>6. r \in T
            BY <2>1, <2>2, <2>4, <2>5 DEF Cong
        <2>7. d <= r
            BY <1>3, <2>6
        <2> HIDE DEF T
        <2> QED
            BY <1>5, <2>1, <2>7
    <1>7. d = 1
        BY <1>1, <1>5, <1>6 DEF Prime
    <1> DEFINE j == i % m
    <1>8. j \in 0..(m - 1) /\ j \in Int /\ Cong(m, j, i)
        BY <1>1, ModFacts
    <1> HIDE DEF j
    <1>9. Cong(m, z * j, 1)
        <2>1. Cong(m, z * j, z * i)
            BY <1>1, <1>8, CongMul, CongRefl
        <2> QED
            BY <1>1, <1>4, <1>7, <1>8, <2>1, CongTrans
    <1>10. (z * j) % m = 1
        <2>1. 1 \in 0..(m - 1) /\ 1 % m = 1
            BY <1>1
        <2> DEFINE p == z * j
        <2>2. p \in Int /\ 1 \in Int /\ Cong(m, p, 1)
            BY <1>8, <1>9
        <2> HIDE DEF p
        <2>3. p % m = 1 % m
            BY <1>1, <2>2, CongIff
        <2> QED
            BY <2>1, <2>3 DEF p
    <1> QED
        BY <1>8, <1>10

\* A product that a prime divides has a factor that it divides.
LEMMA PrimeDivides ==
    ASSUME NEW m, Prime(m), NEW a \in Int, NEW b \in Int, Cong(m, a * b, 0)
    PROVE  Cong(m, a, 0) \/ Cong(m, b, 0)
    <1>1. m \in Nat \ {0} /\ m \in Nat
        BY DEF Prime
    <1>2. CASE a % m = 0
        <2>1. 0 % m = 0 /\ 0 \in Int
            BY <1>1
        <2>2. a % m = 0 % m
            BY <1>2, <2>1
        <2> QED
            BY <1>1, <2>1, <2>2, CongIff
    <1>3. CASE a % m # 0
        <2>1. PICK i \in 0..(m - 1) : (a * i) % m = 1
            BY <1>3, InverseExists
        <2>2. Cong(m, a * i, 1)
            <3>1. 1 % m = 1
                BY <1>1 DEF Prime
            <3> DEFINE p == a * i
            <3>2. p \in Int /\ 1 \in Int /\ p % m = 1 % m
                BY <2>1, <3>1
            <3> HIDE DEF p
            <3>3. Cong(m, p, 1)
                BY <1>1, <3>2, CongIff
            <3> QED
                BY <3>3 DEF p
        <2>3. Cong(m, (a * i) * b, 1 * b)
            BY <1>1, <2>2, CongMul, CongRefl
        <2>4. Cong(m, i * (a * b), i * 0)
            <3>1. a * b \in Int /\ i \in Int /\ 0 \in Int /\ Cong(m, i, i)
                BY <1>1, CongRefl
            <3> QED
                BY <1>1, <3>1, CongMul
        <2>5. (a * i) * b = i * (a * b) /\ 1 * b = b /\ i * 0 = 0 /\ i * (a * b) \in Int
            OBVIOUS
        <2>6. Cong(m, b, i * (a * b))
            BY <1>1, <2>3, <2>5, CongSym
        <2> QED
            BY <1>1, <2>4, <2>5, <2>6, CongTrans
    <1> QED
        BY <1>2, <1>3

\* The modulus of the field is an odd prime.
LEMMA PFacts == Prime(P) /\ P \in Nat \ {0} /\ P \in Nat /\ P >= 3 /\ P % 2 = 1
    BY CurveAssumption DEF Prime

-----------------------------------------------------------------------------
(* The formulas, as identities between polynomials modulo P *)

\* <<X, Y, Z>> stands for <<x, y>>.
Stands(X, Y, Z, x, y) == Cong(P, X, x * Z * Z) /\ Cong(P, Y, y * Z * Z * Z)

\* From the congruent third coordinate to the third coordinate.
LEMMA Rescale ==
    ASSUME NEW X \in Int, NEW Y \in Int, NEW Z \in Int, NEW d \in Int, NEW u \in Int,
           NEW v \in Int, Stands(X, Y, d, u, v), Cong(P, Z, d)
    PROVE  Stands(X, Y, Z, u, v)
    <1>0. P \in Int
        BY PFacts
    <1>1. PICK j \in Int, k \in Int, l \in Int :
              X = u * d * d + j * P /\ Y = v * d * d * d + k * P /\ Z = d + l * P
        BY DEF Cong, Stands
    <1>9. Cong(P, X, u * Z * Z)
        <2>1. X = u * Z * Z + (j - u * l * (Z + d)) * P
            BY <1>0, <1>1
        <2>2. j - u * l * (Z + d) \in Int
            BY <1>0, <1>1
        <2> QED
            BY <2>1, <2>2 DEF Cong
    <1>10. Cong(P, Y, v * Z * Z * Z)
        <2>1. Y = v * Z * Z * Z + (k - v * l * (Z * Z + Z * d + d * d)) * P
            BY <1>0, <1>1
        <2>2. k - v * l * (Z * Z + Z * d + d * d) \in Int
            BY <1>0, <1>1
        <2> QED
            BY <2>1, <2>2 DEF Cong
    <1> QED
        BY <1>9, <1>10 DEF Stands

\* The group law's numbers for a point and itself, up to congruence: slope and sum.
TangentOf(x, y, s, u, v) ==
    /\ Cong(P, s * (2 * y), 3 * x * x)
    /\ Cong(P, u, s * s - x - x)
    /\ Cong(P, v, s * (x - u) - y)

\* The numbers of _jdouble.
DoubleSteps(X, Y, Z, S, M, X2, Y2, Z2) ==
    /\ Cong(P, S, 4 * X * Y * Y)
    /\ Cong(P, M, 3 * X * X)
    /\ Cong(P, X2, M * M - 2 * S)
    /\ Cong(P, Y2, M * (S - X2) - 8 * Y * Y * Y * Y)
    /\ Cong(P, Z2, 2 * Y * Z)

\* Doubling: all is expressed in d, to which the new third coordinate is congruent.
LEMMA DoubleAlgebra ==
    ASSUME NEW X \in Int, NEW Y \in Int, NEW z \in Int, NEW x \in Int, NEW y \in Int,
           NEW s \in Int, NEW u \in Int, NEW v \in Int,
           NEW S \in Int, NEW M \in Int, NEW X2 \in Int, NEW Y2 \in Int, NEW Z2 \in Int,
           Stands(X, Y, z, x, y),
           TangentOf(x, y, s, u, v), DoubleSteps(X, Y, z, S, M, X2, Y2, Z2)
    PROVE  Stands(X2, Y2, Z2, u, v)
    <1> DEFINE a == x * z * z
               b == y * z * z * z
               d == 2 * b * z
    <1>0. P \in Int /\ a \in Int /\ b \in Int /\ d \in Int
        BY PFacts
    <1>1. PICK k \in Int, l \in Int : X = a + k * P /\ Y = b + l * P
        BY DEF Cong, Stands
    <1>2. PICK ks \in Int, ku \in Int, kv \in Int :
              /\ s * (2 * y) = 3 * x * x + ks * P
              /\ u = s * s - x - x + ku * P
              /\ v = s * (x - u) - y + kv * P
        BY DEF Cong, TangentOf
    <1>b. PICK kS \in Int, kM \in Int : S = 4 * X * Y * Y + kS * P /\ M = 3 * X * X + kM * P
        BY DEF Cong, DoubleSteps
    <1>c. PICK kX \in Int : X2 = M * M - 2 * S + kX * P
        BY DEF Cong, DoubleSteps
    <1>d. PICK kY \in Int : Y2 = M * (S - X2) - 8 * Y * Y * Y * Y + kY * P
        BY DEF Cong, DoubleSteps
    <1>e. PICK kZ \in Int : Z2 = 2 * Y * z + kZ * P
        BY DEF Cong, DoubleSteps
    <1>3. /\ kS \in Int /\ kM \in Int /\ kX \in Int /\ kY \in Int /\ kZ \in Int
          /\ S = 4 * X * Y * Y + kS * P
          /\ M = 3 * X * X + kM * P
          /\ X2 = M * M - 2 * S + kX * P
          /\ Y2 = M * (S - X2) - 8 * Y * Y * Y * Y + kY * P
          /\ Z2 = 2 * Y * z + kZ * P
        BY <1>b, <1>c, <1>d, <1>e
    <1>a. 4 * a * b * b = x * d * d
          /\ 8 * b * b * b * b = y * d * d * d
          /\ 3 * a * a = 3 * x * x * z * z * z * z
          /\ d = 2 * y * z * z * z * z
        OBVIOUS
    <1> HIDE DEF a, b, d
    <1>4. PICK jZ \in Int : Z2 = d + jZ * P
        <2>1. Z2 = d + (kZ + 2 * l * z) * P
            BY <1>0, <1>1, <1>3 DEF d
        <2>2. kZ + 2 * l * z \in Int
            BY <1>1, <1>3
        <2> QED
            BY <2>1, <2>2
    <1>5. PICK jS \in Int : S = x * d * d + jS * P
        <2>1. S = 4 * a * b * b + (kS + 4 * k * Y * Y + 4 * a * l * (Y + b)) * P
            BY <1>0, <1>1, <1>3
        <2>2. kS + 4 * k * Y * Y + 4 * a * l * (Y + b) \in Int
            BY <1>0, <1>1, <1>3
        <2> QED
            BY <1>a, <2>1, <2>2
    <1>6. PICK jM \in Int : M = s * d + jM * P
        <2>1. M = 3 * a * a + (kM + 3 * k * (X + a)) * P
            BY <1>0, <1>1, <1>3
        <2>2. s * d = 3 * x * x * z * z * z * z + (ks * z * z * z * z) * P
            BY <1>0, <1>2, <1>a
        <2>3. M = s * d + (kM + 3 * k * (X + a) - ks * z * z * z * z) * P
            BY <1>0, <1>1, <1>2, <1>3, <1>a, <2>1, <2>2
        <2>4. kM + 3 * k * (X + a) - ks * z * z * z * z \in Int
            BY <1>0, <1>1, <1>2, <1>3
        <2> QED
            BY <2>3, <2>4
    <1>7. PICK jX \in Int : X2 = u * d * d + jX * P
        <2>0. M * M = s * s * d * d + (jM * (M + s * d)) * P
            BY <1>0, <1>6
        <2>1. X2 = s * s * d * d - 2 * x * d * d + (kX + jM * (M + s * d) - 2 * jS) * P
            BY <1>0, <1>c, <1>5, <1>6, <2>0
        <2>2. u * d * d = s * s * d * d - 2 * x * d * d + (ku * d * d) * P
            BY <1>0, <1>2
        <2>3. X2 = u * d * d + (kX + jM * (M + s * d) - 2 * jS - ku * d * d) * P
            BY <1>0, <1>2, <1>3, <1>5, <1>6, <2>1, <2>2
        <2>4. kX + jM * (M + s * d) - 2 * jS - ku * d * d \in Int
            BY <1>0, <1>2, <1>3, <1>5, <1>6
        <2> QED
            BY <2>3, <2>4
    <1>8. PICK jY \in Int : Y2 = v * d * d * d + jY * P
        <2>1. M * (S - X2) = s * d * (x * d * d - u * d * d)
                                 + (jM * (S - X2) + s * d * (jS - jX)) * P
            BY <1>0, <1>5, <1>6, <1>7
        <2>2. 8 * Y * Y * Y * Y = 8 * b * b * b * b + (8 * l * (Y + b) * (Y * Y + b * b)) * P
            BY <1>0, <1>1
        <2>3. v * d * d * d = s * d * (x * d * d - u * d * d) - y * d * d * d + (kv * d * d * d) * P
            BY <1>0, <1>2
        <2> DEFINE j1 == jM * (S - X2) + s * d * (jS - jX)
                   j2 == 8 * l * (Y + b) * (Y * Y + b * b)
                   j3 == kv * d * d * d
                   t1 == M * (S - X2)
                   t2 == 8 * Y * Y * Y * Y
                   t3 == v * d * d * d
                   r1 == s * d * (x * d * d - u * d * d)
                   r2 == y * d * d * d
        <2>4. /\ j1 \in Int /\ j2 \in Int /\ j3 \in Int /\ t1 \in Int /\ t2 \in Int
              /\ t3 \in Int /\ r1 \in Int /\ r2 \in Int
            BY <1>0, <1>1, <1>2, <1>3, <1>5, <1>6, <1>7
        <2>5. t1 = r1 + j1 * P /\ t2 = r2 + j2 * P /\ t3 = r1 - r2 + j3 * P
              /\ Y2 = t1 - t2 + kY * P
            BY <1>a, <1>3, <2>1, <2>2, <2>3
        <2>6. v * d * d * d = t3
            OBVIOUS
        <2> HIDE DEF j1, j2, j3, t1, t2, t3, r1, r2
        <2>7. Y2 = t3 + (kY + j1 - j2 - j3) * P
            BY <1>0, <1>3, <2>4, <2>5
        <2>8. kY + j1 - j2 - j3 \in Int
            BY <1>3, <2>4
        <2> QED
            BY <2>6, <2>7, <2>8
    <1>9. Cong(P, Z2, d)
        BY <1>4 DEF Cong
    <1>10. Stands(X2, Y2, d, u, v)
        BY <1>7, <1>8 DEF Cong, Stands
    <1> QED
        BY <1>0, <1>9, <1>10, Rescale

\* The group law's numbers for two points of different x, up to congruence.
ChordOf(x1, y1, x2, y2, s, u, v) ==
    /\ Cong(P, s * (x2 - x1), y2 - y1)
    /\ Cong(P, u, s * s - x1 - x2)
    /\ Cong(P, v, s * (x1 - u) - y1)

\* The numbers of _jadd.
ChordSteps(X1, Y1, Z1, X2, Y2, Z2, A, C, U1, S1, H, R, H3, V, X3, Y3, ZS) ==
    /\ Cong(P, A, Z1 * Z1) /\ Cong(P, C, Z2 * Z2)
    /\ Cong(P, U1, X1 * C) /\ Cong(P, S1, Y1 * Z2 * C)
    /\ Cong(P, H, X2 * A - U1) /\ Cong(P, R, Y2 * Z1 * A - S1)
    /\ Cong(P, H3, H * H * H) /\ Cong(P, V, U1 * H * H)
    /\ Cong(P, X3, R * R - H3 - 2 * V)
    /\ Cong(P, Y3, R * (V - X3) - S1 * H3)
    /\ Cong(P, ZS, H * Z1 * Z2)

\* The formulas of _jadd for points of different x give the chord.
LEMMA ChordAlgebra ==
    ASSUME NEW X1 \in Int, NEW Y1 \in Int, NEW z1 \in Int, NEW x1 \in Int, NEW y1 \in Int,
           NEW X2 \in Int, NEW Y2 \in Int, NEW z2 \in Int, NEW x2 \in Int, NEW y2 \in Int,
           NEW s \in Int, NEW u \in Int, NEW v \in Int,
           NEW A \in Int, NEW C \in Int, NEW U1 \in Int, NEW S1 \in Int, NEW H \in Int,
           NEW R \in Int, NEW H3 \in Int, NEW V \in Int,
           NEW X3 \in Int, NEW Y3 \in Int, NEW ZS \in Int,
           Stands(X1, Y1, z1, x1, y1), Stands(X2, Y2, z2, x2, y2),
           ChordOf(x1, y1, x2, y2, s, u, v),
           ChordSteps(X1, Y1, z1, X2, Y2, z2, A, C, U1, S1, H, R, H3, V, X3, Y3, ZS)
    PROVE  Stands(X3, Y3, ZS, u, v)
    <1> DEFINE w == z1 * z2
               d == H * w
               g == x2 - x1
    <1>0. P \in Int /\ w \in Int /\ d \in Int /\ g \in Int
        BY PFacts
    <1>a. d = H * w /\ w = z1 * z2 /\ g = x2 - x1 /\ d = H * z1 * z2
        OBVIOUS
    <1> HIDE DEF w, d, g
    <1>1. PICK a1 \in Int, b1 \in Int :
              X1 = x1 * z1 * z1 + a1 * P /\ Y1 = y1 * z1 * z1 * z1 + b1 * P
        BY DEF Cong, Stands
    <1>2. PICK a2 \in Int, b2 \in Int :
              X2 = x2 * z2 * z2 + a2 * P /\ Y2 = y2 * z2 * z2 * z2 + b2 * P
        BY DEF Cong, Stands
    <1>3. PICK ks \in Int : s * (x2 - x1) = y2 - y1 + ks * P
        BY DEF Cong, ChordOf, ChordSteps
    <1>4. PICK ku \in Int, kv \in Int : u = s * s - x1 - x2 + ku * P /\ v = s * (x1 - u) - y1 + kv * P
        BY DEF Cong, ChordOf, ChordSteps
    <1>5. PICK kA \in Int, kC \in Int : A = z1 * z1 + kA * P /\ C = z2 * z2 + kC * P
        BY DEF Cong, ChordOf, ChordSteps
    <1>6. PICK jU \in Int : U1 = x1 * w * w + jU * P
        <2>1. PICK k \in Int : U1 = X1 * C + k * P
            BY DEF Cong, ChordOf, ChordSteps
        <2>2. X1 * C = x1 * w * w + (a1 * C + x1 * z1 * z1 * kC) * P
            BY <1>0, <1>1, <1>5, <1>a
        <2>3. U1 = x1 * w * w + (k + a1 * C + x1 * z1 * z1 * kC) * P
            BY <1>0, <1>1, <1>5, <2>1, <2>2
        <2>4. k + a1 * C + x1 * z1 * z1 * kC \in Int
            BY <1>0, <1>1, <1>5, <2>1
        <2> QED
            BY <2>3, <2>4
    <1>7. PICK jS \in Int : S1 = y1 * w * w * w + jS * P
        <2>1. PICK k \in Int : S1 = Y1 * z2 * C + k * P
            BY DEF Cong, ChordOf, ChordSteps
        <2>2. Y1 * z2 * C = y1 * w * w * w + (b1 * z2 * C + y1 * z1 * w * z1 * kC) * P
            BY <1>0, <1>1, <1>5, <1>a
        <2>3. S1 = y1 * w * w * w + (k + b1 * z2 * C + y1 * z1 * w * z1 * kC) * P
            BY <1>0, <1>1, <1>5, <2>1, <2>2
        <2>4. k + b1 * z2 * C + y1 * z1 * w * z1 * kC \in Int
            BY <1>0, <1>1, <1>5, <2>1
        <2> QED
            BY <2>3, <2>4
    <1>8. PICK jH \in Int : H = g * w * w + jH * P
        <2>1. PICK k \in Int : H = X2 * A - U1 + k * P
            BY DEF Cong, ChordOf, ChordSteps
        <2>2. X2 * A = x2 * w * w + (a2 * A + x2 * z2 * z2 * kA) * P
            BY <1>0, <1>2, <1>5, <1>a
        <2>3. H = g * w * w + (k + a2 * A + x2 * z2 * z2 * kA - jU) * P
            BY <1>0, <1>2, <1>5, <1>6, <1>a, <2>1, <2>2
        <2>4. k + a2 * A + x2 * z2 * z2 * kA - jU \in Int
            BY <1>0, <1>2, <1>5, <1>6, <2>1
        <2> QED
            BY <2>3, <2>4
    <1>9. PICK jR \in Int : R = s * d + jR * P
        <2>1. PICK k \in Int : R = Y2 * z1 * A - S1 + k * P
            BY DEF Cong, ChordOf, ChordSteps
        <2> DEFINE m2 == b2 * z1 * A + y2 * z2 * w * z2 * kA
                   m3 == ks * w * w * w
                   m4 == s * jH * w
                   p1 == Y2 * z1 * A
                   p2 == y2 * w * w * w
                   p3 == y1 * w * w * w
                   p4 == s * g * w * w * w
        <2>2. p1 = p2 + m2 * P
            BY <1>0, <1>2, <1>5, <1>a
        <2>3. p4 = p2 - p3 + m3 * P
            BY <1>0, <1>3, <1>a
        <2>4. s * d = p4 + m4 * P
            BY <1>0, <1>8, <1>a
        <2>5. /\ m2 \in Int /\ m3 \in Int /\ m4 \in Int /\ p1 \in Int /\ p2 \in Int
              /\ p3 \in Int /\ p4 \in Int
            BY <1>0, <1>2, <1>3, <1>5, <1>8
        <2>6. R = p1 - S1 + k * P /\ S1 = p3 + jS * P
            BY <1>7, <2>1
        <2> HIDE DEF m2, m3, m4, p1, p2, p3, p4
        <2>7. R = s * d + (k + m2 - jS - m3 - m4) * P
            BY <1>0, <1>7, <2>1, <2>2, <2>3, <2>4, <2>5, <2>6
        <2>8. k + m2 - jS - m3 - m4 \in Int
            BY <1>7, <2>1, <2>5
        <2> QED
            BY <2>7, <2>8
    <1>10. PICK kH \in Int : H3 = H * H * H + kH * P
        BY DEF Cong, ChordOf, ChordSteps
    <1>11. PICK jG \in Int : H3 = g * d * d + jG * P
        <2>1. H * H * H = g * d * d + (H * H * jH) * P
            BY <1>0, <1>8, <1>a
        <2>2. H3 = g * d * d + (H * H * jH + kH) * P
            BY <1>0, <1>8, <1>10, <2>1
        <2>3. H * H * jH + kH \in Int
            BY <1>8, <1>10
        <2> QED
            BY <2>2, <2>3
    <1>12. PICK jV \in Int : V = x1 * d * d + jV * P
        <2>1. PICK k \in Int : V = U1 * H * H + k * P
            BY DEF Cong, ChordOf, ChordSteps
        <2>2. U1 * H * H = x1 * d * d + (jU * H * H) * P
            BY <1>0, <1>6, <1>a
        <2>3. V = x1 * d * d + (jU * H * H + k) * P
            BY <1>0, <1>6, <2>1, <2>2
        <2>4. jU * H * H + k \in Int
            BY <1>6, <2>1
        <2> QED
            BY <2>3, <2>4
    <1>13. PICK jX \in Int : X3 = u * d * d + jX * P
        <2>1. PICK k \in Int : X3 = R * R - H3 - 2 * V + k * P
            BY DEF Cong, ChordOf, ChordSteps
        <2> DEFINE m1 == jR * (R + s * d)
                   m2 == ku * d * d
                   r1 == R * R
                   r2 == s * s * d * d
                   r3 == u * d * d
                   r4 == x1 * d * d
                   r5 == g * d * d
        <2>2. r1 = r2 + m1 * P
            BY <1>0, <1>9
        <2>3. r3 = r2 - r5 - 2 * r4 + m2 * P
            BY <1>0, <1>4, <1>a
        <2>4. /\ m1 \in Int /\ m2 \in Int /\ r1 \in Int /\ r2 \in Int /\ r3 \in Int
              /\ r4 \in Int /\ r5 \in Int
            BY <1>0, <1>4, <1>9
        <2>5. X3 = r1 - H3 - 2 * V + k * P /\ H3 = r5 + jG * P /\ V = r4 + jV * P
            BY <1>11, <1>12, <2>1
        <2>6. u * d * d = r3
            OBVIOUS
        <2> HIDE DEF m1, m2, r1, r2, r3, r4, r5
        <2>7. X3 = r3 + (k + m1 - jG - 2 * jV - m2) * P
            BY <1>0, <1>11, <1>12, <2>1, <2>2, <2>3, <2>4, <2>5
        <2>8. k + m1 - jG - 2 * jV - m2 \in Int
            BY <1>11, <1>12, <2>1, <2>4
        <2> QED
            BY <2>6, <2>7, <2>8
    <1>14. PICK jY \in Int : Y3 = v * d * d * d + jY * P
        <2>1. PICK k \in Int : Y3 = R * (V - X3) - S1 * H3 + k * P
            BY DEF Cong, ChordOf, ChordSteps
        <2> DEFINE m1 == jR * (V - X3) + s * d * (jV - jX)
                   m2 == jS * H3 + y1 * w * w * w * kH
                   m3 == kv * d * d * d
                   t1 == R * (V - X3)
                   t2 == S1 * H3
                   t3 == v * d * d * d
                   r1 == s * d * (x1 * d * d - u * d * d)
                   r2 == y1 * d * d * d
        <2>2. t1 = r1 + m1 * P
            BY <1>0, <1>9, <1>12, <1>13
        <2>3. t2 = r2 + m2 * P
            <3>1. S1 * H3 = y1 * w * w * w * (H * H * H) + m2 * P
                BY <1>0, <1>7, <1>10
            <3>2. y1 * w * w * w * (H * H * H) = r2
                BY <1>0, <1>a
            <3> QED
                BY <3>1, <3>2
        <2>4. t3 = r1 - r2 + m3 * P
            BY <1>0, <1>4
        <2>5. /\ m1 \in Int /\ m2 \in Int /\ m3 \in Int /\ t1 \in Int /\ t2 \in Int
              /\ t3 \in Int /\ r1 \in Int /\ r2 \in Int
            BY <1>0, <1>4, <1>7, <1>9, <1>10, <1>12, <1>13
        <2>6. Y3 = t1 - t2 + k * P /\ v * d * d * d = t3
            BY <2>1
        <2> HIDE DEF m1, m2, m3, t1, t2, t3, r1, r2
        <2>7. Y3 = t3 + (k + m1 - m2 - m3) * P
            BY <1>0, <2>1, <2>2, <2>3, <2>4, <2>5, <2>6
        <2>8. k + m1 - m2 - m3 \in Int
            BY <2>1, <2>5
        <2> QED
            BY <2>6, <2>7, <2>8
    <1>15. Cong(P, ZS, d)
        BY <1>a DEF ChordSteps
    <1>16. Stands(X3, Y3, d, u, v)
        BY <1>13, <1>14 DEF Cong, Stands
    <1> QED
        BY <1>0, <1>15, <1>16, Rescale

\* Division by a power of the third coordinate.
LEMMA Unscale ==
    ASSUME NEW X \in Int, NEW Y \in Int, NEW Z \in Int, NEW i \in Int, NEW x \in Int, NEW y \in Int,
           Cong(P, Z * i, 1), Stands(X, Y, Z, x, y)
    PROVE  Stands(x, y, i, X, Y)
    <1>0. P \in Int
        BY PFacts
    <1>1. PICK e \in Int, k \in Int, l \in Int :
              Z * i = 1 + e * P /\ X = x * Z * Z + k * P /\ Y = y * Z * Z * Z + l * P
        BY DEF Cong, Stands
    <1>2. Cong(P, x, X * i * i)
        <2>1. X * i * i = x * (Z * i) * (Z * i) + (k * i * i) * P
            BY <1>0, <1>1
        <2>2. x * (Z * i) * (Z * i) = x + (x * e * (2 + e * P)) * P
            BY <1>0, <1>1
        <2> DEFINE m == -(x * e * (2 + e * P)) - k * i * i
        <2>3. m \in Int /\ x = X * i * i + m * P
            BY <1>0, <1>1, <2>1, <2>2
        <2> HIDE DEF m
        <2> QED
            BY <2>3 DEF Cong
    <1>3. Cong(P, y, Y * i * i * i)
        <2>1. Y * i * i * i = y * (Z * i) * (Z * i) * (Z * i) + (l * i * i * i) * P
            BY <1>0, <1>1
        <2>2. y * (Z * i) * (Z * i) * (Z * i) = y + (y * e * (3 + 3 * e * P + e * e * P * P)) * P
            BY <1>0, <1>1
        <2> DEFINE m == -(y * e * (3 + 3 * e * P + e * e * P * P)) - l * i * i * i
        <2>3. m \in Int /\ y = Y * i * i * i + m * P
            BY <1>0, <1>1, <2>1, <2>2
        <2> HIDE DEF m
        <2> QED
            BY <2>3 DEF Cong
    <1> QED
        BY <1>2, <1>3 DEF Stands

-----------------------------------------------------------------------------
(* From the field to the integers *)

\* Elements of the field are integers.
LEMMA FieldFacts ==
    /\ Field \subseteq Int /\ Field \subseteq Nat
    /\ 0 \in Field /\ 1 \in Field /\ 2 \in Field
    /\ \A a \in Int : a % P \in Field
    /\ \A a, b \in Field : Cong(P, a, b) => a = b
    <1>1. \A a, b \in Field : Cong(P, a, b) => a = b
        BY PFacts, CongSmall DEF Field
    <1> QED
        BY <1>1, PFacts DEF Field

\* The remainder modulo P.
LEMMA ModP ==
    ASSUME NEW a \in Int
    PROVE  a % P \in Field /\ a % P \in Int /\ Cong(P, a % P, a) /\ Cong(P, a, a % P)
    <1>1. P \in Nat \ {0}
        BY PFacts
    <1> QED
        BY <1>1, ModFacts DEF Field

LEMMA CongP ==
    ASSUME NEW a \in Int, NEW b \in Int
    PROVE  Cong(P, a, b) <=> a % P = b % P
    <1>1. P \in Nat \ {0}
        BY PFacts
    <1> QED
        BY <1>1, CongIff

\* pow(z, -1, P) inverts.
LEMMA InverseOf ==
    ASSUME NEW z \in Int, z % P # 0
    PROVE  ModInverse(z) \in Field /\ Cong(P, z * ModInverse(z), 1)
    <1>1. ModInverse(z) \in Field /\ (z * ModInverse(z)) % P = 1
        BY PFacts, InverseExists DEF ModInverse, Field
    <1> DEFINE p == z * ModInverse(z)
    <1>2. p \in Int
        <2>1. ModInverse(z) \in Int
            BY <1>1, FieldFacts
        <2> QED
            BY <2>1
    <1>a. 1 % P = 1
        BY PFacts
    <1>b. p % P = 1
        BY <1>1
    <1> HIDE DEF p
    <1>3. Cong(P, p, 1)
        BY <1>2, <1>a, <1>b, CongP
    <1> QED
        BY <1>1, <1>3 DEF p

\* What ToAffine gives is what the triple stands for, and nothing else is.
LEMMA AffineOf ==
    ASSUME NEW X \in Field, NEW Y \in Field, NEW Z \in Field, Z # 0, NEW x \in Field, NEW y \in Field
    PROVE  ToAffine(<<X, Y, Z>>) = <<x, y>> <=> Stands(X, Y, Z, x, y)
    <1> DEFINE i == ModInverse(Z)
               i2 == (i * i) % P
               a == (X * i2) % P
               b == (Y * i2 * i) % P
    <1>0. P \in Int /\ X \in Int /\ Y \in Int /\ Z \in Int /\ x \in Int /\ y \in Int
        BY PFacts, FieldFacts
    <1>1. i \in Field /\ Cong(P, Z * i, 1)
        <2>1. Z % P # 0
            BY PFacts DEF Field
        <2> QED
            BY <1>0, <2>1, InverseOf
    <1>2. /\ i \in Int /\ i2 \in Field /\ i2 \in Int
          /\ a \in Field /\ b \in Field /\ a \in Int /\ b \in Int
        <2>1. i \in Int
            BY <1>1, FieldFacts
        <2> HIDE DEF i
        <2> DEFINE ii == i * i
                   Xi == X * i2
                   Yi == Y * i2 * i
        <2>2. ii \in Int
            BY <2>1
        <2>3. i2 = ii % P /\ a = Xi % P /\ b = Yi % P
            OBVIOUS
        <2> HIDE DEF ii
        <2>4. i2 \in Field /\ i2 \in Int
            <3> HIDE DEF i2
            <3> QED
                BY <2>2, <2>3, ModP
        <2> HIDE DEF i2
        <2>5. Xi \in Int /\ Yi \in Int
            BY <1>0, <2>1, <2>4
        <2> HIDE DEF Xi, Yi, a, b
        <2> QED
            BY <2>1, <2>3, <2>4, <2>5, ModP
    <1>3. ToAffine(<<X, Y, Z>>) = <<a, b>>
        BY DEF ToAffine
    <1>4. Cong(P, i2, i * i) /\ Cong(P, a, X * i2) /\ Cong(P, b, Y * i2 * i)
        <2> HIDE DEF i
        <2>1. Cong(P, i2, i * i)
            <3> DEFINE ii == i * i
            <3>1. ii \in Int /\ i2 = ii % P
                BY <1>2
            <3> HIDE DEF ii, i2
            <3>2. Cong(P, i2, ii)
                BY <3>1, ModP
            <3> QED
                BY <3>2 DEF ii
        <2> HIDE DEF i2
        <2>2. X * i2 \in Int /\ Y * i2 * i \in Int
            BY <1>0, <1>2
        <2> QED
            BY <2>1, <2>2, ModP
    <1> HIDE DEF i, i2, a, b
    <1>5. Stands(a, b, i, X, Y)
        <2>1. PICK k \in Int, l \in Int, m \in Int :
                  i2 = i * i + k * P /\ a = X * i2 + l * P /\ b = Y * i2 * i + m * P
            BY <1>4 DEF Cong
        <2>2. a = X * i * i + (l + X * k) * P /\ l + X * k \in Int
            BY <1>0, <1>2, <2>1
        <2>3. b = Y * i * i * i + (m + Y * k * i) * P /\ m + Y * k * i \in Int
            BY <1>0, <1>2, <2>1
        <2>4. Cong(P, a, X * i * i)
            BY <2>2 DEF Cong
        <2>5. Cong(P, b, Y * i * i * i)
            BY <2>3 DEF Cong
        <2> QED
            BY <2>4, <2>5 DEF Stands
    <1>6. ASSUME a = x /\ b = y PROVE Stands(X, Y, Z, x, y)
        <2>1. Cong(P, i * Z, 1)
            BY <1>0, <1>1, <1>2
        <2> QED
            BY <1>0, <1>2, <1>5, <1>6, <2>1, Unscale
    <1>7. ASSUME Stands(X, Y, Z, x, y) PROVE a = x /\ b = y
        <2>1. Stands(x, y, i, X, Y)
            BY <1>0, <1>1, <1>2, <1>7, Unscale
        <2>2. Cong(P, a, X * i * i) /\ Cong(P, b, Y * i * i * i)
              /\ Cong(P, x, X * i * i) /\ Cong(P, y, Y * i * i * i)
            BY <1>5, <2>1 DEF Stands
        <2> DEFINE p == X * i * i
                   q == Y * i * i * i
        <2>3. p \in Int /\ q \in Int
            BY <1>0, <1>2
        <2> HIDE DEF p, q
        <2>4. Cong(P, a, p) /\ Cong(P, b, q) /\ Cong(P, x, p) /\ Cong(P, y, q)
            BY <2>2 DEF p, q
        <2>5. Cong(P, p, x) /\ Cong(P, q, y)
            BY <1>0, <2>3, <2>4, PFacts, CongSym
        <2>6. Cong(P, a, x) /\ Cong(P, b, y)
            BY <1>0, <1>2, <2>3, <2>4, <2>5, PFacts, CongTrans
        <2> QED
            BY <1>2, <2>6, FieldFacts
    <1> QED
        BY <1>3, <1>6, <1>7

\* A quotient modulo P is the only solution of its equation.
LEMMA Quotient ==
    ASSUME NEW a \in Int, NEW z \in Int, z % P # 0, NEW s, s = (a * ModInverse(z % P)) % P
    PROVE  s \in Field /\ s \in Int /\ Cong(P, s * z, a)
    <1> DEFINE y == z % P
               i == ModInverse(y)
               t == a * i
    <1>0. P \in Int
        BY PFacts
    <1>1. y \in Field /\ y \in Int /\ Cong(P, y, z)
        BY ModP
    <1>2. y % P # 0
        BY <1>1, PFacts DEF Field
    <1> HIDE DEF y
    <1>3. i \in Field /\ Cong(P, y * i, 1)
        BY <1>1, <1>2, InverseOf
    <1>4. i \in Int
        BY <1>3, FieldFacts
    <1> HIDE DEF i
    <1>5. t \in Int
        BY <1>4
    <1>6. s = t % P
        BY DEF i, y
    <1> HIDE DEF t
    <1>7. s \in Field /\ s \in Int /\ Cong(P, s, t)
        BY <1>5, <1>6, ModP
    <1>8. PICK k \in Int, l \in Int, m \in Int : s = t + k * P /\ y * i = 1 + l * P /\ y = z + m * P
        BY <1>1, <1>3, <1>7 DEF Cong
    <1>9. s * z = a + (a * l - a * i * m + k * z) * P
        <2>1. z = y - m * P
            BY <1>0, <1>1, <1>8
        <2>2. t * z = a * (y * i) - (a * i * m) * P
            BY <1>0, <1>1, <1>4, <1>8, <2>1 DEF t
        <2>3. a * (y * i) = a + (a * l) * P
            BY <1>0, <1>8
        <2>4. s * z = t * z + (k * z) * P
            BY <1>0, <1>5, <1>8
        <2> DEFINE sz == s * z
                   tz == t * z
                   ay == a * (y * i)
                   c1 == a * l
                   c2 == a * i * m
                   c3 == k * z
        <2>5. /\ sz \in Int /\ tz \in Int /\ ay \in Int /\ c1 \in Int /\ c2 \in Int /\ c3 \in Int
            BY <1>1, <1>4, <1>5, <1>7, <1>8
        <2> HIDE DEF sz, tz, ay, c1, c2, c3
        <2>6. sz = tz + c3 * P /\ tz = ay - c2 * P /\ ay = a + c1 * P
            BY <2>2, <2>3, <2>4 DEF sz, tz, ay, c1, c2, c3
        <2>7. sz = a + (c1 - c2 + c3) * P
            BY <1>0, <2>5, <2>6
        <2> QED
            BY <2>7 DEF sz, c1, c2, c3
    <1>10. a * l - a * i * m + k * z \in Int
        BY <1>4, <1>8
    <1> QED
        BY <1>7, <1>9, <1>10 DEF Cong

\* A number below P that is not zero, twice.
LEMMA TwiceNotZero ==
    ASSUME NEW y \in Field, y # 0
    PROVE  (2 * y) % P # 0
    <1>1. y \in Int /\ 2 * y \in Int /\ 0 \in Int /\ 2 \in Int
        BY FieldFacts
    <1> SUFFICES ASSUME (2 * y) % P = 0 PROVE FALSE
        OBVIOUS
    <1> DEFINE t == 2 * y
    <1>2. t % P = 0 % P /\ t \in Int
        BY <1>1, PFacts
    <1> HIDE DEF t
    <1>3. Cong(P, t, 0)
        BY <1>1, <1>2, CongP
    <1>4. Cong(P, 2 * y, 0)
        BY <1>3 DEF t
    <1>5. Cong(P, 2, 0) \/ Cong(P, y, 0)
        BY <1>1, <1>4, PFacts, PrimeDivides
    <1> QED
        BY <1>5, FieldFacts

\* Different elements of the field have a difference that can be inverted.
LEMMA DifferenceNotZero ==
    ASSUME NEW a \in Field, NEW b \in Field, a # b
    PROVE  (a - b) % P # 0
    <1>1. a \in Int /\ b \in Int /\ 0 \in Int
        BY FieldFacts
    <1> SUFFICES ASSUME (a - b) % P = 0 PROVE FALSE
        OBVIOUS
    <1> DEFINE t == a - b
    <1>2. t % P = 0 % P /\ t \in Int
        BY <1>1, PFacts
    <1> HIDE DEF t
    <1>3. Cong(P, t, 0)
        BY <1>1, <1>2, CongP
    <1>4. PICK k \in Int : a - b = k * P
        BY <1>1, <1>3, PFacts DEF Cong, t
    <1>5. a = b + k * P
        BY <1>1, <1>4, PFacts
    <1>6. Cong(P, a, b)
        BY <1>5 DEF Cong
    <1> QED
        BY <1>6, FieldFacts

\* What the group law gives of two points of different x.
LEMMA ChordSum ==
    ASSUME NEW x1 \in Field, NEW y1 \in Field, NEW x2 \in Field, NEW y2 \in Field, x1 # x2
    PROVE  \E s \in Int, u \in Field, v \in Field :
              /\ GroupSum(<<x1, y1>>, <<x2, y2>>) = <<u, v>>
              /\ ChordOf(x1, y1, x2, y2, s, u, v)
    <1> DEFINE z == x2 - x1
               a == y2 - y1
               s == (a * ModInverse(z % P)) % P
               e == s * s - x1 - x2
               u == e % P
               f == s * (x1 - u) - y1
               v == f % P
    <1>1. x1 \in Int /\ y1 \in Int /\ x2 \in Int /\ y2 \in Int
        BY FieldFacts
    <1>2. z \in Int /\ a \in Int
        BY <1>1
    <1>3. z % P # 0
        BY DifferenceNotZero
    <1>a. <<x1, y1>> # IDENTITY /\ <<x2, y2>> # IDENTITY
        BY DEF IDENTITY
    <1>4. Slope(<<x1, y1>>, <<x2, y2>>) = s
        BY DEF Slope
    <1>5. GroupSum(<<x1, y1>>, <<x2, y2>>) = <<u, v>>
        BY <1>4, <1>a DEF GroupSum
    <1>6. s \in Int /\ Cong(P, s * z, a)
        <2> HIDE DEF z, a
        <2> QED
            BY <1>2, <1>3, Quotient
    <1> HIDE DEF s
    <1>7. e \in Int
        BY <1>1, <1>6
    <1>8. u \in Field /\ u \in Int /\ Cong(P, u, e)
        <2> HIDE DEF e
        <2> QED
            BY <1>7, ModP
    <1> HIDE DEF u
    <1>9. f \in Int
        BY <1>1, <1>6, <1>8
    <1>10. v \in Field /\ Cong(P, v, f)
        <2> HIDE DEF f
        <2> QED
            BY <1>9, ModP
    <1> HIDE DEF v
    <1> QED
        BY <1>5, <1>6, <1>8, <1>10 DEF ChordOf

\* What it gives of a point and itself.
LEMMA TangentSum ==
    ASSUME NEW x \in Field, NEW y \in Field, y # 0
    PROVE  \E s \in Int, u \in Field, v \in Field :
              /\ GroupSum(<<x, y>>, <<x, y>>) = <<u, v>>
              /\ TangentOf(x, y, s, u, v)
    <1> DEFINE z == 2 * y
               a == 3 * x * x
               s == (a * ModInverse(z % P)) % P
               e == s * s - x - x
               u == e % P
               f == s * (x - u) - y
               v == f % P
    <1>1. x \in Int /\ y \in Int
        BY FieldFacts
    <1>2. z \in Int /\ a \in Int
        BY <1>1
    <1>3. z % P # 0
        BY TwiceNotZero
    <1>a. <<x, y>> # IDENTITY /\ (y + y) % P # 0
        <2>1. y + y = 2 * y
            BY <1>1
        <2> QED
            BY <1>3, <2>1 DEF IDENTITY
    <1>4. Slope(<<x, y>>, <<x, y>>) = s
        BY DEF Slope
    <1>5. GroupSum(<<x, y>>, <<x, y>>) = <<u, v>>
        BY <1>4, <1>a DEF GroupSum
    <1>6. s \in Int /\ Cong(P, s * z, a)
        <2> HIDE DEF z, a
        <2> QED
            BY <1>2, <1>3, Quotient
    <1> HIDE DEF s
    <1>7. e \in Int
        BY <1>1, <1>6
    <1>8. u \in Field /\ u \in Int /\ Cong(P, u, e)
        <2> HIDE DEF e
        <2> QED
            BY <1>7, ModP
    <1> HIDE DEF u
    <1>9. f \in Int
        BY <1>1, <1>6, <1>8
    <1>10. v \in Field /\ Cong(P, v, f)
        <2> HIDE DEF f
        <2> QED
            BY <1>9, ModP
    <1> HIDE DEF v
    <1> QED
        BY <1>5, <1>6, <1>8, <1>10 DEF TangentOf

-----------------------------------------------------------------------------
(* The operations on triples *)

\* An element of the field is zero only modulo P.
LEMMA NotZero ==
    ASSUME NEW a \in Field, a # 0
    PROVE  ~Cong(P, a, 0)
    BY FieldFacts

\* Congruence of a difference to zero.
LEMMA CongShift ==
    ASSUME NEW a \in Int, NEW b \in Int, Cong(P, a - b, 0)
    PROVE  Cong(P, a, b)
    <1>1. PICK k \in Int : a - b = 0 + k * P
        BY DEF Cong
    <1>2. k * P \in Int
        BY <1>1, PFacts
    <1>3. a = b + k * P
        BY <1>1, <1>2
    <1> QED
        BY <1>3 DEF Cong

\* Both sides can be divided by what P does not divide.
LEMMA Cancel ==
    ASSUME NEW a \in Int, NEW b \in Int, NEW w \in Int, ~Cong(P, w, 0), Cong(P, a * w, b * w)
    PROVE  Cong(P, a, b)
    <1>1. PICK k \in Int : a * w = b * w + k * P
        BY DEF Cong
    <1> DEFINE d == a - b
    <1>2. d \in Int /\ d * w = 0 + k * P
        BY <1>1, PFacts
    <1>3. Cong(P, d * w, 0)
        BY <1>2 DEF Cong
    <1> HIDE DEF d
    <1>4. Cong(P, d, 0)
        BY <1>2, <1>3, PFacts, PrimeDivides
    <1> QED
        BY <1>4, CongShift DEF d

\* Squares and cubes of what is not zero are not zero.
LEMMA PowersNotZero ==
    ASSUME NEW z \in Int, ~Cong(P, z, 0)
    PROVE  /\ z * z \in Int /\ ~Cong(P, z * z, 0)
           /\ z * z * z \in Int /\ ~Cong(P, z * z * z, 0)
    <1> DEFINE z2 == z * z
               z3 == z2 * z
    <1>1. z2 \in Int /\ ~Cong(P, z2, 0)
        BY PFacts, PrimeDivides
    <1> HIDE DEF z2
    <1>2. z3 \in Int /\ ~Cong(P, z3, 0)
        BY <1>1, PFacts, PrimeDivides
    <1> QED
        BY <1>1, <1>2 DEF z2

\* J is a finite point and stands for p.
Is(J, p) ==
    /\ J \in Jacobian /\ J[3] # 0
    /\ p \in Field \X Field
    /\ Stands(J[1], J[2], J[3], p[1], p[2])

\* The comparisons of _jadd.
LEMMA SameCoordinates ==
    ASSUME NEW X1 \in Field, NEW Y1 \in Field, NEW Z1 \in Field, NEW x1 \in Field, NEW y1 \in Field,
           NEW X2 \in Field, NEW Y2 \in Field, NEW Z2 \in Field, NEW x2 \in Field, NEW y2 \in Field,
           Is(<<X1, Y1, Z1>>, <<x1, y1>>), Is(<<X2, Y2, Z2>>, <<x2, y2>>)
    PROVE  /\ SameX(<<X1, Y1, Z1>>, <<X2, Y2, Z2>>) <=> x1 = x2
           /\ SameY(<<X1, Y1, Z1>>, <<X2, Y2, Z2>>) <=> y1 = y2
    <1>0. /\ P \in Int /\ X1 \in Int /\ Y1 \in Int /\ Z1 \in Int /\ x1 \in Int /\ y1 \in Int
          /\ X2 \in Int /\ Y2 \in Int /\ Z2 \in Int /\ x2 \in Int /\ y2 \in Int
        BY PFacts, FieldFacts
    <1>s. Z1 # 0 /\ Z2 # 0 /\ Stands(X1, Y1, Z1, x1, y1) /\ Stands(X2, Y2, Z2, x2, y2)
        BY DEF Is
    <1> DEFINE w == Z1 * Z2
    <1>1. w \in Int /\ ~Cong(P, w, 0)
        <2>1. ~Cong(P, Z1, 0) /\ ~Cong(P, Z2, 0)
            BY <1>s, NotZero
        <2> QED
            BY <1>0, <2>1, PFacts, PrimeDivides
    <1> DEFINE w2 == w * w
               w3 == w * w * w
    <1>2. w2 \in Int /\ ~Cong(P, w2, 0) /\ w3 \in Int /\ ~Cong(P, w3, 0)
        <2> HIDE DEF w
        <2> QED
            BY <1>1, PowersNotZero
    <1> DEFINE L == X1 * Z2 * Z2
               R == X2 * Z1 * Z1
               LL == Y1 * Z2 * Z2 * Z2
               RR == Y2 * Z1 * Z1 * Z1
               l == x1 * w2
               r == x2 * w2
               ll == y1 * w3
               rr == y2 * w3
    <1>3. L \in Int /\ R \in Int /\ LL \in Int /\ RR \in Int
        BY <1>0
    <1>4. Cong(P, L, l) /\ Cong(P, R, r)
        <2>1. PICK k \in Int, m \in Int : X1 = x1 * Z1 * Z1 + k * P /\ X2 = x2 * Z2 * Z2 + m * P
            BY <1>s DEF Stands, Cong
        <2>2. L = l + (k * Z2 * Z2) * P /\ R = r + (m * Z1 * Z1) * P
            BY <1>0, <2>1
        <2>3. k * Z2 * Z2 \in Int /\ m * Z1 * Z1 \in Int
            BY <1>0, <2>1
        <2> HIDE DEF L, l, R, r
        <2> QED
            BY <2>2, <2>3 DEF Cong
    <1>5. Cong(P, LL, ll) /\ Cong(P, RR, rr)
        <2>1. PICK k \in Int, m \in Int :
                  Y1 = y1 * Z1 * Z1 * Z1 + k * P /\ Y2 = y2 * Z2 * Z2 * Z2 + m * P
            BY <1>s DEF Stands, Cong
        <2>2. LL = ll + (k * Z2 * Z2 * Z2) * P /\ RR = rr + (m * Z1 * Z1 * Z1) * P
            BY <1>0, <2>1
        <2>3. k * Z2 * Z2 * Z2 \in Int /\ m * Z1 * Z1 * Z1 \in Int
            BY <1>0, <2>1
        <2> HIDE DEF LL, ll, RR, rr
        <2> QED
            BY <2>2, <2>3 DEF Cong
    <1> HIDE DEF w, w2, w3
    <1>6. l \in Int /\ r \in Int /\ ll \in Int /\ rr \in Int
        BY <1>0, <1>2
    <1>7. SameX(<<X1, Y1, Z1>>, <<X2, Y2, Z2>>) <=> L % P = R % P
        BY DEF SameX
    <1>8. SameY(<<X1, Y1, Z1>>, <<X2, Y2, Z2>>) <=> LL % P = RR % P
        BY DEF SameY
    <1> HIDE DEF L, R, LL, RR
    <1>9. ASSUME x1 = x2 PROVE l = r
        BY <1>9
    <1>10. ASSUME y1 = y2 PROVE ll = rr
        BY <1>10
    <1>11. ASSUME Cong(P, l, r) PROVE x1 = x2
        <2>1. Cong(P, x1, x2)
            BY <1>0, <1>2, <1>11, Cancel
        <2> QED
            BY <2>1, FieldFacts
    <1>12. ASSUME Cong(P, ll, rr) PROVE y1 = y2
        <2>1. Cong(P, y1, y2)
            BY <1>0, <1>2, <1>12, Cancel
        <2> QED
            BY <2>1, FieldFacts
    <1> HIDE DEF l, r, ll, rr
    <1>13. Cong(P, L, R) <=> Cong(P, l, r)
        <2>1. Cong(P, l, L) /\ Cong(P, r, R)
            BY <1>3, <1>4, <1>6, PFacts, CongSym
        <2>2. ASSUME Cong(P, L, R) PROVE Cong(P, l, r)
            <3>1. Cong(P, l, R)
                BY <1>3, <1>6, <2>1, <2>2, PFacts, CongTrans
            <3> QED
                BY <1>3, <1>4, <1>6, <3>1, PFacts, CongTrans
        <2>3. ASSUME Cong(P, l, r) PROVE Cong(P, L, R)
            <3>1. Cong(P, L, r)
                BY <1>3, <1>4, <1>6, <2>3, PFacts, CongTrans
            <3> QED
                BY <1>3, <1>6, <2>1, <3>1, PFacts, CongTrans
        <2> QED
            BY <2>2, <2>3
    <1>14. Cong(P, LL, RR) <=> Cong(P, ll, rr)
        <2>1. Cong(P, ll, LL) /\ Cong(P, rr, RR)
            BY <1>3, <1>5, <1>6, PFacts, CongSym
        <2>2. ASSUME Cong(P, LL, RR) PROVE Cong(P, ll, rr)
            <3>1. Cong(P, ll, RR)
                BY <1>3, <1>6, <2>1, <2>2, PFacts, CongTrans
            <3> QED
                BY <1>3, <1>5, <1>6, <3>1, PFacts, CongTrans
        <2>3. ASSUME Cong(P, ll, rr) PROVE Cong(P, LL, RR)
            <3>1. Cong(P, LL, rr)
                BY <1>3, <1>5, <1>6, <2>3, PFacts, CongTrans
            <3> QED
                BY <1>3, <1>6, <2>1, <3>1, PFacts, CongTrans
        <2> QED
            BY <2>2, <2>3
    <1>15. Cong(P, l, l) /\ Cong(P, ll, ll)
        BY <1>6, PFacts, CongRefl
    <1> QED
        BY <1>3, <1>7, <1>8, <1>9, <1>10, <1>11, <1>12, <1>13, <1>14, <1>15, CongP

\* The tests of _jadd, x and y compared without a division, are exact.
LEMMA SameXIff ==
    ASSUME NEW J1, NEW J2, NEW p1, NEW p2, Is(J1, p1), Is(J2, p2)
    PROVE  (SameX(J1, J2) <=> p1[1] = p2[1]) /\ (SameY(J1, J2) <=> p1[2] = p2[2])
    <1> DEFINE X1 == J1[1]
               Y1 == J1[2]
               Z1 == J1[3]
               X2 == J2[1]
               Y2 == J2[2]
               Z2 == J2[3]
               x1 == p1[1]
               y1 == p1[2]
               x2 == p2[1]
               y2 == p2[2]
    <1>1. /\ X1 \in Field /\ Y1 \in Field /\ Z1 \in Field /\ x1 \in Field /\ y1 \in Field
          /\ X2 \in Field /\ Y2 \in Field /\ Z2 \in Field /\ x2 \in Field /\ y2 \in Field
          /\ J1 = <<X1, Y1, Z1>> /\ J2 = <<X2, Y2, Z2>> /\ p1 = <<x1, y1>> /\ p2 = <<x2, y2>>
        BY DEF Is, Jacobian
    <1> HIDE DEF X1, Y1, Z1, X2, Y2, Z2, x1, y1, x2, y2
    <1>a. Is(<<X1, Y1, Z1>>, <<x1, y1>>) /\ Is(<<X2, Y2, Z2>>, <<x2, y2>>)
        BY <1>1
    <1>2. (SameX(J1, J2) <=> x1 = x2) /\ (SameY(J1, J2) <=> y1 = y2)
        BY <1>1, <1>a, SameCoordinates
    <1> QED
        BY <1>2 DEF x1, x2, y1, y2

\* A point other than the one at infinity is a pair on the curve.
LEMMA Finite ==
    ASSUME NEW p \in Points, p # IDENTITY
    PROVE  \E x \in Field, y \in Field : p = <<x, y>> /\ (y * y) % P = YSquared(x)
    BY DEF Points

\* The formulas of _jdouble on what is on the curve.
LEMMA DoubleCorrect ==
    ASSUME NEW X \in Field, NEW Y \in Field, NEW Z \in Field, Z # 0,
           NEW x \in Field, NEW y \in Field, Stands(X, Y, Z, x, y)
    PROVE  /\ JDouble(<<X, Y, Z>>) \in Jacobian
           /\ ToAffine(JDouble(<<X, Y, Z>>)) = GroupSum(<<x, y>>, <<x, y>>)
    <1>0. /\ P \in Int /\ X \in Int /\ Y \in Int /\ Z \in Int /\ x \in Int /\ y \in Int /\ 0 \in Int
        BY PFacts, FieldFacts
    <1>1. Y = 0 <=> y = 0
        <2>1. Cong(P, Y, y * (Z * Z * Z))
            <3>1. y * Z * Z * Z = y * (Z * Z * Z)
                BY <1>0
            <3> QED
                BY <3>1 DEF Stands
        <2> DEFINE t == Z * Z * Z
        <2>2. t \in Int /\ ~Cong(P, t, 0)
            BY <1>0, NotZero, PowersNotZero
        <2> HIDE DEF t
        <2>3. Cong(P, Y, y * t)
            BY <2>1 DEF t
        <2>4. ASSUME y = 0 PROVE Y = 0
            <3>1. y * t = 0
                BY <2>2, <2>4
            <3> QED
                BY <2>3, <3>1, FieldFacts
        <2>5. ASSUME Y = 0 PROVE y = 0
            <3> DEFINE q == y * t
            <3>1. q \in Int
                BY <1>0, <2>2
            <3>2. Cong(P, 0, q)
                BY <2>3, <2>5
            <3> HIDE DEF q
            <3>3. Cong(P, q, 0)
                BY <1>0, <3>1, <3>2, PFacts, CongSym
            <3>4. Cong(P, y * t, 0)
                BY <3>3 DEF q
            <3>5. Cong(P, y, 0)
                BY <1>0, <2>2, <3>4, PFacts, PrimeDivides
            <3> QED
                BY <3>5, NotZero
        <2> QED
            BY <2>4, <2>5
    <1>a. <<x, y>> # IDENTITY
        BY DEF IDENTITY
    <1>2. CASE Y = 0
        <2>1. JDouble(<<X, Y, Z>>) = JID
            BY <1>2 DEF JDouble
        <2>2. (y + y) % P = 0
            BY <1>1, <1>2, PFacts
        <2>3. GroupSum(<<x, y>>, <<x, y>>) = IDENTITY
            BY <1>a, <2>2 DEF GroupSum
        <2>4. JID \in Jacobian /\ ToAffine(JID) = IDENTITY
            BY FieldFacts DEF JID, Jacobian, ToAffine
        <2> QED
            BY <2>1, <2>3, <2>4
    <1>3. CASE Y # 0
        <2>1. PICK s \in Int, u \in Field, v \in Field :
                  /\ GroupSum(<<x, y>>, <<x, y>>) = <<u, v>>
                  /\ TangentOf(x, y, s, u, v)
            BY <1>1, <1>3, TangentSum
        <2> DEFINE s0 == 4 * X * Y * Y
                   S == s0 % P
                   m0 == 3 * X * X
                   M == m0 % P
                   x0 == M * M - 2 * S
                   X2 == x0 % P
                   y0 == M * (S - X2) - 8 * Y * Y * Y * Y
                   Y2 == y0 % P
                   z0 == 2 * Y * Z
                   Z2 == z0 % P
        <2>2. JDouble(<<X, Y, Z>>) = <<X2, Y2, Z2>>
            BY <1>3 DEF JDouble
        <2>3. s0 \in Int /\ m0 \in Int /\ z0 \in Int
            BY <1>0
        <2>4. S \in Int /\ Cong(P, S, s0) /\ M \in Int /\ Cong(P, M, m0)
              /\ Z2 \in Field /\ Z2 \in Int /\ Cong(P, Z2, z0)
            <3> HIDE DEF s0, m0, z0
            <3> QED
                BY <2>3, ModP
        <2>z. Z2 # 0
            <3>1. ~Cong(P, z0, 0)
                <4>1. ~Cong(P, 2, 0) /\ ~Cong(P, Y, 0) /\ ~Cong(P, Z, 0)
                    BY <1>3, NotZero, FieldFacts
                <4> DEFINE t == 2 * Y
                <4>2. t \in Int /\ ~Cong(P, t, 0)
                    BY <1>0, <4>1, PFacts, PrimeDivides
                <4> HIDE DEF t
                <4>3. ~Cong(P, t * Z, 0)
                    BY <1>0, <4>1, <4>2, PFacts, PrimeDivides
                <4> QED
                    BY <4>3 DEF t
            <3> HIDE DEF z0
            <3>2. ASSUME Z2 = 0 PROVE FALSE
                <4>1. z0 % P = 0 % P
                    BY <3>2, PFacts
                <4> QED
                    BY <1>0, <2>3, <3>1, <4>1, CongP
            <3> QED
                BY <3>2
        <2> HIDE DEF S, M, Z2
        <2>5. x0 \in Int
            BY <2>4
        <2>6. X2 \in Field /\ X2 \in Int /\ Cong(P, X2, x0)
            <3> HIDE DEF x0
            <3> QED
                BY <2>5, ModP
        <2> HIDE DEF X2
        <2>7. y0 \in Int
            BY <1>0, <2>4, <2>6
        <2>8. Y2 \in Field /\ Y2 \in Int /\ Cong(P, Y2, y0)
            <3> HIDE DEF y0
            <3> QED
                BY <2>7, ModP
        <2> HIDE DEF Y2
        <2>9. u \in Int /\ v \in Int
            BY FieldFacts
        <2>b. DoubleSteps(X, Y, Z, S, M, X2, Y2, Z2)
            BY <2>4, <2>6, <2>8 DEF DoubleSteps
        <2>10. Stands(X2, Y2, Z2, u, v)
            BY <1>0, <2>1, <2>4, <2>6, <2>8, <2>9, <2>b, DoubleAlgebra
        <2>11. ToAffine(<<X2, Y2, Z2>>) = <<u, v>>
            BY <2>4, <2>z, <2>6, <2>8, <2>10, AffineOf
        <2> QED
            BY <2>1, <2>2, <2>4, <2>6, <2>8, <2>11 DEF Jacobian
    <1> QED
        BY <1>2, <1>3

\* The formulas of _jadd on points of different x.
LEMMA ChordCorrect ==
    ASSUME NEW X1 \in Field, NEW Y1 \in Field, NEW Z1 \in Field, NEW x1 \in Field, NEW y1 \in Field,
           NEW X2 \in Field, NEW Y2 \in Field, NEW Z2 \in Field, NEW x2 \in Field, NEW y2 \in Field,
           Z1 # 0, Z2 # 0, Stands(X1, Y1, Z1, x1, y1), Stands(X2, Y2, Z2, x2, y2), x1 # x2
    PROVE  /\ JChord(<<X1, Y1, Z1>>, <<X2, Y2, Z2>>) \in Jacobian
           /\ ToAffine(JChord(<<X1, Y1, Z1>>, <<X2, Y2, Z2>>)) = GroupSum(<<x1, y1>>, <<x2, y2>>)
    <1>0. /\ P \in Int /\ X1 \in Int /\ Y1 \in Int /\ Z1 \in Int /\ x1 \in Int /\ y1 \in Int
          /\ X2 \in Int /\ Y2 \in Int /\ Z2 \in Int /\ x2 \in Int /\ y2 \in Int /\ 0 \in Int
        BY PFacts, FieldFacts
    <1>1. PICK s \in Int, u \in Field, v \in Field :
              /\ GroupSum(<<x1, y1>>, <<x2, y2>>) = <<u, v>>
              /\ ChordOf(x1, y1, x2, y2, s, u, v)
        BY ChordSum
    <1> DEFINE a0 == Z1 * Z1
               A == a0 % P
               c0 == Z2 * Z2
               C == c0 % P
               u0 == X1 * C
               U1 == u0 % P
               s0 == Y1 * Z2 * C
               S1 == s0 % P
               h0 == X2 * A - U1
               H == h0 % P
               r0 == Y2 * Z1 * A - S1
               R == r0 % P
               g0 == H * H * H
               H3 == g0 % P
               v0 == U1 * H * H
               V == v0 % P
               x0 == R * R - H3 - 2 * V
               X3 == x0 % P
               y0 == R * (V - X3) - S1 * H3
               Y3 == y0 % P
               z0 == H * Z1 * Z2
               ZS == z0 % P
    <1>2. JChord(<<X1, Y1, Z1>>, <<X2, Y2, Z2>>) = <<X3, Y3, ZS>>
        BY DEF JChord
    <1>h. (X1 * Z2 * Z2) % P # (X2 * Z1 * Z1) % P
        <2>1. ~SameX(<<X1, Y1, Z1>>, <<X2, Y2, Z2>>)
            <3>1. Is(<<X1, Y1, Z1>>, <<x1, y1>>) /\ Is(<<X2, Y2, Z2>>, <<x2, y2>>)
                BY DEF Is, Jacobian
            <3> QED
                BY <3>1, SameXIff
        <2> QED
            BY <2>1 DEF SameX
    <1>3. A \in Int /\ Cong(P, A, a0) /\ C \in Int /\ Cong(P, C, c0)
        <2>1. a0 \in Int /\ c0 \in Int
            BY <1>0
        <2> HIDE DEF a0, c0
        <2> QED
            BY <2>1, ModP
    <1> HIDE DEF A, C
    <1>4. U1 \in Int /\ Cong(P, U1, u0) /\ S1 \in Int /\ Cong(P, S1, s0)
        <2>1. u0 \in Int /\ s0 \in Int
            BY <1>0, <1>3
        <2> HIDE DEF u0, s0
        <2> QED
            BY <2>1, ModP
    <1> HIDE DEF U1, S1
    <1>5. H \in Field /\ H \in Int /\ Cong(P, H, h0) /\ R \in Int /\ Cong(P, R, r0) /\ h0 \in Int
        <2>1. h0 \in Int /\ r0 \in Int
            BY <1>0, <1>3, <1>4
        <2> HIDE DEF h0, r0
        <2> QED
            BY <2>1, ModP
    <1>6. H # 0
        <2> SUFFICES ASSUME H = 0 PROVE FALSE
            OBVIOUS
        <2> DEFINE l == X1 * Z2 * Z2
                   r == X2 * Z1 * Z1
        <2>1. l \in Int /\ r \in Int
            BY <1>0
        <2>2. PICK i \in Int, j \in Int, k \in Int, m \in Int :
                  /\ H = h0 + i * P /\ A = a0 + j * P /\ C = c0 + k * P /\ U1 = u0 + m * P
            BY <1>3, <1>4, <1>5 DEF Cong
        <2>3. r = l + (m - i + X1 * k - X2 * j) * P
            <3>1. X1 * C = l + (X1 * k) * P
                BY <1>0, <2>2
            <3>2. X2 * A = r + (X2 * j) * P
                BY <1>0, <2>2
            <3>3. X2 * A - U1 + i * P = 0
                BY <2>2
            <3>4. U1 = X1 * C + m * P
                BY <2>2
            <3> DEFINE p1 == X1 * C
                       p2 == X2 * A
                       q1 == X1 * k
                       q2 == X2 * j
            <3>5. p1 \in Int /\ p2 \in Int /\ q1 \in Int /\ q2 \in Int
                BY <1>0, <1>3, <2>2
            <3> HIDE DEF p1, p2, q1, q2, l, r
            <3>6. p1 = l + q1 * P /\ p2 = r + q2 * P /\ p2 - U1 + i * P = 0 /\ U1 = p1 + m * P
                BY <3>1, <3>2, <3>3, <3>4 DEF p1, p2, q1, q2
            <3>7. r = l + (m - i + q1 - q2) * P
                BY <1>0, <1>4, <2>1, <2>2, <3>5, <3>6
            <3> QED
                BY <3>7 DEF q1, q2
        <2>4. m - i + X1 * k - X2 * j \in Int
            BY <1>0, <2>2
        <2> HIDE DEF l, r
        <2>5. Cong(P, r, l)
            BY <2>3, <2>4 DEF Cong
        <2>6. r % P = l % P
            BY <2>1, <2>5, CongP
        <2> QED
            BY <1>h, <2>6 DEF l, r
    <1> HIDE DEF H, R
    <1>7. H3 \in Int /\ Cong(P, H3, g0) /\ V \in Int /\ Cong(P, V, v0)
          /\ ZS \in Field /\ ZS \in Int /\ Cong(P, ZS, z0) /\ z0 \in Int
        <2>1. g0 \in Int /\ v0 \in Int /\ z0 \in Int
            BY <1>0, <1>4, <1>5
        <2> HIDE DEF g0, v0, z0
        <2> QED
            BY <2>1, ModP
    <1>8. ZS # 0
        <2>1. ~Cong(P, H, 0) /\ ~Cong(P, Z1, 0) /\ ~Cong(P, Z2, 0)
            BY <1>5, <1>6, NotZero
        <2> DEFINE t == H * Z1
        <2>2. t \in Int /\ ~Cong(P, t, 0)
            BY <1>0, <1>5, <2>1, PFacts, PrimeDivides
        <2> HIDE DEF t
        <2>3. ~Cong(P, t * Z2, 0)
            BY <1>0, <2>1, <2>2, PFacts, PrimeDivides
        <2>4. ~Cong(P, z0, 0)
            BY <2>3 DEF t
        <2> HIDE DEF z0
        <2>5. ASSUME ZS = 0 PROVE FALSE
            <3>1. z0 % P = 0 % P
                BY <2>5, PFacts
            <3> QED
                BY <1>0, <1>7, <2>4, <3>1, CongP
        <2> QED
            BY <2>5
    <1> HIDE DEF H3, V, ZS
    <1>9. X3 \in Field /\ X3 \in Int /\ Cong(P, X3, x0)
        <2>1. x0 \in Int
            BY <1>5, <1>7
        <2> HIDE DEF x0
        <2> QED
            BY <2>1, ModP
    <1> HIDE DEF X3
    <1>10. Y3 \in Field /\ Y3 \in Int /\ Cong(P, Y3, y0)
        <2>1. y0 \in Int
            BY <1>4, <1>5, <1>7, <1>9
        <2> HIDE DEF y0
        <2> QED
            BY <2>1, ModP
    <1> HIDE DEF Y3
    <1>11. u \in Int /\ v \in Int
        BY FieldFacts
    <1>b. ChordSteps(X1, Y1, Z1, X2, Y2, Z2, A, C, U1, S1, H, R, H3, V, X3, Y3, ZS)
        BY <1>3, <1>4, <1>5, <1>7, <1>9, <1>10 DEF ChordSteps
    <1>12. Stands(X3, Y3, ZS, u, v)
        BY <1>0, <1>1, <1>3, <1>4, <1>5, <1>7, <1>9, <1>10, <1>11, <1>b, ChordAlgebra
    <1>13. ToAffine(<<X3, Y3, ZS>>) = <<u, v>>
        BY <1>7, <1>8, <1>9, <1>10, <1>12, AffineOf
    <1> QED
        BY <1>1, <1>2, <1>7, <1>9, <1>10, <1>13 DEF Jacobian

\* The operations stay among the triples.
LEMMA JTypes ==
    /\ JID \in Jacobian
    /\ \A J \in Jacobian : JDouble(J) \in Jacobian
    /\ \A J1, J2 \in Jacobian : JAdd(J1, J2) \in Jacobian
    <1>1. JID \in Jacobian
        BY FieldFacts DEF JID, Jacobian
    <1>2. ASSUME NEW J \in Jacobian
          PROVE  JDouble(J) \in Jacobian
        <2> DEFINE X == J[1]
                   Y == J[2]
                   Z == J[3]
                   s0 == 4 * X * Y * Y
                   S == s0 % P
                   m0 == 3 * X * X
                   M == m0 % P
                   x0 == M * M - 2 * S
                   X2 == x0 % P
                   y0 == M * (S - X2) - 8 * Y * Y * Y * Y
                   z0 == 2 * Y * Z
        <2>1. JDouble(J) = IF Z = 0 \/ Y = 0 THEN JID ELSE <<X2, y0 % P, z0 % P>>
            BY DEF JDouble
        <2>2. X \in Int /\ Y \in Int /\ Z \in Int
            BY FieldFacts DEF Jacobian
        <2> HIDE DEF X, Y, Z
        <2>3. s0 \in Int /\ m0 \in Int /\ z0 \in Int
            BY <2>2
        <2>4. S \in Int /\ M \in Int /\ z0 % P \in Field
            <3> HIDE DEF s0, m0, z0
            <3> QED
                BY <2>3, ModP
        <2> HIDE DEF S, M
        <2>5. x0 \in Int
            BY <2>4
        <2>6. X2 \in Field /\ X2 \in Int
            <3> HIDE DEF x0
            <3> QED
                BY <2>5, ModP
        <2> HIDE DEF X2
        <2>7. y0 \in Int
            BY <2>2, <2>4, <2>6
        <2>8. y0 % P \in Field
            <3> HIDE DEF y0
            <3> QED
                BY <2>7, ModP
        <2> HIDE DEF y0, z0
        <2> QED
            BY <1>1, <2>1, <2>4, <2>6, <2>8 DEF Jacobian
    <1>3. ASSUME NEW J1 \in Jacobian, NEW J2 \in Jacobian
          PROVE  JChord(J1, J2) \in Jacobian
        <2> DEFINE X1 == J1[1]
                   Y1 == J1[2]
                   Z1 == J1[3]
                   X2 == J2[1]
                   Y2 == J2[2]
                   Z2 == J2[3]
                   a0 == Z1 * Z1
                   A == a0 % P
                   c0 == Z2 * Z2
                   C == c0 % P
                   u0 == X1 * C
                   U1 == u0 % P
                   s0 == Y1 * Z2 * C
                   S1 == s0 % P
                   h0 == X2 * A - U1
                   H == h0 % P
                   r0 == Y2 * Z1 * A - S1
                   R == r0 % P
                   g0 == H * H * H
                   H3 == g0 % P
                   v0 == U1 * H * H
                   V == v0 % P
                   x0 == R * R - H3 - 2 * V
                   X3 == x0 % P
                   y0 == R * (V - X3) - S1 * H3
                   Y3 == y0 % P
                   z0 == H * Z1 * Z2
                   ZS == z0 % P
        <2>1. JChord(J1, J2) = <<X3, Y3, ZS>>
            BY DEF JChord
        <2>2. /\ X1 \in Int /\ Y1 \in Int /\ Z1 \in Int /\ X2 \in Int /\ Y2 \in Int /\ Z2 \in Int
            BY FieldFacts DEF Jacobian
        <2> HIDE DEF X1, Y1, Z1, X2, Y2, Z2
        <2>3. A \in Int /\ C \in Int
            <3>1. a0 \in Int /\ c0 \in Int
                BY <2>2
            <3> HIDE DEF a0, c0
            <3> QED
                BY <3>1, ModP
        <2> HIDE DEF A, C
        <2>4. U1 \in Int /\ S1 \in Int
            <3>1. u0 \in Int /\ s0 \in Int
                BY <2>2, <2>3
            <3> HIDE DEF u0, s0
            <3> QED
                BY <3>1, ModP
        <2> HIDE DEF U1, S1
        <2>5. H \in Int /\ R \in Int
            <3>1. h0 \in Int /\ r0 \in Int
                BY <2>2, <2>3, <2>4
            <3> HIDE DEF h0, r0
            <3> QED
                BY <3>1, ModP
        <2> HIDE DEF H, R
        <2>6. H3 \in Int /\ V \in Int /\ ZS \in Field
            <3>1. g0 \in Int /\ v0 \in Int /\ z0 \in Int
                BY <2>2, <2>4, <2>5
            <3> HIDE DEF g0, v0, z0
            <3> QED
                BY <3>1, ModP
        <2> HIDE DEF H3, V, ZS
        <2>7. X3 \in Field /\ X3 \in Int
            <3>1. x0 \in Int
                BY <2>5, <2>6
            <3> HIDE DEF x0
            <3> QED
                BY <3>1, ModP
        <2> HIDE DEF X3
        <2>8. Y3 \in Field
            <3>1. y0 \in Int
                BY <2>4, <2>5, <2>6, <2>7
            <3> HIDE DEF y0
            <3> QED
                BY <3>1, ModP
        <2> HIDE DEF Y3
        <2> QED
            BY <2>1, <2>6, <2>7, <2>8 DEF Jacobian
    <1>4. ASSUME NEW J1 \in Jacobian, NEW J2 \in Jacobian
          PROVE  JAdd(J1, J2) \in Jacobian
        BY <1>1, <1>2, <1>3 DEF JAdd
    <1> QED
        BY <1>1, <1>2, <1>4

\* Z = 0 exactly at infinity.
LEMMA Infinite ==
    ASSUME NEW J \in Jacobian
    PROVE  ToAffine(J) = IDENTITY <=> J[3] = 0
    BY DEF ToAffine, IDENTITY

\* A triple stands for its affine point.
LEMMA IsAffine ==
    ASSUME NEW J \in Jacobian, J[3] # 0, NEW p \in Field \X Field
    PROVE  ToAffine(J) = p <=> Is(J, p)
    <1> DEFINE X == J[1]
               Y == J[2]
               Z == J[3]
               x == p[1]
               y == p[2]
    <1>1. X \in Field /\ Y \in Field /\ Z \in Field /\ x \in Field /\ y \in Field /\ Z # 0
        BY DEF Jacobian
    <1>2. J = <<X, Y, Z>> /\ p = <<x, y>>
        BY DEF Jacobian
    <1>3. Is(J, p) <=> Stands(X, Y, Z, x, y)
        BY DEF Is
    <1> HIDE DEF X, Y, Z, x, y
    <1>4. ToAffine(<<X, Y, Z>>) = <<x, y>> <=> Stands(X, Y, Z, x, y)
        BY <1>1, AffineOf
    <1> QED
        BY <1>2, <1>3, <1>4

\* A point survives the way to Jacobian coordinates and back.
LEMMA ToJacCorrect ==
    ASSUME NEW p \in Points
    PROVE  ToJac(p) \in Jacobian /\ ToAffine(ToJac(p)) = p
    <1>1. CASE p = IDENTITY
        BY <1>1, FieldFacts DEF ToJac, JID, Jacobian, ToAffine
    <1>2. CASE p # IDENTITY
        <2>1. PICK x \in Field, y \in Field : p = <<x, y>>
            BY <1>2, Finite
        <2>2. ToJac(p) = <<x, y, 1>>
            BY <1>2, <2>1 DEF ToJac
        <2>3. x \in Int /\ y \in Int /\ 1 \in Field
            BY FieldFacts
        <2>4. Stands(x, y, 1, x, y)
            <3>1. Cong(P, x, x) /\ Cong(P, y, y)
                BY <2>3, PFacts, CongRefl
            <3>2. x * 1 * 1 = x /\ y * 1 * 1 * 1 = y
                BY <2>3
            <3> QED
                BY <3>1, <3>2 DEF Stands
        <2>5. ToAffine(<<x, y, 1>>) = <<x, y>>
            BY <2>3, <2>4, AffineOf
        <2> QED
            BY <2>1, <2>2, <2>3, <2>5 DEF Jacobian
    <1> QED
        BY <1>1, <1>2

\* _jdouble computes the group law: for every Jacobian triple of a point, the
\* double stands for the sum of the point with itself, the point at infinity and
\* points of order two included.
THEOREM JDoubleIsLaw ==
    ASSUME NEW J \in Jacobian, ToAffine(J) \in Points
    PROVE  ToAffine(JDouble(J)) = GroupSum(ToAffine(J), ToAffine(J))
    <1>1. CASE J[3] = 0
        <2>1. JDouble(J) = JID /\ ToAffine(J) = IDENTITY /\ ToAffine(JID) = IDENTITY
            BY <1>1 DEF JDouble, ToAffine, JID
        <2> QED
            BY <2>1 DEF GroupSum
    <1>2. CASE J[3] # 0
        <2>1. ToAffine(J) # IDENTITY
            BY <1>2, Infinite
        <2>2. PICK x \in Field, y \in Field : ToAffine(J) = <<x, y>>
            BY <2>1, Finite
        <2>3. PICK X \in Field, Y \in Field, Z \in Field : J = <<X, Y, Z>> /\ Z # 0
            BY <1>2 DEF Jacobian
        <2>4. Stands(X, Y, Z, x, y)
            BY <2>2, <2>3, AffineOf
        <2> QED
            BY <2>2, <2>3, <2>4, DoubleCorrect
    <1> QED
        BY <1>1, <1>2

\* Two points of the same x have the same y or opposite ones.
LEMMA Opposite ==
    ASSUME NEW y1 \in Field, NEW y2 \in Field, (y1 * y1) % P = (y2 * y2) % P, y1 # y2
    PROVE  (y1 + y2) % P = 0
    <1> DEFINE q1 == y1 * y1
               q2 == y2 * y2
               d == y1 - y2
               e == y1 + y2
    <1>1. y1 \in Int /\ y2 \in Int /\ 0 \in Int /\ P \in Int
        BY FieldFacts, PFacts
    <1>2. q1 \in Int /\ q2 \in Int /\ d \in Int /\ e \in Int
        BY <1>1
    <1>3. Cong(P, q1, q2)
        <2> HIDE DEF q1, q2
        <2>1. q1 % P = q2 % P
            BY DEF q1, q2
        <2> QED
            BY <1>2, <2>1, CongP
    <1>4. PICK k \in Int : q1 = q2 + k * P
        BY <1>3 DEF Cong
    <1>5. d * e = 0 + k * P
        BY <1>1, <1>4
    <1>6. Cong(P, d * e, 0)
        BY <1>5 DEF Cong
    <1>7. ~Cong(P, d, 0)
        <2>1. ASSUME Cong(P, y1 - y2, 0) PROVE FALSE
            BY <1>1, <2>1, CongShift, FieldFacts
        <2> QED
            BY <2>1
    <1> HIDE DEF d, e
    <1>8. Cong(P, e, 0)
        BY <1>2, <1>6, <1>7, PFacts, PrimeDivides
    <1>9. e % P = 0 % P
        BY <1>1, <1>2, <1>8, CongP
    <1> QED
        BY <1>9, PFacts DEF e

\* _jadd computes the group law: for every two Jacobian triples of points, the
\* sum stands for the sum of the points, whether they are equal, opposite, the
\* point at infinity or none of these.
THEOREM JAddIsLaw ==
    ASSUME NEW J1 \in Jacobian, NEW J2 \in Jacobian,
           ToAffine(J1) \in Points, ToAffine(J2) \in Points
    PROVE  ToAffine(JAdd(J1, J2)) = GroupSum(ToAffine(J1), ToAffine(J2))
    <1>1. CASE J1[3] = 0
        <2>1. ToAffine(J1) = IDENTITY
            BY <1>1, Infinite
        <2> QED
            BY <1>1, <2>1 DEF JAdd, GroupSum
    <1>2. CASE J1[3] # 0 /\ J2[3] = 0
        <2>1. ToAffine(J2) = IDENTITY /\ ToAffine(J1) # IDENTITY
            BY <1>2, Infinite
        <2> QED
            BY <1>2, <2>1 DEF JAdd, GroupSum
    <1>3. CASE J1[3] # 0 /\ J2[3] # 0
        <2> DEFINE p == ToAffine(J1)
                   q == ToAffine(J2)
        <2>1. p # IDENTITY /\ q # IDENTITY
            BY <1>3, Infinite
        <2>2. PICK x1 \in Field, y1 \in Field :
                  p = <<x1, y1>> /\ (y1 * y1) % P = YSquared(x1)
            <3> HIDE DEF p
            <3>1. p \in Points
                BY DEF p
            <3> QED
                BY <2>1, <3>1, Finite
        <2>3. PICK x2 \in Field, y2 \in Field :
                  q = <<x2, y2>> /\ (y2 * y2) % P = YSquared(x2)
            <3> HIDE DEF q
            <3>1. q \in Points
                BY DEF q
            <3> QED
                BY <2>1, <3>1, Finite
        <2>4. Is(J1, <<x1, y1>>) /\ Is(J2, <<x2, y2>>)
            BY <1>3, <2>2, <2>3, IsAffine
        <2>5. (SameX(J1, J2) <=> x1 = x2) /\ (SameY(J1, J2) <=> y1 = y2)
            BY <2>4, SameXIff
        <2>6. CASE x1 # x2
            <3>1. JAdd(J1, J2) = JChord(J1, J2)
                BY <1>3, <2>5, <2>6 DEF JAdd
            <3>2. PICK X1 \in Field, Y1 \in Field, Z1 \in Field : J1 = <<X1, Y1, Z1>> /\ Z1 # 0
                BY <1>3 DEF Jacobian
            <3>3. PICK X2 \in Field, Y2 \in Field, Z2 \in Field : J2 = <<X2, Y2, Z2>> /\ Z2 # 0
                BY <1>3 DEF Jacobian
            <3>4. Stands(X1, Y1, Z1, x1, y1) /\ Stands(X2, Y2, Z2, x2, y2)
                BY <2>4, <3>2, <3>3 DEF Is
            <3>5. ToAffine(JChord(<<X1, Y1, Z1>>, <<X2, Y2, Z2>>))
                      = GroupSum(<<x1, y1>>, <<x2, y2>>)
                BY <2>6, <3>2, <3>3, <3>4, ChordCorrect
            <3> QED
                BY <2>2, <2>3, <3>1, <3>2, <3>3, <3>5
        <2>7. CASE x1 = x2 /\ y1 = y2
            <3>1. JAdd(J1, J2) = JDouble(J1)
                BY <1>3, <2>5, <2>7 DEF JAdd
            <3>2. p = q
                BY <2>2, <2>3, <2>7
            <3> QED
                BY <3>1, <3>2, JDoubleIsLaw
        <2>8. CASE x1 = x2 /\ y1 # y2
            <3>1. JAdd(J1, J2) = JID
                BY <1>3, <2>5, <2>8 DEF JAdd
            <3>2. (y1 + y2) % P = 0
                BY <2>2, <2>3, <2>8, Opposite
            <3>3. GroupSum(p, q) = IDENTITY
                BY <2>1, <2>2, <2>3, <2>8, <3>2 DEF GroupSum
            <3>4. ToAffine(JID) = IDENTITY
                BY DEF JID, ToAffine
            <3> QED
                BY <3>1, <3>3, <3>4
        <2> QED
            BY <2>6, <2>7, <2>8
    <1> QED
        BY <1>1, <1>2, <1>3

-----------------------------------------------------------------------------
(* Multiples by the group law *)

\* The order is a prime and the generator a point.
LEMMA NFacts ==
    /\ Prime(N) /\ N \in Nat \ {0} /\ N \in Nat /\ N \in Int /\ N > 1
    /\ G \in Points /\ G # IDENTITY
    BY CurveAssumption DEF Prime

\* The point at infinity is neutral.
LEMMA IdentityPoint ==
    /\ IDENTITY \in Points
    /\ \A p \in Points : GroupSum(IDENTITY, p) = p /\ GroupSum(p, IDENTITY) = p
    BY DEF Points, GroupSum

\* The table of the group law's multiples, as it is defined.
LEMMA MultiplesOfLaw ==
    /\ \A k \in Scalars, p \in Points : LawMultiples[k][p] \in Points
    /\ \A p \in Points : LawMultiples[0][p] = IDENTITY
    /\ \A k \in 1..(N - 1), p \in Points :
           LawMultiples[k][p] = GroupSum(LawMultiples[k - 1][p], p)
    <1> DEFINE S == [Points -> Points]
               a == [p \in Points |-> IDENTITY]
               st == [k \in 1..(N - 1) |-> [f \in S |-> [p \in Points |-> GroupSum(f[p], p)]]]
    <1>0. N - 1 \in Nat /\ Scalars = 0..(N - 1) /\ 0 \in Scalars
        BY NFacts DEF Scalars
    <1>1. a \in S /\ st \in [1..(N - 1) -> [S -> S]]
        BY IdentityPoint, GroupAssumption
    <1>2. PICK g \in [0..(N - 1) -> S] : g[0] = a /\ \A k \in 1..(N - 1) : g[k] = st[k][g[k - 1]]
        <2> DEFINE n == N - 1
        <2>1. n \in Nat /\ a \in S /\ st \in [1..n -> [S -> S]]
            BY <1>0, <1>1
        <2> HIDE DEF S, a, st, n
        <2>2. Recursion(n, S, a, st)
            BY <2>1, RecursionExists
        <2> QED
            BY <2>2 DEF n, Recursion
    <1>3. \A k \in 1..(N - 1), p \in Points : g[k][p] = GroupSum(g[k - 1][p], p)
        <2> SUFFICES ASSUME NEW k \in 1..(N - 1), NEW p \in Points
                     PROVE  g[k][p] = GroupSum(g[k - 1][p], p)
            OBVIOUS
        <2>1. k - 1 \in 0..(N - 1)
            BY <1>0
        <2>2. g[k - 1] \in S
            BY <1>2, <2>1
        <2>3. st[k][g[k - 1]] = [r \in Points |-> GroupSum(g[k - 1][r], r)]
            BY <2>2
        <2>4. g[k] = st[k][g[k - 1]]
            BY <1>2
        <2> QED
            BY <2>3, <2>4
    <1>4. g = [k \in Scalars |-> [p \in Points |->
                  IF k = 0 THEN IDENTITY ELSE GroupSum(g[k - 1][p], p)]]
        <2> SUFFICES ASSUME NEW k \in Scalars
                     PROVE  g[k] = [p \in Points |->
                                IF k = 0 THEN IDENTITY ELSE GroupSum(g[k - 1][p], p)]
            BY <1>0, <1>2
        <2>1. k \in 0..(N - 1) /\ g[k] \in S
            BY <1>0, <1>2
        <2>2. ASSUME NEW p \in Points
              PROVE  g[k][p] = IF k = 0 THEN IDENTITY ELSE GroupSum(g[k - 1][p], p)
            <3>1. CASE k = 0
                BY <1>2, <3>1
            <3>2. CASE k # 0
                <4>1. k \in 1..(N - 1)
                    BY <2>1, <3>2, <1>0
                <4> QED
                    BY <1>3, <3>2, <4>1
            <3> QED
                BY <3>1, <3>2
        <2> QED
            BY <2>1, <2>2
    <1>5. GroupMultiples = [k \in Scalars |-> [p \in Points |->
              IF k = 0 THEN IDENTITY ELSE GroupSum(GroupMultiples[k - 1][p], p)]]
        BY <1>4 DEF GroupMultiples
    <1>6. \A k \in Scalars, p \in Points : LawMultiples[k][p] = GroupMultiples[k][p]
        BY DEF LawMultiples
    <1>7. \A p \in Points : LawMultiples[0][p] = IDENTITY
        <2> HIDE DEF GroupMultiples
        <2> QED
            BY <1>0, <1>5, <1>6
    <1>8. ASSUME NEW k \in 1..(N - 1), NEW p \in Points
          PROVE  LawMultiples[k][p] = GroupSum(LawMultiples[k - 1][p], p)
        <2>1. k \in Scalars /\ k - 1 \in Scalars /\ k # 0
            BY <1>0
        <2>2. GroupMultiples[k][p] = GroupSum(GroupMultiples[k - 1][p], p)
            <3> HIDE DEF GroupMultiples
            <3> QED
                BY <1>5, <2>1
        <2> QED
            BY <1>6, <2>1, <2>2
    <1>9. \A k \in Scalars, p \in Points : LawMultiples[k][p] \in Points
        <2> SUFFICES ASSUME NEW p \in Points
                     PROVE  \A k \in Scalars : LawMultiples[k][p] \in Points
            OBVIOUS
        <2> DEFINE T == {k \in Scalars : LawMultiples[k][p] \in Points}
        <2>1. 0 \in T
            BY <1>0, <1>7, IdentityPoint
        <2>2. ASSUME NEW k \in 0..(N - 1), k < N - 1, k \in T
              PROVE  k + 1 \in T
            <3>1. k + 1 \in 1..(N - 1) /\ k + 1 \in Scalars /\ (k + 1) - 1 = k
                BY <1>0, <2>2
            <3>2. LawMultiples[k + 1][p] = GroupSum(LawMultiples[k][p], p)
                BY <1>8, <3>1
            <3> QED
                BY <2>2, <3>1, <3>2, GroupAssumption
        <2>3. 0..(N - 1) \subseteq T
            <3> HIDE DEF T
            <3> QED
                BY <1>0, <2>1, <2>2, UpTo
        <2> QED
            BY <1>0, <2>3
    <1> QED
        BY <1>7, <1>8, <1>9

-----------------------------------------------------------------------------
(* The points are E(k), k times the generator, for the integers modulo N *)

E(k) == LawMultiples[k % N][G]

\* The remainder modulo N.
LEMMA ModN ==
    ASSUME NEW a \in Int
    PROVE  a % N \in Scalars /\ a % N \in Int /\ Cong(N, a % N, a) /\ Cong(N, a, a % N)
    <1>1. N \in Nat \ {0}
        BY NFacts
    <1> QED
        BY <1>1, ModFacts DEF Scalars

LEMMA CongN ==
    ASSUME NEW a \in Int, NEW b \in Int
    PROVE  Cong(N, a, b) <=> a % N = b % N
    <1>1. N \in Nat \ {0}
        BY NFacts
    <1> QED
        BY <1>1, CongIff

LEMMA ScalarFacts ==
    /\ Scalars \subseteq Int /\ Scalars \subseteq Nat
    /\ \A a \in Scalars : a % N = a
    BY NFacts DEF Scalars

\* Congruent factors give the same point.
LEMMA EOf ==
    ASSUME NEW a \in Int, NEW b \in Int, Cong(N, a, b)
    PROVE  E(a) = E(b)
    BY CongN DEF E

LEMMA EPoint ==
    ASSUME NEW a \in Int
    PROVE  E(a) \in Points
    BY ModN, NFacts, MultiplesOfLaw DEF E

\* The first multiples, and the next one.
LEMMA EZero == E(0) = IDENTITY /\ E(1) = G
    <1>1. 0 % N = 0 /\ 1 % N = 1 /\ 1 \in 1..(N - 1) /\ 1 - 1 = 0
        BY NFacts
    <1>2. E(0) = IDENTITY
        BY <1>1, NFacts, MultiplesOfLaw DEF E
    <1>3. LawMultiples[1][G] = GroupSum(LawMultiples[0][G], G)
        BY <1>1, NFacts, MultiplesOfLaw
    <1> QED
        BY <1>1, <1>2, <1>3, NFacts, IdentityPoint DEF E

LEMMA ESucc ==
    ASSUME NEW a \in Int
    PROVE  GroupSum(E(a), G) = E(a + 1)
    <1> DEFINE r == a % N
    <1>1. r \in Scalars /\ Cong(N, r, a) /\ r \in Int
        BY ModN
    <1>2. E(a) = LawMultiples[r][G]
        BY DEF E
    <1> HIDE DEF r
    <1>3. Cong(N, r + 1, a + 1)
        BY <1>1, NFacts, CongAdd, CongRefl
    <1>4. E(a + 1) = E(r + 1)
        BY <1>1, <1>3, EOf
    <1>5. CASE r < N - 1
        <2>1. r + 1 \in 1..(N - 1) /\ (r + 1) - 1 = r /\ (r + 1) % N = r + 1
            BY <1>1, <1>5, NFacts DEF Scalars
        <2> QED
            BY <1>2, <1>4, <2>1, NFacts, MultiplesOfLaw DEF E
    <1>6. CASE r = N - 1
        <2>1. r + 1 = N /\ N % N = 0 /\ 0 % N = 0
            BY <1>6, NFacts
        <2>2. E(r + 1) = E(0)
            BY <2>1 DEF E
        <2> QED
            BY <1>2, <1>4, <1>6, <2>2, EZero, GroupAssumption
    <1> QED
        BY <1>1, <1>5, <1>6, NFacts DEF Scalars

\* Every point is a multiple of the generator.
LEMMA EveryPoint ==
    ASSUME NEW p \in Points
    PROVE  \E k \in Scalars : p = E(k)
    BY GroupAssumption, ScalarFacts DEF E

\* The sum of two multiples: by induction from associativity.
LEMMA EAdd ==
    ASSUME NEW a \in Int, NEW b \in Int
    PROVE  GroupSum(E(a), E(b)) = E(a + b)
    <1> DEFINE T == {k \in Scalars : GroupSum(E(a), E(k)) = E(a + k)}
    <1>0. N - 1 \in Nat /\ Scalars = 0..(N - 1) /\ 0 \in Scalars
        BY NFacts DEF Scalars
    <1>1. 0 \in T
        <2>1. a + 0 = a
            OBVIOUS
        <2> QED
            BY <1>0, <2>1, EZero, EPoint, IdentityPoint
    <1>2. ASSUME NEW k \in 0..(N - 1), k < N - 1, k \in T
          PROVE  k + 1 \in T
        <2>1. k \in Int /\ k + 1 \in Scalars /\ a + k \in Int /\ a + (k + 1) = (a + k) + 1
            BY <1>0, <1>2
        <2>2. E(k + 1) = GroupSum(E(k), G) /\ E((a + k) + 1) = GroupSum(E(a + k), G)
            BY <2>1, ESucc
        <2>3. E(a) \in Points /\ E(k) \in Points /\ G \in Points
            BY <2>1, EPoint, NFacts
        <2>4. GroupSum(E(a), GroupSum(E(k), G)) = GroupSum(GroupSum(E(a), E(k)), G)
            BY <2>3, GroupAssumption
        <2>5. GroupSum(E(a), E(k)) = E(a + k)
            BY <1>2
        <2> QED
            BY <2>1, <2>2, <2>4, <2>5
    <1>3. 0..(N - 1) \subseteq T
        <2> HIDE DEF T
        <2> QED
            BY <1>0, <1>1, <1>2, UpTo
    <1> DEFINE r == b % N
    <1>4. r \in Scalars /\ Cong(N, r, b) /\ r \in Int
        BY ModN
    <1> HIDE DEF r
    <1>5. GroupSum(E(a), E(r)) = E(a + r)
        BY <1>0, <1>3, <1>4
    <1>6. E(r) = E(b)
        BY <1>4, EOf
    <1>7. E(a + r) = E(a + b)
        <2>1. Cong(N, a + r, a + b)
            BY <1>4, NFacts, CongAdd, CongRefl
        <2> QED
            BY <1>4, <2>1, EOf
    <1> QED
        BY <1>5, <1>6, <1>7

\* G has the order N.
LEMMA EInjective ==
    ASSUME NEW a \in Int, NEW b \in Int, E(a) = E(b)
    PROVE  Cong(N, a, b)
    <1> DEFINE c == a - b
    <1>1. c \in Int /\ -b \in Int /\ 0 \in Int
        OBVIOUS
    <1>2. E(c) = IDENTITY
        <2>1. GroupSum(E(a), E(-b)) = E(a + (-b)) /\ GroupSum(E(b), E(-b)) = E(b + (-b))
            BY <1>1, EAdd
        <2>2. a + (-b) = c /\ b + (-b) = 0
            OBVIOUS
        <2> QED
            BY <2>1, <2>2, EZero
    <1>c. a = b + c
        OBVIOUS
    <1> HIDE DEF c
    <1>3. \A k \in Nat : E(c * k) = IDENTITY
        <2> DEFINE T == {k \in Nat : E(c * k) = IDENTITY}
        <2>1. 0 \in T
            <3>1. c * 0 = 0
                BY <1>1
            <3> QED
                BY <3>1, EZero
        <2>2. ASSUME NEW k \in Nat, k \in T
              PROVE  k + 1 \in T
            <3> DEFINE ck == c * k
            <3>1. ck \in Int /\ c * (k + 1) = ck + c /\ E(ck) = IDENTITY
                BY <1>1, <2>2
            <3> HIDE DEF ck
            <3>2. E(ck + c) = GroupSum(E(ck), E(c))
                BY <1>1, <3>1, EAdd
            <3>3. E(c * (k + 1)) = IDENTITY
                BY <1>2, <3>1, <3>2, IdentityPoint
            <3> QED
                BY <3>3
        <2>3. Nat \subseteq T
            <3> HIDE DEF T
            <3> QED
                BY <2>1, <2>2, NatInduct
        <2> QED
            BY <2>3
    <1>4. ASSUME c % N # 0 PROVE FALSE
        <2>1. PICK i \in 0..(N - 1) : (c * i) % N = 1
            BY <1>1, <1>4, NFacts, InverseExists
        <2>2. i \in Nat
            BY <2>1, NFacts
        <2>3. E(c * i) = IDENTITY
            BY <1>3, <2>2
        <2>4. 1 % N = 1
            BY NFacts
        <2>5. E(1) = E(c * i)
            BY <2>1, <2>4 DEF E
        <2> QED
            BY <2>3, <2>5, EZero, NFacts
    <1>5. Cong(N, c, 0)
        <2>1. 0 % N = 0
            BY NFacts
        <2> QED
            BY <1>1, <1>4, <2>1, CongN
    <1>6. PICK k \in Int : c = 0 + k * N
        BY <1>5 DEF Cong
    <1>7. k * N \in Int
        BY NFacts
    <1>8. a = b + k * N
        BY <1>1, <1>c, <1>6, <1>7
    <1> QED
        BY <1>8 DEF Cong

\* Multiples of multiples.
LEMMA EMultiple ==
    ASSUME NEW k \in Scalars, NEW a \in Int
    PROVE  LawMultiples[k][E(a)] = E(k * a)
    <1> DEFINE T == {j \in Scalars : LawMultiples[j][E(a)] = E(j * a)}
    <1>0. N - 1 \in Nat /\ Scalars = 0..(N - 1) /\ 0 \in Scalars /\ E(a) \in Points
        BY NFacts, EPoint DEF Scalars
    <1>1. 0 \in T
        <2>1. 0 * a = 0
            OBVIOUS
        <2> QED
            BY <1>0, <2>1, EZero, MultiplesOfLaw
    <1>2. ASSUME NEW j \in 0..(N - 1), j < N - 1, j \in T
          PROVE  j + 1 \in T
        <2> DEFINE ja == j * a
        <2>1. j + 1 \in 1..(N - 1) /\ (j + 1) - 1 = j /\ ja \in Int /\ (j + 1) * a = ja + a
            BY <1>0, <1>2
        <2>2. LawMultiples[j][E(a)] = E(ja)
            BY <1>2
        <2> HIDE DEF ja
        <2>3. LawMultiples[j + 1][E(a)] = GroupSum(E(ja), E(a))
            BY <1>0, <2>1, <2>2, MultiplesOfLaw
        <2>4. GroupSum(E(ja), E(a)) = E(ja + a)
            BY <2>1, EAdd
        <2>5. LawMultiples[j + 1][E(a)] = E((j + 1) * a)
            BY <2>1, <2>3, <2>4
        <2> QED
            BY <1>0, <2>1, <2>5
    <1>3. 0..(N - 1) \subseteq T
        <2> HIDE DEF T
        <2> QED
            BY <1>0, <1>1, <1>2, UpTo
    <1> QED
        BY <1>0, <1>3

\* A point of the program stands for itself.
LEMMA ModPoint ==
    ASSUME NEW p \in Points
    PROVE  Mod(p) = p
    <1>1. CASE p = IDENTITY
        BY <1>1 DEF Mod
    <1>2. CASE p # IDENTITY
        <2>1. PICK x \in Field, y \in Field : p = <<x, y>>
            BY <1>2, Finite
        <2>2. x % P = x /\ y % P = y
            BY PFacts DEF Field
        <2> QED
            BY <1>2, <2>1, <2>2 DEF Mod
    <1> QED
        BY <1>1, <1>2

\* Point.__add__ is the group law on affine points.
THEOREM PlusIsLaw ==
    ASSUME NEW p \in Points, NEW q \in Points
    PROVE  Plus(p, q) = GroupSum(p, q)
    <1>1. Plus(p, q) = ToAffine(JAdd(ToJac(p), ToJac(q)))
        BY ModPoint DEF Plus, Sums
    <1>2. /\ ToJac(p) \in Jacobian /\ ToAffine(ToJac(p)) = p
          /\ ToJac(q) \in Jacobian /\ ToAffine(ToJac(q)) = q
        BY ToJacCorrect
    <1> QED
        BY <1>1, <1>2, JAddIsLaw

\* Point.__add__ in multiples of the generator.
LEMMA PlusE ==
    ASSUME NEW a \in Int, NEW b \in Int
    PROVE  Plus(E(a), E(b)) = E(a + b)
    BY EPoint, EAdd, PlusIsLaw

\* Point.__neg__ gives the opposite point.
LEMMA NegPoint ==
    ASSUME NEW p \in Points
    PROVE  Neg(p) \in Points /\ GroupSum(p, Neg(p)) = IDENTITY
    <1>1. CASE p = IDENTITY
        BY <1>1, IdentityPoint DEF Neg
    <1>2. CASE p # IDENTITY
        <2>1. PICK x \in Field, y \in Field : p = <<x, y>> /\ (y * y) % P = YSquared(x)
            BY <1>2, Finite
        <2> DEFINE m == -y
                   n == m % P
                   t == y + n
                   s0 == y * y
                   s1 == n * n
        <2>2. y \in Int /\ m \in Int /\ P \in Int /\ 0 \in Int
            BY FieldFacts, PFacts
        <2>3. n \in Field /\ n \in Int /\ Cong(P, n, m)
            <3> HIDE DEF m
            <3> QED
                BY <2>2, ModP
        <2>m. m = -y /\ Neg(p) = <<x, n>> /\ <<x, n>> # IDENTITY
            BY <1>2, <2>1 DEF Neg, IDENTITY
        <2> HIDE DEF n
        <2>4. PICK k \in Int : n = m + k * P
            BY <2>3 DEF Cong
        <2>5. t \in Int /\ s0 \in Int /\ s1 \in Int
            BY <2>2, <2>3
        <2>6. t = 0 + k * P
            BY <2>2, <2>m, <2>4
        <2>7. s1 = s0 + (k * (n - y)) * P /\ k * (n - y) \in Int
            BY <2>2, <2>3, <2>m, <2>4
        <2> HIDE DEF t, s0, s1, m
        <2>8. Cong(P, t, 0) /\ Cong(P, s1, s0)
            BY <2>6, <2>7 DEF Cong
        <2>9. t % P = 0 % P /\ s1 % P = s0 % P /\ 0 % P = 0
            BY <2>2, <2>5, <2>8, PFacts, CongP
        <2>10. (y + n) % P = 0 /\ (n * n) % P = YSquared(x)
            BY <2>1, <2>9 DEF t, s0, s1
        <2>11. <<x, n>> \in Points
            BY <2>3, <2>10 DEF Points
        <2>12. GroupSum(p, <<x, n>>) = IDENTITY
            BY <1>2, <2>1, <2>m, <2>10 DEF GroupSum
        <2> QED
            BY <2>m, <2>11, <2>12
    <1> QED
        BY <1>1, <1>2

\* Point.__sub__ subtracts: in multiples of the generator, it takes the
\* difference of the factors.
THEOREM MinusE ==
    ASSUME NEW a \in Int, NEW b \in Int
    PROVE  Minus(E(a), E(b)) = E(a - b)
    <1>1. E(b) \in Points
        BY EPoint
    <1>2. PICK k \in Scalars : Neg(E(b)) = E(k)
        BY <1>1, NegPoint, EveryPoint
    <1>3. k \in Int /\ 0 \in Int /\ b + k \in Int /\ -b \in Int
        BY ScalarFacts
    <1>4. E(b + k) = E(0)
        BY <1>1, <1>2, <1>3, NegPoint, EAdd, EZero
    <1>5. Cong(N, b + k, 0)
        BY <1>3, <1>4, EInjective
    <1>6. PICK j \in Int : b + k = 0 + j * N
        BY <1>5 DEF Cong
    <1>7. a + k = (a - b) + j * N
        <2>1. j * N \in Int
            BY NFacts
        <2> QED
            BY <1>3, <1>6, <2>1
    <1>8. Cong(N, a + k, a - b)
        BY <1>7 DEF Cong
    <1>9. E(a + k) = E(a - b)
        BY <1>3, <1>8, EOf
    <1>10. Minus(E(a), E(b)) = Plus(E(a), E(k))
        BY <1>2 DEF Minus
    <1> QED
        BY <1>3, <1>9, <1>10, PlusE

-----------------------------------------------------------------------------
(* Multiplication *)

\* The loop of _jmul, as it is defined.
LEMMA MulLoopDef ==
    \A k \in Nat : \A s \in Jacobian \X Jacobian :
        /\ MulLoop[k][s] \in Jacobian
        /\ MulLoop[k][s] =
              IF k = 0
              THEN s[1]
              ELSE MulLoop[k \div 2][<<IF k % 2 = 1 THEN JAdd(s[1], s[2]) ELSE s[1],
                                      JDouble(s[2])>>]
    <1> DEFINE D == Jacobian \X Jacobian
               S == [D -> Jacobian]
               a == [s \in D |-> s[1]]
               next(k, s) == <<IF k % 2 = 1 THEN JAdd(s[1], s[2]) ELSE s[1], JDouble(s[2])>>
               st == [k \in Nat |-> [f \in S |-> [s \in D |-> f[next(k, s)]]]]
    <1>1. \A k \in Nat, s \in D : next(k, s) \in D
        BY JTypes
    <1>2. a \in S /\ st \in [Nat -> [S -> S]]
        <2>1. a \in S
            OBVIOUS
        <2>2. ASSUME NEW k \in Nat, NEW f \in S
              PROVE  [s \in D |-> f[next(k, s)]] \in S
            <3> HIDE DEF next, D
            <3> QED
                BY <1>1
        <2> HIDE DEF S, D, next
        <2> QED
            BY <2>1, <2>2 DEF S
    <1>3. PICK g \in [Nat -> S] : g[0] = a /\ \A k \in Nat \ {0} : g[k] = st[k][g[k \div 2]]
        <2> HIDE DEF S, a, st
        <2>1. Halving(S, a, st)
            BY <1>2, HalvingExists
        <2> QED
            BY <2>1 DEF Halving
    <1>4. \A k \in Nat : k \div 2 \in Nat
        OBVIOUS
    <1>5. g = [k \in Nat |-> [s \in D |-> IF k = 0 THEN s[1] ELSE g[k \div 2][next(k, s)]]]
        <2> SUFFICES ASSUME NEW k \in Nat
                     PROVE  g[k] = [s \in D |-> IF k = 0 THEN s[1] ELSE g[k \div 2][next(k, s)]]
            <3> HIDE DEF S, D, next
            <3> QED
                BY <1>3
        <2>1. CASE k = 0
            BY <1>3, <2>1
        <2>2. CASE k # 0
            <3>1. g[k] = st[k][g[k \div 2]] /\ g[k \div 2] \in S
                BY <1>3, <1>4, <2>2
            <3>2. st[k][g[k \div 2]] = [s \in D |-> g[k \div 2][next(k, s)]]
                <4> HIDE DEF S, D, next
                <4> QED
                    BY <3>1
            <3> HIDE DEF S, D, next, st
            <3> QED
                BY <2>2, <3>1, <3>2
        <2> QED
            BY <2>1, <2>2
    <1>6. MulLoop = [k \in Nat |-> [s \in D |->
              IF k = 0 THEN s[1] ELSE MulLoop[k \div 2][next(k, s)]]]
        BY <1>5 DEF MulLoop
    <1> HIDE DEF MulLoop
    <1>7. \A k \in Nat : \A s \in D :
              MulLoop[k][s] = IF k = 0 THEN s[1] ELSE MulLoop[k \div 2][next(k, s)]
        <2> SUFFICES ASSUME NEW k \in Nat, NEW s \in D
                     PROVE  MulLoop[k][s] = IF k = 0 THEN s[1] ELSE MulLoop[k \div 2][next(k, s)]
            OBVIOUS
        <2> HIDE DEF next, D
        <2> DEFINE F == [j \in Nat |-> [t \in D |->
                            IF j = 0 THEN t[1] ELSE MulLoop[j \div 2][next(j, t)]]]
        <2>1. MulLoop = F
            BY <1>6
        <2>2. F[k][s] = IF k = 0 THEN s[1] ELSE MulLoop[k \div 2][next(k, s)]
            OBVIOUS
        <2> HIDE DEF F
        <2> QED
            BY <2>1, <2>2
    <1>8. \A k \in Nat : \A s \in D : MulLoop[k][s] \in Jacobian
        <2> DEFINE T == {m \in Nat : \A k \in 0..m : \A s \in D : MulLoop[k][s] \in Jacobian}
        <2>1. 0 \in T
            <3>1. ASSUME NEW k \in 0..0, NEW s \in D PROVE MulLoop[k][s] \in Jacobian
                <4>1. k = 0 /\ s[1] \in Jacobian
                    OBVIOUS
                <4> HIDE DEF D
                <4>2. MulLoop[0][s] = s[1]
                    BY <1>7
                <4> QED
                    BY <4>1, <4>2
            <3> QED
                BY <3>1
        <2>2. ASSUME NEW m \in Nat, m \in T
              PROVE  m + 1 \in T
            <3> SUFFICES ASSUME NEW k \in 0..(m + 1), NEW s \in D
                         PROVE  MulLoop[k][s] \in Jacobian
                OBVIOUS
            <3>1. CASE k <= m
                BY <2>2, <3>1
            <3>2. CASE k = m + 1
                <4>1. k \in Nat /\ k # 0 /\ k \div 2 \in 0..m
                    BY <3>2
                <4>2. next(k, s) \in D
                    BY <1>1, <4>1
                <4> HIDE DEF next, D
                <4> QED
                    BY <1>7, <2>2, <4>1, <4>2
            <3> QED
                BY <3>1, <3>2
        <2>3. Nat \subseteq T
            <3> HIDE DEF T
            <3> QED
                BY <2>1, <2>2, NatInduct
        <2>4. \A k \in Nat : k \in 0..k
            OBVIOUS
        <2> HIDE DEF D
        <2> QED
            BY <2>3, <2>4
    <1> QED
        BY <1>7, <1>8

\* The double-and-add loop of _jmul.
LEMMA MulLoopE ==
    ASSUME NEW k \in Nat, NEW J1 \in Jacobian, NEW J2 \in Jacobian, NEW a \in Int, NEW b \in Int,
           ToAffine(J1) = E(a), ToAffine(J2) = E(b)
    PROVE  ToAffine(MulLoop[k][<<J1, J2>>]) = E(a + k * b)
    <1> DEFINE Right(j) == \A K1, K2 \in Jacobian : \A c, d \in Int :
                   ToAffine(K1) = E(c) /\ ToAffine(K2) = E(d)
                   => ToAffine(MulLoop[j][<<K1, K2>>]) = E(c + j * d)
               T == {m \in Nat : \A j \in 0..m : Right(j)}
    <1>1. Right(0)
        <2> SUFFICES ASSUME NEW K1 \in Jacobian, NEW K2 \in Jacobian, NEW c \in Int, NEW d \in Int,
                            ToAffine(K1) = E(c)
                     PROVE  ToAffine(MulLoop[0][<<K1, K2>>]) = E(c + 0 * d)
            OBVIOUS
        <2>1. c + 0 * d = c
            OBVIOUS
        <2>2. <<K1, K2>> \in Jacobian \X Jacobian /\ <<K1, K2>>[1] = K1
            OBVIOUS
        <2>3. MulLoop[0][<<K1, K2>>] = K1
            BY <2>2, MulLoopDef
        <2> QED
            BY <2>1, <2>3
    <1>2. ASSUME NEW m \in Nat, m \in T
          PROVE  Right(m + 1)
        <2> DEFINE j == m + 1
                   h == j \div 2
        <2>1. j \in Nat /\ j # 0 /\ h \in 0..m /\ h \in Int
            OBVIOUS
        <2>2. Right(h)
            BY <1>2, <2>1
        <2>3. j % 2 \in {0, 1} /\ j = 2 * h + (j % 2)
            BY <2>1
        <2> HIDE DEF j, h
        <2> SUFFICES ASSUME NEW K1 \in Jacobian, NEW K2 \in Jacobian, NEW c \in Int, NEW d \in Int,
                            ToAffine(K1) = E(c), ToAffine(K2) = E(d)
                     PROVE  ToAffine(MulLoop[j][<<K1, K2>>]) = E(c + j * d)
            BY DEF j
        <2> DEFINE s == <<K1, K2>>
                   A == IF j % 2 = 1 THEN JAdd(K1, K2) ELSE K1
                   D == JDouble(K2)
                   e == IF j % 2 = 1 THEN c + d ELSE c
        <2>4. s \in Jacobian \X Jacobian /\ s[1] = K1 /\ s[2] = K2
            OBVIOUS
        <2>5. MulLoop[j][s] = MulLoop[h][<<A, D>>]
            BY <2>1, <2>4, MulLoopDef DEF h
        <2>6. A \in Jacobian /\ D \in Jacobian
            BY JTypes
        <2>7. E(c) \in Points /\ E(d) \in Points
            BY EPoint
        <2>8. ToAffine(D) = E(d + d)
            BY <2>7, JDoubleIsLaw, EAdd
        <2>9. ToAffine(A) = E(e)
            <3>1. ToAffine(JAdd(K1, K2)) = E(c + d)
                BY <2>7, JAddIsLaw, EAdd
            <3> QED
                BY <3>1
        <2>10. e \in Int /\ d + d \in Int
            OBVIOUS
        <2>11. e + h * (d + d) = c + j * d
            <3>1. CASE j % 2 = 1
                <4>1. j = 2 * h + 1
                    BY <2>3, <3>1
                <4> QED
                    BY <2>1, <3>1, <4>1
            <3>2. CASE j % 2 = 0
                <4>1. j = 2 * h
                    BY <2>1, <2>3, <3>2
                <4> QED
                    BY <2>1, <3>2, <4>1
            <3> QED
                BY <2>3, <3>1, <3>2
        <2> HIDE DEF A, D, e, s
        <2>12. ToAffine(MulLoop[h][<<A, D>>]) = E(e + h * (d + d))
            BY <2>2, <2>6, <2>8, <2>9, <2>10
        <2> QED
            BY <2>5, <2>11, <2>12 DEF s
    <1>3. Nat \subseteq T
        <2>1. 0 \in T
            BY <1>1
        <2>2. ASSUME NEW m \in Nat, m \in T
              PROVE  m + 1 \in T
            <3>1. ASSUME NEW j \in 0..(m + 1) PROVE Right(j)
                <4>1. CASE j <= m
                    BY <2>2, <4>1
                <4>2. CASE j = m + 1
                    BY <1>2, <2>2, <4>2
                <4> QED
                    BY <4>1, <4>2
            <3> HIDE DEF Right
            <3> QED
                BY <3>1
        <2> HIDE DEF T
        <2> QED
            BY <2>1, <2>2, NatInduct
    <1>4. k \in 0..k
        OBVIOUS
    <1>5. Right(k)
        <2> HIDE DEF Right
        <2> QED
            BY <1>3, <1>4
    <1> QED
        BY <1>5

\* _jmul.
LEMMA JMulE ==
    ASSUME NEW k \in Nat, NEW a \in Int
    PROVE  /\ JMul(ToJac(E(a)), k) \in Jacobian
           /\ ToAffine(JMul(ToJac(E(a)), k)) = E(k * a)
    <1>1. ToJac(E(a)) \in Jacobian /\ ToAffine(ToJac(E(a))) = E(a)
        BY EPoint, ToJacCorrect
    <1>2. JID \in Jacobian /\ ToAffine(JID) = E(0)
        BY JTypes, EZero DEF ToAffine, JID
    <1>3. ToAffine(MulLoop[k][<<JID, ToJac(E(a))>>]) = E(0 + k * a)
        BY <1>1, <1>2, MulLoopE
    <1>4. 0 + k * a = k * a
        OBVIOUS
    <1>5. MulLoop[k][<<JID, ToJac(E(a))>>] \in Jacobian
        BY <1>1, <1>2, MulLoopDef
    <1> QED
        BY <1>3, <1>4, <1>5 DEF JMul

\* Point.__mul__ multiplies: the double-and-add loop of _jmul gives k times a
\* point, for every integer k, the negative ones and those beyond N included.
THEOREM MulE ==
    ASSUME NEW k \in Int, NEW a \in Int
    PROVE  Mul(k, E(a)) = E(k * a)
    <1> DEFINE r == k % N
    <1>1. r \in Scalars /\ Cong(N, r, k) /\ r \in Int
        BY ModN
    <1>2. Mul(k, E(a)) = Multiples[r][E(a)]
        BY EPoint, ModPoint DEF Mul
    <1> HIDE DEF r
    <1>3. r \in Nat /\ E(a) \in Points
        BY <1>1, ScalarFacts, EPoint
    <1>4. Multiples[r][E(a)] = ToAffine(JMul(ToJac(E(a)), r))
        BY <1>1, <1>3 DEF Multiples
    <1>5. Multiples[r][E(a)] = E(r * a)
        BY <1>3, <1>4, JMulE
    <1>6. Cong(N, r * a, k * a)
        BY <1>1, NFacts, CongMul, CongRefl
    <1>7. E(r * a) = E(k * a)
        BY <1>1, <1>6, EOf
    <1> QED
        BY <1>2, <1>5, <1>7

-----------------------------------------------------------------------------
(* Compressed points *)

\* pow(a, (P + 1) // 4, P) is an element of the field.
LEMMA RootType ==
    ASSUME NEW a \in Field
    PROVE  Root(a) \in Field
    <1> DEFINE n == (P + 1) \div 4
               S == [Field -> Field]
               one == [x \in Field |-> 1]
               st == [k \in 1..n |-> [f \in S |-> [x \in Field |-> (x * f[x]) % P]]]
    <1>1. n \in Nat
        BY PFacts
    <1>2. one \in S /\ st \in [1..n -> [S -> S]]
        <2>1. one \in S
            BY FieldFacts
        <2>2. ASSUME NEW f \in S, NEW x \in Field
              PROVE  (x * f[x]) % P \in Field
            <3> DEFINE t == x * f[x]
            <3>1. x \in Int /\ f[x] \in Int
                BY FieldFacts
            <3>2. t \in Int
                BY <3>1
            <3> HIDE DEF t
            <3>3. t % P \in Field
                BY <3>2, ModP
            <3> QED
                BY <3>3 DEF t
        <2> HIDE DEF n
        <2> QED
            BY <2>1, <2>2
    <1>3. PICK g \in [0..n -> S] : g[0] = one /\ \A k \in 1..n : g[k] = st[k][g[k - 1]]
        <2> HIDE DEF S, one, st, n
        <2>1. Recursion(n, S, one, st)
            BY <1>1, <1>2, RecursionExists
        <2> QED
            BY <2>1 DEF Recursion
    <1>4. g = [k \in 0..n |-> [x \in Field |-> IF k = 0 THEN 1 ELSE (x * g[k - 1][x]) % P]]
        <2> HIDE DEF n
        <2> SUFFICES ASSUME NEW k \in 0..n
                     PROVE  g[k] = [x \in Field |-> IF k = 0 THEN 1 ELSE (x * g[k - 1][x]) % P]
            BY <1>3
        <2>1. CASE k = 0
            BY <1>3, <2>1
        <2>2. CASE k # 0
            <3>1. k \in 1..n /\ k - 1 \in 0..n
                BY <1>1, <2>2
            <3>2. g[k] = st[k][g[k - 1]] /\ g[k - 1] \in S
                BY <1>3, <3>1
            <3>3. st[k][g[k - 1]] = [x \in Field |-> (x * g[k - 1][x]) % P]
                BY <3>1, <3>2
            <3> QED
                BY <2>2, <3>2, <3>3
        <2> QED
            BY <2>1, <2>2
    <1>5. Power = [k \in 0..n |-> [x \in Field |->
                      IF k = 0 THEN 1 ELSE (x * Power[k - 1][x]) % P]]
        BY <1>4 DEF Power
    <1>6. \A k \in 0..n : \A x \in Field : Power[k][x] \in Field
        <2> HIDE DEF Power, n
        <2> DEFINE F == [k \in 0..n |-> [x \in Field |->
                            IF k = 0 THEN 1 ELSE (x * Power[k - 1][x]) % P]]
                   T == {k \in 0..n : \A x \in Field : Power[k][x] \in Field}
        <2>1. Power = F
            BY <1>5
        <2>2. \A k \in 0..n, x \in Field : F[k][x] = IF k = 0 THEN 1 ELSE (x * Power[k - 1][x]) % P
            OBVIOUS
        <2> HIDE DEF F
        <2>3. 0 \in T
            BY <1>1, <2>1, <2>2, FieldFacts
        <2>4. ASSUME NEW k \in 0..n, k < n, k \in T
              PROVE  k + 1 \in T
            <3> SUFFICES ASSUME NEW x \in Field PROVE Power[k + 1][x] \in Field
                BY <1>1, <2>4
            <3>1. k + 1 \in 0..n /\ k + 1 # 0 /\ (k + 1) - 1 = k
                BY <1>1, <2>4
            <3> DEFINE t == x * Power[k][x]
            <3>2. x \in Int /\ Power[k][x] \in Int
                BY <2>4, FieldFacts
            <3>3. t \in Int
                BY <3>2
            <3>4. Power[k + 1][x] = t % P
                BY <2>1, <2>2, <3>1
            <3> HIDE DEF t
            <3> QED
                BY <3>3, <3>4, ModP
        <2>5. 0..n \subseteq T
            <3> HIDE DEF T
            <3> QED
                BY <1>1, <2>3, <2>4, UpTo
        <2> QED
            BY <2>5
    <1>7. n \in 0..n
        BY <1>1
    <1> HIDE DEF Power
    <1> QED
        BY <1>6, <1>7 DEF Root

LEMMA YSquaredType ==
    ASSUME NEW x \in Int
    PROVE  YSquared(x) \in Field
    <1> DEFINE t == x * x * x + B
    <1>1. t \in Int
        BY CurveAssumption
    <1>2. YSquared(x) = t % P
        BY DEF YSquared
    <1> HIDE DEF t
    <1> QED
        BY <1>1, <1>2, ModP

\* What is lifted from an abscissa on the curve is a point, whatever the parity
\* asked for, unless the ordinate is zero.
LEMMA LiftPoint ==
    ASSUME NEW x \in Field, OnCurve(x)
    PROVE  Lift(x, 0) \in Points \ {IDENTITY}
    <1> DEFINE y == Root(YSquared(x))
    <1>1. x \in Int
        BY FieldFacts
    <1>2. y \in Field
        BY <1>1, YSquaredType, RootType
    <1>3. y \in Int /\ P \in Int
        <2> HIDE DEF y
        <2> QED
            BY <1>2, FieldFacts, PFacts
    <1>4. (y * y) % P = YSquared(x)
        BY DEF OnCurve
    <1>5. Lift(x, 0) = IF y % 2 = 0 THEN <<x, y>> ELSE <<x, P - y>>
        BY DEF Lift
    <1> HIDE DEF y
    <1>6. CASE y % 2 = 0
        BY <1>2, <1>4, <1>5, <1>6 DEF Points, IDENTITY
    <1>7. CASE y % 2 # 0
        <2> DEFINE n == P - y
        <2>1. y # 0
            BY <1>3, <1>7
        <2>2. n \in Field /\ n \in Int
            BY <1>2, <2>1, PFacts DEF Field
        <2>3. n = 0 - y + P
            BY <1>3
        <2> HIDE DEF n
        <2> DEFINE s0 == y * y
                   s1 == n * n
        <2>4. s0 \in Int /\ s1 \in Int
            BY <1>3, <2>2
        <2>5. s1 = s0 + (P - 2 * y) * P /\ P - 2 * y \in Int
            BY <1>3, <2>2, <2>3
        <2> HIDE DEF s0, s1
        <2>6. s1 % P = s0 % P
            <3>1. Cong(P, s1, s0)
                BY <2>5 DEF Cong
            <3> QED
                BY <2>4, <3>1, CongP
        <2>7. (n * n) % P = YSquared(x)
            BY <1>4, <2>6 DEF s0, s1
        <2>8. Lift(x, 0) = <<x, n>>
            BY <1>5, <1>7 DEF n
        <2> QED
            BY <2>2, <2>7, <2>8 DEF Points, IDENTITY
    <1> QED
        BY <1>6, <1>7

\* What _de_point and _load_pub lift a compressed point to is that point: the
\* abscissa and the parity of the ordinate give it back.
THEOREM LiftOfCompressed ==
    ASSUME NEW p \in Points, p # IDENTITY
    PROVE  /\ OnCurve(p[1])
           /\ Lift(p[1], p[2] % 2) = p
    <1>1. PICK x \in Field, y \in Field : p = <<x, y>> /\ (y * y) % P = YSquared(x)
        BY Finite
    <1> DEFINE r == Root(YSquared(x))
    <1>2. r \in {y, (P - y) % P}
        BY <1>1, RootAssumption
    <1>3. x \in Int /\ y \in Int /\ P \in Int /\ y \in 0..(P - 1)
        BY FieldFacts, PFacts DEF Field
    <1>4. OnCurve(x) <=> (r * r) % P = YSquared(x)
        BY DEF OnCurve
    <1>5. Lift(x, y % 2) = IF r % 2 = y % 2 THEN <<x, r>> ELSE <<x, P - r>>
        BY DEF Lift
    <1> HIDE DEF r
    <1>6. CASE r = y
        BY <1>1, <1>4, <1>5, <1>6
    <1>7. CASE r # y
        <2>1. y # 0
            <3>1. (P - 0) % P = 0
                BY PFacts
            <3> QED
                BY <1>2, <1>7, <3>1
        <2>2. r = P - y
            <3>1. (P - y) % P = P - y
                BY <1>3, <2>1, PFacts
            <3> QED
                BY <1>2, <1>7, <3>1
        <2>3. r % 2 # y % 2
            BY <1>3, <2>2, PFacts
        <2>4. P - r = y
            BY <1>3, <2>2
        <2>5. Lift(x, y % 2) = <<x, y>>
            BY <1>5, <2>3, <2>4
        <2> DEFINE s0 == y * y
                   s1 == r * r
        <2>6. s0 \in Int /\ s1 \in Int
            BY <1>3, <2>2
        <2>7. s1 = s0 + (P - 2 * y) * P /\ P - 2 * y \in Int
            BY <1>3, <2>2
        <2> HIDE DEF s0, s1
        <2>8. s1 % P = s0 % P
            <3>1. Cong(P, s1, s0)
                BY <2>7 DEF Cong
            <3> QED
                BY <2>6, <3>1, CongP
        <2> QED
            BY <1>1, <1>4, <2>5, <2>8 DEF s0, s1
    <1> QED
        BY <1>6, <1>7

-----------------------------------------------------------------------------
(* Sums of multiples *)

\* S[i] is the sum of the first i of w[k] * x[k].
Accumulates(S, n, x, w) ==
    /\ S \in [0..n -> Int]
    /\ S[0] = 0
    /\ \A i \in 1..n : S[i] = S[i - 1] + w[i] * x[i]

\* The points are x[1] times the generator, x[2] times the generator, ...
AreMultiples(points, n, x) == Len(points) = n /\ \A i \in 1..n : points[i] = E(x[i])

\* multi_scalar_weighted sums: of points that are x[i] times the generator it
\* gives Sum_i w[i] * x[i] times the generator, for any number of points.
THEOREM MultiScalarE ==
    ASSUME NEW n \in Nat, NEW x \in [1..n -> Int], NEW w \in [1..n -> Int], NEW S,
           Accumulates(S, n, x, w),
           NEW points, AreMultiples(points, n, x)
    PROVE  MultiScalarWeighted(points, w) = E(S[n])
    <1> DEFINE term(i) == JMul(ToJac(Mod(points[i])), w[i] % N)
               st == [i \in 1..n |-> [J \in Jacobian |-> JAdd(J, term(i))]]
    <1>1. ASSUME NEW i \in 1..n
          PROVE  term(i) \in Jacobian /\ ToAffine(term(i)) = E(w[i] * x[i])
        <2> DEFINE r == w[i] % N
                   k == w[i]
                   a == x[i]
        <2>1. k \in Int /\ a \in Int
            OBVIOUS
        <2>2. points[i] = E(a)
            BY DEF AreMultiples
        <2> HIDE DEF k, a
        <2>3. k % N \in Scalars /\ Cong(N, k % N, k) /\ k % N \in Int
            BY <2>1, ModN
        <2>4. r = k % N
            BY DEF k
        <2> HIDE DEF r
        <2>5. r \in Nat /\ Cong(N, r, k) /\ r \in Int
            BY <2>3, <2>4, ScalarFacts
        <2>6. JMul(ToJac(E(a)), r) \in Jacobian /\ ToAffine(JMul(ToJac(E(a)), r)) = E(r * a)
            BY <2>1, <2>5, JMulE
        <2>7. Cong(N, r * a, k * a)
            BY <2>1, <2>5, NFacts, CongMul, CongRefl
        <2>8. E(r * a) = E(k * a)
            BY <2>1, <2>5, <2>7, EOf
        <2>9. term(i) = JMul(ToJac(E(a)), r)
            BY <2>1, <2>2, <2>4, EPoint, ModPoint DEF k
        <2> QED
            BY <2>6, <2>8, <2>9 DEF k, a
    <1> HIDE DEF term
    <1>2. JID \in Jacobian /\ st \in [1..n -> [Jacobian -> Jacobian]]
        BY <1>1, JTypes
    <1>3. PICK g \in [0..n -> Jacobian] : g[0] = JID /\ \A i \in 1..n : g[i] = st[i][g[i - 1]]
        <2> HIDE DEF st
        <2>1. Recursion(n, Jacobian, JID, st)
            BY <1>2, RecursionExists
        <2> QED
            BY <2>1 DEF Recursion
    <1>4. ASSUME NEW i \in 1..n
          PROVE  g[i - 1] \in Jacobian /\ g[i] = JAdd(g[i - 1], term(i))
        <2>1. i - 1 \in 0..n
            OBVIOUS
        <2>2. g[i - 1] \in Jacobian
            BY <1>3, <2>1
        <2>3. st[i][g[i - 1]] = JAdd(g[i - 1], term(i))
            BY <2>2
        <2> HIDE DEF st
        <2> QED
            BY <1>3, <2>2, <2>3
    <1> DEFINE acc[i \in 0..n] == IF i = 0 THEN JID ELSE JAdd(acc[i - 1], term(i))
    <1>5. g = [i \in 0..n |-> IF i = 0 THEN JID ELSE JAdd(g[i - 1], term(i))]
        <2> SUFFICES ASSUME NEW i \in 0..n
                     PROVE  g[i] = IF i = 0 THEN JID ELSE JAdd(g[i - 1], term(i))
            BY <1>3
        <2>1. CASE i = 0
            BY <1>3, <2>1
        <2>2. CASE i # 0
            <3>1. i \in 1..n
                BY <2>2
            <3> QED
                BY <1>4, <2>2, <3>1
        <2> QED
            BY <2>1, <2>2
    <1>6. acc = [i \in 0..n |-> IF i = 0 THEN JID ELSE JAdd(acc[i - 1], term(i))]
        BY <1>5
    <1>7. MultiScalarWeighted(points, w) = ToAffine(acc[n])
        BY DEF AreMultiples, MultiScalarWeighted, term
    <1> HIDE DEF acc
    <1> DEFINE T == {i \in 0..n : acc[i] \in Jacobian /\ ToAffine(acc[i]) = E(S[i])}
    <1>8. 0 \in T
        <2>1. acc[0] = JID /\ S[0] = 0
            BY <1>6 DEF Accumulates
        <2>2. JID \in Jacobian /\ ToAffine(JID) = E(0)
            BY JTypes, EZero DEF ToAffine, JID
        <2> QED
            BY <2>1, <2>2
    <1>9. ASSUME NEW i \in 0..n, i < n, i \in T
          PROVE  i + 1 \in T
        <2> DEFINE j == i + 1
                   t == w[j] * x[j]
        <2>1. j \in 1..n /\ j \in 0..n /\ j # 0 /\ j - 1 = i
            BY <1>9
        <2> HIDE DEF j
        <2>2. acc[j] = JAdd(acc[i], term(j))
            BY <1>6, <2>1
        <2>3. S[j] = S[i] + t /\ S[i] \in Int /\ t \in Int
            BY <2>1 DEF Accumulates
        <2>4. term(j) \in Jacobian /\ ToAffine(term(j)) = E(t)
            BY <1>1, <2>1
        <2> HIDE DEF t
        <2>5. acc[i] \in Jacobian /\ ToAffine(acc[i]) = E(S[i])
            BY <1>9
        <2>6. E(S[i]) \in Points /\ E(t) \in Points
            BY <2>3, EPoint
        <2>7. ToAffine(acc[j]) = GroupSum(E(S[i]), E(t))
            BY <2>2, <2>4, <2>5, <2>6, JAddIsLaw
        <2>8. ToAffine(acc[j]) = E(S[j])
            BY <2>3, <2>7, EAdd
        <2>9. acc[j] \in Jacobian
            BY <2>2, <2>4, <2>5, JTypes
        <2> QED
            BY <2>1, <2>8, <2>9 DEF j
    <1>10. 0..n \subseteq T
        <2> HIDE DEF T
        <2> QED
            BY <1>8, <1>9, UpTo
    <1> QED
        BY <1>7, <1>10
================================================================================
