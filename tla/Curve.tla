--------------------------------- MODULE Curve ---------------------------------
(***************************************************************************)
(* The group of python/zkgw/curve.py: y^2 = x^3 + B over the integers      *)
(* modulo P, in Jacobian coordinates, with scalars modulo the group order  *)
(* N.  The parameters of secp256k1 are out of reach; the operators are the *)
(* code's for any curve of its shape (a = 0, prime order, P % 4 = 3).      *)
(***************************************************************************)
EXTENDS Integers, Sequences

CONSTANTS
    P,        \* the prime of the field
    B,        \* the constant of the curve
    N,        \* the order of the group
    G         \* its generator, as <<x, y>>

Field == 0..(P - 1)
Scalars == 0..(N - 1)

IDENTITY == <<>>                       \* Point(None, None)

YSquared(x) == (x * x * x + B) % P

\* The affine points: what a Point of the program can be.
Points ==
    {IDENTITY} \cup {pt \in Field \X Field : (pt[2] * pt[2]) % P = YSquared(pt[1])}

ASSUME CurveAssumption ==
    /\ P \in Nat /\ N \in Nat /\ B \in Nat
    /\ P % 4 = 3
    /\ N > 1
    /\ \A a \in 2..(P - 1) : P % a # 0
    /\ \A a \in 2..(N - 1) : N % a # 0
    /\ G \in Points \ {IDENTITY}

-----------------------------------------------------------------------------
(* Jacobian coordinates: <<X, Y, Z>> stands for x = X/Z^2, y = Y/Z^3 *)

Jacobian == Field \X Field \X Field

JID == <<0, 1, 0>>

ToJac(pt) == IF pt = IDENTITY THEN JID ELSE <<pt[1], pt[2], 1>>

\* pow(z, -1, P)
ModInverse(z) == CHOOSE i \in Field : (z * i) % P = 1

ToAffine(J) ==
    IF J[3] = 0
    THEN IDENTITY
    ELSE LET zi == ModInverse(J[3])
             zi2 == (zi * zi) % P
         IN <<(J[1] * zi2) % P, (J[2] * zi2 * zi) % P>>

JDouble(J) ==
    LET X == J[1]  Y == J[2]  Z == J[3]
        S == (4 * X * Y * Y) % P
        M == (3 * X * X) % P
        X2 == (M * M - 2 * S) % P
        Y2 == (M * (S - X2) - 8 * Y * Y * Y * Y) % P
    IN IF Z = 0 \/ Y = 0 THEN JID ELSE <<X2, Y2, (2 * Y * Z) % P>>

\* Both points finite and of different x.
JChord(J1, J2) ==
    LET Z1Z1 == (J1[3] * J1[3]) % P
        Z2Z2 == (J2[3] * J2[3]) % P
        U1 == (J1[1] * Z2Z2) % P
        S1 == (J1[2] * J2[3] * Z2Z2) % P
        H == (J2[1] * Z1Z1 - U1) % P
        R == (J2[2] * J1[3] * Z1Z1 - S1) % P
        H3 == (H * H * H) % P
        U1H2 == (U1 * H * H) % P
        X3 == (R * R - H3 - 2 * U1H2) % P
    IN <<X3, (R * (U1H2 - X3) - S1 * H3) % P, (H * J1[3] * J2[3]) % P>>

SameX(J1, J2) ==
    (J1[1] * J2[3] * J2[3]) % P = (J2[1] * J1[3] * J1[3]) % P

SameY(J1, J2) ==
    (J1[2] * J2[3] * J2[3] * J2[3]) % P = (J2[2] * J1[3] * J1[3] * J1[3]) % P

\* Slip: the equal points not told from the opposite ones.
JAddWithoutDoubling(J1, J2) ==
    CASE J1[3] = 0 -> J2
      [] J1[3] # 0 /\ J2[3] = 0 -> J1
      [] J1[3] # 0 /\ J2[3] # 0 /\ SameX(J1, J2) -> JID
      [] OTHER -> JChord(J1, J2)

JAdd(J1, J2) ==
    CASE J1[3] = 0 -> J2
      [] J1[3] # 0 /\ J2[3] = 0 -> J1
      [] J1[3] # 0 /\ J2[3] # 0 /\ SameX(J1, J2) ->
            IF SameY(J1, J2) THEN JDouble(J1) ELSE JID
      [] OTHER -> JChord(J1, J2)

\* The loop of _jmul from <<acc, add>>, with k left: acc + k * add.
MulLoop[k \in Nat] ==
    [s \in Jacobian \X Jacobian |->
        IF k = 0
        THEN s[1]
        ELSE MulLoop[k \div 2][<<IF k % 2 = 1 THEN JAdd(s[1], s[2]) ELSE s[1],
                                JDouble(s[2])>>]]

JMul(J, k) == MulLoop[k][<<JID, J>>]

-----------------------------------------------------------------------------
(* Points *)

\* Both operations as tables, which TLC computes once.
Sums == [p \in Points |-> [q \in Points |-> ToAffine(JAdd(ToJac(p), ToJac(q)))]]
Multiples == [k \in Scalars |-> [p \in Points |-> ToAffine(JMul(ToJac(p), k))]]

\* An abscissa read from outside may be P or more: every formula reduces it.
Mod(pt) == IF pt = IDENTITY THEN pt ELSE <<pt[1] % P, pt[2] % P>>

Plus(p, q) == Sums[Mod(p)][Mod(q)]

Neg(p) == IF p = IDENTITY THEN p ELSE <<p[1], (-p[2]) % P>>

Minus(p, q) == Plus(p, Neg(q))

Mul(k, p) == Multiples[k % N][Mod(p)]

\* Sum_i weights[i] * points[i]
MultiScalarWeighted(points, weights) ==
    LET acc[i \in 0..Len(points)] ==
            IF i = 0
            THEN JID
            ELSE JAdd(acc[i - 1], JMul(ToJac(Mod(points[i])), weights[i] % N))
    IN ToAffine(acc[Len(points)])

\* pow(a, n, P)
Power[n \in 0..((P + 1) \div 4)] ==
    [a \in Field |-> IF n = 0 THEN 1 ELSE (a * Power[n - 1][a]) % P]

\* A square root of a if it has one.
Root(a) == Power[(P + 1) \div 4][a]

OnCurve(x) == (Root(YSquared(x)) * Root(YSquared(x))) % P = YSquared(x)

\* The point of abscissa x whose ordinate has the parity given, as _de_point
\* and _load_pub lift it.
Lift(x, parity) ==
    LET y == Root(YSquared(x))
    IN IF y % 2 = parity THEN <<x, y>> ELSE <<x, P - y>>

\* digests are the hashes of label with ctr = 0, 1, ..., reduced modulo P.
HashToCurve(digests) ==
    LET ctr == CHOOSE c \in 1..Len(digests) :
                   OnCurve(digests[c]) /\ \A k \in 1..(c - 1) : ~OnCurve(digests[k])
    IN Lift(digests[ctr], 0)

\* 33 bytes: a tag that holds the parity, and the abscissa.
Compress(pt) == IF pt = IDENTITY THEN <<0, 0>> ELSE <<2 + (pt[2] % 2), pt[1]>>

-----------------------------------------------------------------------------
(* The group law it is to compute: chord and tangent on affine points *)

Slope(p, q) ==
    IF p[1] = q[1]
    THEN (3 * p[1] * p[1] * ModInverse((2 * p[2]) % P)) % P
    ELSE ((q[2] - p[2]) * ModInverse((q[1] - p[1]) % P)) % P

GroupSum(p, q) ==
    CASE p = IDENTITY -> q
      [] p # IDENTITY /\ q = IDENTITY -> p
      [] p # IDENTITY /\ q # IDENTITY /\ p[1] = q[1] /\ (p[2] + q[2]) % P = 0 -> IDENTITY
      [] OTHER ->
            LET s == Slope(p, q)
                x == (s * s - p[1] - q[1]) % P
            IN <<x, (s * (p[1] - x) - p[2]) % P>>

\* k times p, by adding p to the multiple before.
GroupMultiples[k \in Scalars] ==
    [p \in Points |->
        IF k = 0 THEN IDENTITY ELSE GroupSum(GroupMultiples[k - 1][p], p)]

LawMultiples == [k \in Scalars |-> [p \in Points |-> GroupMultiples[k][p]]]

\* What is known of the parameters: the law stays among the points and is
\* associative, and the points are the multiples of the generator, of which
\* there are N.
ASSUME GroupAssumption ==
    /\ \A p, q \in Points : GroupSum(p, q) \in Points
    /\ \A p, q, r \in Points :
          GroupSum(GroupSum(p, q), r) = GroupSum(p, GroupSum(q, r))
    /\ Points = {LawMultiples[k][G] : k \in Scalars}
    /\ GroupSum(LawMultiples[N - 1][G], G) = IDENTITY

\* P being a prime with P % 4 = 3, Root finds a root of every square.
ASSUME RootAssumption ==
    \A y \in Field : Root((y * y) % P) \in {y, (P - y) % P}
=============================================================================
