---------------------------- MODULE CurveProofs ----------------------------
(***************************************************************************)
(* Lemmas about the arithmetic of the curve, for limbs of every width, any *)
(* number of them and every curve the assumptions of Curve25519 allow: the *)
(* reductions modulo L are exact; the points are a group under AffineAdd;  *)
(* the formulas in extended coordinates compute it; and the digits of the  *)
(* windows stand for the scalar.                                           *)
(***************************************************************************)
EXTENDS Ephemeral, Numbers

(* -------- the field -------- *)

\* The element of the field that an integer stands for.
Field == 0 .. (P - 1)
El(x) == x % P

LEMMA PrimeIs == P \in Nat /\ P \in Int /\ P \in Nat \ {0} /\ P > 5 /\ P % 8 = 5
BY FieldAssumption

LEMMA ElIs ==
  ASSUME NEW x \in Int
  PROVE  /\ El(x) \in Field /\ El(x) \in Int /\ El(El(x)) = El(x)
         /\ \E k \in Int : x = P * k + El(x)
<1>1. x % P \in 0 .. (P - 1) /\ x = P * (x \div P) + (x % P) /\ x \div P \in Int
  BY PrimeIs
<1>2. \A y \in 0 .. (P - 1) : y % P = y
  BY PrimeIs, Remainders
<1> DEFINE r == x % P
           q == x \div P
<1>3. r \in 0 .. (P - 1) /\ x = P * q + r /\ q \in Int /\ r % P = r
  BY <1>1, <1>2
<1> HIDE DEF r, q
<1>4. El(x) = r /\ El(r) = r
  BY <1>3 DEF El, r
<1>5. \E k \in Int : x = P * k + r
  BY <1>3, Zenon
<1>6. r \in Field /\ r \in Int
  BY <1>3, PrimeIs DEF Field
<1>7. QED
  BY <1>4, <1>5, <1>6, Zenon

LEMMA ElField == ASSUME NEW x \in Field PROVE x \in Int /\ x \in Nat /\ x < P /\ El(x) = x
BY PrimeIs, Remainders DEF El, Field

LEMMA ElMore == ASSUME NEW x \in Int, NEW k \in Int PROVE El(P * k + x) = El(x)
BY PrimeIs, Shifted DEF El

\* Equal elements have a difference that is a multiple of P.
LEMMA ElSame ==
  ASSUME NEW x \in Int, NEW y \in Int
  PROVE  El(x) = El(y) <=> El(x - y) = 0
<1>1. PICK k \in Int : x = P * k + El(x)
  BY ElIs
<1>2. PICK j \in Int : y = P * j + El(y)
  BY ElIs
<1> DEFINE r == El(x)
           s == El(y)
<1>3. r \in 0 .. (P - 1) /\ s \in 0 .. (P - 1) /\ P \in Int
  BY ElIs, PrimeIs DEF Field
<1>4. P * k - P * j = P * (k - j) /\ k - j \in Int /\ P * k \in Int /\ P * j \in Int
  BY <1>3
<1>5. x - y = P * (k - j) + (r - s)
  <2> DEFINE u == P * k
             v == P * j
  <2>1. x = u + r /\ y = v + s /\ u \in Int /\ v \in Int
    BY <1>1, <1>2, <1>4
  <2> HIDE DEF u, v, r, s
  <2>2. x - y = (u - v) + (r - s)
    BY <2>1, <1>3
  <2>3. QED
    BY <2>2, <1>4 DEF u, v
<1>6. El(x - y) = El(r - s)
  <2>1. r - s \in Int
    BY <1>3
  <2>2. El(P * (k - j) + (r - s)) = El(r - s)
    BY <2>1, <1>4, ElMore
  <2>3. QED
    BY <2>2, <1>5
<1> HIDE DEF r, s
<1>7. r = s => El(r - s) = 0
  <2>1. r - r = 0 /\ El(0) = 0
    BY <1>3, PrimeIs, Remainders DEF El
  <2>2. QED
    BY <2>1
<1>8. El(r - s) = 0 => r = s
  <2> SUFFICES ASSUME El(r - s) = 0 PROVE r = s
    OBVIOUS
  <2>1. PICK m \in Int : r - s = P * m + 0
    <3>1. r - s \in Int
      BY <1>3
    <3>2. QED
      BY <3>1, ElIs
  <2>2. m = 0
    <3>1. CASE m >= 1
      <4>1. P * m >= P
        BY <3>1, <1>3, PrimeIs
      <4>2. QED
        BY <4>1, <2>1, <1>3
    <3>2. CASE m <= -1
      <4>1. P * (-m) >= P /\ P * m = -(P * (-m)) /\ P * (-m) \in Int
        BY <3>2, <1>3, PrimeIs
      <4>2. QED
        BY <4>1, <2>1, <1>3
    <3>3. QED
      BY <3>1, <3>2
  <2>3. QED
    BY <2>1, <2>2, <1>3
<1>9. QED
  BY <1>6, <1>7, <1>8 DEF r, s

\* Elements may be replaced by equal ones.
LEMMA ElOps ==
  ASSUME NEW a \in Int, NEW b \in Int, NEW c \in Int, NEW e \in Int, El(a) = El(c), El(b) = El(e)
  PROVE  El(a + b) = El(c + e) /\ El(a - b) = El(c - e) /\ El(a * b) = El(c * e)
<1>1. PICK i \in Int : a = P * i + El(a)
  BY ElIs
<1>2. PICK j \in Int : b = P * j + El(b)
  BY ElIs
<1>3. PICK k \in Int : c = P * k + El(a)
  BY ElIs
<1>4. PICK l \in Int : e = P * l + El(b)
  BY ElIs
<1> DEFINE r == El(a)
           s == El(b)
<1>5. r \in Int /\ s \in Int /\ P \in Int
  BY ElIs, PrimeIs
<1>6. a = P * i + r /\ b = P * j + s /\ c = P * k + r /\ e = P * l + s
  BY <1>1, <1>2, <1>3, <1>4
<1> HIDE DEF r, s
<1>7. El(a + b) = El(r + s) /\ El(c + e) = El(r + s)
  <2>1. a + b = P * (i + j) + (r + s) /\ c + e = P * (k + l) + (r + s)
    BY <1>5, <1>6
  <2>2. i + j \in Int /\ k + l \in Int /\ r + s \in Int
    BY <1>5
  <2>3. QED
    BY <2>1, <2>2, ElMore
<1>8. El(a - b) = El(r - s) /\ El(c - e) = El(r - s)
  <2>1. a - b = P * (i - j) + (r - s) /\ c - e = P * (k - l) + (r - s)
    BY <1>5, <1>6
  <2>2. i - j \in Int /\ k - l \in Int /\ r - s \in Int
    BY <1>5
  <2>3. QED
    BY <2>1, <2>2, ElMore
<1>9. El(a * b) = El(r * s) /\ El(c * e) = El(r * s)
  <2>1. ASSUME NEW m \in Int, NEW n \in Int
        PROVE  El((P * m + r) * (P * n + s)) = El(r * s)
    <3>1. (P * m + r) * (P * n + s) = P * (m * (P * n) + m * s + r * n) + r * s
      BY <1>5
    <3>2. m * (P * n) + m * s + r * n \in Int /\ r * s \in Int
      BY <1>5
    <3>3. QED
      BY <3>1, <3>2, ElMore
  <2>2. QED
    BY <2>1, <1>6
<1>10. QED
  BY <1>7, <1>8, <1>9

LEMMA ElAdd ==
  ASSUME NEW a \in Int, NEW b \in Int, NEW c \in Int, NEW e \in Int, El(a) = El(c), El(b) = El(e)
  PROVE  El(a + b) = El(c + e)
BY ElOps

LEMMA ElSub ==
  ASSUME NEW a \in Int, NEW b \in Int, NEW c \in Int, NEW e \in Int, El(a) = El(c), El(b) = El(e)
  PROVE  El(a - b) = El(c - e)
BY ElOps

LEMMA ElMul ==
  ASSUME NEW a \in Int, NEW b \in Int, NEW c \in Int, NEW e \in Int, El(a) = El(c), El(b) = El(e)
  PROVE  El(a * b) = El(c * e)
BY ElOps

\* What the functions of the field return, whatever integers they are given.
LEMMA FeIs ==
  ASSUME NEW f \in Int, NEW g \in Int
  PROVE  /\ fe_add(f, g) = El(f + g) /\ fe_sub(f, g) = El(f - g) /\ fe_mul(f, g) = El(f * g)
         /\ fe_add(f, g) \in Field /\ fe_sub(f, g) \in Field /\ fe_mul(f, g) \in Field
<1>1. f + g \in Int /\ f - g \in Int /\ f * g \in Int
  OBVIOUS
<1>2. QED
  BY <1>1, ElIs DEF fe_add, fe_sub, fe_mul, El

LEMMA FeOne ==
  ASSUME NEW f \in Int
  PROVE  /\ fe_sq(f) = El(f * f) /\ fe_neg(f) = El(-f)
         /\ fe_sq(f) \in Field /\ fe_neg(f) \in Field
<1>1. f * f \in Int /\ -f \in Int
  OBVIOUS
<1>2. QED
  BY <1>1, ElIs DEF fe_mul, fe_sq, fe_neg, El

\* What is read from bytes, whose top bit is ignored.
LEMMA BytesRead ==
  ASSUME NEW s \in 0 .. (2 ^ FieldBits - 1)
  PROVE  /\ s \in Int /\ fe_frombytes(s) = El(s) /\ fe_frombytes(s) \in Field
         /\ fe_frombytes(s + 2 ^ FieldBits) = El(s)
<1> DEFINE m == 2 ^ FieldBits
<1>1. m \in Nat /\ s \in 0 .. (m - 1)
  BY EncodingAssumption
<1>2. fe_frombytes(s) = (s % m) % P /\ fe_frombytes(s + m) = ((s + m) % m) % P
  BY DEF fe_frombytes
<1> HIDE DEF m
<1>3. m > 0 /\ s \in Int /\ s % m = s /\ (s + m) % m = s
  BY <1>1
<1>4. fe_frombytes(s) = El(s) /\ fe_frombytes(s + m) = El(s)
  BY <1>2, <1>3 DEF El
<1> QED
  BY <1>3, <1>4, ElIs DEF m

LEMMA FieldRead ==
  ASSUME NEW u \in Field
  PROVE  u \in 0 .. (2 ^ FieldBits - 1) /\ fe_frombytes(u) = u
<1>1. u \in 0 .. (2 ^ FieldBits - 1)
  <2> DEFINE m == 2 ^ FieldBits
  <2>1. m \in Nat /\ P <= m
    BY EncodingAssumption
  <2> HIDE DEF m
  <2>2. u \in 0 .. (m - 1)
    BY <2>1, PrimeIs, ElField
  <2> QED
    BY <2>2 DEF m
<1> QED
  BY <1>1, BytesRead, ElField

\* Multiples of zero, and sums of them.
LEMMA ZeroTimes ==
  ASSUME NEW a \in Int, NEW c \in Int, El(a) = 0
  PROVE  El(c * a) = 0 /\ El(a * c) = 0
<1>1. El(0) = 0
  BY PrimeIs, Remainders DEF El
<1>2. El(c * a) = El(c * 0) /\ El(a * c) = El(0 * c)
  <2>1. 0 \in Int /\ El(a) = El(0) /\ El(c) = El(c)
    BY <1>1
  <2>2. El(a * c) = El(0 * c)
    BY ZenonT(60), <2>1, ElMul
  <2>3. c * a = a * c /\ c * 0 = 0 * c
    OBVIOUS
  <2>4. QED
    BY <2>2, <2>3
<1>3. c * 0 = 0 /\ 0 * c = 0
  OBVIOUS
<1>4. QED
  BY <1>1, <1>2, <1>3

LEMMA ZeroSum ==
  ASSUME NEW a \in Int, NEW b \in Int, NEW c \in Int, NEW e \in Int, El(a) = 0, El(b) = 0
  PROVE  El(c * a + e * b) = 0
<1>1. El(0) = 0
  BY PrimeIs, Remainders DEF El
<1>2. El(c * a) = El(0) /\ El(e * b) = El(0) /\ c * a \in Int /\ e * b \in Int
  BY <1>1, ZeroTimes
<1>3. El(c * a + e * b) = El(0 + 0)
  BY <1>2, ElAdd
<1>4. QED
  BY <1>1, <1>3

(* -------- powers -------- *)

Doublings(g, f) ==
  g = [k \in Nat |-> IF k = 0 THEN 1
                     ELSE LET half == g[k \div 2]
                          IN fe_mul(fe_sq(half), IF k % 2 = 1 THEN f ELSE 1)]

LEMMA PowerUnfold == ASSUME NEW f, NEW n PROVE Power(f, n) = (CHOOSE g : Doublings(g, f))[n]
BY Zenon DEF Power, Doublings

LEMMA OneIs == 1 \in Field /\ 0 \in Field /\ El(1) = 1 /\ El(0) = 0
<1>1. 1 \in Field /\ 0 \in Field
  BY PrimeIs DEF Field
<1>2. QED
  BY <1>1, ElField

LEMMA PowerIs ==
  ASSUME NEW f \in Int
  PROVE  /\ Power(f, 0) = 1 /\ \A n \in Nat : Power(f, n) \in Field
         /\ \A n \in Nat \ {0} :
              Power(f, n) = fe_mul(fe_sq(Power(f, n \div 2)), IF n % 2 = 1 THEN f ELSE 1)
<1> DEFINE next(k, s) == fe_mul(fe_sq(s), IF k % 2 = 1 THEN f ELSE 1)
           F == [k \in Nat \ {0} |-> [s \in Field |-> next(k, s)]]
           h == CHOOSE g : Doublings(g, f)
<1>1. ASSUME NEW k \in Nat \ {0}, NEW s \in Field
      PROVE  next(k, s) \in Field
  <2>1. s \in Int /\ fe_sq(s) \in Field
    BY ElField, FeOne
  <2>2. fe_sq(s) \in Int
    BY <2>1, ElField
  <2>3. (IF k % 2 = 1 THEN f ELSE 1) \in Int
    OBVIOUS
  <2>4. QED
    BY <2>2, <2>3, FeIs, Zenon
<1> HIDE DEF next
<1>2. HalvesIn(Field, F)
  BY <1>1 DEF HalvesIn
<1>3. PICK g : ByHalves(g, Field, 1, F)
  <2>1. 1 \in Field
    BY OneIs
  <2> HIDE DEF F
  <2>2. QED
    BY <1>2, <2>1, HalvingRecursion, Zenon
<1>4. \A n \in Nat \ {0} : n \div 2 \in Nat
  OBVIOUS
<1>5. \A n \in Nat \ {0} : g[n] = next(n, g[n \div 2])
  <2>1. \A n \in Nat \ {0} : g[n \div 2] \in Field
    BY <1>3, <1>4 DEF ByHalves
  <2>2. QED
    BY <1>3, <2>1 DEF ByHalves
<1> HIDE DEF F
<1>6. \A e : Doublings(e, f) <=> e = [k \in Nat |-> IF k = 0 THEN 1 ELSE next(k, e[k \div 2])]
  BY Zenon DEF Doublings, next
<1>7. g = [k \in Nat |-> IF k = 0 THEN 1 ELSE next(k, g[k \div 2])]
  BY <1>3, <1>5 DEF ByHalves
<1>8. Doublings(h, f)
  BY <1>6, <1>7, Zenon
<1> HIDE DEF h
<1>9. h = [k \in Nat |-> IF k = 0 THEN 1 ELSE next(k, h[k \div 2])]
  BY <1>6, <1>8, Zenon
<1>10. h[0] = 1 /\ \A n \in Nat \ {0} : h[n] = next(n, h[n \div 2])
  BY <1>9
<1>11. \A n : Power(f, n) = h[n]
  BY PowerUnfold DEF h
<1> DEFINE T == {n \in Nat : h[n] \in Field}
<1>12. \A n \in Nat : n \in T
  <2>1. ASSUME NEW n \in Nat, \A k \in 0 .. (n - 1) : k \in T
        PROVE  n \in T
    <3>1. CASE n = 0
      BY <1>10, <3>1, OneIs
    <3>2. CASE n # 0
      <4>1. n \in Nat \ {0} /\ n \div 2 \in 0 .. (n - 1)
        BY <3>2, Half
      <4>2. h[n \div 2] \in Field
        BY <2>1, <4>1
      <4>3. QED
        BY <1>1, <1>10, <4>1, <4>2
    <3>3. QED
      BY <3>1, <3>2
  <2> HIDE DEF T
  <2>2. QED
    BY <2>1, InductionBelow
<1>13. \A n \in Nat \ {0} : Power(f, n) = next(n, Power(f, n \div 2))
  BY <1>10, <1>11
<1>14. QED
  BY <1>10, <1>11, <1>12, <1>13 DEF next

\* An element may be reduced before it is used.
LEMMA ElIn ==
  ASSUME NEW a \in Int, NEW b \in Int
  PROVE  /\ El(El(a) * b) = El(a * b) /\ El(a * El(b)) = El(a * b)
         /\ El(El(a) + b) = El(a + b) /\ El(a + El(b)) = El(a + b)
         /\ El(El(a) - b) = El(a - b) /\ El(a - El(b)) = El(a - b)
         /\ El(El(a) * El(b)) = El(a * b) /\ El(El(a) + El(b)) = El(a + b)
         /\ El(El(a) - El(b)) = El(a - b)
<1> DEFINE r == El(a)
           s == El(b)
<1>1. r \in Int /\ El(r) = El(a) /\ s \in Int /\ El(s) = El(b)
  BY ElIs
<1> HIDE DEF r, s
<1>2. El(r * b) = El(a * b) /\ El(r + b) = El(a + b) /\ El(r - b) = El(a - b)
  BY <1>1, ElOps
<1>3. El(a * s) = El(a * b) /\ El(a + s) = El(a + b) /\ El(a - s) = El(a - b)
  BY <1>1, ElOps
<1>4. El(r * s) = El(a * b) /\ El(r + s) = El(a + b) /\ El(r - s) = El(a - b)
  BY <1>1, ElOps
<1>5. QED
  BY <1>2, <1>3, <1>4 DEF r, s

\* A factor may be replaced by one that stands for the same element.
LEMMA ElFactor ==
  ASSUME NEW a \in Int, NEW b \in Int, NEW c \in Int, El(a) = El(b)
  PROVE  El(a * c) = El(b * c) /\ El(c * a) = El(c * b)
<1>1. El(a * c) = El(b * c)
  BY ZenonT(60), ElOps
<1>2. a * c = c * a /\ b * c = c * b
  OBVIOUS
<1>3. QED
  BY <1>1, <1>2

LEMMA PowerTwice ==
  ASSUME NEW f \in Int, NEW m \in Nat
  PROVE  /\ Power(f, 2 * m) = El(Power(f, m) * Power(f, m))
         /\ Power(f, 2 * m + 1) = El((Power(f, m) * Power(f, m)) * f)
<1> DEFINE p == Power(f, m)
           q == p * p
<1>1. p \in Field /\ p \in Int
  BY PowerIs, ElField
<1>2. fe_sq(p) = El(q) /\ q \in Int /\ El(q) \in Int /\ El(El(q)) = El(q)
  <2>1. q \in Int
    BY <1>1
  <2>2. fe_sq(p) = El(q)
    BY <1>1, FeOne
  <2> HIDE DEF q
  <2>3. QED
    BY <2>1, <2>2, ElIs
<1>3. Power(f, 2 * m + 1) = El(q * f)
  <2>1. 2 * m + 1 \in Nat \ {0} /\ (2 * m + 1) \div 2 = m /\ (2 * m + 1) % 2 = 1
    BY Doubled
  <2>2. Power(f, 2 * m + 1) = fe_mul(fe_sq(p), f)
    BY <2>1, PowerIs
  <2> HIDE DEF q, p
  <2>3. fe_mul(El(q), f) = El(El(q) * f)
    BY <1>2, FeIs
  <2>4. El(El(q) * f) = El(q * f)
    BY <1>2, ElIn
  <2>5. QED
    BY <1>2, <2>2, <2>3, <2>4
<1>4. Power(f, 2 * m) = El(q)
  <2>1. CASE m = 0
    <3>1. 2 * m = 0 /\ p = 1
      BY <2>1, PowerIs
    <3>2. q = 1
      BY <3>1
    <3>3. QED
      BY <3>1, <3>2, OneIs
  <2>2. CASE m # 0
    <3>1. 2 * m \in Nat \ {0} /\ (2 * m) \div 2 = m /\ (2 * m) % 2 = 0
      BY <2>2, Doubled
    <3>2. Power(f, 2 * m) = fe_mul(fe_sq(p), 1)
      BY <3>1, PowerIs
    <3> HIDE DEF q, p
    <3>3. fe_mul(El(q), 1) = El(El(q) * 1)
      <4>1. 1 \in Int
        OBVIOUS
      <4>2. QED
        BY <1>2, <4>1, FeIs, Zenon
    <3>5. El(q) * 1 = El(q)
      BY <1>2
    <3>4. QED
      BY <1>2, <3>2, <3>3, <3>5
  <2>3. QED
    BY <2>1, <2>2
<1>5. QED
  BY <1>3, <1>4

LEMMA PowerNext ==
  ASSUME NEW f \in Int
  PROVE  \A n \in Nat : Power(f, n + 1) = El(f * Power(f, n))
<1> DEFINE p(n) == Power(f, n)
           T == {n \in Nat : p(n + 1) = El(f * p(n))}
<1>1. ASSUME NEW n \in Nat
      PROVE  p(n) \in Int /\ p(n) \in Field
  BY PowerIs, ElField
<1>2. ASSUME NEW m \in Nat
      PROVE  p(2 * m) = El(p(m) * p(m)) /\ p(2 * m + 1) = El((p(m) * p(m)) * f)
  BY PowerTwice
<1> HIDE DEF p
<1>3. ASSUME NEW n \in Nat, \A k \in 0 .. (n - 1) : k \in T
      PROVE  n \in T
  <2>1. PICK m \in Nat : n = 2 * m \/ n = 2 * m + 1
    BY EvenOrOdd
  <2> DEFINE u == p(m)
             v == p(m + 1)
  <2>2. u \in Int /\ v \in Int /\ m + 1 \in Nat
    BY <1>1
  <2>3. CASE n = 2 * m
    <3>1. p(n) = El(u * u) /\ p(n + 1) = El((u * u) * f)
      BY <1>2, <2>3
    <3>2. El(f * El(u * u)) = El(f * (u * u)) /\ f * (u * u) = (u * u) * f
      <4>1. u * u \in Int
        BY <2>2
      <4> HIDE DEF u
      <4>2. QED
        BY <2>2, <4>1, ElIn
    <3>3. QED
      BY <3>1, <3>2
  <2>4. CASE n = 2 * m + 1
    <3>1. n + 1 = 2 * (m + 1) /\ m \in 0 .. (n - 1)
      BY <2>4
    <3>2. p(n) = El((u * u) * f) /\ p(n + 1) = El(v * v)
      <4>1. p(2 * (m + 1)) = El(v * v)
        BY <1>2, <2>2
      <4>2. QED
        BY <1>2, <2>4, <3>1, <4>1
    <3>3. v = El(f * u)
      BY <1>3, <3>1
    <3> HIDE DEF u, v
    <3>4. f * u \in Int /\ (u * u) * f \in Int /\ El(v) = El(f * u)
      <4>1. f * u \in Int /\ (u * u) * f \in Int
        BY <2>2
      <4>2. QED
        BY <4>1, <3>3, ElIs
    <3>5. El(v * v) = El((f * u) * (f * u))
      BY <2>2, <3>4, ElMul
    <3>6. (f * u) * (f * u) = f * ((u * u) * f)
      BY <2>2
    <3>7. El(f * El((u * u) * f)) = El(f * ((u * u) * f))
      BY <3>4, ElIn
    <3>8. QED
      BY <3>2, <3>5, <3>6, <3>7
  <2>5. QED
    BY <2>1, <2>3, <2>4
<1>4. \A n \in Nat : n \in T
  <2> HIDE DEF T
  <2>1. QED
    BY <1>3, InductionBelow
<1>5. QED
  BY <1>4 DEF p

LEMMA PowerSum ==
  ASSUME NEW f \in Int, NEW m \in Nat
  PROVE  \A n \in Nat : Power(f, m + n) = El(Power(f, m) * Power(f, n))
<1> DEFINE p(n) == Power(f, n)
           T == {n \in Nat : p(m + n) = El(p(m) * p(n))}
<1>1. ASSUME NEW n \in Nat
      PROVE  p(n) \in Int /\ El(p(n)) = p(n) /\ p(n + 1) = El(f * p(n))
  BY PowerIs, ElField, PowerNext
<1>2. p(0) = 1
  BY PowerIs
<1> HIDE DEF p
<1>3. 0 \in T
  <2>1. m + 0 = m /\ p(m) * 1 = p(m)
    BY <1>1
  <2>2. QED
    BY <1>1, <1>2, <2>1
<1>4. ASSUME NEW n \in Nat, n \in T
      PROVE  n + 1 \in T
  <2> DEFINE u == p(m)
             v == p(n)
  <2>1. u \in Int /\ v \in Int /\ m + n \in Nat /\ m + (n + 1) = (m + n) + 1
    BY <1>1
  <2>2. p(m + (n + 1)) = El(f * El(u * v)) /\ p(n + 1) = El(f * v)
    <3>1. p((m + n) + 1) = El(f * p(m + n))
      BY <1>1, <2>1
    <3>2. QED
      BY <1>1, <1>4, <2>1, <3>1
  <2> HIDE DEF u, v
  <2>3. u * v \in Int /\ f * v \in Int /\ f * (u * v) = u * (f * v)
    BY <2>1
  <2>4. El(f * El(u * v)) = El(f * (u * v)) /\ El(u * El(f * v)) = El(u * (f * v))
    BY <2>1, <2>3, ElIn
  <2>5. p(m + (n + 1)) = El(u * p(n + 1))
    BY <2>2, <2>3, <2>4
  <2>6. QED
    BY <2>5 DEF u
<1>5. \A n \in Nat : n \in T
  <2> HIDE DEF T
  <2>1. QED
    BY <1>3, <1>4, InductionOver
<1>6. QED
  BY <1>5 DEF p

\* Powers of a product, and of an integer that is not reduced.
LEMMA PowerProduct ==
  ASSUME NEW f \in Int, NEW g \in Int, NEW h \in Int, El(h) = El(f * g)
  PROVE  \A n \in Nat : Power(h, n) = El(Power(f, n) * Power(g, n))
<1> DEFINE p(n) == Power(f, n)
           q(n) == Power(g, n)
           r(n) == Power(h, n)
           T == {n \in Nat : r(n) = El(p(n) * q(n))}
<1>1. ASSUME NEW n \in Nat
      PROVE  /\ p(n) \in Int /\ p(n + 1) = El(f * p(n))
             /\ q(n) \in Int /\ q(n + 1) = El(g * q(n))
             /\ r(n) \in Int /\ r(n + 1) = El(h * r(n))
  BY PowerIs, ElField, PowerNext
<1>2. p(0) = 1 /\ q(0) = 1 /\ r(0) = 1
  BY PowerIs
<1> HIDE DEF p, q, r
<1>3. 0 \in T
  BY <1>2, OneIs
<1>4. ASSUME NEW n \in Nat, n \in T
      PROVE  n + 1 \in T
  <2> DEFINE u == p(n)
             v == q(n)
  <2>1. u \in Int /\ v \in Int
    BY <1>1
  <2>2. r(n + 1) = El(h * El(u * v)) /\ p(n + 1) = El(f * u) /\ q(n + 1) = El(g * v)
    BY <1>1, <1>4
  <2> HIDE DEF u, v
  <2>3. u * v \in Int /\ f * u \in Int /\ g * v \in Int /\ f * g \in Int
    BY <2>1
  <2>4. El(h * El(u * v)) = El((f * g) * (u * v))
    <3> DEFINE x == u * v
               y == f * g
    <3>1. x \in Int /\ y \in Int /\ El(h) = El(y)
      BY <2>3
    <3> HIDE DEF x, y
    <3>2. El(h * El(x)) = El(h * x) /\ El(h * x) = El(y * x)
      BY <3>1, ElIn, ElFactor
    <3>3. QED
      BY <3>2 DEF x, y
  <2>5. El(El(f * u) * El(g * v)) = El((f * u) * (g * v))
    <3> DEFINE x == f * u
               y == g * v
    <3>1. x \in Int /\ y \in Int
      BY <2>3
    <3> HIDE DEF x, y
    <3>2. El(El(x) * El(y)) = El(x * y)
      BY <3>1, ElIn
    <3>3. QED
      BY <3>2 DEF x, y
  <2>6. (f * g) * (u * v) = (f * u) * (g * v)
    BY <2>1
  <2>7. QED
    BY <2>2, <2>4, <2>5, <2>6
<1>5. \A n \in Nat : n \in T
  <2> HIDE DEF T
  <2>1. QED
    BY <1>3, <1>4, InductionOver
<1>6. QED
  BY <1>5 DEF p, q, r

LEMMA PowerOfOne ==
  \A n \in Nat : Power(1, n) = 1
<1> DEFINE T == {n \in Nat : Power(1, n) = 1}
<1>1. 0 \in T
  BY PowerIs
<1>2. ASSUME NEW n \in Nat, n \in T
      PROVE  n + 1 \in T
  <2>1. Power(1, n + 1) = El(1 * 1)
    BY <1>2, PowerNext
  <2>2. QED
    BY <2>1, OneIs
<1>3. \A n \in Nat : n \in T
  <2> HIDE DEF T
  <2>1. QED
    BY <1>1, <1>2, InductionOver
<1>4. QED
  BY <1>3

LEMMA PowerReduced ==
  ASSUME NEW f \in Int, NEW h \in Int, El(h) = El(f), NEW n \in Nat
  PROVE  Power(h, n) = Power(f, n)
<1>1. f * 1 = f /\ 1 \in Int
  OBVIOUS
<1>2. Power(h, n) = El(Power(f, n) * Power(1, n))
  BY <1>1, PowerProduct
<1>3. Power(f, n) \in Int /\ El(Power(f, n)) = Power(f, n) /\ Power(f, n) * 1 = Power(f, n)
  BY PowerIs, ElField
<1>4. QED
  BY <1>2, <1>3, PowerOfOne

(* -------- division and square roots -------- *)

\* A quarter of the order of the field's group, without its last half.
Eighth == (P - 5) \div 8

LEMMA EighthIs == Eighth \in Nat /\ Eighth >= 1 /\ P = 8 * Eighth + 5
BY PrimeIs DEF Eighth

LEMMA Fermat ==
  ASSUME NEW x \in Int, El(x) # 0
  PROVE  Power(x, P - 1) = 1
<1>1. El(x) \in 1 .. P - 1 /\ El(El(x)) = El(x) /\ El(x) \in Int
  <2>1. El(x) \in 0 .. (P - 1) /\ El(El(x)) = El(x) /\ El(x) \in Int
    BY ElIs DEF Field
  <2>2. QED
    BY <2>1, PrimeIs
<1>2. P - 1 \in Nat
  BY PrimeIs
<1>3. Power(El(x), P - 1) = Power(x, P - 1)
  BY <1>1, <1>2, PowerReduced
<1>4. QED
  BY <1>1, <1>3, FieldAssumption

LEMMA Invertible ==
  ASSUME NEW x \in Int, El(x) # 0
  PROVE  \E y \in Int : El(x * y) = 1
<1> DEFINE y == Power(x, P - 2)
<1>1. P - 2 \in Nat /\ (P - 2) + 1 = P - 1
  BY PrimeIs
<1>2. y \in Int
  BY <1>1, PowerIs, ElField
<1>3. Power(x, (P - 2) + 1) = El(x * y)
  BY <1>1, PowerNext
<1>4. QED
  BY <1>1, <1>2, <1>3, Fermat

\* What stands for 1 is a unit.
LEMMA ElUnit ==
  ASSUME NEW z \in Int, NEW a \in Int, El(z) = 1
  PROVE  El(z * a) = El(a) /\ El(a * z) = El(a)
<1>1. PICK k \in Int : z = P * k + 1
  BY ElIs
<1>2. z * a = P * (k * a) + a /\ k * a \in Int /\ a * z = z * a
  BY <1>1, PrimeIs
<1>3. El(P * (k * a) + a) = El(a)
  BY <1>2, ElMore
<1>4. QED
  BY <1>2, <1>3

\* There are no divisors of zero.
LEMMA ElCancel ==
  ASSUME NEW c \in Int, NEW a \in Int, NEW b \in Int, El(c) # 0, El(c * a) = El(c * b)
  PROVE  El(a) = El(b)
<1>1. PICK y \in Int : El(c * y) = 1
  BY Invertible
<1>2. c * a \in Int /\ c * b \in Int /\ c * y \in Int /\ 1 \in Int
  OBVIOUS
<1>3. El((c * y) * a) = El((c * y) * b)
  <2>1. El((c * a) * y) = El((c * b) * y)
    <3> DEFINE u == c * a
               v == c * b
    <3>1. u \in Int /\ v \in Int /\ El(u) = El(v)
      BY <1>2
    <3> HIDE DEF u, v
    <3>2. El(u * y) = El(v * y)
      BY ZenonT(60), <3>1, ElFactor
    <3>3. QED
      BY <3>2 DEF u, v
  <2>2. (c * a) * y = (c * y) * a /\ (c * b) * y = (c * y) * b
    OBVIOUS
  <2>3. QED
    BY <2>1, <2>2
<1>4. El((c * y) * a) = El(a) /\ El((c * y) * b) = El(b)
  BY <1>1, <1>2, ElUnit
<1>5. QED
  BY <1>3, <1>4

LEMMA ElZero ==
  ASSUME NEW a \in Int, NEW b \in Int, El(a * b) = 0
  PROVE  El(a) = 0 \/ El(b) = 0
<1>1. a * 0 = 0 /\ 0 \in Int
  OBVIOUS
<1>2. El(a * b) = El(a * 0)
  BY <1>1, OneIs
<1>3. El(a) # 0 => El(b) = El(0)
  BY <1>1, <1>2, ElCancel
<1>4. QED
  BY <1>3, OneIs

LEMMA SquareRoots ==
  ASSUME NEW a \in Int, NEW b \in Int, El(a * a) = El(b * b)
  PROVE  El(a) = El(b) \/ El(a) = El(-b)
<1>1. a * a \in Int /\ b * b \in Int /\ a - b \in Int /\ a + b \in Int /\ -b \in Int
  OBVIOUS
<1>2. El(a * a - b * b) = 0
  BY <1>1, ElSame
<1>3. (a - b) * (a + b) = a * a - b * b
  OBVIOUS
<1>4. El(a - b) = 0 \/ El(a + b) = 0
  BY <1>1, <1>2, <1>3, ElZero
<1>5. a + b = a - (-b)
  OBVIOUS
<1>6. QED
  BY <1>1, <1>4, <1>5, ElSame

LEMMA MinusOne ==
  /\ sqrtm1 \in Field /\ sqrtm1 \in Int /\ El(sqrtm1) = sqrtm1 /\ sqrtm1 # 0
  /\ El(sqrtm1 * sqrtm1) = El(-1) /\ El(-1) = P - 1 /\ El(-1) # 0 /\ El(-1) # 1 /\ El(2) # 0
<1>1. sqrtm1 \in Field /\ sqrtm1 \in Int /\ El(sqrtm1) = sqrtm1
  BY FieldAssumption, ElField DEF Field
<1>2. El(-1) = P - 1
  <2>1. P * 1 + (-1) = P - 1 /\ -1 \in Int /\ 1 \in Int /\ P - 1 \in Field
    BY PrimeIs DEF Field
  <2>2. El(P - 1) = P - 1
    BY <2>1, ElField
  <2>3. El(P * 1 + (-1)) = El(-1)
    BY <2>1, ElMore
  <2>4. QED
    BY <2>1, <2>2, <2>3
<1>3. El(sqrtm1 * sqrtm1) = P - 1
  BY <1>1, FeOne, FieldAssumption
<1>4. P - 1 # 0 /\ P - 1 # 1 /\ 2 \in Field
  BY PrimeIs DEF Field
<1>5. El(2) = 2
  BY <1>4, ElField
<1>6. sqrtm1 # 0
  <2>1. CASE sqrtm1 = 0
    <3>1. sqrtm1 * sqrtm1 = 0
      BY <2>1
    <3>2. QED
      BY <1>3, <1>4, <3>1, OneIs
  <2>2. QED
    BY <2>1
<1>7. El(-1) # 0 /\ El(-1) # 1
  BY <1>2, <1>4
<1>8. El(2) # 0
  BY <1>5
<1>9. El(sqrtm1 * sqrtm1) = El(-1)
  BY <1>2, <1>3
<1>10. QED
  BY <1>1, <1>2, <1>6, <1>7, <1>8, <1>9

\* The fourth root of unity that invsqrt computes.
LEMMA FourthRoot ==
  ASSUME NEW x \in Int
  PROVE  /\ Power(x, Eighth) \in Field
         /\ fe_mul(fe_sq(Power(x, Eighth)), x) = Power(x, 2 * Eighth + 1)
         /\ Power(x, 2 * Eighth + 1) \in Field
         /\ Power(x, 2 * Eighth + 1) = El((Power(x, Eighth) * Power(x, Eighth)) * x)
<1> DEFINE t == Power(x, Eighth)
           u == t * t
<1>1. t \in Field /\ t \in Int /\ Power(x, 2 * Eighth + 1) \in Field
  <2>1. Eighth \in Nat /\ 2 * Eighth + 1 \in Nat
    BY EighthIs
  <2>2. QED
    BY <2>1, PowerIs, ElField
<1>2. Power(x, 2 * Eighth + 1) = El(u * x)
  BY EighthIs, PowerTwice
<1>3. u \in Int /\ fe_sq(t) = El(u)
  BY <1>1, FeOne
<1> HIDE DEF u
<1>4. El(u) \in Int
  BY <1>3, ElIs
<1>5. fe_mul(El(u), x) = El(El(u) * x)
  BY <1>4, FeIs
<1>6. El(El(u) * x) = El(u * x)
  BY <1>3, ElIn
<1>7. QED
  BY <1>1, <1>2, <1>3, <1>5, <1>6 DEF u

LEMMA PowerFourth ==
  ASSUME NEW x \in Int, El(x) # 0
  PROVE  LET q == Power(x, 2 * Eighth + 1) IN El((q * q) * (q * q)) = 1
<1> DEFINE q == Power(x, 2 * Eighth + 1)
           r == q * q
<1>1. q \in Int /\ r \in Int
  BY EighthIs, PowerIs, ElField
<1>2. Power(x, 2 * (2 * Eighth + 1)) = El(r)
  BY EighthIs, PowerTwice
<1>3. Power(x, 2 * (2 * (2 * Eighth + 1))) = El(El(r) * El(r))
  BY <1>2, EighthIs, PowerTwice
<1>4. 2 * (2 * (2 * Eighth + 1)) = P - 1
  BY EighthIs
<1> HIDE DEF q, r
<1>5. El(El(r) * El(r)) = El(r * r)
  BY <1>1, ElIn
<1>6. El(r * r) = 1
  BY <1>3, <1>4, <1>5, Fermat
<1>7. QED
  BY <1>6 DEF q, r

LEMMA QuarticIs ==
  ASSUME NEW x \in Int, El(x) # 0
  PROVE  LET q == Power(x, 2 * Eighth + 1) IN
         /\ q \in {1, El(-1), sqrtm1, El(-sqrtm1)}
         /\ q \in {1, El(-1)} => El(q * q) = 1
         /\ q \in {sqrtm1, El(-sqrtm1)} => El(q * q) = El(-1)
<1> DEFINE q == Power(x, 2 * Eighth + 1)
           r == q * q
<1>1. q \in Int /\ r \in Int /\ El(q) = q
  BY EighthIs, PowerIs, ElField
<1>2. El(r * r) = 1
  BY PowerFourth
<1> HIDE DEF q
<1>3. El(r) = 1 \/ El(r) = El(-1)
  <2>1. 1 * 1 = 1 /\ 1 \in Int
    OBVIOUS
  <2> HIDE DEF r
  <2>2. El(r * r) = El(1 * 1)
    BY <1>2, <2>1, OneIs
  <2>3. QED
    BY <1>1, <2>1, <2>2, SquareRoots, OneIs
<1>4. El(r) = 1 => q \in {1, El(-1)}
  <2>1. 1 * 1 = 1 /\ 1 \in Int
    OBVIOUS
  <2>2. El(r) = 1 => El(q * q) = El(1 * 1)
    BY <2>1, OneIs
  <2>3. QED
    BY <1>1, <2>1, <2>2, SquareRoots, OneIs
<1>5. El(r) = El(-1) => q \in {sqrtm1, El(-sqrtm1)}
  <2>1. El(r) = El(-1) => El(q * q) = El(sqrtm1 * sqrtm1)
    BY MinusOne
  <2>2. QED
    BY <1>1, <2>1, SquareRoots, MinusOne
<1>6. ASSUME NEW a \in Int, NEW b \in Int, b = -a
      PROVE  El(b * b) = El(a * a)
  <2>1. b * b = a * a
    BY <1>6
  <2>2. QED
    BY <2>1
<1>7. q \in {1, El(-1)} => El(q * q) = 1
  <2>1. El(1 * 1) = 1
    BY OneIs
  <2>2. El((-1) * (-1)) = 1
    BY OneIs
  <2>3. El(El(-1) * El(-1)) = El((-1) * (-1))
    BY ElIn
  <2>4. QED
    BY <2>1, <2>2, <2>3
<1>8. q \in {sqrtm1, El(-sqrtm1)} => El(q * q) = El(-1)
  <2> DEFINE b == -sqrtm1
  <2>1. b \in Int /\ El(b * b) = El(sqrtm1 * sqrtm1)
    BY <1>6, MinusOne
  <2> HIDE DEF b
  <2>2. El(El(b) * El(b)) = El(b * b)
    BY <2>1, ElIn
  <2>3. QED
    BY <2>1, <2>2, MinusOne DEF b
<1>9. QED
  BY <1>3, <1>4, <1>5, <1>7, <1>8 DEF q

\* What invsqrt returns for an element: the inverse of a root of x, or of x / sqrt(-1).
IsSquare(x) == \E y \in Int : El(y * y) = El(x)
InvRoot(x, r) ==
  /\ r.root \in Field /\ (r.is_square <=> IsSquare(x))
  /\ x = 0 => r.root = 0
  /\ x # 0 => El(x * (r.root * r.root)) = IF r.is_square THEN 1 ELSE sqrtm1

LEMMA PowerOfZero == Power(0, Eighth) = 0 /\ Power(0, 2 * Eighth + 1) = 0
<1>1. ASSUME NEW n \in Nat
      PROVE  Power(0, n + 1) = 0
  <2>1. Power(0, n) \in Int /\ 0 \in Int
    BY PowerIs, ElField
  <2>2. Power(0, n + 1) = El(0 * Power(0, n)) /\ 0 * Power(0, n) = 0
    BY <2>1, PowerNext
  <2>3. QED
    BY <2>2, OneIs
<1>2. Eighth - 1 \in Nat /\ (Eighth - 1) + 1 = Eighth /\ 2 * Eighth \in Nat
  BY EighthIs
<1>3. Power(0, (Eighth - 1) + 1) = 0 /\ Power(0, 2 * Eighth + 1) = 0
  BY <1>1, <1>2
<1>4. QED
  BY <1>2, <1>3

LEMMA RootsApart == LET i == sqrtm1 IN 1 # El(-1) /\ 1 # i /\ 1 # El(-i) /\ El(-1) # i /\ El(-1) # El(-i) /\ i # El(-i)
<1> DEFINE i == sqrtm1
           j == -i
<1>1. i \in Int /\ j \in Int /\ El(i) = i /\ 1 \in Int /\ -1 \in Int
  BY MinusOne
<1>2. El(i * i) = El(-1) /\ El(j * j) = El(-1)
  <2>1. j * j = i * i
    BY <1>1
  <2>2. QED
    BY <2>1, MinusOne
<1>3. El(1 * 1) = 1 /\ El((-1) * (-1)) = 1
  BY OneIs
<1>4. El(-1) # 1 /\ El(1) = 1
  BY MinusOne, OneIs
<1> HIDE DEF i
<1>5. i # El(j)
  <2>1. SUFFICES ASSUME El(i) = El(j) PROVE FALSE
    BY <1>1
  <2>2. El(i - j) = 0
    BY <1>1, <2>1, ElSame
  <2>3. i - j = 2 * i
    BY <1>1
  <2>4. El(2) = 0 \/ El(i) = 0
    BY <1>1, <2>2, <2>3, ElZero
  <2>5. QED
    BY <1>1, <2>4, MinusOne DEF i
<1> HIDE DEF j
<1>6. ASSUME NEW a \in Int, NEW b \in Int, El(a * a) = 1, El(b * b) = El(-1)
      PROVE  El(a) # El(b)
  BY <1>4, <1>6, ElMul, Zenon
<1>7. QED
  BY <1>1, <1>2, <1>3, <1>4, <1>5, <1>6, Zenon DEF i, j

LEMMA RootFromIs ==
  ASSUME NEW x \in Field, x # 0
  PROVE  LET q == Power(x, 2 * Eighth + 1)
             r == RootFrom(x, Power(x, Eighth), q)
         IN /\ r.root \in Field /\ (r.is_square <=> q \in {1, El(-1)})
            /\ El(x * (r.root * r.root)) = IF r.is_square THEN 1 ELSE sqrtm1
<1> DEFINE t == Power(x, Eighth)
           q == Power(x, 2 * Eighth + 1)
           r == RootFrom(x, t, q)
           i == sqrtm1
<1>1. x \in Int /\ El(x) # 0 /\ t \in Int /\ t \in Field /\ i \in Int /\ El(i * i) = El(-1) /\ El(t) = t
  <2>1. x \in Int /\ El(x) # 0
    BY ElField
  <2>2. QED
    BY <2>1, FourthRoot, MinusOne, ElField
<1>2. q = El((t * t) * x) /\ q \in {1, El(-1), i, El(-i)}
  BY <1>1, FourthRoot, QuarticIs
<1>3. fe_neg(1) = El(-1) /\ fe_neg(i) = El(-i)
  BY <1>1, FeOne
<1>4. r.root = (IF q \in {El(-1), El(-i)} THEN fe_mul(t, i) ELSE t) /\ (r.is_square <=> q \in {1, El(-1)})
  BY <1>3 DEF RootFrom
<1>5. fe_mul(t, i) \in Field /\ fe_mul(t, i) = El(t * i)
  BY <1>1, FeIs
<1>6. r.root \in Field
  BY <1>1, <1>4, <1>5
<1> HIDE DEF r, t, q, i
<1>7. CASE q \in {1, i}
  <2>1. r.root = t /\ (r.is_square <=> q = 1)
    BY <1>4, <1>7, RootsApart, MinusOne DEF i
  <2>2. x * (t * t) = (t * t) * x
    BY <1>1
  <2>3. El(x * (r.root * r.root)) = q
    BY <1>2, <2>1, <2>2
  <2>4. El(x * (r.root * r.root)) = IF r.is_square THEN 1 ELSE i
    BY <1>7, <2>1, <2>3
  <2>5. QED
    BY <1>4, <1>6, <2>4 DEF r, t, q, i
<1>8. CASE q \in {El(-1), El(-i)}
  <2> DEFINE s == t * i
  <2>1. r.root = El(s) /\ (r.is_square <=> q = El(-1)) /\ s \in Int
    BY <1>1, <1>4, <1>5, <1>8, RootsApart DEF i
  <2>2. El(x * (El(s) * El(s))) = El(x * (s * s))
    <3> HIDE DEF s
    <3>1. El(s) \in Int /\ El(El(s)) = El(s)
      BY <2>1, ElIs
    <3> DEFINE u == El(s) * El(s)
               v == s * s
    <3>2. u \in Int /\ v \in Int
      BY <2>1, <3>1
    <3>3. El(u) = El(v)
      BY <2>1, <3>1, ElIn
    <3> HIDE DEF u, v
    <3>4. El(x * u) = El(x * v)
      BY <1>1, <3>2, <3>3, ElFactor
    <3>5. QED
      BY <3>4 DEF u, v
  <2>3. El(x * (s * s)) = El((i * i) * q)
    <3> DEFINE w == (t * t) * x
               y == i * i
    <3>1. x * (s * s) = y * w /\ w \in Int /\ y \in Int
      BY <1>1
    <3>2. q = El(w)
      BY <1>2
    <3> HIDE DEF w, y, s
    <3>3. El(y * El(w)) = El(y * w)
      BY <3>1, ElIn
    <3>4. QED
      BY <3>1, <3>2, <3>3 DEF y
  <2>4. q = El(-1) => El((i * i) * q) = 1
    <3> DEFINE y == i * i
    <3>1. y \in Int /\ El(y) = El(-1) /\ -1 \in Int
      BY <1>1
    <3> HIDE DEF y
    <3>2. El(El(y) * El(-1)) = El(y * (-1)) /\ El(y * El(-1)) = El(y * (-1))
      BY <3>1, ElIn
    <3>3. El(El(-1) * El(-1)) = El((-1) * (-1)) /\ (-1) * (-1) = 1
      BY ElIn
    <3>4. QED
      BY <3>1, <3>2, <3>3, OneIs DEF y
  <2>5. q = El(-i) => El((i * i) * q) = i
    <3> DEFINE y == i * i
               z == -i
    <3>1. y \in Int /\ El(y) = El(-1) /\ -1 \in Int /\ z \in Int /\ (-1) * z = i
      BY <1>1
    <3> HIDE DEF y, z
    <3>2. El(y * El(z)) = El(y * z) /\ El(y * z) = El((-1) * z)
      BY <3>1, ElIn, ElFactor
    <3>3. El(i) = i
      BY MinusOne DEF i
    <3>4. QED
      BY <3>1, <3>2, <3>3 DEF y, z
  <2>6. El(x * (r.root * r.root)) = IF r.is_square THEN 1 ELSE i
    BY <1>8, <2>1, <2>2, <2>3, <2>4, <2>5
  <2>7. QED
    BY <1>4, <1>6, <2>6 DEF r, t, q, i
<1>9. QED
  BY <1>2, <1>7, <1>8

LEMMA SquareIs ==
  ASSUME NEW x \in Int, El(x) # 0, IsSquare(x)
  PROVE  Power(x, 2 * Eighth + 1) \in {1, El(-1)}
<1>1. PICK y \in Int : El(y * y) = El(x)
  BY DEF IsSquare
<1>2. El(y) # 0
  <2>1. El(y) = 0 => El(y * y) = 0
    BY ZeroTimes
  <2>2. QED
    BY <1>1, <2>1
<1> DEFINE n == 2 * Eighth + 1
           q == Power(x, n)
           p == Power(y, n)
<1>3. n \in Nat /\ p \in Int /\ q \in Int
  <2>1. n \in Nat
    BY EighthIs
  <2> HIDE DEF n
  <2>2. QED
    BY <2>1, PowerIs, ElField
<1>4. q = El(p * p)
  <2> HIDE DEF n
  <2>1. El(x) = El(y * y)
    BY <1>1
  <2>2. QED
    BY <1>3, <2>1, PowerProduct
<1>5. El((p * p) * (p * p)) = 1
  BY <1>2, PowerFourth
<1>6. El(q * q) = 1
  <2> DEFINE u == p * p
  <2>1. u \in Int
    BY <1>3
  <2> HIDE DEF u
  <2>2. El(El(u) * El(u)) = El(u * u)
    BY <2>1, ElIn
  <2>3. q = El(u) /\ El(u * u) = 1
    BY <1>4, <1>5 DEF u
  <2> HIDE DEF q
  <2>4. QED
    BY <2>2, <2>3
<1>7. QED
  BY <1>6, QuarticIs, MinusOne

LEMMA InvSqrt == ASSUME NEW x \in Field PROVE InvRoot(x, invsqrt(x))
<1> DEFINE t == Power(x, Eighth)
           q == Power(x, 2 * Eighth + 1)
           r == RootFrom(x, t, q)
<1>1. x \in Int /\ El(x) = x
  BY ElField
<1>2. invsqrt(x) = r
  BY <1>1, FourthRoot, Zenon DEF invsqrt, Eighth
<1>3. CASE x = 0
  <2>1. t = 0 /\ q = 0
    BY <1>3, PowerOfZero
  <2>2. fe_mul(0, sqrtm1) = 0
    <3>1. fe_mul(0, sqrtm1) = El(0 * sqrtm1) /\ 0 * sqrtm1 = 0
      BY MinusOne, FeIs
    <3>2. QED
      BY <3>1, OneIs
  <2>3. r.root = 0 /\ r.is_square
    BY <1>3, <2>1, <2>2 DEF RootFrom
  <2>4. IsSquare(x)
    <3>1. 0 * 0 = 0 /\ 0 \in Int
      OBVIOUS
    <3>2. QED
      BY <1>3, <3>1 DEF IsSquare
  <2>5. 0 \in Field
    BY OneIs
  <2> HIDE DEF r
  <2>6. QED
    BY <1>2, <1>3, <2>3, <2>4, <2>5 DEF InvRoot
<1>4. CASE x # 0
  <2>1. /\ r.root \in Field /\ (r.is_square <=> q \in {1, El(-1)})
        /\ El(x * (r.root * r.root)) = IF r.is_square THEN 1 ELSE sqrtm1
    BY <1>4, RootFromIs
  <2>2. IsSquare(x) => r.is_square
    BY <1>1, <1>4, <2>1, SquareIs
  <2> HIDE DEF r
  <2>3. r.is_square => IsSquare(x)
    <3>1. SUFFICES ASSUME El(x * (r.root * r.root)) = 1 PROVE IsSquare(x)
      BY <2>1
    <3> DEFINE y == x * r.root
               z == x * (r.root * r.root)
    <3>2. r.root \in Int
      BY <2>1, ElField
    <3>3. y \in Int /\ z \in Int /\ y * y = x * z
      BY <1>1, <3>2
    <3> HIDE DEF y
    <3>4. El(x * z) = El(x)
      <4>1. El(z) = 1
        BY <3>1
      <4> HIDE DEF z
      <4>2. QED
        BY <1>1, <3>3, <4>1, ElUnit
    <3>5. QED
      BY <3>3, <3>4 DEF IsSquare
  <2>4. QED
    BY <1>2, <1>4, <2>1, <2>2, <2>3 DEF InvRoot
<1>5. QED
  BY <1>3, <1>4

LEMMA InvertIs ==
  ASSUME NEW x \in Int
  PROVE  /\ fe_invert(x) \in Field /\ fe_invert(x) \in Int /\ El(fe_invert(x)) = fe_invert(x)
         /\ El(x) # 0 => El(x * fe_invert(x)) = 1
         /\ El(x) = 0 => fe_invert(x) = 0
<1> DEFINE s == fe_sq(x)
           r == invsqrt(s).root
           u == r * r
<1>1. s \in Field /\ s = El(x * x) /\ s \in Int /\ El(s) = s
  BY FeOne, ElField
<1>2. InvRoot(s, invsqrt(s))
  BY <1>1, InvSqrt
<1>3. r \in Field /\ r \in Int /\ u \in Int
  <2>1. r \in Field
    BY <1>2 DEF InvRoot
  <2>2. r \in Int
    BY <2>1, ElField
  <2>3. QED
    BY <2>1, <2>2
<1>4. fe_invert(x) = El(u * x)
  <2>1. fe_sq(r) = El(u)
    BY <1>3, FeOne
  <2> HIDE DEF u
  <2>2. fe_mul(El(u), x) = El(El(u) * x)
    BY <1>3, ElIs, FeIs
  <2>3. El(El(u) * x) = El(u * x)
    BY <1>3, ElIn
  <2>4. fe_invert(x) = fe_mul(fe_sq(r), x)
    BY DEF fe_invert
  <2>5. QED
    BY <2>1, <2>2, <2>3, <2>4
<1>5. fe_invert(x) \in Field
  <2>1. u * x \in Int
    BY <1>3
  <2>2. QED
    BY <1>4, <2>1, ElIs
<1>6. El(x) # 0 => El(x * fe_invert(x)) = 1
  <2>1. SUFFICES ASSUME El(x) # 0 PROVE El(x * fe_invert(x)) = 1
    OBVIOUS
  <2>2. s # 0
    BY <1>1, <2>1, ElZero
  <2>3. invsqrt(s).is_square
    BY <1>1, <1>2 DEF InvRoot, IsSquare
  <2>4. El(s * u) = 1
    BY <1>2, <2>2, <2>3 DEF InvRoot
  <2>5. El(s * u) = El((x * x) * u)
    <3> DEFINE y == x * x
    <3>1. y \in Int /\ s = El(y)
      BY <1>1
    <3> HIDE DEF y, u, s
    <3>2. El(El(y) * u) = El(y * u)
      BY <1>3, <3>1, ElIn
    <3>3. QED
      BY <3>1, <3>2 DEF y
  <2>6. El(x * El(u * x)) = El(x * (u * x))
    <3> DEFINE y == u * x
    <3>1. y \in Int
      BY <1>3
    <3> HIDE DEF y
    <3>2. El(x * El(y)) = El(x * y)
      BY <3>1, ElIn
    <3>3. QED
      BY <3>2 DEF y
  <2>7. x * (u * x) = (x * x) * u
    BY <1>3
  <2>8. QED
    BY <1>4, <2>4, <2>5, <2>6, <2>7
<1>7. El(x) = 0 => fe_invert(x) = 0
  <2>1. El(x) = 0 => El(u * x) = 0
    BY <1>3, ZeroTimes
  <2>2. QED
    BY <1>4, <2>1
<1>8. QED
  BY <1>5, <1>6, <1>7, ElField

\* Inverses are unique, and a quotient is what times the divisor is the dividend.
LEMMA InvertIf ==
  ASSUME NEW x \in Int, NEW y \in Int, El(x * y) = 1
  PROVE  El(x) # 0 /\ El(y) # 0 /\ fe_invert(x) = El(y)
<1>1. El(x) # 0
  <2>1. El(x) = 0 => El(x * y) = 0
    BY ZeroTimes
  <2>2. QED
    BY <2>1
<1>2. El(y) # 0
  <2>1. El(y) = 0 => El(x * y) = 0
    BY ZeroTimes
  <2>2. QED
    BY <2>1
<1>3. fe_invert(x) \in Int /\ El(fe_invert(x)) = fe_invert(x) /\ El(x * fe_invert(x)) = 1
  BY <1>1, InvertIs
<1>4. El(x * fe_invert(x)) = El(x * y)
  BY <1>3
<1>5. El(fe_invert(x)) = El(y)
  <2> DEFINE v == fe_invert(x)
  <2>1. v \in Int /\ El(x * v) = El(x * y)
    BY <1>3, <1>4
  <2> HIDE DEF v
  <2>2. El(v) = El(y)
    BY <1>1, <2>1, ElCancel
  <2>3. QED
    BY <2>2 DEF v
<1>6. QED
  BY <1>1, <1>2, <1>3, <1>5

LEMMA Quotient ==
  ASSUME NEW a \in Int, NEW b \in Int, NEW c \in Int, El(b) # 0
  PROVE  fe_mul(a, fe_invert(b)) = El(c) <=> El(a) = El(b * c)
<1> DEFINE v == fe_invert(b)
           w == b * v
<1>1. v \in Int /\ El(w) = 1 /\ w \in Int
  BY InvertIs
<1>2. fe_mul(a, v) = El(a * v)
  BY <1>1, FeIs
<1>3. El(v) # 0
  <2>1. El(v) = 0 => El(b * v) = 0
    BY <1>1, ZeroTimes
  <2>2. QED
    BY <1>1, <2>1
<1>4. El((b * c) * v) = El(c)
  <2>1. (b * c) * v = c * w
    BY <1>1
  <2> HIDE DEF w
  <2>2. El(c * w) = El(c)
    BY <1>1, ElUnit
  <2>3. QED
    BY <2>1, <2>2
<1> HIDE DEF v
<1>5. ASSUME El(a * v) = El(c)
      PROVE  El(a) = El(b * c)
  <2> DEFINE e == b * c
  <2>1. e \in Int /\ El(v * a) = El(v * e)
    <3>1. v * a = a * v /\ v * e = e * v
      BY <1>1
    <3>2. QED
      BY <1>4, <1>5, <3>1
  <2> HIDE DEF e
  <2>2. El(a) = El(e)
    BY <1>1, <1>3, <2>1, ElCancel
  <2>3. QED
    BY <2>2 DEF e
<1>6. ASSUME El(a) = El(b * c)
      PROVE  El(a * v) = El(c)
  <2> DEFINE e == b * c
  <2>1. e \in Int /\ El(a) = El(e)
    BY <1>6
  <2> HIDE DEF e
  <2>2. El(a * v) = El(e * v)
    BY <1>1, <2>1, ElFactor
  <2>3. QED
    BY <1>4, <2>2 DEF e
<1>7. QED
  BY <1>2, <1>5, <1>6 DEF v

LEMMA InvertSame ==
  ASSUME NEW x \in Int, NEW y \in Int, El(x) = El(y)
  PROVE  fe_invert(x) = fe_invert(y)
<1>1. CASE El(x) = 0
  BY <1>1, InvertIs
<1>2. CASE El(x) # 0
  <2> DEFINE v == fe_invert(y)
  <2>1. v \in Int /\ El(y * v) = 1 /\ El(v) = v
    BY <1>2, InvertIs
  <2> HIDE DEF v
  <2>2. El(x * v) = 1
    <3>1. El(x * v) = El(y * v)
      BY <2>1, ElFactor
    <3>2. QED
      BY <2>1, <3>1
  <2>3. QED
    BY <2>1, <2>2, InvertIf DEF v
<1>3. QED
  BY <1>1, <1>2

(* -------- the law of the group -------- *)

LEMMA CurveIs ==
  /\ d \in Field /\ d \in Int /\ El(d) = d /\ d # 0
  /\ \A x \in Int : El(x * x) # d
  /\ A \in Field /\ A \in Int /\ El(A) = A
<1>1. A \in Field /\ A \in Int /\ El(A) = A
  BY CompleteAssumption, ElField DEF Field
<1>2. a24 \in Field /\ a24 \in Int
  <2>1. 4 \in Int /\ A + 2 \in Int
    BY <1>1
  <2>2. fe_invert(4) \in Int
    BY <2>1, InvertIs
  <2>3. QED
    BY <2>1, <2>2, FeIs, ElField DEF a24
<1>3. fe_mul(a24 - 1, fe_invert(a24)) \in Int
  <2>1. a24 - 1 \in Int /\ fe_invert(a24) \in Int
    BY <1>2, InvertIs
  <2> HIDE DEF a24
  <2>2. fe_mul(a24 - 1, fe_invert(a24)) \in Field
    BY <2>1, FeIs
  <2>3. QED
    BY <2>2, ElField
<1>4. d \in Field
  BY <1>3, FeOne DEF d
<1>5. ASSUME NEW x \in Int
      PROVE  El(x * x) # d
  <2>1. El(x) \in 0 .. P - 1 /\ El(x) \in Int
    BY ElIs, PrimeIs DEF Field
  <2>2. fe_sq(El(x)) = El(El(x) * El(x))
    BY <2>1, FeOne
  <2>3. El(El(x) * El(x)) = El(x * x)
    BY ElIn
  <2>4. QED
    BY <2>1, <2>2, <2>3, CompleteAssumption
<1>6. d # 0
  <2>1. 0 \in Int /\ El(0 * 0) = 0
    BY OneIs
  <2>2. QED
    BY <1>5, <2>1
<1>7. QED
  BY <1>1, <1>4, <1>5, <1>6, ElField

LEMMA ZeroPlus ==
  ASSUME NEW a \in Int, NEW b \in Int, El(a) = 0, El(b) = 0
  PROVE  El(a + b) = 0 /\ El(a - b) = 0
<1> DEFINE z == 0
<1>1. z \in Int /\ El(a) = El(z) /\ El(b) = El(z) /\ z + z = 0 /\ z - z = 0
  BY OneIs
<1> HIDE DEF z
<1>2. El(a + b) = El(z + z) /\ El(a - b) = El(z - z)
  BY <1>1, ElOps
<1>3. QED
  BY <1>1, <1>2, OneIs

\* A combination of what is zero.
Three(f, a, g, b, h, c) == (f * a + g * b) + h * c

LEMMA ZeroThree ==
  ASSUME NEW a \in Int, NEW b \in Int, NEW c \in Int, NEW f \in Int, NEW g \in Int, NEW h \in Int,
         El(a) = 0, El(b) = 0, El(c) = 0
  PROVE  El(Three(f, a, g, b, h, c)) = 0
<1> DEFINE u == f * a + g * b
           v == h * c
<1>1. u \in Int /\ El(u) = 0
  BY ZeroSum
<1>2. v \in Int /\ El(v) = 0
  BY ZeroTimes
<1> HIDE DEF u, v
<1>3. El(u + v) = 0
  BY <1>1, <1>2, ZeroPlus
<1>4. QED
  BY <1>3 DEF u, v, Three

\* d is not the quotient of two squares.
LEMMA NonSquare ==
  ASSUME NEW u \in Int, NEW v \in Int, El(u * u) = El(d * (v * v))
  PROVE  El(v) = 0
<1> SUFFICES ASSUME El(v) # 0 PROVE FALSE
  OBVIOUS
<1> DEFINE w == fe_invert(v)
           z == v * w
           y == w * w
           a == u * u
           b == d * (v * v)
<1>1. w \in Int /\ z \in Int /\ El(z) = 1 /\ y \in Int /\ a \in Int /\ b \in Int /\ El(a) = El(b) /\ d \in Int
  BY InvertIs, CurveIs
<1> HIDE DEF w
<1>2. (u * w) * (u * w) = a * y /\ b * y = (d * z) * z /\ u * w \in Int
  BY <1>1
<1> HIDE DEF a, b, y, z
<1>3. El(a * y) = El(b * y)
  <2>1. a \in Int /\ b \in Int /\ y \in Int /\ El(a) = El(b)
    BY <1>1
  <2>2. QED
    BY ONLY ZenonT(60), <2>1, ElFactor
<1>4. El((d * z) * z) = El(d * z)
  <2>1. d * z \in Int
    BY <1>1
  <2> DEFINE e == d * z
  <2> HIDE DEF e
  <2>2. El(e * z) = El(e)
    BY <1>1, <2>1, ElUnit DEF e
  <2>3. QED
    BY <2>2 DEF e
<1>5. El(d * z) = El(d)
  BY <1>1, ElUnit
<1>6. QED
  BY <1>2, <1>3, <1>4, <1>5, CurveIs

\* How far a pair is off the curve.
Off(x, y) == (y * y - x * x) - (1 + d * ((x * y) * (x * y)))

LEMMA CompleteIdentity ==
  ASSUME NEW a \in Int, NEW b \in Int, NEW u \in Int, NEW v \in Int, NEW i \in Int, NEW e \in {1, -1},
         NEW s \in {1, -1}, NEW g \in Int
  PROVE  LET t == a * b
             c == (b * b - a * a) - (1 + g * (t * t))
             r == u * v
             h == (v * v - u * u) - (1 + g * (r * r))
             k == g * (t * r) - e
             m == i * i + 1
             x == i * a + (s * e) * b
             y == t * (i * u + s * v)
         IN x * x - g * (y * y)
              = ((1 * c + (-(g * (t * t))) * h) + (-(k + 2 * e) - (2 * s) * (i * t)) * k)
                  + (a * a - (g * (t * t)) * (u * u)) * m
OBVIOUS

LEMMA Complete ==
  ASSUME NEW a \in Int, NEW b \in Int, NEW u \in Int, NEW v \in Int, NEW e \in {1, -1},
         El(Off(a, b)) = 0, El(Off(u, v)) = 0
  PROVE  El(d * ((a * b) * (u * v)) - e) # 0
<1> DEFINE i == sqrtm1
           t == a * b
           r == u * v
           k == d * (t * r) - e
           m == i * i + 1
<1>1. SUFFICES ASSUME El(k) = 0 PROVE FALSE
  OBVIOUS
<1>2. i \in Int /\ d \in Int /\ e \in Int /\ t \in Int /\ r \in Int /\ k \in Int /\ m \in Int
  BY MinusOne, CurveIs
<1>3. El(m) = 0
  <2> DEFINE x == i * i
             y == -1
  <2>1. x \in Int /\ y \in Int /\ x - y = m
    BY <1>2
  <2>2. El(x) = El(y)
    BY MinusOne
  <2> HIDE DEF x, y
  <2>3. El(x - y) = 0
    BY <2>1, <2>2, ElSame
  <2>4. QED
    BY <2>1, <2>3
<1>4. ASSUME NEW s \in {1, -1}
      PROVE  El(t * (i * u + s * v)) = 0
  <2> DEFINE c == Off(a, b)
             h == Off(u, v)
             x == i * a + (s * e) * b
             y == t * (i * u + s * v)
             f == -(d * (t * t))
             g == -(k + 2 * e) - (2 * s) * (i * t)
             j == a * a - (d * (t * t)) * (u * u)
             o == 1
  <2>1. x * x - d * (y * y) = ((o * c + f * h) + g * k) + j * m
    BY <1>2, CompleteIdentity DEF Off
  <2>2. c \in Int /\ h \in Int /\ x \in Int /\ y \in Int /\ f \in Int /\ g \in Int /\ j \in Int /\ o \in Int
    BY <1>2 DEF Off
  <2>3. El(c) = 0 /\ El(h) = 0
    OBVIOUS
  <2> HIDE DEF c, h, x, y, f, g, j, k, m, o
  <2>4. El(Three(o, c, f, h, g, k) + j * m) = 0
    <3>1. k \in Int /\ El(k) = 0 /\ m \in Int /\ El(m) = 0
      BY <1>1, <1>2, <1>3
    <3> DEFINE y1 == Three(o, c, f, h, g, k)
               y2 == j * m
    <3>2. El(y1) = 0
      BY ONLY SMTT(60), <3>1, <2>2, <2>3, ZeroThree
    <3>6. El(y2) = 0
      BY ONLY <3>1, <2>2, ZeroTimes
    <3>3. y1 \in Int /\ y2 \in Int
      BY <3>1, <2>2 DEF Three
    <3> HIDE DEF y1, y2
    <3>4. El(y1 + y2) = 0
      BY <3>2, <3>3, <3>6, ZeroPlus
    <3>5. QED
      BY <3>4 DEF y1, y2
  <2>5. x * x \in Int /\ d * (y * y) \in Int
    BY <1>2, <2>2
  <2>6. El(x * x) = El(d * (y * y))
    BY <2>1, <2>4, <2>5, ElSame DEF Three
  <2>7. El(y) = 0
    BY <2>2, <2>6, NonSquare
  <2>8. QED
    BY <2>7 DEF y
<1>5. El(t * u) = 0
  <2> DEFINE y == t * (i * u + 1 * v)
             z == t * (i * u + (-1) * v)
             n == 2 * i
             x == t * u
  <2>1. El(y) = 0 /\ El(z) = 0
    BY <1>4
  <2>2. y \in Int /\ z \in Int /\ 1 * y + 1 * z = n * x /\ n \in Int /\ x \in Int
    BY <1>2
  <2> HIDE DEF y, z, n, x
  <2>3. El(1 * y + 1 * z) = 0
    BY <2>1, <2>2, ZeroSum
  <2>4. El(n) = 0 \/ El(x) = 0
    BY <2>2, <2>3, ElZero
  <2>5. El(n) # 0
    <3>1. El(2) # 0 /\ El(i) # 0
      BY MinusOne
    <3>2. QED
      BY <1>2, <3>1, ElZero DEF n
  <2>6. QED
    BY <2>4, <2>5 DEF x
<1>6. El(d * (t * r)) = 0
  <2> DEFINE x == t * u
             f == d * v
  <2>1. d * (t * r) = f * x /\ x \in Int /\ f \in Int /\ El(x) = 0
    BY <1>2, <1>5
  <2> HIDE DEF x, f
  <2>2. El(f * x) = 0
    BY <2>1, ZeroTimes
  <2>3. QED
    BY <2>1, <2>2
<1>7. El(d * (t * r)) = El(e)
  <2>1. d * (t * r) \in Int
    BY <1>2
  <2>2. QED
    BY <1>1, <1>2, <2>1, ElSame
<1>8. El(e) # 0
  BY OneIs, MinusOne
<1>9. QED
  BY <1>6, <1>7, <1>8

\* What the functions of the field return for elements that stand for integers.
LEMMA FeIn ==
  ASSUME NEW a \in Int, NEW b \in Int
  PROVE  /\ fe_mul(El(a), El(b)) = El(a * b) /\ fe_mul(a, El(b)) = El(a * b) /\ fe_mul(El(a), b) = El(a * b)
         /\ fe_add(El(a), El(b)) = El(a + b) /\ fe_add(a, El(b)) = El(a + b) /\ fe_add(El(a), b) = El(a + b)
         /\ fe_sub(El(a), El(b)) = El(a - b) /\ fe_sub(a, El(b)) = El(a - b) /\ fe_sub(El(a), b) = El(a - b)
<1> DEFINE r == El(a)
           s == El(b)
<1>1. r \in Int /\ s \in Int
  BY ElIs
<1>2. /\ El(r * b) = El(a * b) /\ El(a * s) = El(a * b) /\ El(r * s) = El(a * b)
      /\ El(r + b) = El(a + b) /\ El(a + s) = El(a + b) /\ El(r + s) = El(a + b)
      /\ El(r - b) = El(a - b) /\ El(a - s) = El(a - b) /\ El(r - s) = El(a - b)
  BY ElIn
<1> HIDE DEF r, s
<1>3. /\ fe_mul(r, s) = El(r * s) /\ fe_mul(a, s) = El(a * s) /\ fe_mul(r, b) = El(r * b)
      /\ fe_add(r, s) = El(r + s) /\ fe_add(a, s) = El(a + s) /\ fe_add(r, b) = El(r + b)
      /\ fe_sub(r, s) = El(r - s) /\ fe_sub(a, s) = El(a - s) /\ fe_sub(r, b) = El(r - b)
  BY <1>1, FeIs
<1>4. QED
  BY <1>2, <1>3 DEF r, s

LEMMA FeInOne ==
  ASSUME NEW a \in Int
  PROVE  fe_sq(El(a)) = El(a * a) /\ fe_neg(El(a)) = El(-a)
<1>1. fe_sq(El(a)) = El(a * a)
  BY FeIn DEF fe_sq
<1> DEFINE r == El(a)
           z == 0
<1>2. r \in Int /\ El(r) = El(a) /\ z \in Int
  BY ElIs
<1> HIDE DEF r, z
<1>3. El(z - r) = El(z - a)
  BY <1>2, ElIn DEF r
<1>4. fe_neg(r) = El(-r) /\ z - r = -r /\ z - a = -a
  BY <1>2, FeOne DEF z
<1>5. QED
  BY <1>1, <1>3, <1>4 DEF r

\* The points of the curve, of integers and of elements.
LEMMA OnCurveIs ==
  ASSUME NEW x \in Int, NEW y \in Int
  PROVE  OnCurve(<<x, y>>) <=> El(Off(x, y)) = 0
<1> DEFINE a == x * x
           b == y * y
           t == x * y
           e == d * (a * b)
           f == 1 + e
           g == b - a
<1>1. a \in Int /\ b \in Int /\ e \in Int /\ f \in Int /\ g \in Int /\ a * b \in Int /\ d \in Int /\ 1 \in Int
  BY CurveIs
<1>2. fe_sq(x) = El(a) /\ fe_sq(y) = El(b)
  BY FeOne
<1> HIDE DEF a, b
<1>3. fe_mul(fe_sq(x), fe_sq(y)) = El(a * b) /\ fe_sub(fe_sq(y), fe_sq(x)) = El(b - a)
  BY <1>1, <1>2, FeIn
<1> DEFINE c == a * b
<1>4. fe_mul(d, El(c)) = El(d * c)
  <2> HIDE DEF c
  <2>1. c \in Int
    BY <1>1 DEF c
  <2>2. QED
    BY <2>1, <1>1, FeIn
<1> HIDE DEF e
<1>5. fe_add(1, El(e)) = El(1 + e)
  BY <1>1, FeIn
<1>6. OnCurve(<<x, y>>) <=> El(g) = El(f)
  BY <1>3, <1>4, <1>5 DEF OnCurve, e
<1> HIDE DEF f, g
<1>7. El(g) = El(f) <=> El(g - f) = 0
  BY <1>1, ElSame
<1>8. g - f = Off(x, y)
  <2>1. (x * x) * (y * y) = (x * y) * (x * y)
    OBVIOUS
  <2>2. QED
    BY <2>1 DEF g, f, a, b, e, Off
<1>9. QED
  BY <1>6, <1>7, <1>8

Affine == {p \in Field \X Field : OnCurve(p)}

LEMMA AffineIs ==
  ASSUME NEW p
  PROVE  p \in Affine <=> /\ p = <<p[1], p[2]>> /\ p[1] \in Field /\ p[2] \in Field
                          /\ El(Off(p[1], p[2])) = 0
<1>1. p \in Field \X Field <=> p = <<p[1], p[2]>> /\ p[1] \in Field /\ p[2] \in Field
  BY SMT
<1>2. ASSUME p \in Field \X Field
      PROVE  OnCurve(p) <=> El(Off(p[1], p[2])) = 0
  <2>1. p[1] \in Int /\ p[2] \in Int /\ p = <<p[1], p[2]>>
    BY <1>1, <1>2, ElField
  <2>2. QED
    BY <2>1, OnCurveIs
<1>3. QED
  BY <1>1, <1>2 DEF Affine

LEMMA AffineInts ==
  ASSUME NEW p \in Affine
  PROVE  p[1] \in Int /\ p[2] \in Int /\ El(p[1]) = p[1] /\ El(p[2]) = p[2] /\ p = <<p[1], p[2]>>
BY AffineIs, ElField

\* What the sum of two points is.
Cross(p, q) == d * ((p[1] * p[2]) * (q[1] * q[2]))
Sums(p, q, r) ==
  /\ El((1 + Cross(p, q)) * r[1]) = El(p[1] * q[2] + q[1] * p[2])
  /\ El((1 - Cross(p, q)) * r[2]) = El(p[2] * q[2] + p[1] * q[1])

LEMMA CrossIs ==
  ASSUME NEW p \in Affine, NEW q \in Affine
  PROVE  /\ Cross(p, q) \in Int /\ El(1 + Cross(p, q)) # 0 /\ El(1 - Cross(p, q)) # 0
<1>1. p[1] \in Int /\ p[2] \in Int /\ q[1] \in Int /\ q[2] \in Int /\ d \in Int
  BY AffineInts, CurveIs
<1>2. El(Off(p[1], p[2])) = 0 /\ El(Off(q[1], q[2])) = 0
  BY AffineIs
<1> DEFINE k == Cross(p, q)
<1>3. k \in Int
  BY <1>1 DEF Cross
<1>4. El(k - 1) # 0 /\ El(k - (-1)) # 0
  BY <1>1, <1>2, Complete DEF Cross
<1> HIDE DEF k
<1>5. k - (-1) = 1 + k
  BY <1>3
<1>6. El(1 - k) = 0 => El(k - 1) = 0
  <2> DEFINE u == 1 - k
             m == -1
  <2>1. u \in Int /\ m \in Int /\ m * u = k - 1
    BY <1>3
  <2> HIDE DEF u, m
  <2>2. El(u) = 0 => El(m * u) = 0
    BY <2>1, ZeroTimes
  <2>3. QED
    BY <2>1, <2>2 DEF u
<1>7. QED
  BY <1>3, <1>4, <1>5, <1>6 DEF k

LEMMA SumIs ==
  ASSUME NEW p \in Affine, NEW q \in Affine, NEW r \in Field \X Field
  PROVE  AffineAdd(p, q) \in Field \X Field /\ (r = AffineAdd(p, q) <=> Sums(p, q, r))
<1> DEFINE a == p[1]
           b == p[2]
           u == q[1]
           v == q[2]
           k == Cross(p, q)
           K == fe_mul(d, fe_mul(fe_mul(a, u), fe_mul(b, v)))
           x == fe_add(fe_mul(a, v), fe_mul(u, b))
           y == fe_add(fe_mul(b, v), fe_mul(a, u))
           s == AffineAdd(p, q)
<1>1. a \in Int /\ b \in Int /\ u \in Int /\ v \in Int /\ d \in Int /\ k \in Int
  BY AffineInts, CurveIs, CrossIs
<1>2. El(1 + k) # 0 /\ El(1 - k) # 0
  BY CrossIs
<1>3. s = <<fe_mul(x, fe_invert(1 + K)), fe_mul(y, fe_invert(1 - K))>>
  BY Zenon DEF AffineAdd, AffineSum
<1>4. K = El(k)
  <2> DEFINE e == a * u
             f == b * v
             g == e * f
             h == d * g
  <2>1. e \in Int /\ f \in Int /\ g \in Int /\ h \in Int
    BY <1>1
  <2>2. k = h
    BY <1>1 DEF Cross
  <2>3. fe_mul(a, u) = El(e) /\ fe_mul(b, v) = El(f)
    BY <1>1, FeIs
  <2> HIDE DEF e, f, a, b, u, v
  <2>4. fe_mul(El(e), El(f)) = El(g)
    BY <2>1, FeIn
  <2> HIDE DEF g
  <2>5. fe_mul(d, El(g)) = El(h)
    BY <1>1, <2>1, FeIn
  <2>6. QED
    BY <2>2, <2>3, <2>4, <2>5
<1>5. x = El(a * v + u * b) /\ y = El(b * v + a * u)
  <2> DEFINE e == a * v
             f == u * b
             g == b * v
             h == a * u
  <2>1. e \in Int /\ f \in Int /\ g \in Int /\ h \in Int
    BY <1>1
  <2>2. fe_mul(a, v) = El(e) /\ fe_mul(u, b) = El(f) /\ fe_mul(b, v) = El(g) /\ fe_mul(a, u) = El(h)
    BY <1>1, FeIs
  <2> HIDE DEF e, f, g, h
  <2>3. fe_add(El(e), El(f)) = El(e + f) /\ fe_add(El(g), El(h)) = El(g + h)
    BY <2>1, FeIn
  <2>4. QED
    BY <2>2, <2>3 DEF e, f, g, h
<1>6. x \in Int /\ y \in Int /\ El(x) = El(a * v + u * b) /\ El(y) = El(b * v + a * u)
  <2>1. a * v + u * b \in Int /\ b * v + a * u \in Int
    BY <1>1
  <2>2. QED
    BY <2>1, <1>5, ElIs
<1> HIDE DEF x, y, K, a, b, u, v, k
<1>7. fe_invert(1 + K) = fe_invert(1 + k) /\ fe_invert(1 - K) = fe_invert(1 - k)
  <2>1. 1 + K \in Int /\ 1 - K \in Int /\ 1 + k \in Int /\ 1 - k \in Int
    BY <1>1, <1>4, ElIs
  <2>2. El(1 + K) = El(1 + k) /\ El(1 - K) = El(1 - k)
    BY <1>1, <1>4, ElIn
  <2>3. QED
    BY <2>1, <2>2, InvertSame
<1>8. s \in Field \X Field
  <2>1. 1 + k \in Int /\ 1 - k \in Int
    BY <1>1
  <2>2. fe_invert(1 + k) \in Int /\ fe_invert(1 - k) \in Int
    BY <2>1, InvertIs
  <2>3. fe_mul(x, fe_invert(1 + k)) \in Field /\ fe_mul(y, fe_invert(1 - k)) \in Field
    BY <1>6, <2>2, FeIs
  <2>4. QED
    BY <1>3, <1>7, <2>3
<1>9. r[1] \in Int /\ r[2] \in Int /\ El(r[1]) = r[1] /\ El(r[2]) = r[2] /\ r = <<r[1], r[2]>>
  BY ElField
<1>10. s[1] = r[1] <=> El(x) = El((1 + k) * r[1])
  <2> DEFINE e == 1 + k
  <2>1. e \in Int /\ El(e) # 0
    BY <1>1, <1>2
  <2> HIDE DEF e
  <2>2. s[1] = fe_mul(x, fe_invert(e))
    BY <1>3, <1>7 DEF e
  <2>3. s[1] = El(r[1]) <=> El(x) = El(e * r[1])
    BY <1>6, <1>9, <2>1, <2>2, Quotient
  <2>4. QED
    BY <1>9, <2>3 DEF e
<1>11. s[2] = r[2] <=> El(y) = El((1 - k) * r[2])
  <2> DEFINE e == 1 - k
  <2>1. e \in Int /\ El(e) # 0
    BY <1>1, <1>2
  <2> HIDE DEF e
  <2>2. s[2] = fe_mul(y, fe_invert(e))
    BY <1>3, <1>7 DEF e
  <2>3. s[2] = El(r[2]) <=> El(y) = El(e * r[2])
    BY <1>6, <1>9, <2>1, <2>2, Quotient
  <2>4. QED
    BY <1>9, <2>3 DEF e
<1>12. r = s <=> s[1] = r[1] /\ s[2] = r[2]
  BY <1>8, <1>9
<1> HIDE DEF s
<1>13. Sums(p, q, r) <=> El(x) = El((1 + k) * r[1]) /\ El(y) = El((1 - k) * r[2])
  BY <1>6 DEF Sums, k, a, b, u, v
<1>14. QED
  BY <1>8, <1>10, <1>11, <1>12, <1>13 DEF s

\* Sums stay on the curve.
LEMMA ClosedOne ==
  ASSUME NEW a \in Int, NEW b \in Int, NEW u \in Int, NEW v \in Int, NEW g \in Int
  PROVE  LET t == a * b
             r == u * v
             k == g * (t * r)
             n == a * v + u * b
             m == b * v + a * u
             e == b * b - a * a
             f == v * v - u * u
             s == g * (t * t)
             w == g * (r * r)
         IN ((m * m) * ((1 + k) * (1 + k)) - (n * n) * ((1 - k) * (1 - k)))
              - ((((1 + k) * (1 - k)) * ((1 + k) * (1 - k))) + g * ((n * m) * (n * m)))
              = (((e * f) * (1 + s * w)) - (1 - s * w) * (1 - s * w)) - (s * (f * f) + w * (e * e))
OBVIOUS

LEMMA ClosedTwo ==
  ASSUME NEW e \in Int, NEW f \in Int, NEW s \in Int, NEW w \in Int
  PROVE  (((e * f) * (1 + s * w)) - (1 - s * w) * (1 - s * w)) - (s * (f * f) + w * (e * e))
           = (f * (1 + s * w) - w * (e + 1 + s)) * (e - (1 + s))
               + ((1 + s) * (1 + s * w) - s * (f + 1 + w)) * (f - (1 + w))
OBVIOUS

LEMMA SumIn ==
  ASSUME NEW p \in Affine, NEW q \in Affine
  PROVE  AffineAdd(p, q) \in Field \X Field /\ Sums(p, q, AffineAdd(p, q))
<1>1. <<0, 1>> \in Field \X Field
  BY OneIs
<1>2. AffineAdd(p, q) \in Field \X Field
  BY <1>1, SumIs, Zenon
<1>3. QED
  BY <1>2, SumIs, Zenon

LEMMA ElPlus ==
  ASSUME NEW a \in Int, NEW b \in Int, NEW c \in Int, El(a) = El(b)
  PROVE  /\ El(a + c) = El(b + c) /\ El(c + a) = El(c + b)
         /\ El(a - c) = El(b - c) /\ El(c - a) = El(c - b)
<1> DEFINE e == c
<1>1. e \in Int /\ El(e) = El(c)
  OBVIOUS
<1> HIDE DEF e
<1>2. /\ El(a + e) = El(b + c) /\ El(e + a) = El(c + b)
      /\ El(a - e) = El(b - c) /\ El(e - a) = El(c - b)
  BY <1>1, ElOps
<1>3. QED
  BY <1>2 DEF e

LEMMA SumClosed ==
  ASSUME NEW p \in Affine, NEW q \in Affine
  PROVE  AffineAdd(p, q) \in Affine
<1> DEFINE o == AffineAdd(p, q)
           x == o[1]
           y == o[2]
           a == p[1]
           b == p[2]
           u == q[1]
           v == q[2]
           k == Cross(p, q)
           n == a * v + u * b
           m == b * v + a * u
<1>1. o \in Field \X Field /\ Sums(p, q, o)
  BY SumIn
<1>2. a \in Int /\ b \in Int /\ u \in Int /\ v \in Int /\ d \in Int /\ k \in Int
  BY AffineInts, CurveIs, CrossIs
<1>3. El(1 + k) # 0 /\ El(1 - k) # 0
  BY CrossIs
<1>4. El(Off(a, b)) = 0 /\ El(Off(u, v)) = 0
  BY AffineIs
<1>5. x \in Int /\ y \in Int /\ x \in Field /\ y \in Field /\ o = <<x, y>>
  <2> HIDE DEF o
  <2>1. QED
    BY <1>1, ElField
<1>6. El((1 + k) * x) = El(n) /\ El((1 - k) * y) = El(m) /\ n \in Int /\ m \in Int
  BY <1>1, <1>2 DEF Sums
<1>7. k = d * ((a * b) * (u * v))
  BY DEF Cross
<1> HIDE DEF o, x, y, a, b, u, v, k, n, m
<1> DEFINE f == 1 + k
           g == 1 - k
           X == f * x
           Y == g * y
           c == f * g
           Shape(N1, M1) == ((M1 * M1) * (f * f) - (N1 * N1) * (g * g)) - ((c * c) + d * ((N1 * M1) * (N1 * M1)))
<1>8. f \in Int /\ g \in Int /\ X \in Int /\ Y \in Int /\ c \in Int /\ El(X) = El(n) /\ El(Y) = El(m)
  BY <1>2, <1>5, <1>6
<1>9. (c * c) * Off(x, y) = Shape(X, Y)
  <2> HIDE DEF f, g
  <2>1. QED
    BY <1>2, <1>5, <1>8 DEF Off
<1>10. El(Shape(n, m)) = 0
  <2> DEFINE e == b * b - a * a
             h == v * v - u * u
             s == d * ((a * b) * (a * b))
             w == d * ((u * v) * (u * v))
             c1 == e - (1 + s)
             c2 == h - (1 + w)
             g1 == h * (1 + s * w) - w * (e + 1 + s)
             g2 == (1 + s) * (1 + s * w) - s * (h + 1 + w)
  <2>1. e \in Int /\ h \in Int /\ s \in Int /\ w \in Int /\ c1 \in Int /\ c2 \in Int /\ g1 \in Int /\ g2 \in Int
    BY <1>2
  <2>2. Shape(n, m) = (((e * h) * (1 + s * w)) - (1 - s * w) * (1 - s * w)) - (s * (h * h) + w * (e * e))
    BY <1>2, <1>7, ClosedOne DEF n, m
  <2>3. c1 = Off(a, b) /\ c2 = Off(u, v)
    BY DEF Off
  <2> HIDE DEF e, h, s, w
  <2>4. Shape(n, m) = g1 * c1 + g2 * c2
    BY <2>1, <2>2, ClosedTwo
  <2> HIDE DEF Shape, c1, c2, g1, g2
  <2>5. El(g1 * c1 + g2 * c2) = 0
    BY <2>1, <2>3, <1>4, ZeroSum
  <2>6. QED
    BY <2>4, <2>5
<1>11. El(Shape(X, Y)) = El(Shape(n, m))
  <2> HIDE DEF f, g, X, Y, c
  <2> DEFINE f2 == f * f
             g2 == g * g
             YY == Y * Y
             XX == X * X
             mm == m * m
             nn == n * n
             XY == X * Y
             nm == n * m
             c2 == c * c
  <2>1. /\ f2 \in Int /\ g2 \in Int /\ YY \in Int /\ XX \in Int /\ mm \in Int /\ nn \in Int
        /\ XY \in Int /\ nm \in Int /\ c2 \in Int
    BY <1>6, <1>8
  <2>2. El(YY) = El(mm) /\ El(XX) = El(nn) /\ El(XY) = El(nm)
    BY <1>6, <1>8, ElMul
  <2> HIDE DEF f2, g2, YY, XX, mm, nn, XY, nm, c2
  <2>15. El(YY * f2) = El(mm * f2)
    <3>1. YY \in Int /\ mm \in Int /\ f2 \in Int /\ El(YY) = El(mm)
      BY <2>1, <2>2
    <3>2. QED
      BY ONLY <3>1, ElFactor
  <2>16. El(XX * g2) = El(nn * g2)
    <3>1. XX \in Int /\ nn \in Int /\ g2 \in Int /\ El(XX) = El(nn)
      BY <2>1, <2>2
    <3>2. QED
      BY ONLY <3>1, ElFactor
  <2>3. El(XY * XY) = El(nm * nm)
    BY <2>1, <2>2, ElMul
  <2> DEFINE t1 == YY * f2
             t2 == mm * f2
             t3 == XX * g2
             t4 == nn * g2
             t5 == XY * XY
             t6 == nm * nm
  <2>4. t1 \in Int /\ t2 \in Int /\ t3 \in Int /\ t4 \in Int /\ t5 \in Int /\ t6 \in Int
    BY <2>1
  <2>5. El(t1) = El(t2) /\ El(t3) = El(t4) /\ El(t5) = El(t6)
    BY <2>3, <2>15, <2>16
  <2> HIDE DEF t1, t2, t3, t4, t5, t6
  <2>6. El(t1 - t3) = El(t2 - t4)
    BY <1>2, <2>4, <2>5, ElSub
  <2>13. El(d * t5) = El(d * t6)
    BY <1>2, <2>4, <2>5, ElFactor
  <2> DEFINE s1 == t1 - t3
             s2 == t2 - t4
             s3 == d * t5
             s4 == d * t6
             r1 == c2 + s3
             r2 == c2 + s4
  <2>7. s1 \in Int /\ s2 \in Int /\ s3 \in Int /\ s4 \in Int /\ r1 \in Int /\ r2 \in Int
    BY <1>2, <2>1, <2>4
  <2>8. El(s1) = El(s2) /\ El(s3) = El(s4)
    BY <2>6, <2>13
  <2> HIDE DEF s1, s2, s3, s4
  <2>9. El(r1) = El(r2)
    BY <2>1, <2>7, <2>8, ElPlus
  <2> HIDE DEF r1, r2
  <2>10. El(s1 - r1) = El(s2 - r2)
    BY <2>7, <2>8, <2>9, ElSub
  <2>11. Shape(X, Y) = s1 - r1 /\ Shape(n, m) = s2 - r2
    BY DEF s1, s2, s3, s4, r1, r2, t1, t2, t3, t4, t5, t6, f2, g2, YY, XX, mm, nn, XY, nm, c2
  <2> HIDE DEF Shape
  <2>12. QED
    BY <2>10, <2>11
<1>12. El(Off(x, y)) = 0
  <2> DEFINE z == c * c
             t == Off(x, y)
  <2>1. z \in Int /\ t \in Int
    BY <1>2, <1>5, <1>8 DEF Off
  <2>2. El(z * t) = 0
    BY <1>9, <1>10, <1>11
  <2>3. El(z) # 0
    <3>1. El(c) # 0
      BY <1>3, <1>8, ElZero
    <3> HIDE DEF c
    <3>2. QED
      BY <1>8, <3>1, ElZero
  <2> HIDE DEF z, t
  <2>4. El(t) = 0
    BY <2>1, <2>2, <2>3, ElZero
  <2>5. QED
    BY <2>4 DEF t
<1>13. o[1] = x /\ o[2] = y
  BY <1>5
<1>14. o \in Affine
  BY <1>5, <1>12, <1>13, AffineIs
<1>15. QED
  BY <1>14 DEF o

\* The first coordinate of a sum of three points, as a quotient.
Num(a, b, u, v, c, e) ==
  LET k == (d * (u * v)) * (a * b)
  IN ((a * v + u * b) * (1 - k)) * e + (c * (b * v + a * u)) * (1 + k)
Den(a, b, u, v, c, e) ==
  LET k == (d * (u * v)) * (a * b)
  IN (1 + k) * (1 - k) + d * (((a * v + u * b) * (b * v + a * u)) * (c * e))

\* The steps of the identity below.
LEMMA ThreeOne ==
  ASSUME NEW a \in Int, NEW b \in Int, NEW c \in Int, NEW e \in Int, NEW u \in Int, NEW v \in Int
  PROVE  LET w == d * (u * v)
             s == u * u + v * v
             t == a * b
         IN /\ Num(a, b, u, v, c, e)
                 = (v * (a * e + b * c) + u * (b * e + a * c))
                     + (w * t) * (v * (b * c - a * e) + u * (a * c - b * e))
            /\ Den(a, b, u, v, c, e)
                 = (1 - (w * w) * (t * t)) + ((d * s) * t + w * (a * a + b * b)) * (c * e)
<1>1. d \in Int
  BY CurveIs
<1>2. QED
  BY <1>1 DEF Num, Den

\* What the curve says of two points: sums of products, and their consequences.
LEMMA ThreeTwo ==
  ASSUME NEW a \in Int, NEW b \in Int, NEW c \in Int, NEW e \in Int
  PROVE  LET t  == a * b
             r  == c * e
         IN /\ (a * e + b * c) * (a * c - b * e) + (t + r) * (1 + d * (t * r))
                 = (-r) * Off(a, b) + (-t) * Off(c, e)
            /\ (b * e + a * c) * (b * c - a * e) + (t - r) * (1 - d * (t * r))
                 = r * Off(a, b) + (-t) * Off(c, e)
<1>1. d \in Int
  BY CurveIs
<1>2. (a * e + b * c) * (a * c - b * e) + (a * b + c * e) * (1 + d * ((a * b) * (c * e)))
        = (-(c * e)) * Off(a, b) + (-(a * b)) * Off(c, e)
  BY <1>1 DEF Off
<1>3. (b * e + a * c) * (b * c - a * e) + (a * b - c * e) * (1 - d * ((a * b) * (c * e)))
        = (c * e) * Off(a, b) + (-(a * b)) * Off(c, e)
  BY <1>1 DEF Off
<1>4. QED
  BY <1>2, <1>3

LEMMA ThreeThree ==
  ASSUME NEW a \in Int, NEW b \in Int, NEW c \in Int, NEW e \in Int
  PROVE  LET p  == a * e + b * c
             q  == b * e + a * c
             y  == b * c - a * e
             z  == a * c - b * e
             s1 == a * a + b * b
             s3 == c * c + e * e
             m1 == b * b - a * a
             m3 == e * e - c * c
             h  == a * b + c * e
             g  == a * b - c * e
         IN /\ s3 * m1 - s1 * m3 = 2 * (y * p)
            /\ s3 * m1 + s1 * m3 = -(2 * (z * q))
            /\ q * (m1 - m3) - z * (s3 - s1) = 2 * (y * h)
            /\ p * (m1 - m3) - y * (s3 + s1) = -(2 * (z * g))
OBVIOUS

\* d times a term that vanishes on the curve, so that the term does.
LEMMA ThreeFour ==
  ASSUME NEW a \in Int, NEW b \in Int, NEW c \in Int, NEW e \in Int,
         El(Off(a, b)) = 0, El(Off(c, e)) = 0
  PROVE  LET t  == a * b
             r  == c * e
             p  == a * e + b * c
             q  == b * e + a * c
             y  == b * c - a * e
             z  == a * c - b * e
             s1 == a * a + b * b
             s3 == c * c + e * e
         IN /\ El(p * z + (t + r) * (1 + d * (t * r))) = 0
            /\ El(q * y + (t - r) * (1 - d * (t * r))) = 0
            /\ El((q * (t * t - r * r) + (2 * y) * ((t * r) * (t + r))) + z * (s3 * (t * t) - s1 * (r * r))) = 0
            /\ El((p * (t * t - r * r) + y * (s3 * (t * t) + s1 * (r * r))) + (2 * z) * ((t * r) * (t - r))) = 0
<1> DEFINE t  == a * b
           r  == c * e
           p  == a * e + b * c
           q  == b * e + a * c
           y  == b * c - a * e
           z  == a * c - b * e
           s1 == a * a + b * b
           s3 == c * c + e * e
           m1 == b * b - a * a
           m3 == e * e - c * c
           h  == t + r
           g  == t - r
           c1 == Off(a, b)
           c3 == Off(c, e)
           k1 == p * z + h * (1 + d * (t * r))
           k2 == q * y + g * (1 - d * (t * r))
           i3 == (q * (t * t - r * r) + (2 * y) * ((t * r) * h)) + z * (s3 * (t * t) - s1 * (r * r))
           i4 == (p * (t * t - r * r) + y * (s3 * (t * t) + s1 * (r * r))) + (2 * z) * ((t * r) * g)
<1>1. /\ t \in Int /\ r \in Int /\ p \in Int /\ q \in Int /\ y \in Int /\ z \in Int /\ s1 \in Int
      /\ s3 \in Int /\ m1 \in Int /\ m3 \in Int /\ h \in Int /\ g \in Int /\ d \in Int
  BY CurveIs
<1>2. c1 \in Int /\ c3 \in Int /\ c1 = m1 - (1 + d * (t * t)) /\ c3 = m3 - (1 + d * (r * r))
  BY <1>1 DEF Off
<1>3. k1 = (-r) * c1 + (-t) * c3 /\ k2 = r * c1 + (-t) * c3
  BY ThreeTwo
<1>4. /\ s3 * m1 - s1 * m3 = 2 * (y * p)
      /\ s3 * m1 + s1 * m3 = -(2 * (z * q))
      /\ q * (m1 - m3) - z * (s3 - s1) = 2 * (y * h)
      /\ p * (m1 - m3) - y * (s3 + s1) = -(2 * (z * g))
  BY ThreeThree
<1>5. El(c1) = 0 /\ El(c3) = 0
  OBVIOUS
<1> HIDE DEF c1, c3
<1>6. k1 \in Int /\ k2 \in Int /\ El(k1) = 0 /\ El(k2) = 0
  <2> DEFINE f == -r
             j == -t
  <2>1. f \in Int /\ j \in Int
    BY <1>1
  <2> HIDE DEF f, j, t, r
  <2>2. El(f * c1 + j * c3) = 0
    BY <2>1, <1>2, <1>5, ZeroSum
  <2>4. El(r * c1 + j * c3) = 0
    <3>1. r \in Int /\ j \in Int /\ c1 \in Int /\ c3 \in Int /\ El(c1) = 0 /\ El(c3) = 0
      BY <2>1, <1>1, <1>2, <1>5
    <3>2. QED
      BY ONLY <3>1, ZeroSum
  <2> HIDE DEF p, q, y, z, h, g
  <2>5. k1 \in Int /\ k2 \in Int
    BY <1>1
  <2>6. k1 = f * c1 + j * c3 /\ k2 = r * c1 + j * c3
    BY <1>3 DEF f, j
  <2>3. QED
    BY <2>2, <2>4, <2>5, <2>6
<1> HIDE DEF p, q, y, z, s1, s3, m1, m3
<1> DEFINE T == d * (t * t)
           R == d * (r * r)
           X == d * (t * r)
<1>7. T \in Int /\ R \in Int /\ X \in Int /\ T = (m1 - 1) - c1 /\ R = (m3 - 1) - c3
      /\ h * X = (k1 - p * z) - h /\ g * X = (q * y + g) - k2
  <2>1. T \in Int /\ R \in Int /\ X \in Int
    BY <1>1
  <2>2. T = (m1 - 1) - c1 /\ R = (m3 - 1) - c3
    BY <1>1, <1>2
  <2> HIDE DEF h, g
  <2>3. k1 = p * z + h * (1 + X) /\ k2 = q * y + g * (1 - X)
    OBVIOUS
  <2> HIDE DEF X
  <2>4. h * X = (k1 - p * z) - h /\ g * X = (q * y + g) - k2
    BY <2>1, <2>3, <1>1
  <2>5. QED
    BY <2>1, <2>2, <2>4
<1>8. d * i3 = (q * (T - R) + (2 * y) * (h * X)) + z * (s3 * T - s1 * R)
  <2> HIDE DEF h, g, t, r
  <2>1. QED
    BY <1>1
<1>9. d * i4 = (p * (T - R) + y * (s3 * T + s1 * R)) + (2 * z) * (g * X)
  <2> HIDE DEF h, g, t, r
  <2>1. QED
    BY <1>1
<1>10. i3 \in Int /\ i4 \in Int
  <2> HIDE DEF h, g, t, r
  <2>1. QED
    BY <1>1
<1> DEFINE f1 == -(q + z * s3)
           f3 == q + z * s1
           f2 == 2 * y
           g1 == -(p + y * s3)
           g3 == p - y * s1
           g2 == -(2 * z)
<1>11. f1 \in Int /\ f2 \in Int /\ f3 \in Int /\ g1 \in Int /\ g2 \in Int /\ g3 \in Int
  BY <1>1
<1> HIDE DEF T, R, X, k1, k2, h, g, i3, i4
<1>12. d * i3 = Three(f2, k1, f1, c1, f3, c3)
  <2>1. (q * (T - R) + (2 * y) * (h * X)) + z * (s3 * T - s1 * R)
          = (((q * (m1 - m3) - z * (s3 - s1)) - 2 * (y * h)) + z * ((s3 * m1 - s1 * m3) - 2 * (y * p)))
              + ((f2 * k1 + f1 * c1) + f3 * c3)
    BY <1>1, <1>2, <1>6, <1>7
  <2>2. z * ((s3 * m1 - s1 * m3) - 2 * (y * p)) = 0 /\ (q * (m1 - m3) - z * (s3 - s1)) - 2 * (y * h) = 0
    <3>1. (s3 * m1 - s1 * m3) - 2 * (y * p) = 0 /\ (q * (m1 - m3) - z * (s3 - s1)) - 2 * (y * h) = 0
      BY <1>1, <1>4
    <3>2. z * 0 = 0
      BY <1>1
    <3>3. QED
      BY <3>1, <3>2
  <2> HIDE DEF f1, f2, f3
  <2>3. (f2 * k1 + f1 * c1) + f3 * c3 \in Int
    BY <1>11, <1>2, <1>6
  <2>4. QED
    BY <1>8, <2>1, <2>2, <2>3 DEF Three
<1>13. d * i4 = Three(g2, k2, g1, c1, g3, c3)
  <2>1. (p * (T - R) + y * (s3 * T + s1 * R)) + (2 * z) * (g * X)
          = (((p * (m1 - m3) - y * (s3 + s1)) + 2 * (z * g)) + y * ((s3 * m1 + s1 * m3) + 2 * (z * q)))
              + ((g2 * k2 + g1 * c1) + g3 * c3)
    BY <1>1, <1>2, <1>6, <1>7
  <2>2. y * ((s3 * m1 + s1 * m3) + 2 * (z * q)) = 0 /\ (p * (m1 - m3) - y * (s3 + s1)) + 2 * (z * g) = 0
    <3>1. (s3 * m1 + s1 * m3) + 2 * (z * q) = 0 /\ (p * (m1 - m3) - y * (s3 + s1)) + 2 * (z * g) = 0
      BY <1>1, <1>4
    <3>2. y * 0 = 0
      BY <1>1
    <3>3. QED
      BY <3>1, <3>2
  <2> HIDE DEF g1, g2, g3
  <2>3. (g2 * k2 + g1 * c1) + g3 * c3 \in Int
    BY <1>11, <1>2, <1>6
  <2>4. QED
    BY <1>9, <2>1, <2>2, <2>3 DEF Three
<1> HIDE DEF f1, f2, f3, g1, g2, g3
<1>14. El(d * i3) = 0 /\ El(d * i4) = 0
  <2>4. /\ k1 \in Int /\ c1 \in Int /\ c3 \in Int /\ f2 \in Int /\ f1 \in Int /\ f3 \in Int
        /\ El(k1) = 0 /\ El(c1) = 0 /\ El(c3) = 0
    BY <1>2, <1>5, <1>6, <1>11
  <2>1. El(Three(f2, k1, f1, c1, f3, c3)) = 0
    BY ONLY <2>4, ZeroThree
  <2>5. /\ k2 \in Int /\ c1 \in Int /\ c3 \in Int /\ g2 \in Int /\ g1 \in Int /\ g3 \in Int
        /\ El(k2) = 0 /\ El(c1) = 0 /\ El(c3) = 0
    BY <1>2, <1>5, <1>6, <1>11
  <2>2. El(Three(g2, k2, g1, c1, g3, c3)) = 0
    BY ONLY <2>5, ZeroThree
  <2>3. QED
    BY <2>1, <2>2, <1>12, <1>13
<1>15. El(i3) = 0 /\ El(i4) = 0
  <2>1. El(d) # 0 /\ d \in Int
    BY CurveIs
  <2>2. QED
    BY <2>1, <1>10, <1>14, ElZero
<1>16. El(k1) = 0 /\ El(k2) = 0
  BY <1>6
<1>17. QED
  BY <1>15, <1>16 DEF i3, i4, k1, k2, h, g, t, r, p, q, y, z, s1, s3

LEMMA ThreeFive ==
  ASSUME NEW t \in Int, NEW r \in Int, NEW w \in Int, NEW g \in Int, NEW s1 \in Int, NEW s3 \in Int
  PROVE  LET d1 == (1 - (w * w) * (t * t)) + (g * t + w * s1) * r
             d2 == (1 - (w * w) * (r * r)) + (g * r + w * s3) * t
             m  == w * w
         IN /\ d2 - d1 = w * (w * (t * t - r * r) + (s3 * t - s1 * r))
            /\ t * d2 + r * d1 = (t + r) * (1 + (g - m) * (t * r)) + w * (s3 * (t * t) + s1 * (r * r))
            /\ t * d2 - r * d1 = (t - r) * (1 + (g + m) * (t * r)) + w * (s3 * (t * t) - s1 * (r * r))
OBVIOUS

LEMMA ThreeSix ==
  ASSUME NEW u \in Int, NEW v \in Int
  PROVE  LET w == d * (u * v)
             g == d * (u * u + v * v)
         IN /\ g - w * w = d * ((2 * (u * u) + 1) + Off(u, v))
            /\ g + w * w = d * ((2 * (v * v) - 1) - Off(u, v))
<1>1. d \in Int
  BY CurveIs
<1>2. QED
  BY <1>1 DEF Off

LEMMA ThreeSeven ==
  ASSUME NEW a \in Int, NEW b \in Int, NEW c \in Int, NEW e \in Int, NEW u \in Int, NEW v \in Int,
         El(Off(a, b)) = 0, El(Off(u, v)) = 0, El(Off(c, e)) = 0
  PROVE  El(Num(a, b, u, v, c, e) * Den(c, e, u, v, a, b))
           = El(Num(c, e, u, v, a, b) * Den(a, b, u, v, c, e))
<1> DEFINE t  == a * b
           r  == c * e
           p  == a * e + b * c
           q  == b * e + a * c
           y  == b * c - a * e
           z  == a * c - b * e
           s1 == a * a + b * b
           s3 == c * c + e * e
           k1 == p * z + (t + r) * (1 + d * (t * r))
           k2 == q * y + (t - r) * (1 - d * (t * r))
           i3 == (q * (t * t - r * r) + (2 * y) * ((t * r) * (t + r))) + z * (s3 * (t * t) - s1 * (r * r))
           i4 == (p * (t * t - r * r) + y * (s3 * (t * t) + s1 * (r * r))) + (2 * z) * ((t * r) * (t - r))
           w  == d * (u * v)
           g  == d * (u * u + v * v)
           c2 == Off(u, v)
           m  == v * p + u * q
           n1 == m + (w * t) * (v * y + u * z)
           n2 == m + (w * r) * (u * z - v * y)
           d1 == (1 - (w * w) * (t * t)) + (g * t + w * s1) * r
           d2 == (1 - (w * w) * (r * r)) + (g * r + w * s3) * t
<1>1. El(k1) = 0 /\ El(k2) = 0 /\ El(i3) = 0 /\ El(i4) = 0 /\ El(c2) = 0
  BY ThreeFour
<1>2. d \in Int
  BY CurveIs
<1>3. Num(a, b, u, v, c, e) = n1 /\ Den(a, b, u, v, c, e) = d1
  BY SMTT(60), ThreeOne
<1>4. Num(c, e, u, v, a, b) = n2 /\ Den(c, e, u, v, a, b) = d2
  <2>1. /\ Num(c, e, u, v, a, b)
             = (v * (c * b + e * a) + u * (e * b + c * a))
                 + (w * r) * (v * (e * a - c * b) + u * (c * a - e * b))
        /\ Den(c, e, u, v, a, b) = d2
    BY SMTT(60), ThreeOne
  <2>2. c * b + e * a = p /\ e * b + c * a = q /\ e * a - c * b = -y /\ c * a - e * b = z
    OBVIOUS
  <2>3. y \in Int /\ z \in Int /\ w \in Int /\ r \in Int /\ v * (-y) + u * z = u * z - v * y
    <3>1. y \in Int /\ z \in Int /\ w \in Int /\ r \in Int
      BY <1>2
    <3> HIDE DEF y, z
    <3>2. QED
      BY <3>1
  <2> HIDE DEF p, q, y, z, d2
  <2>4. QED
    BY <2>1, <2>2, <2>3
<1>5. s3 * t - s1 * r = y * z
  OBVIOUS
<1>6. /\ t \in Int /\ r \in Int /\ p \in Int /\ q \in Int /\ y \in Int /\ z \in Int /\ s1 \in Int /\ s3 \in Int
      /\ w \in Int /\ g \in Int /\ m \in Int
  BY <1>2
<1>15. c2 \in Int
  BY <1>2 DEF Off
<1>7. g - w * w = d * ((2 * (u * u) + 1) + c2) /\ g + w * w = d * ((2 * (v * v) - 1) - c2) /\ w = d * (u * v)
  BY ThreeSix
<1> HIDE DEF t, r, p, q, y, z, s1, s3, w, g, c2
<1>8. /\ d2 - d1 = w * (w * (t * t - r * r) + (s3 * t - s1 * r))
      /\ t * d2 + r * d1 = (t + r) * (1 + (g - w * w) * (t * r)) + w * (s3 * (t * t) + s1 * (r * r))
      /\ t * d2 - r * d1 = (t - r) * (1 + (g + w * w) * (t * r)) + w * (s3 * (t * t) - s1 * (r * r))
  BY <1>6, ThreeFive
<1>9. n1 \in Int /\ n2 \in Int /\ d1 \in Int /\ d2 \in Int /\ k1 \in Int /\ k2 \in Int /\ i3 \in Int /\ i4 \in Int
  BY <1>2, <1>6
<1> DEFINE j1 == w * (t * t - r * r) + y * z
           j2 == (t + r) * (1 + (g - w * w) * (t * r)) + w * (s3 * (t * t) + s1 * (r * r))
           j3 == (t - r) * (1 + (g + w * w) * (t * r)) + w * (s3 * (t * t) - s1 * (r * r))
           J  == (m * j1 + (v * y) * j2) + (u * z) * j3
<1>10. n1 * d2 - n2 * d1 = w * J
  <2>1. d2 - d1 = w * j1 /\ t * d2 + r * d1 = j2 /\ t * d2 - r * d1 = j3
    BY <1>5, <1>8
  <2>2. j1 \in Int /\ j2 \in Int /\ j3 \in Int
    BY <1>6
  <2> HIDE DEF d1, d2, j1, j2, j3, m
  <2>3. n1 * d2 - n2 * d1
          = (m * (d2 - d1) + w * ((v * y) * (t * d2 + r * d1))) + w * ((u * z) * (t * d2 - r * d1))
    BY <1>6, <1>9
  <2>4. n1 * d2 - n2 * d1 = (m * (w * j1) + w * ((v * y) * j2)) + w * ((u * z) * j3)
    BY <2>1, <2>3
  <2>5. (m * (w * j1) + w * ((v * y) * j2)) + w * ((u * z) * j3) = w * J
    BY <1>6, <2>2
  <2>6. QED
    BY <2>4, <2>5
<1> DEFINE f1 == v * y
           f2 == u * z
           f3 == d * ((u * u) * v)
           f4 == d * (u * (v * v))
           f5 == (d * (t * r)) * ((v * y) * (t + r) - (u * z) * (t - r))
<1>11. J = Three(f1, k1, f2, k2, f3, i3) + (f4 * i4 + f5 * c2)
  <2>1. j2 = (t + r) * (1 + (d * ((2 * (u * u) + 1) + c2)) * (t * r)) + (d * (u * v)) * (s3 * (t * t) + s1 * (r * r))
    BY <1>7
  <2>2. j3 = (t - r) * (1 + (d * ((2 * (v * v) - 1) - c2)) * (t * r)) + (d * (u * v)) * (s3 * (t * t) - s1 * (r * r))
    BY <1>7
  <2>3. j1 = (d * (u * v)) * (t * t - r * r) + y * z
    BY <1>7
  <2> HIDE DEF j1, j2, j3
  <2>4. QED
    BY <2>1, <2>2, <2>3, <1>2, <1>6, <1>15 DEF Three
<1>12. El(J) = 0
  <2>1. /\ f1 \in Int /\ f2 \in Int /\ f3 \in Int /\ f4 \in Int /\ f5 \in Int
    BY <1>2, <1>6
  <2> HIDE DEF f1, f2, f3, f4, f5, k1, k2, i3, i4, J
  <2>2. f1 \in Int /\ f2 \in Int /\ f3 \in Int /\ k1 \in Int /\ k2 \in Int /\ i3 \in Int
        /\ El(k1) = 0 /\ El(k2) = 0 /\ El(i3) = 0
    BY <1>1, <1>9, <2>1
  <2>3. El(Three(f1, k1, f2, k2, f3, i3)) = 0
    BY ONLY <2>2, ZeroThree
  <2>4. f4 \in Int /\ f5 \in Int /\ i4 \in Int /\ c2 \in Int /\ El(i4) = 0 /\ El(c2) = 0
    BY <1>1, <1>9, <1>15, <2>1
  <2>5. El(f4 * i4 + f5 * c2) = 0
    BY ONLY <2>4, ZeroSum
  <2> DEFINE x1 == Three(f1, k1, f2, k2, f3, i3)
             x2 == f4 * i4 + f5 * c2
  <2>6. x1 \in Int /\ x2 \in Int
    BY <2>2, <2>4 DEF Three
  <2>7. El(x1) = 0 /\ El(x2) = 0
    BY <2>3, <2>5
  <2> HIDE DEF x1, x2
  <2>8. El(x1 + x2) = 0
    BY <2>6, <2>7, ZeroPlus
  <2>9. QED
    BY <2>8, <1>11 DEF x1, x2
<1>13. El(w * J) = 0
  <2>1. J \in Int
    BY <1>6
  <2> HIDE DEF J
  <2>2. QED
    BY <2>1, <1>6, <1>12, ZeroTimes
<1>14. El(n1 * d2) = El(n2 * d1)
  <2> DEFINE x1 == n1 * d2
             x2 == n2 * d1
  <2>1. x1 \in Int /\ x2 \in Int /\ El(x1 - x2) = 0
    BY <1>9, <1>10, <1>13
  <2> HIDE DEF x1, x2
  <2>2. El(x1) = El(x2)
    BY <2>1, ElSame
  <2>3. QED
    BY <2>2 DEF x1, x2
<1>16. QED
  BY <1>3, <1>4, <1>14

Origin == <<0, 1>>

LEMMA OffSame ==
  ASSUME NEW x \in Int, NEW y \in Int, NEW u \in Int, NEW v \in Int,
         El(x) = El(u), El(y) = El(v)
  PROVE  El(Off(x, y)) = 0 <=> El(Off(u, v)) = 0
<1>1. fe_sq(x) = fe_sq(u) /\ fe_sq(y) = fe_sq(v)
  <2>1. El(x * x) = El(u * u)
    BY ElMul
  <2>2. El(y * y) = El(v * v)
    BY ElMul
  <2>3. QED
    BY <2>1, <2>2, FeOne
<1>2. OnCurve(<<x, y>>) <=> OnCurve(<<u, v>>)
  BY <1>1 DEF OnCurve
<1>3. QED
  BY <1>2, OnCurveIs

\* A point from integers that stand for its coordinates.
LEMMA PointFrom ==
  ASSUME NEW x \in Int, NEW y \in Int, El(Off(x, y)) = 0
  PROVE  <<El(x), El(y)>> \in Affine
<1>1. El(x) \in Field /\ El(y) \in Field /\ El(x) \in Int /\ El(y) \in Int /\ El(El(x)) = El(x) /\ El(El(y)) = El(y)
  BY ElIs
<1> DEFINE u == El(x)
           v == El(y)
           p == <<u, v>>
<1>2. El(Off(u, v)) = 0
  BY <1>1, OffSame
<1>3. p[1] = u /\ p[2] = v /\ p = <<p[1], p[2]>>
  OBVIOUS
<1>4. p[1] \in Field /\ p[2] \in Field
  BY <1>1
<1> HIDE DEF p, u, v
<1>5. p \in Affine
  BY <1>2, <1>3, <1>4, AffineIs
<1>6. QED
  BY <1>5 DEF p, u, v

LEMMA SumFrom ==
  ASSUME NEW p \in Affine, NEW q \in Affine, NEW x \in Int, NEW y \in Int,
         El((1 + Cross(p, q)) * x) = El(p[1] * q[2] + q[1] * p[2]),
         El((1 - Cross(p, q)) * y) = El(p[2] * q[2] + p[1] * q[1])
  PROVE  AffineAdd(p, q) = <<El(x), El(y)>>
<1> DEFINE r == <<El(x), El(y)>>
           f == 1 + Cross(p, q)
           g == 1 - Cross(p, q)
<1>1. f \in Int /\ g \in Int
  BY CrossIs
<1> HIDE DEF f, g
<1>2. El(f * El(x)) = El(f * x) /\ El(g * El(y)) = El(g * y)
  BY <1>1, ElIn
<1>3. Sums(p, q, r)
  BY <1>2 DEF Sums, f, g
<1>4. r \in Field \X Field
  BY ElIs
<1> HIDE DEF r
<1>5. r = AffineAdd(p, q)
  BY <1>3, <1>4, SumIs
<1>6. QED
  BY <1>5 DEF r

LEMMA Commutes ==
  ASSUME NEW p \in Affine, NEW q \in Affine
  PROVE  AffineAdd(p, q) = AffineAdd(q, p)
<1> DEFINE r == AffineAdd(p, q)
<1>1. r \in Field \X Field /\ Sums(p, q, r)
  BY SumIn
<1>2. p[1] \in Int /\ p[2] \in Int /\ q[1] \in Int /\ q[2] \in Int /\ d \in Int
  BY AffineInts, CurveIs
<1>3. Cross(p, q) = Cross(q, p)
  BY <1>2 DEF Cross
<1>4. p[1] * q[2] + q[1] * p[2] = q[1] * p[2] + p[1] * q[2] /\ p[2] * q[2] + p[1] * q[1] = q[2] * p[2] + q[1] * p[1]
  BY <1>2
<1> HIDE DEF r
<1>5. Sums(q, p, r)
  BY <1>1, <1>3, <1>4 DEF Sums
<1>6. r = AffineAdd(q, p)
  BY <1>1, <1>5, SumIs
<1>7. QED
  BY <1>6 DEF r

LEMMA OriginIs ==
  Origin \in Affine /\ \A p \in Affine : AffineAdd(p, Origin) = p /\ AffineAdd(Origin, p) = p
<1>1. Origin \in Affine
  <2>1. Off(0, 1) = 0
    BY CurveIs DEF Off
  <2>2. <<El(0), El(1)>> \in Affine
    <3>1. 0 \in Int /\ 1 \in Int /\ El(Off(0, 1)) = 0
      BY <2>1, OneIs
    <3>2. QED
      BY <3>1, PointFrom
  <2>3. QED
    BY <2>2, OneIs DEF Origin
<1>2. ASSUME NEW p \in Affine
      PROVE  AffineAdd(p, Origin) = p
  <2>1. p[1] \in Int /\ p[2] \in Int /\ El(p[1]) = p[1] /\ El(p[2]) = p[2] /\ p = <<p[1], p[2]>> /\ d \in Int
    BY AffineInts, CurveIs
  <2>2. Origin[1] = 0 /\ Origin[2] = 1
    BY DEF Origin
  <2>3. Cross(p, Origin) = 0
    BY <2>1, <2>2 DEF Cross
  <2>4. /\ (1 + Cross(p, Origin)) * p[1] = p[1] * Origin[2] + Origin[1] * p[2]
        /\ (1 - Cross(p, Origin)) * p[2] = p[2] * Origin[2] + p[1] * Origin[1]
    BY <2>1, <2>2, <2>3
  <2>5. AffineAdd(p, Origin) = <<El(p[1]), El(p[2])>>
    BY <1>1, <2>1, <2>4, SumFrom
  <2>6. QED
    BY <2>1, <2>5
<1>3. QED
  BY <1>1, <1>2, Commutes

LEMMA NegatedIs ==
  ASSUME NEW p \in Affine
  PROVE  /\ Negated(p) \in Affine /\ Negated(p) = <<El(-p[1]), p[2]>> /\ Negated(p)[1] = El(-p[1]) /\ Negated(p)[2] = p[2]
         /\ AffineAdd(p, Negated(p)) = Origin
<1> DEFINE x == p[1]
           y == p[2]
           m == El(-x)
           n == Negated(p)
<1>1. x \in Int /\ y \in Int /\ El(x) = x /\ El(y) = y /\ d \in Int /\ El(Off(x, y)) = 0
  BY AffineInts, CurveIs, AffineIs
<1>2. n = <<m, y>> /\ n[1] = m /\ n[2] = y
  BY <1>1, FeOne DEF Negated
<1>3. Off(-x, y) = Off(x, y)
  <2> HIDE DEF x, y
  <2>1. (-x) * (-x) = x * x /\ ((-x) * y) * ((-x) * y) = (x * y) * (x * y)
    BY <1>1
  <2>2. QED
    BY <2>1 DEF Off
<1>4. <<El(-x), El(y)>> \in Affine
  <2>1. -x \in Int /\ El(Off(-x, y)) = 0
    BY <1>1, <1>3
  <2>2. QED
    BY <2>1, <1>1, PointFrom
<1>5. n \in Affine
  BY <1>1, <1>2, <1>4
<1> DEFINE w == -x
<1>8. w \in Int
  BY <1>1
<1>9. PICK j \in Int : w = P * j + El(w)
  BY <1>8, ElIs
<1>6. m \in Int /\ m = w - P * j
  <2>1. m \in Int /\ m = El(w)
    BY <1>8, ElIs
  <2> HIDE DEF m, w
  <2>2. QED
    BY <2>1, <1>8, <1>9, PrimeIs
<1> HIDE DEF m
<1>7. AffineAdd(p, n) = <<El(0), El(1)>>
  <2> DEFINE k == Cross(p, n)
  <2>1. k = d * ((x * y) * (m * y)) /\ k \in Int
    <3>1. k = d * ((x * y) * (m * y))
      BY <1>2 DEF Cross
    <3>2. QED
      BY <3>1, <1>1, <1>6
  <2>2. El((1 + k) * 0) = El(x * y + m * y)
    <3>1. (1 + k) * 0 = 0
      BY <2>1
    <3>2. x * y + m * y = P * (-(j * y)) + 0
      <4> HIDE DEF x, y
      <4>1. x * y + (w - P * j) * y = P * (-(j * y)) + 0
        BY <1>1, PrimeIs
      <4>2. QED
        BY <4>1, <1>6
    <3>3. -(j * y) \in Int
      BY <1>1
    <3>4. El(P * (-(j * y)) + 0) = El(0)
      BY <3>3, ElMore
    <3>5. QED
      BY <3>1, <3>2, <3>4
  <2>3. El((1 - k) * 1) = El(y * y + x * m)
    <3> DEFINE a == (1 - k) * 1
               b == y * y + x * m
               c == -(x * j + (d * (x * y)) * (y * j))
    <3>1. a \in Int /\ b \in Int /\ c \in Int
      BY <1>1, <1>6, <2>1
    <3>2. b - a = P * c + Off(x, y)
      <4> HIDE DEF k, x, y
      <4>1. b - a = (y * y + x * m) - (1 - d * ((x * y) * (m * y)))
        BY <2>1, <1>1, <1>6
      <4>2. m = (-x) - P * j
        BY <1>6
      <4>3. (y * y + x * ((-x) - P * j)) - (1 - d * ((x * y) * (((-x) - P * j) * y))) = P * c + Off(x, y)
        BY <1>1, PrimeIs DEF Off
      <4>4. QED
        BY <4>1, <4>2, <4>3
    <3>3. Off(x, y) \in Int
      BY <1>1 DEF Off
    <3> HIDE DEF a, b, c, x, y
    <3>4. El(P * c + Off(x, y)) = 0
      BY <3>1, <3>3, <1>1, ElMore
    <3>5. El(b) = El(a)
      BY <3>1, <3>2, <3>4, ElSame
    <3>6. QED
      BY <3>5 DEF a, b, x, y
  <2>4. El((1 + Cross(p, n)) * 0) = El(p[1] * n[2] + n[1] * p[2]) /\ El((1 - Cross(p, n)) * 1) = El(p[2] * n[2] + p[1] * n[1])
    BY <1>2, <2>2, <2>3
  <2> HIDE DEF n
  <2>5. 0 \in Int /\ 1 \in Int
    OBVIOUS
  <2>6. QED
    BY <1>5, <2>4, <2>5, SumFrom
<1>10. QED
  BY <1>2, <1>5, <1>7, OneIs DEF Origin, m

\* The sum with a point of order 4: what is said of one coordinate holds of the other.
Turned(p) == <<El(sqrtm1 * p[2]), El(sqrtm1 * p[1])>>

LEMMA TurnedIs ==
  ASSUME NEW p \in Affine
  PROVE  Turned(p) \in Affine
<1> DEFINE i == sqrtm1
           x == p[1]
           y == p[2]
           a == i * y
           b == i * x
           m == i * i + 1
           f == (x * x - y * y) - (d * ((x * y) * (x * y))) * (i * i - 1)
           o == 1
<1>1. x \in Int /\ y \in Int /\ i \in Int /\ d \in Int /\ El(Off(x, y)) = 0
  BY AffineInts, CurveIs, AffineIs, MinusOne
<1>2. El(m) = 0
  <2> DEFINE u == i * i
             v == -1
  <2>1. u \in Int /\ v \in Int /\ u - v = m /\ El(u) = El(v)
    BY <1>1, MinusOne
  <2> HIDE DEF u, v, m
  <2>2. QED
    BY <2>1, ElSame
<1>3. Off(a, b) = f * m + o * Off(x, y)
  <2> HIDE DEF i, x, y
  <2>1. QED
    BY <1>1 DEF Off
<1>4. a \in Int /\ b \in Int /\ m \in Int /\ f \in Int /\ Off(x, y) \in Int /\ o \in Int
  BY <1>1 DEF Off
<1> HIDE DEF a, b, m, f, o
<1>5. El(f * m + o * Off(x, y)) = 0
  <2> DEFINE z == Off(x, y)
  <2>1. f \in Int /\ m \in Int /\ o \in Int /\ z \in Int /\ El(m) = 0 /\ El(z) = 0
    BY <1>1, <1>2, <1>4
  <2> HIDE DEF z
  <2>2. El(f * m + o * z) = 0
    BY ONLY <2>1, ZeroSum
  <2>3. QED
    BY <2>2 DEF z
<1>6. <<El(a), El(b)>> \in Affine
  BY <1>3, <1>4, <1>5, PointFrom
<1>7. QED
  BY <1>6 DEF Turned, a, b

LEMMA TurnedSum ==
  ASSUME NEW p \in Affine, NEW q \in Affine
  PROVE  AffineAdd(Turned(p), q) = Turned(AffineAdd(p, q))
<1> DEFINE i == sqrtm1
           x == p[1]
           y == p[2]
           u == q[1]
           v == q[2]
           a == i * y
           b == i * x
           t == Turned(p)
           r == AffineAdd(p, q)
           k == Cross(p, q)
           j == Cross(t, q)
<1>1. x \in Int /\ y \in Int /\ u \in Int /\ v \in Int /\ i \in Int /\ d \in Int /\ k \in Int
  BY AffineInts, CurveIs, MinusOne, CrossIs
<1>2. t \in Affine /\ j \in Int /\ t[1] = El(a) /\ t[2] = El(b)
  BY TurnedIs, CrossIs DEF Turned
<1>3. r \in Affine /\ r[1] \in Int /\ r[2] \in Int
  BY SumClosed, AffineInts
<1>4. El((1 + k) * r[1]) = El(x * v + u * y) /\ El((1 - k) * r[2]) = El(y * v + x * u)
  BY SumIn DEF Sums
<1>5. El(j) = El(-k)
  <2> DEFINE g == El(a) * El(b)
             h == a * b
             w == u * v
             c == x * y
             n == i * i
             e == (d * c) * w
  <2>1. El(a) \in Int /\ El(b) \in Int /\ a \in Int /\ b \in Int /\ w \in Int /\ c \in Int /\ n \in Int /\ e \in Int
    <3>1. a \in Int /\ b \in Int /\ w \in Int /\ c \in Int /\ n \in Int /\ e \in Int
      BY <1>1
    <3> HIDE DEF a, b
    <3>2. QED
      BY <3>1, ElIs
  <2>2. El(g) = El(h) /\ g \in Int /\ h \in Int
    <3> HIDE DEF a, b
    <3>1. El(g) = El(h)
      BY <2>1, ElIn
    <3>2. QED
      BY <2>1, <3>1
  <2>3. j = (d * w) * g
    <3>1. j = d * (g * w)
      BY <1>2 DEF Cross
    <3> HIDE DEF g, w
    <3>2. QED
      BY <3>1, <2>1, <2>2, <1>1
  <2>4. k = e
    <3>1. k = d * (c * w)
      BY DEF Cross
    <3> HIDE DEF k, c, w
    <3>2. QED
      BY <3>1, <2>1, <1>1
  <2>5. (d * w) * h = n * e
    BY <1>1
  <2>6. El((d * w) * g) = El((d * w) * h)
    <3> DEFINE z == d * w
    <3>1. z \in Int
      BY <1>1
    <3> HIDE DEF z, g, h
    <3>2. El(z * g) = El(z * h)
      BY <2>2, <3>1, ElFactor
    <3>3. QED
      BY <3>2 DEF z
  <2>7. El(n * e) = El(-e)
    <3> DEFINE z == -1
    <3>1. z \in Int /\ El(n) = El(z) /\ z * e = -e
      BY <2>1, MinusOne
    <3> HIDE DEF z, n, e
    <3>2. El(n * e) = El(z * e)
      BY <2>1, <3>1, ElFactor
    <3>3. QED
      BY <3>1, <3>2
  <2>8. QED
    BY <2>3, <2>4, <2>5, <2>6, <2>7
<1> HIDE DEF r, j, t
<1> DEFINE r1 == r[1]
           r2 == r[2]
           X == i * r2
           Y == i * r1
           n == x * v + u * y
           m == y * v + x * u
<1>6. X \in Int /\ Y \in Int /\ n \in Int /\ m \in Int /\ r1 \in Int /\ r2 \in Int
  BY <1>1, <1>3
<1>7. El((1 + j) * X) = El(El(a) * v + u * El(b))
  <2> DEFINE f == 1 + j
             g == 1 - k
  <2>1. f \in Int /\ g \in Int
    BY <1>1, <1>2
  <2>2. El(f) = El(g)
    <3> DEFINE w == -k
               o == 1
    <3>1. w \in Int /\ El(j) = El(w) /\ o + w = g /\ o \in Int /\ o + j = f
      BY <1>1, <1>2, <1>5
    <3> HIDE DEF w, o, f, g
    <3>2. El(o + j) = El(o + w)
      BY <1>2, <3>1, ElPlus
    <3>3. QED
      BY <3>1, <3>2
  <2> HIDE DEF f, g, X
  <2>3. El(f * X) = El(g * X)
    BY <1>6, <2>1, <2>2, ElFactor
  <2>4. El(g * X) = El(i * m)
    <3> DEFINE w == g * r2
    <3>1. w \in Int /\ g * X = i * w /\ El(w) = El(m)
      BY <1>1, <1>4, <1>6, <2>1 DEF X, g
    <3> HIDE DEF w, m
    <3>4. i \in Int /\ w \in Int /\ m \in Int /\ El(w) = El(m)
      BY <1>1, <1>6, <3>1
    <3> HIDE DEF i
    <3>2. El(i * w) = El(i * m)
      BY ONLY <3>4, ElFactor
    <3>3. QED
      BY <3>1, <3>2
  <2>5. El(El(a) * v + u * El(b)) = El(i * m)
    <3> HIDE DEF a, b
    <3>1. a \in Int /\ b \in Int /\ El(a) \in Int /\ El(b) \in Int
      BY <1>1, ElIs DEF a, b
    <3>2. El(El(a) * v) = El(a * v) /\ El(u * El(b)) = El(u * b)
      BY ZenonT(60), <1>1, <3>1, ElIn
    <3> DEFINE e1 == El(a) * v
               e2 == a * v
               e3 == u * El(b)
               e4 == u * b
    <3>3. e1 \in Int /\ e2 \in Int /\ e3 \in Int /\ e4 \in Int /\ El(e1) = El(e2) /\ El(e3) = El(e4)
      BY <1>1, <3>1, <3>2
    <3>4. e2 + e4 = i * m
      BY <1>1 DEF a, b
    <3> HIDE DEF e1, e2, e3, e4
    <3>5. El(e1 + e3) = El(e2 + e4)
      BY <3>3, ElAdd
    <3>6. QED
      BY <3>4, <3>5 DEF e1, e3
  <2>6. QED
    BY <2>3, <2>4, <2>5 DEF f
<1>8. El((1 - j) * Y) = El(El(b) * v + El(a) * u)
  <2> DEFINE f == 1 - j
             g == 1 + k
  <2>1. f \in Int /\ g \in Int
    BY <1>1, <1>2
  <2>2. El(f) = El(g)
    <3> DEFINE w == -k
               o == 1
    <3>1. w \in Int /\ El(j) = El(w) /\ o - w = g /\ o \in Int /\ o - j = f
      BY <1>1, <1>2, <1>5
    <3> HIDE DEF w, o, f, g
    <3>2. El(o - j) = El(o - w)
      BY <1>2, <3>1, ElPlus
    <3>3. QED
      BY <3>1, <3>2
  <2> HIDE DEF f, g, Y
  <2>3. El(f * Y) = El(g * Y)
    BY <1>6, <2>1, <2>2, ElFactor
  <2>4. El(g * Y) = El(i * n)
    <3> DEFINE w == g * r1
    <3>1. w \in Int /\ g * Y = i * w /\ El(w) = El(n)
      BY <1>1, <1>4, <1>6, <2>1 DEF Y, g
    <3> HIDE DEF w, n
    <3>4. i \in Int /\ w \in Int /\ n \in Int /\ El(w) = El(n)
      BY <1>1, <1>6, <3>1
    <3> HIDE DEF i
    <3>2. El(i * w) = El(i * n)
      BY ONLY <3>4, ElFactor
    <3>3. QED
      BY <3>1, <3>2
  <2>5. El(El(b) * v + El(a) * u) = El(i * n)
    <3> HIDE DEF a, b
    <3>1. a \in Int /\ b \in Int /\ El(a) \in Int /\ El(b) \in Int
      BY <1>1, ElIs DEF a, b
    <3>2. El(El(b) * v) = El(b * v) /\ El(El(a) * u) = El(a * u)
      BY ZenonT(60), <1>1, <3>1, ElIn
    <3> DEFINE e1 == El(b) * v
               e2 == b * v
               e3 == El(a) * u
               e4 == a * u
    <3>3. e1 \in Int /\ e2 \in Int /\ e3 \in Int /\ e4 \in Int /\ El(e1) = El(e2) /\ El(e3) = El(e4)
      BY <1>1, <3>1, <3>2
    <3>4. e2 + e4 = i * n
      BY <1>1 DEF a, b
    <3> HIDE DEF e1, e2, e3, e4
    <3>5. El(e1 + e3) = El(e2 + e4)
      BY <3>3, ElAdd
    <3>6. QED
      BY <3>4, <3>5 DEF e1, e3
  <2>6. QED
    BY <2>3, <2>4, <2>5 DEF f
<1>9. AffineAdd(t, q) = <<El(X), El(Y)>>
  <2>1. El((1 + Cross(t, q)) * X) = El(t[1] * q[2] + q[1] * t[2])
    BY <1>2, <1>7 DEF j
  <2>2. El((1 - Cross(t, q)) * Y) = El(t[2] * q[2] + t[1] * q[1])
    BY <1>2, <1>8 DEF j
  <2> HIDE DEF X, Y
  <2>3. QED
    BY <1>2, <1>6, <2>1, <2>2, SumFrom
<1>10. QED
  BY <1>9 DEF t, r, Turned

LEMMA ElTimes ==
  ASSUME NEW a \in Int, NEW b \in Int, El(a) # 0, El(b) # 0
  PROVE  El(a * b) # 0
BY ElZero

LEMMA FirstWay ==
  ASSUME NEW p \in Affine, NEW q \in Affine, NEW r \in Affine
  PROVE  LET x == AffineAdd(AffineAdd(p, q), r)[1]
             n == Num(p[1], p[2], q[1], q[2], r[1], r[2])
             m == Den(p[1], p[2], q[1], q[2], r[1], r[2])
         IN /\ x \in Field /\ n \in Int /\ m \in Int /\ El(m) # 0 /\ El(m * x) = El(n)
<1> DEFINE a == p[1]
           b == p[2]
           u == q[1]
           v == q[2]
           c == r[1]
           e == r[2]
           k == Cross(p, q)
           o == AffineAdd(p, q)
           s == AffineAdd(o, r)
           y == o[1]
           z == o[2]
           h == Cross(o, r)
           x == s[1]
           n == a * v + u * b
           m == b * v + a * u
           f == 1 + k
           g == 1 - k
           j == 1 + h
           w == y * e + c * z
           D == Den(a, b, u, v, c, e)
           M == Num(a, b, u, v, c, e)
           X == f * y
           Y == g * z
           t == f * g
<1>1. a \in Int /\ b \in Int /\ u \in Int /\ v \in Int /\ c \in Int /\ e \in Int /\ d \in Int /\ k \in Int
  BY AffineInts, CurveIs, CrossIs
<1>2. o \in Affine
  BY SumClosed
<1>3. y \in Int /\ z \in Int /\ h \in Int
  <2> HIDE DEF o
  <2>1. QED
    BY <1>2, AffineInts, CrossIs
<1>4. s \in Affine
  <2> HIDE DEF o
  <2>1. QED
    BY <1>2, SumClosed
<1>5. x \in Field /\ x \in Int
  <2> HIDE DEF s
  <2>1. QED
    BY <1>4, AffineInts, AffineIs
<1>6. El(X) = El(n) /\ El(Y) = El(m) /\ El(j * x) = El(w)
  <2>1. El(X) = El(n) /\ El(Y) = El(m)
    BY SumIn DEF Sums
  <2>2. Sums(o, r, s)
    BY <1>2, SumIn
  <2>3. El(j * x) = El(w)
    BY <2>2 DEF Sums
  <2>4. QED
    BY <2>1, <2>3
<1>7. El(f) # 0 /\ El(g) # 0 /\ El(j) # 0
  BY <1>2, CrossIs
<1>8. /\ n \in Int /\ m \in Int /\ f \in Int /\ g \in Int /\ j \in Int /\ w \in Int /\ X \in Int
      /\ Y \in Int /\ t \in Int
  BY <1>1, <1>3
<1>9. k = (d * (u * v)) * (a * b)
  <2>1. k = d * ((a * b) * (u * v))
    BY DEF Cross
  <2> HIDE DEF k
  <2>2. QED
    BY <1>1, <2>1
<1>10. D = t + d * ((n * m) * (c * e)) /\ M = (n * g) * e + (c * m) * f
  BY <1>9 DEF Den, Num
<1>11. h = d * ((y * z) * (c * e))
  BY DEF Cross
<1> HIDE DEF a, b, u, v, c, e, k, o, s, y, z, h, x, D, M
<1>12. t * j = t + d * ((X * Y) * (c * e)) /\ t * w = (X * g) * e + (c * Y) * f
  <2> HIDE DEF f, g
  <2>1. t * (1 + h) = t + d * ((X * Y) * (c * e))
    BY <1>1, <1>3, <1>8, <1>11
  <2>2. t * w = (X * g) * e + (c * Y) * f
    BY <1>1, <1>3, <1>8
  <2>3. QED
    BY <2>1, <2>2
<1> HIDE DEF X, Y, n, m, f, g, j, w, t
<1>13. El(t * j) = El(D) /\ D \in Int
  <2> DEFINE x1 == X * Y
             x2 == n * m
             y1 == x1 * (c * e)
             y2 == x2 * (c * e)
             z1 == d * y1
             z2 == d * y2
             i == c * e
  <2>1. x1 \in Int /\ x2 \in Int /\ y1 \in Int /\ y2 \in Int /\ z1 \in Int /\ z2 \in Int /\ i \in Int
    BY <1>1, <1>8
  <2>2. El(x1) = El(x2)
    BY <1>6, <1>8, ElMul
  <2>3. El(y1) = El(y2)
    <3> HIDE DEF i, x1, x2
    <3>1. El(x1 * i) = El(x2 * i)
      BY <2>1, <2>2, ElFactor
    <3>2. QED
      BY <3>1 DEF i
  <2>4. El(z1) = El(z2)
    <3> HIDE DEF y1, y2
    <3>1. QED
      BY <1>1, <2>1, <2>3, ElFactor
  <2>5. D = t + z2 /\ t * j = t + z1
    BY <1>10, <1>12
  <2> HIDE DEF z1, z2
  <2>6. El(t + z1) = El(t + z2)
    BY <1>8, <2>1, <2>4, ElPlus
  <2>7. QED
    BY <1>8, <2>1, <2>5, <2>6
<1>14. El(t * w) = El(M) /\ M \in Int
  <2> DEFINE x1 == X * g
             x2 == n * g
             y1 == x1 * e
             y2 == x2 * e
             r1 == c * Y
             r2 == c * m
             s1 == r1 * f
             s2 == r2 * f
  <2>1. /\ x1 \in Int /\ x2 \in Int /\ y1 \in Int /\ y2 \in Int
        /\ r1 \in Int /\ r2 \in Int /\ s1 \in Int /\ s2 \in Int
    BY <1>1, <1>8
  <2>2. El(x1) = El(x2)
    <3>1. X \in Int /\ n \in Int /\ g \in Int /\ El(X) = El(n)
      BY <1>6, <1>8
    <3>2. QED
      BY ONLY <3>1, ElFactor
  <2>3. El(r1) = El(r2)
    BY <1>1, <1>6, <1>8, ElFactor
  <2> HIDE DEF x1, x2, r1, r2
  <2>4. El(y1) = El(y2)
    <3>1. x1 \in Int /\ x2 \in Int /\ e \in Int /\ El(x1) = El(x2)
      BY <1>1, <2>1, <2>2
    <3>2. QED
      BY ONLY <3>1, ElFactor
  <2>5. El(s1) = El(s2)
    <3>1. r1 \in Int /\ r2 \in Int /\ f \in Int /\ El(r1) = El(r2)
      BY <1>8, <2>1, <2>3
    <3>2. QED
      BY ONLY <3>1, ElFactor
  <2>6. M = y2 + s2 /\ t * w = y1 + s1
    BY <1>10, <1>12 DEF x1, x2, r1, r2
  <2> HIDE DEF y1, y2, s1, s2
  <2>7. El(y1 + s1) = El(y2 + s2)
    BY <2>1, <2>4, <2>5, ElAdd
  <2>8. QED
    BY <2>1, <2>6, <2>7
<1>15. El(D) # 0
  <2>1. El(t) # 0
    BY <1>7, <1>8, ElTimes DEF t
  <2>2. El(t * j) # 0
    BY <1>7, <1>8, <2>1, ElTimes
  <2>3. QED
    BY <1>13, <2>2
<1>16. El(D * x) = El(M)
  <2> DEFINE y1 == t * j
             y2 == j * x
  <2>1. y1 \in Int /\ El(y1) = El(D) /\ y2 \in Int /\ El(y2) = El(w) /\ y1 * x = t * y2
    BY <1>5, <1>6, <1>8, <1>13
  <2> HIDE DEF y1, y2
  <2>2. El(y1 * x) = El(D * x)
    BY <1>5, <1>13, <2>1, ElFactor
  <2>3. El(t * y2) = El(t * w)
    BY <1>8, <2>1, ElFactor
  <2>4. QED
    BY <1>14, <2>1, <2>2, <2>3
<1>17. QED
  BY <1>5, <1>13, <1>14, <1>15, <1>16 DEF a, b, u, v, c, e, s, o, x, D, M

LEMMA SameFirst ==
  ASSUME NEW p \in Affine, NEW q \in Affine, NEW r \in Affine
  PROVE  AffineAdd(AffineAdd(p, q), r)[1] = AffineAdd(AffineAdd(r, q), p)[1]
<1> DEFINE x1 == AffineAdd(AffineAdd(p, q), r)[1]
           n1 == Num(p[1], p[2], q[1], q[2], r[1], r[2])
           m1 == Den(p[1], p[2], q[1], q[2], r[1], r[2])
           x2 == AffineAdd(AffineAdd(r, q), p)[1]
           n2 == Num(r[1], r[2], q[1], q[2], p[1], p[2])
           m2 == Den(r[1], r[2], q[1], q[2], p[1], p[2])
<1>1. x1 \in Field /\ n1 \in Int /\ m1 \in Int /\ El(m1) # 0 /\ El(m1 * x1) = El(n1)
  BY FirstWay
<1>2. x2 \in Field /\ n2 \in Int /\ m2 \in Int /\ El(m2) # 0 /\ El(m2 * x2) = El(n2)
  BY FirstWay
<1>3. El(n1 * m2) = El(n2 * m1)
  <2>1. /\ p[1] \in Int /\ p[2] \in Int /\ q[1] \in Int /\ q[2] \in Int /\ r[1] \in Int /\ r[2] \in Int
        /\ El(Off(p[1], p[2])) = 0 /\ El(Off(q[1], q[2])) = 0 /\ El(Off(r[1], r[2])) = 0
    BY AffineIs, AffineInts
  <2>2. QED
    <3> DEFINE a == p[1]
               b == p[2]
               u == q[1]
               v == q[2]
               c == r[1]
               e == r[2]
    <3>1. /\ a \in Int /\ b \in Int /\ u \in Int /\ v \in Int /\ c \in Int /\ e \in Int
          /\ El(Off(a, b)) = 0 /\ El(Off(u, v)) = 0 /\ El(Off(c, e)) = 0
      BY <2>1
    <3> HIDE DEF a, b, u, v, c, e
    <3>2. El(Num(a, b, u, v, c, e) * Den(c, e, u, v, a, b)) = El(Num(c, e, u, v, a, b) * Den(a, b, u, v, c, e))
      BY ONLY SMTT(60), <3>1, ThreeSeven
    <3>3. QED
      BY <3>2 DEF a, b, u, v, c, e
<1> HIDE DEF x1, x2, n1, n2, m1, m2
<1>4. x1 \in Int /\ x2 \in Int /\ El(x1) = x1 /\ El(x2) = x2
  BY <1>1, <1>2, ElField
<1> DEFINE y1 == m1 * x1
           y2 == m2 * x2
           c  == m1 * m2
<1>5. y1 \in Int /\ y2 \in Int /\ c \in Int /\ El(c) # 0 /\ y1 * m2 = c * x1 /\ y2 * m1 = c * x2
      /\ El(y1) = El(n1) /\ El(y2) = El(n2)
  <2>1. El(c) # 0
    BY <1>1, <1>2, ElTimes
  <2>2. QED
    BY <1>1, <1>2, <1>4, <2>1
<1> HIDE DEF y1, y2, c
<1>6. El(y1 * m2) = El(n1 * m2)
  BY ZenonT(60), <1>1, <1>2, <1>5, ElFactor
<1>7. El(y2 * m1) = El(n2 * m1)
  BY ZenonT(60), <1>1, <1>2, <1>5, ElFactor
<1>8. El(c * x1) = El(c * x2)
  BY <1>3, <1>5, <1>6, <1>7
<1>9. El(x1) = El(x2)
  BY <1>4, <1>5, <1>8, ElCancel
<1>10. QED
  BY <1>4, <1>9 DEF x1, x2

LEMMA Associates ==
  ASSUME NEW p \in Affine, NEW q \in Affine, NEW r \in Affine
  PROVE  AffineAdd(AffineAdd(p, q), r) = AffineAdd(p, AffineAdd(q, r))
<1> DEFINE s == AffineAdd(AffineAdd(p, q), r)
           t == AffineAdd(AffineAdd(r, q), p)
           i == sqrtm1
<1>1. AffineAdd(p, q) \in Affine /\ AffineAdd(r, q) \in Affine /\ AffineAdd(q, r) = AffineAdd(r, q)
  BY SumClosed, Commutes
<1>2. AffineAdd(p, AffineAdd(q, r)) = t
  BY <1>1, Commutes
<1>3. s \in Affine /\ t \in Affine
  BY <1>1, SumClosed
<1>4. s[1] = t[1]
  BY SameFirst
<1>5. Turned(p) \in Affine
  BY TurnedIs
<1>6. AffineAdd(AffineAdd(Turned(p), q), r)[1] = AffineAdd(AffineAdd(r, q), Turned(p))[1]
  BY <1>5, SameFirst
<1>7. AffineAdd(AffineAdd(Turned(p), q), r) = Turned(s)
  <2>1. AffineAdd(Turned(p), q) = Turned(AffineAdd(p, q))
    BY TurnedSum
  <2>2. AffineAdd(Turned(AffineAdd(p, q)), r) = Turned(s)
    BY <1>1, TurnedSum
  <2>3. QED
    BY <2>1, <2>2
<1>8. AffineAdd(AffineAdd(r, q), Turned(p)) = Turned(t)
  <2>1. AffineAdd(AffineAdd(r, q), Turned(p)) = AffineAdd(Turned(p), AffineAdd(r, q))
    BY <1>1, <1>5, Commutes
  <2>2. AffineAdd(Turned(p), AffineAdd(r, q)) = Turned(AffineAdd(p, AffineAdd(r, q)))
    BY <1>1, TurnedSum
  <2>3. AffineAdd(p, AffineAdd(r, q)) = t
    BY <1>1, Commutes
  <2>4. QED
    BY <2>1, <2>2, <2>3
<1> HIDE DEF s, t
<1>9. s[1] \in Int /\ t[1] \in Int /\ s[2] \in Int /\ t[2] \in Int /\ El(s[2]) = s[2] /\ El(t[2]) = t[2]
      /\ s = <<s[1], s[2]>> /\ t = <<t[1], t[2]>>
  BY <1>3, AffineInts
<1>10. El(i * s[2]) = El(i * t[2])
  BY <1>6, <1>7, <1>8 DEF Turned
<1>11. s[2] = t[2]
  <2> DEFINE x == s[2]
             y == t[2]
  <2>1. x \in Int /\ y \in Int /\ i \in Int /\ El(i) # 0 /\ El(i * x) = El(i * y)
    BY <1>9, <1>10, MinusOne
  <2> HIDE DEF x, y, i
  <2>2. El(x) = El(y)
    BY ONLY <2>1, ElCancel
  <2>3. QED
    BY <1>9, <2>2 DEF x, y
<1>12. s = t
  BY <1>4, <1>9, <1>11
<1>13. QED
  BY <1>2, <1>12 DEF s

\* Two points that give the same sum with a third are the same.
LEMMA SumCancel ==
  ASSUME NEW p \in Affine, NEW q \in Affine, NEW r \in Affine, AffineAdd(p, r) = AffineAdd(q, r)
  PROVE  p = q
<1> DEFINE n == Negated(r)
<1>1. n \in Affine /\ AffineAdd(r, n) = Origin
  BY NegatedIs
<1> HIDE DEF n
<1>2. ASSUME NEW s \in Affine
      PROVE  AffineAdd(AffineAdd(s, r), n) = s
  BY <1>1, Associates, OriginIs
<1>3. QED
  BY <1>2

LEMMA NegatedIf ==
  ASSUME NEW p \in Affine, NEW q \in Affine, AffineAdd(p, q) = Origin
  PROVE  q = Negated(p)
<1> DEFINE n == Negated(p)
<1>1. n \in Affine /\ AffineAdd(p, n) = Origin
  BY NegatedIs
<1> HIDE DEF n
<1>2. AffineAdd(q, p) = AffineAdd(n, p)
  BY <1>1, Commutes
<1>3. QED
  BY <1>1, <1>2, SumCancel DEF n

LEMMA MiddleSwap ==
  ASSUME NEW p \in Affine, NEW q \in Affine, NEW r \in Affine, NEW s \in Affine
  PROVE  AffineAdd(AffineAdd(p, q), AffineAdd(r, s)) = AffineAdd(AffineAdd(p, r), AffineAdd(q, s))
<1> DEFINE a == AffineAdd(q, AffineAdd(r, s))
           b == AffineAdd(r, AffineAdd(q, s))
<1>1. AffineAdd(r, s) \in Affine /\ AffineAdd(q, s) \in Affine
  BY SumClosed
<1>2. a = b
  <2>1. a = AffineAdd(AffineAdd(q, r), s)
    BY Associates
  <2>2. b = AffineAdd(AffineAdd(r, q), s)
    BY Associates
  <2>3. QED
    BY <2>1, <2>2, Commutes
<1>3. AffineAdd(AffineAdd(p, q), AffineAdd(r, s)) = AffineAdd(p, a)
  BY <1>1, Associates
<1>4. AffineAdd(AffineAdd(p, r), AffineAdd(q, s)) = AffineAdd(p, b)
  BY <1>1, Associates
<1>5. QED
  BY <1>2, <1>3, <1>4

LEMMA NegatedSum ==
  ASSUME NEW p \in Affine, NEW q \in Affine
  PROVE  /\ Negated(AffineAdd(p, q)) = AffineAdd(Negated(p), Negated(q))
         /\ Negated(Negated(p)) = p
<1> DEFINE m == Negated(p)
           n == Negated(q)
<1>1. m \in Affine /\ n \in Affine /\ AffineAdd(p, m) = Origin /\ AffineAdd(q, n) = Origin
  BY NegatedIs
<1> HIDE DEF m, n
<1>2. AffineAdd(AffineAdd(p, q), AffineAdd(m, n)) = AffineAdd(Origin, Origin)
  BY <1>1, MiddleSwap
<1>3. AffineAdd(Origin, Origin) = Origin
  BY OriginIs
<1>4. AffineAdd(m, n) = Negated(AffineAdd(p, q))
  BY <1>1, <1>2, <1>3, NegatedIf, SumClosed
<1>5. AffineAdd(m, p) = Origin
  BY <1>1, Commutes
<1>6. p = Negated(m)
  BY <1>1, <1>5, NegatedIf
<1>7. QED
  BY <1>4, <1>6 DEF m, n

LEMMA NegatedOrigin == Negated(Origin) = Origin
<1>1. Origin \in Affine /\ AffineAdd(Origin, Origin) = Origin
  BY OriginIs
<1>2. QED
  BY <1>1, NegatedIf

(* -------- multiples -------- *)

Multiplying(g, p) ==
  g = [n \in Nat |-> IF n = 0 THEN <<0, 1>>
                     ELSE LET half == g[n \div 2]
                          IN AffineAdd(AffineAdd(half, half), IF n % 2 = 1 THEN p ELSE <<0, 1>>)]

LEMMA TimesUnfold == ASSUME NEW p, NEW n PROVE Times(n, p) = (CHOOSE g : Multiplying(g, p))[n]
BY Zenon DEF Times, Multiplying

LEMMA TimesIs ==
  ASSUME NEW p \in Affine
  PROVE  /\ Times(0, p) = Origin /\ \A n \in Nat : Times(n, p) \in Affine
         /\ \A n \in Nat \ {0} :
              Times(n, p) = AffineAdd(AffineAdd(Times(n \div 2, p), Times(n \div 2, p)),
                                      IF n % 2 = 1 THEN p ELSE Origin)
<1> DEFINE next(k, s) == AffineAdd(AffineAdd(s, s), IF k % 2 = 1 THEN p ELSE Origin)
           F == [k \in Nat \ {0} |-> [s \in Affine |-> next(k, s)]]
           h == CHOOSE g : Multiplying(g, p)
<1>1. ASSUME NEW k \in Nat \ {0}, NEW s \in Affine
      PROVE  next(k, s) \in Affine
  <2>1. (IF k % 2 = 1 THEN p ELSE Origin) \in Affine
    BY OriginIs
  <2>2. AffineAdd(s, s) \in Affine
    BY SumClosed
  <2>3. QED
    BY <2>1, <2>2, SumClosed, Zenon
<1> HIDE DEF next
<1>2. HalvesIn(Affine, F)
  BY <1>1 DEF HalvesIn
<1>3. PICK g : ByHalves(g, Affine, Origin, F)
  <2>1. Origin \in Affine
    BY OriginIs
  <2> HIDE DEF F
  <2>2. QED
    BY <1>2, <2>1, HalvingRecursion, Zenon
<1>4. \A n \in Nat \ {0} : n \div 2 \in Nat
  OBVIOUS
<1>5. \A n \in Nat \ {0} : g[n] = next(n, g[n \div 2])
  <2>1. \A n \in Nat \ {0} : g[n \div 2] \in Affine
    BY <1>3, <1>4 DEF ByHalves
  <2>2. QED
    BY <1>3, <2>1 DEF ByHalves
<1> HIDE DEF F
<1>6. \A e : Multiplying(e, p) <=> e = [k \in Nat |-> IF k = 0 THEN Origin ELSE next(k, e[k \div 2])]
  BY Zenon DEF Multiplying, next, Origin
<1>7. g = [k \in Nat |-> IF k = 0 THEN Origin ELSE next(k, g[k \div 2])]
  BY <1>3, <1>5 DEF ByHalves
<1>8. Multiplying(h, p)
  BY <1>6, <1>7, Zenon
<1> HIDE DEF h
<1>9. h = [k \in Nat |-> IF k = 0 THEN Origin ELSE next(k, h[k \div 2])]
  BY <1>6, <1>8, Zenon
<1>10. h[0] = Origin /\ \A n \in Nat \ {0} : h[n] = next(n, h[n \div 2])
  BY <1>9
<1>11. \A n : Times(n, p) = h[n]
  BY TimesUnfold DEF h
<1> DEFINE T == {n \in Nat : h[n] \in Affine}
<1>12. \A n \in Nat : n \in T
  <2>1. ASSUME NEW n \in Nat, \A k \in 0 .. (n - 1) : k \in T
        PROVE  n \in T
    <3>1. CASE n = 0
      BY <1>10, <3>1, OriginIs
    <3>2. CASE n # 0
      <4>1. n \in Nat \ {0} /\ n \div 2 \in 0 .. (n - 1)
        BY <3>2, Half
      <4>2. h[n \div 2] \in Affine
        BY <2>1, <4>1
      <4>3. QED
        BY <1>1, <1>10, <4>1, <4>2
    <3>3. QED
      BY <3>1, <3>2
  <2> HIDE DEF T
  <2>2. QED
    BY <2>1, InductionBelow
<1>13. \A n \in Nat \ {0} : Times(n, p) = next(n, Times(n \div 2, p))
  BY <1>10, <1>11
<1>14. QED
  BY <1>10, <1>11, <1>12, <1>13 DEF next

LEMMA TimesTwice ==
  ASSUME NEW p \in Affine, NEW m \in Nat
  PROVE  /\ Times(2 * m, p) = AffineAdd(Times(m, p), Times(m, p))
         /\ Times(2 * m + 1, p) = AffineAdd(AffineAdd(Times(m, p), Times(m, p)), p)
<1> DEFINE h == Times(m, p)
           s == AffineAdd(h, h)
<1>1. h \in Affine /\ s \in Affine
  BY TimesIs, SumClosed
<1>2. Times(2 * m + 1, p) = AffineAdd(s, p)
  <2>1. 2 * m + 1 \in Nat \ {0} /\ (2 * m + 1) \div 2 = m /\ (2 * m + 1) % 2 = 1
    BY Doubled
  <2>2. QED
    BY <2>1, TimesIs
<1>3. Times(2 * m, p) = s
  <2>1. CASE m = 0
    <3>1. 2 * m = 0 /\ h = Origin
      BY <2>1, TimesIs
    <3>2. QED
      BY <3>1, TimesIs, OriginIs
  <2>2. CASE m # 0
    <3>1. 2 * m \in Nat \ {0} /\ (2 * m) \div 2 = m /\ (2 * m) % 2 = 0
      BY <2>2, Doubled
    <3>2. Times(2 * m, p) = AffineAdd(s, Origin)
      BY <3>1, TimesIs
    <3>3. QED
      BY <1>1, <3>2, OriginIs
  <2>3. QED
    BY <2>1, <2>2
<1>4. QED
  BY <1>2, <1>3

LEMMA TimesNext ==
  ASSUME NEW p \in Affine
  PROVE  \A n \in Nat : Times(n + 1, p) = AffineAdd(Times(n, p), p)
<1> DEFINE t(n) == Times(n, p)
           T == {n \in Nat : t(n + 1) = AffineAdd(t(n), p)}
<1>1. ASSUME NEW n \in Nat
      PROVE  t(n) \in Affine
  BY TimesIs
<1>2. ASSUME NEW m \in Nat
      PROVE  t(2 * m) = AffineAdd(t(m), t(m)) /\ t(2 * m + 1) = AffineAdd(AffineAdd(t(m), t(m)), p)
  BY TimesTwice
<1> HIDE DEF t
<1>3. ASSUME NEW n \in Nat, \A k \in 0 .. (n - 1) : k \in T
      PROVE  n \in T
  <2>1. PICK m \in Nat : n = 2 * m \/ n = 2 * m + 1
    BY EvenOrOdd
  <2>2. CASE n = 2 * m
    BY <1>2, <2>2
  <2>3. CASE n = 2 * m + 1
    <3>1. n + 1 = 2 * (m + 1) /\ m \in 0 .. (n - 1) /\ m + 1 \in Nat
      BY <2>3
    <3>2. t(n + 1) = AffineAdd(t(m + 1), t(m + 1)) /\ t(m + 1) = AffineAdd(t(m), p)
      BY <1>2, <1>3, <3>1
    <3>3. t(n) = AffineAdd(AffineAdd(t(m), t(m)), p) /\ t(m) \in Affine /\ AffineAdd(t(m), t(m)) \in Affine
      BY <1>1, <1>2, <2>3, SumClosed
    <3>4. t(n + 1) = AffineAdd(AffineAdd(t(m), t(m)), AffineAdd(p, p))
      BY <3>2, <3>3, MiddleSwap
    <3>5. AffineAdd(AffineAdd(t(m), t(m)), AffineAdd(p, p)) = AffineAdd(AffineAdd(AffineAdd(t(m), t(m)), p), p)
      BY <3>3, Associates
    <3>6. QED
      BY <3>3, <3>4, <3>5
  <2>4. QED
    BY <2>1, <2>2, <2>3
<1>4. \A n \in Nat : n \in T
  <2> HIDE DEF T
  <2>1. QED
    BY <1>3, InductionBelow
<1>5. QED
  BY <1>4 DEF t

\* Multiples by any integer.
Mult(k, p) == IF k >= 0 THEN Times(k, p) ELSE Negated(Times(-k, p))

LEMMA MinusZero == ASSUME NEW n \in Int, n <= 0, n >= 0 PROVE -n >= 0 /\ -n = n
OBVIOUS

LEMMA MultIs ==
  ASSUME NEW p \in Affine
  PROVE  /\ \A k \in Int : Mult(k, p) \in Affine
         /\ \A n \in Nat : Mult(n, p) = Times(n, p) /\ Mult(-n, p) = Negated(Times(n, p))
         /\ Mult(0, p) = Origin /\ Mult(1, p) = p
<1>1. \A n \in Nat : Times(n, p) \in Affine /\ Negated(Times(n, p)) \in Affine
  BY TimesIs, NegatedIs
<1>2. ASSUME NEW n \in Nat
      PROVE  Mult(n, p) = Times(n, p) /\ Mult(-n, p) = Negated(Times(n, p))
  <2>1. Mult(n, p) = Times(n, p)
    BY DEF Mult
  <2>2. CASE n = 0
    <3>1. -n = n /\ -n >= 0
      <4>1. n \in Int /\ n <= 0 /\ n >= 0
        BY <2>2
      <4>2. QED
        BY <4>1, MinusZero
    <3>2. Times(n, p) = Origin
      BY <2>2, TimesIs
    <3>3. Mult(-n, p) = Times(0, p) /\ Times(0, p) = Origin
      BY <3>1, <2>2, TimesIs DEF Mult
    <3>4. QED
      BY <2>1, <3>2, <3>3, NegatedOrigin
  <2>3. CASE n # 0
    <3>1. ~(-n >= 0) /\ -(-n) = n
      BY <2>3
    <3>2. QED
      BY <2>1, <3>1 DEF Mult
  <2>4. QED
    BY <2>2, <2>3
<1>3. ASSUME NEW k \in Int
      PROVE  Mult(k, p) \in Affine
  <2>1. CASE k >= 0
    <3>1. k \in Nat
      BY <2>1
    <3>2. QED
      BY <1>1, <3>1, <2>1 DEF Mult
  <2>2. CASE ~(k >= 0)
    <3>1. -k \in Nat
      BY <2>2
    <3>2. QED
      BY <1>1, <3>1, <2>2 DEF Mult
  <2>3. QED
    BY <2>1, <2>2
<1>4. Mult(0, p) = Origin /\ Mult(1, p) = p
  <2>1. Times(0, p) = Origin /\ Times(0 + 1, p) = AffineAdd(Times(0, p), p) /\ 0 + 1 = 1
    BY TimesIs, TimesNext
  <2>2. Times(1, p) = p
    BY <2>1, OriginIs
  <2>3. QED
    BY <1>2, <2>1, <2>2
<1>5. QED
  BY <1>2, <1>3, <1>4

LEMMA MultNext ==
  ASSUME NEW p \in Affine, NEW k \in Int
  PROVE  Mult(k + 1, p) = AffineAdd(Mult(k, p), p)
<1>1. CASE k >= 0
  <2>1. k \in Nat /\ k + 1 \in Nat
    BY <1>1
  <2>2. QED
    BY <2>1, MultIs, TimesNext
<1>2. CASE ~(k >= 0)
  <2> DEFINE n == -(k + 1)
             t == Times(n, p)
             m == Negated(t)
             o == Negated(p)
  <2>1. n \in Nat /\ n + 1 \in Nat /\ k = -(n + 1) /\ k + 1 = -n
    BY <1>2
  <2> HIDE DEF n
  <2>2. t \in Affine /\ m \in Affine /\ o \in Affine /\ AffineAdd(p, o) = Origin
    BY <2>1, TimesIs, NegatedIs
  <2>3. Mult(k, p) = Negated(AffineAdd(t, p)) /\ Mult(k + 1, p) = m
    <3>1. Mult(-(n + 1), p) = Negated(Times(n + 1, p)) /\ Mult(-n, p) = m
      BY <2>1, MultIs
    <3>2. Times(n + 1, p) = AffineAdd(t, p)
      BY <2>1, TimesNext
    <3>3. QED
      BY <3>1, <3>2, <2>1
  <2>4. Negated(AffineAdd(t, p)) = AffineAdd(m, o)
    BY <2>2, NegatedSum
  <2> HIDE DEF t, m, o
  <2>5. AffineAdd(AffineAdd(m, o), p) = AffineAdd(m, AffineAdd(o, p))
    BY <2>2, Associates
  <2>6. AffineAdd(o, p) = Origin
    BY <2>2, Commutes
  <2>7. QED
    BY <2>2, <2>3, <2>4, <2>5, <2>6, OriginIs
<1>3. QED
  BY <1>1, <1>2

LEMMA MultSum ==
  ASSUME NEW p \in Affine, NEW a \in Int, NEW b \in Int
  PROVE  Mult(a + b, p) = AffineAdd(Mult(a, p), Mult(b, p))
<1> DEFINE t(k) == Mult(k, p)
<1>1. ASSUME NEW k \in Int
      PROVE  t(k) \in Affine /\ t(k + 1) = AffineAdd(t(k), p)
  BY MultIs, MultNext
<1>2. t(0) = Origin
  BY MultIs
<1> HIDE DEF t
<1>3. ASSUME NEW k \in Int
      PROVE  \A n \in Nat : t(k + n) = AffineAdd(t(k), t(n))
  <2> DEFINE T == {n \in Nat : t(k + n) = AffineAdd(t(k), t(n))}
  <2>1. 0 \in T
    <3>1. k + 0 = k
      OBVIOUS
    <3>2. QED
      BY <3>1, <1>1, <1>2, OriginIs
  <2>2. ASSUME NEW n \in Nat, n \in T
        PROVE  n + 1 \in T
    <3>1. k + (n + 1) = (k + n) + 1 /\ k + n \in Int
      OBVIOUS
    <3>2. t(k + (n + 1)) = AffineAdd(AffineAdd(t(k), t(n)), p)
      BY <1>1, <2>2, <3>1
    <3>3. t(n + 1) = AffineAdd(t(n), p) /\ t(k) \in Affine /\ t(n) \in Affine
      BY <1>1
    <3>4. AffineAdd(AffineAdd(t(k), t(n)), p) = AffineAdd(t(k), AffineAdd(t(n), p))
      BY <3>3, Associates
    <3>5. QED
      BY <3>2, <3>3, <3>4
  <2>3. \A n \in Nat : n \in T
    <3> HIDE DEF T
    <3>1. QED
      BY <2>1, <2>2, InductionOver
  <2>4. QED
    BY <2>3
<1>4. CASE b >= 0
  <2>1. b \in Nat
    BY <1>4
  <2>2. QED
    BY <1>3, <2>1 DEF t
<1>5. CASE ~(b >= 0)
  <2> DEFINE n == -b
  <2>1. n \in Nat /\ a + b \in Int /\ (a + b) + n = a /\ b + n = 0
    BY <1>5
  <2> HIDE DEF n
  <2>2. t(a) = AffineAdd(t(a + b), t(n)) /\ AffineAdd(t(b), t(n)) = Origin
    <3>1. t((a + b) + n) = AffineAdd(t(a + b), t(n)) /\ t(b + n) = AffineAdd(t(b), t(n))
      BY <1>3, <2>1
    <3>2. QED
      BY <3>1, <2>1, <1>2
  <2>3. t(a) \in Affine /\ t(b) \in Affine /\ t(n) \in Affine /\ t(a + b) \in Affine
    BY <1>1, <2>1
  <2>4. AffineAdd(AffineAdd(t(a), t(b)), t(n)) = t(a)
    <3>1. AffineAdd(AffineAdd(t(a), t(b)), t(n)) = AffineAdd(t(a), Origin)
      BY <2>2, <2>3, Associates
    <3>2. QED
      BY <3>1, <2>3, OriginIs
  <2>5. AffineAdd(t(a), t(b)) = t(a + b)
    <3>1. AffineAdd(t(a), t(b)) \in Affine
      BY <2>3, SumClosed
    <3>2. QED
      BY <3>1, <2>2, <2>3, <2>4, SumCancel
  <2>6. QED
    BY <2>5 DEF t
<1>6. QED
  BY <1>4, <1>5

LEMMA MultMinus ==
  ASSUME NEW p \in Affine, NEW a \in Int
  PROVE  Mult(-a, p) = Negated(Mult(a, p)) /\ Mult(a, Negated(p)) = Negated(Mult(a, p))
<1> DEFINE t(k) == Mult(k, p)
           s(k) == Mult(k, Negated(p))
           U(k) == AffineAdd(t(k), s(k)) = Origin
<1>1. Negated(p) \in Affine /\ AffineAdd(p, Negated(p)) = Origin
  BY NegatedIs
<1>2. ASSUME NEW k \in Int, NEW j \in Int
      PROVE  t(k + j) = AffineAdd(t(k), t(j)) /\ s(k + j) = AffineAdd(s(k), s(j)) /\ t(k) \in Affine /\ s(k) \in Affine
  BY <1>1, MultSum, MultIs
<1>3. t(0) = Origin /\ s(0) = Origin /\ t(1) = p /\ s(1) = Negated(p)
  BY <1>1, MultIs
<1> HIDE DEF t, s
<1>4. t(-a) = Negated(t(a))
  <2>1. AffineAdd(t(a), t(-a)) = t(a + (-a)) /\ a + (-a) = 0 /\ -a \in Int
    BY <1>2
  <2>2. QED
    BY <1>2, <1>3, <2>1, NegatedIf
<1>5. ASSUME NEW k \in Int
      PROVE  U(k) <=> U(k + 1)
  <2> DEFINE x == t(k)
             y == s(k)
             z == AffineAdd(x, y)
  <2>1. x \in Affine /\ y \in Affine /\ t(k + 1) = AffineAdd(x, p) /\ s(k + 1) = AffineAdd(y, Negated(p))
    <3> DEFINE j == 1
    <3>1. j \in Int /\ t(j) = p /\ s(j) = Negated(p)
      BY <1>3
    <3> HIDE DEF j
    <3>2. t(k + j) = AffineAdd(x, p) /\ s(k + j) = AffineAdd(y, Negated(p)) /\ x \in Affine /\ y \in Affine
      BY <1>2, <3>1
    <3>3. QED
      BY <3>2 DEF j
  <2> HIDE DEF x, y
  <2>2. AffineAdd(AffineAdd(x, p), AffineAdd(y, Negated(p))) = AffineAdd(z, Origin)
    BY <1>1, <2>1, MiddleSwap
  <2>3. z \in Affine
    BY <2>1, SumClosed
  <2>4. AffineAdd(z, Origin) = z
    BY <2>3, OriginIs
  <2>5. QED
    BY <2>1, <2>2, <2>4 DEF x, y
<1>6. U(0)
  BY <1>3, OriginIs
<1>7. \A n \in Nat : U(n) /\ U(-n)
  <2> DEFINE T == {n \in Nat : U(n) /\ U(-n)}
  <2>1. 0 \in T
    <3> DEFINE z == 0
    <3>1. -z = z /\ z \in Nat /\ U(z)
      <4>1. U(z)
        BY <1>6
      <4>2. -z = z
        <5>1. z \in Int /\ z <= 0 /\ z >= 0
          OBVIOUS
        <5> HIDE DEF z
        <5>2. QED
          BY <5>1, MinusZero
      <4>3. QED
        BY <4>1, <4>2
    <3> HIDE DEF z, U
    <3>2. U(-z)
      BY <3>1
    <3>3. z \in T
      BY <3>1, <3>2
    <3>4. QED
      BY <3>3 DEF z
  <2>2. ASSUME NEW n \in Nat, n \in T
        PROVE  n + 1 \in T
    <3>1. -(n + 1) \in Int /\ -(n + 1) + 1 = -n /\ n \in Int
      OBVIOUS
    <3>2. QED
      BY <1>5, <2>2, <3>1
  <2> HIDE DEF T, U
  <2>3. \A n \in Nat : n \in T
    BY <2>1, <2>2, InductionOver
  <2>4. QED
    BY <2>3 DEF T
<1>8. U(a)
  <2>1. a \in Nat \/ (-a \in Nat /\ a = -(-a))
    OBVIOUS
  <2> HIDE DEF U
  <2>2. QED
    BY <1>7, <2>1
<1>9. s(a) = Negated(t(a))
  BY <1>2, <1>8, NegatedIf
<1>10. QED
  BY <1>4, <1>9 DEF t, s

LEMMA MultPlus ==
  ASSUME NEW p \in Affine, NEW q \in Affine, NEW a \in Int
  PROVE  Mult(a, AffineAdd(p, q)) = AffineAdd(Mult(a, p), Mult(a, q))
<1> DEFINE r == AffineAdd(p, q)
           T == {n \in Nat : Mult(n, r) = AffineAdd(Mult(n, p), Mult(n, q))}
<1>1. r \in Affine
  BY SumClosed
<1>2. 0 \in T
  BY <1>1, MultIs, OriginIs
<1>3. ASSUME NEW n \in Nat, n \in T
      PROVE  n + 1 \in T
  <2> DEFINE x == Mult(n, p)
             y == Mult(n, q)
  <2>1. x \in Affine /\ y \in Affine /\ Mult(n + 1, p) = AffineAdd(x, p) /\ Mult(n + 1, q) = AffineAdd(y, q)
    BY MultIs, MultNext
  <2>2. Mult(n + 1, r) = AffineAdd(AffineAdd(x, y), r)
    BY <1>1, <1>3, MultNext
  <2> HIDE DEF x, y
  <2>3. AffineAdd(AffineAdd(x, y), r) = AffineAdd(AffineAdd(x, p), AffineAdd(y, q))
    BY <2>1, MiddleSwap
  <2>4. QED
    BY <2>1, <2>2, <2>3
<1>4. \A n \in Nat : n \in T
  <2> HIDE DEF T
  <2>1. QED
    BY <1>2, <1>3, InductionOver
<1>5. CASE a \in Nat
  BY <1>4, <1>5
<1>6. CASE -a \in Nat
  <2> DEFINE n == -a
  <2>1. n \in Nat /\ a = -n /\ n \in Int
    BY <1>6
  <2> HIDE DEF n
  <2>2. Mult(n, r) = AffineAdd(Mult(n, p), Mult(n, q))
    BY <1>4, <2>1
  <2> HIDE DEF r
  <2>3. Mult(-n, r) = Negated(Mult(n, r)) /\ Mult(-n, p) = Negated(Mult(n, p)) /\ Mult(-n, q) = Negated(Mult(n, q))
    BY <1>1, <2>1, MultMinus
  <2>4. Mult(n, p) \in Affine /\ Mult(n, q) \in Affine
    BY <2>1, MultIs
  <2>5. QED
    BY <2>1, <2>2, <2>3, <2>4, NegatedSum DEF r
<1>7. a \in Nat \/ -a \in Nat
  OBVIOUS
<1>8. QED
  BY <1>5, <1>6, <1>7

LEMMA MultTimes ==
  ASSUME NEW p \in Affine, NEW a \in Int, NEW b \in Int
  PROVE  Mult(a, Mult(b, p)) = Mult(a * b, p)
<1> DEFINE q == Mult(b, p)
           T == {n \in Nat : Mult(n, q) = Mult(n * b, p)}
<1>1. q \in Affine
  BY MultIs
<1>2. 0 \in T
  <2>1. 0 * b = 0
    OBVIOUS
  <2>2. QED
    BY <1>1, <2>1, MultIs
<1>3. ASSUME NEW n \in Nat, n \in T
      PROVE  n + 1 \in T
  <2>1. (n + 1) * b = n * b + b /\ n * b \in Int
    OBVIOUS
  <2>2. Mult(n * b + b, p) = AffineAdd(Mult(n * b, p), q)
    BY <2>1, MultSum
  <2>3. Mult(n + 1, q) = AffineAdd(Mult(n, q), q)
    BY <1>1, MultNext
  <2>4. QED
    BY <1>3, <2>1, <2>2, <2>3
<1>4. \A n \in Nat : n \in T
  <2> HIDE DEF T
  <2>1. QED
    BY <1>2, <1>3, InductionOver
<1>5. CASE a \in Nat
  BY <1>4, <1>5
<1>6. CASE -a \in Nat
  <2> DEFINE n == -a
  <2>1. n \in Nat /\ a = -n /\ n \in Int /\ a * b = -(n * b) /\ n * b \in Int
    BY <1>6
  <2>2. Mult(n, q) = Mult(n * b, p)
    BY <1>4, <2>1
  <2> DEFINE m == n * b
  <2> HIDE DEF q, n
  <2>3. Mult(-n, q) = Negated(Mult(n, q))
    BY <1>1, <2>1, MultMinus
  <2>4. Mult(-m, p) = Negated(Mult(m, p))
    <3>1. m \in Int
      BY <2>1
    <3> HIDE DEF m
    <3>2. QED
      BY <3>1, MultMinus
  <2>5. QED
    BY <2>1, <2>2, <2>3, <2>4 DEF q
<1>7. a \in Nat \/ -a \in Nat
  OBVIOUS
<1>8. QED
  BY <1>5, <1>6, <1>7

\* The field elements of a point in extended coordinates.
Coordinates(g) == g.X \in Field /\ g.Y \in Field /\ g.Z \in Field /\ g.T \in Field

\* Extended coordinates stand for a point: X = x Z, Y = y Z and T = x y Z, with Z not zero.
Rep(g, p) ==
  /\ Coordinates(g) /\ g.Z # 0
  /\ g.X = El(p[1] * g.Z) /\ g.Y = El(p[2] * g.Z) /\ g.T = El((p[1] * p[2]) * g.Z)

\* A cached or precomputed point does.
Cached(q, p) ==
  /\ q.Z \in Field /\ q.Z # 0
  /\ q.Yp = El((p[2] + p[1]) * q.Z) /\ q.Ym = El((p[2] - p[1]) * q.Z)
  /\ q.T2 = El(((p[1] * p[2]) * q.Z) * (2 * d))

\* What the formulas for a sum return, up to the factor c.
SumForm(g, p, q, c) ==
  LET k == Cross(p, q)
      u == p[1] * q[2] + q[1] * p[2]
      v == p[2] * q[2] + p[1] * q[1]
  IN /\ g.X = El(u * ((1 - k) * c)) /\ g.Y = El(v * ((1 + k) * c))
     /\ g.Z = El(((1 + k) * (1 - k)) * c) /\ g.T = El((u * v) * c)

LEMMA SumFormIs ==
  ASSUME NEW p \in Affine, NEW q \in Affine, NEW c \in Int, NEW g, El(c) # 0, SumForm(g, p, q, c)
  PROVE  Rep(g, AffineAdd(p, q))
<1> DEFINE k == Cross(p, q)
           e == 1 + k
           f == 1 - k
           u == p[1] * q[2] + q[1] * p[2]
           v == p[2] * q[2] + p[1] * q[1]
           s == AffineAdd(p, q)
           r == s[1]
           t == s[2]
           m == (e * f) * c
<1>1. e \in Int /\ f \in Int /\ u \in Int /\ v \in Int /\ r \in Int /\ t \in Int /\ m \in Int
  BY CrossIs, SumClosed, AffineInts
<1>2. El(e * r) = El(u) /\ El(f * t) = El(v)
  BY SumIn DEF Sums
<1>3. El(m) # 0
  <2>1. El(e) # 0 /\ El(f) # 0
    BY CrossIs
  <2> HIDE DEF e, f
  <2>2. e * f \in Int /\ El(e * f) # 0
    BY <1>1, <2>1, ElTimes
  <2>3. QED
    BY <2>2, ElTimes
<1>4. g.X = El(u * (f * c)) /\ g.Y = El(v * (e * c)) /\ g.Z = El(m) /\ g.T = El((u * v) * c)
  BY DEF SumForm
<1> HIDE DEF e, f, u, v, r, t
<1>5. El(u * (f * c)) = El(r * m)
  <2> DEFINE w == f * c
             a == e * r
  <2>1. w \in Int /\ a \in Int /\ r * m = a * w
    BY <1>1
  <2>2. El(a) = El(u)
    BY <1>2
  <2> HIDE DEF w, a, m
  <2>3. El(a * w) = El(u * w)
    <3>1. a \in Int /\ u \in Int /\ w \in Int /\ El(a) = El(u)
      BY <1>1, <2>1, <2>2
    <3>2. QED
      BY ONLY <3>1, ElFactor
  <2>4. QED
    BY <2>1, <2>3 DEF w
<1>6. El(v * (e * c)) = El(t * m)
  <2> DEFINE w == e * c
             a == f * t
  <2>1. w \in Int /\ a \in Int /\ t * m = a * w
    BY <1>1
  <2>2. El(a) = El(v)
    BY <1>2
  <2> HIDE DEF w, a, m
  <2>3. El(a * w) = El(v * w)
    <3>1. a \in Int /\ v \in Int /\ w \in Int /\ El(a) = El(v)
      BY <1>1, <2>1, <2>2
    <3>2. QED
      BY ONLY <3>1, ElFactor
  <2>4. QED
    BY <2>1, <2>3 DEF w
<1>7. El((u * v) * c) = El((r * t) * m)
  <2> DEFINE a == e * r
             b == f * t
             x == a * b
             y == u * v
  <2>1. a \in Int /\ b \in Int /\ x \in Int /\ y \in Int /\ (r * t) * m = x * c
    BY <1>1
  <2>2. El(a) = El(u) /\ El(b) = El(v)
    BY <1>2
  <2> HIDE DEF a, b, m
  <2>3. El(x) = El(y)
    BY ONLY <1>1, <2>1, <2>2, ElMul DEF x, y
  <2> HIDE DEF x, y
  <2>4. El(x * c) = El(y * c)
    BY ONLY <2>1, <2>3, ElFactor
  <2>5. QED
    BY <2>1, <2>4 DEF y
<1> DEFINE n == r * t
<1>8. El(r * El(m)) = El(r * m) /\ El(t * El(m)) = El(t * m) /\ El(n * El(m)) = El(n * m)
  <2>1. n \in Int
    BY <1>1
  <2> HIDE DEF m, n
  <2>2. QED
    BY <1>1, <2>1, ElIn
<1> HIDE DEF m
<1>9. Coordinates(g)
  <2> DEFINE a == u * (f * c)
             b == v * (e * c)
             h == (u * v) * c
  <2>1. a \in Int /\ b \in Int /\ h \in Int
    BY <1>1
  <2>2. g.X = El(a) /\ g.Y = El(b) /\ g.Z = El(m) /\ g.T = El(h)
    BY <1>4
  <2> HIDE DEF a, b, h
  <2>3. QED
    BY <1>1, <2>1, <2>2, ElIs DEF Coordinates
<1>10. g.X = El(r * g.Z) /\ g.Y = El(t * g.Z) /\ g.T = El(n * g.Z) /\ g.Z # 0
  BY <1>3, <1>4, <1>5, <1>6, <1>7, <1>8
<1>11. QED
  BY <1>9, <1>10 DEF Rep, r, t, s

\* ge_add, and so ge_madd, returns the sum of the points.
LEMMA AddIs ==
  ASSUME NEW p \in Affine, NEW q \in Affine, NEW g, Rep(g, p), NEW h, Cached(h, q)
  PROVE  Rep(ge_add(g, h), AffineAdd(p, q))
<1> DEFINE x1 == p[1]
           y1 == p[2]
           x2 == q[1]
           y2 == q[2]
           z1 == g.Z
           z2 == h.Z
           w  == z1 * z2
           k  == Cross(p, q)
           u  == x1 * y2 + x2 * y1
           v  == y1 * y2 + x1 * x2
           a0 == fe_mul(fe_add(g.Y, g.X), h.Yp)
           b0 == fe_mul(fe_sub(g.Y, g.X), h.Ym)
           y  == fe_add(a0, b0)
           x  == fe_sub(a0, b0)
           z  == fe_mul(fe_add(g.Z, g.Z), h.Z)
           t  == fe_mul(g.T, h.T2)
           a  == fe_add(z, t)
           b  == fe_sub(z, t)
           s  == ge_add(g, h)
<1>1. /\ x1 \in Int /\ y1 \in Int /\ x2 \in Int /\ y2 \in Int /\ k \in Int /\ d \in Int
      /\ z1 \in Int /\ z2 \in Int /\ El(z1) # 0 /\ El(z2) # 0
  BY AffineInts, CrossIs, CurveIs, ElField DEF Rep, Cached, Coordinates
<1>2. k = d * ((x1 * y1) * (x2 * y2))
  BY DEF Cross
<1>3. /\ s.X = fe_mul(x, b) /\ s.Y = fe_mul(y, a) /\ s.Z = fe_mul(a, b) /\ s.T = fe_mul(x, y)
  BY DEF ge_add
<1>4. /\ g.X = El(x1 * z1) /\ g.Y = El(y1 * z1) /\ g.T = El((x1 * y1) * z1)
      /\ h.Yp = El((y2 + x2) * z2) /\ h.Ym = El((y2 - x2) * z2)
      /\ h.T2 = El(((x2 * y2) * z2) * (2 * d))
  BY DEF Rep, Cached
<1> HIDE DEF x1, y1, x2, y2, z1, z2, k, s
<1>5. w \in Int /\ u \in Int /\ v \in Int /\ El(w) # 0
  BY <1>1, ElTimes
<1>6. a0 = El(((y1 + x1) * (y2 + x2)) * w) /\ b0 = El(((y1 - x1) * (y2 - x2)) * w)
  <2> DEFINE c1 == x1 * z1
             c2 == y1 * z1
             c3 == (y2 + x2) * z2
             c4 == (y2 - x2) * z2
  <2>1. c1 \in Int /\ c2 \in Int /\ c3 \in Int /\ c4 \in Int /\ c2 + c1 \in Int /\ c2 - c1 \in Int
    BY <1>1
  <2>2. (c2 + c1) * c3 = ((y1 + x1) * (y2 + x2)) * w
    BY <1>1
  <2>3. (c2 - c1) * c4 = ((y1 - x1) * (y2 - x2)) * w
    BY <1>1
  <2>4. g.X = El(c1) /\ g.Y = El(c2) /\ h.Yp = El(c3) /\ h.Ym = El(c4)
    BY <1>4
  <2> HIDE DEF c1, c2, c3, c4
  <2>5. fe_add(g.Y, g.X) = El(c2 + c1) /\ fe_sub(g.Y, g.X) = El(c2 - c1)
    <3>1. fe_add(El(c2), El(c1)) = El(c2 + c1) /\ fe_sub(El(c2), El(c1)) = El(c2 - c1)
      BY ONLY <2>1, FeIn
    <3>2. QED
      BY <2>4, <3>1
  <2>6. a0 = El((c2 + c1) * c3) /\ b0 = El((c2 - c1) * c4)
    BY ZenonT(60), <2>1, <2>4, <2>5, FeIn
  <2>7. QED
    BY <2>2, <2>3, <2>6
<1> HIDE DEF a0, b0
<1>7. y = El(2 * (v * w)) /\ x = El(2 * (u * w))
  <2> DEFINE c1 == ((y1 + x1) * (y2 + x2)) * w
             c2 == ((y1 - x1) * (y2 - x2)) * w
  <2>1. c1 \in Int /\ c2 \in Int
    BY <1>1, <1>5
  <2>2. c1 + c2 = 2 * (v * w)
    BY <1>1
  <2>3. c1 - c2 = 2 * (u * w)
    BY <1>1
  <2>4. a0 = El(c1) /\ b0 = El(c2)
    BY <1>6
  <2> HIDE DEF c1, c2
  <2>5. y = El(c1 + c2) /\ x = El(c1 - c2)
    BY <2>1, <2>4, FeIn
  <2>6. QED
    BY <2>2, <2>3, <2>5
<1>8. z = El(2 * w)
  <2>1. g.Z = z1 /\ h.Z = z2
    BY DEF z1, z2
  <2>2. fe_add(z1, z1) = El(z1 + z1) /\ z1 + z1 \in Int
    BY <1>1, FeIs
  <2>3. fe_mul(El(z1 + z1), z2) = El((z1 + z1) * z2)
    BY <1>1, <2>2, FeIn
  <2>4. (z1 + z1) * z2 = 2 * w
    BY <1>1
  <2>5. QED
    BY <2>1, <2>2, <2>3, <2>4
<1>9. t = El(2 * (k * w))
  <2> DEFINE c1 == (x1 * y1) * z1
             c2 == ((x2 * y2) * z2) * (2 * d)
  <2>1. c1 \in Int /\ c2 \in Int
    BY <1>1
  <2>2. c1 * c2 = 2 * (k * w)
    BY <1>1, <1>2
  <2>3. g.T = El(c1) /\ h.T2 = El(c2)
    BY <1>4
  <2> HIDE DEF c1, c2
  <2>4. QED
    BY <2>1, <2>2, <2>3, FeIn
<1> HIDE DEF x, y, z, t
<1> DEFINE cy == 2 * (v * w)
           cx == 2 * (u * w)
           cz == 2 * w
           ct == 2 * (k * w)
           ca == cz + ct
           cb == cz - ct
           c  == 4 * (w * w)
<1>10. cy \in Int /\ cx \in Int /\ cz \in Int /\ ct \in Int /\ ca \in Int /\ cb \in Int /\ c \in Int
  BY <1>1, <1>5
<1>11. /\ cx * cb = u * ((1 - k) * c) /\ cy * ca = v * ((1 + k) * c)
       /\ ca * cb = ((1 + k) * (1 - k)) * c /\ cx * cy = (u * v) * c
  <2> HIDE DEF u, v, w
  <2>1. cx * cb = u * ((1 - k) * c)
    BY <1>1, <1>5
  <2>2. cy * ca = v * ((1 + k) * c)
    BY <1>1, <1>5
  <2>3. ca * cb = ((1 + k) * (1 - k)) * c
    BY <1>1, <1>5
  <2>4. cx * cy = (u * v) * c
    BY <1>1, <1>5
  <2>5. QED
    BY <2>1, <2>2, <2>3, <2>4
<1>12. x = El(cx) /\ y = El(cy) /\ z = El(cz) /\ t = El(ct)
  BY <1>7, <1>8, <1>9
<1>13. El(c) # 0
  <2> DEFINE m == w * w
             n == 2 * 2
             o == 2
  <2>1. El(o) # 0 /\ o \in Int
    BY MinusOne
  <2> HIDE DEF w, o
  <2>2. w * w \in Int /\ El(w * w) # 0 /\ o * o \in Int /\ El(o * o) # 0
    BY <1>5, <2>1, ElTimes
  <2>3. El((o * o) * (w * w)) # 0
    BY <2>2, ElTimes
  <2>4. (o * o) * (w * w) = c
    BY <1>5 DEF o
  <2>5. QED
    BY <2>3, <2>4
<1> HIDE DEF cx, cy, cz, ct, c, u, v, w
<1>14. a = El(ca) /\ b = El(cb)
  BY <1>10, <1>12, FeIn
<1> HIDE DEF a, b, ca, cb
<1>15. /\ s.X = El(cx * cb) /\ s.Y = El(cy * ca) /\ s.Z = El(ca * cb) /\ s.T = El(cx * cy)
  BY <1>3, <1>10, <1>12, <1>14, FeIn
<1>16. SumForm(s, p, q, c)
  BY <1>11, <1>15 DEF SumForm, u, v, k, x1, x2, y1, y2
<1>17. QED
  BY <1>10, <1>13, <1>16, SumFormIs DEF s

\* ge_double returns the double.
LEMMA DoubleIs ==
  ASSUME NEW p \in Affine, NEW g, Rep(g, p)
  PROVE  Rep(ge_double(g), AffineAdd(p, p))
<1> DEFINE x1 == p[1]
           y1 == p[2]
           z1 == g.Z
           w  == z1 * z1
           k  == Cross(p, p)
           e  == y1 * y1 - x1 * x1
           u  == x1 * y1 + x1 * y1
           v  == y1 * y1 + x1 * x1
           xx == fe_sq(g.X)
           yy == fe_sq(g.Y)
           t  == fe_add(yy, xx)
           y  == fe_sub(yy, xx)
           x  == fe_sub(fe_sq(fe_add(g.X, g.Y)), t)
           z  == fe_sub(fe_mul(2, fe_sq(g.Z)), y)
           s  == ge_double(g)
<1>1. x1 \in Int /\ y1 \in Int /\ k \in Int /\ d \in Int /\ z1 \in Int /\ El(z1) # 0
  BY AffineInts, CrossIs, CurveIs, ElField DEF Rep, Coordinates
<1>2. k = d * ((x1 * y1) * (x1 * y1)) /\ El(Off(x1, y1)) = 0
  BY AffineIs DEF Cross
<1>3. /\ s.X = fe_mul(x, z) /\ s.Y = fe_mul(t, y) /\ s.Z = fe_mul(y, z) /\ s.T = fe_mul(x, t)
  BY DEF ge_double
<1>4. g.X = El(x1 * z1) /\ g.Y = El(y1 * z1) /\ g.Z = z1
  BY DEF Rep
<1> HIDE DEF x1, y1, z1, k, s
<1>5. w \in Int /\ u \in Int /\ v \in Int /\ e \in Int /\ El(w) # 0
  BY <1>1, ElTimes
<1>6. El(e * w) = El((1 + k) * w)
  <2> DEFINE f == 1 + k
  <2>1. El(e) = El(f)
    <3>1. Off(x1, y1) = e - f
      BY <1>1, <1>2 DEF Off
    <3>2. e \in Int /\ f \in Int /\ El(e - f) = 0
      BY <1>1, <1>2, <1>5, <3>1
    <3> HIDE DEF e, f
    <3>3. QED
      BY <3>2, ElSame
  <2>2. f \in Int
    BY <1>1
  <2> HIDE DEF e, f, w
  <2>3. El(e * w) = El(f * w)
    BY <1>5, <2>1, <2>2, ElFactor
  <2>4. QED
    BY <2>3 DEF f
<1>7. xx = El((x1 * x1) * w) /\ yy = El((y1 * y1) * w) /\ fe_sq(z1) = El(w)
  <2> DEFINE c1 == x1 * z1
             c2 == y1 * z1
  <2>1. c1 \in Int /\ c2 \in Int /\ c1 * c1 = (x1 * x1) * w /\ c2 * c2 = (y1 * y1) * w
    BY <1>1
  <2> HIDE DEF c1, c2
  <2>2. fe_sq(El(c1)) = El(c1 * c1) /\ fe_sq(El(c2)) = El(c2 * c2) /\ fe_sq(z1) = El(z1 * z1)
    BY <1>1, <2>1, FeInOne, FeOne
  <2>3. QED
    BY <1>4, <2>1, <2>2 DEF c1, c2
<1>8. fe_sq(fe_add(g.X, g.Y)) = El(((x1 + y1) * (x1 + y1)) * w)
  <2> DEFINE c1 == x1 * z1
             c2 == y1 * z1
             c3 == c1 + c2
  <2>1. c1 \in Int /\ c2 \in Int /\ c3 \in Int /\ c3 * c3 = ((x1 + y1) * (x1 + y1)) * w
    BY <1>1
  <2>2. g.X = El(c1) /\ g.Y = El(c2)
    BY <1>4
  <2> HIDE DEF c1, c2
  <2>3. fe_add(El(c1), El(c2)) = El(c3)
    BY ONLY <2>1, FeIn
  <2> HIDE DEF c3
  <2>4. fe_sq(El(c3)) = El(c3 * c3)
    BY <2>1, FeInOne
  <2>5. QED
    BY <2>1, <2>2, <2>3, <2>4
<1> HIDE DEF xx, yy
<1> DEFINE f  == 1 + k
           h  == 1 - k
           cf == f * w
           ce == e * w
           ct == v * w
           cx == u * w
           cz == h * w
<1>9. t = El(ct) /\ y = El(ce)
  <2> DEFINE c1 == (x1 * x1) * w
             c2 == (y1 * y1) * w
  <2>1. c1 \in Int /\ c2 \in Int /\ c2 + c1 = ct /\ c2 - c1 = ce
    BY <1>1
  <2>2. xx = El(c1) /\ yy = El(c2)
    BY <1>7
  <2> HIDE DEF c1, c2
  <2>3. fe_add(El(c2), El(c1)) = El(c2 + c1) /\ fe_sub(El(c2), El(c1)) = El(c2 - c1)
    BY ONLY <2>1, FeIn
  <2>4. QED
    BY <2>1, <2>2, <2>3
<1>10. y = El(cf)
  BY <1>6, <1>9
<1> HIDE DEF t, y
<1>11. x = El(cx)
  <2> DEFINE c1 == ((x1 + y1) * (x1 + y1)) * w
  <2>1. c1 \in Int /\ ct \in Int /\ c1 - ct = cx
    BY <1>1
  <2>2. fe_sq(fe_add(g.X, g.Y)) = El(c1)
    BY <1>8
  <2> HIDE DEF c1, ct
  <2>3. fe_sub(El(c1), El(ct)) = El(c1 - ct)
    BY ONLY <2>1, FeIn
  <2>4. QED
    BY <1>9, <2>1, <2>2, <2>3
<1>12. z = El(cz)
  <2> DEFINE c1 == 2 * w
             o == 2
  <2>1. c1 \in Int /\ cf \in Int /\ c1 - cf = cz /\ o \in Int
    BY <1>1
  <2>2. fe_mul(o, El(w)) = El(c1)
    <3> HIDE DEF o, w
    <3>1. fe_mul(o, El(w)) = El(o * w)
      BY <1>5, <2>1, FeIn
    <3>2. QED
      BY <3>1 DEF o
  <2>3. fe_mul(2, fe_sq(g.Z)) = El(c1)
    BY <1>4, <1>7, <2>2
  <2> HIDE DEF c1, cf, w, o
  <2>4. fe_sub(El(c1), El(cf)) = El(c1 - cf)
    BY ONLY <2>1, FeIn
  <2>5. QED
    BY <1>10, <2>1, <2>3, <2>4
<1> DEFINE c == w * w
<1>13. cf \in Int /\ ct \in Int /\ cx \in Int /\ cz \in Int /\ c \in Int /\ El(c) # 0
  <2>1. cf \in Int /\ ct \in Int /\ cx \in Int /\ cz \in Int /\ c \in Int
    BY <1>1, <1>5
  <2> HIDE DEF w
  <2>2. QED
    BY <1>5, <2>1, ElTimes
<1>14. /\ cx * cz = u * (h * c) /\ ct * cf = v * (f * c)
       /\ cf * cz = (f * h) * c /\ cx * ct = (u * v) * c
  <2> HIDE DEF u, v, w
  <2>1. cx * cz = u * (h * c)
    BY <1>1, <1>5
  <2>2. ct * cf = v * (f * c)
    BY <1>1, <1>5
  <2>3. cf * cz = (f * h) * c
    BY <1>1, <1>5
  <2>4. cx * ct = (u * v) * c
    BY <1>1, <1>5
  <2>5. QED
    BY <2>1, <2>2, <2>3, <2>4
<1> HIDE DEF x, z, cf, ct, cx, cz, c, w
<1>15. fe_mul(El(cx), El(cz)) = El(cx * cz) /\ fe_mul(El(ct), El(cf)) = El(ct * cf)
  BY ONLY <1>13, FeIn
<1>16. fe_mul(El(cf), El(cz)) = El(cf * cz) /\ fe_mul(El(cx), El(ct)) = El(cx * ct)
  BY ONLY <1>13, FeIn
<1>17. s.X = El(cx * cz) /\ s.Y = El(ct * cf) /\ s.Z = El(cf * cz) /\ s.T = El(cx * ct)
  BY <1>3, <1>9, <1>10, <1>11, <1>12, <1>15, <1>16
<1>18. SumForm(s, p, p, c)
  BY <1>14, <1>17 DEF SumForm, u, v, f, h, k, x1, y1
<1>19. QED
  BY <1>13, <1>18, SumFormIs DEF s

LEMMA CacheIs ==
  ASSUME NEW p \in Affine, NEW g, Rep(g, p)
  PROVE  Cached(ge_cache(g), p)
<1> DEFINE x == p[1]
           y == p[2]
           z == g.Z
           q == ge_cache(g)
<1>1. x \in Int /\ y \in Int /\ z \in Int /\ z \in Field /\ z # 0 /\ d \in Int
  BY AffineInts, CurveIs, ElField DEF Rep, Coordinates
<1>2. g.X = El(x * z) /\ g.Y = El(y * z) /\ g.T = El((x * y) * z)
  BY DEF Rep
<1>3. q.Z = z /\ q.Yp = fe_add(g.Y, g.X) /\ q.Ym = fe_sub(g.Y, g.X) /\ q.T2 = fe_mul(g.T, D2)
  BY DEF ge_cache
<1> HIDE DEF x, y, z, q
<1> DEFINE a == x * z
           b == y * z
           t == (x * y) * z
           e == 2 * d
<1>4. a \in Int /\ b \in Int /\ t \in Int /\ e \in Int /\ b + a = (y + x) * z /\ b - a = (y - x) * z
  BY <1>1
<1>5. D2 = El(e)
  <2> DEFINE o == 2
  <2>1. o \in Int
    OBVIOUS
  <2> HIDE DEF o
  <2>2. fe_mul(o, d) = El(o * d)
    BY <1>1, <2>1, FeIs
  <2>3. QED
    BY <2>2 DEF o, D2
<1>6. g.X = El(a) /\ g.Y = El(b) /\ g.T = El(t)
  BY <1>2
<1> HIDE DEF a, b, t, e
<1>7. fe_add(El(b), El(a)) = El(b + a) /\ fe_sub(El(b), El(a)) = El(b - a)
  BY ONLY <1>4, FeIn
<1>8. fe_mul(El(t), El(e)) = El(t * e)
  BY ONLY <1>4, FeIn
<1>9. q.Yp = El(b + a) /\ q.Ym = El(b - a) /\ q.T2 = El(t * e)
  BY <1>3, <1>5, <1>6, <1>7, <1>8
<1>10. QED
  BY <1>1, <1>3, <1>4, <1>9 DEF Cached, t, e, x, y, q

LEMMA PrecompIs ==
  ASSUME NEW p \in Affine
  PROVE  Cached(ge_precomp(p[1], p[2]), p)
<1> DEFINE x == p[1]
           y == p[2]
           q == ge_precomp(x, y)
           t == x * y
           e == 2 * d
<1>1. x \in Int /\ y \in Int /\ d \in Int
  BY AffineInts, CurveIs
<1>2. q.Z = 1 /\ q.Yp = fe_add(y, x) /\ q.Ym = fe_sub(y, x) /\ q.T2 = fe_mul(fe_mul(x, y), D2)
  BY DEF ge_precomp
<1>3. D2 = El(e)
  <2> DEFINE o == 2
  <2>1. o \in Int
    OBVIOUS
  <2> HIDE DEF o
  <2>2. fe_mul(o, d) = El(o * d)
    BY <1>1, <2>1, FeIs
  <2>3. QED
    BY <2>2 DEF o, D2
<1> HIDE DEF x, y, q
<1>4. t \in Int /\ e \in Int
  BY <1>1
<1>5. fe_add(y, x) = El(y + x) /\ fe_sub(y, x) = El(y - x) /\ fe_mul(x, y) = El(t)
  BY <1>1, FeIs
<1> HIDE DEF t, e
<1>6. fe_mul(El(t), El(e)) = El(t * e)
  BY ONLY <1>4, FeIn
<1>7. q.Yp = El(y + x) /\ q.Ym = El(y - x) /\ q.T2 = El(t * e)
  BY <1>2, <1>3, <1>5, <1>6
<1> DEFINE o == q.Z
<1>8. (y + x) * 1 = y + x /\ (y - x) * 1 = y - x /\ t * 1 = t
  BY <1>1, <1>4
<1>9. q.Z \in Field /\ q.Z # 0
  BY <1>2, OneIs
<1>10. q.Yp = El((y + x) * q.Z) /\ q.Ym = El((y - x) * q.Z) /\ q.T2 = El((t * q.Z) * e)
  BY <1>2, <1>7, <1>8
<1>11. QED
  BY <1>9, <1>10 DEF Cached, t, e, x, y, q

LEMMA NegatedCached ==
  ASSUME NEW p \in Affine, NEW q, Cached(q, p)
  PROVE  Cached(ge_negated(q), Negated(p))
<1> DEFINE x == p[1]
           y == p[2]
           z == q.Z
           r == ge_negated(q)
           n == Negated(p)[1]
           e == 2 * d
<1>1. x \in Int /\ y \in Int /\ d \in Int /\ z \in Int /\ n \in Int /\ n = El(-x) /\ Negated(p)[2] = y
  BY AffineInts, CurveIs, NegatedIs, ElField DEF Cached
<1>2. r.Z = z /\ r.Yp = q.Ym /\ r.Ym = q.Yp /\ r.T2 = fe_neg(q.T2)
  BY DEF ge_negated
<1>3. q.Yp = El((y + x) * z) /\ q.Ym = El((y - x) * z) /\ q.T2 = El(((x * y) * z) * e) /\ z \in Field /\ z # 0
  BY DEF Cached
<1> HIDE DEF x, y, z, r, n
<1> DEFINE m == -x
<1>4. m \in Int /\ e \in Int /\ El(n) = El(m)
  BY <1>1, ElIs
<1>5. El((y + n) * z) = El((y - x) * z) /\ El((y - n) * z) = El((y + x) * z)
  <2>1. y + m = y - x /\ y - m = y + x
    BY <1>1
  <2> HIDE DEF m
  <2>2. El(y + n) = El(y + m) /\ El(y - n) = El(y - m)
    BY <1>1, <1>4, ElPlus
  <2> DEFINE a == y + n
             b == y + m
             f == y - n
             g == y - m
  <2>3. a \in Int /\ b \in Int /\ f \in Int /\ g \in Int /\ z \in Int /\ El(a) = El(b) /\ El(f) = El(g)
    BY <1>1, <1>4, <2>2
  <2> HIDE DEF a, b, f, g
  <2>4. El(a * z) = El(b * z) /\ El(f * z) = El(g * z)
    BY ONLY <2>3, ElFactor
  <2>5. QED
    BY <2>1, <2>4 DEF a, b, f, g
<1>6. fe_neg(q.T2) = El(((n * y) * z) * e)
  <2> DEFINE w == (y * z) * e
             t == ((x * y) * z) * e
  <2>1. w \in Int /\ t \in Int /\ -t = m * w /\ ((n * y) * z) * e = n * w
    BY <1>1, <1>4
  <2> HIDE DEF w, m
  <2>2. El(n * w) = El(m * w)
    BY <1>1, <1>4, <2>1, ElFactor
  <2> HIDE DEF t
  <2>3. fe_neg(El(t)) = El(-t)
    BY <2>1, FeInOne
  <2>4. q.T2 = El(t)
    BY <1>3 DEF t
  <2>5. QED
    BY <2>1, <2>2, <2>3, <2>4
<1>7. QED
  BY <1>1, <1>2, <1>3, <1>5, <1>6 DEF Cached, x, y, z, r, n

LEMMA SubIs ==
  ASSUME NEW p \in Affine, NEW q \in Affine, NEW g, Rep(g, p), NEW h, Cached(h, q)
  PROVE  Rep(ge_sub(g, h), AffineAdd(p, Negated(q)))
<1>1. Negated(q) \in Affine /\ Cached(ge_negated(h), Negated(q))
  BY NegatedIs, NegatedCached
<1>2. QED
  BY <1>1, AddIs DEF ge_sub

LEMMA ZeroIs == Rep(ge_zero, Origin)
<1>1. ge_zero.X = 0 /\ ge_zero.Y = 1 /\ ge_zero.Z = 1 /\ ge_zero.T = 0 /\ Origin[1] = 0 /\ Origin[2] = 1
  BY DEF ge_zero, Origin
<1>2. 0 * 1 = 0 /\ 1 * 1 = 1
  OBVIOUS
<1>3. QED
  BY <1>1, <1>2, OneIs DEF Rep, Coordinates

LEMMA ToBytesIs ==
  ASSUME NEW p \in Affine, NEW g, Rep(g, p)
  PROVE  ge_tobytes(g) = Encoded(p)
<1> DEFINE x == p[1]
           y == p[2]
           z == g.Z
<1>1. x \in Int /\ y \in Int /\ El(x) = x /\ El(y) = y /\ z \in Int /\ El(z) # 0
  BY AffineInts, ElField DEF Rep, Coordinates
<1>2. g.X = El(x * z) /\ g.Y = El(y * z) /\ g.X \in Int /\ g.Y \in Int /\ El(g.X) = g.X /\ El(g.Y) = g.Y
  BY ElField DEF Rep, Coordinates
<1>3. x * z = z * x /\ y * z = z * y
  BY <1>1
<1> HIDE DEF x, y, z
<1>4. fe_mul(g.X, fe_invert(z)) = El(x) /\ fe_mul(g.Y, fe_invert(z)) = El(y)
  BY <1>1, <1>2, <1>3, Quotient
<1>5. ge_tobytes(g) = [y |-> fe_mul(g.Y, fe_invert(z)), sign |-> fe_isodd(fe_mul(g.X, fe_invert(z)))]
  BY DEF ge_tobytes, z
<1>6. QED
  BY <1>1, <1>4, <1>5 DEF Encoded, x, y

\* d is not the opposite of a square either.
LEMMA NoPole ==
  ASSUME NEW y \in Int
  PROVE  El((y * y) * d + 1) # 0
<1>1. SUFFICES ASSUME El((y * y) * d + 1) = 0 PROVE FALSE
  OBVIOUS
<1> DEFINE i == sqrtm1
           a == i * i
           b == d * (y * y)
           m == -1
<1>2. d \in Int /\ i \in Int /\ a \in Int /\ b \in Int /\ m \in Int /\ El(a) = El(m) /\ (y * y) * d + 1 = b - m
  BY CurveIs, MinusOne
<1> HIDE DEF a, b, m
<1>3. El(b) = El(m)
  BY <1>1, <1>2, ElSame
<1>4. El(y) = 0
  BY <1>2, <1>3, NonSquare DEF a, b
<1>5. El(b) = 0
  <2> DEFINE c == d * y
  <2>1. c \in Int /\ b = c * y
    BY <1>2 DEF b
  <2> HIDE DEF c
  <2>2. QED
    BY <1>4, <2>1, ZeroTimes
<1>6. QED
  BY <1>3, <1>5, MinusOne DEF m

\* The abscissas of the points with an ordinate.
Abscissas(y) == {x \in Field : OnCurve(<<x, y>>)}

LEMMA AbscissaIs ==
  ASSUME NEW y \in Field, NEW x \in Field
  PROVE  x \in Abscissas(y) <=> El((x * x) * ((y * y) * d + 1)) = El(y * y - 1)
<1> DEFINE a == (x * x) * ((y * y) * d + 1)
           b == y * y - 1
<1>1. x \in Int /\ y \in Int /\ d \in Int
  BY ElField, CurveIs
<1>2. a \in Int /\ b \in Int /\ Off(x, y) = b - a
  BY <1>1 DEF Off
<1>3. x \in Abscissas(y) <=> El(Off(x, y)) = 0
  BY <1>1, OnCurveIs DEF Abscissas
<1> HIDE DEF a, b
<1>4. El(b - a) = 0 <=> El(b) = El(a)
  BY <1>2, ElSame
<1>5. QED
  BY <1>2, <1>3, <1>4 DEF a, b

\* Two points with the same ordinate are opposites.
LEMMA AbscissasOf ==
  ASSUME NEW y \in Field, NEW x \in Abscissas(y), NEW u \in Abscissas(y)
  PROVE  u = x \/ u = El(-x)
<1> DEFINE D0 == (y * y) * d + 1
           a == x * x
           b == u * u
<1>1. x \in Field /\ u \in Field /\ x \in Int /\ u \in Int /\ y \in Int /\ d \in Int /\ El(x) = x /\ El(u) = u
  BY ElField, CurveIs DEF Abscissas
<1>2. a \in Int /\ b \in Int /\ D0 \in Int /\ El(D0) # 0
  BY <1>1, NoPole
<1>3. El(a * D0) = El(b * D0)
  BY <1>1, AbscissaIs
<1>4. a * D0 = D0 * a /\ b * D0 = D0 * b
  BY <1>2
<1> HIDE DEF a, b, D0
<1>5. El(a) = El(b)
  BY <1>2, <1>3, <1>4, ElCancel
<1>6. El(u) = El(x) \/ El(u) = El(-x)
  BY <1>1, <1>5, SquareRoots DEF a, b
<1>7. QED
  BY <1>1, <1>6

\* A point and its opposite differ in the parity of their abscissa.
LEMMA OppositeParity ==
  ASSUME NEW x \in Field, x # 0
  PROVE  El(-x) \in Field /\ El(-x) # 0 /\ El(-x) # x /\ fe_isodd(El(-x)) = 1 - fe_isodd(x)
         /\ fe_isodd(x) \in {0, 1} /\ El(-El(-x)) = x
<1>1. x \in Int /\ P \in Int /\ P % 8 = 5 /\ P - x \in Field /\ P - x # 0
  BY PrimeIs DEF Field
<1>2. El(-x) = P - x
  <2> DEFINE m == -x
             o == 1
  <2>1. m \in Int /\ o \in Int /\ P * o + m = P - x
    BY <1>1
  <2> HIDE DEF m, o
  <2>2. El(P * o + m) = El(m)
    BY <2>1, ElMore
  <2>3. QED
    BY <1>1, <2>1, <2>2, ElField DEF m
<1>3. P % 2 = 1
  BY <1>1
<1>4. (P - x) % 2 = 1 - (x % 2) /\ x % 2 \in {0, 1}
  BY <1>1, <1>3
<1>5. P - x # x
  BY <1>1, <1>3
<1>6. El(-(P - x)) = x
  <2> DEFINE y == P - x
             m == -y
             o == 1
  <2>1. m \in Int /\ o \in Int /\ P * o + m = x
    BY <1>1
  <2> HIDE DEF m, o
  <2>2. El(P * o + m) = El(m)
    BY <2>1, ElMore
  <2>3. QED
    BY <1>1, <2>1, <2>2, ElField DEF m
<1>7. QED
  BY <1>1, <1>2, <1>4, <1>5, <1>6 DEF fe_isodd

\* The zero point is the only point that is encoded as it is.
LEMMA EncodedZero ==
  ASSUME NEW p \in Affine
  PROVE  Encoded(p) = Encoded(Origin) <=> p = Origin
<1>1. SUFFICES ASSUME Encoded(p) = Encoded(Origin) PROVE p = Origin
  OBVIOUS
<1> DEFINE x == p[1]
           a == x * x
           b == 1 + d
           o == 1
<1>2. x \in Field /\ x \in Int /\ d \in Int /\ a \in Int /\ b \in Int /\ El(x) = x /\ p = <<x, p[2]>>
  BY AffineIs, ElField, CurveIs
<1>3. p[2] = 1
  BY <1>1 DEF Encoded, Origin
<1>4. El(Off(x, 1)) = 0 /\ Off(x, 1) = -(a * b)
  <2>1. El(Off(p[1], p[2])) = 0
    BY AffineIs
  <2>2. Off(x, 1) = -(a * b)
    BY <1>2 DEF Off
  <2>3. QED
    BY <1>3, <2>1, <2>2
<1> HIDE DEF x
<1>5. El(a * b) = 0
  <2> DEFINE m == -(a * b)
             n == -1
  <2>1. m \in Int /\ n \in Int /\ a * b = n * m /\ El(m) = 0
    BY <1>2, <1>4
  <2> HIDE DEF m, n
  <2>2. QED
    BY <2>1, ZeroTimes
<1>6. El(b) # 0
  <2>1. SUFFICES ASSUME El(b) = 0 PROVE FALSE
    OBVIOUS
  <2> DEFINE n == -1
  <2>2. n \in Int /\ d - n = b /\ sqrtm1 \in Int /\ El(sqrtm1 * sqrtm1) = El(n)
    BY <1>2, MinusOne
  <2> HIDE DEF n, b
  <2>3. El(d) = El(n)
    BY <1>2, <2>1, <2>2, ElSame
  <2>4. QED
    BY <2>2, <2>3, CurveIs
<1>7. El(a) = 0
  <2> HIDE DEF a, b
  <2>1. QED
    BY <1>2, <1>5, <1>6, ElZero
<1>8. x = 0
  BY <1>2, <1>7, ElZero
<1>9. QED
  BY <1>2, <1>3, <1>8 DEF Origin

\* The point that an encoding stands for; the sign of 0 is ignored.
PointOf(s) ==
  <<CHOOSE x \in Abscissas(s.y % P) : x = 0 \/ fe_isodd(x) = s.sign, s.y % P>>

IsEncoding(s) == s.y \in Int /\ s.y \in 0 .. (2 ^ FieldBits - 1) /\ s.sign \in {0, 1}

LEMMA PointOfIs ==
  ASSUME NEW s, IsEncoding(s), NEW x \in Abscissas(El(s.y)), x = 0 \/ fe_isodd(x) = s.sign
  PROVE  PointOf(s) = <<x, El(s.y)>> /\ PointOf(s) \in Affine
<1> DEFINE y == El(s.y)
           Fits(u) == u = 0 \/ fe_isodd(u) = s.sign
           c == CHOOSE u \in Abscissas(y) : Fits(u)
<1>1. y \in Field /\ x \in Field /\ <<x, y>> \in Affine
  BY ElIs DEF IsEncoding, Abscissas, Affine
<1>2. c \in Abscissas(y) /\ Fits(c)
  <2>1. Fits(x)
    OBVIOUS
  <2> HIDE DEF Fits
  <2>2. QED
    BY <2>1
<1> HIDE DEF c, y
<1>3. c \in Field
  BY <1>2 DEF Abscissas
<1>4. x = c
  <2>1. x = c \/ x = El(-c)
    BY <1>1, <1>2, AbscissasOf DEF y
  <2>2. CASE c = 0
    <3>1. x \in Int /\ y \in Int
      BY <1>1, ElField
    <3>2. El(-c) = 0
      <4> DEFINE z == -c
      <4>0. c \in Int /\ c <= 0 /\ c >= 0
        BY <2>2
      <4>1. z = c
        BY <4>0, MinusZero
      <4>2. QED
        BY <4>1, <2>2, OneIs
    <3>3. QED
      BY <2>1, <2>2, <3>2
  <2>3. CASE c # 0
    <3>1. El(-c) # 0 /\ fe_isodd(El(-c)) = 1 - fe_isodd(c) /\ fe_isodd(c) \in {0, 1}
      BY <1>3, <2>3, OppositeParity
    <3>2. fe_isodd(El(-c)) # fe_isodd(c)
      BY <3>1
    <3>3. fe_isodd(c) = s.sign
      BY <1>2, <2>3
    <3>4. QED
      BY <2>1, <3>1, <3>2, <3>3
  <2>4. QED
    BY <2>2, <2>3
<1>5. PointOf(s) = <<c, y>>
  BY Zenon DEF PointOf, c, y, El
<1>6. QED
  BY <1>1, <1>4, <1>5 DEF y

\* There is a point exactly when the quotient of its curve equation is a square, and the
\* inverse square root gives its abscissa.
LEMMA RootOfRatio ==
  ASSUME NEW y \in Field, NEW n \in Int, NEW e \in Int, NEW r,
         n = y * y - 1, e = (y * y) * d + 1, InvRoot(El(n * e), r)
  PROVE  /\ r.is_square <=> Abscissas(y) # {}
         /\ r.is_square => El(n * r.root) \in Abscissas(y)
<1> DEFINE M == n * e
           k == r.root
           z == n * k
           x == El(z)
<1>1. M \in Int /\ k \in Field /\ k \in Int /\ y \in Int /\ El(e) # 0 /\ z \in Int
  BY ElField, NoPole DEF InvRoot
<1>2. x \in Field /\ x \in Int /\ El(x) = El(z)
  BY <1>1, ElIs
<1>3. ASSUME NEW u \in Field
      PROVE  u \in Abscissas(y) <=> El((u * u) * e) = El(n)
  BY AbscissaIs
<1>4. /\ r.is_square <=> IsSquare(El(M))
      /\ El(M) = 0 => k = 0
      /\ El(M) # 0 => El(El(M) * (k * k)) = IF r.is_square THEN 1 ELSE sqrtm1
  BY DEF InvRoot
<1> HIDE DEF M, k, z, x
<1>5. IsSquare(El(M)) <=> IsSquare(M)
  BY <1>1, ElIs DEF IsSquare
<1>6. El(El(M) * (k * k)) = El(M * (k * k))
  <2> DEFINE a == k * k
  <2>1. a \in Int
    BY <1>1
  <2> HIDE DEF a
  <2>2. QED
    BY <1>1, <2>1, ElIn
<1>7. CASE El(n) = 0
  <2>1. El(M) = 0 /\ El(z) = 0
    BY <1>1, <1>7, ZeroTimes DEF M, z
  <2>2. IsSquare(M)
    <3> DEFINE o == 0
    <3>1. o \in Int /\ o * o = o /\ El(o) = 0
      BY OneIs
    <3> HIDE DEF o
    <3>2. QED
      BY <2>1, <3>1 DEF IsSquare
  <2>3. x \in Abscissas(y)
    <3> DEFINE a == x * x
               o == 0
    <3>1. x = o /\ a = o /\ o * e = o /\ El(o) = 0
      BY <2>1, OneIs DEF x
    <3> HIDE DEF a, o
    <3>2. El(a * e) = El(n)
      BY <1>7, <3>1
    <3>3. QED
      BY <1>2, <1>3, <3>2 DEF a
  <2>4. QED
    BY <1>4, <1>5, <2>2, <2>3 DEF x, z, k
<1>8. CASE El(n) # 0
  <2>1. El(M) # 0
    BY <1>1, <1>8, ElTimes DEF M
  <2>2. ASSUME NEW u \in Abscissas(y)
        PROVE  IsSquare(M)
    <3> DEFINE a == (u * u) * e
               w == u * e
    <3>1. u \in Field /\ u \in Int /\ El(a) = El(n)
      BY <1>3, ElField DEF Abscissas
    <3>2. a \in Int /\ w \in Int /\ w * w = a * e
      BY <3>1
    <3> HIDE DEF a, w
    <3>3. El(a * e) = El(n * e)
      BY ZenonT(60), <3>1, <3>2, ElFactor
    <3>4. El(w * w) = El(M)
      BY <3>2, <3>3 DEF M
    <3>5. QED
      BY <3>2, <3>4 DEF IsSquare
  <2>3. ASSUME r.is_square
        PROVE  x \in Abscissas(y)
    <3> DEFINE a == x * x
               b == z * z
               f == M * (k * k)
    <3>1. a \in Int /\ b \in Int /\ f \in Int /\ b * e = f * n
      <4>1. M \in Int /\ k * k \in Int
        BY <1>1
      <4>2. a \in Int /\ b \in Int
        BY <1>1, <1>2
      <4>3. f \in Int
        BY <4>1
      <4>4. ((n * k) * (n * k)) * e = ((n * e) * (k * k)) * n
        BY <1>1
      <4>5. QED
        BY <4>2, <4>3, <4>4 DEF M, z
    <3>2. El(f) = 1
      BY <1>4, <1>6, <2>1, <2>3
    <3>3. El(a) = El(b)
      BY <1>1, <1>2, ElMul
    <3> HIDE DEF a, b, f
    <3>4. El(a * e) = El(b * e)
      BY ZenonT(60), <3>1, <3>3, ElFactor
    <3>5. El(f * n) = El(n)
      BY <3>1, <3>2, ElUnit
    <3>6. El(a * e) = El(n)
      BY <3>1, <3>4, <3>5
    <3>7. QED
      BY <1>2, <1>3, <3>6 DEF a
  <2>4. QED
    BY <1>4, <1>5, <2>2, <2>3 DEF x, z, k
<1>9. QED
  BY <1>7, <1>8

\* ge_frombytes_neg_vartime succeeds exactly on the encodings of points, and returns the
\* opposite of the point.
LEMMA FromBytesIs ==
  ASSUME NEW s, IsEncoding(s)
  PROVE  LET g == ge_frombytes_neg_vartime(s)
         IN /\ g.ok <=> Abscissas(El(s.y)) # {}
            /\ g.ok => PointOf(s) \in Affine /\ Rep(g.h, Negated(PointOf(s)))
<1> DEFINE g   == ge_frombytes_neg_vartime(s)
           y   == fe_frombytes(s.y)
           num == fe_sub(fe_sq(y), 1)
           den == fe_add(fe_mul(fe_sq(y), d), 1)
           r   == invsqrt(fe_mul(num, den))
           x0  == fe_mul(num, r.root)
           x   == IF fe_isodd(x0) = s.sign THEN fe_neg(x0) ELSE x0
           n   == y * y - 1
           e   == (y * y) * d + 1
<1>1. g.ok = r.is_square /\ g.h = [X |-> x, Y |-> y, Z |-> 1, T |-> fe_mul(x, y)]
  BY Zenon DEF ge_frombytes_neg_vartime
<1>2. y = El(s.y) /\ y \in Field /\ y \in Int /\ El(y) = y /\ d \in Int
  BY BytesRead, ElField, CurveIs DEF IsEncoding
<1> HIDE DEF g, y
<1>3. n \in Int /\ e \in Int
  BY <1>2
<1>4. num = El(n) /\ den = El(e)
  <2> DEFINE a == y * y
             b == a * d
             o == 1
  <2>1. a \in Int /\ b \in Int /\ o \in Int /\ n = a - o /\ e = b + o
    BY <1>2
  <2>2. fe_sq(y) = El(a)
    BY <1>2, FeOne
  <2> HIDE DEF a, b
  <2>3. fe_mul(El(a), d) = El(a * d)
    BY <1>2, <2>1, FeIn
  <2> HIDE DEF o
  <2>4. fe_sub(El(a), o) = El(a - o) /\ fe_add(El(b), o) = El(b + o)
    BY <2>1, FeIn
  <2>5. QED
    BY <2>1, <2>2, <2>3, <2>4 DEF o, b
<1>5. fe_mul(num, den) = El(n * e) /\ El(n * e) \in Field
  <2> HIDE DEF n, e, num, den
  <2>1. fe_mul(El(n), El(e)) = El(n * e)
    BY <1>3, FeIn
  <2>2. n * e \in Int
    BY <1>3
  <2>3. QED
    BY <1>4, <2>1, <2>2, ElIs
<1>6. InvRoot(El(n * e), r)
  BY <1>5, InvSqrt
<1> HIDE DEF r
<1>7. /\ r.is_square <=> Abscissas(y) # {}
      /\ r.is_square => El(n * r.root) \in Abscissas(y)
  BY <1>2, <1>3, <1>6, RootOfRatio
<1>8. ASSUME r.is_square
      PROVE  PointOf(s) \in Affine /\ Rep(g.h, Negated(PointOf(s)))
  <2> HIDE DEF n, e, num, den
  <2>1. x0 = El(n * r.root)
    <3>1. r.root \in Int
      BY <1>6, ElField DEF InvRoot
    <3>2. QED
      BY <1>3, <1>4, <3>1, FeIn
  <2>2. x0 \in Abscissas(y) /\ x0 \in Field /\ x0 \in Int /\ El(x0) = x0
    BY <1>7, <1>8, <2>1, ElField DEF Abscissas
  <2> HIDE DEF x0
  <2>3. ASSUME NEW u \in Abscissas(y), u = 0 \/ fe_isodd(u) = s.sign, x = El(-u)
        PROVE  PointOf(s) \in Affine /\ Rep(g.h, Negated(PointOf(s)))
    <3> DEFINE p == PointOf(s)
    <3>1. p = <<u, y>> /\ p \in Affine
      BY <1>2, <2>3, PointOfIs
    <3> HIDE DEF p
    <3>2. Negated(p)[1] = x /\ Negated(p)[2] = y /\ Negated(p) \in Affine
      BY <2>3, <3>1, NegatedIs
    <3>3. x \in Field /\ x \in Int /\ El(x) = x
      BY <3>2, AffineIs, ElField
    <3> HIDE DEF x
    <3>4. fe_mul(x, y) = El(x * y) /\ fe_mul(x, y) \in Field
      BY <1>2, <3>3, FeIs
    <3> DEFINE o == 1
    <3>5. x * o = x /\ y * o = y /\ (x * y) * o = x * y /\ o \in Field /\ o # 0
      BY <1>2, <3>3, OneIs
    <3>6. g.h.X = x /\ g.h.Y = y /\ g.h.Z = o /\ g.h.T = El(x * y)
      BY <1>1, <3>4
    <3> HIDE DEF o
    <3>7. El(x * y) \in Field
      BY <3>4
    <3>8. Rep(g.h, Negated(p))
      BY <1>2, <3>2, <3>3, <3>5, <3>6, <3>7 DEF Rep, Coordinates
    <3>9. QED
      BY <3>1, <3>8 DEF p
  <2>4. fe_neg(x0) = El(-x0)
    BY <2>2, FeOne
  <2>5. CASE x0 = 0
    <3>1. El(-x0) = 0
      <4>1. x0 \in Int /\ x0 <= 0 /\ x0 >= 0
        BY <2>5
      <4>2. -x0 = x0
        BY <4>1, MinusZero
      <4>3. QED
        BY <4>2, <2>5, OneIs
    <3>2. x = El(-x0)
      BY <2>4, <2>5, <3>1
    <3>3. QED
      BY <2>2, <2>3, <2>5, <3>2
  <2>6. CASE x0 # 0 /\ fe_isodd(x0) = s.sign
    <3>1. x = El(-x0)
      BY <2>4, <2>6
    <3>2. QED
      BY <2>2, <2>3, <2>6, <3>1
  <2>7. CASE x0 # 0 /\ fe_isodd(x0) # s.sign
    <3> DEFINE u == El(-x0)
    <3>1. u \in Field /\ fe_isodd(u) = 1 - fe_isodd(x0) /\ fe_isodd(x0) \in {0, 1} /\ El(-u) = x0
      BY <2>2, <2>7, OppositeParity
    <3>2. fe_isodd(u) = s.sign
      BY <2>7, <3>1 DEF IsEncoding
    <3>3. u \in Abscissas(y)
      <4> DEFINE m == -x0
                 f == (y * y) * d + 1
      <4>1. m \in Int /\ El(u) = El(m) /\ m * m = x0 * x0 /\ u \in Int /\ f \in Int
        BY <2>2, <3>1, <1>2, ElIs
      <4> HIDE DEF m, u, f
      <4>2. El(u * u) = El(m * m)
        BY <4>1, ElMul
      <4> DEFINE a == u * u
                 b == x0 * x0
      <4>3. a \in Int /\ b \in Int /\ El(a) = El(b)
        BY <2>2, <4>1, <4>2
      <4> HIDE DEF a, b
      <4>4. El(a * f) = El(b * f)
        BY <4>1, <4>3, ElFactor
      <4>5. El(b * f) = El(y * y - 1)
        BY <1>2, <2>2, AbscissaIs DEF b, f
      <4>6. QED
        BY <1>2, <3>1, <4>4, <4>5, AbscissaIs DEF a, f, u
    <3>4. x = El(-u)
      BY <2>7, <3>1
    <3> HIDE DEF u
    <3>5. QED
      BY <2>3, <3>2, <3>3, <3>4
  <2>8. QED
    BY <2>5, <2>6, <2>7
<1>9. QED
  BY <1>1, <1>2, <1>7, <1>8 DEF g

LEMMA TwosAre ==
  /\ Bits \in Nat /\ Bits >= 8 /\ Bits <= 256 /\ 2 ^ 0 = 1
  /\ \A k \in 0 .. Bits : 2 ^ k \in Nat \ {0}
  /\ \A k \in 0 .. (Bits - 1) : 2 ^ (k + 1) = 2 * 2 ^ k
<1>1. Bits \in Nat /\ Bits >= 8 /\ Bits <= 256
  BY WidthAssumption
<1>2. 2 ^ 0 = 1 /\ \A k \in 0 .. (Bits - 1) : 2 ^ (k + 1) = 2 * 2 ^ k
  BY Zenon, WidthAssumption
<1> DEFINE T == {k \in 0 .. Bits : 2 ^ k \in Nat \ {0}}
<1>3. 0 \in T
  BY <1>1, <1>2
<1>4. ASSUME NEW k \in 0 .. (Bits - 1), k \in T
      PROVE  k + 1 \in T
  <2>1. 2 ^ (k + 1) = 2 * 2 ^ k /\ 2 ^ k \in Nat \ {0} /\ k + 1 \in 0 .. Bits
    BY <1>1, <1>2, <1>4
  <2> DEFINE a == 2 ^ (k + 1)
             b == 2 ^ k
  <2>2. a \in Nat \ {0}
    <3> HIDE DEF a, b
    <3>1. a = 2 * b /\ b \in Nat \ {0}
      BY <2>1 DEF a, b
    <3>2. QED
      BY <3>1
  <2>3. QED
    BY <2>1, <2>2
<1> HIDE DEF T
<1>5. \A k \in 0 .. Bits : k \in T
  BY <1>1, <1>3, <1>4, InductionTo
<1>6. QED
  BY <1>1, <1>2, <1>5 DEF T

\* The powers of two add their exponents.
LEMMA TwosSum ==
  ASSUME NEW a \in Nat, NEW b \in Nat, a + b <= Bits
  PROVE  2 ^ (a + b) = 2 ^ a * 2 ^ b
<1> DEFINE z == 2 ^ a
           T == {k \in 0 .. b : 2 ^ (a + k) = z * 2 ^ k}
<1>1. z \in Nat
  BY TwosAre
<1>2. 0 \in T
  <2>1. a + 0 = a /\ z * 1 = z
    BY <1>1
  <2>2. QED
    BY <2>1, TwosAre
<1>3. ASSUME NEW k \in 0 .. (b - 1), k \in T
      PROVE  k + 1 \in T
  <2> DEFINE x == 2 ^ k
             y == 2 ^ (k + 1)
             u == 2 ^ (a + k)
             v == 2 ^ (a + (k + 1))
  <2>1. k \in 0 .. (Bits - 1) /\ a + k \in 0 .. (Bits - 1) /\ a + (k + 1) = (a + k) + 1 /\ k \in 0 .. Bits
    BY TwosAre
  <2>2. y = 2 * x /\ v = 2 * u /\ x \in Nat /\ u = z * x
    BY <1>3, <2>1, TwosAre
  <2>3. v = z * y
    <3> HIDE DEF x, y, z, u, v
    <3>1. QED
      BY <1>1, <2>2
  <2>4. QED
    BY <2>3
<1> HIDE DEF T
<1>4. \A k \in 0 .. b : k \in T
  BY <1>2, <1>3, InductionTo
<1>5. QED
  BY <1>4 DEF T

\* A scalar without its lowest bits.
High(s, i) == s \div 2 ^ i

LEMMA HighIs ==
  ASSUME NEW s \in Nat, NEW i \in 0 .. Bits
  PROVE  /\ High(s, i) \in Nat /\ High(s, 0) = s
         /\ s < 2 ^ i => High(s, i) = 0
         /\ High(s, i) = 0 => s < 2 ^ i
<1> DEFINE D == 2 ^ i
           q == s \div D
<1>1. D \in Nat \ {0}
  BY TwosAre
<1> HIDE DEF D
<1>2. s = D * q + (s % D) /\ q \in Nat /\ s % D \in 0 .. (D - 1) /\ \A y \in Nat : s < D * y => q < y
  BY <1>1, LowAndHigh
<1>3. s < D => q = 0
  <2>1. D * 1 = D
    BY <1>1
  <2>2. s < D * 1 => q < 1
    BY <1>2
  <2>3. QED
    BY <1>2, <2>1, <2>2
<1>4. q = 0 => s < D
  <2> DEFINE r == s % D
             e == D * q
  <2>1. q = 0 => e = 0
    BY <1>1
  <2>2. s = e + r /\ r \in 0 .. (D - 1)
    BY <1>2
  <2> HIDE DEF e, r
  <2>3. QED
    BY <1>1, <2>1, <2>2
<1>5. High(s, 0) = s
  BY TwosAre DEF High
<1>6. QED
  BY <1>2, <1>3, <1>4, <1>5 DEF High, D

LEMMA BitIs ==
  ASSUME NEW s \in Nat, NEW i \in 0 .. (Bits - 1)
  PROVE  /\ scalar_bit(s, i) \in {0, 1} /\ scalar_bit(s, -1) = 0
         /\ High(s, i) = 2 * High(s, i + 1) + scalar_bit(s, i)
<1> DEFINE D == 2 ^ i
           E == 2 ^ (i + 1)
           q == s \div D
           r == s % D
           u == q \div 2
           b == q % 2
<1>1. D \in Nat \ {0} /\ E = 2 * D /\ i + 1 \in 0 .. Bits
  BY TwosAre
<1> HIDE DEF D, E
<1>2. s = D * q + r /\ q \in Nat /\ r \in 0 .. (D - 1)
  BY <1>1, LowAndHigh
<1> HIDE DEF q, r
<1>3. q = 2 * u + b /\ u \in Nat /\ b \in {0, 1}
  BY <1>2
<1> HIDE DEF u, b
<1> DEFINE t == D * b + r
<1>4. t \in 0 .. (E - 1) /\ s = E * u + t /\ E \in Nat \ {0}
  <2>1. E * u = D * (2 * u) /\ D * q = D * (2 * u) + D * b
    BY <1>1, <1>2, <1>3
  <2>2. D * b \in Nat /\ D * b <= D
    BY <1>1, <1>3
  <2>3. E * u \in Nat /\ D * q \in Nat
    BY <1>1, <1>2, <1>3
  <2>4. QED
    BY <1>1, <1>2, <1>3, <2>1, <2>2, <2>3
<1> HIDE DEF t
<1>5. s \div E = u
  BY <1>3, <1>4, Division
<1>6. scalar_bit(s, i) = b /\ High(s, i) = q /\ High(s, i + 1) = u
  BY <1>5 DEF scalar_bit, High, b, q, D, E
<1>7. scalar_bit(s, -1) = 0
  <2> DEFINE m == -1
  <2>1. m < 0
    OBVIOUS
  <2> HIDE DEF m
  <2>2. scalar_bit(s, m) = 0
    BY <2>1 DEF scalar_bit
  <2>3. QED
    BY <2>2 DEF m
<1>8. QED
  BY <1>3, <1>6, <1>7

LEMMA IntDivision ==
  ASSUME NEW D \in Nat \ {0}, NEW v \in Int
  PROVE  v = D * (v \div D) + (v % D) /\ v \div D \in Int /\ v % D \in 0 .. (D - 1)
OBVIOUS

IsShift(v, s) == v % 2 ^ s = 0 /\ (v \div 2 ^ s) % 2 = 1

LEMMA ShiftFor ==
  ASSUME NEW s \in 0 .. Bits, NEW u \in Int, u % 2 = 1
  PROVE  IsShift(2 ^ s * u, s)
<1> DEFINE D == 2 ^ s
           r == 0
<1>1. D \in Nat \ {0} /\ r \in 0 .. (D - 1)
  BY TwosAre
<1> HIDE DEF D, r
<1>2. (D * u + r) \div D = u /\ (D * u + r) % D = r
  BY <1>1, Division
<1>3. D * u + r = D * u
  BY <1>1 DEF r
<1>4. QED
  BY <1>2, <1>3 DEF IsShift, D, r

LEMMA ShiftThere ==
  ASSUME NEW n \in 0 .. 7
  PROVE  \A v \in Int : v # 0 /\ v <= 2 ^ n /\ -(2 ^ n) <= v => \E s \in 0 .. n : \E u \in Int : u % 2 = 1 /\ v = 2 ^ s * u
<1> DEFINE Small(v, k) == v # 0 /\ v <= 2 ^ k /\ -(2 ^ k) <= v
           Has(v, k) == \E s \in 0 .. k : \E u \in Int : u % 2 = 1 /\ v = 2 ^ s * u
           T == {k \in 0 .. n : \A v \in Int : Small(v, k) => Has(v, k)}
<1>1. \A k \in 0 .. 8 : 2 ^ k \in Nat \ {0} /\ (k < 8 => 2 ^ (k + 1) = 2 * 2 ^ k)
  BY TwosAre
<1>2. ASSUME NEW k \in 0 .. n, NEW v \in Int, v % 2 = 1
      PROVE  Has(v, k)
  <2>1. 0 \in 0 .. k /\ 2 ^ 0 * v = v
    BY TwosAre
  <2>2. QED
    BY <1>2, <2>1
<1>3. 0 \in T
  <2>1. ASSUME NEW v \in Int, Small(v, 0)
        PROVE  Has(v, 0)
    <3>1. v = 1 \/ v = -1
      BY <2>1, TwosAre
    <3>2. v % 2 = 1
      BY <3>1
    <3>3. QED
      BY <1>2, <3>2
  <2>2. 0 \in 0 .. n
    OBVIOUS
  <2> HIDE DEF Small, Has
  <2>3. QED
    BY <2>1, <2>2
<1>4. ASSUME NEW k \in 0 .. (n - 1), k \in T
      PROVE  k + 1 \in T
  <2> DEFINE x == 2 ^ k
             y == 2 ^ (k + 1)
  <2>1. x \in Nat /\ y = 2 * x /\ k + 1 \in 0 .. n
    <3>1. k \in 0 .. 8 /\ k < 8 /\ k + 1 \in 0 .. n
      OBVIOUS
    <3>2. QED
      BY <1>1, <3>1
  <2>2. ASSUME NEW v \in Int, Small(v, k + 1)
        PROVE  Has(v, k + 1)
    <3> DEFINE u == v \div 2
    <3>1. v # 0 /\ v <= y /\ -y <= v
      BY <2>2
    <3> HIDE DEF x, y
    <3>2. CASE v % 2 = 1
      BY <1>2, <2>1, <3>2
    <3>3. CASE v % 2 = 0
      <4>1. u \in Int /\ v = 2 * u
        BY <3>3
      <4> HIDE DEF u
      <4>2. u # 0 /\ u <= x /\ -x <= u
        BY <2>1, <3>1, <4>1
      <4>3. Has(u, k)
        BY <1>4, <4>1, <4>2 DEF x
      <4>4. PICK s \in 0 .. k, w \in Int : w % 2 = 1 /\ u = 2 ^ s * w
        BY <4>3
      <4> DEFINE a == 2 ^ s
                 b == 2 ^ (s + 1)
      <4>5. a \in Nat /\ b = 2 * a /\ s + 1 \in 0 .. (k + 1)
        <5>1. s \in 0 .. 8 /\ s < 8 /\ s + 1 \in 0 .. (k + 1)
          BY <4>4
        <5>2. QED
          BY <1>1, <5>1
      <4>6. u = a * w
        BY <4>4
      <4> HIDE DEF a, b
      <4>7. v = b * w
        BY <4>1, <4>4, <4>5, <4>6
      <4>8. QED
        BY <4>4, <4>5, <4>7 DEF b
    <3>4. QED
      BY <3>2, <3>3
  <2>3. QED
    BY <2>1, <2>2
<1> HIDE DEF T
<1>5. \A k \in 0 .. n : k \in T
  BY <1>3, <1>4, InductionTo
<1>6. n \in T
  BY <1>5
<1>7. QED
  BY <1>6 DEF T

\* A digit of a window is odd, and its place inside the window.
LEMMA ShiftIs ==
  ASSUME NEW n \in 0 .. 7, NEW v \in Int, v # 0, v <= 2 ^ n, -(2 ^ n) <= v
  PROVE  LET s == Shift(v)
             u == v \div 2 ^ s
         IN s \in 0 .. n /\ u \in Int /\ u % 2 = 1 /\ v = 2 ^ s * u /\ u <= 2 ^ n /\ -(2 ^ n) <= u
<1> DEFINE s == Shift(v)
           D == 2 ^ s
           u == v \div D
           X == 2 ^ n
<1>1. PICK t \in 0 .. n, w \in Int : w % 2 = 1 /\ v = 2 ^ t * w
  BY ShiftThere
<1>2. t \in 0 .. 7 /\ IsShift(v, t)
  <2>1. t \in 0 .. Bits
    BY TwosAre
  <2>2. IsShift(2 ^ t * w, t)
    BY <1>1, <2>1, ShiftFor
  <2>3. QED
    BY <1>1, <2>2
<1>3. s \in 0 .. 7 /\ IsShift(v, s)
  BY <1>2 DEF Shift, IsShift
<1> HIDE DEF s
<1>4. D \in Nat \ {0} /\ X \in Nat \ {0} /\ v <= X /\ -X <= v
  BY <1>3, TwosAre
<1>5. v % D = 0 /\ u % 2 = 1
  BY <1>3 DEF IsShift
<1> HIDE DEF D, X
<1>6. v = D * u /\ u \in Int
  <2> DEFINE r == v % D
  <2>1. v = D * u + r /\ u \in Int /\ r = 0
    BY <1>4, <1>5, IntDivision
  <2> HIDE DEF r, u
  <2>2. QED
    BY <1>4, <2>1
<1> HIDE DEF u
<1>7. u # 0
  BY <1>5
<1>8. D <= X /\ u <= X /\ -X <= u
  <2>1. CASE u > 0
    <3>1. D <= D * u /\ u <= D * u
      BY <1>4, <1>6, <2>1
    <3>2. QED
      BY <1>4, <1>6, <2>1, <3>1
  <2>2. CASE u < 0
    <3> DEFINE m == -u
    <3>1. m \in Nat /\ m > 0 /\ v = -(D * m) /\ u = -m
      BY <1>4, <1>6, <2>2
    <3> HIDE DEF m
    <3>2. D <= D * m /\ m <= D * m
      BY <1>4, <3>1
    <3>3. QED
      BY <1>4, <3>1, <3>2
  <2>3. QED
    BY <1>6, <1>7, <2>1, <2>2
<1>9. s <= n
  <2>1. SUFFICES ASSUME s >= n + 1 PROVE FALSE
    BY <1>3
  <2> DEFINE k == s - (n + 1)
             E == 2 ^ k
             Y == 2 ^ (n + 1)
  <2>2. k \in Nat /\ n + 1 \in Nat /\ (n + 1) + k = s /\ s <= Bits /\ n \in 0 .. (Bits - 1) /\ k \in 0 .. Bits
    BY <1>3, <2>1, TwosAre
  <2>3. 2 ^ ((n + 1) + k) = Y * E
    BY <2>2, TwosSum
  <2>4. Y = 2 * X /\ E \in Nat \ {0} /\ D = Y * E
    BY <2>2, <2>3, TwosAre DEF X, D
  <2> HIDE DEF E, Y
  <2>5. D >= 2 * X
    <3>1. D = (2 * X) * E /\ 2 * X \in Nat
      BY <1>4, <2>4
    <3>2. (2 * X) * E >= 2 * X
      BY <2>4, <3>1
    <3>3. QED
      BY <3>1, <3>2
  <2>6. QED
    BY <1>4, <1>8, <2>5
<1>10. QED
  BY <1>3, <1>5, <1>6, <1>8, <1>9 DEF s, D, u, X

\* The bits of a window below its top bit.
WindowBits(g, scalar, i, w) ==
  g = [j \in 0 .. w - 1 |->
         IF j = 0 THEN 0 ELSE g[j - 1] + scalar_bit(scalar, i - (w - 1) + j - 1) * 2 ^ (j - 1)]

LEMMA WindowUnfold ==
  ASSUME NEW scalar, NEW i, NEW w
  PROVE  Window(scalar, i, w)
           = (CHOOSE g : WindowBits(g, scalar, i, w))[w - 1] + scalar_bit(scalar, i - w)
               - scalar_bit(scalar, i) * 2 ^ (w - 1)
BY Zenon DEF Window, WindowBits

LEMMA BitBinary ==
  ASSUME NEW s \in Nat, NEW i \in -1 .. (Bits - 1)
  PROVE  scalar_bit(s, i) \in {0, 1} /\ scalar_bit(s, i) \in Int
<1>1. CASE i \in 0 .. (Bits - 1)
  BY <1>1, BitIs
<1>2. CASE i < 0
  BY <1>2 DEF scalar_bit
<1>3. QED
  BY <1>1, <1>2

LEMMA WindowBitsAre ==
  ASSUME NEW s \in Nat, NEW i \in 0 .. (Bits - 1), NEW w \in 1 .. (i + 1), NEW h,
         h = CHOOSE g : WindowBits(g, s, i, w)
  PROVE  \A j \in 0 .. (w - 1) :
           /\ h[j] \in 0 .. (2 ^ j - 1)
           /\ High(s, (i + 1) - w) = h[j] + 2 ^ j * High(s, ((i + 1) - w) + j)
           /\ j # 0 => h[j] = h[j - 1] + scalar_bit(s, ((i + 1) - w) + (j - 1)) * 2 ^ (j - 1)
<1> DEFINE m == (i + 1) - w
           n == w - 1
           b(j) == scalar_bit(s, m + (j - 1)) * 2 ^ (j - 1)
           F == [j \in 1 .. n |-> [x \in Int |-> x + b(j)]]
<1>1. m \in Nat /\ n \in Nat /\ m + n = i /\ \A j \in 1 .. n : m + (j - 1) \in 0 .. (Bits - 1) /\ j - 1 \in 0 .. (Bits - 1)
  BY TwosAre
<1>2. \A j \in 1 .. n : /\ scalar_bit(s, m + (j - 1)) \in {0, 1} /\ 2 ^ (j - 1) \in Nat \ {0}
                        /\ b(j) \in Int
  <2>1. ASSUME NEW j \in 1 .. n
        PROVE  scalar_bit(s, m + (j - 1)) \in {0, 1} /\ 2 ^ (j - 1) \in Nat \ {0}
    BY <1>1, BitIs, TwosAre
  <2>2. ASSUME NEW x \in {0, 1}, NEW y \in Nat PROVE x * y \in Int
    OBVIOUS
  <2>3. QED
    BY <2>1, <2>2
<1>3. PICK g : Follows(g, Int, 0, F, n)
  <2>1. StaysIn(Int, F, n)
    BY <1>2 DEF StaysIn
  <2> HIDE DEF F
  <2>2. QED
    BY <1>1, <2>1, Recursion
<1>4. \A j \in 1 .. n : g[j] = g[j - 1] + b(j)
  <2>1. \A j \in 1 .. n : g[j - 1] \in Int
    BY <1>1, <1>3 DEF Follows
  <2>2. QED
    BY <1>3, <2>1 DEF Follows
<1> HIDE DEF F
<1>5. \A j : i - (w - 1) + j - 1 = i - (w - 1) + j - 1
  OBVIOUS
<1>6. \A j \in 1 .. n : i - (w - 1) + j - 1 = m + (j - 1)
  BY <1>1
<1>7. \A e : WindowBits(e, s, i, w) <=> e = [j \in 0 .. n |-> IF j = 0 THEN 0 ELSE e[j - 1] + b(j)]
  <2>1. \A j \in 0 .. n : j = 0 \/ j \in 1 .. n
    BY <1>1
  <2>2. ASSUME NEW e
        PROVE  [j \in 0 .. n |-> IF j = 0 THEN 0 ELSE e[j - 1] + scalar_bit(s, i - (w - 1) + j - 1) * 2 ^ (j - 1)]
                 = [j \in 0 .. n |-> IF j = 0 THEN 0 ELSE e[j - 1] + b(j)]
    BY <1>6, <2>1, Zenon
  <2>3. QED
    BY <2>2, Zenon DEF WindowBits
<1> HIDE DEF b
<1>8. WindowBits(g, s, i, w)
  <2>1. g = [j \in 0 .. n |-> IF j = 0 THEN 0 ELSE g[j - 1] + b(j)]
    <3>1. g = [j \in 0 .. n |-> g[j]] /\ g[0] = 0
      BY <1>3 DEF Follows
    <3>2. \A j \in 0 .. n : j = 0 \/ j \in 1 .. n
      BY <1>1
    <3>3. QED
      BY <1>4, <3>1, <3>2
  <2>2. QED
    BY <1>7, <2>1, Zenon
<1>9. h = [j \in 0 .. n |-> IF j = 0 THEN 0 ELSE h[j - 1] + b(j)]
  BY <1>7, <1>8, Zenon
<1>10. h[0] = 0 /\ \A j \in 1 .. n : h[j] = h[j - 1] + b(j)
  <2>1. 0 \in 0 .. n /\ \A j \in 1 .. n : j \in 0 .. n /\ j # 0
    BY <1>1
  <2>2. QED
    BY <1>9, <2>1
<1> DEFINE T == {j \in 0 .. n : h[j] \in 0 .. (2 ^ j - 1) /\ High(s, m) = h[j] + 2 ^ j * High(s, m + j)}
<1>11. 0 \in T
  <2>1. m + 0 = m /\ m \in 0 .. Bits
    BY <1>1, TwosAre
  <2>2. High(s, m) \in Nat
    BY <2>1, HighIs
  <2>3. High(s, m) = 0 + 1 * High(s, m)
    BY <2>2
  <2>4. QED
    BY <1>1, <1>10, <2>1, <2>3, TwosAre
<1>12. ASSUME NEW k \in 0 .. (n - 1), k \in T
       PROVE  k + 1 \in T
  <2> DEFINE x == 2 ^ k
             y == 2 ^ (k + 1)
             q == High(s, m + k)
             u == High(s, m + (k + 1))
             c == scalar_bit(s, m + k)
             a == h[k]
             e == h[k + 1]
             z == High(s, m)
  <2>1. k + 1 \in 1 .. n /\ (k + 1) - 1 = k /\ m + k \in 0 .. (Bits - 1) /\ k \in 0 .. (Bits - 1) /\ m + (k + 1) = (m + k) + 1 /\ m + (k + 1) \in 0 .. Bits /\ m + k \in 0 .. Bits
    BY <1>1, TwosAre
  <2>2. y = 2 * x /\ x \in Nat \ {0}
    BY <2>1, TwosAre
  <2>3. q = 2 * u + c /\ c \in {0, 1}
    BY <2>1, BitIs
  <2>4. q \in Nat /\ u \in Nat
    BY <2>1, HighIs
  <2>5. a \in 0 .. (x - 1) /\ z = a + x * q
    BY <1>12
  <2>6. e = a + c * x
    BY <1>10, <2>1 DEF b
  <2> HIDE DEF x, y, q, u, c, a, e, z
  <2>7. e \in 0 .. (y - 1)
    BY <2>2, <2>3, <2>5, <2>6
  <2>8. z = e + y * u
    <3>1. x * q = x * (2 * u) + c * x
      BY <2>2, <2>3, <2>4
    <3>2. x * (2 * u) = y * u
      BY <2>2, <2>4
    <3>3. x * q \in Nat /\ y * u \in Nat /\ c * x \in Nat
      BY <2>2, <2>3, <2>4
    <3>4. QED
      BY <2>5, <2>6, <3>1, <3>2, <3>3
  <2>9. QED
    BY <2>1, <2>7, <2>8 DEF e, y, z, u
<1> HIDE DEF T
<1>13. \A j \in 0 .. n : j \in T
  BY <1>1, <1>11, <1>12, InductionTo
<1>14. ASSUME NEW j \in 0 .. n, j # 0
       PROVE  h[j] = h[j - 1] + b(j)
  BY <1>1, <1>10, <1>14
<1>15. QED
  BY <1>13, <1>14 DEF T, b

\* What the bits from i on stand for, rounded up by the bit below them.
Rounded(s, i) == High(s, i) + scalar_bit(s, i - 1)

\* A window is the difference of two roundings; when its two top bits differ, it is not
\* zero and of w - 1 bits.
LEMMA WindowIs ==
  ASSUME NEW s \in Nat, NEW i \in 0 .. (Bits - 1), NEW w \in 1 .. (i + 1), w >= 2 \/ i = 0
  PROVE  LET v == Window(s, i, w) IN
         /\ v \in Int /\ Rounded(s, (i + 1) - w) = 2 ^ w * Rounded(s, i + 1) + v
         /\ scalar_bit(s, i) # scalar_bit(s, i - 1) =>
              v # 0 /\ v <= 2 ^ (w - 1) /\ -(2 ^ (w - 1)) <= v
<1> DEFINE h == CHOOSE g : WindowBits(g, s, i, w)
           m == (i + 1) - w
           n == w - 1
           v == Window(s, i, w)
           X == 2 ^ n
           Y == 2 ^ w
           q == High(s, m)
           u == High(s, i)
           t == High(s, i + 1)
           top == scalar_bit(s, i)
           second == scalar_bit(s, i - 1)
           below == scalar_bit(s, m - 1)
           a == h[n]
<1>1. /\ m \in 0 .. (Bits - 1) /\ n \in 0 .. (Bits - 1) /\ m + n = i /\ n + 1 = w /\ m - 1 \in -1 .. (Bits - 1)
      /\ i - 1 \in -1 .. (Bits - 1) /\ i - w = m - 1 /\ i + 1 \in 0 .. Bits /\ i \in 0 .. Bits /\ m \in 0 .. Bits
      /\ n \in 0 .. (w - 1)
  BY TwosAre
<1>2. v = a + (below - top * X)
  <2>1. v = a + (scalar_bit(s, i - w) - top * X)
    BY WindowUnfold
  <2> HIDE DEF v
  <2>2. QED
    BY <1>1, <2>1, Zenon
<1>3. a \in 0 .. (X - 1) /\ q = a + X * u
  <2>1. h[n] \in 0 .. (2 ^ n - 1) /\ High(s, m) = h[n] + 2 ^ n * High(s, m + n)
    <3>1. \A j \in 0 .. (w - 1) : h[j] \in 0 .. (2 ^ j - 1) /\ High(s, m) = h[j] + 2 ^ j * High(s, m + j)
      BY WindowBitsAre
    <3> HIDE DEF h, m, n
    <3>2. QED
      BY <1>1, <3>1
  <2>2. QED
    BY <1>1, <2>1
<1>4. n # 0 => h[n - 1] \in 0 .. (2 ^ (n - 1) - 1) /\ a = h[n - 1] + second * 2 ^ (n - 1)
  <2>1. ASSUME n # 0
        PROVE  n - 1 \in 0 .. (w - 1) /\ m + (n - 1) = i - 1
    BY <1>1, <2>1
  <2>2. ASSUME n # 0
        PROVE  h[n - 1] \in 0 .. (2 ^ (n - 1) - 1) /\ h[n] = h[n - 1] + scalar_bit(s, m + (n - 1)) * 2 ^ (n - 1)
    BY ZenonT(60), <1>1, <2>1, <2>2, WindowBitsAre
  <2>3. QED
    BY <2>1, <2>2
<1>5. top \in {0, 1} /\ second \in {0, 1} /\ below \in {0, 1}
  BY <1>1, BitBinary
<1>6. u = 2 * t + top /\ u \in Nat /\ t \in Nat /\ q \in Nat
  BY <1>1, HighIs, BitIs
<1>7. X \in Nat \ {0} /\ Y = 2 * X
  BY <1>1, TwosAre
<1>8. n # 0 => \E Z \in Nat \ {0} : X = 2 * Z /\ Z = 2 ^ (n - 1)
  <2>1. ASSUME n # 0
        PROVE  n - 1 \in 0 .. (Bits - 1) /\ (n - 1) + 1 = n
    BY <1>1, <2>1, TwosAre
  <2>2. ASSUME n # 0
        PROVE  2 ^ n = 2 * 2 ^ (n - 1) /\ 2 ^ (n - 1) \in Nat \ {0}
    <3>1. n - 1 \in 0 .. (Bits - 1) /\ (n - 1) + 1 = n /\ n - 1 \in 0 .. Bits
      BY <2>1, <2>2, TwosAre
    <3> DEFINE k == n - 1
    <3>2. k \in 0 .. (Bits - 1) /\ k + 1 = n /\ k \in 0 .. Bits
      BY <3>1
    <3> HIDE DEF k, n
    <3>3. 2 ^ (k + 1) = 2 * 2 ^ k /\ 2 ^ k \in Nat \ {0}
      BY <3>2, TwosAre
    <3>4. QED
      BY <3>2, <3>3 DEF k
  <2>3. QED
    BY <2>2
<1>9. Rounded(s, m) = q + below /\ Rounded(s, i + 1) = t + top
  <2>1. (i + 1) - 1 = i
    OBVIOUS
  <2>2. QED
    BY <2>1 DEF Rounded
<1>10. n = 0 => i = 0 /\ m = 0 /\ second = 0 /\ below = 0
  <2>1. ASSUME n = 0
        PROVE  i = 0 /\ m = 0
    BY <1>1, <2>1
  <2>2. ASSUME n = 0
        PROVE  second = 0 /\ below = 0
    <3>1. i - 1 < 0 /\ m - 1 < 0
      BY <2>1, <2>2
    <3>2. QED
      BY <3>1 DEF scalar_bit
  <2>3. QED
    BY <2>1, <2>2
<1> HIDE DEF h, m, v, X, Y, q, u, t, top, second, below, n, a
<1>11. v \in Int /\ q + below = Y * (t + top) + v
  <2>1. X * u = 2 * (X * t) + X * top /\ Y * (t + top) = 2 * (X * t) + 2 * (X * top)
    BY <1>5, <1>6, <1>7
  <2>2. top * X = X * top /\ X * top \in Int /\ X * t \in Int
    BY <1>5, <1>6, <1>7
  <2>3. QED
    BY <1>2, <1>3, <1>5, <2>1, <2>2
<1>12. ASSUME top # second
       PROVE  v # 0 /\ v <= X /\ -X <= v
  <2>1. CASE n = 0
    <3>1. X = 1
      BY <2>1, TwosAre DEF X
    <3>2. a = 0 /\ top = 1 /\ below = 0
      BY <1>3, <1>5, <1>10, <1>12, <2>1, <3>1
    <3>3. QED
      BY <1>2, <3>1, <3>2
  <2>2. CASE n # 0
    <3>1. PICK Z \in Nat \ {0} : X = 2 * Z /\ Z = 2 ^ (n - 1)
      BY <1>8, <2>2
    <3> DEFINE r == h[n - 1]
    <3>2. r \in 0 .. (Z - 1) /\ a = r + second * Z
      BY <1>4, <2>2, <3>1
    <3> HIDE DEF r
    <3>3. CASE top = 0 /\ second = 1
      BY <1>2, <1>5, <3>1, <3>2, <3>3
    <3>4. CASE top = 1 /\ second = 0
      BY <1>2, <1>5, <3>1, <3>2, <3>4
    <3>5. QED
      BY <1>5, <1>12, <3>3, <3>4
  <2>3. QED
    BY <2>1, <2>2
<1>13. QED
  BY <1>9, <1>11, <1>12 DEF v, X, Y, m, n, top, second

Contexts == [next_check : Int, next_index : Int, next_digit : Int]

IsDigit(x, width) == x \in Int /\ x % 2 = 1 /\ x <= 2 ^ (width - 1) /\ -(2 ^ (width - 1)) <= x

\* The digits behind c are known; one of them may still be below i.
Pending(s, width, ctx, i, sum, c) ==
  /\ c < ctx.next_index /\ ctx.next_index <= i /\ IsDigit(ctx.next_digit, width)
  /\ 2 ^ (i + 1) * sum + 2 ^ ctx.next_index * ctx.next_digit = 2 ^ (c + 1) * Rounded(s, c + 1)

Settled(s, ctx, i, sum, c) ==
  /\ ctx.next_index = -1 \/ ctx.next_index > i
  /\ 2 ^ (i + 1) * sum = 2 ^ (c + 1) * Rounded(s, c + 1)

\* The digits met above i add up to `sum`.
SlideInv(s, width, ctx, i, sum) ==
  /\ ctx \in Contexts /\ sum \in Int
  /\ \E c \in -1 .. i : /\ ctx.next_check = c % 256
                        /\ Pending(s, width, ctx, i, sum, c) \/ Settled(s, ctx, i, sum, c)

SlideNext(s, width, r, i, sum) ==
  /\ r.digit \in Int /\ (r.digit # 0 => IsDigit(r.digit, width))
  /\ SlideInv(s, width, r.ctx, i - 1, 2 * sum + r.digit)

LEMMA RoundedIs ==
  ASSUME NEW s \in Nat, NEW i \in 0 .. (Bits - 1)
  PROVE  Rounded(s, i) \in Int
<1>1. i - 1 \in -1 .. (Bits - 1) /\ i \in 0 .. Bits
  BY TwosAre
<1>2. QED
  BY <1>1, HighIs, BitBinary DEF Rounded

\* The next bit is not the end of a window.
LEMMA SlideInside ==
  ASSUME NEW s \in Nat, NEW width \in 2 .. 8, NEW ctx, NEW i \in 0 .. (Bits - 3), NEW sum,
         SlideInv(s, width, ctx, i, sum), i # ctx.next_check
  PROVE  SlideNext(s, width, slide_step(ctx, width, i, s), i, sum)
<1> DEFINE r == slide_step(ctx, width, i, s)
           p == ctx.next_index
           e == ctx.next_digit
           digit == IF i = p THEN e ELSE 0
           new == 2 * sum + digit
           X == 2 ^ i
           Y == 2 ^ (i + 1)
<1>1. r.ctx = ctx /\ r.digit = digit
  BY DEF slide_step
<1>2. PICK c \in -1 .. i : /\ ctx.next_check = c % 256
                           /\ Pending(s, width, ctx, i, sum, c) \/ Settled(s, ctx, i, sum, c)
  BY DEF SlideInv
<1>3. ctx \in Contexts /\ sum \in Int /\ p \in Int /\ e \in Int
  BY DEF SlideInv, Contexts
<1>4. c \in -1 .. (i - 1)
  <2>1. c # i
    <3>1. i % 256 = i
      BY TwosAre
    <3>2. QED
      BY <1>2, <3>1
  <2>2. QED
    BY <2>1
<1>5. X \in Nat /\ Y = 2 * X /\ (i - 1) + 1 = i
  <2>1. i \in 0 .. (Bits - 1) /\ i \in 0 .. Bits
    BY TwosAre
  <2>2. QED
    BY <2>1, TwosAre
<1> HIDE DEF r, p, e, X, Y
<1>6. digit \in Int /\ new \in Int
  BY <1>3
<1>7. CASE Pending(s, width, ctx, i, sum, c)
  <2> DEFINE Z == 2 ^ p
             W == 2 ^ (c + 1) * Rounded(s, c + 1)
  <2>1. c < p /\ p <= i /\ IsDigit(e, width) /\ Y * sum + Z * e = W
    BY <1>7 DEF Pending, p, e, Y
  <2>2. CASE p = i
    <3>1. Z = X
      BY <2>2 DEF X
    <3>2. digit = e
      BY <2>2
    <3> HIDE DEF Z, W, digit
    <3>3. X * new = W
      <4>1. X * new = (2 * X) * sum + X * e
        BY <1>3, <1>5, <3>2
      <4>2. QED
        BY <1>5, <2>1, <3>1, <4>1
    <3>4. p > i - 1
      BY <2>2
    <3>5. Settled(s, ctx, i - 1, new, c)
      BY <1>5, <3>3, <3>4 DEF Settled, p, X, W
    <3>6. SlideInv(s, width, ctx, i - 1, new)
      BY <1>2, <1>3, <1>4, <1>6, <3>5 DEF SlideInv
    <3>7. IsDigit(digit, width)
      BY <2>1, <3>2
    <3>8. QED
      BY <1>1, <1>6, <3>6, <3>7 DEF SlideNext, r
  <2>3. CASE p # i
    <3>1. digit = 0 /\ p <= i - 1
      BY <1>3, <2>1, <2>3
    <3> HIDE DEF Z, W, digit
    <3>2. X * new + Z * e = W
      <4>1. X * new = Y * sum
        BY <1>3, <1>5, <3>1
      <4>2. QED
        BY <2>1, <4>1
    <3>3. Pending(s, width, ctx, i - 1, new, c)
      BY <1>5, <2>1, <3>1, <3>2 DEF Pending, p, e, X, Z, W
    <3>4. SlideInv(s, width, ctx, i - 1, new)
      BY <1>2, <1>3, <1>4, <1>6, <3>3 DEF SlideInv
    <3>5. QED
      BY <1>1, <1>6, <3>1, <3>4 DEF SlideNext, r
  <2>4. QED
    BY <2>2, <2>3
<1>8. CASE Settled(s, ctx, i, sum, c)
  <2> DEFINE W == 2 ^ (c + 1) * Rounded(s, c + 1)
  <2>1. (p = -1 \/ p > i) /\ Y * sum = W
    BY <1>8 DEF Settled, p, Y
  <2>2. digit = 0 /\ (p = -1 \/ p > i - 1)
    BY <1>3, <2>1
  <2> HIDE DEF W, digit
  <2>3. X * new = W
    <3>1. X * new = Y * sum
      BY <1>3, <1>5, <2>2
    <3>2. QED
      BY <2>1, <3>1
  <2>4. Settled(s, ctx, i - 1, new, c)
    BY <1>5, <2>2, <2>3 DEF Settled, p, X, W
  <2>5. SlideInv(s, width, ctx, i - 1, new)
    BY <1>2, <1>3, <1>4, <1>6, <2>4 DEF SlideInv
  <2>6. QED
    BY <1>1, <1>6, <2>2, <2>5 DEF SlideNext, r
<1>9. QED
  BY <1>2, <1>7, <1>8

\* Where the next window may end, no digit is left over.
LEMMA SlideAt ==
  ASSUME NEW s \in Nat, NEW width \in 2 .. 8, NEW ctx, NEW i \in 0 .. (Bits - 3), NEW sum,
         SlideInv(s, width, ctx, i, sum), i = ctx.next_check
  PROVE  Settled(s, ctx, i, sum, i)
<1>1. PICK c \in -1 .. i : /\ ctx.next_check = c % 256
                           /\ Pending(s, width, ctx, i, sum, c) \/ Settled(s, ctx, i, sum, c)
  BY DEF SlideInv
<1>2. c = i
  <2>1. i < 255
    BY TwosAre
  <2>2. c = -1 => c % 256 = 255
    <3> DEFINE D == 256
               e == 255
    <3>1. D \in Nat \ {0} /\ e \in 0 .. (D - 1) /\ c \in Int
      OBVIOUS
    <3>2. c = -1 => D * c + e = c
      OBVIOUS
    <3> HIDE DEF D, e
    <3>3. (D * c + e) % D = e
      BY <3>1, Division
    <3>4. QED
      BY <3>2, <3>3 DEF D, e
  <2>3. c >= 0 => c % 256 = c
    BY <2>1
  <2>4. QED
    BY <1>1, <2>1, <2>2, <2>3
<1>3. ~Pending(s, width, ctx, i, sum, c)
  <2>1. ctx.next_index \in Int
    BY DEF SlideInv, Contexts
  <2>2. QED
    BY <1>2, <2>1 DEF Pending
<1>4. QED
  BY <1>1, <1>2, <1>3

\* A bit that is the same as the one below it.
LEMMA SlideEqual ==
  ASSUME NEW s \in Nat, NEW width \in 2 .. 8, NEW ctx, NEW i \in 0 .. (Bits - 3), NEW sum,
         SlideInv(s, width, ctx, i, sum), i = ctx.next_check,
         scalar_bit(s, i) = scalar_bit(s, i - 1)
  PROVE  SlideNext(s, width, slide_step(ctx, width, i, s), i, sum)
<1> DEFINE r == slide_step(ctx, width, i, s)
           new == [ctx EXCEPT !.next_check = (@ - 1) % 256]
           p == ctx.next_index
           X == 2 ^ i
           Y == 2 ^ (i + 1)
           c == i - 1
           b == scalar_bit(s, i)
           q == High(s, i)
           t == High(s, i + 1)
<1>1. ctx \in Contexts /\ sum \in Int /\ p \in Int
  BY DEF SlideInv, Contexts
<1>2. Settled(s, ctx, i, sum, i)
  BY SlideAt
<1>3. i - 1 \in Int /\ (i - 1) % 256 \in Int
  OBVIOUS
<1>4. new \in Contexts /\ new.next_check = c % 256 /\ new.next_index = p
  BY <1>1, <1>3 DEF Contexts
<1>5. r.ctx = new /\ r.digit = IF i = p THEN new.next_digit ELSE 0
  BY <1>4 DEF slide_step
<1>6. (p = -1 \/ p > i) /\ Y * sum = Y * Rounded(s, i + 1)
  BY <1>2 DEF Settled
<1>7. r.digit = 0
  BY <1>1, <1>5, <1>6
<1>8. X \in Nat /\ Y = 2 * X /\ i \in 0 .. (Bits - 1) /\ i - 1 \in -1 .. (Bits - 1) /\ i \in 0 .. Bits /\ i + 1 \in 0 .. Bits
  <2>1. i \in 0 .. (Bits - 1) /\ i \in 0 .. Bits /\ i - 1 \in -1 .. (Bits - 1) /\ i + 1 \in 0 .. Bits
    BY TwosAre
  <2>2. QED
    BY <2>1, TwosAre
<1>9. Rounded(s, i + 1) = t + b /\ Rounded(s, i) = q + b
  <2>1. (i + 1) - 1 = i
    OBVIOUS
  <2>2. QED
    BY <2>1 DEF Rounded
<1>10. q = 2 * t + b /\ b \in {0, 1} /\ q \in Nat /\ t \in Nat
  BY <1>8, BitIs, HighIs
<1>11. (i - 1) + 1 = i /\ c + 1 = i /\ c \in -1 .. (i - 1)
  OBVIOUS
<1> HIDE DEF r, new, p, X, Y, c, b, q, t
<1> DEFINE nw == 2 * sum + 0
<1>12. X * nw = X * (q + b) /\ nw \in Int
  <2>1. X * nw = Y * sum
    BY <1>1, <1>8
  <2>2. Y * (t + b) = X * (q + b)
    BY <1>8, <1>10
  <2>3. QED
    BY <1>1, <1>6, <1>9, <2>1, <2>2
<1> HIDE DEF nw
<1>13. Settled(s, new, i - 1, nw, c)
  <2>1. p = -1 \/ p > i - 1
    BY <1>1, <1>6
  <2>2. QED
    BY <1>4, <1>9, <1>11, <1>12, <2>1 DEF Settled, X
<1>14. SlideInv(s, width, new, i - 1, nw)
  BY <1>4, <1>11, <1>12, <1>13 DEF SlideInv
<1>15. 2 * sum + r.digit = nw
  BY <1>7 DEF nw
<1>16. QED
  BY <1>5, <1>7, <1>14, <1>15 DEF SlideNext, r

\* A window, its digit met at once or later.
LEMMA SlideWindow ==
  ASSUME NEW s \in Nat, NEW width \in 2 .. 8, NEW ctx, NEW i \in 0 .. (Bits - 3), NEW sum,
         SlideInv(s, width, ctx, i, sum), i = ctx.next_check,
         scalar_bit(s, i) # scalar_bit(s, i - 1)
  PROVE  SlideNext(s, width, slide_step(ctx, width, i, s), i, sum)
<1> DEFINE r == slide_step(ctx, width, i, s)
           w == IF width < i + 1 THEN width ELSE i + 1
           v == Window(s, i, w)
           k == Shift(v)
           e == v \div 2 ^ k
           p == i - (w - 1) + k
           m == (i + 1) - w
           c == i - w
           new == [next_check |-> (ctx.next_check - w) % 256, next_index |-> p, next_digit |-> e]
           digit == IF i = p THEN e ELSE 0
<1>1. ctx \in Contexts /\ sum \in Int /\ i \in 0 .. (Bits - 1)
  BY TwosAre DEF SlideInv
<1>2. Settled(s, ctx, i, sum, i)
  BY SlideAt
<1>3. r.ctx = new /\ r.digit = digit
  BY DEF slide_step
<1>4. /\ w \in 1 .. (i + 1) /\ w \in 1 .. 8 /\ (w >= 2 \/ i = 0) /\ w - 1 \in 0 .. 7 /\ w <= width
      /\ m \in 0 .. i /\ m + w = i + 1 /\ c = m - 1 /\ i + 1 <= Bits
  BY TwosAre
<1> HIDE DEF w
<1>5. /\ v \in Int /\ Rounded(s, m) = 2 ^ w * Rounded(s, i + 1) + v
      /\ v # 0 /\ v <= 2 ^ (w - 1) /\ -(2 ^ (w - 1)) <= v
  BY <1>1, <1>4, WindowIs
<1> HIDE DEF v
<1>6. /\ k \in 0 .. (w - 1) /\ e \in Int /\ e % 2 = 1 /\ v = 2 ^ k * e
      /\ e <= 2 ^ (w - 1) /\ -(2 ^ (w - 1)) <= e
  BY <1>4, <1>5, ShiftIs
<1> HIDE DEF k
<1>7. p = m + k /\ p \in m .. i /\ p + 0 = p
  <2>1. k \in 0 .. (w - 1) /\ w \in Int /\ m \in 0 .. i /\ m + w = i + 1
    BY <1>4, <1>6
  <2>2. k \in Int /\ m \in Int
    BY <2>1
  <2>3. p = m + k
    BY <2>1, <2>2
  <2>4. m + k \in m .. i
    BY <2>1, <2>2
  <2> HIDE DEF p
  <2>5. QED
    BY <2>2, <2>3, <2>4
<1>8. IsDigit(e, width)
  <2> DEFINE a == w - 1
             b == width - w
             X == 2 ^ a
             Z == 2 ^ b
             Y == 2 ^ (width - 1)
  <2>1. a \in Nat /\ b \in Nat /\ a + b = width - 1 /\ a + b <= Bits /\ a \in 0 .. Bits /\ b \in 0 .. Bits
    <3>1. w \in 1 .. 8 /\ w <= width /\ width \in 2 .. 8 /\ Bits \in Nat /\ Bits >= 8
      BY <1>4, TwosAre
    <3>2. QED
      BY <3>1
  <2> HIDE DEF a, b
  <2>2. 2 ^ (a + b) = X * Z /\ X \in Nat \ {0} /\ Z \in Nat \ {0}
    BY <2>1, TwosSum, TwosAre
  <2>3. Y = X * Z
    BY <2>1, <2>2
  <2> HIDE DEF X, Y, Z
  <2>4. X <= Y
    BY <2>2, <2>3
  <2>5. e <= X /\ -X <= e
    BY <1>6 DEF X, a
  <2> HIDE DEF e
  <2>6. e <= Y /\ -Y <= e
    BY <1>6, <2>2, <2>3, <2>4, <2>5
  <2>7. QED
    BY <1>6, <2>6 DEF IsDigit, Y
<1> HIDE DEF e, p, m
<1>9. new \in Contexts /\ new.next_check = c % 256 /\ new.next_index = p /\ new.next_digit = e
  <2>1. ctx.next_check - w = c
    OBVIOUS
  <2>2. c % 256 \in Int /\ p \in Int /\ e \in Int
    BY <1>4, <1>6, <1>7
  <2>3. QED
    BY <2>1, <2>2 DEF Contexts
<1>10. digit \in Int
  BY <1>6
<1> DEFINE A0 == 2 ^ (i + 1)
           M == 2 ^ m
           Wd == 2 ^ w
           K == 2 ^ k
           X == 2 ^ i
           Pp == 2 ^ p
           R == Rounded(s, i + 1)
           Q == Rounded(s, m)
           nw == 2 * sum + digit
<1>11. /\ A0 = M * Wd /\ Pp = M * K /\ A0 = 2 * X
       /\ M \in Nat /\ Wd \in Nat /\ K \in Nat /\ X \in Nat /\ R \in Int /\ Q \in Int
  <2>1. m \in Nat /\ w \in Nat /\ k \in Nat /\ m + w = i + 1 /\ p = m + k /\ m + w <= Bits /\ m + k <= Bits
    BY <1>4, <1>6, <1>7, TwosAre
  <2>2. 2 ^ (m + w) = M * Wd /\ 2 ^ (m + k) = M * K
    BY <2>1, TwosSum
  <2>3. A0 = M * Wd /\ Pp = M * K
    BY <2>1, <2>2
  <2>4. m \in 0 .. Bits /\ w \in 0 .. Bits /\ k \in 0 .. Bits /\ i \in 0 .. Bits
    BY <1>4, <1>6, TwosAre
  <2>5. M \in Nat /\ Wd \in Nat /\ K \in Nat /\ X \in Nat
    BY <2>4, TwosAre
  <2>6. A0 = 2 * X
    BY <1>1, TwosAre
  <2>7. i + 1 \in 0 .. (Bits - 1) /\ m \in 0 .. (Bits - 1)
    BY <1>4, TwosAre
  <2>8. R \in Int /\ Q \in Int
    BY <2>7, RoundedIs
  <2>9. QED
    BY <2>3, <2>5, <2>6, <2>8
<1>12. A0 * sum = A0 * R /\ Q = Wd * R + v /\ v = K * e
  BY <1>2, <1>5, <1>6 DEF Settled
<1>13. c \in -1 .. (i - 1) /\ c + 1 = m /\ (i - 1) + 1 = i /\ c < p
  BY <1>4, <1>7
<1> HIDE DEF r, c, new, digit, A0, M, Wd, K, X, Pp, R, Q
<1>14. A0 * sum + Pp * e = M * Q
  <2>1. M * Q = (M * Wd) * R + (M * K) * e
    BY <1>6, <1>11, <1>12
  <2>2. QED
    BY <1>11, <1>12, <2>1
<1>15. nw \in Int
  BY <1>1, <1>10
<1>16. CASE p = i
  <2>1. digit = e /\ Pp = X
    BY <1>16 DEF digit, Pp, X
  <2>2. X * nw = M * Q
    <3>1. X * nw = (2 * X) * sum + X * e
      BY <1>1, <1>6, <1>11, <2>1
    <3>2. QED
      BY <1>11, <1>14, <2>1, <3>1
  <2> HIDE DEF nw
  <2>3. Settled(s, new, i - 1, nw, c)
    BY <1>9, <1>13, <1>16, <2>2 DEF Settled, X, M, Q
  <2>4. SlideInv(s, width, new, i - 1, nw)
    BY <1>9, <1>13, <1>15, <2>3 DEF SlideInv
  <2>5. QED
    BY <1>3, <1>8, <1>10, <2>1, <2>4 DEF SlideNext, r, nw
<1>17. CASE p # i
  <2>1. digit = 0 /\ p <= i - 1
    BY <1>7, <1>17 DEF digit
  <2>2. X * nw + Pp * e = M * Q
    <3>1. X * nw = A0 * sum
      BY <1>1, <1>11, <2>1
    <3>2. QED
      BY <1>14, <3>1
  <2> HIDE DEF nw
  <2>3. Pending(s, width, new, i - 1, nw, c)
    BY <1>8, <1>9, <1>13, <2>1, <2>2 DEF Pending, X, M, Q, Pp
  <2>4. SlideInv(s, width, new, i - 1, nw)
    BY <1>9, <1>13, <1>15, <2>3 DEF SlideInv
  <2>5. QED
    BY <1>3, <1>10, <2>1, <2>4 DEF SlideNext, r, nw
<1>18. QED
  BY <1>16, <1>17

\* The scalars that slide_init takes.
Slidable == 0 .. (2 ^ (Bits - 3) - 1)

LEMMA HighZero ==
  ASSUME NEW s \in Nat, NEW n \in 0 .. Bits, High(s, n) = 0, NEW m \in 0 .. n,
         \A j \in m .. (n - 1) : scalar_bit(s, j) = 0
  PROVE  High(s, m) = 0
<1> DEFINE T == {k \in 0 .. (n - m) : High(s, n - k) = 0}
<1>1. n - m \in Nat /\ n - 0 = n /\ n \in Nat /\ m \in Nat
  BY TwosAre
<1>2. 0 \in T
  BY <1>1
<1>3. ASSUME NEW k \in 0 .. ((n - m) - 1), k \in T
      PROVE  k + 1 \in T
  <2> DEFINE i == n - (k + 1)
  <2>1. i \in m .. (n - 1) /\ i \in 0 .. (Bits - 1) /\ i + 1 = n - k /\ k + 1 \in 0 .. (n - m)
    BY <1>1, TwosAre
  <2>2. High(s, i + 1) = 0 /\ scalar_bit(s, i) = 0
    BY <1>3, <2>1
  <2> HIDE DEF i
  <2>3. High(s, i) = 2 * High(s, i + 1) + scalar_bit(s, i)
    BY <2>1, BitIs
  <2>4. High(s, i) = 0
    BY <2>2, <2>3
  <2>5. QED
    BY <2>1, <2>4 DEF i
<1> HIDE DEF T
<1>4. \A k \in 0 .. (n - m) : k \in T
  BY <1>1, <1>2, <1>3, InductionTo
<1>5. n - m \in T /\ n - (n - m) = m
  BY <1>1, <1>4
<1>6. QED
  BY <1>5 DEF T

LEMMA Largest ==
  ASSUME NEW n \in Nat, NEW T, T \subseteq 1 .. n, T # {}
  PROVE  \E x \in T : \A y \in T : y <= x
<1> DEFINE R == {n - x : x \in T}
<1>1. R \subseteq Nat /\ R # {}
  <2>1. ASSUME NEW x \in T
        PROVE  n - x \in Nat
    <3>1. x \in 1 .. n
      OBVIOUS
    <3>2. QED
      BY <3>1
  <2>2. PICK x \in T : TRUE
    OBVIOUS
  <2>3. n - x \in R
    OBVIOUS
  <2>4. R \subseteq Nat
    BY <2>1
  <2> HIDE DEF R
  <2>5. QED
    BY <2>3, <2>4
<1> HIDE DEF R
<1>2. PICK r \in R : \A y \in R : r <= y
  BY <1>1, Least
<1>3. PICK x \in T : r = n - x
  BY <1>2 DEF R
<1>4. ASSUME NEW y \in T
      PROVE  y <= x
  <2>1. n - y \in R /\ x \in Int /\ y \in Int
    BY DEF R
  <2>2. r <= n - y
    BY <1>2, <2>1
  <2>3. QED
    BY <1>3, <2>1, <2>2
<1>5. QED
  BY <1>4

\* slide_init starts above the highest bit that is set.
LEMMA SlideInitIs ==
  ASSUME NEW s \in Slidable
  PROVE  /\ slide_init(s) \in Contexts /\ slide_init(s).next_index = -1
         /\ slide_init(s).next_check \in 1 .. (Bits - 3) /\ High(s, slide_init(s).next_check) = 0
<1> DEFINE ones == {i \in 1 .. TopBit : scalar_bit(s, i) = 1}
           i == IF ones = {} THEN 0 ELSE CHOOSE k \in ones : \A j \in ones : j <= k
           n == Bits - 3
<1>1. slide_init(s) = [next_check |-> i + 1, next_index |-> -1, next_digit |-> -1]
  BY Zenon DEF slide_init
<1>2. n \in 0 .. Bits /\ TopBit \in Nat /\ TopBit = n - 1 /\ n \in Nat
  BY TwosAre DEF TopBit
<1>3. s \in Nat /\ s < 2 ^ n
  <2> DEFINE D == 2 ^ n
  <2>1. D \in Nat
    BY <1>2, TwosAre
  <2>2. s \in 0 .. (D - 1)
    BY DEF Slidable
  <2> HIDE DEF D
  <2>3. s \in Nat /\ s < D
    BY <2>1, <2>2
  <2>4. QED
    BY <2>3 DEF D
<1>4. High(s, n) = 0
  BY <1>2, <1>3, HighIs
<1>5. i \in 0 .. TopBit /\ \A j \in (i + 1) .. (n - 1) : scalar_bit(s, j) = 0
  <2>1. \A j \in 1 .. TopBit : scalar_bit(s, j) \in {0, 1}
    BY <1>2, <1>3, BitIs, TwosAre
  <2>2. CASE ones = {}
    <3>1. i = 0
      BY <2>2
    <3> HIDE DEF i
    <3>2. QED
      BY <1>2, <2>1, <2>2, <3>1
  <2>3. CASE ones # {}
    <3> DEFINE Top(k) == \A j \in ones : j <= k
    <3>1. \E k \in ones : Top(k)
      <4>1. ones \subseteq 1 .. TopBit
        OBVIOUS
      <4> HIDE DEF ones
      <4>2. QED
        BY <1>2, <2>3, <4>1, Largest
    <3>2. i = CHOOSE k \in ones : Top(k)
      BY <2>3
    <3> HIDE DEF i, Top
    <3>3. i \in ones /\ Top(i)
      BY <3>1, <3>2
    <3>4. i \in 0 .. TopBit /\ \A j \in ones : j <= i
      BY <3>3 DEF Top
    <3>5. ASSUME NEW j \in (i + 1) .. (n - 1)
          PROVE  scalar_bit(s, j) = 0
      <4>1. j \in 1 .. TopBit /\ ~(j <= i)
        BY <1>2, <3>4
      <4>2. j \notin ones
        BY <3>4, <4>1
      <4>3. QED
        BY <2>1, <4>1, <4>2
    <3>6. QED
      BY <3>4, <3>5
  <2>4. QED
    BY <2>2, <2>3
<1> HIDE DEF i, n
<1>6. i + 1 \in 0 .. n /\ i + 1 \in 1 .. n
  BY <1>2, <1>5
<1>7. High(s, i + 1) = 0
  BY <1>2, <1>3, <1>4, <1>5, <1>6, HighZero
<1>8. QED
  BY <1>1, <1>6, <1>7 DEF Contexts, n

LEMMA SlideStarts ==
  ASSUME NEW s \in Slidable, NEW width \in 2 .. 8, NEW top \in slide_init(s).next_check .. (Bits - 3)
  PROVE  SlideInv(s, width, slide_init(s), top, 0)
<1> DEFINE ctx == slide_init(s)
           c == ctx.next_check
           X == 2 ^ (top + 1)
           Y == 2 ^ (c + 1)
<1>1. ctx \in Contexts /\ ctx.next_index = -1 /\ c \in 1 .. (Bits - 3) /\ High(s, c) = 0
  BY SlideInitIs
<1> HIDE DEF ctx, c
<1>2. s \in Nat
  <2>1. Bits - 3 \in 0 .. Bits
    BY TwosAre
  <2> DEFINE D == 2 ^ (Bits - 3)
  <2>2. D \in Nat /\ s \in 0 .. (D - 1)
    BY <2>1, TwosAre DEF Slidable
  <2> HIDE DEF D
  <2>3. QED
    BY <2>2
<1>3. c \in 0 .. (Bits - 1) /\ c + 1 \in 0 .. Bits /\ top \in Int /\ c % 256 = c /\ c \in -1 .. top /\ top + 1 \in 0 .. Bits
  <2>1. Bits <= 256 /\ Bits \in Nat
    BY TwosAre
  <2>2. c \in 0 .. 255
    BY <1>1, <2>1
  <2>3. top \in c .. (Bits - 3)
    BY DEF c, ctx
  <2>4. QED
    BY <1>1, <2>1, <2>2, <2>3
<1>4. High(s, c + 1) = 0 /\ scalar_bit(s, c) = 0
  <2>1. High(s, c) = 2 * High(s, c + 1) + scalar_bit(s, c) /\ scalar_bit(s, c) \in {0, 1}
    BY <1>2, <1>3, BitIs
  <2>2. High(s, c + 1) \in Nat
    BY <1>2, <1>3, HighIs
  <2>3. QED
    BY <1>1, <2>1, <2>2
<1>5. Rounded(s, c + 1) = 0
  <2>1. (c + 1) - 1 = c
    BY <1>3
  <2>2. QED
    BY <1>4, <2>1 DEF Rounded
<1>6. X * 0 = Y * 0
  <2>1. X \in Nat /\ Y \in Nat
    BY <1>3, TwosAre
  <2>2. QED
    BY <2>1
<1>7. Settled(s, ctx, top, 0, c)
  BY <1>1, <1>5, <1>6 DEF Settled
<1>8. ctx.next_check = c % 256 /\ c \in -1 .. top
  BY <1>3 DEF c
<1>9. SlideInv(s, width, ctx, top, 0)
  BY <1>1, <1>7, <1>8 DEF SlideInv
<1>10. QED
  BY <1>9 DEF ctx

\* What the loop over the bits makes of the digits met so far.
Horner(g, q, n) == g[0] = 0 /\ \A k \in 1 .. n : g[k] = 2 * g[k - 1] + q[k]
IsValue(q, x) == \A g : Horner(g, q, Len(q)) => g[Len(q)] = x

\* Digits that stand for x.
DigitsFor(q, width, n, x) ==
  /\ q \in Seq(Int) /\ Len(q) = n /\ IsValue(q, x)
  /\ \A k \in 1 .. n : q[k] # 0 => IsDigit(q[k], width)

LEMMA DigitAppend ==
  ASSUME NEW width, NEW n \in Nat, NEW x \in Int, NEW q, DigitsFor(q, width, n, x),
         NEW y \in Int, y # 0 => IsDigit(y, width)
  PROVE  DigitsFor(Append(q, y), width, n + 1, 2 * x + y)
<1> DEFINE r == Append(q, y)
<1>1. /\ q \in Seq(Int) /\ Len(q) = n /\ r \in Seq(Int) /\ Len(r) = n + 1
      /\ r[n + 1] = y /\ \A k \in 1 .. n : r[k] = q[k]
  BY DEF DigitsFor
<1> HIDE DEF r
<1>2. ASSUME NEW k \in 1 .. n + 1, r[k] # 0
      PROVE  IsDigit(r[k], width)
  <2>1. CASE k = n + 1
    BY <1>1, <1>2, <2>1
  <2>2. CASE k \in 1 .. n
    BY <1>1, <1>2, <2>2 DEF DigitsFor
  <2>3. QED
    BY <2>1, <2>2
<1>3. IsValue(r, 2 * x + y)
  <2>1. SUFFICES ASSUME NEW g, Horner(g, r, n + 1)
                 PROVE  g[n + 1] = 2 * x + y
    BY <1>1 DEF IsValue
  <2>2. Horner(g, q, n)
    <3>1. \A k \in 1 .. n : k \in 1 .. n + 1
      OBVIOUS
    <3>2. QED
      BY <1>1, <2>1, <3>1 DEF Horner
  <2>3. g[n] = x
    BY <1>1, <2>2 DEF DigitsFor, IsValue
  <2>4. n + 1 \in 1 .. n + 1 /\ (n + 1) - 1 = n
    OBVIOUS
  <2>5. g[n + 1] = 2 * g[n] + r[n + 1]
    BY <2>1, <2>4 DEF Horner
  <2>6. QED
    BY <1>1, <2>3, <2>5
<1>4. QED
  BY <1>1, <1>2, <1>3 DEF DigitsFor, r

LEMMA NoDigits == ASSUME NEW width PROVE DigitsFor(<<>>, width, 0, 0)
<1>1. <<>> \in Seq(Int) /\ Len(<<>>) = 0
  OBVIOUS
<1>2. \A k \in 1 .. 0 : FALSE
  OBVIOUS
<1>3. QED
  BY <1>1, <1>2 DEF DigitsFor, IsValue, Horner

Sliding(g, scalar, width, top) ==
  g = [k \in 0 .. top + 1 |->
        IF k = 0 THEN [ctx |-> slide_init(scalar), digits |-> <<>>]
        ELSE LET last == g[k - 1]
                 now  == slide_step(last.ctx, width, top + 1 - k, scalar)
             IN [ctx |-> now.ctx, digits |-> Append(last.digits, now.digit)]]

LEMMA DigitsUnfold ==
  ASSUME NEW scalar, NEW width, NEW top
  PROVE  Digits(scalar, width, top) = (CHOOSE g : Sliding(g, scalar, width, top))[top + 1].digits
BY Zenon DEF Digits, Sliding

\* What holds of the context and the digits after k bits.
SlideState(s, width, top, k, st) ==
  /\ st = [ctx |-> st.ctx, digits |-> st.digits]
  /\ \E x \in Int : DigitsFor(st.digits, width, k, x) /\ SlideInv(s, width, st.ctx, top - k, x)

LEMMA SlideStateNext ==
  ASSUME NEW s \in Slidable, NEW width \in 2 .. 8, NEW top \in 0 .. (Bits - 3), NEW k \in 1 .. top + 1,
         NEW st, SlideState(s, width, top, k - 1, st)
  PROVE  LET now == slide_step(st.ctx, width, top + 1 - k, s)
         IN SlideState(s, width, top, k, [ctx |-> now.ctx, digits |-> Append(st.digits, now.digit)])
<1> DEFINE i == top + 1 - k
           now == slide_step(st.ctx, width, i, s)
           new == [ctx |-> now.ctx, digits |-> Append(st.digits, now.digit)]
<1>1. PICK x \in Int : DigitsFor(st.digits, width, k - 1, x) /\ SlideInv(s, width, st.ctx, top - (k - 1), x)
  BY DEF SlideState
<1>2. i \in 0 .. (Bits - 3) /\ top - (k - 1) = i /\ i - 1 = top - k /\ k - 1 \in Nat /\ (k - 1) + 1 = k
  BY TwosAre
<1>3. s \in Nat
  <2>1. Bits - 3 \in 0 .. Bits
    BY TwosAre
  <2> DEFINE D == 2 ^ (Bits - 3)
  <2>2. D \in Nat /\ s \in 0 .. (D - 1)
    BY <2>1, TwosAre DEF Slidable
  <2> HIDE DEF D
  <2>3. QED
    BY <2>2
<1> DEFINE ctx == st.ctx
<1>4. SlideInv(s, width, ctx, i, x)
  BY <1>1, <1>2
<1> HIDE DEF i, ctx
<1>5. SlideNext(s, width, slide_step(ctx, width, i, s), i, x)
  <2>1. CASE i # ctx.next_check
    BY <1>2, <1>3, <1>4, <2>1, SlideInside
  <2>2. CASE i = ctx.next_check /\ scalar_bit(s, i) = scalar_bit(s, i - 1)
    BY <1>2, <1>3, <1>4, <2>2, SlideEqual
  <2>3. CASE i = ctx.next_check /\ scalar_bit(s, i) # scalar_bit(s, i - 1)
    BY <1>2, <1>3, <1>4, <2>3, SlideWindow
  <2>4. QED
    BY <2>1, <2>2, <2>3
<1>6. now = slide_step(ctx, width, i, s)
  BY DEF ctx
<1> HIDE DEF now
<1> DEFINE y == now.digit
           z == 2 * x + y
<1>7. y \in Int /\ (y # 0 => IsDigit(y, width)) /\ SlideInv(s, width, now.ctx, i - 1, z)
  BY <1>5, <1>6 DEF SlideNext
<1>8. z \in Int
  BY <1>7
<1> HIDE DEF y
<1>9. DigitsFor(Append(st.digits, y), width, k, z)
  BY <1>1, <1>2, <1>7, DigitAppend
<1> HIDE DEF z
<1>10. new.ctx = now.ctx /\ new.digits = Append(st.digits, y) /\ new = [ctx |-> new.ctx, digits |-> new.digits]
  BY DEF y
<1> HIDE DEF new
<1>11. SlideState(s, width, top, k, new)
  BY <1>2, <1>7, <1>8, <1>9, <1>10 DEF SlideState
<1>12. QED
  BY <1>11 DEF new, now, i

\* The digits of a scalar stand for it.
LEMMA DigitsAre ==
  ASSUME NEW s \in Slidable, NEW width \in 2 .. 8, NEW top \in slide_init(s).next_check .. (Bits - 3)
  PROVE  DigitsFor(Digits(s, width, top), width, top + 1, s)
<1> DEFINE n == top + 1
           a == [ctx |-> slide_init(s), digits |-> <<>>]
           S == [ctx : Contexts, digits : Seq(Int)]
           step(k, st) == LET now == slide_step(st.ctx, width, top + 1 - k, s)
                          IN [ctx |-> now.ctx, digits |-> Append(st.digits, now.digit)]
           F == [k \in 1 .. n |-> [st \in S |-> step(k, st)]]
           h == CHOOSE g : Sliding(g, s, width, top)
<1>1. top \in 0 .. (Bits - 3) /\ n \in Nat /\ slide_init(s) \in Contexts
  BY SlideInitIs, TwosAre
<1>2. a \in S
  BY <1>1
<1>3. \A k, st : SlideState(s, width, top, k, st) => st \in S
  BY DEF SlideState, SlideInv, DigitsFor
<1>4. SlideState(s, width, top, 0, a)
  <2>1. top - 0 = top /\ 0 \in Int
    BY <1>1
  <2>2. SlideInv(s, width, slide_init(s), top, 0) /\ DigitsFor(<<>>, width, 0, 0)
    BY SlideStarts, NoDigits
  <2>3. QED
    BY <2>1, <2>2 DEF SlideState
<1>5. PICK g : Guarded(g, S, a, F, n)
  <2> HIDE DEF S, F, a
  <2>1. QED
    BY <1>1, <1>2, GuardedRecursion
<1>6. \A k \in 1 .. n : \A st \in S : F[k][st] = step(k, st)
  OBVIOUS
<1> HIDE DEF S, F, a
<1>7. \A k \in 1 .. n : \A st : SlideState(s, width, top, k - 1, st) => SlideState(s, width, top, k, step(k, st))
  BY <1>1, SlideStateNext
<1> HIDE DEF step
<1>8. ASSUME NEW e, e[0] = a, \A k \in 1 .. n : step(k, e[k - 1]) \in S /\ e[k - 1] \in S => e[k] = step(k, e[k - 1])
      PROVE  \A k \in 0 .. n : SlideState(s, width, top, k, e[k])
  <2> DEFINE T == {k \in 0 .. n : SlideState(s, width, top, k, e[k])}
  <2>1. 0 \in T
    BY <1>1, <1>4, <1>8
  <2>2. ASSUME NEW k \in 0 .. (n - 1), k \in T
        PROVE  k + 1 \in T
    <3>1. k + 1 \in 1 .. n /\ (k + 1) - 1 = k /\ k + 1 \in 0 .. n
      BY <1>1
    <3>2. SlideState(s, width, top, k + 1, step(k + 1, e[k])) /\ e[k] \in S
      BY <1>3, <1>7, <2>2, <3>1
    <3>3. e[k + 1] = step(k + 1, e[k])
      BY <1>3, <1>8, <3>1, <3>2
    <3>4. QED
      BY <3>1, <3>2, <3>3
  <2> HIDE DEF T
  <2>3. \A k \in 0 .. n : k \in T
    BY <1>1, <2>1, <2>2, InductionTo
  <2>4. QED
    BY <2>3 DEF T
<1>9. \A k \in 1 .. n : g[k] = step(k, g[k - 1])
  <2>1. g[0] = a /\ \A k \in 1 .. n : step(k, g[k - 1]) \in S /\ g[k - 1] \in S => g[k] = step(k, g[k - 1])
    BY <1>5, <1>6 DEF Guarded
  <2>2. \A k \in 0 .. n : SlideState(s, width, top, k, g[k])
    BY <1>8, <2>1
  <2>3. ASSUME NEW k \in 1 .. n
        PROVE  g[k] = step(k, g[k - 1])
    <3>1. k - 1 \in 0 .. n
      BY <1>1
    <3>2. SlideState(s, width, top, k, step(k, g[k - 1])) /\ SlideState(s, width, top, k - 1, g[k - 1])
      BY <1>7, <2>2, <3>1
    <3>3. step(k, g[k - 1]) \in S /\ g[k - 1] \in S
      BY <1>3, <3>2
    <3>4. QED
      BY <2>1, <3>3
  <2>4. QED
    BY <2>3
<1>10. \A e : Sliding(e, s, width, top) <=> e = [k \in 0 .. n |-> IF k = 0 THEN a ELSE step(k, e[k - 1])]
  BY Zenon DEF Sliding, step, a
<1>11. Sliding(g, s, width, top)
  <2>1. g = [k \in 0 .. n |-> IF k = 0 THEN a ELSE step(k, g[k - 1])]
    <3>1. g = [k \in 0 .. n |-> g[k]] /\ g[0] = a
      BY <1>5 DEF Guarded
    <3>2. \A k \in 0 .. n : k = 0 \/ k \in 1 .. n
      BY <1>1
    <3>3. QED
      BY <1>9, <3>1, <3>2
  <2>2. QED
    BY <1>10, <2>1, Zenon
<1>12. h = [k \in 0 .. n |-> IF k = 0 THEN a ELSE step(k, h[k - 1])]
  BY <1>10, <1>11, Zenon
<1> HIDE DEF h
<1>13. h[0] = a /\ \A k \in 1 .. n : h[k] = step(k, h[k - 1])
  <2>1. 0 \in 0 .. n /\ \A k \in 1 .. n : k \in 0 .. n /\ k # 0
    BY <1>1
  <2>2. QED
    BY <1>12, <2>1
<1>14. SlideState(s, width, top, n, h[n])
  <2>1. \A k \in 0 .. n : SlideState(s, width, top, k, h[k])
    BY <1>8, <1>13
  <2>2. QED
    BY <1>1, <2>1
<1>15. PICK x \in Int : DigitsFor(h[n].digits, width, n, x) /\ SlideInv(s, width, h[n].ctx, top - n, x)
  BY <1>14 DEF SlideState
<1>16. x = s
  <2> DEFINE ctx == h[n].ctx
             m == -1
  <2>1. top - n = m
    BY <1>1
  <2>2. SlideInv(s, width, ctx, m, x)
    BY <1>15, <2>1
  <2> HIDE DEF ctx
  <2>3. PICK c \in m .. m : Pending(s, width, ctx, m, x, c) \/ Settled(s, ctx, m, x, c)
    BY <2>2 DEF SlideInv
  <2>4. c = m /\ ctx.next_index \in Int
    BY <2>2, <2>3 DEF SlideInv, Contexts
  <2>5. Settled(s, ctx, m, x, m)
    BY <2>3, <2>4 DEF Pending
  <2>6. m + 1 = 0
    OBVIOUS
  <2>7. 2 ^ 0 * x = 2 ^ 0 * Rounded(s, 0)
    BY <2>5, <2>6 DEF Settled
  <2>8. s \in Nat /\ 0 \in 0 .. (Bits - 1) /\ 0 \in 0 .. Bits
    <3>1. Bits - 3 \in 0 .. Bits
      BY TwosAre
    <3> DEFINE D == 2 ^ (Bits - 3)
    <3>2. D \in Nat /\ s \in 0 .. (D - 1)
      BY <3>1, TwosAre DEF Slidable
    <3> HIDE DEF D
    <3>3. QED
      BY <3>2, TwosAre
  <2>9. Rounded(s, 0) = s
    <3>1. 0 - 1 = m
      OBVIOUS
    <3>2. High(s, 0) = s /\ scalar_bit(s, m) = 0
      BY <2>8, HighIs, BitIs
    <3> HIDE DEF m
    <3>3. Rounded(s, 0) = High(s, 0) + scalar_bit(s, m)
      BY <3>1 DEF Rounded
    <3>4. QED
      BY <2>8, <3>2, <3>3
  <2>10. QED
    BY <2>7, <2>8, <2>9, TwosAre
<1>17. Digits(s, width, top) = h[n].digits
  BY DigitsUnfold DEF h
<1>18. QED
  BY <1>15, <1>16, <1>17

(* -------- numbers of limbs -------- *)

\* As many limbs as there are in a product.
Top == 4 * N

\* The weights of the limbs, Base^0 and on.
IsWeight(w) ==
  w \in [0 .. Top -> Nat] /\ w[0] = 1 /\ \A i \in 1 .. Top : w[i] = Base * w[i - 1]
Weight == CHOOSE w : IsWeight(w)

\* The sizes of the limbs and of what is made of them.
LEMMA Limbed ==
  /\ Base \in Nat /\ Base >= 2 /\ N \in Nat /\ N >= 1
  /\ Top \in Nat /\ 2 * N + 1 <= Top /\ 3 * N + 1 <= Top
BY ScalarLAssumption DEF Top

LEMMA Weights ==
  /\ \A i \in 0 .. Top : Weight[i] \in Nat /\ Weight[i] >= 1
  /\ Weight[0] = 1 /\ \A i \in 1 .. Top : Weight[i] = Base * Weight[i - 1]
<1> DEFINE F == [k \in 1 .. Top |-> [s \in Nat |-> Base * s]]
<1>1. Top \in Nat /\ 1 \in Nat /\ Base \in Nat /\ Base >= 2
  BY Limbed
<1>2. \A k \in 1 .. Top, s \in Nat : F[k][s] = Base * s /\ F[k][s] \in Nat
  BY <1>1
<1> HIDE DEF F
<1>3. PICK g : Follows(g, Nat, 1, F, Top)
  <2>1. StaysIn(Nat, F, Top)
    BY <1>2 DEF StaysIn
  <2>2. QED
    BY <1>1, <2>1, Recursion
<1>4. IsWeight(g)
  <2>1. ASSUME NEW k \in 1 .. Top
        PROVE  g[k] = Base * g[k - 1]
    <3>1. k - 1 \in 0 .. Top
      BY <1>1
    <3>2. g[k - 1] \in Nat
      BY <1>3, <3>1 DEF Follows
    <3>3. QED
      BY <1>2, <1>3, <3>2 DEF Follows
  <2>2. QED
    BY <1>3, <2>1 DEF IsWeight, Follows
<1>5. IsWeight(Weight)
  BY <1>4, Zenon DEF Weight
<1> DEFINE T == {i \in 0 .. Top : Weight[i] \in Nat /\ Weight[i] >= 1}
<1>6. 0 \in T
  BY <1>1, <1>5 DEF IsWeight
<1>7. ASSUME NEW i \in 0 .. (Top - 1), i \in T
      PROVE  i + 1 \in T
  <2>1. i + 1 \in 1 .. Top /\ (i + 1) - 1 = i /\ i + 1 \in 0 .. Top
    BY <1>1
  <2>2. Weight[i + 1] = Base * Weight[i] /\ Weight[i] \in Nat /\ Weight[i] >= 1
    BY <1>5, <1>7, <2>1 DEF IsWeight
  <2>3. Weight[i + 1] \in Nat /\ Weight[i + 1] >= 1
    <3> DEFINE w == Weight[i]
    <3>1. Base * w \in Nat /\ Base * w >= w
      <4> HIDE DEF w
      <4>1. w \in Nat => Base * w = w + (Base - 1) * w /\ (Base - 1) * w \in Nat
        BY <1>1
      <4>2. QED
        BY <1>1, <2>2, <4>1 DEF w
    <3>2. QED
      BY <2>2, <3>1
  <2>4. QED
    BY <2>1, <2>3
<1>8. \A i \in 0 .. Top : i \in T
  <2> HIDE DEF T
  <2>1. QED
    BY <1>1, <1>6, <1>7, InductionTo
<1>9. QED
  BY <1>5, <1>8 DEF IsWeight

\* Weights are powers, as far as the model takes them.
LEMMA WeightIsPower ==
  ASSUME NEW i \in 0 .. 2 * N
  PROVE  Weight[i] = Base ^ i
<1> DEFINE T == {k \in 0 .. 2 * N : Weight[k] = Base ^ k}
<1>1. 0 \in T
  BY Weights, Limbed, PowersAssumption
<1>2. ASSUME NEW k \in 0 .. (2 * N - 1), k \in T
      PROVE  k + 1 \in T
  <2>1. k + 1 \in 1 .. Top /\ (k + 1) - 1 = k /\ k + 1 \in 0 .. 2 * N
    BY Limbed
  <2>2. Weight[k + 1] = Base * Weight[k] /\ Weight[k] = Base ^ k
    BY <1>2, <2>1, Weights
  <2>3. QED
    BY <2>1, <2>2, PowersAssumption
<1>3. 2 * N \in Nat
  BY Limbed
<1>4. \A k \in 0 .. 2 * N : k \in T
  <2> HIDE DEF T
  <2>1. QED
    BY <1>1, <1>2, <1>3, InductionTo
<1>5. QED
  BY <1>4

\* Weights multiply.
LEMMA WeightsMultiply ==
  ASSUME NEW m \in Nat, NEW n \in Nat, m + n <= Top
  PROVE  Weight[m + n] = Weight[m] * Weight[n]
<1> DEFINE T == {k \in 0 .. n : Weight[m + k] = Weight[m] * Weight[k]}
<1>1. Weight[m] \in Nat /\ Weight[0] = 1 /\ m + 0 = m
  BY Weights, Limbed
<1>2. 0 \in T
  BY <1>1
<1>3. ASSUME NEW k \in 0 .. (n - 1), k \in T
      PROVE  k + 1 \in T
  <2>1. /\ k + 1 \in 1 .. Top /\ (k + 1) - 1 = k /\ k + 1 \in 0 .. n /\ k \in 0 .. Top
        /\ m + (k + 1) \in 1 .. Top /\ (m + (k + 1)) - 1 = m + k
    BY Limbed
  <2>2. Weight[k + 1] = Base * Weight[k] /\ Weight[m + (k + 1)] = Base * Weight[m + k]
    BY <2>1, Weights
  <2>3. Weight[m + k] = Weight[m] * Weight[k] /\ Weight[k] \in Nat
    BY <1>3, <2>1, Weights
  <2>4. \A a, b, c \in Nat : a * (b * c) = b * (a * c)
    OBVIOUS
  <2>5. QED
    BY <1>1, <2>1, <2>2, <2>3, <2>4, Limbed
<1>4. \A k \in 0 .. n : k \in T
  <2> HIDE DEF T
  <2>1. QED
    BY <1>2, <1>3, InductionTo
<1>5. QED
  BY <1>4

\* The value of n limbs: the sum of each times its weight.
Naturals(t, n) == \A i \in 1 .. n : t[i] \in Nat
Weighted(g, t, n) ==
  g \in [0 .. n -> Nat] /\ g[0] = 0 /\ \A k \in 1 .. n : g[k] = g[k - 1] + t[k] * Weight[k - 1]
Val(t, n) == (CHOOSE g : Weighted(g, t, n))[n]

\* ValSums exist.
LEMMA ValSums ==
  ASSUME NEW n \in 0 .. Top, NEW t, Naturals(t, n)
  PROVE  Weighted(CHOOSE g : Weighted(g, t, n), t, n)
<1> DEFINE F == [k \in 1 .. n |-> [s \in Nat |-> s + t[k] * Weight[k - 1]]]
<1>1. n \in Nat /\ 0 \in Nat
  BY Limbed
<1>2. ASSUME NEW k \in 1 .. n
      PROVE  t[k] * Weight[k - 1] \in Nat
  <2>1. k - 1 \in 0 .. Top
    BY Limbed
  <2>2. Weight[k - 1] \in Nat /\ t[k] \in Nat
    BY <2>1, Weights DEF Naturals
  <2>3. QED
    BY <2>2
<1>3. \A k \in 1 .. n, s \in Nat : F[k][s] = s + t[k] * Weight[k - 1] /\ F[k][s] \in Nat
  BY <1>2
<1> HIDE DEF F
<1>4. PICK g : Follows(g, Nat, 0, F, n)
  <2>1. StaysIn(Nat, F, n)
    BY <1>3 DEF StaysIn
  <2>2. QED
    BY <1>1, <2>1, Recursion
<1>5. Weighted(g, t, n)
  <2>1. ASSUME NEW k \in 1 .. n
        PROVE  g[k] = g[k - 1] + t[k] * Weight[k - 1]
    <3>1. k - 1 \in 0 .. n
      BY <1>1
    <3>2. g[k - 1] \in Nat /\ g[k] = F[k][g[k - 1]]
      BY <1>4, <3>1 DEF Follows
    <3>3. QED
      BY <1>3, <3>2
  <2>2. QED
    BY <1>4, <2>1 DEF Weighted, Follows
<1>6. QED
  BY <1>5, Zenon

\* ValSums of the same limbs are the same.
LEMMA SumsAgree ==
  ASSUME NEW n \in Nat, NEW m \in 0 .. n, NEW t, NEW u, \A i \in 1 .. m : t[i] = u[i],
         NEW g, Weighted(g, t, n), NEW h, Weighted(h, u, m)
  PROVE  g[m] = h[m]
<1> DEFINE T == {k \in 0 .. m : g[k] = h[k]}
<1>1. 0 \in T
  BY DEF Weighted
<1>2. ASSUME NEW k \in 0 .. (m - 1), k \in T
      PROVE  k + 1 \in T
  <2>1. k + 1 \in 1 .. m /\ k + 1 \in 1 .. n /\ (k + 1) - 1 = k /\ k + 1 \in 0 .. m
    OBVIOUS
  <2>2. g[k + 1] = g[k] + t[k + 1] * Weight[k] /\ h[k + 1] = h[k] + u[k + 1] * Weight[k]
    BY <2>1 DEF Weighted
  <2>3. g[k] = h[k] /\ t[k + 1] = u[k + 1]
    BY <1>2, <2>1
  <2>4. QED
    BY <2>1, <2>2, <2>3
<1>3. \A k \in 0 .. m : k \in T
  <2> HIDE DEF T
  <2>1. m \in Nat
    OBVIOUS
  <2>2. QED
    BY <1>1, <1>2, <2>1, InductionTo
<1>4. QED
  BY <1>3

\* Limbs that agree, and limbs that are part of others: u is n of them behind m.
Agree(u, t, n) == \A i \in 1 .. n : u[i] = t[i]
IsPart(u, t, m, n) == \A i \in 1 .. n : u[i] = t[m + i]

\* The value of no limbs, and that of one more.
LEMMA ValNone ==
  ASSUME NEW t
  PROVE  Val(t, 0) = 0
<1>1. 0 \in 0 .. Top /\ Naturals(t, 0)
  BY Limbed DEF Naturals
<1> DEFINE g == CHOOSE g : Weighted(g, t, 0)
<1>2. Weighted(g, t, 0)
  BY <1>1, ValSums
<1>3. g[0] = 0
  BY <1>2 DEF Weighted
<1>4. QED
  BY <1>3 DEF Val

LEMMA ValSame ==
  ASSUME NEW n \in 0 .. Top, NEW t, Naturals(t, n), NEW u, Agree(u, t, n)
  PROVE  Val(t, n) = Val(u, n)
<1> DEFINE g == CHOOSE g : Weighted(g, t, n)
           h == CHOOSE h : Weighted(h, u, n)
<1>1. Naturals(u, n) /\ \A i \in 1 .. n : t[i] = u[i]
  BY DEF Naturals, Agree
<1>2. Weighted(g, t, n) /\ Weighted(h, u, n)
  BY <1>1, ValSums
<1>3. Val(t, n) = g[n] /\ Val(u, n) = h[n]
  BY DEF Val
<1> HIDE DEF g, h
<1>4. n \in Nat /\ n \in 0 .. n
  BY Limbed
<1>5. g[n] = h[n]
  BY <1>1, <1>2, <1>4, SumsAgree
<1>6. QED
  BY <1>3, <1>5

LEMMA ValMore ==
  ASSUME NEW n \in 0 .. (Top - 1), NEW t, Naturals(t, n + 1)
  PROVE  /\ Val(t, n + 1) = Val(t, n) + t[n + 1] * Weight[n]
         /\ Val(t, n) \in Nat /\ t[n + 1] \in Nat /\ Weight[n] \in Nat
<1> DEFINE g == CHOOSE g : Weighted(g, t, n + 1)
           h == CHOOSE h : Weighted(h, t, n)
<1>1. Naturals(t, n) /\ n \in 0 .. Top /\ n + 1 \in 0 .. Top
  BY Limbed DEF Naturals
<1>2. Weighted(g, t, n + 1) /\ Weighted(h, t, n)
  BY <1>1, ValSums
<1>3. Val(t, n + 1) = g[n + 1] /\ Val(t, n) = h[n]
  BY DEF Val
<1> HIDE DEF g, h
<1>4. n \in 0 .. n + 1 /\ n + 1 \in Nat /\ n + 1 \in 1 .. n + 1 /\ (n + 1) - 1 = n /\ n \in 0 .. n
  BY Limbed
<1>5. g[n] = h[n]
  BY <1>2, <1>4, SumsAgree, SMTT(60)
<1>6. g[n + 1] = g[n] + t[n + 1] * Weight[n] /\ h[n] \in Nat
  BY <1>2, <1>4 DEF Weighted
<1>7. t[n + 1] \in Nat /\ Weight[n] \in Nat
  BY <1>1, <1>4, Weights DEF Naturals
<1>8. QED
  BY <1>3, <1>5, <1>6, <1>7

LEMMA ValNat ==
  ASSUME NEW n \in 0 .. Top, NEW t, Naturals(t, n)
  PROVE  Val(t, n) \in Nat
<1> DEFINE g == CHOOSE g : Weighted(g, t, n)
<1>1. Weighted(g, t, n)
  BY ValSums
<1>2. Val(t, n) = g[n]
  BY DEF Val
<1> HIDE DEF g
<1>3. n \in 0 .. n
  BY Limbed
<1>4. QED
  BY <1>1, <1>2, <1>3 DEF Weighted

(* -------- sequences of limbs -------- *)

Limb == 0 .. (Base - 1)
AllLimbs(t, n) == \A i \in 1 .. n : t[i] \in Limb
IsLimbs(t, n) == t \in Seq(Limb) /\ Len(t) = n

\* Values of limbs are numbers.
LEMMA LimbIs ==
  /\ 0 \in Limb /\ Limb \subseteq Nat
  /\ \A x \in Limb : x + 1 <= Base /\ Base - 1 - x \in Limb
BY Limbed DEF Limb

\* A function on 1 .. n with limbs as its values is a sequence of them.
LEMMA LimbsFrom ==
  ASSUME NEW n \in Nat, NEW f, f = [i \in 1 .. n |-> f[i]], AllLimbs(f, n)
  PROVE  IsLimbs(f, n)
<1> DEFINE S == Limb
<1> HIDE DEF S
<1>1. f \in [1 .. n -> S]
  BY DEF S, AllLimbs
<1>2. f \in Seq(S) /\ Len(f) = n
  BY <1>1
<1>3. QED
  BY <1>2 DEF S, IsLimbs

LEMMA LimbsAre ==
  ASSUME NEW n \in Nat, NEW t, IsLimbs(t, n)
  PROVE  Len(t) = n /\ AllLimbs(t, n) /\ Naturals(t, n) /\ t = [i \in 1 .. n |-> t[i]]
<1> DEFINE S == Limb
<1> HIDE DEF S
<1>1. t \in Seq(S) /\ Len(t) = n
  BY DEF S, IsLimbs
<1>2. \A i \in 1 .. n : t[i] \in S
  BY <1>1
<1>3. t = [i \in 1 .. n |-> t[i]]
  BY <1>1
<1>4. \A i \in 1 .. n : t[i] \in Nat
  BY <1>2, LimbIs DEF S
<1>5. QED
  BY <1>1, <1>2, <1>3, <1>4 DEF S, Naturals, AllLimbs

\* Limbs one behind the other.
LEMMA LimbsConcat ==
  ASSUME NEW m \in Nat, NEW n \in Nat, NEW s, IsLimbs(s, m), NEW t, IsLimbs(t, n)
  PROVE  IsLimbs(s \o t, m + n) /\ Agree(s, s \o t, m) /\ IsPart(t, s \o t, m, n)
<1> DEFINE S == Limb
<1> HIDE DEF S
<1>1. s \in Seq(S) /\ Len(s) = m /\ t \in Seq(S) /\ Len(t) = n
  BY DEF S, IsLimbs
<1>2. s \o t \in Seq(S) /\ Len(s \o t) = m + n
  BY <1>1
<1>3. \A i \in 1 .. m : (s \o t)[i] = s[i]
  BY <1>1
<1>4. \A i \in 1 .. n : (s \o t)[m + i] = t[i]
  BY <1>1
<1>5. QED
  BY <1>2, <1>3, <1>4 DEF S, IsLimbs, Agree, IsPart

\* n limbs of a sequence, behind its first m.
LEMMA LimbsPart ==
  ASSUME NEW m \in Nat, NEW n \in Nat, NEW k \in Nat, NEW t, IsLimbs(t, m + n + k)
  PROVE  IsLimbs(SubSeq(t, m + 1, m + n), n) /\ IsPart(SubSeq(t, m + 1, m + n), t, m, n)
<1> DEFINE S == Limb
           u == SubSeq(t, m + 1, m + n)
<1> HIDE DEF S
<1>1. t \in Seq(S) /\ Len(t) = m + n + k
  BY DEF S, IsLimbs
<1>2. u \in Seq(S) /\ Len(u) = n /\ \A i \in 1 .. n : u[i] = t[m + i]
  <2>1. CASE n = 0
    BY <1>1, <2>1
  <2>2. CASE n >= 1
    BY <1>1, <2>2
  <2>3. QED
    BY <2>1, <2>2
<1>3. QED
  BY <1>2 DEF S, IsLimbs, IsPart

\* The first n limbs.
LEMMA LimbsHead ==
  ASSUME NEW n \in Nat, NEW k \in Nat, NEW t, IsLimbs(t, n + k)
  PROVE  IsLimbs(SubSeq(t, 1, n), n) /\ Agree(SubSeq(t, 1, n), t, n)
<1> DEFINE z == 0
<1>1. z \in Nat /\ z + n + k = n + k /\ z + 1 = 1 /\ z + n = n /\ \A i \in 1 .. n : z + i = i
  OBVIOUS
<1> HIDE DEF z
<1>2. IsLimbs(t, z + n + k)
  BY <1>1
<1>3. IsLimbs(SubSeq(t, z + 1, z + n), n) /\ IsPart(SubSeq(t, z + 1, z + n), t, z, n)
  BY <1>1, <1>2, LimbsPart
<1>4. QED
  BY <1>1, <1>3 DEF IsPart, Agree

(* -------- values -------- *)

\* n limbs are below the weight of the next one.
LEMMA ValBelow ==
  ASSUME NEW n \in 0 .. Top, NEW t, AllLimbs(t, n)
  PROVE  Val(t, n) \in 0 .. (Weight[n] - 1)
<1> DEFINE T == {k \in 0 .. n : Val(t, k) \in 0 .. (Weight[k] - 1)}
<1>0. \A i \in 1 .. n : t[i] \in Nat
  BY LimbIs DEF AllLimbs
<1>1. n \in Nat /\ Base \in Nat /\ Base >= 2
  BY Limbed
<1>2. 0 \in T
  BY <1>1, ValNone, Weights
<1>3. ASSUME NEW k \in 0 .. (n - 1), k \in T
      PROVE  k + 1 \in T
  <2>1. k \in 0 .. (Top - 1) /\ k + 1 \in 1 .. n /\ k + 1 \in 0 .. n /\ Naturals(t, k + 1)
        /\ k + 1 \in 1 .. Top /\ (k + 1) - 1 = k
    BY <1>1, <1>0, Limbed DEF Naturals
  <2>2. Val(t, k + 1) = Val(t, k) + t[k + 1] * Weight[k] /\ Weight[k + 1] = Base * Weight[k]
        /\ Val(t, k) \in Nat /\ Val(t, k) <= Weight[k] - 1 /\ Weight[k] \in Nat
    BY <1>3, <2>1, ValMore, Weights
  <2>3. t[k + 1] \in 0 .. (Base - 1)
    BY <2>1 DEF Limb, AllLimbs
  <2> DEFINE w == Weight[k]
             dd == t[k + 1]
             e == (Base - 1) - dd
  <2>4. w \in Nat /\ dd \in Nat /\ e \in Nat /\ Base = dd + (e + 1)
    BY <1>1, <2>2, <2>3
  <2>5. Val(t, k + 1) = Val(t, k) + dd * w /\ Weight[k + 1] = Base * w /\ Val(t, k) <= w - 1
        /\ Val(t, k) \in Nat
    BY <2>2
  <2> HIDE DEF w, dd, e
  <2>6. Base * w = dd * w + (e * w + w) /\ dd * w \in Nat /\ e * w \in Nat
    BY <2>4
  <2>7. Val(t, k + 1) \in 0 .. (Weight[k + 1] - 1)
    BY <2>4, <2>5, <2>6
  <2>8. QED
    BY <2>1, <2>7
<1>4. \A k \in 0 .. n : k \in T
  <2> HIDE DEF T
  <2>1. QED
    BY <1>1, <1>2, <1>3, InductionTo
<1>5. n \in T
  BY <1>1, <1>4
<1>6. QED
  BY <1>5

\* The value of limbs one behind the other.
LEMMA ValConcat ==
  ASSUME NEW m \in Nat, NEW n \in Nat, m + n <= Top, NEW t, Naturals(t, m + n),
         NEW u, IsPart(u, t, m, n)
  PROVE  /\ Val(t, m + n) = Val(t, m) + Weight[m] * Val(u, n)
         /\ Val(t, m) \in Nat /\ Weight[m] \in Nat /\ Val(u, n) \in Nat
<1> DEFINE T == {k \in 0 .. n : Val(t, m + k) = Val(t, m) + Weight[m] * Val(u, k)}
<1>1. /\ m \in 0 .. Top /\ Naturals(t, m) /\ n \in 0 .. Top /\ Naturals(u, n)
  <2>1. \A i \in 1 .. n : m + i \in 1 .. m + n
    OBVIOUS
  <2>2. QED
    BY <2>1, Limbed DEF Naturals, IsPart
<1>2. Val(t, m) \in Nat /\ Weight[m] \in Nat
  BY <1>1, ValNat, Weights
<1>3. 0 \in T
  <2>1. m + 0 = m /\ Val(u, 0) = 0
    BY ValNone
  <2>2. QED
    BY <1>2, <2>1
<1>4. ASSUME NEW k \in 0 .. (n - 1), k \in T
      PROVE  k + 1 \in T
  <2>1. /\ k \in 0 .. (Top - 1) /\ m + k \in 0 .. (Top - 1) /\ k + 1 \in 0 .. n /\ k + 1 \in 1 .. n
        /\ m + (k + 1) = (m + k) + 1 /\ k \in Nat /\ m + k <= Top
    BY Limbed
  <2>2. Naturals(t, (m + k) + 1) /\ Naturals(u, k + 1)
    BY <1>1, <2>1 DEF Naturals
  <2>3. /\ Val(t, (m + k) + 1) = Val(t, m + k) + t[(m + k) + 1] * Weight[m + k]
        /\ Val(u, k + 1) = Val(u, k) + u[k + 1] * Weight[k]
        /\ Val(u, k) \in Nat /\ u[k + 1] \in Nat /\ Weight[k] \in Nat
    BY <2>1, <2>2, ValMore
  <2>4. Weight[m + k] = Weight[m] * Weight[k] /\ t[(m + k) + 1] = u[k + 1]
    BY <2>1, WeightsMultiply DEF IsPart
  <2>5. Val(t, m + k) = Val(t, m) + Weight[m] * Val(u, k)
    BY <1>4
  <2>6. \A a, b, c, dd \in Nat : a * b + dd * (a * c) = a * (b + dd * c)
    OBVIOUS
  <2>7. Weight[m] * Val(u, k) + u[k + 1] * (Weight[m] * Weight[k])
          = Weight[m] * (Val(u, k) + u[k + 1] * Weight[k])
    BY <1>2, <2>3, <2>6
  <2>8. Weight[m] * Val(u, k) \in Nat /\ u[k + 1] * (Weight[m] * Weight[k]) \in Nat
    BY <1>2, <2>3
  <2>9. Val(t, m + (k + 1)) = Val(t, m) + Weight[m] * Val(u, k + 1)
    <3>1. Val(t, m + (k + 1))
            = (Val(t, m) + Weight[m] * Val(u, k)) + u[k + 1] * (Weight[m] * Weight[k])
      BY <2>1, <2>3, <2>4, <2>5
    <3>2. (Val(t, m) + Weight[m] * Val(u, k)) + u[k + 1] * (Weight[m] * Weight[k])
            = Val(t, m) + (Weight[m] * Val(u, k) + u[k + 1] * (Weight[m] * Weight[k]))
      BY <1>2, <2>8
    <3>3. QED
      BY <2>3, <2>7, <3>1, <3>2, Zenon
  <2>10. QED
    BY <2>1, <2>9
<1>5. \A k \in 0 .. n : k \in T
  <2> HIDE DEF T
  <2>1. QED
    BY <1>3, <1>4, InductionTo
<1>6. n \in T
  BY <1>5
<1>7. QED
  BY <1>1, <1>2, <1>6, ValNat

\* The value of t + a * u, limb by limb.
IsLinear(v, t, a, u, n) == \A i \in 1 .. n : v[i] = t[i] + a * u[i]

LEMMA ValLinear ==
  ASSUME NEW n \in 0 .. Top, NEW a \in Nat, NEW t, Naturals(t, n), NEW u, Naturals(u, n),
         NEW v, IsLinear(v, t, a, u, n)
  PROVE  Val(v, n) = Val(t, n) + a * Val(u, n) /\ Naturals(v, n)
<1> DEFINE T == {k \in 0 .. n : Val(v, k) = Val(t, k) + a * Val(u, k)}
<1>1. n \in Nat /\ Naturals(v, n)
  BY Limbed DEF Naturals, IsLinear
<1>2. 0 \in T
  BY <1>1, ValNone
<1>3. ASSUME NEW k \in 0 .. (n - 1), k \in T
      PROVE  k + 1 \in T
  <2>1. /\ k \in 0 .. (Top - 1) /\ k + 1 \in 0 .. n /\ k + 1 \in 1 .. n
        /\ Naturals(t, k + 1) /\ Naturals(u, k + 1) /\ Naturals(v, k + 1)
    BY <1>1, Limbed DEF Naturals
  <2>2. /\ Val(t, k + 1) = Val(t, k) + t[k + 1] * Weight[k]
        /\ Val(u, k + 1) = Val(u, k) + u[k + 1] * Weight[k]
        /\ Val(v, k + 1) = Val(v, k) + v[k + 1] * Weight[k]
        /\ Val(t, k) \in Nat /\ Val(u, k) \in Nat /\ t[k + 1] \in Nat /\ u[k + 1] \in Nat
        /\ Weight[k] \in Nat
    BY <2>1, ValMore
  <2>3. v[k + 1] = t[k + 1] + a * u[k + 1] /\ Val(v, k) = Val(t, k) + a * Val(u, k)
    BY <1>3, <2>1 DEF IsLinear
  <2>4. \A p, q, r, s, w \in Nat : (p + a * q) + (r + a * s) * w = (p + r * w) + a * (q + s * w)
    OBVIOUS
  <2>5. Val(v, k + 1) = Val(t, k + 1) + a * Val(u, k + 1)
    BY <2>2, <2>3, <2>4
  <2>6. QED
    BY <2>1, <2>5
<1>4. \A k \in 0 .. n : k \in T
  <2> HIDE DEF T
  <2>1. QED
    BY <1>1, <1>2, <1>3, InductionTo
<1>5. n \in T
  BY <1>1, <1>4
<1>6. QED
  BY <1>1, <1>5

\* The complements of limbs are the complement of their value.
IsComplement(u, t, n) == \A i \in 1 .. n : u[i] = Complement(t[i])

LEMMA ValComplement ==
  ASSUME NEW n \in 0 .. Top, NEW t, AllLimbs(t, n), NEW u, IsComplement(u, t, n)
  PROVE  AllLimbs(u, n) /\ Val(u, n) = Weight[n] - 1 - Val(t, n)
<1> DEFINE T == {k \in 0 .. n : Val(u, k) = Weight[k] - 1 - Val(t, k)}
<1>1. n \in Nat /\ Base \in Nat
  BY Limbed
<1>2. \A i \in 1 .. n : u[i] \in Limb
  BY LimbIs DEF Complement, AllLimbs, IsComplement
<1>3. \A i \in 1 .. n : u[i] = Base - 1 - t[i] /\ t[i] \in Nat /\ u[i] \in Nat
  BY <1>2, LimbIs DEF Complement, AllLimbs, IsComplement
<1>4. 0 \in T
  BY <1>1, ValNone, Weights
<1>5. ASSUME NEW k \in 0 .. (n - 1), k \in T
      PROVE  k + 1 \in T
  <2>1. /\ k \in 0 .. (Top - 1) /\ k + 1 \in 0 .. n /\ k + 1 \in 1 .. n /\ k + 1 \in 1 .. Top
        /\ (k + 1) - 1 = k /\ Naturals(t, k + 1) /\ Naturals(u, k + 1)
    BY <1>1, <1>3, Limbed DEF Naturals
  <2>2. /\ Val(t, k + 1) = Val(t, k) + t[k + 1] * Weight[k]
        /\ Val(u, k + 1) = Val(u, k) + u[k + 1] * Weight[k]
        /\ Val(t, k) \in Nat /\ Val(u, k) \in Nat /\ Weight[k] \in Nat
    BY <2>1, ValMore
  <2>3. Weight[k + 1] = Base * Weight[k]
    BY <2>1, Weights
  <2>4. Val(u, k) = Weight[k] - 1 - Val(t, k) /\ u[k + 1] = Base - 1 - t[k + 1]
        /\ t[k + 1] \in Nat
    BY <1>3, <1>5, <2>1
  <2>5. ASSUME NEW w \in Nat, NEW dd \in Nat, NEW v \in Nat
        PROVE  (w - 1 - v) + (Base - 1 - dd) * w = Base * w - 1 - (v + dd * w)
    <3>1. (Base - 1 - dd) * w = Base * w - w - dd * w
      BY <1>1
    <3>2. Base * w \in Nat /\ dd * w \in Nat
      BY <1>1
    <3>3. QED
      BY <3>1, <3>2
  <2>6. Val(u, k + 1) = Weight[k + 1] - 1 - Val(t, k + 1)
    <3> DEFINE w == Weight[k]
               dd == t[k + 1]
               v == Val(t, k)
    <3>1. /\ w \in Nat /\ dd \in Nat /\ v \in Nat
          /\ Val(u, k + 1) = (w - 1 - v) + (Base - 1 - dd) * w
          /\ Weight[k + 1] = Base * w /\ Val(t, k + 1) = v + dd * w
      BY <2>2, <2>3, <2>4
    <3> HIDE DEF w, dd, v
    <3>2. (w - 1 - v) + (Base - 1 - dd) * w = Base * w - 1 - (v + dd * w)
      BY <2>5, <3>1
    <3>3. QED
      BY <3>1, <3>2, Zenon
  <2>7. QED
    BY <2>1, <2>6
<1>6. \A k \in 0 .. n : k \in T
  <2> HIDE DEF T
  <2>1. QED
    BY <1>1, <1>4, <1>5, InductionTo
<1>7. n \in T
  BY <1>1, <1>6
<1>8. QED
  BY <1>2, <1>7 DEF AllLimbs

\* Splitting a number into limbs and putting them together again.
LEMMA ValLimbs ==
  ASSUME NEW n \in 0 .. 2 * N, NEW x \in Nat
  PROVE  IsLimbs(Limbs(n, x), n) /\ Val(Limbs(n, x), n) = x % Weight[n]
<1> DEFINE t == Limbs(n, x)
           T == {k \in 0 .. n : Val(t, k) = x % Weight[k]}
<1>1. n \in Nat /\ Base \in Nat /\ Base >= 2 /\ n \in 0 .. Top
  BY Limbed
<1>2. t = [i \in 1 .. n |-> (x \div Base ^ (i - 1)) % Base]
  BY DEF Limbs
<1> HIDE DEF t
<1>3. ASSUME NEW i \in 1 .. n
      PROVE  t[i] = (x \div Weight[i - 1]) % Base /\ t[i] \in Limb
  <2>1. i - 1 \in 0 .. 2 * N /\ i - 1 \in 0 .. Top
    BY <1>1, Limbed
  <2>2. Weight[i - 1] = Base ^ (i - 1) /\ Weight[i - 1] \in Nat /\ Weight[i - 1] >= 1
    BY <2>1, WeightIsPower, Weights
  <2>3. t[i] = (x \div Weight[i - 1]) % Base
    BY <1>2, <2>2
  <2>4. x \div Weight[i - 1] \in Nat
    BY <2>2
  <2>5. QED
    BY <1>1, <2>3, <2>4 DEF Limb
<1>4. IsLimbs(t, n)
  <2>1. t = [i \in 1 .. n |-> t[i]]
    BY <1>2
  <2>2. AllLimbs(t, n)
    BY <1>3 DEF AllLimbs
  <2>3. QED
    BY <1>1, <2>1, <2>2, LimbsFrom
<1>5. Naturals(t, n)
  BY <1>1, <1>4, LimbsAre
<1>6. 0 \in T
  <2>1. Weight[0] = 1 /\ Val(t, 0) = 0
    BY ValNone, Weights
  <2>2. x % 1 = 0
    OBVIOUS
  <2>3. QED
    BY <1>1, <2>1, <2>2
<1>7. ASSUME NEW k \in 0 .. (n - 1), k \in T
      PROVE  k + 1 \in T
  <2>1. /\ k \in 0 .. (Top - 1) /\ k + 1 \in 0 .. n /\ k + 1 \in 1 .. n /\ k + 1 \in 1 .. Top
        /\ (k + 1) - 1 = k /\ Naturals(t, k + 1) /\ k \in 0 .. Top
    BY <1>1, <1>5, Limbed DEF Naturals
  <2>2. Val(t, k + 1) = Val(t, k) + t[k + 1] * Weight[k]
    BY <2>1, ValMore
  <2>3. Weight[k + 1] = Base * Weight[k] /\ Weight[k] \in Nat \ {0}
    BY <2>1, Weights
  <2>4. t[k + 1] = (x \div Weight[k]) % Base /\ Val(t, k) = x % Weight[k]
    BY <1>3, <1>7, <2>1
  <2> DEFINE w == Weight[k]
             dd == (x \div w) % Base
             r == x % w
  <2>5. x % (w * Base) = r + w * dd
    <3>1. w \in Nat \ {0} /\ Base \in Nat \ {0}
      BY <1>1, <2>3
    <3> HIDE DEF w
    <3>2. QED
      BY <3>1, DigitStep
  <2>6. w \in Nat /\ dd \in Nat /\ r \in Nat
    <3> HIDE DEF w
    <3>1. w \in Nat \ {0} => (x \div w) \in Nat /\ r \in Nat
      OBVIOUS
    <3>2. QED
      BY <1>1, <2>3, <3>1 DEF w
  <2>7. Val(t, k + 1) = r + dd * w /\ Weight[k + 1] = Base * w
    BY <2>2, <2>3, <2>4
  <2> HIDE DEF w, dd, r
  <2>8. dd * w = w * dd /\ Base * w = w * Base
    BY <1>1, <2>6
  <2>9. Val(t, k + 1) = x % Weight[k + 1]
    BY <2>5, <2>7, <2>8
  <2>10. QED
    BY <2>1, <2>9
<1>8. \A k \in 0 .. n : k \in T
  <2> HIDE DEF T
  <2>1. QED
    BY <1>1, <1>6, <1>7, InductionTo
<1>9. n \in T
  BY <1>1, <1>8
<1>10. QED
  BY <1>4, <1>9 DEF t

\* Number is the value.
LEMMA NumberIs ==
  ASSUME NEW n \in 0 .. 2 * N, NEW t, IsLimbs(t, n)
  PROVE  Number(t) = Val(t, n)
<1> DEFINE Sum(g) == g = [i \in 0 .. n |-> IF i = 0 THEN 0 ELSE g[i - 1] + t[i] * Base ^ (i - 1)]
           h == CHOOSE h : Weighted(h, t, n)
           g == CHOOSE g : Sum(g)
<1>1. n \in Nat /\ n \in 0 .. Top /\ Len(t) = n /\ Naturals(t, n)
  BY Limbed, LimbsAre
<1>2. Weighted(h, t, n)
  BY <1>1, ValSums
<1>3. Val(t, n) = h[n]
  BY DEF Val
<1> HIDE DEF h
<1>4. \A i \in 1 .. n : Weight[i - 1] = Base ^ (i - 1)
  <2>1. \A i \in 1 .. n : i - 1 \in 0 .. 2 * N
    BY Limbed
  <2>2. QED
    BY <2>1, WeightIsPower
<1>5. Sum(h)
  <2>1. h = [i \in 0 .. n |-> h[i]]
    BY <1>2 DEF Weighted
  <2>2. \A i \in 1 .. n : h[i] = h[i - 1] + t[i] * Base ^ (i - 1)
    BY <1>2, <1>4 DEF Weighted
  <2>3. h[0] = 0
    BY <1>2 DEF Weighted
  <2>4. \A i \in 0 .. n : i = 0 \/ i \in 1 .. n
    BY <1>1
  <2>5. QED
    BY <2>1, <2>2, <2>3, <2>4
<1>6. Sum(g)
  <2> HIDE DEF Sum
  <2>1. QED
    BY <1>5, Zenon
<1>7. Number(t) = g[n]
  BY <1>1 DEF Number
<1> HIDE DEF g
<1> DEFINE T == {k \in 0 .. n : g[k] = h[k]}
<1>8. 0 \in T
  BY <1>1, <1>2, <1>6 DEF Weighted
<1>9. ASSUME NEW k \in 0 .. (n - 1), k \in T
      PROVE  k + 1 \in T
  <2>1. k + 1 \in 1 .. n /\ k + 1 \in 0 .. n /\ k + 1 # 0 /\ (k + 1) - 1 = k
    BY <1>1
  <2>2. g[k + 1] = g[k] + t[k + 1] * Base ^ k
    BY <1>6, <2>1
  <2>3. h[k + 1] = h[k] + t[k + 1] * Base ^ k
    BY <1>2, <1>4, <2>1 DEF Weighted
  <2>4. QED
    BY <1>9, <2>1, <2>2, <2>3
<1>10. \A k \in 0 .. n : k \in T
  <2> HIDE DEF T
  <2>1. QED
    BY <1>1, <1>8, <1>9, InductionTo
<1>11. QED
  BY <1>1, <1>3, <1>7, <1>10

(* -------- carries -------- *)

\* The terms of which sums are carried: at most a limb and a product of two.
Term == 0 .. ((Base - 1) * Base)
AllTerms(t, n) == \A i \in 1 .. n : t[i] \in Term

\* A term and a carry fit in two limbs, and leave a limb and a carry.
LEMMA CarryStep ==
  ASSUME NEW c \in Limb, NEW t \in Term
  PROVE  /\ u32(c + t) \in Limb /\ u64(c + t) \div Base \in Limb
         /\ c + t = u32(c + t) + Base * (u64(c + t) \div Base)
         /\ c \in Nat /\ t \in Nat
<1> DEFINE D == Base
           m == D * D
           x == c + t
           y == (D - 1) * D
<1>1. D \in Nat /\ D >= 2 /\ D - 1 \in Nat
  BY Limbed
<1>2. c \in Nat /\ c <= D - 1 /\ t \in Nat /\ t <= y
  BY <1>1 DEF Limb, Term
<1>3. y \in Nat /\ m = y + D
  <2> HIDE DEF D
  <2>1. QED
    BY <1>1
<1>4. x \in 0 .. (m - 1) /\ m \in Nat \ {0}
  <2> HIDE DEF y, m
  <2>1. QED
    BY <1>1, <1>2, <1>3
<1>5. x % m = x
  <2> HIDE DEF m, x
  <2>1. QED
    BY <1>4, Remainders
<1>6. u64(x) = x /\ u32(x) = x % D
  BY <1>5 DEF u64, u32
<1> DEFINE q == x \div D
           r == x % D
<1>7. q \in Nat /\ r \in 0 .. (D - 1) /\ x = D * q + r
  <2> HIDE DEF D, m, x
  <2>1. QED
    BY <1>1, <1>4
<1>8. q <= D - 1
  <2> HIDE DEF D, x, q, r
  <2>1. q >= D => D * q = m + D * (q - D) /\ D * (q - D) \in Nat
    BY <1>1, <1>7
  <2> HIDE DEF m
  <2>2. D * q \in Nat
    BY <1>1, <1>7
  <2>3. QED
    BY <1>1, <1>4, <1>7, <2>1, <2>2
<1>9. r \in 0 .. (D - 1) /\ q \in 0 .. (D - 1) /\ x = r + D * q
  <2> HIDE DEF D, x, q, r
  <2>1. D * q \in Nat
    BY <1>1, <1>7
  <2>2. QED
    BY <1>1, <1>7, <1>8, <2>1
<1>10. QED
  BY <1>2, <1>6, <1>9, Zenon DEF Limb

\* The limbs of a sum of terms are its value.
LEMMA CarriedIs ==
  ASSUME NEW n \in 0 .. Top, NEW terms, Len(terms) = n, AllTerms(terms, n),
         NEW first \in Limb
  PROVE  /\ IsLimbs(Carried(terms, first), n + 1)
         /\ Val(Carried(terms, first), n) + Carried(terms, first)[n + 1] * Weight[n]
              = Val(terms, n) + first
<1> DEFINE Carry(c) == c = [i \in 1 .. n + 1 |->
                              IF i = 1 THEN first ELSE u64(c[i - 1] + terms[i - 1]) \div Base]
           F == [k \in 1 .. n |-> [s \in Limb |-> u64(s + terms[k]) \div Base]]
           row == Carried(terms, first)
           c == CHOOSE c : Carry(c)
<1>0. \A k \in 1 .. n : terms[k] \in Term
  BY DEF AllTerms
<1>1. n \in Nat /\ Base \in Nat /\ n \in 0 .. Top
  BY Limbed
<1>2. \A k \in 1 .. n, s \in Limb : F[k][s] = u64(s + terms[k]) \div Base /\ F[k][s] \in Limb
  BY <1>0, CarryStep
<1> HIDE DEF F
<1>3. PICK g : Follows(g, Limb, first, F, n)
  <2>1. StaysIn(Limb, F, n)
    BY <1>2 DEF StaysIn
  <2>2. QED
    BY <1>1, <2>1, Recursion
<1> DEFINE dd == [i \in 1 .. n + 1 |-> g[i - 1]]
<1>4. Carry(dd)
  <2>1. dd[1] = first
    BY <1>1, <1>3 DEF Follows
  <2>2. ASSUME NEW i \in 2 .. n + 1
        PROVE  dd[i] = u64(dd[i - 1] + terms[i - 1]) \div Base
    <3>1. i - 1 \in 1 .. n /\ (i - 1) - 1 \in 0 .. n /\ i \in 1 .. n + 1 /\ i - 1 \in 1 .. n + 1
      BY <1>1
    <3>2. dd[i] = g[i - 1] /\ dd[i - 1] = g[(i - 1) - 1]
      BY <3>1
    <3> HIDE DEF dd
    <3>3. g[i - 1] = F[i - 1][g[(i - 1) - 1]] /\ g[(i - 1) - 1] \in Limb
      BY <1>3, <3>1 DEF Follows
    <3>4. QED
      BY <1>2, <3>1, <3>2, <3>3
  <2>3. dd = [i \in 1 .. n + 1 |-> dd[i]]
    OBVIOUS
  <2> HIDE DEF dd
  <2>4. \A i \in 1 .. n + 1 : i = 1 \/ (i # 1 /\ i \in 2 .. n + 1)
    BY <1>1
  <2>5. QED
    BY <2>1, <2>2, <2>3, <2>4
<1>5. Carry(c)
  <2> HIDE DEF Carry, dd
  <2>1. QED
    BY <1>4, Zenon
<1>6. Carries(terms, first) = c
  BY DEF Carries
<1> HIDE DEF c, dd
<1>7. c[1] = first /\ \A k \in 1 .. n : c[k + 1] = u64(c[k] + terms[k]) \div Base
  <2>1. 1 \in 1 .. n + 1
    BY <1>1
  <2>2. \A k \in 1 .. n : k + 1 \in 1 .. n + 1 /\ k + 1 # 1 /\ (k + 1) - 1 = k
    BY <1>1
  <2>3. QED
    BY <1>5, <2>1, <2>2
<1> HIDE DEF Carry
<1> DEFINE T == {k \in 0 .. n : c[k + 1] \in Limb}
<1>8. \A k \in 0 .. n : k \in T
  <2>1. 0 \in T
    BY <1>1, <1>7
  <2>2. ASSUME NEW k \in 0 .. (n - 1), k \in T
        PROVE  k + 1 \in T
    <3>1. k + 1 \in 1 .. n /\ k + 1 \in 0 .. n
      BY <1>1
    <3>2. c[k + 1] \in Limb /\ c[(k + 1) + 1] = u64(c[k + 1] + terms[k + 1]) \div Base
      BY <1>7, <2>2, <3>1
    <3>3. QED
      BY <1>0, <3>1, <3>2, CarryStep
  <2> HIDE DEF T
  <2>3. QED
    BY <1>1, <2>1, <2>2, InductionTo
<1>9. \A k \in 1 .. n + 1 : c[k] \in Limb
  <2>1. \A k \in 1 .. n + 1 : k - 1 \in 0 .. n /\ (k - 1) + 1 = k
    BY <1>1
  <2>2. QED
    BY <1>8, <2>1
<1>10. row = [i \in 1 .. n + 1 |-> IF i <= n THEN u32(c[i] + terms[i]) ELSE u32(c[i])]
  BY <1>6 DEF Carried
<1> HIDE DEF row
<1>11. (\A k \in 1 .. n : row[k] = u32(c[k] + terms[k]) /\ row[k] \in Limb) /\ row[n + 1] = c[n + 1]
  <2>1. \A k \in 1 .. n : k \in 1 .. n + 1 /\ k <= n
    BY <1>1
  <2>2. \A k \in 1 .. n : row[k] = u32(c[k] + terms[k])
    BY <1>10, <2>1
  <2>3. \A k \in 1 .. n : u32(c[k] + terms[k]) \in Limb
    BY <1>0, <1>9, <2>1, CarryStep
  <2>4. n + 1 \in 1 .. n + 1 /\ ~(n + 1 <= n)
    BY <1>1
  <2>5. row[n + 1] = u32(c[n + 1])
    BY <1>10, <2>4
  <2>6. u32(c[n + 1]) = c[n + 1]
    <3>1. c[n + 1] \in 0 .. (Base - 1) /\ Base \in Nat \ {0}
      BY <1>9, <2>4, Limbed DEF Limb
    <3>2. QED
      BY <3>1, Remainders DEF u32
  <2>7. QED
    BY <2>2, <2>3, <2>5, <2>6
<1>12. IsLimbs(row, n + 1)
  <2>1. row = [i \in 1 .. n + 1 |-> row[i]]
    BY <1>10
  <2>2. \A k \in 1 .. n + 1 : k \in 1 .. n \/ k = n + 1
    BY <1>1
  <2>3. AllLimbs(row, n + 1)
    BY <1>9, <1>11, <2>2 DEF AllLimbs
  <2>4. n + 1 \in Nat
    BY <1>1
  <2>5. QED
    BY <2>1, <2>3, <2>4, LimbsFrom
<1> DEFINE V == {k \in 0 .. n : Val(row, k) + c[k + 1] * Weight[k] = Val(terms, k) + first}
<1>13. 0 \in V
  <2>1. c[1] \in Nat
    BY <1>1, <1>7, LimbIs
  <2>2. Val(row, 0) = 0 /\ Val(terms, 0) = 0 /\ Weight[0] = 1
    BY ValNone, Weights
  <2>3. first \in Nat
    BY LimbIs
  <2>4. Val(row, 0) + c[0 + 1] * Weight[0] = Val(terms, 0) + first
    BY <1>7, <2>1, <2>2, <2>3
  <2>5. 0 \in 0 .. n
    BY <1>1
  <2>6. QED
    BY <2>4, <2>5
<1>14. ASSUME NEW k \in 0 .. (n - 1), k \in V
       PROVE  k + 1 \in V
  <2>1. /\ k \in 0 .. (Top - 1) /\ k + 1 \in 1 .. n /\ k + 1 \in 0 .. n /\ k + 1 \in 1 .. Top
        /\ (k + 1) - 1 = k /\ k + 1 \in 1 .. n + 1
    BY <1>1, Limbed
  <2>2. Naturals(row, k + 1) /\ Naturals(terms, k + 1)
    <3>1. \A i \in 1 .. k + 1 : i \in 1 .. n
      BY <1>1
    <3>2. \A i \in 1 .. k + 1 : row[i] \in Limb /\ terms[i] \in Term
      BY <1>0, <1>11, <3>1
    <3>3. 0 \in Limb /\ \A t \in Term : t \in Nat
      BY LimbIs, CarryStep
    <3>4. QED
      BY <3>2, <3>3, LimbIs DEF Naturals
  <2>3. /\ Val(row, k + 1) = Val(row, k) + row[k + 1] * Weight[k]
        /\ Val(terms, k + 1) = Val(terms, k) + terms[k + 1] * Weight[k]
        /\ Val(row, k) \in Nat /\ Val(terms, k) \in Nat /\ Weight[k] \in Nat
        /\ row[k + 1] \in Nat /\ terms[k + 1] \in Nat
    BY <2>1, <2>2, ValMore
  <2>4. Weight[k + 1] = Base * Weight[k]
    BY <2>1, Weights
  <2> DEFINE s == c[k + 1]
             t == terms[k + 1]
             e == c[(k + 1) + 1]
             r == row[k + 1]
             w == Weight[k]
  <2>5. s + t = r + Base * e /\ s \in Nat /\ t \in Nat /\ e \in Nat
    <3>1. s \in Limb /\ t \in Term /\ e = u64(s + t) \div Base /\ r = u32(s + t)
      BY <1>0, <1>7, <1>9, <1>11, <2>1
    <3> HIDE DEF s, t, e, r
    <3>2. QED
      BY <3>1, CarryStep, LimbIs
  <2>6. Val(row, k) + s * w = Val(terms, k) + first
    BY <1>14
  <2>7. Val(row, k + 1) = Val(row, k) + r * w /\ Val(terms, k + 1) = Val(terms, k) + t * w
        /\ w \in Nat /\ r \in Nat
    BY <2>3
  <2> HIDE DEF s, t, e, r, w
  <2>8. (s + t) * w = s * w + t * w /\ (r + Base * e) * w = r * w + e * (Base * w)
    BY <1>1, <2>5, <2>7
  <2>9. s * w \in Nat /\ t * w \in Nat /\ r * w \in Nat /\ e * (Base * w) \in Nat /\ first \in Nat
    BY <1>1, <2>5, <2>7, LimbIs
  <2>10. Val(row, k + 1) + e * (Base * w) = Val(terms, k + 1) + first
    <3>1. s * w + t * w = r * w + e * (Base * w)
      BY <2>5, <2>8, Zenon
    <3> DEFINE a == s * w
               b == t * w
               d1 == r * w
               d2 == e * (Base * w)
               vr == Val(row, k)
               vt == Val(terms, k)
               vr1 == Val(row, k + 1)
               vt1 == Val(terms, k + 1)
    <3>2. /\ a \in Nat /\ b \in Nat /\ d1 \in Nat /\ d2 \in Nat /\ a + b = d1 + d2
          /\ vr + a = vt + first /\ vr1 = vr + d1 /\ vt1 = vt + b
          /\ vr \in Nat /\ vt \in Nat /\ first \in Nat
      BY <2>3, <2>6, <2>7, <2>9, <3>1, SMTT(60)
    <3> HIDE DEF a, b, d1, d2, vr, vt, vr1, vt1
    <3>3. vr1 + d2 = vt1 + first
      BY <3>2, SMTT(60)
    <3>4. QED
      BY <3>3 DEF d2, vr1, vt1
  <2>11. QED
    BY <2>1, <2>4, <2>10 DEF e, w
<1>15. \A k \in 0 .. n : k \in V
  <2> HIDE DEF V
  <2>1. QED
    BY <1>1, <1>13, <1>14, InductionTo
<1>16. n \in V
  BY <1>1, <1>15
<1>17. QED
  BY <1>11, <1>12, <1>16 DEF row

(* -------- rows -------- *)

\* A limb and a product of two are a term.
LEMMA Products ==
  ASSUME NEW a \in Limb, NEW b \in Limb, NEW p \in Limb
  PROVE  p + a * b \in Term /\ p \in Term
<1> DEFINE D == Base - 1
<1>1. D \in Nat /\ D + 1 = Base /\ a \in 0 .. D /\ b \in 0 .. D /\ p \in 0 .. D
  BY Limbed DEF Limb
<1> DEFINE x == a * b
           y == D * D
<1>2. x \in Nat /\ y \in Nat /\ x <= y
  <2> HIDE DEF D
  <2>1. y = x + (a * (D - b) + D * (D - a)) /\ a * (D - b) \in Nat /\ D * (D - a) \in Nat
        /\ x \in Nat /\ y \in Nat
    BY <1>1
  <2> HIDE DEF x, y
  <2>2. QED
    BY <2>1
<1>3. D * Base = y + D
  <2> HIDE DEF D
  <2>1. D * (D + 1) = D * D + D
    BY <1>1
  <2>2. QED
    BY <1>1, <2>1
<1>4. p + x \in 0 .. (y + D) /\ p \in 0 .. (y + D)
  <2> HIDE DEF D, x, y
  <2>1. QED
    BY <1>1, <1>2
<1>5. QED
  BY <1>3, <1>4, Zenon DEF Term

\* What other limbs in the middle of a number make of its value.
Replaces(r, v, p, u, w, m, n, k) ==
  /\ m \in Nat /\ n \in Nat /\ k \in Nat /\ m + n + k <= Top
  /\ Naturals(p, m + n + k) /\ Naturals(r, m + n + k)
  /\ Agree(r, p, m) /\ IsPart(w, p, m + n, k) /\ IsPart(w, r, m + n, k)
  /\ IsPart(u, p, m, n) /\ IsPart(v, r, m, n)

LEMMA ValReplace ==
  ASSUME NEW m, NEW n, NEW k, NEW p, NEW r, NEW w, NEW u, NEW v, NEW M, M = m + n + k,
         Replaces(r, v, p, u, w, m, n, k)
  PROVE  /\ Val(r, M) + Weight[m] * Val(u, n) = Val(p, M) + Weight[m] * Val(v, n)
         /\ Val(r, M) \in Nat /\ Val(p, M) \in Nat
         /\ Val(u, n) \in Nat /\ Val(v, n) \in Nat /\ Weight[m] \in Nat
<1> DEFINE q == m + n
<1>0. /\ m \in Nat /\ n \in Nat /\ k \in Nat /\ M = q + k /\ M \in 0 .. Top
      /\ Naturals(p, M) /\ Naturals(r, M)
      /\ Agree(r, p, m) /\ IsPart(w, p, q, k) /\ IsPart(w, r, q, k)
      /\ IsPart(u, p, m, n) /\ IsPart(v, r, m, n)
  BY Limbed DEF Replaces
<1>1. /\ q \in Nat /\ m + n <= Top /\ m \in 0 .. Top /\ q + k <= Top
      /\ Naturals(p, m + n) /\ Naturals(r, m + n) /\ Naturals(p, m)
  BY <1>0, Limbed DEF Naturals
<1>2. /\ Val(p, q + k) = Val(p, q) + Weight[q] * Val(w, k)
      /\ Val(p, q) \in Nat /\ Weight[q] \in Nat /\ Val(w, k) \in Nat
  <2>1. Naturals(p, q + k)
    BY <1>0
  <2> HIDE DEF q
  <2>2. QED
    BY <1>0, <1>1, <2>1, ValConcat
<1>3. Val(r, q + k) = Val(r, q) + Weight[q] * Val(w, k) /\ Val(r, q) \in Nat
  <2>1. Naturals(r, q + k)
    BY <1>0
  <2> HIDE DEF q
  <2>2. QED
    BY <1>0, <1>1, <2>1, ValConcat
<1>4. /\ Val(p, m + n) = Val(p, m) + Weight[m] * Val(u, n)
      /\ Val(p, m) \in Nat /\ Weight[m] \in Nat /\ Val(u, n) \in Nat
  BY <1>0, <1>1, ValConcat
<1>5. Val(r, m + n) = Val(r, m) + Weight[m] * Val(v, n) /\ Val(v, n) \in Nat
  BY <1>0, <1>1, ValConcat
<1>6. Val(p, m) = Val(r, m)
  BY <1>0, <1>1, ValSame
<1>7. Val(r, M) \in Nat /\ Val(p, M) \in Nat
  BY <1>0, ValNat
<1> DEFINE a == Weight[q] * Val(w, k)
           b == Weight[m] * Val(u, n)
           c == Weight[m] * Val(v, n)
<1>8. a \in Nat /\ b \in Nat /\ c \in Nat
  BY <1>2, <1>4, <1>5
<1>9. /\ Val(p, M) = Val(p, q) + a /\ Val(r, M) = Val(r, q) + a
      /\ Val(p, q) = Val(p, m) + b /\ Val(r, q) = Val(p, m) + c /\ Val(p, m) \in Nat
  BY <1>0, <1>2, <1>3, <1>4, <1>5, <1>6
<1>10. Val(r, M) + b = Val(p, M) + c
  <2> HIDE DEF a, b, c
  <2>1. QED
    BY <1>8, <1>9
<1>11. QED
  BY <1>4, <1>5, <1>7, <1>10

\* The row that is added: a * b, from limb m + 1 of p on.
LEMMA RowIs ==
  ASSUME NEW m \in Nat, NEW n \in Nat, m + n <= Top, NEW p, AllLimbs(p, m + n),
         NEW a \in Limb, NEW b, AllLimbs(b, n),
         NEW u, IsPart(u, p, m, n),
         NEW row, row = Carried([j \in 1 .. n |-> p[(m + 1) + j - 1] + a * b[j]], 0)
  PROVE  /\ IsLimbs(row, n + 1)
         /\ Val(row, n) + row[n + 1] * Weight[n] = Val(u, n) + a * Val(b, n)
         /\ Val(row, n) \in Nat /\ row[n + 1] \in Nat /\ Weight[n] \in Nat
         /\ Val(u, n) \in Nat /\ a \in Nat /\ Val(b, n) \in Nat
<1> DEFINE t == [j \in 1 .. n |-> p[(m + 1) + j - 1] + a * b[j]]
<1>1. n \in 0 .. Top /\ n + 1 \in Nat
  BY Limbed
<1>2. \A j \in 1 .. n : (m + 1) + j - 1 = m + j /\ m + j \in 1 .. m + n
  OBVIOUS
<1>3. \A j \in 1 .. n : t[j] = u[j] + a * b[j] /\ u[j] \in Limb /\ b[j] \in Limb
  BY <1>2 DEF IsPart, AllLimbs
<1>4. Len(t) = n
  OBVIOUS
<1>5. row = Carried(t, 0)
  OBVIOUS
<1> HIDE DEF t
<1>6. AllTerms(t, n) /\ IsLinear(t, u, a, b, n)
  BY <1>3, Products DEF AllTerms, IsLinear
<1>7. IsLimbs(row, n + 1) /\ Val(row, n) + row[n + 1] * Weight[n] = Val(t, n) + 0
  <2>1. 0 \in Limb
    BY LimbIs
  <2>2. QED
    BY <1>1, <1>4, <1>5, <1>6, <2>1, CarriedIs
<1>8. Naturals(u, n) /\ Naturals(b, n) /\ a \in Nat
  BY <1>3, LimbIs DEF Naturals
<1>9. Val(t, n) = Val(u, n) + a * Val(b, n)
  BY <1>1, <1>6, <1>8, ValLinear
<1>10. Naturals(row, n + 1)
  BY <1>1, <1>7, LimbsAre
<1>11. Naturals(row, n) /\ row[n + 1] \in Nat
  BY <1>1, <1>10 DEF Naturals
<1>12. Val(row, n) \in Nat /\ Val(u, n) \in Nat /\ Val(b, n) \in Nat /\ Weight[n] \in Nat
  BY <1>1, <1>8, <1>11, ValNat, Weights
<1>13. Val(u, n) + a * Val(b, n) + 0 = Val(u, n) + a * Val(b, n)
  BY <1>8, <1>12
<1>14. QED
  BY <1>7, <1>8, <1>9, <1>11, <1>12, <1>13

\* Three numbers one behind the other: each keeps its limbs.
LEMMA LimbsJoin ==
  ASSUME NEW m \in Nat, NEW n \in Nat, NEW k \in Nat,
         NEW s, IsLimbs(s, m), NEW t, IsLimbs(t, n), NEW u, IsLimbs(u, k)
  PROVE  /\ IsLimbs(s \o t \o u, m + n + k)
         /\ Agree(s, s \o t \o u, m) /\ IsPart(t, s \o t \o u, m, n)
         /\ IsPart(u, s \o t \o u, m + n, k)
<1> DEFINE l == s \o t
           r == l \o u
<1>1. IsLimbs(l, m + n) /\ Agree(s, l, m) /\ IsPart(t, l, m, n)
  BY LimbsConcat
<1> HIDE DEF l
<1>2. m + n \in Nat
  OBVIOUS
<1>3. IsLimbs(r, m + n + k) /\ Agree(l, r, m + n) /\ IsPart(u, r, m + n, k)
  BY <1>1, <1>2, LimbsConcat
<1> HIDE DEF r
<1>4. Agree(s, r, m)
  <2>1. \A i \in 1 .. m : i \in 1 .. m + n
    OBVIOUS
  <2>2. QED
    BY <1>1, <1>3, <2>1 DEF Agree
<1>5. IsPart(t, r, m, n)
  <2>1. \A i \in 1 .. n : m + i \in 1 .. m + n
    OBVIOUS
  <2>2. QED
    BY <1>1, <1>3, <2>1 DEF Agree, IsPart
<1>6. QED
  BY <1>3, <1>4, <1>5 DEF r, l

\* MultiplyRow adds a * b times the weight of its first limb, where the limb that takes
\* the carry was 0.
RowFits(p, a, b, m, n, k) ==
  /\ m \in Nat /\ n \in Nat /\ k \in Nat /\ m + (n + 1) + k <= Top
  /\ IsLimbs(p, m + (n + 1) + k) /\ a \in Limb /\ AllLimbs(b, n)

LEMMA MultiplyRowIs ==
  ASSUME NEW m, NEW n, NEW k, NEW p, NEW a, NEW b, RowFits(p, a, b, m, n, k),
         NEW r, r = MultiplyRow(p, m + 1, a, b, n)
  PROVE  /\ IsLimbs(r, m + (n + 1) + k)
         /\ \A i \in 1 .. k : r[m + (n + 1) + i] = p[m + (n + 1) + i]
         /\ p[m + (n + 1)] = 0 =>
              Val(r, m + (n + 1) + k) = Val(p, m + (n + 1) + k) + Weight[m] * (a * Val(b, n))
<1> DEFINE l == n + 1
           M == m + l + k
           row == Carried([j \in 1 .. n |-> p[(m + 1) + j - 1] + a * b[j]], 0)
           head == SubSeq(p, 1, m)
           rest == SubSeq(p, (m + l) + 1, (m + l) + k)
           u == [i \in 1 .. l |-> p[m + i]]
<1>0. /\ m \in Nat /\ n \in Nat /\ k \in Nat /\ m + (n + 1) + k <= Top
      /\ IsLimbs(p, m + (n + 1) + k) /\ a \in Limb /\ AllLimbs(b, n)
  BY DEF RowFits
<1> USE <1>0
<1>1. /\ l \in Nat /\ M \in Nat /\ M \in 0 .. Top /\ IsLimbs(p, M) /\ m + l \in Nat
      /\ m + n <= Top /\ n \in 0 .. (Top - 1) /\ m + (l + k) = M /\ l + k \in Nat
      /\ M = (m + l) + k + 0 /\ 0 \in Nat /\ m + l + k <= Top
  BY Limbed
<1>2. Len(p) = M /\ AllLimbs(p, M) /\ Naturals(p, M)
  <2> HIDE DEF M
  <2>1. QED
    BY <1>1, LimbsAre
<1>3. r = head \o row \o rest
  <2>1. (m + 1) - 1 = m /\ m + 1 + n + 1 = (m + l) + 1 /\ M = (m + l) + k
    OBVIOUS
  <2>2. QED
    BY <1>2, <2>1 DEF MultiplyRow
<1>4. IsPart(u, p, m, l) /\ IsPart(u, p, m, n) /\ AllLimbs(p, m + n) /\ u[n + 1] = p[m + l]
  <2>1. n + 1 \in 1 .. l /\ \A i \in 1 .. n : i \in 1 .. l
    OBVIOUS
  <2>2. \A i \in 1 .. m + n : i \in 1 .. M
    OBVIOUS
  <2>3. u[n + 1] = p[m + l]
    BY <2>1
  <2> HIDE DEF M
  <2>4. AllLimbs(p, m + n)
    BY <1>2, <2>2 DEF AllLimbs
  <2>5. QED
    BY <2>1, <2>3, <2>4 DEF IsPart
<1> HIDE DEF u
<1>5. /\ IsLimbs(row, l)
      /\ Val(row, n) + row[n + 1] * Weight[n] = Val(u, n) + a * Val(b, n)
      /\ Val(u, n) \in Nat /\ a \in Nat /\ Val(b, n) \in Nat
  <2> DEFINE c == row
  <2>1. c = Carried([j \in 1 .. n |-> p[(m + 1) + j - 1] + a * b[j]], 0)
    OBVIOUS
  <2> HIDE DEF c
  <2>2. /\ IsLimbs(c, n + 1)
        /\ Val(c, n) + c[n + 1] * Weight[n] = Val(u, n) + a * Val(b, n)
        /\ Val(u, n) \in Nat /\ a \in Nat /\ Val(b, n) \in Nat
    BY <1>1, <1>4, <2>1, RowIs
  <2>3. QED
    BY <2>2 DEF c
<1> HIDE DEF row
<1>6. ASSUME p[m + l] = 0
      PROVE  Val(row, l) = Val(u, l) + a * Val(b, n)
  <2>1. Naturals(row, n + 1)
    BY <1>1, <1>5, LimbsAre
  <2>2. Naturals(u, n + 1)
    <3>1. \A i \in 1 .. n : p[m + i] \in Nat
      <4>1. \A i \in 1 .. n : m + i \in 1 .. m + n
        OBVIOUS
      <4>2. QED
        BY <1>4, <4>1, LimbIs DEF AllLimbs
    <3>2. \A i \in 1 .. n + 1 : i \in 1 .. n \/ i = n + 1
      OBVIOUS
    <3>3. \A i \in 1 .. n : u[i] \in Nat
      BY <1>4, <3>1 DEF IsPart
    <3>4. QED
      BY <1>4, <1>6, <3>2, <3>3 DEF Naturals
  <2>3. Val(row, n + 1) = Val(row, n) + row[n + 1] * Weight[n]
    BY <1>1, <2>1, ValMore
  <2>4. Val(u, n + 1) = Val(u, n) + u[n + 1] * Weight[n] /\ Weight[n] \in Nat
    BY <1>1, <2>2, ValMore
  <2>5. Val(u, n + 1) = Val(u, n)
    BY <1>4, <1>5, <1>6, <2>4
  <2>6. QED
    BY <1>5, <2>3, <2>5
<1> HIDE DEF l
<1>7. IsLimbs(head, m) /\ Agree(head, p, m)
  <2> DEFINE j == l + k
  <2>1. j \in Nat /\ IsLimbs(p, m + j)
    BY <1>1
  <2> HIDE DEF j
  <2>2. QED
    BY <2>1, LimbsHead
<1>8. IsLimbs(rest, k) /\ IsPart(rest, p, m + l, k)
  <2> DEFINE q == m + l
             z == 0
  <2>1. q \in Nat /\ z \in Nat /\ IsLimbs(p, q + k + z)
    BY <1>1
  <2>2. rest = SubSeq(p, q + 1, q + k)
    OBVIOUS
  <2> HIDE DEF q, z, rest
  <2>3. IsLimbs(rest, k) /\ IsPart(rest, p, q, k)
    BY <2>1, <2>2, LimbsPart
  <2>4. QED
    BY <2>3 DEF q
<1> HIDE DEF head, rest
<1>9. IsLimbs(r, M) /\ Agree(head, r, m) /\ IsPart(row, r, m, l) /\ IsPart(rest, r, m + l, k)
  <2> DEFINE j == head \o row \o rest
  <2>1. l \in Nat /\ IsLimbs(head, m) /\ IsLimbs(row, l) /\ IsLimbs(rest, k)
    BY <1>1, <1>5, <1>7, <1>8
  <2>2. IsLimbs(j, M) /\ Agree(head, j, m) /\ IsPart(row, j, m, l) /\ IsPart(rest, j, m + l, k)
    BY <2>1, LimbsJoin
  <2> HIDE DEF j
  <2>3. r = j
    BY <1>3 DEF j
  <2>4. QED
    BY <2>2, <2>3
<1>10. Agree(r, p, m) /\ Naturals(r, M)
  <2>1. Agree(r, p, m)
    BY <1>7, <1>9 DEF Agree
  <2> HIDE DEF M
  <2>2. QED
    BY <1>1, <1>9, <2>1, LimbsAre
<1>11. /\ Val(r, M) + Weight[m] * Val(u, l) = Val(p, M) + Weight[m] * Val(row, l)
       /\ Val(r, M) \in Nat /\ Val(p, M) \in Nat
       /\ Val(u, l) \in Nat /\ Weight[m] \in Nat
  <2>1. Replaces(r, row, p, u, rest, m, l, k)
    BY <1>1, <1>2, <1>4, <1>8, <1>9, <1>10 DEF Replaces
  <2>2. M = m + l + k
    OBVIOUS
  <2> HIDE DEF M
  <2>3. QED
    BY <2>1, <2>2, ValReplace
<1> HIDE DEF M
<1>12. ASSUME p[m + l] = 0
       PROVE  Val(r, M) = Val(p, M) + Weight[m] * (a * Val(b, n))
  <2> DEFINE x == Val(u, l)
             y == a * Val(b, n)
             w == Weight[m]
  <2>1. y \in Nat /\ x \in Nat /\ w \in Nat
    BY <1>5, <1>11
  <2>2. Val(r, M) + w * x = Val(p, M) + w * (x + y) /\ Val(r, M) \in Nat /\ Val(p, M) \in Nat
    BY <1>6, <1>11, <1>12
  <2> HIDE DEF x, y, w
  <2>3. w * (x + y) = w * x + w * y /\ w * x \in Nat /\ w * y \in Nat
    BY <2>1
  <2>4. Val(r, M) = Val(p, M) + w * y
    BY <2>2, <2>3
  <2>5. QED
    BY <2>4 DEF y, w
<1>13. \A i \in 1 .. k : r[m + l + i] = p[m + l + i]
  BY <1>8, <1>9 DEF IsPart
<1>14. QED
  BY <1>9, <1>12, <1>13 DEF M, l

\* AddRow adds a * b times the weight of its first limb to a number that ends with the
\* row, modulo the weight of the limb behind it.
LEMMA AddRowIs ==
  ASSUME NEW m \in Nat, NEW n \in Nat, NEW M, M = m + n, M <= Top, NEW p, IsLimbs(p, M),
         NEW a \in Limb, NEW b, AllLimbs(b, n), NEW r, r = AddRow(p, m + 1, a, b, n)
  PROVE  /\ IsLimbs(r, M)
         /\ \E c \in Nat : Val(r, M) + Weight[M] * c = Val(p, M) + Weight[m] * (a * Val(b, n))
<1> DEFINE row == Carried([j \in 1 .. n |-> p[(m + 1) + j - 1] + a * b[j]], 0)
           head == SubSeq(p, 1, m)
           low == SubSeq(row, 1, n)
           rest == SubSeq(p, (m + n) + 1, (m + n) + 0)
           u == [i \in 1 .. n |-> p[m + i]]
<1>1. /\ M \in Nat /\ M \in 0 .. Top /\ m + n <= Top /\ 0 \in Nat /\ 1 \in Nat
      /\ M = M + 0 + 0 /\ IsLimbs(p, m + n) /\ m + n = m + n + 0 /\ n \in 0 .. Top
  BY Limbed
<1>2. Len(p) = M /\ AllLimbs(p, M) /\ Naturals(p, M)
  BY <1>1, LimbsAre
<1>3. r = head \o low \o rest
  <2>1. (m + 1) - 1 = m /\ m + 1 + n = (m + n) + 1 /\ M = (m + n) + 0
    BY <1>1
  <2>2. QED
    BY <1>2, <2>1 DEF AddRow, Low
<1>4. IsPart(u, p, m, n)
  BY DEF IsPart
<1> HIDE DEF u
<1>5. /\ IsLimbs(row, n + 1)
      /\ Val(row, n) + row[n + 1] * Weight[n] = Val(u, n) + a * Val(b, n)
      /\ Val(row, n) \in Nat /\ row[n + 1] \in Nat /\ Weight[n] \in Nat
      /\ Val(u, n) \in Nat /\ a \in Nat /\ Val(b, n) \in Nat
  <2> DEFINE c == row
  <2>1. c = Carried([j \in 1 .. n |-> p[(m + 1) + j - 1] + a * b[j]], 0)
    OBVIOUS
  <2>2. AllLimbs(p, m + n)
    BY <1>2
  <2> HIDE DEF c
  <2>3. /\ IsLimbs(c, n + 1)
        /\ Val(c, n) + c[n + 1] * Weight[n] = Val(u, n) + a * Val(b, n)
        /\ Val(c, n) \in Nat /\ c[n + 1] \in Nat /\ Weight[n] \in Nat
        /\ Val(u, n) \in Nat /\ a \in Nat /\ Val(b, n) \in Nat
    BY <1>1, <1>4, <2>1, <2>2, RowIs
  <2>4. QED
    BY <2>3 DEF c
<1> HIDE DEF row
<1>6. IsLimbs(low, n) /\ Val(low, n) = Val(row, n)
  <2>1. IsLimbs(low, n) /\ Agree(low, row, n)
    BY <1>1, <1>5, LimbsHead
  <2>2. Naturals(row, n)
    <3>1. n + 1 \in Nat /\ \A i \in 1 .. n : i \in 1 .. n + 1
      OBVIOUS
    <3>2. Naturals(row, n + 1)
      BY <1>5, <3>1, LimbsAre
    <3>3. QED
      BY <3>1, <3>2 DEF Naturals
  <2> HIDE DEF low
  <2>3. QED
    BY <1>1, <2>1, <2>2, ValSame
<1>7. IsLimbs(head, m) /\ Agree(head, p, m)
  BY <1>1, LimbsHead
<1>8. IsLimbs(rest, 0) /\ IsPart(rest, p, m + n, 0)
  <2> DEFINE q == m + n
             z == 0
  <2>1. q \in Nat /\ z \in Nat /\ IsLimbs(p, q + z + z)
    BY <1>1
  <2>2. rest = SubSeq(p, q + 1, q + z)
    OBVIOUS
  <2> HIDE DEF q, z, rest
  <2>3. IsLimbs(rest, z) /\ IsPart(rest, p, q, z)
    BY <2>1, <2>2, LimbsPart
  <2>4. QED
    BY <2>3 DEF q, z
<1> HIDE DEF head, low, rest
<1>9. IsLimbs(r, M) /\ Agree(head, r, m) /\ IsPart(low, r, m, n) /\ IsPart(rest, r, m + n, 0)
  <2> DEFINE j == head \o low \o rest
             z == 0
  <2>1. z \in Nat /\ IsLimbs(rest, z)
    BY <1>8
  <2> HIDE DEF z
  <2>2. IsLimbs(j, m + n + z) /\ Agree(head, j, m) /\ IsPart(low, j, m, n)
        /\ IsPart(rest, j, m + n, z)
    BY <1>6, <1>7, <2>1, LimbsJoin
  <2> HIDE DEF j
  <2>3. r = j /\ m + n + z = M
    BY <1>3 DEF j, z
  <2>4. QED
    BY <2>2, <2>3 DEF z
<1>10. /\ Val(r, M) + Weight[m] * Val(u, n) = Val(p, M) + Weight[m] * Val(low, n)
       /\ Val(r, M) \in Nat /\ Val(p, M) \in Nat /\ Weight[m] \in Nat
  <2>1. Agree(r, p, m)
    BY <1>7, <1>9 DEF Agree
  <2>2. Naturals(r, M)
    BY <1>1, <1>9, LimbsAre
  <2>3. M = m + n + 0
    OBVIOUS
  <2>4. Replaces(r, low, p, u, rest, m, n, 0)
    BY <1>1, <1>2, <1>4, <1>8, <1>9, <2>1, <2>2, <2>3 DEF Replaces
  <2>5. QED
    BY <2>3, <2>4, ValReplace
<1>11. Weight[M] = Weight[m] * Weight[n]
  BY <1>1, WeightsMultiply
<1> DEFINE x == Val(u, n)
           y == Val(row, n)
           z == a * Val(b, n)
           c == row[n + 1]
           w == Weight[m]
           v == Weight[n]
<1>12. x \in Nat /\ y \in Nat /\ z \in Nat /\ c \in Nat /\ w \in Nat /\ v \in Nat
  BY <1>5, <1>10
<1>13. /\ Val(r, M) + w * x = Val(p, M) + w * y /\ y + c * v = x + z
       /\ Val(r, M) \in Nat /\ Val(p, M) \in Nat
  BY <1>5, <1>6, <1>10
<1>14. Weight[M] * c = (w * v) * c
  BY <1>11
<1> HIDE DEF x, y, z, c, w, v
<1>15. w * (y + c * v) = w * y + (w * v) * c /\ w * (x + z) = w * x + w * z
  BY <1>12
<1>16. Val(r, M) + (w * v) * c = Val(p, M) + w * z
  <2> DEFINE e == (w * v) * c
             f == w * x
             g == w * y
             h == w * z
  <2>1. e \in Nat /\ f \in Nat /\ g \in Nat /\ h \in Nat
    BY <1>12
  <2>2. g + e = f + h
    BY <1>13, <1>15, Zenon
  <2>3. Val(r, M) + f = Val(p, M) + g
    BY <1>13
  <2> HIDE DEF e, f, g, h
  <2>4. Val(r, M) + e = Val(p, M) + h
    BY <1>13, <2>1, <2>2, <2>3
  <2>5. QED
    BY <2>4 DEF e, h
<1>17. Val(r, M) + Weight[M] * c = Val(p, M) + Weight[m] * (a * Val(b, n))
  BY <1>14, <1>16, Zenon DEF w, z
<1>18. QED
  BY <1>9, <1>12, <1>17

\* The rows of a long multiplication: p + a * b in m + n limbs, the highest m of p 0.
IsProductOf(g, p, a, b, m, n) ==
  g = [i \in 0 .. m |-> IF i = 0 THEN p ELSE MultiplyRow(g[i - 1], i, a[i], b, n)]
Factors(p, a, b, m, n) ==
  /\ m \in Nat /\ n \in Nat /\ m + n <= Top /\ IsLimbs(p, m + n)
  /\ \A i \in 1 .. m : p[n + i] = 0
  /\ AllLimbs(a, m) /\ AllLimbs(b, n)

\* One row of it.
LEMMA ProductRow ==
  ASSUME NEW p, NEW a, NEW b, NEW m, NEW n, NEW M, M = m + n, Factors(p, a, b, m, n),
         NEW k \in 0 .. (m - 1), NEW s, IsLimbs(s, M),
         NEW r, r = MultiplyRow(s, k + 1, a[k + 1], b, n)
  PROVE  /\ IsLimbs(r, M)
         /\ \A i \in 1 .. m - (k + 1) : r[n + (k + 1) + i] = s[n + (k + 1) + i]
         /\ s[n + (k + 1)] = 0 =>
              Val(r, M) = Val(s, M) + Weight[k] * (a[k + 1] * Val(b, n))
<1> DEFINE l == m - (k + 1)
<1>1. /\ m \in Nat /\ n \in Nat /\ k \in Nat /\ l \in Nat /\ M = k + (n + 1) + l
      /\ k + (n + 1) + l <= Top /\ k + 1 \in 1 .. m /\ k + (n + 1) = n + (k + 1)
  BY DEF Factors
<1>2. a[k + 1] \in Limb /\ AllLimbs(b, n)
  BY <1>1 DEF Factors, AllLimbs
<1> HIDE DEF l
<1> DEFINE c == a[k + 1]
<1>3. c \in Limb /\ r = MultiplyRow(s, k + 1, c, b, n)
  BY <1>2
<1> HIDE DEF c
<1>4. IsLimbs(s, k + (n + 1) + l)
  BY <1>1
<1>5. /\ IsLimbs(r, k + (n + 1) + l)
      /\ \A i \in 1 .. l : r[k + (n + 1) + i] = s[k + (n + 1) + i]
      /\ s[k + (n + 1)] = 0 =>
           Val(r, k + (n + 1) + l) = Val(s, k + (n + 1) + l) + Weight[k] * (c * Val(b, n))
  <2>1. RowFits(s, c, b, k, n, l)
    BY <1>1, <1>2, <1>3, <1>4 DEF RowFits
  <2>2. QED
    BY <1>3, <2>1, MultiplyRowIs
<1>6. QED
  BY <1>1, <1>5 DEF l, c

\* The rows exist, and make the product.
LEMMA ProductIs ==
  ASSUME NEW p, NEW a, NEW b, NEW m, NEW n, NEW M, M = m + n, Factors(p, a, b, m, n),
         NEW t, t = (CHOOSE g : IsProductOf(g, p, a, b, m, n))[m]
  PROVE  IsLimbs(t, M) /\ Val(t, M) = Val(p, M) + Val(a, m) * Val(b, n)
<1> DEFINE S == {s \in Seq(Limb) : IsLimbs(s, M)}
           F == [k \in 1 .. m |-> [s \in S |-> MultiplyRow(s, k, a[k], b, n)]]
<1>1. m \in Nat /\ n \in Nat /\ M \in Nat /\ M \in 0 .. Top /\ n \in 0 .. Top /\ m \in 0 .. Top
  BY Limbed DEF Factors
<1>2. \A s : s \in S <=> IsLimbs(s, M)
  BY DEF IsLimbs
<1>3. \A k \in 1 .. m, s \in S : F[k][s] = MultiplyRow(s, k, a[k], b, n)
  OBVIOUS
<1> HIDE DEF S, F
<1>4. PICK g : Follows(g, S, p, F, m)
  <2>1. ASSUME NEW k \in 1 .. m, NEW s \in S
        PROVE  F[k][s] \in S
    <3> DEFINE j == k - 1
               r == F[k][s]
    <3>1. j \in 0 .. (m - 1) /\ k = j + 1
      BY <1>1
    <3>2. IsLimbs(s, M) /\ r = MultiplyRow(s, j + 1, a[j + 1], b, n)
      BY <1>2, <1>3, <3>1
    <3> HIDE DEF j, r
    <3>3. IsLimbs(r, M)
      BY <3>1, <3>2, ProductRow
    <3>4. QED
      BY <1>2, <3>3 DEF r
  <2>2. p \in S
    BY <1>2 DEF Factors
  <2>3. StaysIn(S, F, m)
    BY <2>1 DEF StaysIn
  <2>4. QED
    BY <1>1, <2>2, <2>3, Recursion
<1>5. IsProductOf(g, p, a, b, m, n)
  <2>1. g = [i \in 0 .. m |-> g[i]] /\ g[0] = p
    BY <1>4 DEF Follows
  <2>2. \A i \in 0 .. m : i = 0 \/ (i \in 1 .. m /\ i - 1 \in 0 .. m)
    BY <1>1
  <2>3. \A i \in 1 .. m : i - 1 \in 0 .. m => g[i] = MultiplyRow(g[i - 1], i, a[i], b, n)
    BY <1>3, <1>4 DEF Follows
  <2>4. \A i \in 0 .. m : g[i] = IF i = 0 THEN p ELSE MultiplyRow(g[i - 1], i, a[i], b, n)
    BY <2>1, <2>2, <2>3
  <2>5. QED
    BY <2>1, <2>4 DEF IsProductOf
<1> DEFINE h == CHOOSE h : IsProductOf(h, p, a, b, m, n)
<1>6. IsProductOf(h, p, a, b, m, n)
  BY <1>5, Zenon
<1>7. t = h[m]
  OBVIOUS
<1> HIDE DEF h
<1>8. h[0] = p /\ \A k \in 0 .. (m - 1) : h[k + 1] = MultiplyRow(h[k], k + 1, a[k + 1], b, n)
  <2>1. 0 \in 0 .. m
    BY <1>1
  <2>2. \A k \in 0 .. (m - 1) : k + 1 \in 0 .. m /\ k + 1 # 0 /\ (k + 1) - 1 = k
    BY <1>1
  <2>3. QED
    BY <1>6, <2>1, <2>2 DEF IsProductOf
<1>9. Naturals(a, m) /\ Naturals(b, n) /\ Naturals(p, M) /\ Val(p, M) \in Nat /\ Val(b, n) \in Nat
  <2>1. Naturals(a, m) /\ Naturals(b, n)
    BY LimbIs DEF Factors, AllLimbs, Naturals
  <2>2. IsLimbs(p, M)
    BY DEF Factors
  <2>3. Naturals(p, M)
    BY <1>1, <2>2, LimbsAre
  <2>4. QED
    BY <1>1, <2>1, <2>3, ValNat
<1> DEFINE T == {k \in 0 .. m : /\ IsLimbs(h[k], M) /\ \A i \in 1 .. m - k : h[k][n + k + i] = 0
                                /\ Val(h[k], M) = Val(p, M) + Val(a, k) * Val(b, n)}
<1>10. 0 \in T
  <2>1. IsLimbs(h[0], M) /\ \A i \in 1 .. m - 0 : h[0][n + 0 + i] = 0
    BY <1>1, <1>8 DEF Factors
  <2>2. Val(a, 0) = 0
    BY ValNone
  <2>3. Val(h[0], M) = Val(p, M) + Val(a, 0) * Val(b, n)
    BY <1>8, <1>9, <2>2
  <2>4. QED
    BY <1>1, <2>1, <2>3
<1>11. ASSUME NEW k \in 0 .. (m - 1), k \in T
       PROVE  k + 1 \in T
  <2> DEFINE s == h[k]
             r == h[k + 1]
  <2>1. /\ IsLimbs(s, M) /\ r = MultiplyRow(s, k + 1, a[k + 1], b, n)
        /\ Val(s, M) = Val(p, M) + Val(a, k) * Val(b, n)
        /\ \A i \in 1 .. m - k : s[n + k + i] = 0
    BY <1>8, <1>11
  <2> HIDE DEF s, r
  <2>2. /\ IsLimbs(r, M)
        /\ \A i \in 1 .. m - (k + 1) : r[n + (k + 1) + i] = s[n + (k + 1) + i]
        /\ s[n + (k + 1)] = 0 =>
             Val(r, M) = Val(s, M) + Weight[k] * (a[k + 1] * Val(b, n))
    BY <2>1, ProductRow
  <2>3. s[n + (k + 1)] = 0
    <3>1. 1 \in 1 .. m - k /\ n + k + 1 = n + (k + 1)
      BY <1>1
    <3>2. QED
      BY <2>1, <3>1
  <2>4. \A i \in 1 .. m - (k + 1) : r[n + (k + 1) + i] = 0
    <3>1. \A i \in 1 .. m - (k + 1) : i + 1 \in 1 .. m - k /\ n + k + (i + 1) = n + (k + 1) + i
      BY <1>1
    <3>2. \A i \in 1 .. m - (k + 1) : s[n + (k + 1) + i] = 0
      BY <2>1, <3>1
    <3>3. QED
      BY <2>2, <3>2
  <2>5. /\ Val(a, k + 1) = Val(a, k) + a[k + 1] * Weight[k]
        /\ Val(a, k) \in Nat /\ a[k + 1] \in Nat /\ Weight[k] \in Nat
    <3>1. k \in 0 .. (Top - 1) /\ Naturals(a, k + 1)
      BY <1>1, <1>9, Limbed DEF Naturals
    <3>2. QED
      BY <3>1, ValMore
  <2>6. Val(r, M) = Val(p, M) + Val(a, k + 1) * Val(b, n)
    <3> DEFINE v == Val(a, k)
               c == a[k + 1]
               w == Weight[k]
               x == Val(b, n)
    <3>1. v \in Nat /\ c \in Nat /\ w \in Nat /\ x \in Nat
      BY <1>9, <2>5
    <3>2. Val(r, M) = (Val(p, M) + v * x) + w * (c * x) /\ Val(a, k + 1) = v + c * w
      BY <2>1, <2>2, <2>3, <2>5
    <3> HIDE DEF v, c, w, x
    <3>3. (v + c * w) * x = v * x + w * (c * x) /\ v * x \in Nat /\ w * (c * x) \in Nat
      BY <3>1
    <3> DEFINE e == v * x
               f == w * (c * x)
    <3>4. (Val(p, M) + e) + f = Val(p, M) + (e + f)
      <4>1. e \in Nat /\ f \in Nat
        BY <3>3
      <4> HIDE DEF e, f
      <4>2. QED
        BY <1>9, <4>1
    <3>5. Val(r, M) = Val(p, M) + Val(a, k + 1) * x
      BY <3>2, <3>3, <3>4, Zenon
    <3>6. QED
      BY <3>5 DEF x
  <2>7. QED
    BY <1>1, <2>2, <2>4, <2>6 DEF r
<1>12. \A k \in 0 .. m : k \in T
  <2> HIDE DEF T
  <2>1. QED
    BY <1>1, <1>10, <1>11, InductionTo
<1>13. m \in T
  BY <1>1, <1>12
<1>14. QED
  BY <1>7, <1>13

\* The rows of a multiplication of which N limbs are kept.
IsLowProduct(g, a, b) ==
  g = [i \in 0 .. N |-> IF i = 0 THEN ZeroLimbs(N) ELSE AddRow(g[i - 1], i, a[i], b, N + 1 - i)]

LEMMA Zeros ==
  ASSUME NEW n \in 0 .. Top
  PROVE  IsLimbs(ZeroLimbs(n), n) /\ Val(ZeroLimbs(n), n) = 0
         /\ \A i \in 1 .. n : ZeroLimbs(n)[i] = 0
<1> DEFINE z == ZeroLimbs(n)
           T == {k \in 0 .. n : Val(z, k) = 0}
<1>1. z = [i \in 1 .. n |-> z[i]] /\ \A i \in 1 .. n : z[i] = 0
  BY DEF ZeroLimbs
<1> HIDE DEF z
<1>2. n \in Nat /\ AllLimbs(z, n)
  BY <1>1, LimbIs, Limbed DEF AllLimbs
<1>3. IsLimbs(z, n)
  BY <1>1, <1>2, LimbsFrom
<1>4. 0 \in T
  BY <1>2, ValNone
<1>5. ASSUME NEW k \in 0 .. (n - 1), k \in T
      PROVE  k + 1 \in T
  <2>1. k \in 0 .. (Top - 1) /\ k + 1 \in 0 .. n /\ k + 1 \in 1 .. n
    BY <1>2, Limbed
  <2>2. Naturals(z, k + 1)
    BY <1>1, <1>2 DEF Naturals
  <2>3. Val(z, k + 1) = Val(z, k) + z[k + 1] * Weight[k] /\ Weight[k] \in Nat
    BY <2>1, <2>2, ValMore
  <2>4. Val(z, k) = 0 /\ z[k + 1] = 0
    BY <1>1, <1>5, <2>1
  <2>5. QED
    BY <2>1, <2>3, <2>4
<1>6. \A k \in 0 .. n : k \in T
  <2> HIDE DEF T
  <2>1. QED
    BY <1>2, <1>4, <1>5, InductionTo
<1>7. n \in T
  BY <1>2, <1>6
<1>8. QED
  BY <1>1, <1>3, <1>7 DEF z

\* One row of it.
LEMMA LowRow ==
  ASSUME NEW a, AllLimbs(a, N), NEW b, AllLimbs(b, N),
         NEW k \in 0 .. (N - 1), NEW s, IsLimbs(s, N),
         NEW r, r = AddRow(s, k + 1, a[k + 1], b, N - k)
  PROVE  /\ IsLimbs(r, N)
         /\ \E c \in Nat : Val(r, N) + Weight[N] * c = Val(s, N) + Weight[k] * (a[k + 1] * Val(b, N))
<1> DEFINE n == N - k
           e == a[k + 1]
           rest == [i \in 1 .. k |-> b[n + i]]
<1>1. /\ n \in Nat /\ k \in Nat /\ N = k + n /\ n + k = N /\ N <= Top /\ n + k <= Top /\ k + 1 \in 1 .. N
      /\ k + n <= Top /\ N \in 0 .. Top /\ k \in 0 .. Top /\ n \in 0 .. Top
  BY Limbed
<1>2. e \in Limb /\ AllLimbs(b, n) /\ Naturals(b, n + k) /\ Naturals(rest, k)
  <2>1. (\A i \in 1 .. n : i \in 1 .. N) /\ (\A i \in 1 .. k : n + i \in 1 .. N)
    BY <1>1
  <2>2. \A i \in 1 .. N : b[i] \in Limb /\ b[i] \in Nat
    BY LimbIs DEF AllLimbs
  <2>3. \A i \in 1 .. k : rest[i] \in Nat
    BY <2>1, <2>2
  <2>4. Naturals(b, N)
    BY <2>2 DEF Naturals
  <2> HIDE DEF rest
  <2>5. AllLimbs(b, n) /\ Naturals(rest, k)
    BY <2>1, <2>2, <2>3 DEF AllLimbs, Naturals
  <2>6. e \in Limb
    BY <1>1 DEF AllLimbs
  <2>7. QED
    BY <1>1, <2>4, <2>5, <2>6
<1>3. IsPart(rest, b, n, k)
  BY DEF IsPart
<1>4. r = AddRow(s, k + 1, e, b, n)
  OBVIOUS
<1> HIDE DEF n, e, rest
<1>5. IsLimbs(r, N) /\ \E c \in Nat : Val(r, N) + Weight[N] * c = Val(s, N) + Weight[k] * (e * Val(b, n))
  BY <1>1, <1>2, <1>4, AddRowIs
<1>6. PICK c \in Nat : Val(r, N) + Weight[N] * c = Val(s, N) + Weight[k] * (e * Val(b, n))
  BY <1>5
<1>7. Val(b, n + k) = Val(b, n) + Weight[n] * Val(rest, k)
      /\ Val(b, n) \in Nat /\ Weight[n] \in Nat /\ Val(rest, k) \in Nat
  BY <1>1, <1>2, <1>3, ValConcat
<1>8. Weight[N] = Weight[k] * Weight[n] /\ Weight[k] \in Nat
  BY <1>1, WeightsMultiply, Weights
<1>9. Val(r, N) \in Nat /\ Val(s, N) \in Nat /\ e \in Nat
  <2>1. N \in Nat
    BY Limbed
  <2>2. Naturals(r, N) /\ Naturals(s, N)
    BY <1>5, <2>1, LimbsAre
  <2>3. QED
    BY <1>1, <1>2, <2>2, ValNat, LimbIs
<1> DEFINE w == Weight[k]
           v == Weight[n]
           x == Val(b, n)
           y == Val(rest, k)
<1>10. w \in Nat /\ v \in Nat /\ x \in Nat /\ y \in Nat
  BY <1>7, <1>8
<1>11. Val(r, N) + (w * v) * c = Val(s, N) + w * (e * x) /\ Val(b, N) = x + v * y /\ Weight[N] = w * v
  BY <1>1, <1>6, <1>7, <1>8
<1> HIDE DEF w, v, x, y
<1>12. /\ w * (e * (x + v * y)) = w * (e * x) + (w * v) * (e * y)
       /\ (w * v) * (c + e * y) = (w * v) * c + (w * v) * (e * y)
       /\ w * (e * x) \in Nat /\ (w * v) * c \in Nat /\ (w * v) * (e * y) \in Nat /\ c + e * y \in Nat
  <2>1. w * (e * (x + v * y)) = w * (e * x) + (w * v) * (e * y)
    BY <1>9, <1>10
  <2>2. (w * v) * (c + e * y) = (w * v) * c + (w * v) * (e * y)
    BY <1>9, <1>10
  <2>3. w * (e * x) \in Nat /\ (w * v) * c \in Nat /\ (w * v) * (e * y) \in Nat /\ c + e * y \in Nat
    BY <1>9, <1>10
  <2>4. QED
    BY <2>1, <2>2, <2>3
<1>13. Val(r, N) + (w * v) * (c + e * y) = Val(s, N) + w * (e * (x + v * y))
  <2> DEFINE f == w * (e * x)
             g == (w * v) * c
             h == (w * v) * (e * y)
  <2>1. f \in Nat /\ g \in Nat /\ h \in Nat /\ Val(r, N) + g = Val(s, N) + f
    BY <1>11, <1>12
  <2> HIDE DEF f, g, h
  <2>2. Val(r, N) + (g + h) = Val(s, N) + (f + h)
    BY <1>9, <2>1
  <2>3. QED
    BY <1>12, <2>2, Zenon DEF f, g, h
<1>14. Val(r, N) + Weight[N] * (c + e * y) = Val(s, N) + Weight[k] * (e * Val(b, N))
  BY <1>11, <1>13, Zenon DEF w
<1>15. QED
  BY <1>5, <1>12, <1>14 DEF e

LEMMA LowProductExists ==
  ASSUME NEW a, AllLimbs(a, N), NEW b, AllLimbs(b, N)
  PROVE  \E g : IsLowProduct(g, a, b)
<1> DEFINE S == {s \in Seq(Limb) : IsLimbs(s, N)}
           F == [k \in 1 .. N |-> [s \in S |-> AddRow(s, k, a[k], b, N + 1 - k)]]
           z == ZeroLimbs(N)
<1>1. N \in Nat /\ N \in 0 .. Top
  BY Limbed
<1>2. \A s : s \in S <=> IsLimbs(s, N)
  BY DEF IsLimbs
<1>3. \A k \in 1 .. N, s \in S : F[k][s] = AddRow(s, k, a[k], b, N + 1 - k)
  OBVIOUS
<1> HIDE DEF S, F, z
<1>4. PICK g : Follows(g, S, z, F, N)
  <2>1. ASSUME NEW k \in 1 .. N, NEW s \in S
        PROVE  F[k][s] \in S
    <3> DEFINE j == k - 1
               r == F[k][s]
    <3>1. j \in 0 .. (N - 1) /\ k = j + 1 /\ N + 1 - k = N - j
      BY <1>1
    <3>2. IsLimbs(s, N) /\ r = AddRow(s, j + 1, a[j + 1], b, N - j)
      BY <1>2, <1>3, <3>1
    <3> HIDE DEF j, r
    <3>3. IsLimbs(r, N)
      BY <3>1, <3>2, LowRow
    <3>4. QED
      BY <1>2, <3>3 DEF r
  <2>2. z \in S
    BY <1>1, <1>2, Zeros DEF z
  <2>3. StaysIn(S, F, N)
    BY <2>1 DEF StaysIn
  <2>4. QED
    BY <1>1, <2>2, <2>3, Recursion
<1>5. IsLowProduct(g, a, b)
  <2>1. g = [i \in 0 .. N |-> g[i]] /\ g[0] = z
    BY <1>4 DEF Follows
  <2>2. \A i \in 0 .. N : i = 0 \/ (i \in 1 .. N /\ i - 1 \in 0 .. N)
    BY <1>1
  <2>3. \A i \in 1 .. N : i - 1 \in 0 .. N => g[i] = AddRow(g[i - 1], i, a[i], b, N + 1 - i)
    BY <1>3, <1>4 DEF Follows
  <2>4. \A i \in 0 .. N : g[i] = IF i = 0 THEN z ELSE AddRow(g[i - 1], i, a[i], b, N + 1 - i)
    BY <2>1, <2>2, <2>3
  <2>5. QED
    BY <2>1, <2>4 DEF IsLowProduct, z
<1>6. QED
  BY <1>5

\* The rows make the product, modulo the weight of N limbs.
LEMMA LowProductIs ==
  ASSUME NEW a, AllLimbs(a, N), NEW b, AllLimbs(b, N), NEW h, IsLowProduct(h, a, b)
  PROVE  /\ IsLimbs(h[N], N)
         /\ \E c \in Nat : Val(h[N], N) + Weight[N] * c = Val(a, N) * Val(b, N)
<1>1. N \in Nat /\ N \in 0 .. Top
  BY Limbed
<1>2. h[0] = ZeroLimbs(N) /\ \A k \in 0 .. (N - 1) : h[k + 1] = AddRow(h[k], k + 1, a[k + 1], b, N - k)
  <2>1. 0 \in 0 .. N
    BY <1>1
  <2>2. \A k \in 0 .. (N - 1) : k + 1 \in 0 .. N /\ k + 1 # 0 /\ (k + 1) - 1 = k /\ N + 1 - (k + 1) = N - k
    BY <1>1
  <2>3. QED
    BY <2>1, <2>2, ZenonT(60) DEF IsLowProduct
<1>3. Naturals(a, N) /\ Naturals(b, N) /\ Val(b, N) \in Nat /\ Weight[N] \in Nat
  <2>1. Naturals(a, N) /\ Naturals(b, N)
    BY LimbIs DEF AllLimbs, Naturals
  <2>2. QED
    BY <1>1, <2>1, ValNat, Weights
<1> DEFINE Good(s, k) == \E c \in Nat : Val(s, N) + Weight[N] * c = Val(a, k) * Val(b, N)
           T == {k \in 0 .. N : IsLimbs(h[k], N) /\ Good(h[k], k)}
<1>4. 0 \in T
  <2>1. IsLimbs(h[0], N) /\ Val(h[0], N) = 0
    BY <1>1, <1>2, Zeros
  <2>2. Val(a, 0) = 0
    BY ValNone
  <2>3. Val(h[0], N) + Weight[N] * 0 = Val(a, 0) * Val(b, N)
    BY <1>3, <2>1, <2>2
  <2>4. QED
    BY <1>1, <2>1, <2>3
<1>5. ASSUME NEW k \in 0 .. (N - 1), k \in T
      PROVE  k + 1 \in T
  <2> DEFINE s == h[k]
             r == h[k + 1]
             e == a[k + 1]
             w == Weight[k]
             x == Val(b, N)
             y == Val(a, k)
             v == Weight[N]
  <2>1. IsLimbs(s, N) /\ r = AddRow(s, k + 1, a[k + 1], b, N - k)
    BY <1>2, <1>5
  <2>2. PICK c \in Nat : Val(s, N) + v * c = y * x
    BY <1>5
  <2> HIDE DEF s, r
  <2>3. IsLimbs(r, N) /\ \E dd \in Nat : Val(r, N) + Weight[N] * dd = Val(s, N) + Weight[k] * (a[k + 1] * Val(b, N))
    BY <2>1, LowRow, ZenonT(60)
  <2>4. PICK dd \in Nat : Val(r, N) + v * dd = Val(s, N) + w * (e * x)
    BY <2>3
  <2>5. Val(a, k + 1) = y + e * w /\ y \in Nat /\ e \in Nat /\ w \in Nat
    <3>1. k \in 0 .. (Top - 1) /\ Naturals(a, k + 1)
      BY <1>1, <1>3, Limbed DEF Naturals
    <3>2. QED
      BY <3>1, ValMore
  <2>6. Val(s, N) \in Nat /\ Val(r, N) \in Nat /\ x \in Nat /\ v \in Nat
    <3>1. Naturals(s, N) /\ Naturals(r, N)
      BY <1>1, <2>1, <2>3, LimbsAre
    <3>2. QED
      BY <1>1, <1>3, <3>1, ValNat
  <2> HIDE DEF e, w, x, y, v
  <2>7. (y + e * w) * x = y * x + w * (e * x) /\ v * (c + dd) = v * c + v * dd
    BY <2>5, <2>6
  <2> DEFINE f == v * c
             g == v * dd
             i == y * x
             j == w * (e * x)
  <2>8. /\ f \in Nat /\ g \in Nat /\ i \in Nat /\ j \in Nat
        /\ Val(s, N) + f = i /\ Val(r, N) + g = Val(s, N) + j
    BY <2>2, <2>4, <2>5, <2>6
  <2> HIDE DEF f, g, i, j
  <2>9. Val(r, N) + (f + g) = i + j
    BY <2>6, <2>8
  <2>10. Val(r, N) + v * (c + dd) = Val(a, k + 1) * x
    BY <2>5, <2>7, <2>9, Zenon DEF f, g, i, j
  <2>11. Good(r, k + 1)
    BY <2>10 DEF v, x
  <2> HIDE DEF Good
  <2>12. k + 1 \in 0 .. N
    BY <1>1
  <2>13. QED
    BY <2>3, <2>11, <2>12 DEF r
<1>6. \A k \in 0 .. N : k \in T
  <2> HIDE DEF T
  <2>1. QED
    BY <1>1, <1>4, <1>5, InductionTo
<1>7. N \in T
  BY <1>1, <1>6
<1>8. QED
  BY <1>7

(* -------- L -------- *)

\* How large L is among the weights, and its limbs.
LEMMA SizeOfL ==
  /\ L \in Nat /\ Weight[N] \in Nat /\ Weight[N - 1] \in Nat
  /\ Weight[N - 1] < L /\ 8 * L < Weight[N]
  /\ Weight[N] = Base ^ N /\ Weight[2 * N] = Base ^ (2 * N) /\ Weight[2 * N] = Weight[N] * Weight[N]
  /\ IsLimbs(LimbsOfL, N) /\ AllLimbs(LimbsOfL, N) /\ Val(LimbsOfL, N) = L
<1>1. /\ N \in 0 .. 2 * N /\ N - 1 \in 0 .. 2 * N /\ N \in 0 .. Top /\ N - 1 \in 0 .. Top /\ N \in Nat
      /\ 2 * N \in 0 .. 2 * N /\ N + N = 2 * N /\ N + N <= Top
  BY Limbed
<1>2. Weight[N] = Base ^ N /\ Weight[N - 1] = Base ^ (N - 1) /\ Weight[2 * N] = Base ^ (2 * N)
  BY <1>1, WeightIsPower
<1>3. Weight[N] \in Nat /\ Weight[N - 1] \in Nat
  BY <1>1, Weights
<1>4. L \in Nat /\ Weight[N - 1] < L /\ 8 * L < Weight[N]
  BY <1>2, ScalarLAssumption
<1>5. Weight[2 * N] = Weight[N] * Weight[N]
  BY <1>1, WeightsMultiply
<1>6. IsLimbs(LimbsOfL, N) /\ Val(LimbsOfL, N) = L % Weight[N]
  BY <1>1, <1>4, ValLimbs DEF LimbsOfL
<1>7. L % Weight[N] = L
  <2>1. Weight[N] \in Nat \ {0} /\ L \in 0 .. (Weight[N] - 1)
    BY <1>3, <1>4
  <2>2. QED
    BY <2>1, Remainders
<1>8. AllLimbs(LimbsOfL, N)
  BY <1>1, <1>6, LimbsAre
<1>9. QED
  BY <1>2, <1>3, <1>4, <1>5, <1>6, <1>7, <1>8

\* The first n limbs of n + 1.
LEMMA LowIs ==
  ASSUME NEW n \in Nat, n <= Top, NEW row, IsLimbs(row, n + 1)
  PROVE  /\ IsLimbs(Low(row, n), n) /\ Val(Low(row, n), n) = Val(row, n)
         /\ Val(row, n) \in 0 .. (Weight[n] - 1) /\ row[n + 1] \in Limb /\ Weight[n] \in Nat
<1>1. n + 1 \in Nat /\ n + 1 \in 1 .. n + 1 /\ n \in 0 .. Top /\ 1 \in Nat /\ \A i \in 1 .. n : i \in 1 .. n + 1
  BY Limbed
<1>2. IsLimbs(Low(row, n), n) /\ Agree(Low(row, n), row, n)
  BY <1>1, LimbsHead DEF Low
<1>3. AllLimbs(row, n + 1) /\ Naturals(row, n + 1)
  BY <1>1, LimbsAre
<1>4. AllLimbs(row, n) /\ Naturals(row, n) /\ row[n + 1] \in Limb
  BY <1>1, <1>3 DEF AllLimbs, Naturals
<1>5. QED
  BY <1>1, <1>2, <1>4, ValSame, ValBelow, Weights

\* x - y in two's complement, and its carry.
LEMMA SubtractIs ==
  ASSUME NEW x, AllLimbs(x, N), NEW y, AllLimbs(y, N),
         NEW row, row = Carried([i \in 1 .. N |-> x[i] + Complement(y[i])], 1)
  PROVE  /\ IsLimbs(row, N + 1)
         /\ Val(x, N) >= Val(y, N) => row[N + 1] = 1 /\ Val(row, N) = Val(x, N) - Val(y, N)
         /\ Val(x, N) < Val(y, N) => row[N + 1] = 0 /\ Val(row, N) = Val(x, N) - Val(y, N) + Weight[N]
<1> DEFINE t == [i \in 1 .. N |-> x[i] + Complement(y[i])]
           u == [i \in 1 .. N |-> Complement(y[i])]
<1>1. N \in Nat /\ N \in 0 .. Top /\ N <= Top
  BY Limbed
<1>2. IsComplement(u, y, N) /\ Len(t) = N
  BY <1>1 DEF IsComplement
<1>3. \A i \in 1 .. N : t[i] = x[i] + u[i]
  OBVIOUS
<1> HIDE DEF t, u
<1>4. AllLimbs(u, N) /\ Val(u, N) = Weight[N] - 1 - Val(y, N)
  BY <1>1, <1>2, ValComplement
<1>5. 1 \in Limb
  BY Limbed DEF Limb
<1>6. AllTerms(t, N) /\ IsLinear(t, x, 1, u, N)
  <2>1. \A i \in 1 .. N : x[i] \in Limb /\ u[i] \in Limb /\ x[i] \in Nat /\ u[i] \in Nat
    BY <1>4, LimbIs DEF AllLimbs
  <2>2. \A i \in 1 .. N : x[i] + 1 * u[i] \in Term
    BY <1>5, <2>1, Products
  <2>3. \A i \in 1 .. N : 1 * u[i] = u[i]
    BY <2>1
  <2>4. QED
    BY <1>3, <2>2, <2>3 DEF AllTerms, IsLinear
<1>7. IsLimbs(row, N + 1) /\ Val(row, N) + row[N + 1] * Weight[N] = Val(t, N) + 1
  BY <1>1, <1>2, <1>5, <1>6, CarriedIs DEF t
<1>8. Naturals(x, N) /\ Naturals(u, N)
  BY <1>4, LimbIs DEF AllLimbs, Naturals
<1>9. Val(t, N) = Val(x, N) + 1 * Val(u, N)
  BY <1>1, <1>6, <1>8, ValLinear
<1> DEFINE w == Weight[N]
           X == Val(x, N)
           Y == Val(y, N)
           z == Val(row, N)
           c == row[N + 1]
<1>10. X \in 0 .. (w - 1) /\ Y \in 0 .. (w - 1) /\ z \in 0 .. (w - 1) /\ w \in Nat
       /\ c \in Nat
  <2>1. z \in 0 .. (w - 1) /\ c \in Limb /\ w \in Nat
    BY <1>1, <1>7, LowIs
  <2>2. X \in 0 .. (w - 1) /\ Y \in 0 .. (w - 1)
    BY <1>1, ValBelow
  <2>3. QED
    BY <2>1, <2>2, LimbIs
<1>11. z + c * w = X + (w - Y)
  <2>1. Val(u, N) = w - 1 - Y /\ z + c * w = X + 1 * Val(u, N) + 1
    BY <1>4, <1>7, <1>9
  <2> DEFINE e == c * w
  <2>2. z + e = X + (w - 1 - Y) + 1
    BY <1>10, <2>1
  <2>3. e \in Nat
    BY <1>10
  <2> HIDE DEF w, X, Y, z, c, e
  <2>4. z + e = X + (w - Y)
    BY <1>10, <2>2, <2>3
  <2>5. QED
    BY <2>4 DEF e
<1> HIDE DEF w, X, Y, z, c
<1>12. c = 0 \/ c = 1
  <2>1. CASE c >= 2
    <3>1. c * w = 2 * w + (c - 2) * w /\ (c - 2) * w \in Nat /\ c * w \in Nat
      BY <1>10, <2>1
    <3>2. QED
      BY <1>10, <1>11, <3>1
  <2>2. QED
    BY <1>10, <2>1
<1>13. (X >= Y => c = 1 /\ z = X - Y) /\ (X < Y => c = 0 /\ z = X - Y + w)
  <2>1. CASE c = 0
    <3>1. c * w = 0
      BY <1>10, <2>1
    <3>2. QED
      BY <1>10, <1>11, <2>1, <3>1
  <2>2. CASE c = 1
    <3>1. c * w = w
      BY <1>10, <2>2
    <3>2. QED
      BY <1>10, <1>11, <2>2, <3>1
  <2>3. QED
    BY <1>12, <2>1, <2>2
<1>14. QED
  BY <1>7, <1>13 DEF w, X, Y, z, c

\* remove_l takes L off once where it can.
LEMMA RemoveIs ==
  ASSUME NEW x, IsLimbs(x, N)
  PROVE  /\ IsLimbs(remove_l(x), N)
         /\ Val(remove_l(x), N) = IF Val(x, N) >= L THEN Val(x, N) - L ELSE Val(x, N)
<1> DEFINE above == is_above_l(x)
           row == Carried([i \in 1 .. N |-> x[i] + Complement(LimbsOfL[i])], 1)
           t == [i \in 1 .. N |-> x[i] + (IF above = 1 THEN Complement(LimbsOfL[i]) ELSE 0)]
           new == Carried(t, above)
<1>1. N \in Nat /\ N \in 0 .. Top /\ N <= Top
  BY Limbed
<1>2. AllLimbs(x, N) /\ Naturals(x, N)
  BY <1>1, LimbsAre
<1>3. /\ IsLimbs(row, N + 1)
      /\ Val(x, N) >= L => row[N + 1] = 1 /\ Val(row, N) = Val(x, N) - L
      /\ Val(x, N) < L => row[N + 1] = 0 /\ Val(row, N) = Val(x, N) - L + Weight[N]
  BY <1>2, SizeOfL, SubtractIs
<1>4. above = row[N + 1]
  BY DEF is_above_l
<1>5. remove_l(x) = Low(new, N)
  BY DEF remove_l
<1>6. Val(x, N) \in Nat
  BY <1>1, <1>2, ValNat
<1>7. CASE Val(x, N) >= L
  <2>1. above = 1
    BY <1>3, <1>4, <1>7
  <2>2. new = row
    BY <2>1
  <2>3. IsLimbs(Low(row, N), N) /\ Val(Low(row, N), N) = Val(row, N)
    BY <1>1, <1>3, LowIs
  <2> HIDE DEF row, new
  <2>4. QED
    BY <1>3, <1>5, <1>7, <2>2, <2>3
<1>8. CASE Val(x, N) < L
  <2>1. above = 0
    BY <1>3, <1>4, <1>8
  <2>2. \A i \in 1 .. N : t[i] = x[i] + 0
    BY <2>1
  <2>3. Len(t) = N
    BY <1>1
  <2>4. new = Carried(t, 0)
    BY <2>1
  <2> HIDE DEF t, new, above, row
  <2>5. 0 \in Limb
    BY LimbIs
  <2>6. AllTerms(t, N) /\ Agree(t, x, N)
    <3>1. \A i \in 1 .. N : x[i] \in Limb /\ x[i] \in Nat
      BY <1>2, LimbIs DEF AllLimbs
    <3>2. \A i \in 1 .. N : t[i] = x[i]
      BY <2>2, <3>1
    <3>3. QED
      BY <2>5, <3>1, <3>2, Products DEF AllTerms, Agree
  <2>7. IsLimbs(new, N + 1) /\ Val(new, N) + new[N + 1] * Weight[N] = Val(t, N) + 0
    BY <1>1, <2>3, <2>4, <2>5, <2>6, CarriedIs
  <2>8. Val(t, N) = Val(x, N)
    BY <1>1, <1>2, <2>6, ValSame
  <2>9. /\ IsLimbs(Low(new, N), N) /\ Val(Low(new, N), N) = Val(new, N)
        /\ Val(new, N) \in 0 .. (Weight[N] - 1) /\ new[N + 1] \in Nat /\ Weight[N] \in Nat
    BY <1>1, <2>7, LowIs, LimbIs
  <2>10. Val(new, N) = Val(x, N)
    <3> DEFINE c == new[N + 1]
               w == Weight[N]
               z == Val(new, N)
    <3>1. /\ c \in Nat /\ w \in Nat /\ z \in 0 .. (w - 1) /\ z + c * w = Val(x, N)
          /\ Val(x, N) < w
      BY <1>6, <1>8, <2>7, <2>8, <2>9, SizeOfL
    <3> HIDE DEF c, w, z
    <3>2. c >= 1 => c * w = w + (c - 1) * w /\ (c - 1) * w \in Nat
      BY <3>1
    <3>3. c = 0 => c * w = 0
      BY <3>1
    <3>4. c = 0
      BY <1>6, <3>1, <3>2
    <3>5. QED
      BY <1>6, <3>1, <3>3, <3>4 DEF z
  <2>11. QED
    BY <1>5, <1>6, <1>8, <2>9, <2>10, SizeOfL
<1>9. QED
  BY <1>6, <1>7, <1>8, SizeOfL

\* R of the Barrett reduction fits in its N + 1 limbs.
LEMMA BarrettRIs ==
  /\ IsLimbs(BarrettR, N + 1) /\ Val(BarrettR, N + 1) = Weight[2 * N] \div L
  /\ Weight[2 * N] \in Nat \ {0} /\ L \in Nat \ {0} /\ Weight[2 * N] \div L \in Nat
<1> DEFINE W2 == Weight[2 * N]
           R == W2 \div L
           v == Weight[N + 1]
           w == Weight[N - 1]
<1>1. /\ N + 1 \in 0 .. 2 * N /\ N + 1 \in 0 .. Top /\ N - 1 \in Nat /\ N + 1 \in Nat /\ 2 * N \in 0 .. Top
      /\ (N - 1) + (N + 1) = 2 * N /\ (N - 1) + (N + 1) <= Top /\ N - 1 \in 0 .. Top
  BY Limbed
<1>2. W2 \in Nat \ {0} /\ v \in Nat /\ w \in Nat /\ v >= 1
  BY <1>1, Weights
<1>3. W2 = w * v
  BY <1>1, WeightsMultiply
<1>4. L \in Nat \ {0} /\ w < L /\ BarrettR = Limbs(N + 1, R)
  BY <1>2, SizeOfL DEF BarrettR
<1> HIDE DEF v, w, W2
<1>5. R \in Nat /\ W2 = L * R + (W2 % L) /\ W2 % L \in Nat
  BY <1>2, <1>4
<1>6. IsLimbs(BarrettR, N + 1) /\ Val(BarrettR, N + 1) = R % v
  BY <1>1, <1>4, <1>5, ValLimbs DEF v
<1> HIDE DEF R
<1>7. R < v
  <2>1. CASE R >= v
    <3>1. L * R = w * v + ((L - w) * v + L * (R - v)) /\ L * (R - v) \in Nat
      BY <1>2, <1>4, <1>5, <2>1
    <3>2. (L - w) * v = v + (L - w - 1) * v /\ (L - w - 1) * v \in Nat
      BY <1>2, <1>4
    <3> DEFINE a == L * R
               b == w * v
               c == (L - w) * v
               dd == L * (R - v)
               e == (L - w - 1) * v
    <3>3. /\ a = b + (c + dd) /\ dd \in Nat /\ c = v + e /\ e \in Nat /\ b \in Nat
          /\ b = a + (W2 % L)
      BY <1>2, <1>3, <1>5, <3>1, <3>2
    <3> HIDE DEF a, b, c, dd, e
    <3>4. QED
      BY <1>2, <1>5, <3>3
  <2>2. QED
    BY <1>2, <1>5, <2>1
<1>8. R % v = R
  <2>1. v \in Nat \ {0} /\ R \in 0 .. (v - 1)
    BY <1>2, <1>5, <1>7
  <2>2. QED
    BY <2>1, Remainders
<1>9. QED
  BY <1>2, <1>4, <1>5, <1>6, <1>8 DEF R, W2

\* The top of a product is its quotient: q is it but for what is above its limbs.
LEMMA TopOfProduct ==
  ASSUME NEW y, IsLimbs(y, 2 * N + (N + 1)), NEW a, IsPart(a, y, 2 * N, N)
  PROVE  /\ AllLimbs(a, N)
         /\ \E e \in 0 .. (Weight[2 * N] - 1), top \in Nat :
              Val(y, 3 * N + 1) = Weight[2 * N] * (Val(a, N) + Weight[N] * top) + e
<1> DEFINE n == 2 * N
           k == N + 1
           u == [i \in 1 .. k |-> y[n + i]]
           e == Val(y, n)
           top == u[N + 1]
<1>1. n \in Nat /\ k \in Nat /\ n + k <= Top /\ n + k = 3 * N + 1 /\ n + k \in Nat /\ N \in 0 .. (Top - 1)
      /\ n \in 0 .. Top /\ N \in Nat /\ N \in 0 .. Top /\ k = N + 1
  BY Limbed
<1>2. AllLimbs(y, n + k) /\ Naturals(y, n + k)
  BY <1>1, LimbsAre
<1>3. IsPart(u, y, n, k) /\ \A i \in 1 .. k : u[i] = y[n + i]
  BY DEF IsPart
<1> HIDE DEF u
<1>4. Val(y, n + k) = Val(y, n) + Weight[n] * Val(u, k) /\ Val(y, n) \in Nat /\ Weight[n] \in Nat
      /\ Val(u, k) \in Nat
  <2>1. n \in Nat /\ k \in Nat /\ n + k <= Top /\ Naturals(y, n + k) /\ IsPart(u, y, n, k)
    BY <1>1, <1>2, <1>3
  <2> HIDE DEF n, k
  <2>2. QED
    BY <2>1, ValConcat
<1>5. \A i \in 1 .. k : u[i] \in Limb
  <2>1. \A i \in 1 .. k : n + i \in 1 .. n + k
    BY <1>1
  <2>2. QED
    BY <1>2, <1>3, <2>1 DEF AllLimbs
<1>6. AllLimbs(a, N) /\ Agree(a, u, N)
  <2>1. \A i \in 1 .. N : i \in 1 .. k
    BY <1>1
  <2>2. \A i \in 1 .. N : a[i] = u[i]
    BY <1>3, <2>1 DEF IsPart
  <2>3. QED
    BY <1>5, <2>1, <2>2 DEF AllLimbs, Agree
<1>7. Naturals(u, N + 1) /\ Naturals(u, N)
  <2>1. \A i \in 1 .. N : i \in 1 .. N + 1
    BY <1>1
  <2>2. QED
    BY <1>1, <1>5, <2>1, LimbIs DEF Naturals
<1>8. Val(u, N + 1) = Val(u, N) + u[N + 1] * Weight[N] /\ top \in Nat /\ Val(u, N) \in Nat
      /\ Weight[N] \in Nat
  BY <1>1, <1>7, ValMore
<1>9. Val(a, N) = Val(u, N)
  BY <1>1, <1>6, <1>7, ValSame
<1>10. e \in 0 .. (Weight[n] - 1)
  <2>1. AllLimbs(y, n)
    BY <1>1, <1>2 DEF AllLimbs
  <2>2. QED
    BY <1>1, <2>1, ValBelow
<1>11. Val(u, k) = Val(a, N) + Weight[N] * top
  BY <1>1, <1>8, <1>9
<1>12. Val(y, 3 * N + 1) = Weight[n] * (Val(a, N) + Weight[N] * top) + e
  <2> DEFINE f == Weight[n] * Val(u, k)
  <2>1. f \in Nat /\ Val(y, 3 * N + 1) = e + f
    BY <1>1, <1>4
  <2> HIDE DEF f, e
  <2>2. Val(y, 3 * N + 1) = f + e
    BY <1>4, <2>1 DEF e
  <2>3. QED
    BY <1>11, <2>2 DEF f
<1>13. QED
  BY <1>6, <1>8, <1>10, <1>12

\* x without as many L as the top of its product with R says is below 2 L.
LEMMA BarrettQuotient ==
  ASSUME NEW X \in 0 .. (Weight[2 * N] - 1), NEW y, IsLimbs(y, 2 * N + (N + 1)),
         Val(y, 3 * N + 1) = (Weight[2 * N] \div L) * X,
         NEW a, IsPart(a, y, 2 * N, N)
  PROVE  /\ AllLimbs(a, N) /\ Val(a, N) \in Nat
         /\ \E top \in Nat : X - (Val(a, N) + Weight[N] * top) * L \in 0 .. (2 * L - 1)
<1>1. AllLimbs(a, N) /\ \E e \in 0 .. (Weight[2 * N] - 1), top \in Nat :
              Val(y, 3 * N + 1) = Weight[2 * N] * (Val(a, N) + Weight[N] * top) + e
  BY TopOfProduct
<1>2. PICK e \in 0 .. (Weight[2 * N] - 1), top \in Nat :
              Val(y, 3 * N + 1) = Weight[2 * N] * (Val(a, N) + Weight[N] * top) + e
  BY <1>1
<1>3. Val(a, N) \in Nat /\ Weight[N] \in Nat
  <2>1. N \in 0 .. Top
    BY Limbed
  <2>2. Val(a, N) \in 0 .. (Weight[N] - 1) /\ Weight[N] \in Nat
    BY <1>1, <2>1, ValBelow, Weights
  <2>3. QED
    BY <2>2
<1> DEFINE q == Val(a, N) + Weight[N] * top
           W2 == Weight[2 * N]
<1>4. q \in Nat
  BY <1>3
<1>5. W2 \in Nat \ {0} /\ L \in Nat \ {0} /\ X \in 0 .. (W2 - 1) /\ e \in 0 .. (W2 - 1)
      /\ (W2 \div L) * X = W2 * q + e
  BY <1>2, BarrettRIs
<1> HIDE DEF q, W2
<1>6. X - q * L \in 0 .. (2 * L - 1)
  BY <1>4, <1>5, Barrett
<1>7. QED
  BY <1>1, <1>3, <1>6 DEF q

\* mod_l is the remainder by L.
LEMMA ModIs ==
  ASSUME NEW x, IsLimbs(x, 2 * N)
  PROVE  IsLimbs(mod_l(x), N) /\ Val(mod_l(x), N) = Val(x, 2 * N) % L
<1> DEFINE pr == CHOOSE g : IsProductOf(g, ZeroLimbs(3 * N + 1), BarrettR, x, N + 1, 2 * N)
           xr == pr[N + 1]
           IsFloor(g) == g = [i \in 0 .. N |-> IF i = 0 THEN ZeroLimbs(N)
                                ELSE AddRow(g[i - 1], i, xr[2 * N + i], LimbsOfL, N + 1 - i)]
           fl == CHOOSE g : IsFloor(g)
           F == fl[N]
           row == Carried([i \in 1 .. N |-> x[i] + Complement(F[i])], 1)
           low == Low(row, N)
           a == [i \in 1 .. N |-> xr[2 * N + i]]
<1>1. mod_l(x) = remove_l(low)
  BY DEF mod_l, IsProductOf
<1>2. /\ N \in Nat /\ N + 1 \in Nat /\ 2 * N \in Nat /\ 3 * N + 1 \in 0 .. Top /\ 3 * N + 1 \in Nat
      /\ (N + 1) + 2 * N = 3 * N + 1 /\ 2 * N + (N + 1) = 3 * N + 1 /\ N \in 0 .. Top /\ N <= Top
      /\ 2 * N \in 0 .. Top /\ N + N = 2 * N /\ N + N <= Top /\ N + 1 \in 0 .. Top
  BY Limbed
<1>3. AllLimbs(x, 2 * N) /\ Naturals(x, N + N) /\ AllLimbs(x, N) /\ Naturals(x, N)
  <2>1. AllLimbs(x, 2 * N) /\ Naturals(x, 2 * N)
    BY <1>2, LimbsAre
  <2>2. QED
    BY <1>2, <2>1 DEF AllLimbs, Naturals
<1> DEFINE X == Val(x, 2 * N)
<1>4. X \in 0 .. (Weight[2 * N] - 1)
  BY <1>2, <1>3, ValBelow
<1>5. IsLimbs(xr, 3 * N + 1) /\ Val(xr, 3 * N + 1) = (Weight[2 * N] \div L) * X
  <2> DEFINE z == ZeroLimbs(3 * N + 1)
             M == 3 * N + 1
  <2>1. IsLimbs(z, M) /\ Val(z, M) = 0 /\ \A i \in 1 .. M : z[i] = 0
    BY <1>2, Zeros
  <2>2. AllLimbs(BarrettR, N + 1)
    BY <1>2, BarrettRIs, LimbsAre
  <2>3. Factors(z, BarrettR, x, N + 1, 2 * N)
    <3>1. \A i \in 1 .. N + 1 : 2 * N + i \in 1 .. M
      BY <1>2
    <3> HIDE DEF z
    <3>2. QED
      BY <1>2, <1>3, <2>1, <2>2, <3>1 DEF Factors
  <2>4. xr = (CHOOSE g : IsProductOf(g, z, BarrettR, x, N + 1, 2 * N))[N + 1]
    OBVIOUS
  <2>5. M = (N + 1) + 2 * N
    BY <1>2
  <2> HIDE DEF z, M, xr
  <2>6. IsLimbs(xr, M) /\ Val(xr, M) = Val(z, M) + Val(BarrettR, N + 1) * Val(x, 2 * N)
    BY <2>3, <2>4, <2>5, ProductIs
  <2>7. (Weight[2 * N] \div L) * X \in Nat
    BY <1>4, BarrettRIs
  <2>8. Val(xr, M) = (Weight[2 * N] \div L) * X
    BY <2>1, <2>6, <2>7, BarrettRIs
  <2>9. QED
    BY <2>6, <2>8 DEF M
<1> HIDE DEF pr, xr
<1>6. IsPart(a, xr, 2 * N, N)
  BY DEF IsPart
<1>7. \A i \in 1 .. N : a[i] = xr[2 * N + i]
  OBVIOUS
<1> HIDE DEF a
<1>8. /\ AllLimbs(a, N) /\ Val(a, N) \in Nat
      /\ \E top \in Nat : X - (Val(a, N) + Weight[N] * top) * L \in 0 .. (2 * L - 1)
  BY <1>2, <1>4, <1>5, <1>6, BarrettQuotient
<1>9. \A g : IsLowProduct(g, a, LimbsOfL) <=> IsFloor(g)
  <2>1. \A i \in 0 .. N : i = 0 \/ i \in 1 .. N
    BY <1>2
  <2>2. ASSUME NEW g
        PROVE  [i \in 0 .. N |-> IF i = 0 THEN ZeroLimbs(N)
                                 ELSE AddRow(g[i - 1], i, xr[2 * N + i], LimbsOfL, N + 1 - i)]
               = [i \in 0 .. N |-> IF i = 0 THEN ZeroLimbs(N)
                                   ELSE AddRow(g[i - 1], i, a[i], LimbsOfL, N + 1 - i)]
    BY <1>7, <2>1
  <2>3. QED
    BY <2>2 DEF IsLowProduct
<1>10. IsLowProduct(fl, a, LimbsOfL)
  <2>1. \E g : IsLowProduct(g, a, LimbsOfL)
    BY <1>8, SizeOfL, LowProductExists
  <2> HIDE DEF IsFloor
  <2>2. \E g : IsFloor(g)
    BY <1>9, <2>1
  <2>3. IsFloor(fl)
    BY <2>2, Zenon
  <2> HIDE DEF fl
  <2>4. QED
    BY <1>9, <2>3
<1> HIDE DEF fl, IsFloor
<1>11. IsLimbs(F, N) /\ \E c \in Nat : Val(F, N) + Weight[N] * c = Val(a, N) * Val(LimbsOfL, N)
  BY <1>8, <1>10, SizeOfL, LowProductIs
<1> HIDE DEF F
<1>12. PICK top \in Nat : X - (Val(a, N) + Weight[N] * top) * L \in 0 .. (2 * L - 1)
  BY <1>8
<1>13. PICK c \in Nat : Val(F, N) + Weight[N] * c = Val(a, N) * L
  BY <1>11, SizeOfL
<1> DEFINE w == Weight[N]
           Xl == Val(x, N)
           f == Val(F, N)
           AA == Val(a, N)
           y == Val(low, N)
           q == AA + w * top
<1>14. PICK Xh \in Nat : X = Xl + w * Xh
  <2> DEFINE u == [i \in 1 .. N |-> x[N + i]]
  <2>1. IsPart(u, x, N, N)
    BY DEF IsPart
  <2> HIDE DEF u
  <2>2. Val(x, N + N) = Val(x, N) + Weight[N] * Val(u, N) /\ Val(u, N) \in Nat
    BY <1>2, <1>3, <2>1, ValConcat
  <2>3. QED
    BY <1>2, <2>2
<1>15. Xl \in Nat /\ f \in Nat /\ AA \in Nat /\ w \in Nat /\ w >= 1 /\ 2 * L < w /\ L \in Nat /\ L >= 1 /\ q \in Nat
  <2>1. Naturals(F, N)
    BY <1>2, <1>11, LimbsAre
  <2>2. Xl \in Nat /\ f \in Nat /\ w \in Nat /\ w >= 1
    BY <1>2, <1>3, <2>1, ValNat, Weights
  <2>3. L \in Nat /\ L >= 1 /\ 2 * L < w
    BY SizeOfL, BarrettRIs
  <2>4. QED
    BY <1>8, <2>2, <2>3
<1>16. /\ IsLimbs(low, N) /\ y \in 0 .. (w - 1)
       /\ \E b \in {0, 1} : y = (Xl - f) + w * b
  <2>1. AllLimbs(F, N)
    BY <1>2, <1>11, LimbsAre
  <2>2. /\ IsLimbs(row, N + 1)
        /\ Xl >= f => Val(row, N) = Xl - f
        /\ Xl < f => Val(row, N) = Xl - f + w
    <3> DEFINE r == row
    <3>1. r = Carried([i \in 1 .. N |-> x[i] + Complement(F[i])], 1)
      OBVIOUS
    <3> HIDE DEF r
    <3>2. /\ IsLimbs(r, N + 1)
          /\ Val(x, N) >= Val(F, N) => r[N + 1] = 1 /\ Val(r, N) = Val(x, N) - Val(F, N)
          /\ Val(x, N) < Val(F, N) => r[N + 1] = 0 /\ Val(r, N) = Val(x, N) - Val(F, N) + Weight[N]
      BY <1>3, <2>1, <3>1, SubtractIs
    <3>3. QED
      BY <3>2 DEF r
  <2> HIDE DEF row
  <2>3. IsLimbs(low, N) /\ y = Val(row, N) /\ Val(row, N) \in 0 .. (w - 1)
    BY <1>2, <2>2, LowIs
  <2> HIDE DEF w, Xl, f, y
  <2>4. w * 0 = 0 /\ w * 1 = w
    BY <1>15
  <2>5. y = (Xl - f) + w * 0 \/ y = (Xl - f) + w * 1
    BY <1>15, <2>2, <2>3, <2>4
  <2>6. QED
    BY <2>3, <2>5
<1>17. PICK b \in {0, 1} : y = (Xl - f) + w * b
  BY <1>16
<1>18. X - q * L \in 0 .. (2 * L - 1) /\ f + w * c = AA * L
  BY <1>12, <1>13
<1> DEFINE k == Xh - c - top * L - b
<1> HIDE DEF w, Xl, f, AA, y
<1>19. X - q * L = y + w * k /\ k \in Int
  <2>1. q * L = AA * L + w * (top * L)
    BY <1>15
  <2>2. w * k = w * Xh - w * c - w * (top * L) - w * b /\ k \in Int
    BY <1>15
  <2> DEFINE g1 == w * Xh
             g2 == w * c
             g3 == w * (top * L)
             g4 == w * b
             g5 == AA * L
             g6 == q * L
             g7 == w * k
  <2>3. /\ g1 \in Int /\ g2 \in Int /\ g3 \in Int /\ g4 \in Int /\ g6 = g5 + g3 /\ g7 = g1 - g2 - g3 - g4
        /\ X = Xl + g1 /\ f + g2 = g5 /\ y = (Xl - f) + g4 /\ g5 \in Int /\ X \in Int
    <3>1. X \in Int /\ g1 \in Int /\ g2 \in Int /\ g3 \in Int /\ g4 \in Int /\ g5 \in Int
      BY <1>4, <1>14, <1>15
    <3>2. QED
      BY <1>14, <1>17, <1>18, <2>1, <2>2, <3>1, Zenon
  <2> HIDE DEF g1, g2, g3, g4, g5, g6, g7, X
  <2>4. X - g6 = y + g7
    BY <1>15, <2>3
  <2>5. QED
    BY <2>2, <2>4 DEF g6, g7
<1> HIDE DEF k
<1> DEFINE dd == X - q * L
<1>20. dd = y
  <2>1. dd \in 0 .. (w - 1) /\ y \in 0 .. (w - 1) /\ w \in Nat \ {0} /\ k \in Int /\ dd = y + w * k
    <3>1. dd \in 0 .. (2 * L - 1) /\ dd = y + w * k
      BY <1>18, <1>19
    <3>2. y \in 0 .. (w - 1) /\ k \in Int
      BY <1>16, <1>19
    <3> HIDE DEF dd
    <3>3. QED
      BY <1>15, <3>1, <3>2
  <2> HIDE DEF dd
  <2>2. QED
    BY <2>1, SameBelow
<1>21. X = L * q + y /\ y \in 0 .. (2 * L - 1)
  <2>1. dd \in 0 .. (2 * L - 1)
    BY <1>18
  <2> DEFINE g == L * q
  <2>2. L * q = q * L /\ g \in Nat
    BY <1>15
  <2>3. dd = X - g
    BY <2>2
  <2> HIDE DEF dd, g, X, q
  <2>4. X = g + y /\ y \in 0 .. (2 * L - 1)
    BY <1>4, <1>20, <2>1, <2>2, <2>3 DEF X
  <2>5. QED
    BY <2>4 DEF g
<1> HIDE DEF q, X, low
<1>22. IsLimbs(mod_l(x), N) /\ Val(mod_l(x), N) = IF y >= L THEN y - L ELSE y
  BY <1>1, <1>16, RemoveIs DEF y
<1>23. X % L = IF y >= L THEN y - L ELSE y
  <2>1. L \in Nat \ {0} /\ q \in Int /\ q + 1 \in Int
    BY <1>15
  <2>2. CASE y >= L
    <3>1. y - L \in 0 .. (L - 1)
      BY <1>15, <1>21, <2>2
    <3>2. (L * (q + 1) + (y - L)) % L = y - L
      BY <2>1, <3>1, Division
    <3>3. L * (q + 1) + (y - L) = L * q + y
      <4>1. L * (q + 1) = L * q + L /\ L * q \in Int
        BY <2>1
      <4>2. QED
        BY <1>15, <1>21, <4>1
    <3>4. QED
      BY <1>21, <2>2, <3>2, <3>3
  <2>3. CASE ~(y >= L)
    <3>1. y \in 0 .. (L - 1)
      BY <1>15, <1>21, <2>3
    <3>2. (L * q + y) % L = y
      BY <2>1, <3>1, Division
    <3>3. QED
      BY <1>21, <2>3, <3>2
  <2>4. QED
    BY <2>2, <2>3
<1>24. QED
  BY <1>22, <1>23 DEF X

\* crypto_eddsa_reduce is the remainder by L of every number of 2 N limbs.
LEMMA ReduceIs ==
  ASSUME NEW x \in 0 .. (Base ^ (2 * N) - 1)
  PROVE  crypto_eddsa_reduce(x) = x % L
<1> DEFINE t == Limbs(2 * N, x)
<1>1. 2 * N \in 0 .. 2 * N /\ N \in 0 .. 2 * N /\ x \in Nat
      /\ Weight[2 * N] \in Nat \ {0} /\ x \in 0 .. (Weight[2 * N] - 1)
  BY Limbed, SizeOfL, BarrettRIs
<1>2. IsLimbs(t, 2 * N) /\ Val(t, 2 * N) = x % Weight[2 * N]
  BY <1>1, ValLimbs
<1>3. x % Weight[2 * N] = x
  BY <1>1, Remainders
<1>4. crypto_eddsa_reduce(x) = Number(mod_l(t))
  BY DEF crypto_eddsa_reduce
<1> HIDE DEF t
<1>5. IsLimbs(mod_l(t), N) /\ Val(mod_l(t), N) = x % L
  BY <1>2, <1>3, ModIs
<1>6. Number(mod_l(t)) = Val(mod_l(t), N)
  BY <1>1, <1>5, NumberIs
<1>7. QED
  BY <1>4, <1>5, <1>6

\* The product of two numbers of N limbs added to one of 2 N limbs whose upper half is zero.
MayMultiply(p, a, b) == Factors(p, a, b, N, N)

LEMMA MultiplyIs ==
  ASSUME NEW p, NEW a, NEW b, MayMultiply(p, a, b)
  PROVE  /\ IsLimbs(multiply(p, a, b), 2 * N)
         /\ Val(multiply(p, a, b), 2 * N) = Val(p, 2 * N) + Val(a, N) * Val(b, N)
<1> DEFINE t == multiply(p, a, b)
           M == 2 * N
<1>1. M = N + N /\ M = 2 * N
  BY Limbed
<1>2. t = (CHOOSE g : IsProductOf(g, p, a, b, N, N))[N]
  BY DEF multiply, IsProductOf
<1>3. Factors(p, a, b, N, N)
  BY DEF MayMultiply
<1> HIDE DEF M, t
<1>4. IsLimbs(t, M) /\ Val(t, M) = Val(p, M) + Val(a, N) * Val(b, N)
  BY <1>1, <1>2, <1>3, ProductIs
<1>5. QED
  BY <1>1, <1>4 DEF t

\* N limbs with as many zeros behind them.
LEMMA Padded ==
  ASSUME NEW c, IsLimbs(c, N), NEW p, p = c \o ZeroLimbs(N), NEW a, AllLimbs(a, N), NEW b, AllLimbs(b, N)
  PROVE  MayMultiply(p, a, b) /\ Val(p, 2 * N) = Val(c, N)
<1> DEFINE z == ZeroLimbs(N)
           M == 2 * N
<1>1. N \in Nat /\ N \in 0 .. Top /\ M = N + N /\ N + N <= Top /\ N + N \in Nat
  BY Limbed
<1>2. IsLimbs(z, N) /\ Val(z, N) = 0 /\ \A i \in 1 .. N : z[i] = 0
  BY <1>1, Zeros
<1>3. p = c \o z
  OBVIOUS
<1> HIDE DEF z, M
<1>4. IsLimbs(p, N + N) /\ Agree(c, p, N) /\ IsPart(z, p, N, N)
  BY <1>1, <1>2, <1>3, LimbsConcat
<1>5. MayMultiply(p, a, b)
  BY <1>1, <1>2, <1>4 DEF Factors, IsPart, MayMultiply
<1>6. Naturals(p, N + N) /\ Naturals(c, N)
  BY <1>1, <1>4, LimbsAre
<1>7. Val(p, N + N) = Val(p, N) + Weight[N] * Val(z, N) /\ Val(p, N) \in Nat /\ Weight[N] \in Nat
  BY <1>1, <1>4, <1>6, ValConcat
<1>8. Agree(p, c, N)
  BY <1>4 DEF Agree
<1>9. Val(c, N) = Val(p, N)
  BY <1>1, <1>6, <1>8, ValSame
<1>10. QED
  BY <1>1, <1>2, <1>5, <1>7, <1>9 DEF M

\* A scalar is its limbs.
LEMMA ScalarIs ==
  ASSUME NEW x \in Scalars
  PROVE  /\ IsLimbs(Limbs(N, x), N) /\ AllLimbs(Limbs(N, x), N) /\ Val(Limbs(N, x), N) = x
         /\ x \in Nat /\ x < Weight[N]
<1>1. N \in Nat /\ N \in 0 .. 2 * N /\ N \in 0 .. Top
  BY Limbed
<1>2. Weight[N] \in Nat \ {0} /\ x \in 0 .. (Weight[N] - 1)
  BY <1>1, SizeOfL, Weights DEF Scalars
<1>3. IsLimbs(Limbs(N, x), N) /\ Val(Limbs(N, x), N) = x % Weight[N]
  BY <1>1, <1>2, ValLimbs
<1>4. x % Weight[N] = x
  BY <1>2, Remainders
<1>5. QED
  BY <1>1, <1>2, <1>3, <1>4, LimbsAre

\* crypto_eddsa_mul_add is a * b + c modulo L.
LEMMA MulAddIs ==
  ASSUME NEW a \in Scalars, NEW b \in Scalars, NEW c \in Scalars
  PROVE  crypto_eddsa_mul_add(a, b, c) = (a * b + c) % L
<1> DEFINE la == Limbs(N, a)
           lb == Limbs(N, b)
           lc == Limbs(N, c)
           p == lc \o ZeroLimbs(N)
           t == multiply(p, la, lb)
<1>1. /\ IsLimbs(lc, N) /\ AllLimbs(la, N) /\ AllLimbs(lb, N)
      /\ Val(la, N) = a /\ Val(lb, N) = b /\ Val(lc, N) = c
  BY ScalarIs
<1>2. crypto_eddsa_mul_add(a, b, c) = Number(mod_l(t))
  BY DEF crypto_eddsa_mul_add
<1> HIDE DEF la, lb, lc
<1>3. p = lc \o ZeroLimbs(N)
  OBVIOUS
<1> HIDE DEF p
<1>4. MayMultiply(p, la, lb) /\ Val(p, 2 * N) = c
  BY <1>1, <1>3, Padded
<1>5. IsLimbs(t, 2 * N) /\ Val(t, 2 * N) = c + a * b
  BY <1>1, <1>4, MultiplyIs
<1> HIDE DEF t
<1>6. IsLimbs(mod_l(t), N) /\ Val(mod_l(t), N) = (c + a * b) % L
  BY <1>5, ModIs
<1>7. Number(mod_l(t)) = Val(mod_l(t), N)
  <2>1. N \in 0 .. 2 * N
    BY Limbed
  <2>2. QED
    BY <1>6, <2>1, NumberIs
<1>8. c + a * b = a * b + c
  BY ScalarIs
<1>9. QED
  BY <1>2, <1>6, <1>7, <1>8

(* -------- Montgomery's reduction -------- *)

\* The halves of 2 N limbs that a carry follows.
LEMMA Halves ==
  ASSUME NEW row, IsLimbs(row, 2 * N + 1), NEW high, high = SubSeq(row, N + 1, 2 * N)
  PROVE  /\ IsLimbs(high, N)
         /\ Val(row, 2 * N) = Val(row, N) + Weight[N] * Val(high, N)
         /\ Val(row, N) \in 0 .. (Weight[N] - 1) /\ Val(row, N) \in Nat /\ Val(high, N) \in Nat
<1> DEFINE a == N
           b == N
<1>1. /\ a \in Nat /\ b \in Nat /\ a + b <= Top /\ a + b = 2 * N /\ a + b + 1 = 2 * N + 1 /\ 1 \in Nat
      /\ N \in 0 .. Top /\ a \in 0 .. Top /\ a = N /\ b = N /\ 2 * N + 1 \in Nat
  BY Limbed
<1>2. high = SubSeq(row, a + 1, a + b)
  BY <1>1
<1>3. AllLimbs(row, 2 * N + 1) /\ Naturals(row, 2 * N + 1)
  BY <1>1, LimbsAre
<1> HIDE DEF a, b
<1>4. IsLimbs(row, a + b + 1)
  BY <1>1
<1>5. IsLimbs(high, b) /\ IsPart(high, row, a, b)
  BY <1>1, <1>2, <1>4, LimbsPart
<1>6. Naturals(row, a + b)
  BY <1>1, <1>3 DEF Naturals
<1>7. Val(row, a + b) = Val(row, a) + Weight[a] * Val(high, b) /\ Val(row, a) \in Nat /\ Val(high, b) \in Nat
  BY <1>1, <1>5, <1>6, ValConcat
<1>8. Val(row, a) \in 0 .. (Weight[a] - 1)
  <2>1. AllLimbs(row, a)
    BY <1>1, <1>3 DEF AllLimbs
  <2>2. QED
    BY <1>1, <2>1, ValBelow
<1>9. QED
  BY <1>1, <1>5, <1>7, <1>8

\* The sum of two numbers of 2 N limbs that is a multiple of the weight of N: its high half.
LEMMA HighHalf ==
  ASSUME NEW t, IsLimbs(t, 2 * N), NEW x, IsLimbs(x, 2 * N), NEW m \in 0 .. (2 * L - 1),
         Weight[N] * m = Val(t, 2 * N) + Val(x, 2 * N),
         NEW row, row = Carried([i \in 1 .. 2 * N |-> t[i] + x[i]], 0)
  PROVE  IsLimbs(SubSeq(row, N + 1, 2 * N), N) /\ Val(SubSeq(row, N + 1, 2 * N), N) = m
<1> DEFINE u == [i \in 1 .. 2 * N |-> t[i] + x[i]]
           M == 2 * N
           high == SubSeq(row, N + 1, 2 * N)
           w == Weight[N]
           v == Weight[M]
           c == row[M + 1]
<1>1. /\ N \in Nat /\ M \in Nat /\ M = N + N /\ M \in 0 .. Top /\ M <= Top /\ N \in 0 .. Top /\ N + N <= Top
      /\ M = 2 * N /\ M + 1 = N + N + 1 /\ 1 \in Nat /\ M + 1 \in Nat
  BY Limbed
<1>2. Len(u) = M /\ \A i \in 1 .. M : u[i] = t[i] + x[i]
  BY <1>1
<1>3. row = Carried(u, 0)
  OBVIOUS
<1> HIDE DEF u, M
<1>4. /\ AllLimbs(t, M) /\ Naturals(t, M) /\ AllLimbs(x, M) /\ Naturals(x, M)
      /\ Val(t, M) \in Nat /\ Val(x, M) \in Nat
  <2>1. IsLimbs(t, M) /\ IsLimbs(x, M)
    BY <1>1
  <2>2. AllLimbs(t, M) /\ Naturals(t, M) /\ AllLimbs(x, M) /\ Naturals(x, M)
    BY <1>1, <2>1, LimbsAre
  <2>3. QED
    BY <1>1, <2>2, ValNat
<1>5. 1 \in Limb /\ 0 \in Limb
  BY Limbed DEF Limb
<1>6. AllTerms(u, M) /\ IsLinear(u, t, 1, x, M)
  <2>1. \A i \in 1 .. M : t[i] \in Limb /\ x[i] \in Limb /\ t[i] \in Nat /\ x[i] \in Nat
    BY <1>4, LimbIs DEF AllLimbs
  <2>2. \A i \in 1 .. M : t[i] + 1 * x[i] \in Term
    BY <1>5, <2>1, Products
  <2>3. \A i \in 1 .. M : 1 * x[i] = x[i]
    BY <2>1
  <2>4. QED
    BY <1>2, <2>2, <2>3 DEF AllTerms, IsLinear
<1> HIDE DEF w, v, c
<1>7. IsLimbs(row, M + 1) /\ Val(row, M) + c * v = Val(u, M) + 0
  BY <1>1, <1>2, <1>3, <1>5, <1>6, CarriedIs DEF c, v
<1>8. Val(u, M) = Val(t, M) + 1 * Val(x, M)
  BY <1>1, <1>4, <1>6, ValLinear
<1>9. Val(row, M) \in Nat /\ c \in Nat /\ v \in Nat /\ v = w * w /\ w \in Nat /\ 2 * L < w /\ L \in Nat
  <2>1. Val(row, M) \in 0 .. (v - 1) /\ c \in Limb /\ v \in Nat
    BY <1>1, <1>7, LowIs DEF c, v
  <2>2. v = w * w /\ w \in Nat /\ 8 * L < w /\ L \in Nat
    BY <1>1, SizeOfL DEF w, v
  <2>3. c \in Nat
    BY <2>1, LimbIs
  <2>4. Val(row, M) \in Nat
    BY <2>1
  <2>5. 2 * L < w
    BY <2>2
  <2>6. QED
    BY <2>1, <2>2, <2>3, <2>4, <2>5
<1>10. Val(row, M) + c * v = w * m
  <2>1. w * m = Val(t, M) + Val(x, M)
    BY <1>1 DEF w
  <2>2. QED
    BY <1>4, <1>7, <1>8, <2>1
<1>11. w * m < v
  <2>1. w * w = w * m + w * (w - m) /\ m < w
    BY <1>9
  <2>2. w * (w - m) > 0 /\ w * m \in Nat
    BY <1>9, <2>1
  <2>3. QED
    BY <1>9, <2>1, <2>2
<1>12. c = 0
  <2>1. CASE c >= 1
    <3> DEFINE f == c - 1
    <3>1. f \in Nat /\ c = 1 + f /\ v \in Nat
      BY <1>9, <2>1
    <3> HIDE DEF f
    <3>2. c * v = v + f * v /\ f * v \in Nat
      BY <3>1
    <3> DEFINE e == f * v
               g == c * v
               h == w * m
    <3>3. g = v + e /\ e \in Nat /\ Val(row, M) + g = h /\ h < v
      BY <1>10, <1>11, <3>2
    <3> HIDE DEF e, g, h
    <3>4. QED
      BY <1>9, <3>3
  <2>2. QED
    BY <1>9, <2>1
<1>13. Val(row, M) = w * m
  <2>1. c * v = 0
    BY <1>9, <1>12
  <2>2. QED
    BY <1>9, <1>10, <2>1
<1>14. IsLimbs(row, 2 * N + 1) /\ high = SubSeq(row, N + 1, 2 * N)
  BY <1>1, <1>7
<1> HIDE DEF high
<1>15. /\ Val(row, M) = Val(row, N) + w * Val(high, N)
       /\ Val(row, N) \in Nat /\ Val(high, N) \in Nat /\ IsLimbs(high, N)
  BY <1>1, <1>14, Halves DEF w
<1>16. Val(row, N) \in 0 .. (w - 1)
  BY <1>14, Halves DEF w
<1> DEFINE h == Val(high, N)
           l == Val(row, N)
           dd == m - h
<1>17. dd \in Int /\ w * dd = l /\ m \in Nat /\ h \in Nat /\ w \in Nat \ {0} /\ l < w
  <2>1. m \in Nat /\ h \in Nat /\ l \in Nat /\ dd \in Int /\ w \in Nat \ {0} /\ l < w
    BY <1>9, <1>15, <1>16
  <2>2. w * dd = w * m - w * h /\ w * m \in Int /\ w * h \in Int
    BY <2>1
  <2>3. w * m = l + w * h
    BY <1>13, <1>15
  <2> DEFINE a == w * m
             b == w * h
             e == w * dd
  <2>4. e = a - b /\ a = l + b /\ a \in Int /\ b \in Int
    BY <2>2, <2>3
  <2> HIDE DEF a, b, e, l
  <2>5. e = l
    BY <2>1, <2>4
  <2>6. QED
    BY <2>1, <2>5 DEF e
<1>18. w * 1 = w /\ l \in Nat /\ 1 \in Nat
  BY <1>9, <1>16
<1> HIDE DEF dd, l, h
<1>19. dd \in 0 .. (1 - 1)
  BY <1>17, <1>18, Cancel
<1>20. h = m
  BY <1>17, <1>19 DEF dd
<1>21. QED
  BY <1>14, <1>15, <1>20 DEF h

\* The constant of the reduction is one.
LEMMA MontgomeryKIs ==
  /\ MontgomeryK \in Scalars /\ IsMontgomery(Weight[N], L, MontgomeryK)
  /\ AllLimbs(Limbs(N, MontgomeryK), N) /\ Val(Limbs(N, MontgomeryK), N) = MontgomeryK
<1>1. MontgomeryK \in Scalars /\ (MontgomeryK * L) % Base ^ N = Base ^ N - 1
  BY InverseAssumption, Zenon DEF MontgomeryK
<1> DEFINE k == MontgomeryK
<1>2. k \in Scalars
  BY <1>1
<1> HIDE DEF k
<1>3. k \in Nat /\ AllLimbs(Limbs(N, k), N) /\ Val(Limbs(N, k), N) = k
  BY <1>2, ScalarIs
<1>4. Weight[N] = Base ^ N
  BY SizeOfL
<1>5. QED
  BY <1>1, <1>3, <1>4 DEF k, IsMontgomery

\* The multiple of L that is added to a number to divide it by the weight of N limbs.
IsMultiplier(s, x) ==
  /\ IsLimbs(x, 2 * N) /\ IsLimbs(s, N)
  /\ \E c \in Nat : Val(s, N) + Weight[N] * c = Val(x, N) * MontgomeryK
IsReducible(x) == IsLimbs(x, 2 * N) /\ Val(x, 2 * N) < L * Weight[N]

LEMMA Multiple ==
  ASSUME NEW x, NEW s, IsMultiplier(s, x), IsReducible(x)
  PROVE  \E m \in 0 .. (2 * L - 1) : Weight[N] * m = Val(s, N) * L + Val(x, 2 * N)
<1> DEFINE w == Weight[N]
           K == MontgomeryK
           u == [i \in 1 .. N |-> x[N + i]]
           xl == Val(x, N)
           xh == Val(u, N)
           v == Val(s, N)
<1>1. N \in Nat /\ N \in 0 .. Top /\ N + N = 2 * N /\ N + N <= Top /\ 2 * N \in Nat
  BY Limbed
<1>2. w \in Nat \ {0} /\ L \in Nat \ {0} /\ IsMontgomery(w, L, K)
  BY <1>1, Weights, SizeOfL, BarrettRIs, MontgomeryKIs
<1>3. AllLimbs(s, N) /\ Naturals(x, 2 * N)
  BY <1>1, LimbsAre DEF IsMultiplier
<1>4. v \in 0 .. (w - 1)
  BY <1>1, <1>3, ValBelow
<1>5. Val(x, 2 * N) = xl + w * xh /\ xl \in Nat /\ xh \in Nat
  <2> DEFINE a == N
             b == N
  <2>1. a \in Nat /\ b \in Nat /\ a + b <= Top /\ IsPart(u, x, a, b) /\ Naturals(x, a + b)
    BY <1>1, <1>3 DEF IsPart
  <2> HIDE DEF u, a, b
  <2>2. Val(x, a + b) = Val(x, a) + Weight[a] * Val(u, b) /\ Val(x, a) \in Nat /\ Val(u, b) \in Nat
    BY <2>1, ValConcat
  <2>3. QED
    BY <1>1, <2>2 DEF a, b
<1>6. PICK c \in Nat : v + w * c = xl * K
  BY DEF IsMultiplier
<1>7. Reducible(w, L, K, xl, xh, v, c)
  BY <1>5, <1>6 DEF IsReducible, Reducible
<1> HIDE DEF w, K, u, xl, xh, v
<1>8. \E m \in 0 .. (2 * L - 1) : Reduces(w, L, xl + w * xh, v, m)
  BY <1>2, <1>4, <1>5, <1>7, Montgomery
<1>9. QED
  BY <1>5, <1>8 DEF w, v, Reduces

\* redc divides by the weight of N limbs, modulo L.
LEMMA RedcIs ==
  ASSUME NEW x, IsReducible(x)
  PROVE  /\ IsLimbs(redc(x), N) /\ Val(redc(x), N) \in 0 .. (L - 1)
         /\ (Val(redc(x), N) * (Weight[N] % L)) % L = Val(x, 2 * N) % L
<1> DEFINE k == Limbs(N, MontgomeryK)
           IsRows(g) == g = [i \in 0 .. N |-> IF i = 0 THEN ZeroLimbs(N)
                               ELSE AddRow(g[i - 1], i, x[i], k, N + 1 - i)]
           rows == CHOOSE g : IsRows(g)
           s == rows[N]
           z == ZeroLimbs(2 * N)
           t == multiply(z, s, LimbsOfL)
           row == Carried([i \in 1 .. 2 * N |-> t[i] + x[i]], 0)
           high == SubSeq(row, N + 1, 2 * N)
<1>1. redc(x) = remove_l(high)
  BY DEF redc
<1>2. N \in Nat /\ 2 * N \in Nat /\ 2 * N \in 0 .. Top /\ N \in 0 .. Top /\ N + N = 2 * N /\ N + N <= Top
  BY Limbed
<1>3. AllLimbs(x, N) /\ IsLimbs(x, 2 * N)
  <2>1. AllLimbs(x, 2 * N) /\ IsLimbs(x, 2 * N)
    BY <1>2, LimbsAre DEF IsReducible
  <2>2. QED
    BY <1>2, <2>1 DEF AllLimbs
<1>4. IsLowProduct(rows, x, k)
  <2>1. \A g : IsRows(g) <=> IsLowProduct(g, x, k)
    BY DEF IsLowProduct
  <2> HIDE DEF IsRows, k
  <2>2. \E g : IsLowProduct(g, x, k)
    BY <1>3, MontgomeryKIs, LowProductExists DEF k
  <2>3. IsRows(rows)
    BY <2>1, <2>2, Zenon
  <2>4. QED
    BY <2>1, <2>3
<1> HIDE DEF rows
<1>5. IsMultiplier(s, x)
  <2>1. AllLimbs(k, N) /\ Val(k, N) = MontgomeryK
    BY MontgomeryKIs
  <2> HIDE DEF k
  <2>2. IsLimbs(rows[N], N) /\ \E c \in Nat : Val(rows[N], N) + Weight[N] * c = Val(x, N) * Val(k, N)
    BY <1>3, <1>4, <2>1, LowProductIs
  <2>3. QED
    BY <1>3, <2>1, <2>2 DEF IsMultiplier
<1> HIDE DEF s, k
<1>6. PICK m \in 0 .. (2 * L - 1) : Weight[N] * m = Val(s, N) * L + Val(x, 2 * N)
  BY <1>5, Multiple
<1>7. IsLimbs(t, 2 * N) /\ Val(t, 2 * N) = Val(s, N) * L
  <2>1. IsLimbs(z, 2 * N) /\ Val(z, 2 * N) = 0 /\ \A i \in 1 .. 2 * N : z[i] = 0
    BY <1>2, Zeros
  <2>2. AllLimbs(s, N) /\ Naturals(s, N)
    BY <1>2, <1>5, LimbsAre DEF IsMultiplier
  <2>3. MayMultiply(z, s, LimbsOfL)
    <3> HIDE DEF z
    <3>1. \A i \in 1 .. N : z[N + i] = 0
      BY <1>2, <2>1
    <3>2. QED
      BY <1>2, <2>1, <2>2, <3>1, SizeOfL DEF MayMultiply, Factors
  <2> HIDE DEF z
  <2>4. IsLimbs(t, 2 * N) /\ Val(t, 2 * N) = Val(z, 2 * N) + Val(s, N) * Val(LimbsOfL, N)
    BY <2>3, MultiplyIs
  <2>5. Val(s, N) \in Nat /\ Val(LimbsOfL, N) = L /\ L \in Nat
    BY <1>2, <2>2, ValNat, SizeOfL
  <2>6. Val(s, N) * L \in Nat
    BY <2>5
  <2>7. QED
    BY <2>1, <2>4, <2>5, <2>6
<1> HIDE DEF t
<1>8. IsLimbs(high, N) /\ Val(high, N) = m
  <2>1. Weight[N] * m = Val(t, 2 * N) + Val(x, 2 * N)
    BY <1>6, <1>7
  <2> DEFINE r == row
  <2>2. r = Carried([i \in 1 .. 2 * N |-> t[i] + x[i]], 0) /\ high = SubSeq(r, N + 1, 2 * N)
    OBVIOUS
  <2> HIDE DEF r
  <2>3. IsLimbs(SubSeq(r, N + 1, 2 * N), N) /\ Val(SubSeq(r, N + 1, 2 * N), N) = m
    BY <1>3, <1>7, <2>1, <2>2, HighHalf
  <2>4. QED
    BY <2>2, <2>3
<1> HIDE DEF high
<1>9. L \in Nat \ {0} /\ m \in Nat /\ Weight[N] \in Nat \ {0}
  BY <1>2, BarrettRIs, Weights
<1>10. /\ IsLimbs(redc(x), N)
       /\ \E e \in {0, 1} : Val(redc(x), N) = m - e * L /\ Val(redc(x), N) \in 0 .. (L - 1)
  <2>1. IsLimbs(redc(x), N) /\ Val(redc(x), N) = IF m >= L THEN m - L ELSE m
    BY <1>1, <1>8, RemoveIs
  <2>2. 0 * L = 0 /\ 1 * L = L
    BY <1>9
  <2>3. CASE m >= L
    <3>1. Val(redc(x), N) = m - 1 * L /\ Val(redc(x), N) \in 0 .. (L - 1)
      BY <1>9, <2>1, <2>2, <2>3
    <3>2. QED
      BY <2>1, <3>1
  <2>4. CASE ~(m >= L)
    <3>1. Val(redc(x), N) = m - 0 * L /\ Val(redc(x), N) \in 0 .. (L - 1)
      BY <1>9, <2>1, <2>2, <2>4
    <3>2. QED
      BY <2>1, <3>1
  <2>5. QED
    BY <2>3, <2>4
<1>11. PICK e \in {0, 1} : Val(redc(x), N) = m - e * L /\ Val(redc(x), N) \in 0 .. (L - 1)
  BY <1>10
<1> DEFINE v == Val(s, N)
           X == Val(x, 2 * N)
           w == Weight[N]
<1>12. v \in Nat /\ X \in Nat /\ e \in Nat
  <2>1. Naturals(s, N) /\ Naturals(x, 2 * N)
    BY <1>2, <1>3, <1>5, LimbsAre DEF IsMultiplier
  <2>2. QED
    BY <1>2, <2>1, ValNat
<1>13. Reduces(w, L, X, v, m) /\ w \in Nat \ {0}
  BY <1>6, <1>9 DEF Reduces
<1> HIDE DEF v, X, w
<1>14. Leaves(w, L, X, m - e * L)
  BY <1>9, <1>12, <1>13, MontgomeryLeaves
<1>15. QED
  BY <1>10, <1>11, <1>14 DEF w, X, Leaves
==============================================================================
