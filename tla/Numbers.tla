-------------------------------- MODULE Numbers -------------------------------
(***************************************************************************)
(* What the proofs need of natural numbers and of texts: induction, stated *)
(* for sets because the provers cannot instantiate a predicate; division;  *)
(* and sequences of anything.                                              *)
(***************************************************************************)
EXTENDS Integers, Sequences, WellFoundedInduction, SequenceTheorems, TLAPS

\* Every inhabited set of natural numbers has a least element.
LEMMA Least ==
  ASSUME NEW T, T \subseteq Nat, T # {}
  PROVE  \E x \in T : \A y \in T : x <= y
<1> DEFINE R == OpToRel(<, Nat)
<1>1. IsWellFoundedOn(R, Nat)
  BY NatLessThanWellFounded, Zenon
<1>2. R = {ss \in Nat \X Nat : ss[1] < ss[2]}
  BY Zenon DEF OpToRel
<1> HIDE DEF R
<1>3. PICK x \in T : \A y \in T : ~ (<<y, x>> \in R)
  BY <1>1, WFMin
<1>4. ASSUME NEW y \in T
      PROVE  x <= y
  <2>1. y \in Nat /\ x \in Nat /\ <<y, x>> \notin R
    BY <1>3
  <2>2. ~(y < x)
    BY <1>2, <2>1
  <2>3. QED
    BY <2>1, <2>2
<1>5. QED
  BY <1>3, <1>4

\* Induction: a set with 0 in it and the successor of each of its numbers up to n has
\* the numbers up to n in it.
LEMMA InductionTo ==
  ASSUME NEW n \in Nat, NEW T,
         0 \in T, \A k \in 0 .. (n - 1) : k \in T => k + 1 \in T
  PROVE  \A k \in 0 .. n : k \in T
<1> DEFINE Out == {k \in 0 .. n : k \notin T}
<1>1. SUFFICES ASSUME Out # {}
               PROVE  FALSE
  OBVIOUS
<1>2. PICK x \in Out : \A y \in Out : x <= y
  <2>1. Out \subseteq Nat
    OBVIOUS
  <2> HIDE DEF Out
  <2>2. QED
    BY <1>1, <2>1, Least
<1>3. x \in 1 .. n /\ x \notin T
  BY <1>2
<1>4. x - 1 \notin Out /\ x - 1 \in 0 .. (n - 1)
  BY <1>2, <1>3
<1>5. x - 1 \in T /\ (x - 1) + 1 = x
  BY <1>3, <1>4
<1>6. QED
  BY <1>3, <1>4, <1>5

\* A recursion over 0 .. n with a value in S at every step has a solution.
StaysIn(S, F, n) == \A k \in 1 .. n : \A s \in S : F[k][s] \in S
Follows(g, S, a, F, n) ==
  g \in [0 .. n -> S] /\ g[0] = a /\ \A k \in 1 .. n : g[k] = F[k][g[k - 1]]

LEMMA Recursion ==
  ASSUME NEW n \in Nat, NEW S, NEW a \in S, NEW F, StaysIn(S, F, n)
  PROVE  \E g : Follows(g, S, a, F, n)
<1> DEFINE Solves(g, m) == g[0] = a /\ \A k \in 1 .. m : g[k] = F[k][g[k - 1]]
           T == {m \in 0 .. n : \E g \in [0 .. m -> S] : Solves(g, m)}
<1>1. 0 \in T
  <2> DEFINE g == [k \in 0 .. 0 |-> a]
  <2>1. g \in [0 .. 0 -> S] /\ Solves(g, 0)
    OBVIOUS
  <2> HIDE DEF g, Solves
  <2>2. QED
    BY <2>1
<1>2. ASSUME NEW m \in 0 .. (n - 1), m \in T
      PROVE  m + 1 \in T
  <2>1. PICK g \in [0 .. m -> S] : Solves(g, m)
    BY <1>2
  <2> DEFINE h == [k \in 0 .. m + 1 |-> IF k <= m THEN g[k] ELSE F[m + 1][g[m]]]
  <2>2. g[m] \in S /\ m + 1 \in 1 .. n /\ F[m + 1][g[m]] \in S
    BY <1>2, <2>1 DEF StaysIn
  <2>3. h \in [0 .. m + 1 -> S]
    BY <2>1, <2>2
  <2>4. h[0] = a /\ h[m + 1] = F[m + 1][g[m]] /\ \A k \in 0 .. m : h[k] = g[k]
    BY <2>1, <2>2
  <2> HIDE DEF h
  <2>5. ASSUME NEW k \in 1 .. m + 1
        PROVE  h[k] = F[k][h[k - 1]]
    <3>1. CASE k \in 1 .. m
      <4>1. k - 1 \in 0 .. m /\ k \in 0 .. m
        BY <3>1
      <4>2. g[k] = F[k][g[k - 1]]
        BY <2>1, <3>1
      <4>3. QED
        BY <2>4, <4>1, <4>2
    <3>2. CASE k = m + 1
      <4>1. k - 1 = m /\ m \in 0 .. m
        BY <3>2
      <4>2. QED
        BY <2>4, <3>2, <4>1
    <3>3. k \in 1 .. m \/ k = m + 1
      BY <2>2
    <3>4. QED
      BY <3>1, <3>2, <3>3
  <2>6. Solves(h, m + 1)
    BY <2>4, <2>5
  <2> HIDE DEF Solves
  <2>7. QED
    BY <2>2, <2>3, <2>6
<1>3. n \in T
  <2> HIDE DEF T
  <2>1. \A m \in 0 .. n : m \in T
    BY <1>1, <1>2, InductionTo
  <2>2. QED
    BY <2>1
<1>4. QED
  BY <1>3 DEF Follows

\* Quotient and remainder are unique.
LEMMA Division ==
  ASSUME NEW D \in Nat \ {0}, NEW q \in Int, NEW r \in 0 .. (D - 1)
  PROVE  (D * q + r) \div D = q /\ (D * q + r) % D = r
<1> DEFINE x == D * q + r
           k == x \div D
<1>1. k \in Int /\ x = D * k + (x % D) /\ x % D \in 0 .. (D - 1)
  OBVIOUS
<1>2. D * (q - k) = (x % D) - r
  BY <1>1
<1>3. ~(q - k >= 1)
  <2>1. q - k >= 1 => D * (q - k) >= D
    BY <1>1
  <2>2. QED
    BY <1>1, <1>2, <2>1
<1>4. ~(q - k <= -1)
  <2>1. q - k <= -1 => D * (q - k) <= -D
    BY <1>1
  <2>2. QED
    BY <1>1, <1>2, <2>1
<1>5. QED
  BY <1>1, <1>3, <1>4

\* The remainder of a successor.
LEMMA ModStep ==
  ASSUME NEW D \in Nat \ {0}, NEW x \in Int
  PROVE  /\ x % D \in 0 .. (D - 1)
         /\ (x + 1) % D = IF (x % D) = D - 1 THEN 0 ELSE (x % D) + 1
<1> DEFINE q == x \div D
           r == x % D
<1>1. q \in Int /\ r \in 0 .. (D - 1) /\ x = D * q + r
  OBVIOUS
<1>2. CASE r = D - 1
  <2>1. x + 1 = D * (q + 1) + 0
    BY <1>1, <1>2
  <2>2. (D * (q + 1) + 0) % D = 0
    BY Division, <1>1
  <2>3. QED
    BY <1>1, <1>2, <2>1, <2>2
<1>3. CASE r # D - 1
  <2>1. x + 1 = D * q + (r + 1) /\ r + 1 \in 0 .. (D - 1)
    BY <1>1, <1>3
  <2>2. (D * q + (r + 1)) % D = r + 1
    BY Division, <1>1, <2>1
  <2>3. QED
    BY <1>1, <1>3, <2>1, <2>2
<1>4. QED
  BY <1>2, <1>3

\* Remainders of a number below, at and without its modulus.
LEMMA Remainders ==
  ASSUME NEW S \in Nat \ {0}
  PROVE  S % S = 0 /\ 0 % S = 0 /\ \A x \in 0 .. (S - 1) : x % S = x
<1>1. (S * 1 + 0) % S = 0 /\ (S * 0 + 0) % S = 0
  BY Division
<1>2. S * 1 + 0 = S /\ S * 0 + 0 = 0
  OBVIOUS
<1>3. ASSUME NEW x \in 0 .. (S - 1) PROVE x % S = x
  <2>1. (S * 0 + x) % S = x
    BY Division
  <2>2. S * 0 + x = x
    OBVIOUS
  <2>3. QED
    BY <2>1, <2>2
<1>4. QED
  BY <1>1, <1>2, <1>3

\* Quotient and remainder of a successor, and of a number that is reduced first.
LEMMA Successor ==
  ASSUME NEW D \in Nat \ {0}, NEW x \in Nat
  PROVE  /\ ((x % D) + 1) % D = (x + 1) % D
         /\ (x + 1) \div D = IF (x + 1) % D = 0 THEN (x \div D) + 1 ELSE x \div D
<1> DEFINE q == x \div D
           r == x % D
<1>1. q \in Nat /\ r \in 0 .. (D - 1) /\ x = D * q + r
  OBVIOUS
<1>2. (x + 1) % D = IF r = D - 1 THEN 0 ELSE r + 1
  <2>1. x \in Int
    OBVIOUS
  <2>2. QED
    BY <2>1, ModStep
<1> HIDE DEF q, r
<1>3. (r + 1) % D = IF r = D - 1 THEN 0 ELSE r + 1
  <2>1. r % D = r /\ r \in Int
    BY <1>1, Remainders
  <2>2. QED
    BY <2>1, ModStep
<1>4. CASE r = D - 1
  <2>1. x + 1 = D * (q + 1) + 0 /\ q + 1 \in Int /\ 0 \in 0 .. (D - 1)
    BY <1>1, <1>4
  <2>2. (D * (q + 1) + 0) \div D = q + 1
    BY <2>1, Division
  <2>3. QED
    BY <1>2, <1>3, <1>4, <2>1, <2>2 DEF q, r
<1>5. CASE r # D - 1
  <2>1. x + 1 = D * q + (r + 1) /\ r + 1 \in 0 .. (D - 1) /\ q \in Int
    BY <1>1, <1>5
  <2>2. (D * q + (r + 1)) \div D = q
    BY <2>1, Division
  <2>3. QED
    BY <1>1, <1>2, <1>3, <1>5, <2>1, <2>2 DEF q, r
<1>6. QED
  BY <1>4, <1>5

\* A larger number has no smaller quotient.
LEMMA QuotientsGrow ==
  ASSUME NEW D \in Nat \ {0}, NEW x \in Nat, NEW y \in Nat, x <= y
  PROVE  x \div D \in 0 .. (y \div D)
<1> DEFINE p == x \div D
           q == y \div D
<1>1. /\ p \in Nat /\ q \in Nat
      /\ x = D * p + (x % D) /\ y = D * q + (y % D)
      /\ x % D \in 0 .. (D - 1) /\ y % D \in 0 .. (D - 1)
  OBVIOUS
<1> HIDE DEF p, q
<1>2. p > q => D * (p - q) >= D
  BY <1>1
<1>3. D * (p - q) = D * p - D * q
  BY <1>1
<1>4. p <= q
  BY <1>1, <1>2, <1>3
<1>5. QED
  BY <1>1, <1>4 DEF p, q

\* Places in rows of D: each is in the rows there are.
LEMMA RowPlace ==
  ASSUME NEW D \in Nat \ {0}, NEW n \in Nat, NEW b \in 1 .. n, NEW o \in 1 .. D
  PROVE  /\ D * (b - 1) \in Nat /\ D * b \in Nat /\ D * n \in Nat
         /\ D * b = D * (b - 1) + D /\ D * b <= D * n
         /\ D * (b - 1) + o \in 1 .. D * n
<1>1. D * n = D * (b - 1) + D * (n - b + 1)
  OBVIOUS
<1>2. D * (n - b + 1) = D * (n - b) + D /\ D * b = D * (b - 1) + D
  OBVIOUS
<1>3. D * (n - b) \in Nat /\ D * (b - 1) \in Nat /\ D * n \in Nat /\ D * b \in Nat
  OBVIOUS
<1>4. QED
  BY <1>1, <1>2, <1>3

\* A product of a sum is the sum of the products.
LEMMA Distribute ==
  ASSUME NEW D \in Nat, NEW a \in Nat, NEW b \in Nat
  PROVE  D * a \in Nat /\ D * b \in Nat /\ D * (a + b) = D * a + D * b
OBVIOUS

\* More of the same are as many as there are and the rest of them.
LEMMA Further ==
  ASSUME NEW D \in Nat, NEW a \in Nat, NEW b \in Nat, a <= b
  PROVE  D * a \in Nat /\ D * (b - a) \in Nat /\ D * b = D * a + D * (b - a)
<1> DEFINE e == b - a
<1>1. e \in Nat /\ b = a + e
  OBVIOUS
<1> HIDE DEF e
<1>2. D * a \in Nat /\ D * e \in Nat /\ D * (a + e) = D * a + D * e
  BY <1>1, Distribute
<1>3. QED
  BY <1>1, <1>2 DEF e

\* Numbers less than a modulus apart have different remainders.
LEMMA Apart ==
  ASSUME NEW M \in Nat \ {0}, NEW x \in Nat, NEW y \in Nat, x <= y, y - x < M, x % M = y % M
  PROVE  x = y
<1> DEFINE p == x \div M
           q == y \div M
           r == x % M
<1>1. p \in Nat /\ q \in Nat /\ r \in 0 .. (M - 1) /\ x = M * p + r /\ y = M * q + r
  OBVIOUS
<1> HIDE DEF p, q, r
<1>2. p <= q
  <2>1. CASE p > q
    <3>1. M * (p - q) >= M /\ M * p = M * q + M * (p - q)
      BY <1>1, <2>1
    <3>2. QED
      BY <1>1, <3>1
  <2>2. QED
    BY <1>1, <2>1
<1>3. CASE q > p
  <2>1. M * (q - p) >= M /\ M * q = M * p + M * (q - p)
    BY <1>1, <1>3
  <2>2. QED
    BY <1>1, <2>1
<1>4. CASE q = p
  BY <1>1, <1>4
<1>5. QED
  BY <1>1, <1>2, <1>3, <1>4

\* The two digits of a number to the base D are its remainder by D * D.
LEMMA TwoDigits ==
  ASSUME NEW D \in Nat \ {0}, D * D \in Nat \ {0}, NEW x \in Nat, NEW y \in Nat,
         x % D = y % D, (x \div D) % D = (y \div D) % D
  PROVE  x % (D * D) = y % (D * D)
<1>1. ASSUME NEW z \in Nat
      PROVE  z % (D * D) = D * ((z \div D) % D) + (z % D)
  <2> DEFINE q == z \div D
             r == z % D
             p == q \div D
             s == q % D
  <2>1. q \in Nat /\ r \in 0 .. (D - 1) /\ z = D * q + r
    OBVIOUS
  <2> HIDE DEF q, r
  <2>2. p \in Nat /\ s \in 0 .. (D - 1) /\ q = D * p + s
    BY <2>1
  <2> HIDE DEF p, s
  <2>3. D * q = (D * D) * p + D * s
    BY <2>1, <2>2
  <2> DEFINE m == D * D
             low == D * s + r
             t == (D - 1) - s
  <2>4. low \in 0 .. (m - 1)
    <3>1. t \in Nat /\ D = s + (t + 1)
      BY <2>2
    <3> HIDE DEF t
    <3>2. D * D = D * s + D * (t + 1) /\ D * (t + 1) = D * t + D
      BY <2>2, <3>1
    <3>3. D * s \in Nat /\ D * t \in Nat
      BY <2>2, <3>1
    <3>4. QED
      BY <2>1, <3>2, <3>3
  <2>5. z = m * p + low
    <3>1. D * s \in Nat /\ (D * D) * p \in Nat
      BY <2>2
    <3>2. QED
      BY <2>1, <2>3, <3>1
  <2>6. m \in Nat \ {0} /\ p \in Int
    BY <2>2
  <2> HIDE DEF m, low
  <2>7. (m * p + low) % m = low
    BY <2>4, <2>6, Division
  <2>8. QED
    BY <2>5, <2>7 DEF m, low, s, q, r
<1>2. QED
  BY <1>1

\* A number's remainder by a product, from its lower and its next digit.
LEMMA DigitStep ==
  ASSUME NEW D \in Nat \ {0}, NEW E \in Nat \ {0}, NEW x \in Nat
  PROVE  /\ D * E \in Nat \ {0}
         /\ x % (D * E) = (x % D) + D * ((x \div D) % E)
<1> DEFINE q == x \div D
           r == x % D
           p == q \div E
           s == q % E
           m == D * E
           low == D * s + r
<1>1. q \in Nat /\ r \in 0 .. (D - 1) /\ x = D * q + r
  OBVIOUS
<1> HIDE DEF q, r
<1>2. p \in Nat /\ s \in 0 .. (E - 1) /\ q = E * p + s
  BY <1>1
<1> HIDE DEF p, s
<1>3. m \in Nat \ {0} /\ D * s \in Nat
  BY <1>2
<1>4. x = m * p + low
  <2>1. D * q = (D * E) * p + D * s /\ (D * E) * p \in Nat
    BY <1>1, <1>2
  <2>2. QED
    BY <1>1, <1>3, <2>1
<1>5. low \in 0 .. (m - 1)
  <2> DEFINE t == (E - 1) - s
  <2>1. t \in Nat /\ E = s + (t + 1)
    BY <1>2
  <2> HIDE DEF t
  <2>2. D * E = D * s + D * (t + 1) /\ D * (t + 1) = D * t + D /\ D * t \in Nat
    BY <1>2, <2>1
  <2>3. QED
    BY <1>1, <1>3, <2>2
<1> HIDE DEF m, low
<1>6. (m * p + low) % m = low
  BY <1>2, <1>3, <1>5, Division
<1>7. QED
  BY <1>3, <1>4, <1>6 DEF m, low, s, q, r

\* A quotient from its product: a multiple of W that is less than c of them.
LEMMA Cancel ==
  ASSUME NEW W \in Nat \ {0}, NEW d \in Int, NEW c \in Nat, W * d \in Nat, W * d < W * c
  PROVE  d \in 0 .. (c - 1)
<1>1. CASE d <= -1
  <2>1. W * d = -(W * (-d)) /\ W * (-d) = W + W * (-d - 1) /\ W * (-d - 1) \in Nat
    BY <1>1
  <2>2. QED
    BY <2>1
<1>2. CASE d >= c
  <2>1. W * d = W * c + W * (d - c) /\ W * (d - c) \in Nat /\ W * c \in Nat
    BY <1>2
  <2>2. QED
    BY <2>1
<1>3. QED
  BY <1>1, <1>2

\* Numbers below W that are a multiple of W apart are the same.
LEMMA SameBelow ==
  ASSUME NEW W \in Nat \ {0}, NEW a \in 0 .. (W - 1), NEW b \in 0 .. (W - 1), NEW k \in Int,
         a = b + W * k
  PROVE  a = b
<1>1. (W * k + b) % W = b
  BY Division
<1>2. W * k + b = a
  <2> DEFINE w == W * k
  <2>1. w \in Int
    OBVIOUS
  <2> HIDE DEF w
  <2>2. a = b + w => w + b = a
    BY <2>1
  <2>3. QED
    BY <2>2 DEF w
<1>3. a % W = a
  BY Remainders
<1>4. QED
  BY <1>1, <1>2, <1>3

\* Barrett's quotient is at most one too small.
LEMMA Barrett ==
  ASSUME NEW D \in Nat \ {0}, NEW W \in Nat \ {0}, NEW x \in 0 .. (W - 1),
         NEW q \in Nat, NEW e \in 0 .. (W - 1), (W \div D) * x = W * q + e
  PROVE  x - q * D \in 0 .. (2 * D - 1)
<1> DEFINE R == W \div D
           s == W % D
<1>1. R \in Nat /\ s \in 0 .. (D - 1) /\ W = D * R + s /\ R * x = W * q + e
  OBVIOUS
<1> HIDE DEF R, s
<1>2. W * (x - q * D) = D * e + s * x
  <2>1. W * x = D * (R * x) + s * x
    BY <1>1
  <2>2. D * (R * x) = W * (q * D) + D * e
    BY <1>1
  <2>3. W * (x - q * D) = W * x - W * (q * D)
    OBVIOUS
  <2> DEFINE a == W * (q * D)
             b == D * e
             c == s * x
  <2>4. a \in Int /\ b \in Int /\ c \in Int
    BY <1>1
  <2> DEFINE g == W * x
             h == W * (x - q * D)
  <2>5. g = (a + b) + c /\ h = g - a
    BY <2>1, <2>2, <2>3, Zenon
  <2> HIDE DEF a, b, c, g, h
  <2>6. h = b + c
    BY <2>4, <2>5
  <2>7. QED
    BY <2>6 DEF b, c, h
<1>3. D * e \in Nat /\ D * e < D * W
  <2>1. D * W = D * e + (D * (W - 1 - e) + D) /\ D * (W - 1 - e) \in Nat /\ D * e \in Nat
    OBVIOUS
  <2>2. QED
    BY <2>1
<1>4. s * x \in Nat /\ s * x <= D * W
  <2>1. D * W = s * x + (s * (W - x) + (D - s) * W) /\ s * (W - x) \in Nat /\ (D - s) * W \in Nat
        /\ s * x \in Nat
    BY <1>1
  <2> DEFINE a == s * (W - x)
             b == (D - s) * W
             c == s * x
             f == D * W
  <2>2. f = c + (a + b) /\ a \in Nat /\ b \in Nat /\ c \in Nat
    BY <2>1
  <2> HIDE DEF a, b, c, f
  <2>3. c \in Nat /\ c <= f
    BY <2>2
  <2>4. QED
    BY <2>3 DEF c, f
<1>5. W * (2 * D) = D * W + D * W /\ D * W \in Nat
  OBVIOUS
<1> DEFINE a == D * e
           b == s * x
           f == D * W
<1>6. W * (x - q * D) = a + b /\ W * (2 * D) = f + f /\ a \in Nat /\ b \in Nat /\ f \in Nat /\ a < f /\ b <= f
  BY <1>2, <1>3, <1>4, <1>5
<1> HIDE DEF a, b, f
<1> DEFINE d == x - q * D
           g == W * d
           h == W * (2 * D)
<1>7. d \in Int /\ 2 * D \in Nat
  OBVIOUS
<1>8. g \in Nat /\ g < h
  <2>1. g = a + b /\ h = f + f
    BY <1>6
  <2> HIDE DEF g, h
  <2>2. QED
    BY <1>6, <2>1
<1> HIDE DEF d
<1>9. d \in 0 .. (2 * D - 1)
  BY <1>7, <1>8, Cancel
<1>10. QED
  BY <1>9 DEF d

\* Multiples of the modulus do not change a remainder.
LEMMA Shifted ==
  ASSUME NEW D \in Nat \ {0}, NEW k \in Int, NEW x \in Int
  PROVE  (D * k + x) % D = x % D
<1> DEFINE q == x \div D
           r == x % D
<1>1. q \in Int /\ r \in 0 .. (D - 1) /\ x = D * q + r
  OBVIOUS
<1> HIDE DEF q
<1>2. D * k + (D * q + r) = D * (k + q) + r
  BY <1>1
<1> DEFINE j == k + q
<1>3. D * k + x = D * j + r /\ j \in Int /\ r \in 0 .. (D - 1)
  BY <1>1, <1>2
<1> HIDE DEF j, r
<1>4. (D * j + r) % D = r
  BY <1>3, Division
<1>5. QED
  BY <1>3, <1>4 DEF r

\* Montgomery's reduction: a multiple of D that makes x divisible by W.
IsMontgomery(W, D, K) == K \in Nat /\ (K * D) % W = W - 1
Reducible(W, D, K, xl, xh, s, c) == s + W * c = xl * K /\ xl + W * xh < D * W
Reduces(W, D, x, s, m) == W * m = s * D + x
Leaves(W, D, x, r) == (r * (W % D)) % D = x % D

LEMMA Montgomery ==
  ASSUME NEW W \in Nat \ {0}, NEW D \in Nat \ {0}, NEW K, IsMontgomery(W, D, K),
         NEW xl \in Nat, NEW xh \in Nat, NEW s \in 0 .. (W - 1), NEW c \in Nat,
         Reducible(W, D, K, xl, xh, s, c)
  PROVE  \E m \in 0 .. (2 * D - 1) : Reduces(W, D, xl + W * xh, s, m)
<1> DEFINE q == (K * D) \div W
           m == xl * (q + 1) - c * D + xh
           x == xl + W * xh
<1>0. s + W * c = xl * K /\ x < D * W
  BY DEF Reducible
<1>1. K \in Nat /\ K * D \in Nat /\ q \in Nat /\ K * D = W * q + (W - 1)
  BY DEF IsMontgomery
<1> HIDE DEF q
<1>2. s * D = W * (xl * (q + 1)) - xl - W * (c * D)
  <2>1. (s + W * c) * D = s * D + W * (c * D) /\ s * D \in Nat /\ W * (c * D) \in Nat
    OBVIOUS
  <2>2. (xl * K) * D = xl * (K * D)
    BY <1>1
  <2>3. xl * (W * q + (W - 1)) = W * (xl * (q + 1)) - xl
    BY <1>1
  <2>4. W * (xl * (q + 1)) \in Nat
    BY <1>1
  <2> DEFINE a == s * D
             b == W * (c * D)
             d == W * (xl * (q + 1))
  <2>5. a + b = d - xl
    BY <1>0, <1>1, <2>1, <2>2, <2>3
  <2>6. a \in Nat /\ b \in Nat /\ d \in Nat
    BY <2>1, <2>4
  <2> HIDE DEF a, b, d
  <2>7. a = d - xl - b
    BY <2>5, <2>6
  <2>8. QED
    BY <2>7 DEF a, b, d
<1>3. m \in Int /\ x \in Nat
  BY <1>1
<1>4. W * m = s * D + x
  <2>1. W * m = W * (xl * (q + 1)) - W * (c * D) + W * xh
    BY <1>1
  <2> DEFINE b == W * (c * D)
             d == W * (xl * (q + 1))
             e == W * xh
  <2>2. b \in Nat /\ d \in Nat /\ e \in Nat
    BY <1>1
  <2>3. W * m = d - b + e /\ s * D = d - xl - b /\ x = xl + e
    BY <1>2, <2>1
  <2> DEFINE y == W * m
             z == s * D
  <2>4. y = d - b + e /\ z = d - xl - b /\ x = xl + e
    BY <2>3
  <2> HIDE DEF b, d, e, y, z, x, m
  <2>5. y = z + x
    BY <2>2, <2>4
  <2>6. QED
    BY <2>5 DEF y, z
<1>5. s * D \in Nat /\ s * D <= D * W /\ x < D * W /\ D * W \in Nat
  <2>1. D * W = s * D + D * (W - s) /\ D * (W - s) \in Nat
    OBVIOUS
  <2>2. QED
    BY <1>0, <2>1
<1>6. W * (2 * D) = D * W + D * W
  OBVIOUS
<1> DEFINE a == s * D
           f == D * W
           g == W * m
           h == W * (2 * D)
<1>7. g = a + x /\ h = f + f /\ a \in Nat /\ a <= f /\ x < f /\ f \in Nat
  BY <1>4, <1>5, <1>6
<1>8. g \in Nat /\ g < h
  <2> HIDE DEF a, f, g, h, x
  <2>1. QED
    BY <1>3, <1>7
<1>9. 2 * D \in Nat
  OBVIOUS
<1> HIDE DEF m
<1>10. m \in 0 .. (2 * D - 1)
  BY <1>3, <1>8, <1>9, Cancel
<1>11. Reduces(W, D, x, s, m)
  BY <1>4 DEF Reduces
<1>12. QED
  BY <1>10, <1>11

\* What the reduction leaves, times W, is x modulo D.
LEMMA MontgomeryLeaves ==
  ASSUME NEW W \in Nat \ {0}, NEW D \in Nat \ {0}, NEW x \in Nat, NEW s \in Nat, NEW m \in Nat,
         NEW e \in Nat, Reduces(W, D, x, s, m)
  PROVE  Leaves(W, D, x, m - e * D)
<1> DEFINE q == W \div D
           r == m - e * D
           k == s - e * W - r * q
<1>1. q \in Nat /\ W % D \in Nat /\ W % D = W - D * q /\ r \in Int
  OBVIOUS
<1> HIDE DEF q
<1>2. r * (W % D) = r * W - r * (D * q)
  BY <1>1
<1>3. r * W = W * m - D * (e * W)
  OBVIOUS
<1>4. r * (D * q) = D * (r * q) /\ s * D = D * s
  BY <1>1
<1>5. D * k = D * s - D * (e * W) - D * (r * q) /\ k \in Int
  BY <1>1
<1>6. r * (W % D) = D * k + x
  <2> DEFINE a == D * s
             b == D * (e * W)
             c == D * (r * q)
             y == D * k
             z == r * (W % D)
             u == r * W
             v == W * m
  <2>1. a \in Int /\ b \in Int /\ c \in Int
    BY <1>1
  <2>2. z = u - c /\ u = v - b /\ v = a + x /\ y = a - b - c
    BY <1>2, <1>3, <1>4, <1>5 DEF Reduces
  <2> HIDE DEF a, b, c, y, z, u, v
  <2>3. z = y + x
    BY <2>1, <2>2
  <2>4. QED
    BY <2>3 DEF y, z
<1>10. k \in Int /\ x \in Int
  BY <1>5
<1> HIDE DEF k, r
<1>7. (D * k + x) % D = x % D
  BY <1>10, Shifted
<1>8. QED
  BY <1>6, <1>7 DEF r, Leaves

\* A factor may be reduced first.
LEMMA ModProduct ==
  ASSUME NEW D \in Nat \ {0}, NEW a \in Nat, NEW b \in Nat
  PROVE  ((a % D) * b) % D = (a * b) % D
<1> DEFINE q == a \div D
           r == a % D
           k == q * b
           x == r * b
<1>1. q \in Nat /\ r \in Nat /\ a = D * q + r
  OBVIOUS
<1> HIDE DEF q, r
<1>2. a * b = D * k + x /\ k \in Int /\ x \in Int
  BY <1>1
<1> HIDE DEF k, x
<1>3. (D * k + x) % D = x % D
  BY <1>2, Shifted
<1>4. QED
  BY <1>2, <1>3 DEF x, r

(* -------- limbs written out -------- *)

Four(D) == D * (D * (D * D))
Horner4(D, x1, x2, x3, x4) == x1 + D * (x2 + D * (x3 + D * x4))
Horner5(D, x1, x2, x3, x4, x5) == x1 + D * (x2 + D * (x3 + D * (x4 + D * x5)))

\* The five columns of a product of five limbs and four, four times `q` but for the first,
\* which is `m` more: what is above 4 D^4 comes back five times.
NineFactors(D, s1, s2, s3, s4, s5, q1, q2, q3, q4, m) ==
  /\ D \in Int /\ s1 \in Int /\ s2 \in Int /\ s3 \in Int /\ s4 \in Int /\ s5 \in Int
  /\ q1 \in Int /\ q2 \in Int /\ q3 \in Int /\ q4 \in Int /\ m \in Int

ProductSame(D, X, S, R) == \E k \in Int : S * R = X + (4 * Four(D) - 5) * k

LEMMA ProductColumns ==
  ASSUME NEW D, NEW s1, NEW s2, NEW s3, NEW s4, NEW s5, NEW q1, NEW q2, NEW q3, NEW q4, NEW m,
         NineFactors(D, s1, s2, s3, s4, s5, q1, q2, q3, q4, m)
  PROVE  ProductSame(D,
           Horner5(D, s1*(4*q1 + m) + s2*(5*q4) + s3*(5*q3) + s4*(5*q2) + s5*(5*q1),
                      s1*(4*q2) + s2*(4*q1 + m) + s3*(5*q4) + s4*(5*q3) + s5*(5*q2),
                      s1*(4*q3) + s2*(4*q2) + s3*(4*q1 + m) + s4*(5*q4) + s5*(5*q3),
                      s1*(4*q4) + s2*(4*q3) + s3*(4*q2) + s4*(4*q1 + m) + s5*(5*q4),
                      s5*m),
           Horner5(D, s1, s2, s3, s4, s5), Horner4(D, 4 * q1 + m, 4 * q2, 4 * q3, 4 * q4))
<1> DEFINE k == (s2*q4 + s3*q3 + s4*q2 + s5*q1)
                  + D * ((s3*q4 + s4*q3 + s5*q2) + D * ((s4*q4 + s5*q3) + D * (s5*q4)))
<1>0. /\ D \in Int /\ s1 \in Int /\ s2 \in Int /\ s3 \in Int /\ s4 \in Int /\ s5 \in Int
      /\ q1 \in Int /\ q2 \in Int /\ q3 \in Int /\ q4 \in Int /\ m \in Int
  BY DEF NineFactors
<1>1. k \in Int
  BY <1>0
<1>2. Horner5(D, s1, s2, s3, s4, s5) * Horner4(D, 4 * q1 + m, 4 * q2, 4 * q3, 4 * q4)
      = Horner5(D, s1*(4*q1 + m) + s2*(5*q4) + s3*(5*q3) + s4*(5*q2) + s5*(5*q1),
                   s1*(4*q2) + s2*(4*q1 + m) + s3*(5*q4) + s4*(5*q3) + s5*(5*q2),
                   s1*(4*q3) + s2*(4*q2) + s3*(4*q1 + m) + s4*(5*q4) + s5*(5*q3),
                   s1*(4*q4) + s2*(4*q3) + s3*(4*q2) + s4*(4*q1 + m) + s5*(5*q4),
                   s5*m)
        + (4 * Four(D) - 5) * k
  BY <1>0 DEF Horner5, Horner4, Four
<1> HIDE DEF k
<1>3. QED
  BY <1>1, <1>2, Zenon DEF ProductSame

\* The high parts of five columns moved up, what is above 4 D^4 brought back five times.
IsBack(D, l1, l2, l3, l4, h1, h2, h3, h4, x5, q, e) ==
  /\ D \in Int
  /\ l1 \in Int /\ l2 \in Int /\ l3 \in Int /\ l4 \in Int
  /\ h1 \in Int /\ h2 \in Int /\ h3 \in Int /\ h4 \in Int
  /\ x5 \in Int /\ q \in Int /\ e \in Int /\ x5 + h4 = 4 * q + e

LEMMA ColumnsCarried ==
  ASSUME NEW D, NEW l1, NEW l2, NEW l3, NEW l4, NEW h1, NEW h2, NEW h3, NEW h4,
         NEW x5, NEW q, NEW e, IsBack(D, l1, l2, l3, l4, h1, h2, h3, h4, x5, q, e)
  PROVE  Horner5(D, 5 * q + l1, l2 + h1, l3 + h2, l4 + h3, e) + (4 * Four(D) - 5) * q
           = Horner5(D, D * h1 + l1, D * h2 + l2, D * h3 + l3, D * h4 + l4, x5)
<1>1. /\ D \in Int /\ l1 \in Int /\ l2 \in Int /\ l3 \in Int /\ l4 \in Int
      /\ h1 \in Int /\ h2 \in Int /\ h3 \in Int /\ h4 \in Int
      /\ q \in Int /\ e \in Int /\ x5 = 4 * q + e - h4
  <2>1. x5 \in Int /\ q \in Int /\ e \in Int /\ h4 \in Int /\ x5 + h4 = 4 * q + e
    BY DEF IsBack
  <2>2. x5 = 4 * q + e - h4
    BY <2>1
  <2>3. QED
    BY <2>1, <2>2 DEF IsBack
<1>2. QED
  BY <1>1 DEF Horner5, Four

\* Carries from limb to limb keep the value.
Carrying(D, x1, x2, x3, x4, c1, c2, c3, c4, l1, l2, l3, l4) ==
  /\ x1 = D * c1 + l1 /\ c1 + x2 = D * c2 + l2 /\ c2 + x3 = D * c3 + l3 /\ c3 + x4 = D * c4 + l4
  /\ \A x \in {x1, x2, x3, x4, c1, c2, c3, c4} : x \in Nat
  /\ \A l \in {l1, l2, l3, l4} : l \in 0 .. (D - 1)

LEMMA FourCarries ==
  ASSUME NEW D \in Nat \ {0},
         NEW x1, NEW x2, NEW x3, NEW x4, NEW c1, NEW c2, NEW c3, NEW c4,
         NEW l1, NEW l2, NEW l3, NEW l4,
         Carrying(D, x1, x2, x3, x4, c1, c2, c3, c4, l1, l2, l3, l4)
  PROVE  /\ Horner4(D, x1, x2, x3, x4) = Four(D) * c4 + Horner4(D, l1, l2, l3, l4)
         /\ Horner4(D, l1, l2, l3, l4) \in 0 .. (Four(D) - 1)
<1>1. /\ x1 = D * c1 + l1 /\ x2 = D * c2 + l2 - c1 /\ x3 = D * c3 + l3 - c2 /\ x4 = D * c4 + l4 - c3
      /\ c1 \in Int /\ c2 \in Int /\ c3 \in Int /\ c4 \in Int
      /\ l1 \in 0 .. (D - 1) /\ l2 \in 0 .. (D - 1) /\ l3 \in 0 .. (D - 1) /\ l4 \in 0 .. (D - 1)
  <2>1. /\ x1 = D * c1 + l1 /\ c1 + x2 = D * c2 + l2 /\ c2 + x3 = D * c3 + l3 /\ c3 + x4 = D * c4 + l4
        /\ x2 \in Int /\ x3 \in Int /\ x4 \in Int
        /\ c1 \in Int /\ c2 \in Int /\ c3 \in Int /\ c4 \in Int
        /\ l1 \in 0 .. (D - 1) /\ l2 \in 0 .. (D - 1) /\ l3 \in 0 .. (D - 1) /\ l4 \in 0 .. (D - 1)
    BY DEF Carrying
  <2> DEFINE d2 == D * c2
             d3 == D * c3
             d4 == D * c4
  <2>2. d2 \in Int /\ d3 \in Int /\ d4 \in Int
    BY <2>1
  <2>3. c1 + x2 = d2 + l2 /\ c2 + x3 = d3 + l3 /\ c3 + x4 = d4 + l4
    BY <2>1
  <2> HIDE DEF d2, d3, d4
  <2>4. x2 = d2 + l2 - c1 /\ x3 = d3 + l3 - c2 /\ x4 = d4 + l4 - c3
    BY <2>1, <2>2, <2>3
  <2>5. QED
    BY <2>1, <2>4 DEF d2, d3, d4
<1>2. ASSUME NEW l \in 0 .. (D - 1), NEW y \in Nat \ {0}, NEW x \in 0 .. (y - 1)
      PROVE  l + D * x \in 0 .. (D * y - 1)
  <2> DEFINE z == y - 1 - x
  <2>1. y = x + 1 + z /\ z \in Nat
    OBVIOUS
  <2> HIDE DEF z
  <2>2. D * y = D * x + D + D * z /\ D * z \in Nat /\ D * x \in Nat
    BY <2>1
  <2>3. QED
    BY <2>2
<1>3. l4 \in 0 .. (D - 1) /\ l3 + D * l4 \in 0 .. (D * D - 1) /\ D * D \in Nat \ {0}
  BY <1>1, <1>2
<1>4. l2 + D * (l3 + D * l4) \in 0 .. (D * (D * D) - 1) /\ D * (D * D) \in Nat \ {0}
  BY <1>1, <1>2, <1>3
<1>5. Horner4(D, l1, l2, l3, l4) \in 0 .. (Four(D) - 1)
  BY <1>1, <1>2, <1>4 DEF Horner4, Four
<1>6. Horner4(D, D * c1 + l1, D * c2 + l2 - c1, D * c3 + l3 - c2, D * c4 + l4 - c3)
        = Four(D) * c4 + Horner4(D, l1, l2, l3, l4)
  <2>1. D \in Int /\ l1 \in Int /\ l2 \in Int /\ l3 \in Int /\ l4 \in Int
    BY <1>1
  <2>2. QED
    BY <1>1, <2>1 DEF Horner4, Four
<1>7. QED
  BY <1>1, <1>5, <1>6, Zenon

\* What a carry out of x + 5 above 4 F tells: whether 4 F - 5 fits into x once more.
LastCarry(F, x, y, pad, c, l, k) ==
  /\ F \in Nat /\ F >= 5 /\ x \in 0 .. (F - 1) /\ y \in 0 .. 4 /\ pad \in Nat
  /\ c \in Nat /\ l \in 0 .. (F - 1) /\ 5 + x = F * c + l
  /\ k = (c + y) \div 4

LastSame(F, x, y, pad, k) == (5 * k + x + pad) % F = ((((x + F * y) % (4 * F - 5)) % F) + pad) % F

LEMMA LastReduction ==
  ASSUME NEW F, NEW x, NEW y, NEW pad, NEW c, NEW l, NEW k, LastCarry(F, x, y, pad, c, l, k)
  PROVE  LastSame(F, x, y, pad, k)
<1>0. /\ F \in Nat /\ F >= 5 /\ x \in 0 .. (F - 1) /\ y \in 0 .. 4 /\ pad \in Nat
      /\ c \in Nat /\ l \in 0 .. (F - 1) /\ 5 + x = F * c + l
      /\ k = (c + y) \div 4
  BY Zenon DEF LastCarry
<1>1. c = 0 \/ c = 1
  <2>1. ASSUME c >= 2
        PROVE  FALSE
    <3>1. F * c = F + F + F * (c - 2) /\ F * (c - 2) \in Nat
      BY <1>0, <2>1
    <3>2. QED
      BY <1>0, <3>1
  <2>2. QED
    BY <1>0, <2>1
<1>2. 5 + x = (IF c = 1 THEN F ELSE 0) + l
  <2>1. F * 0 = 0 /\ F * 1 = F
    BY <1>0
  <2>2. QED
    BY <1>0, <1>1, <2>1
<1>3. k = 0 \/ k = 1
  BY <1>0, <1>1
<1> DEFINE X == x + F * y
           Q == 4 * F - 5
           r == X % Q
<1>4. X \in Nat /\ Q \in Nat \ {0} /\ F \in Nat \ {0}
  BY <1>0
<1>5. r = X + 5 * k - F * (4 * k)
  <2>1. F * 0 = 0 /\ F * 1 = F /\ F * 2 = 2 * F /\ F * 3 = 3 * F /\ F * 4 = 4 * F
    BY <1>0
  <2>2. y = 0 \/ y = 1 \/ y = 2 \/ y = 3 \/ y = 4
    BY <1>0
  <2>3. CASE k = 0
    <3>1. X \in 0 .. (Q - 1)
      BY <1>0, <1>1, <1>2, <2>1, <2>2, <2>3
    <3>2. r = X
      BY <1>4, <3>1, Remainders
    <3>3. QED
      BY <1>4, <2>1, <2>3, <3>2
  <2>4. CASE k = 1
    <3>1. X - Q \in 0 .. (Q - 1)
      BY <1>0, <1>1, <1>2, <2>1, <2>2, <2>4
    <3>2. X = Q * 1 + (X - Q) /\ X = X + 5 - 5
      BY <1>4
    <3>3. (Q * 1 + (X - Q)) % Q = X - Q
      <4> DEFINE z == X - Q
      <4>1. z \in 0 .. (Q - 1) /\ Q \in Nat \ {0} /\ 1 \in Int
        BY <1>4, <3>1
      <4> HIDE DEF z, Q, X
      <4>2. (Q * 1 + z) % Q = z
        BY <4>1, Division
      <4>3. QED
        BY <4>2 DEF z
    <3>4. r = X - Q
      BY <3>2, <3>3
    <3> HIDE DEF r
    <3>5. r = X + 5 - 4 * F
      BY <1>4, <3>4
    <3>6. QED
      BY <2>1, <2>4, <3>5
  <2>5. QED
    BY <1>3, <2>3, <2>4
<1>6. r \in Nat
  BY <1>4
<1> DEFINE j == r \div F
           s == r % F
           a == s + pad
           b == 5 * k + x + pad
           d == 4 * k - y + j
<1>7. j \in Int /\ s \in 0 .. (F - 1) /\ r = F * j + s /\ k \in Nat
  BY <1>0, <1>3, <1>4, <1>6
<1> HIDE DEF j, s, r
<1>8. b = F * d + a /\ d \in Int /\ a \in Int
  <2>1. F * d = F * (4 * k) - F * y + F * j /\ F * (4 * k) \in Int /\ F * y \in Int /\ F * j \in Int
    BY <1>0, <1>7
  <2> DEFINE u == F * (4 * k)
             v == F * y
             w == F * j
             z == F * d
  <2>2. z = u - v + w /\ r = (x + v) + 5 * k - u /\ r = w + s /\ u \in Int /\ v \in Int /\ w \in Int
    BY <1>5, <1>7, <2>1
  <2> HIDE DEF u, v, w, z, d
  <2>3. b = z + a
    BY <1>0, <1>7, <2>2
  <2>4. QED
    BY <1>0, <1>7, <2>3 DEF z, d
<1> HIDE DEF a, b, d
<1>9. (F * d + a) % F = a % F
  BY <1>4, <1>8, Shifted
<1>10. b % F = a % F
  BY <1>8, <1>9
<1>11. QED
  BY <1>7, <1>10 DEF a, b, s, r, LastSame

\* The low and the high part of a number.
LEMMA LowAndHigh ==
  ASSUME NEW D \in Nat \ {0}, NEW x \in Nat
  PROVE  /\ x = D * (x \div D) + (x % D) /\ x \div D \in Nat /\ x % D \in 0 .. (D - 1)
         /\ \A y \in Nat : x < D * y => x \div D < y
         /\ x < D => x % D = x
<1>1. x = D * (x \div D) + (x % D) /\ x \div D \in Nat /\ x % D \in 0 .. (D - 1)
  OBVIOUS
<1>2. ASSUME NEW y \in Nat, x < D * y, ~(x \div D < y)
      PROVE  FALSE
  <2> DEFINE h == x \div D
             e == h - y
  <2>1. h \in Nat /\ h >= y /\ x >= D * h
    BY <1>1, <1>2
  <2> HIDE DEF h
  <2>2. h = y + e /\ e \in Nat
    BY <2>1
  <2> HIDE DEF e
  <2>3. D * h = D * y + D * e /\ D * e \in Nat /\ D * y \in Nat
    BY <2>2
  <2>4. QED
    BY <1>2, <2>1, <2>3
<1>3. x < D => x % D = x
  BY Remainders
<1>4. QED
  BY <1>1, <1>2, <1>3

\* A product by doubling, modulo D.
Twice(D, a, k, x) == (((x + x) % D) + (IF k % 2 = 1 THEN a ELSE 0)) % D
Doubles(p, D, a) == p = [k \in Nat |-> IF k = 0 THEN 0 ELSE Twice(D, a, k, p[k \div 2])]
IsMultiple(D, a, k, x) == x = (a * k) % D

LEMMA DoublingStep ==
  ASSUME NEW D \in Nat \ {0}, NEW a \in Nat, NEW k \in Nat \ {0}, NEW h, h = k \div 2,
         NEW x, IsMultiple(D, a, h, x)
  PROVE  IsMultiple(D, a, k, Twice(D, a, k, x))
<1> DEFINE e == k % 2
           y == a * h
           q == y \div D
           j == (x + x) \div D
           m == (x + x) % D
           b == IF e = 1 THEN a ELSE 0
<1>1. h \in Nat /\ (e = 0 \/ e = 1) /\ k = 2 * h + e
  OBVIOUS
<1>2. x = y % D
  BY DEF IsMultiple
<1> HIDE DEF e
<1>3. y \in Nat
  BY <1>1
<1>4. a * k = y + y + b
  <2>1. CASE e = 0
    BY <1>1, <2>1
  <2>2. CASE e = 1
    BY <1>1, <2>2
  <2>3. QED
    BY <1>1, <2>1, <2>2
<1> HIDE DEF y
<1>5. q \in Nat /\ x \in Nat /\ y = D * q + x
  BY <1>2, <1>3
<1> HIDE DEF q
<1>6. j \in Nat /\ m \in Nat /\ x + x = D * j + m
  BY <1>5
<1> HIDE DEF j, m
<1>7. b \in Nat
  OBVIOUS
<1> HIDE DEF b
<1> DEFINE d == q + q + j
           f == m + b
<1>8. y + y + b = D * d + f
  <2>1. D * d = D * q + D * q + D * j /\ D * q \in Nat /\ D * j \in Nat
    BY <1>5, <1>6
  <2> DEFINE u == D * q
             v == D * j
             w == D * d
  <2>2. w = u + u + v /\ y = u + x /\ x + x = v + m /\ u \in Nat /\ v \in Nat
    BY <1>5, <1>6, <2>1
  <2> HIDE DEF u, v, w, d
  <2>3. y + y + b = w + f
    BY <1>5, <1>6, <1>7, <2>2
  <2>4. QED
    BY <2>3 DEF w
<1>9. d \in Int /\ f \in Int
  BY <1>5, <1>6, <1>7
<1> HIDE DEF d, f
<1>10. (D * d + f) % D = f % D
  BY <1>9, Shifted
<1>11. (a * k) % D = f % D
  BY <1>4, <1>8, <1>10
<1>12. Twice(D, a, k, x) = f % D
  BY DEF f, m, b, e, Twice
<1>13. QED
  BY <1>11, <1>12 DEF IsMultiple

LEMMA Doubling ==
  ASSUME NEW D \in Nat \ {0}, NEW a \in Nat, NEW b \in Nat, NEW p, p = CHOOSE f : Doubles(f, D, a)
  PROVE  p[b] = (a * b) % D
<1> DEFINE g == [k \in Nat |-> (a * k) % D]
<1>1. Doubles(g, D, a)
  <2>1. ASSUME NEW k \in Nat
        PROVE  g[k] = IF k = 0 THEN 0 ELSE Twice(D, a, k, g[k \div 2])
    <3>1. CASE k = 0
      <4>1. a * 0 = 0 /\ 0 % D = 0
        BY Remainders
      <4>2. QED
        BY <3>1, <4>1
    <3>2. CASE k # 0
      <4>1. k \div 2 \in Nat
        OBVIOUS
      <4> DEFINE h == k \div 2
                 x == g[h]
      <4>2. k \in Nat \ {0} /\ h = k \div 2 /\ IsMultiple(D, a, h, x) /\ g[k] = (a * k) % D
        BY <3>2, <4>1 DEF IsMultiple
      <4> HIDE DEF g, h, x
      <4>3. IsMultiple(D, a, k, Twice(D, a, k, x))
        BY <4>2, DoublingStep
      <4>4. g[k] = Twice(D, a, k, x)
        BY <4>2, <4>3 DEF IsMultiple
      <4>5. QED
        BY <3>2, <4>4 DEF h, x
    <3>3. QED
      BY <3>1, <3>2
  <2>2. g = [k \in Nat |-> g[k]]
    OBVIOUS
  <2> HIDE DEF g
  <2>3. QED
    BY <2>1, <2>2, Zenon DEF Doubles
<1> HIDE DEF g
<1>2. Doubles(p, D, a)
  BY <1>1, Zenon
<1> DEFINE T == {k \in 0 .. b : \A i \in 0 .. k : p[i] = (a * i) % D}
<1>3. p[0] = (a * 0) % D
  <2>1. a * 0 = 0 /\ 0 % D = 0
    BY Remainders
  <2>2. p[0] = 0
    BY <1>2 DEF Doubles
  <2>3. QED
    BY <2>1, <2>2
<1>4. 0 \in T
  <2>1. \A i \in 0 .. 0 : i = 0
    OBVIOUS
  <2>2. \A i \in 0 .. 0 : p[i] = (a * i) % D
    BY <1>3, <2>1, Zenon
  <2>3. 0 \in 0 .. b
    OBVIOUS
  <2>4. QED
    BY <2>2, <2>3, Zenon
<1>5. ASSUME NEW k \in 0 .. (b - 1), k \in T
      PROVE  k + 1 \in T
  <2> DEFINE n == k + 1
             h == n \div 2
             x == p[h]
  <2>1. n \in Nat \ {0} /\ h \in 0 .. k /\ n \in 0 .. b
    OBVIOUS
  <2>2. IsMultiple(D, a, h, x)
    BY <1>5, <2>1 DEF IsMultiple
  <2>3. p[n] = Twice(D, a, n, x)
    BY <1>2, <2>1 DEF Doubles
  <2>4. h = n \div 2
    OBVIOUS
  <2> HIDE DEF n, x, h
  <2>5. IsMultiple(D, a, n, Twice(D, a, n, x))
    BY <2>1, <2>2, <2>4, DoublingStep
  <2>6. p[n] = (a * n) % D
    BY <2>3, <2>5 DEF IsMultiple
  <2>7. \A i \in 0 .. n : i \in 0 .. k \/ i = n
    BY DEF n
  <2>8. \A i \in 0 .. n : p[i] = (a * i) % D
    BY <1>5, <2>6, <2>7
  <2>9. QED
    BY <2>1, <2>8 DEF n
<1>6. \A k \in 0 .. b : k \in T
  <2> HIDE DEF T
  <2>1. QED
    BY <1>4, <1>5, InductionTo
<1>7. b \in T
  BY <1>6
<1>8. QED
  BY <1>7

\* How large a column of a product may get: four factors below 2 D, one at most 5, and r
\* below D / 16, times 5/4 where it came back from above.
Factors5(D, s1, s2, s3, s4, s5) ==
  /\ s1 \in 0 .. (2 * D - 2) /\ s2 \in 0 .. (2 * D - 2) /\ s3 \in 0 .. (2 * D - 2) /\ s4 \in 0 .. (2 * D - 2)
  /\ s5 \in 0 .. 5
Quarters(D, q1, q2, q3, q4, m) ==
  /\ q1 \in Nat /\ q2 \in Nat /\ q3 \in Nat /\ q4 \in Nat /\ m \in 0 .. 3
  /\ \E b \in Nat : /\ D = 16 * b /\ b >= 2
                    /\ 4 * q1 + m <= b - 1 /\ 4 * q2 <= b - 1 /\ 4 * q3 <= b - 1 /\ 4 * q4 <= b - 1
Column(D, x) == x \in Nat /\ x < D * (D - 9) /\ x < D * D
LowColumn(D, x) == Column(D, x) /\ \E b \in Nat : D = 16 * b /\ x < D * (8 * b - 8)

LEMMA TermSmall ==
  ASSUME NEW G \in Nat, NEW b \in Nat, NEW S \in Nat, NEW s \in 0 .. S, NEW r \in 0 .. b, G = S * b
  PROVE  s * r \in 0 .. G
<1>1. S * b = s * r + ((S - s) * r + S * (b - r))
  OBVIOUS
<1>2. s * r \in Nat /\ (S - s) * r \in Nat /\ S * (b - r) \in Nat
  OBVIOUS
<1>3. QED
  BY <1>1, <1>2

LEMMA ColumnsSmall ==
  ASSUME NEW D, NEW s1, NEW s2, NEW s3, NEW s4, NEW s5, Factors5(D, s1, s2, s3, s4, s5),
         NEW q1, NEW q2, NEW q3, NEW q4, NEW m, Quarters(D, q1, q2, q3, q4, m)
  PROVE  /\ Column(D, s1*(4*q1 + m) + s2*(5*q4) + s3*(5*q3) + s4*(5*q2) + s5*(5*q1))
         /\ Column(D, s1*(4*q2) + s2*(4*q1 + m) + s3*(5*q4) + s4*(5*q3) + s5*(5*q2))
         /\ Column(D, s1*(4*q3) + s2*(4*q2) + s3*(4*q1 + m) + s4*(5*q4) + s5*(5*q3))
         /\ LowColumn(D, s1*(4*q4) + s2*(4*q3) + s3*(4*q2) + s4*(4*q1 + m) + s5*(5*q4))
         /\ s5*m \in 0 .. 15
<1>1. PICK b \in Nat : /\ D = 16 * b /\ b >= 2
                       /\ 4 * q1 + m <= b - 1 /\ 4 * q2 <= b - 1 /\ 4 * q3 <= b - 1 /\ 4 * q4 <= b - 1
  BY DEF Quarters
<1>2. /\ q1 \in Nat /\ q2 \in Nat /\ q3 \in Nat /\ q4 \in Nat /\ m \in 0 .. 3
      /\ s1 \in 0 .. (2 * D - 2) /\ s2 \in 0 .. (2 * D - 2) /\ s3 \in 0 .. (2 * D - 2) /\ s4 \in 0 .. (2 * D - 2)
      /\ s5 \in 0 .. 5
  BY DEF Quarters, Factors5
<1> DEFINE S == 2 * D - 2
           c == b - 1
           G == S * c
<1>3. S \in Nat /\ c \in Nat /\ c >= 1 /\ D \in Nat /\ D >= 32
  BY <1>1
<1>4. G = 32 * (b * b) - 34 * b + 2 /\ G \in Nat
  <2>1. S = 32 * b - 2
    BY <1>1
  <2> HIDE DEF S
  <2>2. QED
    BY <1>3, <2>1
<1>5. ASSUME NEW s \in 0 .. S, NEW r \in 0 .. c
      PROVE  s * r \in 0 .. G
  <2>1. G = S * c
    OBVIOUS
  <2> HIDE DEF G, S, c
  <2>2. QED
    BY <1>3, <1>4, <2>1, TermSmall
<1>6. ASSUME NEW s \in 0 .. S, NEW q \in Nat, 4 * q <= c
      PROVE  4 * (s * (5 * q)) \in 0 .. 5 * G /\ s * (5 * q) \in Nat
  <2>1. s * (4 * q) \in 0 .. G /\ s \in Nat
    BY <1>3, <1>5, <1>6
  <2> HIDE DEF G, S, c
  <2>2. 4 * (s * (5 * q)) = 5 * (s * (4 * q)) /\ s * (5 * q) \in Nat
    BY <2>1
  <2>3. QED
    BY <1>4, <2>1, <2>2
<1>7. ASSUME NEW q \in Nat, 4 * q <= c
      PROVE  4 * (s5 * (5 * q)) \in 0 .. 25 * c /\ s5 * (5 * q) \in Nat
  <2>1. s5 = 0 \/ s5 = 1 \/ s5 = 2 \/ s5 = 3 \/ s5 = 4 \/ s5 = 5
    BY <1>2
  <2>2. 0 * (5 * q) = 0 /\ 1 * (5 * q) = 5 * q
    OBVIOUS
  <2> HIDE DEF G, S, c
  <2>3. QED
    BY <1>3, <1>7, <2>1, <2>2
<1>8. D * (D - 9) = 256 * (b * b) - 144 * b /\ D * (8 * b - 8) = 128 * (b * b) - 128 * b /\ D * D = 256 * (b * b)
      /\ b * b \in Nat
  BY <1>1
<1>9. ASSUME NEW x \in Nat, 4 * x <= 19 * G + 25 * c
      PROVE  Column(D, x)
  <2> DEFINE bb == b * b
             u == D * (D - 9)
             v == D * D
             g == G
  <2>1. 4 * x <= 19 * g + 25 * (b - 1) /\ g = 32 * bb - 34 * b + 2 /\ u = 256 * bb - 144 * b /\ v = 256 * bb
        /\ bb \in Nat
    BY <1>4, <1>8, <1>9
  <2>2. bb >= b
    <3>1. bb = b + b * (b - 1) /\ b * (b - 1) \in Nat
      BY <1>1
    <3>2. QED
      BY <1>1, <3>1
  <2> HIDE DEF bb, u, v, g
  <2>3. x < u /\ x < v
    BY <1>1, <2>1, <2>2
  <2>4. QED
    BY <2>3 DEF Column, u, v
<1>10. ASSUME NEW x \in Nat, 4 * x <= 16 * G + 25 * c
       PROVE  LowColumn(D, x)
  <2> DEFINE bb == b * b
             u == D * (8 * b - 8)
             g == G
  <2>1. 4 * x <= 16 * g + 25 * (b - 1) /\ g = 32 * bb - 34 * b + 2 /\ u = 128 * bb - 128 * b /\ bb \in Nat /\ g \in Nat
    BY <1>4, <1>8, <1>10
  <2>2. 4 * x <= 19 * g + 25 * c
    BY <1>3, <2>1
  <2>3. Column(D, x)
    BY <1>9, <2>2
  <2> HIDE DEF bb, u, g
  <2>4. x < u
    BY <1>1, <2>1
  <2>5. QED
    BY <1>1, <2>3, <2>4 DEF LowColumn, u
<1>11. \A s \in 0 .. S : s * (4*q1 + m) \in 0 .. G /\ s * (4*q2) \in 0 .. G /\ s * (4*q3) \in 0 .. G /\ s * (4*q4) \in 0 .. G
  <2>1. 4*q1 + m \in 0 .. c /\ 4*q2 \in 0 .. c /\ 4*q3 \in 0 .. c /\ 4*q4 \in 0 .. c
    BY <1>1, <1>2
  <2>2. QED
    BY <1>5, <2>1
<1>12. 4*q1 <= c /\ 4*q2 <= c /\ 4*q3 <= c /\ 4*q4 <= c
  BY <1>1, <1>2
<1>13. \A s \in 0 .. S : /\ 4 * (s * (5*q2)) \in 0 .. 5*G /\ s * (5*q2) \in Nat
                         /\ 4 * (s * (5*q3)) \in 0 .. 5*G /\ s * (5*q3) \in Nat
                         /\ 4 * (s * (5*q4)) \in 0 .. 5*G /\ s * (5*q4) \in Nat
  BY <1>2, <1>6, <1>12
<1>14. /\ 4 * (s5 * (5*q1)) \in 0 .. 25*c /\ s5 * (5*q1) \in Nat /\ 4 * (s5 * (5*q2)) \in 0 .. 25*c /\ s5 * (5*q2) \in Nat
       /\ 4 * (s5 * (5*q3)) \in 0 .. 25*c /\ s5 * (5*q3) \in Nat /\ 4 * (s5 * (5*q4)) \in 0 .. 25*c /\ s5 * (5*q4) \in Nat
  BY <1>2, <1>7, <1>12
<1>15. s1 \in 0 .. S /\ s2 \in 0 .. S /\ s3 \in 0 .. S /\ s4 \in 0 .. S
  BY <1>2
<1>16. ASSUME NEW a \in 0 .. G, NEW d \in Nat, NEW e \in Nat, NEW f \in Nat, NEW h \in Nat,
              4 * d \in 0 .. 5*G, 4 * e \in 0 .. 5*G, 4 * f \in 0 .. 5*G, 4 * h \in 0 .. 25*c
       PROVE  Column(D, a + d + e + f + h)
  <2> DEFINE x == a + d + e + f + h
  <2>1. x \in Nat /\ 4 * x <= 19 * G + 25 * c
    <3> HIDE DEF G, c
    <3>1. QED
      BY <1>3, <1>4, <1>16
  <2> HIDE DEF x
  <2>2. Column(D, x)
    BY <1>9, <2>1
  <2>3. QED
    BY <2>2 DEF x
<1> HIDE DEF S, G, c
<1>17. Column(D, s1*(4*q1 + m) + s2*(5*q4) + s3*(5*q3) + s4*(5*q2) + s5*(5*q1))
  BY <1>11, <1>13, <1>14, <1>15, <1>16
<1>18. \A a \in 0 .. G : 4 * a \in 0 .. 4 * G /\ a \in Nat
  BY <1>4
<1>19. Column(D, s1*(4*q2) + s2*(4*q1 + m) + s3*(5*q4) + s4*(5*q3) + s5*(5*q2))
  <2> DEFINE a == s1*(4*q2)
             d == s2*(4*q1 + m)
             e == s3*(5*q4)
             f == s4*(5*q3)
             h == s5*(5*q2)
  <2>1. a \in 0 .. G /\ d \in 0 .. G /\ e \in Nat /\ f \in Nat /\ h \in Nat
        /\ 4 * e \in 0 .. 5*G /\ 4 * f \in 0 .. 5*G /\ 4 * h \in 0 .. 25*c
    BY <1>11, <1>13, <1>14, <1>15
  <2> HIDE DEF a, d, e, f, h
  <2>2. d \in Nat /\ 4 * d \in 0 .. 5*G
    BY <1>4, <2>1
  <2>3. Column(D, a + d + e + f + h)
    BY <1>16, <2>1, <2>2
  <2>4. QED
    BY <2>3 DEF a, d, e, f, h
<1>20. Column(D, s1*(4*q3) + s2*(4*q2) + s3*(4*q1 + m) + s4*(5*q4) + s5*(5*q3))
  <2> DEFINE a == s1*(4*q3)
             d == s2*(4*q2)
             e == s3*(4*q1 + m)
             f == s4*(5*q4)
             h == s5*(5*q3)
  <2>1. a \in 0 .. G /\ d \in 0 .. G /\ e \in 0 .. G /\ f \in Nat /\ h \in Nat
        /\ 4 * f \in 0 .. 5*G /\ 4 * h \in 0 .. 25*c
    BY <1>11, <1>13, <1>14, <1>15
  <2> HIDE DEF a, d, e, f, h
  <2>2. d \in Nat /\ 4 * d \in 0 .. 5*G /\ e \in Nat /\ 4 * e \in 0 .. 5*G
    BY <1>4, <2>1
  <2>3. Column(D, a + d + e + f + h)
    BY <1>16, <2>1, <2>2
  <2>4. QED
    BY <2>3 DEF a, d, e, f, h
<1>21. LowColumn(D, s1*(4*q4) + s2*(4*q3) + s3*(4*q2) + s4*(4*q1 + m) + s5*(5*q4))
  <2> DEFINE a == s1*(4*q4)
             d == s2*(4*q3)
             e == s3*(4*q2)
             f == s4*(4*q1 + m)
             h == s5*(5*q4)
             x == a + d + e + f + h
  <2>1. a \in 0 .. G /\ d \in 0 .. G /\ e \in 0 .. G /\ f \in 0 .. G /\ h \in Nat
        /\ 4 * h \in 0 .. 25*c
    BY <1>11, <1>14, <1>15
  <2> HIDE DEF a, d, e, f, h
  <2>2. x \in Nat /\ 4 * x <= 16 * G + 25 * c
    BY <1>3, <1>4, <2>1
  <2> HIDE DEF x
  <2>3. LowColumn(D, x)
    BY <1>10, <2>2
  <2>4. QED
    BY <2>3 DEF x, a, d, e, f, h
<1>22. s5*m \in 0 .. 15
  <2>1. s5 = 0 \/ s5 = 1 \/ s5 = 2 \/ s5 = 3 \/ s5 = 4 \/ s5 = 5
    BY <1>2
  <2>2. m = 0 \/ m = 1 \/ m = 2 \/ m = 3
    BY <1>2
  <2>3. QED
    BY <2>1, <2>2
<1>23. QED
  BY <1>17, <1>19, <1>20, <1>21, <1>22

\* The fifth limb apart.
FiveInts(D, x1, x2, x3, x4, x5) ==
  D \in Int /\ x1 \in Int /\ x2 \in Int /\ x3 \in Int /\ x4 \in Int /\ x5 \in Int

LEMMA FifthLimb ==
  ASSUME NEW D, NEW x1, NEW x2, NEW x3, NEW x4, NEW x5, FiveInts(D, x1, x2, x3, x4, x5)
  PROVE  /\ Horner5(D, x1, x2, x3, x4, x5) = Horner4(D, x1, x2, x3, x4) + Four(D) * x5
         /\ Horner4(D, x1, x2, x3, x4) \in Int /\ Four(D) * x5 \in Int /\ Four(D) \in Int
<1>1. D \in Int /\ x1 \in Int /\ x2 \in Int /\ x3 \in Int /\ x4 \in Int /\ x5 \in Int
  BY DEF FiveInts
<1>2. QED
  BY <1>1 DEF Horner4, Horner5, Four

\* The five columns of the product, by name.
IsProduct(D, x1, x2, x3, x4, x5, s1, s2, s3, s4, s5, q1, q2, q3, q4, m) ==
  /\ x1 = s1*(4*q1 + m) + s2*(5*q4) + s3*(5*q3) + s4*(5*q2) + s5*(5*q1)
  /\ x2 = s1*(4*q2) + s2*(4*q1 + m) + s3*(5*q4) + s4*(5*q3) + s5*(5*q2)
  /\ x3 = s1*(4*q3) + s2*(4*q2) + s3*(4*q1 + m) + s4*(5*q4) + s5*(5*q3)
  /\ x4 = s1*(4*q4) + s2*(4*q3) + s3*(4*q2) + s4*(4*q1 + m) + s5*(5*q4)
  /\ x5 = s5*m
  /\ Factors5(D, s1, s2, s3, s4, s5) /\ Quarters(D, q1, q2, q3, q4, m)

\* They are columns, and of the product's value.
FiveColumns(D, x1, x2, x3, x4, x5) ==
  /\ Column(D, x1) /\ Column(D, x2) /\ Column(D, x3) /\ LowColumn(D, x4) /\ x5 \in 0 .. 15

LEMMA ProductOf ==
  ASSUME NEW D, NEW x1, NEW x2, NEW x3, NEW x4, NEW x5, NEW s1, NEW s2, NEW s3, NEW s4, NEW s5,
         NEW q1, NEW q2, NEW q3, NEW q4, NEW m,
         IsProduct(D, x1, x2, x3, x4, x5, s1, s2, s3, s4, s5, q1, q2, q3, q4, m)
  PROVE  /\ FiveColumns(D, x1, x2, x3, x4, x5)
         /\ ProductSame(D, Horner5(D, x1, x2, x3, x4, x5), Horner5(D, s1, s2, s3, s4, s5),
                        Horner4(D, 4 * q1 + m, 4 * q2, 4 * q3, 4 * q4))
<1>1. Factors5(D, s1, s2, s3, s4, s5) /\ Quarters(D, q1, q2, q3, q4, m)
  BY DEF IsProduct
<1>2. /\ x1 = s1*(4*q1 + m) + s2*(5*q4) + s3*(5*q3) + s4*(5*q2) + s5*(5*q1)
      /\ x2 = s1*(4*q2) + s2*(4*q1 + m) + s3*(5*q4) + s4*(5*q3) + s5*(5*q2)
      /\ x3 = s1*(4*q3) + s2*(4*q2) + s3*(4*q1 + m) + s4*(5*q4) + s5*(5*q3)
      /\ x4 = s1*(4*q4) + s2*(4*q3) + s3*(4*q2) + s4*(4*q1 + m) + s5*(5*q4)
      /\ x5 = s5*m
  BY Zenon DEF IsProduct
<1>3. /\ Column(D, s1*(4*q1 + m) + s2*(5*q4) + s3*(5*q3) + s4*(5*q2) + s5*(5*q1))
      /\ Column(D, s1*(4*q2) + s2*(4*q1 + m) + s3*(5*q4) + s4*(5*q3) + s5*(5*q2))
      /\ Column(D, s1*(4*q3) + s2*(4*q2) + s3*(4*q1 + m) + s4*(5*q4) + s5*(5*q3))
      /\ LowColumn(D, s1*(4*q4) + s2*(4*q3) + s3*(4*q2) + s4*(4*q1 + m) + s5*(5*q4))
      /\ s5*m \in 0 .. 15
  BY <1>1, ColumnsSmall, Zenon
<1>4. FiveColumns(D, x1, x2, x3, x4, x5)
  BY <1>2, <1>3, Zenon DEF FiveColumns
<1>5. NineFactors(D, s1, s2, s3, s4, s5, q1, q2, q3, q4, m)
  BY <1>1 DEF Factors5, Quarters, NineFactors
<1>6. ProductSame(D,
        Horner5(D, s1*(4*q1 + m) + s2*(5*q4) + s3*(5*q3) + s4*(5*q2) + s5*(5*q1),
                   s1*(4*q2) + s2*(4*q1 + m) + s3*(5*q4) + s4*(5*q3) + s5*(5*q2),
                   s1*(4*q3) + s2*(4*q2) + s3*(4*q1 + m) + s4*(5*q4) + s5*(5*q3),
                   s1*(4*q4) + s2*(4*q3) + s3*(4*q2) + s4*(4*q1 + m) + s5*(5*q4),
                   s5*m),
        Horner5(D, s1, s2, s3, s4, s5), Horner4(D, 4 * q1 + m, 4 * q2, 4 * q3, 4 * q4))
  BY <1>5, ProductColumns, Zenon
<1>7. QED
  BY <1>2, <1>4, <1>6, Zenon

\* Sums and remainders of remainders.
LEMMA ModSum ==
  ASSUME NEW D \in Nat \ {0}, NEW a \in Nat, NEW b \in Nat
  PROVE  ((a % D) + b) % D = (a + b) % D
<1> DEFINE q == a \div D
           r == a % D
           x == D * q
<1>1. q \in Int /\ r \in Nat /\ a = x + r /\ x \in Int
  OBVIOUS
<1> HIDE DEF q, r
<1>2. (D * q + (r + b)) % D = (r + b) % D
  <2> DEFINE y == r + b
  <2>1. y \in Int
    BY <1>1
  <2> HIDE DEF y
  <2>2. (D * q + y) % D = y % D
    BY <1>1, <2>1, Shifted
  <2>3. QED
    BY <2>2 DEF y
<1>3. D * q + (r + b) = a + b
  <2> HIDE DEF x
  <2>1. x + (r + b) = a + b
    BY <1>1
  <2>2. QED
    BY <2>1 DEF x
<1>4. QED
  BY <1>2, <1>3 DEF r

LEMMA ModOfMod ==
  ASSUME NEW D \in Nat \ {0}, NEW E \in Nat \ {0}, NEW x \in Nat
  PROVE  (x % (D * E)) % D = x % D
<1> DEFINE r == x % D
           k == (x \div D) % E
<1>1. x % (D * E) = r + D * k /\ r \in 0 .. (D - 1) /\ k \in Nat
  <2>1. x % (D * E) = r + D * k
    BY DigitStep, Zenon
  <2>2. x \div D \in Nat /\ r \in 0 .. (D - 1)
    OBVIOUS
  <2>3. \A y \in Nat : y % E \in Nat
    OBVIOUS
  <2>4. k \in Nat
    BY <2>2, <2>3, Zenon
  <2>5. QED
    BY <2>1, <2>2, <2>4
<1> HIDE DEF k, r
<1>2. D * k + r = r + D * k
  BY <1>1
<1>3. (D * k + r) % D = r % D
  <2>1. k \in Int /\ r \in Int
    BY <1>1
  <2>2. QED
    BY <2>1, Shifted
<1>4. r % D = r
  BY <1>1, Remainders
<1>5. QED
  BY <1>1, <1>2, <1>3, <1>4, Zenon DEF r

\* The blocks a text of n bytes fills.
BlocksOf(D, n) == (n \div D) + (IF n % D > 0 THEN 1 ELSE 0)

LEMMA BlocksFilled ==
  ASSUME NEW D \in Nat \ {0}, NEW n \in Nat
  PROVE  /\ BlocksOf(D, n) \in Nat
         /\ (D - (n % D)) % D \in Nat
         /\ n + ((D - (n % D)) % D) = D * BlocksOf(D, n)
         /\ \A i \in 1 .. n : (i - 1) \div D \in 0 .. (BlocksOf(D, n) - 1)
<1> DEFINE q == n \div D
           r == n % D
           e == IF r > 0 THEN 1 ELSE 0
           g == (D - r) % D
<1>1. q \in Nat /\ r \in 0 .. (D - 1) /\ n = D * q + r
  OBVIOUS
<1> HIDE DEF q, r
<1>2. g = IF r = 0 THEN 0 ELSE D - r
  <2>1. CASE r = 0
    <3>1. D - r = D
      BY <2>1
    <3>2. D % D = 0
      BY Remainders
    <3>3. QED
      BY <2>1, <3>1, <3>2
  <2>2. CASE r # 0
    <3>1. D - r \in 0 .. (D - 1)
      BY <1>1, <2>2
    <3>2. QED
      BY <2>2, <3>1, Remainders
  <2>3. QED
    BY <2>1, <2>2
<1> HIDE DEF g
<1>3. n + g = D * (q + e) /\ g \in Nat /\ q + e \in Nat
  <2>1. D * (q + 1) = D * q + D /\ D * (q + 0) = D * q /\ D * q \in Nat
    BY <1>1
  <2>2. QED
    BY <1>1, <1>2, <2>1
<1>4. ASSUME NEW i \in 1 .. n
      PROVE  (i - 1) \div D \in 0 .. ((q + e) - 1)
  <2> DEFINE k == (i - 1) \div D
             s == (i - 1) % D
  <2>1. k \in Nat /\ s \in 0 .. (D - 1) /\ i - 1 = D * k + s
    OBVIOUS
  <2> HIDE DEF k, s
  <2>2. D * (k + 1) = D * k + D /\ D * (q + e) \in Nat /\ D * k \in Nat
    BY <1>1, <2>1
  <2>3. D * k < D * (q + e)
    <3> DEFINE u == D * k
               w == D * (q + e)
    <3>1. n + g = w /\ u \in Nat /\ w \in Nat /\ i - 1 = u + s /\ n = D * q + r
      BY <1>1, <1>3, <2>1, <2>2
    <3> HIDE DEF u, w
    <3>2. u < w
      BY <1>3, <2>1, <3>1
    <3>3. QED
      BY <3>2 DEF u, w
  <2>4. k < q + e
    <3> DEFINE c == q + e
    <3>1. c \in Nat /\ D * k < D * c /\ D * k \in Nat
      BY <1>1, <2>2, <2>3
    <3> HIDE DEF c
    <3>2. k \in 0 .. (c - 1)
      BY <2>1, <3>1, Cancel
    <3>3. QED
      BY <3>1, <3>2 DEF c
  <2>5. QED
    BY <1>1, <2>1, <2>4 DEF k
<1>5. QED
  BY <1>3, <1>4, Zenon DEF BlocksOf, q, r, g

\* A place behind whole rows.
LEMMA BehindRows ==
  ASSUME NEW D \in Nat \ {0}, NEW d \in Nat, NEW j \in Nat
  PROVE  (D * d + j) \div D = d + (j \div D) /\ (D * d + j) % D = j % D
<1> DEFINE q == j \div D
           r == j % D
<1>1. q \in Nat /\ r \in 0 .. (D - 1) /\ j = D * q + r
  OBVIOUS
<1> HIDE DEF q, r
<1>2. D * (d + q) = D * d + D * q /\ D * d \in Nat /\ D * q \in Nat /\ d + q \in Int
  BY <1>1
<1>3. D * d + j = D * (d + q) + r
  BY <1>1, <1>2
<1>4. (D * (d + q) + r) \div D = d + q /\ (D * (d + q) + r) % D = r
  <2> DEFINE k == d + q
  <2>1. k \in Int
    BY <1>2
  <2> HIDE DEF k
  <2>2. (D * k + r) \div D = k /\ (D * k + r) % D = r
    BY <1>1, <2>1, Division
  <2>3. QED
    BY <2>2 DEF k
<1>5. QED
  BY <1>3, <1>4, Zenon DEF q, r

(* -------- texts -------- *)

\* A text is a sequence, whatever its entries are.
Entries(t) == {t[i] : i \in DOMAIN t}
IsText(t)  == t \in Seq(Entries(t))

\* A function on 1 .. n is a sequence.
LEMMA TextFrom ==
  ASSUME NEW n \in Nat, NEW f, f = [i \in 1 .. n |-> f[i]]
  PROVE  IsText(f) /\ Len(f) = n
<1>1. DOMAIN f = 1 .. n
  OBVIOUS
<1>2. f \in [1 .. n -> Entries(f)]
  BY <1>1 DEF Entries
<1>3. f \in Seq(Entries(f)) /\ Len(f) = n
  <2> DEFINE S == Entries(f)
  <2> HIDE DEF S
  <2>1. f \in Seq(S) /\ Len(f) = n
    BY <1>2 DEF S
  <2>2. QED
    BY <2>1 DEF S
<1>4. QED
  BY <1>3 DEF IsText

\* A text is a sequence of its own bytes.
LEMMA TextIs ==
  ASSUME NEW t, IsText(t)
  PROVE  Len(t) \in Nat /\ DOMAIN t = 1 .. Len(t) /\ t = [i \in 1 .. Len(t) |-> t[i]]
<1> DEFINE S == Entries(t)
<1>1. t \in Seq(S)
  BY DEF IsText
<1> HIDE DEF S
<1>2. QED
  BY <1>1

\* What one more byte makes of a text.
LEMMA TextAppend ==
  ASSUME NEW t, IsText(t), NEW x
  PROVE  /\ IsText(Append(t, x)) /\ Len(Append(t, x)) = Len(t) + 1
         /\ \A i \in 1 .. Len(t) : Append(t, x)[i] = t[i]
         /\ Append(t, x)[Len(t) + 1] = x
<1> DEFINE S == Entries(t) \cup {x}
           a == Append(t, x)
<1>1. t \in Seq(Entries(t)) /\ Entries(t) \subseteq S /\ x \in S
  BY DEF IsText
<1>2. Len(t) \in Nat /\ DOMAIN t = 1 .. Len(t) /\ t = [i \in 1 .. Len(t) |-> t[i]]
  BY TextIs
<1>3. \A i \in 1 .. Len(t) : t[i] \in S
  BY <1>2 DEF Entries
<1> HIDE DEF S
<1>4. t \in Seq(S) /\ x \in S
  BY <1>1, <1>2, <1>3
<1>5. /\ Len(a) = Len(t) + 1 /\ a[Len(t) + 1] = x
      /\ \A i \in 1 .. Len(t) : a[i] = t[i]
      /\ a \in Seq(S)
  BY <1>4
<1> HIDE DEF a
<1>6. a = [i \in 1 .. Len(t) + 1 |-> a[i]] /\ Len(t) + 1 \in Nat
  BY <1>2, <1>5
<1>7. IsText(a)
  BY <1>6, TextFrom
<1>8. QED
  BY <1>5, <1>7 DEF a

\* Two texts one behind the other are a text, and each keeps its places.
LEMMA TextConcat ==
  ASSUME NEW s, IsText(s), NEW t, IsText(t)
  PROVE  /\ IsText(s \o t) /\ Len(s \o t) = Len(s) + Len(t)
         /\ \A i \in 1 .. Len(s) : (s \o t)[i] = s[i]
         /\ \A i \in 1 .. Len(t) : (s \o t)[Len(s) + i] = t[i]
<1> DEFINE S == Entries(s) \cup Entries(t)
           a == s \o t
<1>1. /\ Len(s) \in Nat /\ DOMAIN s = 1 .. Len(s) /\ s = [i \in 1 .. Len(s) |-> s[i]]
      /\ Len(t) \in Nat /\ DOMAIN t = 1 .. Len(t) /\ t = [i \in 1 .. Len(t) |-> t[i]]
  BY TextIs
<1>2. (\A i \in 1 .. Len(s) : s[i] \in S) /\ (\A i \in 1 .. Len(t) : t[i] \in S)
  BY <1>1 DEF Entries
<1>3. s \in Seq(Entries(s)) /\ t \in Seq(Entries(t))
  BY DEF IsText
<1> HIDE DEF S
<1>4. s \in Seq(S) /\ t \in Seq(S)
  BY <1>1, <1>2, <1>3
<1>5. /\ a \in Seq(S) /\ Len(a) = Len(s) + Len(t)
      /\ \A i \in 1 .. Len(s) : a[i] = s[i]
      /\ \A i \in 1 .. Len(t) : a[Len(s) + i] = t[i]
  BY <1>4
<1> HIDE DEF a
<1>6. a = [i \in 1 .. Len(s) + Len(t) |-> a[i]] /\ Len(s) + Len(t) \in Nat
  BY <1>1, <1>5
<1>7. IsText(a)
  BY <1>6, TextFrom
<1>8. QED
  BY <1>5, <1>7 DEF a

LEMMA TextPart ==
  ASSUME NEW t, IsText(t), NEW m \in 1 .. Len(t) + 1, NEW n \in (m - 1) .. Len(t)
  PROVE  /\ IsText(SubSeq(t, m, n)) /\ Len(SubSeq(t, m, n)) = n - m + 1
         /\ \A i \in 1 .. n - m + 1 : SubSeq(t, m, n)[i] = t[m + i - 1]
<1> DEFINE S == Entries(t)
           a == SubSeq(t, m, n)
<1>1. t \in Seq(S)
  BY DEF IsText
<1>2. Len(t) \in Nat
  BY TextIs
<1> HIDE DEF S
<1>3. /\ a \in Seq(S) /\ Len(a) = n - m + 1
      /\ \A i \in 1 .. n - m + 1 : a[i] = t[m + i - 1]
  <2>1. CASE n = m - 1
    BY <1>1, <1>2, <2>1
  <2>2. CASE n >= m
    BY <1>1, <1>2, <2>2
  <2>3. QED
    BY <1>2, <2>1, <2>2
<1> HIDE DEF a
<1>4. a = [i \in 1 .. n - m + 1 |-> a[i]] /\ n - m + 1 \in Nat
  BY <1>2, <1>3
<1>5. IsText(a)
  BY <1>4, TextFrom
<1>6. QED
  BY <1>3, <1>5 DEF a

LEMMA TextHead ==
  ASSUME NEW t, IsText(t), NEW n \in 0 .. Len(t)
  PROVE  /\ IsText(SubSeq(t, 1, n)) /\ Len(SubSeq(t, 1, n)) = n
         /\ \A i \in 1 .. n : SubSeq(t, 1, n)[i] = t[i]
<1>1. Len(t) \in Nat
  BY TextIs
<1>2. ASSUME NEW m, m = 1
      PROVE  /\ IsText(SubSeq(t, m, n)) /\ Len(SubSeq(t, m, n)) = n
             /\ \A i \in 1 .. n : SubSeq(t, m, n)[i] = t[i]
  <2>1. m \in 1 .. Len(t) + 1 /\ n \in (m - 1) .. Len(t) /\ n - m + 1 = n
    BY <1>1, <1>2
  <2>2. \A i \in 1 .. n : m + i - 1 = i
    BY <1>2
  <2>3. QED
    BY <2>1, <2>2, TextPart
<1>3. QED
  BY <1>2

LEMMA TextTail ==
  ASSUME NEW t, IsText(t), NEW m \in 0 .. Len(t)
  PROVE  /\ IsText(SubSeq(t, m + 1, Len(t))) /\ Len(SubSeq(t, m + 1, Len(t))) = Len(t) - m
         /\ \A i \in 1 .. Len(t) - m : SubSeq(t, m + 1, Len(t))[i] = t[m + i]
<1>1. Len(t) \in Nat
  BY TextIs
<1>2. ASSUME NEW k, k = m + 1, NEW n, n = Len(t)
      PROVE  /\ IsText(SubSeq(t, k, n)) /\ Len(SubSeq(t, k, n)) = n - m
             /\ \A i \in 1 .. n - m : SubSeq(t, k, n)[i] = t[m + i]
  <2>1. k \in 1 .. Len(t) + 1 /\ n \in (k - 1) .. Len(t) /\ n - k + 1 = n - m
    BY <1>1, <1>2
  <2>2. \A i \in 1 .. n - m : k + i - 1 = m + i
    BY <1>1, <1>2
  <2>3. QED
    BY <2>1, <2>2, TextPart
<1>3. QED
  BY <1>2

\* Texts of one length with the same bytes are the same.
LEMMA TextEqual ==
  ASSUME NEW s, IsText(s), NEW t, IsText(t), Len(s) = Len(t), \A i \in 1 .. Len(s) : s[i] = t[i]
  PROVE  s = t
BY TextIs

LEMMA TextOne ==
  ASSUME NEW t, IsText(t), NEW x
  PROVE  t \o <<x>> = Append(t, x)
<1> DEFINE one == <<x>>
<1>1. IsText(one) /\ Len(one) = 1 /\ one[1] = x
  BY DEF IsText, Entries
<1> HIDE DEF one
<1>2. /\ IsText(t \o one) /\ Len(t \o one) = Len(t) + Len(one)
      /\ \A i \in 1 .. Len(t) : (t \o one)[i] = t[i]
      /\ \A i \in 1 .. Len(one) : (t \o one)[Len(t) + i] = one[i]
  <2>1. IsText(one)
    BY <1>1
  <2>2. QED
    BY <2>1, TextConcat
<1>3. /\ IsText(Append(t, x)) /\ Len(Append(t, x)) = Len(t) + 1
      /\ \A i \in 1 .. Len(t) : Append(t, x)[i] = t[i]
      /\ Append(t, x)[Len(t) + 1] = x
  BY TextAppend, Zenon
<1> DEFINE a == t \o one
           b == Append(t, x)
<1> HIDE DEF a, b
<1>4. Len(t) \in Nat
  BY TextIs
<1>5. /\ IsText(a) /\ Len(a) = Len(t) + 1
      /\ \A i \in 1 .. Len(t) : a[i] = t[i]
      /\ a[Len(t) + 1] = x
  BY <1>1, <1>2 DEF a
<1>6. /\ IsText(b) /\ Len(b) = Len(t) + 1
      /\ \A i \in 1 .. Len(t) : b[i] = t[i]
      /\ b[Len(t) + 1] = x
  BY <1>3 DEF b
<1>7. \A i \in 1 .. Len(t) + 1 : a[i] = b[i]
  BY <1>4, <1>5, <1>6
<1>8. a = b
  BY <1>4, <1>5, <1>6, <1>7, TextEqual
<1>9. QED
  BY <1>8 DEF a, b, one

\* A text is its head and its tail.
LEMMA TextSplit ==
  ASSUME NEW t, IsText(t), NEW n \in 0 .. Len(t)
  PROVE  t = SubSeq(t, 1, n) \o SubSeq(t, n + 1, Len(t))
<1> DEFINE a == SubSeq(t, 1, n)
           b == SubSeq(t, n + 1, Len(t))
           c == a \o b
<1>1. Len(t) \in Nat
  BY TextIs
<1>2. IsText(a) /\ Len(a) = n /\ \A i \in 1 .. n : a[i] = t[i]
  BY TextHead
<1>3. IsText(b) /\ Len(b) = Len(t) - n /\ \A i \in 1 .. Len(t) - n : b[i] = t[n + i]
  BY TextTail
<1> HIDE DEF a, b
<1>4. /\ IsText(c) /\ Len(c) = Len(a) + Len(b)
      /\ \A i \in 1 .. Len(a) : c[i] = a[i]
      /\ \A i \in 1 .. Len(b) : c[Len(a) + i] = b[i]
  <2>1. IsText(a) /\ IsText(b)
    BY <1>2, <1>3
  <2>2. QED
    BY <2>1, TextConcat
<1> HIDE DEF c
<1>5. Len(c) = Len(t)
  BY <1>1, <1>2, <1>3, <1>4
<1>6. ASSUME NEW i \in 1 .. Len(t)
      PROVE  c[i] = t[i]
  <2>1. CASE i <= n
    BY <1>1, <1>2, <1>4, <2>1
  <2>2. CASE i > n
    <3>1. i - n \in 1 .. Len(b) /\ n + (i - n) = i
      BY <1>1, <1>3, <2>2
    <3>2. c[Len(a) + (i - n)] = b[i - n]
      BY <1>4, <3>1
    <3>3. b[i - n] = t[n + (i - n)]
      BY <1>3, <3>1
    <3>4. QED
      BY <1>2, <3>1, <3>2, <3>3
  <2>3. QED
    BY <1>1, <2>1, <2>2
<1>7. c = t
  BY <1>4, <1>5, <1>6, TextEqual
<1>8. QED
  BY <1>7 DEF a, b, c

\* Four texts may be put together from either end.
Regroups(a, b, c, d) == ((a \o b) \o c) \o d = a \o (b \o (c \o d))

LEMMA TextAssoc ==
  ASSUME NEW a, IsText(a), NEW b, IsText(b), NEW c, IsText(c), NEW d, IsText(d)
  PROVE  Regroups(a, b, c, d)
<1> DEFINE S == (Entries(a) \cup Entries(b)) \cup (Entries(c) \cup Entries(d))
<1>1. /\ a \in Seq(Entries(a)) /\ b \in Seq(Entries(b)) /\ c \in Seq(Entries(c)) /\ d \in Seq(Entries(d))
      /\ Entries(a) \subseteq S /\ Entries(b) \subseteq S /\ Entries(c) \subseteq S /\ Entries(d) \subseteq S
  BY DEF IsText
<1> HIDE DEF S
<1>2. \A R, t : t \in Seq(R) /\ R \subseteq S => t \in Seq(S)
  OBVIOUS
<1>3. a \in Seq(S) /\ b \in Seq(S) /\ c \in Seq(S) /\ d \in Seq(S)
  BY <1>1, <1>2
<1>4. a \o b \in Seq(S) /\ c \o d \in Seq(S)
  BY <1>3
<1>5. \A p, q, r \in Seq(S) : (p \o q) \o r = p \o (q \o r)
  BY ConcatAssociative
<1>6. ((a \o b) \o c) \o d = (a \o b) \o (c \o d)
  BY <1>3, <1>4, <1>5, ZenonT(60)
<1>7. (a \o b) \o (c \o d) = a \o (b \o (c \o d))
  BY <1>3, <1>4, <1>5, ZenonT(60)
<1>8. QED
  BY <1>6, <1>7, Zenon DEF Regroups

LEMMA EmptyText ==
  /\ IsText(<<>>) /\ Len(<<>>) = 0
  /\ \A t : IsText(t) => <<>> \o t = t
<1>1. IsText(<<>>) /\ Len(<<>>) = 0
  BY DEF IsText
<1>2. ASSUME NEW t, IsText(t)
      PROVE  <<>> \o t = t
  <2>1. t \in Seq(Entries(t))
    BY <1>2 DEF IsText
  <2>2. QED
    BY <2>1
<1>3. QED
  BY <1>1, <1>2

\* Texts put one behind the other, and where each of their bytes is then.
IsTexts(q)    == IsText(q) /\ \A k \in 1 .. Len(q) : IsText(q[k])
Joins(msg, q) == msg[0] = <<>> /\ \A k \in 1 .. Len(q) : msg[k] = msg[k - 1] \o q[k]

Longer(msg, q, k) ==
  /\ Len(msg[k]) = Len(msg[k - 1]) + Len(q[k])
  /\ \A i \in 1 .. Len(msg[k - 1]) : msg[k][i] = msg[k - 1][i]
  /\ \A i \in 1 .. Len(q[k]) : msg[k][Len(msg[k - 1]) + i] = q[k][i]

LEMMA JoinsLengths ==
  ASSUME NEW q, IsTexts(q), NEW msg, Joins(msg, q)
  PROVE  /\ \A k \in 0 .. Len(q) : IsText(msg[k])
         /\ \A k \in 1 .. Len(q) : Longer(msg, q, k)
<1> DEFINE n == Len(q)
           T == {k \in 0 .. n : IsText(msg[k])}
<1>1. /\ n \in Nat /\ msg[0] = <<>>
      /\ \A k \in 1 .. n : IsText(q[k]) /\ msg[k] = msg[k - 1] \o q[k]
  BY TextIs DEF IsTexts, Joins
<1> HIDE DEF n
<1>2. 0 \in T
  <2>1. IsText(msg[0])
    BY <1>1, EmptyText
  <2>2. QED
    BY <1>1, <2>1
<1>3. ASSUME NEW k \in 0 .. (n - 1), k \in T
      PROVE  k + 1 \in T
  <2>1. k + 1 \in 1 .. n /\ (k + 1) - 1 = k /\ k + 1 \in 0 .. n
    BY <1>1
  <2>2. IsText(q[k + 1]) /\ msg[k + 1] = msg[k] \o q[k + 1] /\ IsText(msg[k])
    BY <1>1, <1>3, <2>1
  <2>3. IsText(msg[k + 1])
    BY <2>2, TextConcat
  <2>4. QED
    BY <2>1, <2>3
<1>4. \A k \in 0 .. n : IsText(msg[k])
  <2> HIDE DEF T
  <2>1. \A k \in 0 .. n : k \in T
    BY <1>1, <1>2, <1>3, InductionTo
  <2>2. QED
    BY <2>1 DEF T
<1>5. ASSUME NEW k \in 1 .. n
      PROVE  Longer(msg, q, k)
  <2> DEFINE a == msg[k - 1]
             b == q[k]
  <2>1. k - 1 \in 0 .. n
    BY <1>1
  <2>2. IsText(a) /\ IsText(b) /\ msg[k] = a \o b
    BY <1>1, <1>4, <2>1
  <2> HIDE DEF a, b
  <2>3. /\ Len(a \o b) = Len(a) + Len(b)
        /\ \A i \in 1 .. Len(a) : (a \o b)[i] = a[i]
        /\ \A i \in 1 .. Len(b) : (a \o b)[Len(a) + i] = b[i]
    BY <2>2, TextConcat
  <2>4. QED
    BY <2>2, <2>3, Zenon DEF a, b, Longer
<1>6. QED
  BY <1>4, <1>5 DEF n

LEMMA JoinsPlaces ==
  ASSUME NEW q, IsTexts(q), NEW msg, Joins(msg, q), NEW k \in 1 .. Len(q)
  PROVE  /\ Len(msg[k]) <= Len(msg[Len(q)])
         /\ \A j \in 1 .. Len(q[k]) : msg[Len(q)][Len(msg[k - 1]) + j] = q[k][j]
<1> DEFINE n == Len(q)
           s == Len(msg[k - 1])
           Kept(m) == /\ Len(msg[k]) <= Len(msg[m])
                      /\ \A j \in 1 .. Len(q[k]) : msg[m][s + j] = q[k][j]
           T == {m \in 0 .. n : m >= k => Kept(m)}
<1>1. n \in Nat /\ k \in 1 .. n /\ k - 1 \in 0 .. n /\ k \in 0 .. n
  BY TextIs DEF IsTexts
<1>2. /\ \A m \in 0 .. n : Len(msg[m]) \in Nat
      /\ \A m \in 1 .. n : /\ Len(msg[m]) = Len(msg[m - 1]) + Len(q[m]) /\ Len(q[m]) \in Nat
                           /\ \A i \in 1 .. Len(msg[m - 1]) : msg[m][i] = msg[m - 1][i]
                           /\ \A i \in 1 .. Len(q[m]) : msg[m][Len(msg[m - 1]) + i] = q[m][i]
  <2>1. (\A m \in 0 .. n : IsText(msg[m])) /\ (\A m \in 1 .. n : Longer(msg, q, m))
    BY JoinsLengths, Zenon
  <2>2. \A m \in 0 .. n : Len(msg[m]) \in Nat
    BY <2>1, TextIs
  <2>3. \A m \in 1 .. n : Len(q[m]) \in Nat
    BY TextIs DEF IsTexts
  <2>4. QED
    BY <2>1, <2>2, <2>3, Zenon DEF Longer
<1> HIDE DEF n
<1>3. s \in Nat /\ Len(q[k]) \in Nat /\ Len(msg[k]) = s + Len(q[k])
  BY <1>1, <1>2
<1>4. Kept(k)
  <2>1. \A i \in 1 .. Len(q[k]) : msg[k][Len(msg[k - 1]) + i] = q[k][i]
    BY <1>1, <1>2, Zenon
  <2>2. Len(msg[k]) <= Len(msg[k])
    BY <1>1, <1>2
  <2>3. QED
    BY <2>1, <2>2, Zenon
<1> HIDE DEF s
<1>5. ASSUME NEW m \in 0 .. (n - 1), m >= k, Kept(m)
      PROVE  Kept(m + 1)
  <2>1. m + 1 \in 1 .. n /\ (m + 1) - 1 = m /\ m \in 0 .. n
    BY <1>1
  <2>2. /\ Len(msg[m + 1]) = Len(msg[m]) + Len(q[m + 1]) /\ Len(q[m + 1]) \in Nat /\ Len(msg[m]) \in Nat
        /\ \A i \in 1 .. Len(msg[m]) : msg[m + 1][i] = msg[m][i]
    <3>1. /\ Len(msg[m + 1]) = Len(msg[(m + 1) - 1]) + Len(q[m + 1]) /\ Len(q[m + 1]) \in Nat
          /\ \A i \in 1 .. Len(msg[(m + 1) - 1]) : msg[m + 1][i] = msg[(m + 1) - 1][i]
      BY <1>2, <2>1, Zenon
    <3>2. Len(msg[m]) \in Nat
      BY <1>2, <2>1, Zenon
    <3>3. QED
      BY <2>1, <3>1, <3>2, Zenon
  <2>3. Len(msg[k]) <= Len(msg[m]) /\ \A j \in 1 .. Len(q[k]) : msg[m][s + j] = q[k][j]
    BY <1>5
  <2>4. Len(msg[k]) <= Len(msg[m + 1])
    <3> DEFINE a == Len(msg[k])
               b == Len(msg[m])
               e == Len(q[m + 1])
    <3>1. Len(msg[m + 1]) = b + e /\ e \in Nat /\ b \in Nat /\ a <= b /\ a \in Nat
      BY <1>3, <2>2, <2>3
    <3> HIDE DEF a, b, e
    <3>2. a <= Len(msg[m + 1])
      BY <3>1
    <3>3. QED
      BY <3>2 DEF a
  <2>5. ASSUME NEW j \in 1 .. Len(q[k])
        PROVE  msg[m + 1][s + j] = q[k][j]
    <3>1. s + j \in 1 .. Len(msg[m])
      BY <1>3, <2>2, <2>3
    <3>2. QED
      BY <2>2, <2>3, <3>1
  <2>6. QED
    BY <2>4, <2>5
<1> HIDE DEF Kept
<1>6. 0 \in T
  BY <1>1
<1>7. ASSUME NEW m \in 0 .. (n - 1), m \in T
      PROVE  m + 1 \in T
  <2>1. m + 1 \in 0 .. n /\ (m + 1 >= k => m >= k \/ m + 1 = k)
    BY <1>1
  <2>2. m >= k => Kept(m + 1)
    BY <1>5, <1>7
  <2>3. QED
    BY <1>4, <2>1, <2>2
<1>8. n \in T
  <2> HIDE DEF T
  <2>1. \A m \in 0 .. n : m \in T
    BY <1>1, <1>6, <1>7, InductionTo
  <2>2. QED
    BY <1>1, <2>1
<1>9. Kept(n)
  BY <1>1, <1>8
<1>10. QED
  BY <1>9 DEF Kept, n, s

(* -------- recursion by halves -------- *)

\* A recursion from a number to its half, with a value in S at every step, has a solution.
HalvesIn(S, F) == \A n \in Nat \ {0} : \A s \in S : F[n][s] \in S
ByHalves(g, S, a, F) ==
  g \in [Nat -> S] /\ g[0] = a /\ \A n \in Nat \ {0} : g[n] = F[n][g[n \div 2]]
HalvesTo(g, F, n) == \A k \in 1 .. n : g[k] = F[k][g[k \div 2]]

LEMMA Half ==
  ASSUME NEW k \in Nat \ {0}
  PROVE  k \div 2 \in 0 .. (k - 1)
OBVIOUS

LEMMA HalvingUpTo ==
  ASSUME NEW S, NEW a \in S, NEW F, HalvesIn(S, F), NEW n \in Nat
  PROVE  \E g \in [0 .. n -> S] : g[0] = a /\ HalvesTo(g, F, n)
<1> DEFINE T == {m \in 0 .. n : \E g \in [0 .. m -> S] : g[0] = a /\ HalvesTo(g, F, m)}
<1>1. 0 \in T
  <2> DEFINE g == [k \in 0 .. 0 |-> a]
  <2>1. g \in [0 .. 0 -> S] /\ g[0] = a /\ 0 \in 0 .. n
    OBVIOUS
  <2>2. HalvesTo(g, F, 0)
    BY DEF HalvesTo
  <2> HIDE DEF g
  <2>3. QED
    BY <2>1, <2>2
<1>2. ASSUME NEW m \in 0 .. (n - 1), m \in T
      PROVE  m + 1 \in T
  <2>1. PICK g \in [0 .. m -> S] : g[0] = a /\ HalvesTo(g, F, m)
    BY <1>2
  <2> DEFINE h == [k \in 0 .. (m + 1) |-> IF k = m + 1 THEN F[m + 1][g[(m + 1) \div 2]] ELSE g[k]]
  <2>2. (m + 1) \div 2 \in 0 .. m /\ m + 1 \in Nat \ {0}
    <3>1. m + 1 \in Nat \ {0} /\ (m + 1) - 1 = m
      OBVIOUS
    <3>2. QED
      BY <3>1, Half
  <2>3. F[m + 1][g[(m + 1) \div 2]] \in S
    <3>1. g[(m + 1) \div 2] \in S
      BY <2>1, <2>2
    <3>2. QED
      BY <2>2, <3>1 DEF HalvesIn
  <2>4. h \in [0 .. (m + 1) -> S] /\ h[0] = a /\ \A k \in 0 .. m : h[k] = g[k]
    BY <2>1, <2>3
  <2>5. ASSUME NEW k \in 1 .. (m + 1)
        PROVE  h[k] = F[k][h[k \div 2]]
    <3>1. k \div 2 \in 0 .. (k - 1) /\ k \div 2 \in 0 .. m
      <4>1. k \in Nat \ {0} /\ k - 1 <= m
        OBVIOUS
      <4>2. k \div 2 \in 0 .. (k - 1)
        BY <4>1, Half
      <4>3. QED
        BY <4>1, <4>2
    <3>2. h[k \div 2] = g[k \div 2]
      BY <2>4, <3>1
    <3>3. CASE k = m + 1
      BY <3>2, <3>3
    <3>4. CASE k \in 1 .. m
      <4>1. h[k] = g[k]
        BY <2>4, <3>4
      <4>2. g[k] = F[k][g[k \div 2]]
        BY <2>1, <3>4 DEF HalvesTo
      <4>3. QED
        BY <3>2, <4>1, <4>2
    <3>5. QED
      BY <3>3, <3>4
  <2> HIDE DEF h
  <2>6. HalvesTo(h, F, m + 1)
    BY <2>5 DEF HalvesTo
  <2>7. QED
    BY <2>4, <2>6
<1>3. \A k \in 0 .. n : k \in T
  <2> HIDE DEF T
  <2>1. QED
    BY <1>1, <1>2, InductionTo
<1>4. QED
  BY <1>3

LEMMA HalvingRecursion ==
  ASSUME NEW S, NEW a \in S, NEW F, HalvesIn(S, F)
  PROVE  \E g : ByHalves(g, S, a, F)
<1> DEFINE Up(g, n) == g \in [0 .. n -> S] /\ g[0] = a /\ HalvesTo(g, F, n)
           up(n) == CHOOSE g : Up(g, n)
           G == [n \in Nat |-> up(n)[n]]
<1>1. ASSUME NEW n \in Nat
      PROVE  Up(up(n), n)
  <2>1. \E g : Up(g, n)
    BY HalvingUpTo
  <2> HIDE DEF Up
  <2>2. QED
    BY <2>1
<1> HIDE DEF up
<1>2. ASSUME NEW m \in Nat, NEW n \in Nat, NEW k \in 0 .. m, k <= n
      PROVE  up(m)[k] = up(n)[k]
  <2> DEFINE Off == {i \in 0 .. k : up(m)[i] # up(n)[i]}
  <2>1. SUFFICES ASSUME Off # {}
                 PROVE  FALSE
    OBVIOUS
  <2>2. PICK i \in Off : \A j \in Off : i <= j
    <3>1. Off \subseteq Nat
      OBVIOUS
    <3> HIDE DEF Off
    <3>2. QED
      BY <2>1, <3>1, Least
  <2>3. i \in 0 .. k /\ up(m)[i] # up(n)[i]
    BY <2>2
  <2>4. i # 0
    BY <1>1, <2>3
  <2>5. i \div 2 \in 0 .. (i - 1)
    <3>1. i \in Nat \ {0}
      BY <2>3, <2>4
    <3>2. QED
      BY <3>1, Half
  <2>6. up(m)[i \div 2] = up(n)[i \div 2]
    <3>1. i \div 2 \in 0 .. k /\ ~(i <= i \div 2)
      BY <2>3, <2>5
    <3>2. i \div 2 \notin Off
      BY <2>2, <3>1
    <3>3. QED
      BY <3>1, <3>2
  <2>7. i \in 1 .. m /\ i \in 1 .. n
    BY <1>2, <2>3, <2>4
  <2>8. up(m)[i] = F[i][up(m)[i \div 2]] /\ up(n)[i] = F[i][up(n)[i \div 2]]
    BY <1>1, <2>7 DEF HalvesTo
  <2>9. QED
    BY <2>3, <2>6, <2>8
<1>3. G \in [Nat -> S]
  <2>1. ASSUME NEW n \in Nat
        PROVE  up(n)[n] \in S
    <3>1. up(n) \in [0 .. n -> S] /\ n \in 0 .. n
      BY <1>1
    <3>2. QED
      BY <3>1
  <2>2. QED
    BY <2>1
<1>4. G[0] = a
  BY <1>1
<1>5. ASSUME NEW n \in Nat \ {0}
      PROVE  G[n] = F[n][G[n \div 2]]
  <2>1. n \div 2 \in 0 .. (n - 1)
    BY Half
  <2>2. n \div 2 \in Nat /\ n \div 2 <= n /\ n \in 1 .. n /\ n \div 2 \in 0 .. n
    BY <2>1
  <2>3. up(n)[n] = F[n][up(n)[n \div 2]]
    BY <1>1, <2>2 DEF HalvesTo
  <2>4. up(n)[n \div 2] = up(n \div 2)[n \div 2]
    BY <1>2, <2>2
  <2>5. QED
    BY <2>2, <2>3, <2>4
<1> HIDE DEF G
<1>6. ByHalves(G, S, a, F)
  BY <1>3, <1>4, <1>5 DEF ByHalves
<1>7. QED
  BY <1>6

\* Induction over all natural numbers: from each to the next, or from all below.
LEMMA InductionOver ==
  ASSUME NEW T, 0 \in T, \A n \in Nat : n \in T => n + 1 \in T
  PROVE  \A n \in Nat : n \in T
<1> SUFFICES ASSUME NEW m \in Nat PROVE m \in T
  OBVIOUS
<1>1. \A k \in 0 .. (m - 1) : k \in T => k + 1 \in T
  OBVIOUS
<1>2. \A k \in 0 .. m : k \in T
  BY <1>1, InductionTo
<1>3. QED
  BY <1>2

LEMMA InductionBelow ==
  ASSUME NEW T, \A n \in Nat : (\A k \in 0 .. (n - 1) : k \in T) => n \in T
  PROVE  \A n \in Nat : n \in T
<1> DEFINE Out == {n \in Nat : n \notin T}
<1>1. SUFFICES ASSUME Out # {}
               PROVE  FALSE
  OBVIOUS
<1>2. PICK n \in Out : \A k \in Out : n <= k
  <2>1. Out \subseteq Nat
    OBVIOUS
  <2> HIDE DEF Out
  <2>2. QED
    BY <1>1, <2>1, Least
<1>3. n \in Nat /\ n \notin T
  BY <1>2
<1>4. ASSUME NEW k \in 0 .. (n - 1)
      PROVE  k \in T
  <2>1. k \in Nat /\ ~(n <= k)
    BY <1>3
  <2>2. QED
    BY <1>2, <2>1
<1>5. QED
  BY <1>3, <1>4

\* Every number is twice a smaller one, or one more than that.
LEMMA EvenOrOdd ==
  ASSUME NEW n \in Nat
  PROVE  \E m \in Nat : \/ n = 2 * m /\ n % 2 = 0 /\ n \div 2 = m
                        \/ n = 2 * m + 1 /\ n % 2 = 1 /\ n \div 2 = m
<1> DEFINE m == n \div 2
<1>1. m \in Nat /\ n = 2 * m + (n % 2) /\ n % 2 \in {0, 1}
  OBVIOUS
<1>2. QED
  BY <1>1

LEMMA Doubled ==
  ASSUME NEW m \in Nat
  PROVE  (2 * m) \div 2 = m /\ (2 * m) % 2 = 0 /\ (2 * m + 1) \div 2 = m /\ (2 * m + 1) % 2 = 1
OBVIOUS

\* A recursion with values in S for as long as its steps stay in S.
Guarded(g, S, a, F, n) ==
  g \in [0 .. n -> S] /\ g[0] = a /\ \A k \in 1 .. n : F[k][g[k - 1]] \in S => g[k] = F[k][g[k - 1]]

LEMMA GuardedRecursion ==
  ASSUME NEW n \in Nat, NEW S, NEW a \in S, NEW F
  PROVE  \E g : Guarded(g, S, a, F, n)
<1> DEFINE G == [k \in 1 .. n |-> [s \in S |-> IF F[k][s] \in S THEN F[k][s] ELSE a]]
<1>1. StaysIn(S, G, n)
  BY DEF StaysIn
<1>2. \A k \in 1 .. n : \A s \in S : F[k][s] \in S => G[k][s] = F[k][s]
  OBVIOUS
<1> HIDE DEF G
<1>3. PICK g : Follows(g, S, a, G, n)
  BY <1>1, Recursion
<1>4. ASSUME NEW k \in 1 .. n
      PROVE  g[k - 1] \in S /\ g[k] = G[k][g[k - 1]]
  <2>1. k - 1 \in 0 .. n
    OBVIOUS
  <2>2. QED
    BY <1>3, <2>1 DEF Follows
<1>5. Guarded(g, S, a, F, n)
  BY <1>2, <1>3, <1>4 DEF Guarded, Follows
<1>6. QED
  BY <1>5
===============================================================================
