-------------------------- MODULE ScalarMultProofs --------------------------
(***************************************************************************)
(* Lemmas about what EdDsa and Ephemeral compute with the arithmetic of    *)
(* CurveProofs: the equation of a signature, the multiples by the combs and *)
(* by the ladder, the two forms of a key, the division by a secret, dirty  *)
(* keys, and both directions of Elligator.                                 *)
(***************************************************************************)
EXTENDS CurveProofs

LEMMA BaseIs == B \in Affine /\ B # Origin /\ Mult(L, B) = Origin
<1>1. B_x \in Field /\ B_y \in Field /\ OnCurve(B)
  BY BasePointAssumption DEF Field
<1>2. B \in Affine
  BY <1>1 DEF Affine, B
<1>3. L \in Nat
  BY SizeOfL
<1> QED
  BY <1>2, <1>3, BasePointAssumption, MultIs DEF Origin

\* A reduced scalar has three bits less than a scalar may have.
LEMMA ReducedIs ==
  /\ L \in Nat /\ L <= 2 ^ (Bits - 3)
  /\ \A x \in 0 .. (L - 1) : x \in Slidable
<1>1. Bits \in Nat /\ Bits >= 8
  BY TwosAre
<1>2. Bits - 3 + 3 = Bits /\ Bits - 3 \in Nat /\ 3 <= Bits /\ 1 + 2 = 3 /\ 1 + 1 = 2
  BY <1>1
<1>3. 2 ^ Bits = 2 ^ (Bits - 3) * 2 ^ 3
  <2> DEFINE u == Bits - 3
             v == 3
  <2>1. u \in Nat /\ v \in Nat /\ u + v <= Bits /\ u + v = Bits
    BY <1>1
  <2> HIDE DEF u, v
  <2>2. 2 ^ (u + v) = 2 ^ u * 2 ^ v
    BY <2>1, TwosSum
  <2>3. 2 ^ Bits = 2 ^ u * 2 ^ v
    BY <2>1, <2>2
  <2> QED
    BY <2>3 DEF u, v
<1>4. 2 ^ 3 = 8
  <2>1. 0 \in 0 .. (Bits - 1) /\ 1 \in 0 .. (Bits - 1) /\ 2 \in 0 .. (Bits - 1)
    BY <1>1
  <2>2. 2 ^ (0 + 1) = 2 * 2 ^ 0 /\ 2 ^ (1 + 1) = 2 * 2 ^ 1 /\ 2 ^ (2 + 1) = 2 * 2 ^ 2 /\ 2 ^ 0 = 1
    BY <2>1, TwosAre
  <2> QED
    BY <2>2
<1>5. 8 * L < 2 ^ Bits /\ L \in Nat
  BY SizeOfL, WidthAssumption
<1>6. 2 ^ (Bits - 3) \in Nat
  BY <1>1, TwosAre
<1> DEFINE W == 2 ^ (Bits - 3)
<1>7. 8 * L < W * 8 /\ W \in Nat
  BY <1>3, <1>4, <1>5, <1>6
<1> HIDE DEF W
<1>8. L <= W
  BY <1>5, <1>7
<1>9. \A x \in 0 .. (L - 1) : x \in 0 .. (W - 1)
  BY <1>5, <1>7, <1>8
<1> QED
  BY <1>5, <1>8, <1>9 DEF W, Slidable


\* The values of the first k digits.
ValuesOf(g, q, n) == Horner(g, q, n) /\ \A k \in 0 .. n : g[k] \in Int

LEMMA ValuesExist ==
  ASSUME NEW q \in Seq(Int), NEW n \in Nat, n = Len(q)
  PROVE  \E g : ValuesOf(g, q, n) /\ g = [k \in 0 .. n |-> g[k]]
<1> DEFINE F == [k \in 1 .. n |-> [s \in Int |-> 2 * s + q[k]]]
<1>1. \A k \in 1 .. n : q[k] \in Int
  OBVIOUS
<1>2. \A k \in 1 .. n, s \in Int : F[k][s] = 2 * s + q[k] /\ F[k][s] \in Int
  BY <1>1
<1> HIDE DEF F
<1>3. PICK g : Follows(g, Int, 0, F, n)
  <2>1. StaysIn(Int, F, n)
    BY <1>2 DEF StaysIn
  <2>2. QED
    BY <2>1, Recursion, 0 \in Int
<1>4. g \in [0 .. n -> Int] /\ g[0] = 0 /\ \A k \in 1 .. n : g[k] = F[k][g[k - 1]]
  BY <1>3 DEF Follows
<1>5. \A k \in 1 .. n : k - 1 \in 0 .. n
  OBVIOUS
<1>6. \A k \in 1 .. n : g[k] = 2 * g[k - 1] + q[k]
  BY <1>2, <1>4, <1>5
<1> QED
  BY <1>4, <1>6 DEF ValuesOf, Horner

LEMMA DigitsEnd ==
  ASSUME NEW q, NEW width, NEW n \in Nat, NEW x, DigitsFor(q, width, n, x), NEW g, ValuesOf(g, q, n)
  PROVE  g[n] = x
BY DEF DigitsFor, ValuesOf, IsValue

\* What the loop in SlideExact computes.
ValueOf(q) ==
  LET n == Len(q)
      value[k \in 0 .. n] == IF k = 0 THEN 0 ELSE 2 * value[k - 1] + q[k]
  IN value[n]
Evaluates(g, q) == g = [k \in 0 .. Len(q) |-> IF k = 0 THEN 0 ELSE 2 * g[k - 1] + q[k]]

LEMMA ValueUnfold == ASSUME NEW q PROVE ValueOf(q) = (CHOOSE g : Evaluates(g, q))[Len(q)]
BY Zenon DEF ValueOf, Evaluates

LEMMA ValueIs ==
  ASSUME NEW q, NEW width, NEW n \in Nat, NEW x, DigitsFor(q, width, n, x)
  PROVE  ValueOf(q) = x
<1>1. q \in Seq(Int) /\ n = Len(q)
  BY DEF DigitsFor
<1>2. PICK g : ValuesOf(g, q, n) /\ g = [k \in 0 .. n |-> g[k]]
  BY <1>1, ValuesExist
<1>3. g = [k \in 0 .. n |-> IF k = 0 THEN 0 ELSE 2 * g[k - 1] + q[k]]
  <2>1. \A k \in 0 .. n : g[k] = IF k = 0 THEN 0 ELSE 2 * g[k - 1] + q[k]
    <3> TAKE k \in 0 .. n
    <3>1. k = 0 \/ k \in 1 .. n
      OBVIOUS
    <3> QED
      BY <3>1, <1>2 DEF ValuesOf, Horner
  <2> QED
    BY <1>2, <2>1, Zenon
<1>4. Evaluates(g, q)
  BY <1>1, <1>3 DEF Evaluates
<1> DEFINE h == CHOOSE f : Evaluates(f, q)
<1>5. Evaluates(h, q)
  BY <1>4
<1> HIDE DEF h
<1>6. ValuesOf(h, q, n)
  <2> DEFINE T == {k \in 0 .. n : h[k] \in Int}
  <2>1. h = [k \in 0 .. n |-> IF k = 0 THEN 0 ELSE 2 * h[k - 1] + q[k]]
    BY <1>1, <1>5 DEF Evaluates
  <2>2. h[0] = 0 /\ \A k \in 1 .. n : h[k] = 2 * h[k - 1] + q[k]
    <3>1. 0 \in 0 .. n /\ \A k \in 1 .. n : k \in 0 .. n /\ k # 0
      OBVIOUS
    <3>2. \A k \in 0 .. n : h[k] = IF k = 0 THEN 0 ELSE 2 * h[k - 1] + q[k]
      BY <2>1
    <3> QED
      BY <3>1, <3>2
  <2>3. \A k \in 1 .. n : q[k] \in Int
    BY <1>1
  <2>4. 0 \in T
    BY <2>2
  <2>5. \A k \in 0 .. (n - 1) : k \in T => k + 1 \in T
    <3> TAKE k \in 0 .. (n - 1)
    <3>1. k + 1 \in 1 .. n /\ (k + 1) - 1 = k /\ k + 1 \in 0 .. n
      OBVIOUS
    <3>2. h[k + 1] = 2 * h[k] + q[k + 1] /\ q[k + 1] \in Int
      BY <3>1, <2>2, <2>3
    <3> QED
      BY <3>1, <3>2
  <2> HIDE DEF T
  <2>6. \A k \in 0 .. n : k \in T
    BY <2>4, <2>5, InductionTo
  <2> QED
    BY <2>2, <2>6 DEF T, ValuesOf, Horner
<1>7. h[n] = x
  BY <1>6, DigitsEnd
<1> QED
  BY <1>1, <1>7, ValueUnfold DEF h

\* A sliding window's digits add up to the scalar, are odd and inside their table.
LEMMA SlideHolds ==
  ASSUME NEW s \in 0 .. (L - 1), NEW width \in 2 .. 8, NEW top,
         top = slide_init(s).next_check \/ top = TopBit + 1
  PROVE  LET q == Digits(s, width, top) IN
         /\ ValueOf(q) = s
         /\ \A k \in 1 .. Len(q) :
              q[k] # 0 => q[k] % 2 = 1 /\ q[k] \in -(2 ^ (width - 1)) .. 2 ^ (width - 1)
<1> DEFINE q == Digits(s, width, top)
           M == 2 ^ (width - 1)
<1>1. s \in Slidable
  BY ReducedIs
<1>2. slide_init(s).next_check \in 1 .. (Bits - 3) /\ Bits \in Nat /\ Bits >= 8
  BY <1>1, SlideInitIs, TwosAre
<1>3. top \in slide_init(s).next_check .. (Bits - 3) /\ top + 1 \in Nat
  BY <1>2 DEF TopBit
<1>4. DigitsFor(q, width, top + 1, s)
  BY <1>1, <1>3, DigitsAre
<1>5. M \in Nat
  <2>1. width - 1 \in 0 .. Bits
    BY <1>2
  <2> QED
    BY <2>1, TwosAre
<1> HIDE DEF q, M
<1>6. ValueOf(q) = s
  BY <1>3, <1>4, ValueIs
<1>7. Len(q) = top + 1 /\ \A k \in 1 .. top + 1 : q[k] # 0 => IsDigit(q[k], width)
  BY <1>4 DEF DigitsFor
<1>8. \A k \in 1 .. Len(q) : q[k] # 0 => q[k] % 2 = 1 /\ q[k] \in -M .. M
  <2> TAKE k \in 1 .. Len(q)
  <2> HAVE q[k] # 0
  <2>1. IsDigit(q[k], width)
    BY <1>7
  <2>2. q[k] \in Int /\ q[k] % 2 = 1 /\ q[k] <= M /\ -M <= q[k]
    BY <2>1 DEF IsDigit, M
  <2> QED
    BY <2>2, <1>5
<1> QED
  BY <1>6, <1>8 DEF q, M


IsTable(table, p, width) ==
  \A j \in 0 .. 2 ^ (width - 2) - 1 : Cached(table[j], Mult(2 * j + 1, p))

LEMMA WindowSizes ==
  ASSUME NEW width \in 2 .. 8
  PROVE  /\ 2 ^ (width - 2) \in Nat \ {0} /\ 2 ^ (width - 1) = 2 * 2 ^ (width - 2)
<1>1. width - 2 \in 0 .. Bits /\ width - 2 \in 0 .. (Bits - 1) /\ (width - 2) + 1 = width - 1
  BY TwosAre
<1>2. 2 ^ (width - 2) \in Nat \ {0}
  BY <1>1, TwosAre
<1>3. 2 ^ ((width - 2) + 1) = 2 * 2 ^ (width - 2)
  BY <1>1, TwosAre
<1> QED
  BY <1>1, <1>2, <1>3

LEMMA OddIs ==
  ASSUME NEW x \in Int, x % 2 = 1, x > 0, NEW M \in Nat \ {0}, x <= 2 * M
  PROVE  x \div 2 \in 0 .. (M - 1) /\ x = 2 * (x \div 2) + 1
OBVIOUS

\* A digit of a window adds its multiple of the table's point.
LEMMA AddDigitIs ==
  ASSUME NEW p \in Affine, NEW q \in Affine, NEW width \in 2 .. 8, NEW table, IsTable(table, p, width),
         NEW g, Rep(g, q), NEW digit \in Int, digit # 0 => IsDigit(digit, width)
  PROVE  Rep(AddDigit(g, digit, table), AffineAdd(q, Mult(digit, p)))
<1> DEFINE M == 2 ^ (width - 2)
<1>1. M \in Nat \ {0} /\ 2 ^ (width - 1) = 2 * M
  BY WindowSizes
<1>2. \A j \in 0 .. M - 1 : Cached(table[j], Mult(2 * j + 1, p))
  BY DEF IsTable
<1>3. digit # 0 => digit % 2 = 1 /\ digit <= 2 * M /\ -(2 * M) <= digit
  BY <1>1 DEF IsDigit
<1> HIDE DEF M
<1>4. CASE digit > 0
  <2> DEFINE j == digit \div 2
  <2>1. j \in 0 .. (M - 1) /\ digit = 2 * j + 1
    BY <1>1, <1>3, <1>4, OddIs
  <2> HIDE DEF j
  <2>2. Cached(table[j], Mult(digit, p)) /\ Mult(digit, p) \in Affine
    BY <1>2, <2>1, MultIs
  <2>3. Rep(ge_add(g, table[j]), AffineAdd(q, Mult(digit, p)))
    BY <2>2, AddIs
  <2> QED
    BY <1>4, <2>3 DEF AddDigit, j
<1>5. CASE digit < 0
  <2> DEFINE n == -digit
             j == n \div 2
  <2>1. n \in Int /\ n > 0 /\ n % 2 = 1 /\ n <= 2 * M /\ ~(digit > 0) /\ digit = -n
    BY <1>1, <1>3, <1>5
  <2> HIDE DEF n
  <2>2. j \in 0 .. (M - 1) /\ n = 2 * j + 1
    BY <1>1, <2>1, OddIs
  <2> HIDE DEF j
  <2>3. Cached(table[j], Mult(n, p)) /\ Mult(n, p) \in Affine
    BY <1>2, <2>1, <2>2, MultIs
  <2>4. Rep(ge_sub(g, table[j]), AffineAdd(q, Negated(Mult(n, p))))
    BY <2>3, SubIs
  <2>5. Mult(-n, p) = Negated(Mult(n, p))
    BY <2>1, MultMinus
  <2>6. Mult(digit, p) = Negated(Mult(n, p))
    BY <2>1, <2>5
  <2> QED
    BY <1>5, <2>1, <2>4, <2>6 DEF AddDigit, j, n
<1>6. CASE digit = 0
  <2>1. Mult(digit, p) = Origin /\ AffineAdd(q, Origin) = q
    BY <1>6, MultIs, OriginIs
  <2> QED
    BY <1>6, <2>1 DEF AddDigit
<1> QED
  BY <1>4, <1>5, <1>6

LEMMA BaseTable == IsTable(b_window, B, B_W_WIDTH)
<1>1. B \in Affine /\ 2 ^ (B_W_WIDTH - 2) \in Nat
  BY BaseIs, WidthAssumption, WindowSizes
<1> SUFFICES ASSUME NEW j \in 0 .. 2 ^ (B_W_WIDTH - 2) - 1
             PROVE  Cached(b_window[j], Mult(2 * j + 1, B))
  BY DEF IsTable
<1> DEFINE n == 2 * j + 1
           q == Times(n, B)
<1>2. n \in Nat
  BY <1>1
<1>3. b_window[j] = Precomputed(q)
  BY DEF b_window
<1> HIDE DEF n
<1>4. q \in Affine /\ Mult(n, B) = q
  BY <1>1, <1>2, TimesIs, MultIs
<1> HIDE DEF q
<1>5. Cached(ge_precomp(q[1], q[2]), q)
  BY <1>4, PrecompIs
<1> QED
  BY <1>3, <1>4, <1>5 DEF Precomputed, n


Caches == [Yp : Field, Ym : Field, Z : Field, T2 : Field]
Coordinated == [X : Field, Y : Field, Z : Field, T : Field]

LEMMA CachesIs ==
  ASSUME NEW g, Coordinates(g)
  PROVE  ge_cache(g) \in Caches
<1>1. g.X \in Int /\ g.Y \in Int /\ g.Z \in Field /\ g.T \in Int /\ D2 \in Int
  <2>1. g.X \in Field /\ g.Y \in Field /\ g.Z \in Field /\ g.T \in Field
    BY DEF Coordinates
  <2>2. D2 \in Int
    <3>1. d \in Int /\ 2 \in Int
      BY CurveIs
    <3>2. fe_mul(2, d) \in Field
      BY <3>1, FeIs
    <3> QED
      BY <3>2, ElField DEF D2
  <2> QED
    BY <2>1, <2>2, ElField
<1>2. fe_add(g.Y, g.X) \in Field /\ fe_sub(g.Y, g.X) \in Field /\ fe_mul(g.T, D2) \in Field
  BY <1>1, FeIs
<1> QED
  BY <1>1, <1>2 DEF ge_cache, Caches

InCache(h) == h.Yp \in Field /\ h.Ym \in Field /\ h.Z \in Field /\ h.T2 \in Field

LEMMA CachesAre == ASSUME NEW h \in Caches PROVE InCache(h)
BY DEF Caches, InCache

LEMMA CachedIn ==
  ASSUME NEW p \in Affine, NEW h, Cached(h, p)
  PROVE  InCache(h)
<1>1. p[1] \in Int /\ p[2] \in Int /\ d \in Int /\ h.Z \in Int /\ h.Z \in Field
  BY AffineInts, CurveIs, ElField DEF Cached
<1>2. \A x \in Int : El(x) \in Field
  BY ElIs
<1>3. (p[2] + p[1]) * h.Z \in Int /\ (p[2] - p[1]) * h.Z \in Int /\ ((p[1] * p[2]) * h.Z) * (2 * d) \in Int
  BY <1>1
<1> QED
  BY <1>1, <1>2, <1>3 DEF Cached, InCache

LEMMA AddCoordinates ==
  ASSUME NEW g, Coordinates(g), NEW h, InCache(h)
  PROVE  ge_add(g, h) \in Coordinated
<1>1. g.X \in Int /\ g.Y \in Int /\ g.Z \in Int /\ g.T \in Int
  BY ElField DEF Coordinates
<1>2. h.Yp \in Int /\ h.Ym \in Int /\ h.Z \in Int /\ h.T2 \in Int
  <2>1. h.Yp \in Field /\ h.Ym \in Field /\ h.Z \in Field /\ h.T2 \in Field
    BY DEF InCache
  <2> QED
    BY <2>1, ElField
<1>3. \A a, b \in Int : /\ fe_add(a, b) \in Field /\ fe_sub(a, b) \in Field /\ fe_mul(a, b) \in Field
                        /\ fe_add(a, b) \in Int /\ fe_sub(a, b) \in Int /\ fe_mul(a, b) \in Int
  BY FeIs, ElField
<1> DEFINE a0 == fe_mul(fe_add(g.Y, g.X), h.Yp)
           b0 == fe_mul(fe_sub(g.Y, g.X), h.Ym)
           y  == fe_add(a0, b0)
           x  == fe_sub(a0, b0)
           z  == fe_mul(fe_add(g.Z, g.Z), h.Z)
           t  == fe_mul(g.T, h.T2)
           a  == fe_add(z, t)
           b  == fe_sub(z, t)
<1>4. a0 \in Int /\ b0 \in Int /\ z \in Int /\ t \in Int
  BY <1>1, <1>2, <1>3
<1>5. ge_add(g, h) = [X |-> fe_mul(x, b), Y |-> fe_mul(y, a), Z |-> fe_mul(a, b), T |-> fe_mul(x, y)]
  BY Zenon DEF ge_add
<1> HIDE DEF a0, b0, z, t
<1>6. x \in Int /\ y \in Int /\ a \in Int /\ b \in Int
  BY <1>3, <1>4
<1> HIDE DEF x, y, a, b
<1>7. fe_mul(x, b) \in Field /\ fe_mul(y, a) \in Field /\ fe_mul(a, b) \in Field /\ fe_mul(x, y) \in Field
  BY <1>3, <1>6
<1> QED
  BY <1>5, <1>7 DEF Coordinated

LEMMA CoordinatedIs ==
  ASSUME NEW g \in Coordinated
  PROVE  Coordinates(g)
BY DEF Coordinated, Coordinates

Lutting(g, m) ==
  g = [i \in 0 .. 2 ^ (P_W_WIDTH - 2) - 1 |->
        IF i = 0 THEN ge_cache(m) ELSE ge_cache(ge_add(ge_double(m), g[i - 1]))]

LEMMA LutUnfold == ASSUME NEW m PROVE LutA(m) = CHOOSE g : Lutting(g, m)
BY Zenon DEF LutA, Lutting

LEMMA LutExists ==
  ASSUME NEW p \in Affine, NEW m, Rep(m, p)
  PROVE  Lutting(LutA(m), m)
<1> DEFINE n == 2 ^ (P_W_WIDTH - 2) - 1
           F == [k \in 1 .. n |-> [s \in Caches |-> ge_cache(ge_add(ge_double(m), s))]]
           a == ge_cache(m)
<1>1. n \in Nat
  <2>1. P_W_WIDTH \in 2 .. 8
    BY WidthAssumption
  <2>2. 2 ^ (P_W_WIDTH - 2) \in Nat \ {0}
    BY <2>1, WindowSizes
  <2> QED
    BY <2>2
<1>2. a \in Caches /\ Coordinates(ge_double(m))
  <2>1. Coordinates(m)
    BY DEF Rep
  <2>2. Rep(ge_double(m), AffineAdd(p, p))
    BY DoubleIs
  <2> QED
    BY <2>1, <2>2, CachesIs DEF Rep
<1>3. \A s \in Caches : ge_cache(ge_add(ge_double(m), s)) \in Caches
  <2> TAKE s \in Caches
  <2>1. InCache(s)
    BY CachesAre
  <2>2. ge_add(ge_double(m), s) \in Coordinated
    BY <1>2, <2>1, AddCoordinates
  <2> QED
    BY <2>2, CoordinatedIs, CachesIs
<1>4. \A k \in 1 .. n, s \in Caches : F[k][s] = ge_cache(ge_add(ge_double(m), s)) /\ F[k][s] \in Caches
  BY <1>3
<1> HIDE DEF F, a, n
<1>5. PICK g : Follows(g, Caches, a, F, n)
  <2>1. StaysIn(Caches, F, n)
    BY <1>4 DEF StaysIn
  <2>2. QED
    BY <2>1, <1>1, <1>2, Recursion
<1>6. g \in [0 .. n -> Caches] /\ g[0] = a /\ \A k \in 1 .. n : g[k] = F[k][g[k - 1]]
  BY <1>5 DEF Follows
<1>7. \A k \in 0 .. n : g[k] = IF k = 0 THEN a ELSE ge_cache(ge_add(ge_double(m), g[k - 1]))
  <2> TAKE k \in 0 .. n
  <2>1. k = 0 \/ (k \in 1 .. n /\ k - 1 \in 0 .. n /\ k # 0)
    BY <1>1
  <2> QED
    BY <2>1, <1>4, <1>6
<1>8. g = [k \in 0 .. n |-> IF k = 0 THEN a ELSE ge_cache(ge_add(ge_double(m), g[k - 1]))]
  BY <1>6, <1>7
<1>9. Lutting(g, m)
  BY <1>8 DEF n, a, Lutting
<1> QED
  BY <1>9, LutUnfold

LEMMA LutTable ==
  ASSUME NEW p \in Affine, NEW m, Rep(m, p)
  PROVE  IsTable(LutA(m), p, P_W_WIDTH)
<1> DEFINE n == 2 ^ (P_W_WIDTH - 2) - 1
           g == LutA(m)
           twice == ge_double(m)
           T == {i \in 0 .. n : Cached(g[i], Mult(2 * i + 1, p))}
<1>1. n \in Nat
  <2>1. P_W_WIDTH \in 2 .. 8
    BY WidthAssumption
  <2>2. 2 ^ (P_W_WIDTH - 2) \in Nat \ {0}
    BY <2>1, WindowSizes
  <2> QED
    BY <2>2
<1>2. \A i \in 0 .. n : g[i] = IF i = 0 THEN ge_cache(m) ELSE ge_cache(ge_add(twice, g[i - 1]))
  BY LutExists DEF Lutting
<1>3. Rep(twice, AffineAdd(p, p)) /\ AffineAdd(p, p) \in Affine
  BY DoubleIs, SumClosed
<1> HIDE DEF g, twice, n
<1>4. 0 \in T
  <2>1. 0 \in 0 .. n
    BY <1>1
  <2>2. Mult(1, p) = p /\ 2 * 0 + 1 = 1
    BY MultIs
  <2>3. Cached(g[0], p)
    BY <1>2, <2>1, CacheIs
  <2> QED
    BY <2>1, <2>2, <2>3
<1>5. \A i \in 0 .. (n - 1) : i \in T => i + 1 \in T
  <2> TAKE i \in 0 .. (n - 1)
  <2> HAVE i \in T
  <2> DEFINE k == 2 * i + 1
             q == Mult(k, p)
  <2>1. i + 1 \in 0 .. n /\ i + 1 # 0 /\ (i + 1) - 1 = i /\ k \in Int /\ 2 * (i + 1) + 1 = k + 2
    BY <1>1
  <2>2. Cached(g[i], q)
    OBVIOUS
  <2> HIDE DEF k
  <2>3. q \in Affine
    BY <2>1, MultIs
  <2>4. g[i + 1] = ge_cache(ge_add(twice, g[i]))
    BY <1>2, <2>1
  <2> DEFINE r == AffineAdd(AffineAdd(p, p), q)
  <2>5. Rep(ge_add(twice, g[i]), r) /\ r \in Affine
    BY <1>3, <2>2, <2>3, AddIs, SumClosed
  <2>6. Cached(g[i + 1], r)
    BY <2>4, <2>5, CacheIs
  <2>7. r = Mult(k + 2, p)
    <3>1. Mult(k + 1, p) = AffineAdd(q, p)
      BY <2>1, MultNext
    <3>2. Mult((k + 1) + 1, p) = AffineAdd(Mult(k + 1, p), p)
      BY <2>1, MultNext
    <3>3. (k + 1) + 1 = k + 2
      BY <2>1
    <3>4. AffineAdd(AffineAdd(q, p), p) = AffineAdd(q, AffineAdd(p, p))
      BY <2>3, Associates
    <3>5. AffineAdd(q, AffineAdd(p, p)) = r
      BY <2>3, <1>3, Commutes
    <3> QED
      BY <3>1, <3>2, <3>3, <3>4, <3>5
  <2> QED
    BY <2>1, <2>6, <2>7
<1> HIDE DEF T
<1>6. \A i \in 0 .. n : i \in T
  BY <1>1, <1>4, <1>5, InductionTo
<1> QED
  BY <1>6 DEF T, IsTable, n, g


LargerOf(a, b) == IF a > b THEN a ELSE b
TopOf(s, h) == LargerOf(slide_init(h).next_check, slide_init(s).next_check)
Summing(g, lut, hs, ss, top) ==
  g = [k \in 0 .. top + 1 |->
        IF k = 0 THEN ge_zero
        ELSE AddDigit(AddDigit(ge_double(g[k - 1]), hs[k], lut), ss[k], b_window)]
DigitSum(lut, hs, ss, top) == (CHOOSE g : Summing(g, lut, hs, ss, top))[top + 1]

LEMMA DoubleScalarUnfold ==
  ASSUME NEW m, NEW s, NEW h
  PROVE  DoubleScalar(m, s, h)
           = DigitSum(LutA(m), Digits(h, P_W_WIDTH, TopOf(s, h)), Digits(s, B_W_WIDTH, TopOf(s, h)), TopOf(s, h))
BY Zenon DEF DoubleScalar, DigitSum, Summing, TopOf, LargerOf

\* Adding a digit keeps the coordinates in the field.
LEMMA AddDigitIn ==
  ASSUME NEW p \in Affine, NEW width \in 2 .. 8, NEW table, IsTable(table, p, width),
         NEW g \in Coordinated, NEW digit \in Int, digit # 0 => IsDigit(digit, width)
  PROVE  AddDigit(g, digit, table) \in Coordinated
<1> DEFINE M == 2 ^ (width - 2)
<1>1. M \in Nat \ {0} /\ 2 ^ (width - 1) = 2 * M
  BY WindowSizes
<1>2. \A j \in 0 .. M - 1 : \E q \in Affine : Cached(table[j], q)
  <2> TAKE j \in 0 .. M - 1
  <2>1. Cached(table[j], Mult(2 * j + 1, p)) /\ 2 * j + 1 \in Int
    BY <1>1 DEF IsTable
  <2> QED
    BY <2>1, MultIs
<1>3. digit # 0 => digit % 2 = 1 /\ digit <= 2 * M /\ -(2 * M) <= digit
  BY <1>1 DEF IsDigit
<1>4. Coordinates(g)
  BY CoordinatedIs
<1> HIDE DEF M
<1>5. CASE digit > 0
  <2>1. digit \div 2 \in 0 .. (M - 1)
    BY <1>1, <1>3, <1>5, OddIs
  <2>2. PICK q \in Affine : Cached(table[digit \div 2], q)
    BY <1>2, <2>1
  <2>3. InCache(table[digit \div 2])
    BY <2>2, CachedIn
  <2> QED
    BY <1>4, <1>5, <2>3, AddCoordinates DEF AddDigit
<1>6. CASE digit < 0
  <2> DEFINE n == -digit
  <2>1. n \in Int /\ n > 0 /\ n % 2 = 1 /\ n <= 2 * M /\ ~(digit > 0)
    BY <1>1, <1>3, <1>6
  <2> HIDE DEF n
  <2>2. n \div 2 \in 0 .. (M - 1)
    BY <1>1, <2>1, OddIs
  <2>3. PICK q \in Affine : Cached(table[n \div 2], q)
    BY <1>2, <2>2
  <2>4. Cached(ge_negated(table[n \div 2]), Negated(q)) /\ Negated(q) \in Affine
    BY <2>3, NegatedCached, NegatedIs
  <2>5. InCache(ge_negated(table[n \div 2]))
    BY <2>4, CachedIn
  <2>6. ge_sub(g, table[n \div 2]) \in Coordinated
    BY <1>4, <2>5, AddCoordinates DEF ge_sub
  <2> QED
    BY <1>6, <2>1, <2>6 DEF AddDigit, n
<1> QED
  BY <1>5, <1>6 DEF AddDigit

LEMMA DoubleIn ==
  ASSUME NEW g, Coordinates(g)
  PROVE  ge_double(g) \in Coordinated
<1>1. g.X \in Int /\ g.Y \in Int /\ g.Z \in Int
  BY ElField DEF Coordinates
<1>2. \A a, b \in Int : /\ fe_add(a, b) \in Field /\ fe_sub(a, b) \in Field /\ fe_mul(a, b) \in Field
                        /\ fe_add(a, b) \in Int /\ fe_sub(a, b) \in Int /\ fe_mul(a, b) \in Int
  BY FeIs, ElField
<1>3. \A a \in Int : fe_sq(a) \in Int
  BY FeOne, ElField
<1> DEFINE xx == fe_sq(g.X)
           yy == fe_sq(g.Y)
           t  == fe_add(yy, xx)
           y  == fe_sub(yy, xx)
           x  == fe_sub(fe_sq(fe_add(g.X, g.Y)), t)
           z  == fe_sub(fe_mul(2, fe_sq(g.Z)), y)
<1>4. ge_double(g) = [X |-> fe_mul(x, z), Y |-> fe_mul(t, y), Z |-> fe_mul(y, z), T |-> fe_mul(x, t)]
  BY Zenon DEF ge_double
<1>5. xx \in Int /\ yy \in Int
  BY <1>1, <1>3
<1> HIDE DEF xx, yy
<1>6. t \in Int /\ y \in Int
  BY <1>2, <1>5
<1> HIDE DEF t, y
<1>7. x \in Int /\ z \in Int
  <2>1. fe_add(g.X, g.Y) \in Int /\ fe_sq(g.Z) \in Int
    BY <1>1, <1>2, <1>3
  <2>2. fe_sq(fe_add(g.X, g.Y)) \in Int /\ fe_mul(2, fe_sq(g.Z)) \in Int
    BY <2>1, <1>2, <1>3
  <2> QED
    BY <2>2, <1>2, <1>6
<1> HIDE DEF x, z
<1>8. fe_mul(x, z) \in Field /\ fe_mul(t, y) \in Field /\ fe_mul(y, z) \in Field /\ fe_mul(x, t) \in Field
  BY <1>2, <1>6, <1>7
<1> QED
  BY <1>4, <1>8 DEF Coordinated

Windows == P_W_WIDTH \in 2 .. 8 /\ B_W_WIDTH \in 2 .. 8
LEMMA WindowsAre == Windows
BY WidthAssumption DEF Windows

\* The digits of two scalars, and the table of the first one's point.
TwoScalars(p, lut, hs, ss, n) ==
  /\ IsTable(lut, p, P_W_WIDTH)
  /\ hs \in Seq(Int) /\ Len(hs) = n /\ \A k \in 1 .. n : hs[k] # 0 => IsDigit(hs[k], P_W_WIDTH)
  /\ ss \in Seq(Int) /\ Len(ss) = n /\ \A k \in 1 .. n : ss[k] # 0 => IsDigit(ss[k], B_W_WIDTH)

LEMMA SumExists ==
  ASSUME NEW p \in Affine, NEW lut, NEW hs, NEW ss, NEW top \in Nat, TwoScalars(p, lut, hs, ss, top + 1)
  PROVE  \E g : Summing(g, lut, hs, ss, top)
<1> DEFINE n == top + 1
           F == [k \in 1 .. n |-> [g \in Coordinated |->
                   AddDigit(AddDigit(ge_double(g), hs[k], lut), ss[k], b_window)]]
<1>1. n \in Nat
  OBVIOUS
<1>2. \A k \in 1 .. n, g \in Coordinated :
        AddDigit(AddDigit(ge_double(g), hs[k], lut), ss[k], b_window) \in Coordinated
  <2> TAKE k \in 1 .. n, g \in Coordinated
  <2>1. hs[k] \in Int /\ ss[k] \in Int /\ (hs[k] # 0 => IsDigit(hs[k], P_W_WIDTH))
        /\ (ss[k] # 0 => IsDigit(ss[k], B_W_WIDTH)) /\ IsTable(lut, p, P_W_WIDTH)
    BY DEF TwoScalars
  <2>2. ge_double(g) \in Coordinated
    BY CoordinatedIs, DoubleIn
  <2>3. P_W_WIDTH \in 2 .. 8 /\ B_W_WIDTH \in 2 .. 8 /\ B \in Affine
    BY WindowsAre, BaseIs DEF Windows
  <2>4. AddDigit(ge_double(g), hs[k], lut) \in Coordinated
    BY <2>1, <2>2, <2>3, AddDigitIn
  <2> QED
    BY <2>1, <2>3, <2>4, BaseTable, AddDigitIn
<1>3. \A k \in 1 .. n, g \in Coordinated :
        /\ F[k][g] = AddDigit(AddDigit(ge_double(g), hs[k], lut), ss[k], b_window)
        /\ F[k][g] \in Coordinated
  BY <1>2
<1> HIDE DEF F
<1>4. ge_zero \in Coordinated
  BY OneIs DEF ge_zero, Coordinated
<1>5. PICK g : Follows(g, Coordinated, ge_zero, F, n)
  <2>1. StaysIn(Coordinated, F, n)
    BY <1>3 DEF StaysIn
  <2>2. QED
    BY <2>1, <1>1, <1>4, Recursion
<1>6. g \in [0 .. n -> Coordinated] /\ g[0] = ge_zero /\ \A k \in 1 .. n : g[k] = F[k][g[k - 1]]
  BY <1>5 DEF Follows
<1>7. \A k \in 0 .. n : g[k] = IF k = 0 THEN ge_zero
                             ELSE AddDigit(AddDigit(ge_double(g[k - 1]), hs[k], lut), ss[k], b_window)
  <2> TAKE k \in 0 .. n
  <2>1. k = 0 \/ (k \in 1 .. n /\ k - 1 \in 0 .. n /\ k # 0)
    BY <1>1
  <2>2. CASE k = 0
    BY <2>2, <1>6
  <2>3. CASE k \in 1 .. n /\ k - 1 \in 0 .. n /\ k # 0
    <3>1. g[k - 1] \in Coordinated /\ g[k] = F[k][g[k - 1]]
      BY <2>3, <1>6
    <3> QED
      BY <2>3, <3>1, <1>3
  <2> QED
    BY <2>1, <2>2, <2>3
<1>8. g = [k \in 0 .. n |-> IF k = 0 THEN ge_zero
                          ELSE AddDigit(AddDigit(ge_double(g[k - 1]), hs[k], lut), ss[k], b_window)]
  <2>1. g = [k \in 0 .. n |-> g[k]]
    BY <1>6
  <2> QED
    BY <2>1, <1>7, Zenon
<1> QED
  BY <1>8, Zenon DEF Summing

\* One doubling and two digits.
LEMMA SumStep ==
  ASSUME NEW p \in Affine, NEW lut, IsTable(lut, p, P_W_WIDTH), NEW a \in Int, NEW b \in Int,
         NEW g, Rep(g, AffineAdd(Mult(a, p), Mult(b, B))),
         NEW x \in Int, NEW y \in Int, x # 0 => IsDigit(x, P_W_WIDTH), y # 0 => IsDigit(y, B_W_WIDTH)
  PROVE  Rep(AddDigit(AddDigit(ge_double(g), x, lut), y, b_window),
             AffineAdd(Mult(2 * a + x, p), Mult(2 * b + y, B)))
<1> DEFINE pa == Mult(a, p)
           pb == Mult(b, B)
           q  == AffineAdd(pa, pb)
           px == Mult(x, p)
           py == Mult(y, B)
           p2 == AffineAdd(pa, pa)
           b2 == AffineAdd(pb, pb)
<1>1. B \in Affine /\ P_W_WIDTH \in 2 .. 8 /\ B_W_WIDTH \in 2 .. 8
  BY BaseIs, WindowsAre DEF Windows
<1>2. pa \in Affine /\ pb \in Affine /\ px \in Affine /\ py \in Affine
  BY <1>1, MultIs
<1>3. Mult(2 * a + x, p) = AffineAdd(p2, px) /\ Mult(2 * b + y, B) = AffineAdd(b2, py)
  <2>1. Mult(a + a, p) = p2 /\ Mult(b + b, B) = b2
    BY <1>1, MultSum
  <2> DEFINE e == a + a
             f == b + b
  <2>2. e \in Int /\ f \in Int /\ 2 * a + x = e + x /\ 2 * b + y = f + y
    OBVIOUS
  <2> HIDE DEF e, f
  <2>3. Mult(e + x, p) = AffineAdd(Mult(e, p), px) /\ Mult(f + y, B) = AffineAdd(Mult(f, B), py)
    BY <2>2, <1>1, MultSum
  <2> QED
    BY <2>1, <2>2, <2>3 DEF e, f
<1> HIDE DEF pa, pb, px, py
<1>4. q \in Affine /\ p2 \in Affine /\ b2 \in Affine /\ AffineAdd(q, q) \in Affine
  BY <1>2, SumClosed
<1>5. Rep(ge_double(g), AffineAdd(q, q))
  BY <1>4, DoubleIs DEF pa, pb
<1>6. AffineAdd(q, q) = AffineAdd(p2, b2)
  BY <1>2, MiddleSwap
<1> HIDE DEF q
<1>7. Rep(AddDigit(ge_double(g), x, lut), AffineAdd(AffineAdd(q, q), px))
  BY <1>1, <1>4, <1>5, AddDigitIs DEF px
<1>8. AffineAdd(AffineAdd(q, q), px) \in Affine
  BY <1>2, <1>4, SumClosed
<1>9. Rep(AddDigit(AddDigit(ge_double(g), x, lut), y, b_window), AffineAdd(AffineAdd(AffineAdd(q, q), px), py))
  BY <1>1, <1>7, <1>8, BaseTable, AddDigitIs DEF py
<1> HIDE DEF p2, b2
<1>10. AffineAdd(AffineAdd(AffineAdd(p2, b2), px), py) = AffineAdd(AffineAdd(p2, px), AffineAdd(b2, py))
  <2>1. AffineAdd(p2, b2) \in Affine
    BY <1>4, SumClosed
  <2>2. AffineAdd(AffineAdd(AffineAdd(p2, b2), px), py) = AffineAdd(AffineAdd(p2, b2), AffineAdd(px, py))
    BY <1>2, <2>1, Associates
  <2> QED
    BY <1>2, <1>4, <2>2, MiddleSwap
<1> QED
  BY <1>3, <1>6, <1>9, <1>10

LEMMA DigitSumIs ==
  ASSUME NEW p \in Affine, NEW lut, NEW hs, NEW ss, NEW top \in Nat, TwoScalars(p, lut, hs, ss, top + 1),
         NEW a, ValuesOf(a, hs, top + 1), NEW b, ValuesOf(b, ss, top + 1)
  PROVE  Rep(DigitSum(lut, hs, ss, top), AffineAdd(Mult(a[top + 1], p), Mult(b[top + 1], B)))
<1> DEFINE n == top + 1
           g == CHOOSE f : Summing(f, lut, hs, ss, top)
           T == {k \in 0 .. n : Rep(g[k], AffineAdd(Mult(a[k], p), Mult(b[k], B)))}
<1>1. n \in Nat /\ B \in Affine
  BY BaseIs
<1>2. Summing(g, lut, hs, ss, top)
  BY SumExists
<1> HIDE DEF g
<1>3. g[0] = ge_zero /\ \A k \in 1 .. n : g[k] = AddDigit(AddDigit(ge_double(g[k - 1]), hs[k], lut), ss[k], b_window)
  <2>1. 0 \in 0 .. n /\ \A k \in 1 .. n : k \in 0 .. n /\ k # 0
    BY <1>1
  <2>2. \A k \in 0 .. n : g[k] = IF k = 0 THEN ge_zero
                             ELSE AddDigit(AddDigit(ge_double(g[k - 1]), hs[k], lut), ss[k], b_window)
    BY <1>2 DEF Summing
  <2> QED
    BY <2>1, <2>2
<1>4. 0 \in T
  <2>1. a[0] = 0 /\ b[0] = 0 /\ 0 \in 0 .. n
    BY <1>1 DEF ValuesOf, Horner
  <2>2. Mult(0, p) = Origin /\ Mult(0, B) = Origin /\ AffineAdd(Origin, Origin) = Origin
    BY <1>1, MultIs, OriginIs
  <2> QED
    BY <2>1, <2>2, <1>3, ZeroIs
<1>5. \A k \in 0 .. (n - 1) : k \in T => k + 1 \in T
  <2> TAKE k \in 0 .. (n - 1)
  <2> HAVE k \in T
  <2>1. k + 1 \in 1 .. n /\ k + 1 \in 0 .. n /\ (k + 1) - 1 = k /\ k \in 0 .. n
    BY <1>1
  <2>2. a[k] \in Int /\ b[k] \in Int /\ a[k + 1] = 2 * a[k] + hs[k + 1] /\ b[k + 1] = 2 * b[k] + ss[k + 1]
    BY <2>1 DEF ValuesOf, Horner
  <2>3. hs[k + 1] \in Int /\ ss[k + 1] \in Int /\ (hs[k + 1] # 0 => IsDigit(hs[k + 1], P_W_WIDTH))
        /\ (ss[k + 1] # 0 => IsDigit(ss[k + 1], B_W_WIDTH)) /\ IsTable(lut, p, P_W_WIDTH)
    BY <2>1 DEF TwoScalars
  <2>4. Rep(g[k], AffineAdd(Mult(a[k], p), Mult(b[k], B)))
    OBVIOUS
  <2>5. Rep(AddDigit(AddDigit(ge_double(g[k]), hs[k + 1], lut), ss[k + 1], b_window),
            AffineAdd(Mult(2 * a[k] + hs[k + 1], p), Mult(2 * b[k] + ss[k + 1], B)))
    BY <2>2, <2>3, <2>4, SumStep
  <2> QED
    BY <2>1, <2>2, <2>5, <1>3
<1> HIDE DEF T
<1>6. \A k \in 0 .. n : k \in T
  BY <1>1, <1>4, <1>5, InductionTo
<1>7. n \in T
  BY <1>1, <1>6
<1> QED
  BY <1>7 DEF T, g, DigitSum

LEMMA DoubleScalarIs ==
  ASSUME NEW p \in Affine, NEW m, Rep(m, p), NEW s \in 0 .. (L - 1), NEW h \in 0 .. (L - 1)
  PROVE  Rep(DoubleScalar(m, s, h), AffineAdd(Mult(h, p), Mult(s, B)))
<1> DEFINE top == TopOf(s, h)
           hs  == Digits(h, P_W_WIDTH, top)
           ss  == Digits(s, B_W_WIDTH, top)
           lut == LutA(m)
           n   == top + 1
<1>1. s \in Slidable /\ h \in Slidable /\ P_W_WIDTH \in 2 .. 8 /\ B_W_WIDTH \in 2 .. 8
  BY ReducedIs, WindowsAre DEF Windows
<1>2. /\ slide_init(h).next_check \in 1 .. (Bits - 3) /\ slide_init(s).next_check \in 1 .. (Bits - 3)
      /\ Bits \in Nat
  BY <1>1, SlideInitIs, TwosAre
<1>3. /\ top \in slide_init(h).next_check .. (Bits - 3) /\ top \in slide_init(s).next_check .. (Bits - 3)
      /\ top \in Nat
  BY <1>2 DEF TopOf, LargerOf
<1> HIDE DEF top
<1>4. DigitsFor(hs, P_W_WIDTH, n, h) /\ DigitsFor(ss, B_W_WIDTH, n, s)
  BY <1>1, <1>3, DigitsAre
<1>5. IsTable(lut, p, P_W_WIDTH)
  BY LutTable
<1>6. DoubleScalar(m, s, h) = DigitSum(lut, hs, ss, top)
  BY DoubleScalarUnfold DEF top
<1> HIDE DEF hs, ss, lut
<1>7. TwoScalars(p, lut, hs, ss, n)
  BY <1>4, <1>5 DEF DigitsFor, TwoScalars
<1>8. n \in Nat /\ hs \in Seq(Int) /\ ss \in Seq(Int) /\ n = Len(hs) /\ n = Len(ss)
  BY <1>3, <1>4 DEF DigitsFor
<1>9. PICK a : ValuesOf(a, hs, n) /\ a = [k \in 0 .. n |-> a[k]]
  BY <1>8, ValuesExist
<1>10. PICK b : ValuesOf(b, ss, n) /\ b = [k \in 0 .. n |-> b[k]]
  BY <1>8, ValuesExist
<1>11. a[n] = h /\ b[n] = s
  BY <1>4, <1>8, <1>9, <1>10, DigitsEnd
<1>12. Rep(DigitSum(lut, hs, ss, top), AffineAdd(Mult(a[n], p), Mult(b[n], B)))
  BY <1>3, <1>7, <1>9, <1>10, DigitSumIs
<1> QED
  BY <1>6, <1>11, <1>12


TimesEight(p) == LET two == AffineAdd(p, p)
                     four == AffineAdd(two, two)
                 IN AffineAdd(four, four)

LEMMA TimesEightIs ==
  ASSUME NEW p \in Affine
  PROVE  /\ TimesEight(p) \in Affine /\ Times(8, p) = TimesEight(p)
         /\ \A g : Rep(g, p) => Rep(ge_double(ge_double(ge_double(g))), TimesEight(p))
<1> DEFINE two == AffineAdd(p, p)
           four == AffineAdd(two, two)
<1>1. two \in Affine
  BY SumClosed
<1>2. four \in Affine
  BY <1>1, SumClosed
<1>3. AffineAdd(four, four) \in Affine
  BY <1>2, SumClosed
<1>4. TimesEight(p) = AffineAdd(four, four)
  BY DEF TimesEight
<1>5. Times(8, p) = AffineAdd(four, four)
  <2>1. Times(2, p) = two
    <3>1. Times(1, p) = p
      BY MultIs DEF Mult
    <3>2. Times(2 * 1, p) = AffineAdd(Times(1, p), Times(1, p))
      BY TimesTwice
    <3> QED
      BY <3>1, <3>2
  <2>2. Times(2 * 2, p) = AffineAdd(Times(2, p), Times(2, p))
    BY TimesTwice
  <2>3. Times(4, p) = four
    BY <2>1, <2>2
  <2>4. Times(2 * 4, p) = AffineAdd(Times(4, p), Times(4, p))
    BY TimesTwice
  <2> QED
    BY <2>3, <2>4
<1> HIDE DEF four, two
<1>6. ASSUME NEW g, Rep(g, p)
      PROVE  Rep(ge_double(ge_double(ge_double(g))), TimesEight(p))
  <2>1. Rep(ge_double(g), two)
    BY <1>6, DoubleIs DEF two
  <2>2. Rep(ge_double(ge_double(g)), four)
    BY <2>1, <1>1, DoubleIs DEF four
  <2>3. Rep(ge_double(ge_double(ge_double(g))), AffineAdd(four, four))
    BY <2>2, <1>2, DoubleIs
  <2> QED
    BY <2>3, <1>4
<1> QED
  BY <1>3, <1>4, <1>5, <1>6


LEMMA AboveIs ==
  ASSUME NEW s \in Scalars
  PROVE  is_above_l(Limbs(N, s)) = 0 <=> s < L
<1> DEFINE x == Limbs(N, s)
           row == Carried([i \in 1 .. N |-> x[i] + Complement(LimbsOfL[i])], 1)
<1>1. AllLimbs(x, N) /\ Val(x, N) = s /\ s \in Nat
  BY ScalarIs
<1>2. AllLimbs(LimbsOfL, N) /\ Val(LimbsOfL, N) = L /\ L \in Nat
  BY SizeOfL
<1> HIDE DEF x
<1>3. /\ Val(x, N) >= Val(LimbsOfL, N) => row[N + 1] = 1
      /\ Val(x, N) < Val(LimbsOfL, N) => row[N + 1] = 0
  BY <1>1, <1>2, SubtractIs
<1>4. is_above_l(x) = row[N + 1]
  BY DEF is_above_l
<1> QED
  BY <1>1, <1>2, <1>3, <1>4 DEF x

\* What is left of the equation, and the form it is compared with.
LEMMA LeftIs ==
  ASSUME NEW a \in Affine, NEW r \in Affine, NEW s \in Nat, NEW h \in Nat
  PROVE  AffineAdd(AffineAdd(Mult(h, Negated(a)), Mult(s, B)), Negated(r))
           = AffineAdd(Times(s, B), Negated(AffineAdd(Times(h, a), r)))
<1> DEFINE x == Mult(h, a)
           y == Mult(s, B)
<1>1. B \in Affine /\ s \in Int /\ h \in Int
  BY BaseIs
<1>2. x \in Affine /\ y \in Affine /\ x = Times(h, a) /\ y = Times(s, B)
  BY <1>1, MultIs
<1>3. Mult(h, Negated(a)) = Negated(x)
  BY <1>1, MultMinus
<1> HIDE DEF x, y
<1> DEFINE u == Negated(x)
           v == Negated(r)
<1>4. u \in Affine /\ v \in Affine
  BY <1>2, NegatedIs
<1>5. Negated(AffineAdd(x, r)) = AffineAdd(u, v)
  BY <1>2, NegatedSum
<1> HIDE DEF u, v
<1>6. AffineAdd(u, y) = AffineAdd(y, u)
  BY <1>2, <1>4, Commutes
<1>7. AffineAdd(AffineAdd(y, u), v) = AffineAdd(y, AffineAdd(u, v))
  BY <1>2, <1>4, Associates
<1> QED
  BY <1>2, <1>3, <1>5, <1>6, <1>7 DEF u, v, y

LeftOver(s, h, a, r) == AffineAdd(Times(s, B), Negated(AffineAdd(Times(h, a), r)))

LEMMA LeftOverIs ==
  ASSUME NEW a \in Affine, NEW r \in Affine, NEW s \in Nat, NEW h \in Nat
  PROVE  LeftOver(s, h, a, r) \in Affine
<1>1. B \in Affine
  BY BaseIs
<1>2. Times(s, B) \in Affine /\ Times(h, a) \in Affine
  BY <1>1, TimesIs
<1>3. Negated(AffineAdd(Times(h, a), r)) \in Affine
  BY <1>2, SumClosed, NegatedIs
<1> QED
  BY <1>2, <1>3, SumClosed DEF LeftOver

\* The equation passes exactly when it holds up to a point of low order.
LEMMA EquationIs ==
  ASSUME NEW s \in Scalars, NEW h \in 0 .. (L - 1), NEW ea, NEW er, IsEncoding(ea), IsEncoding(er)
  PROVE  crypto_eddsa_check_equation([R |-> er, S |-> s], ea, h)
           <=> /\ s < L
               /\ Abscissas(El(ea.y)) # {} /\ Abscissas(El(er.y)) # {}
               /\ Times(8, LeftOver(s, h, PointOf(ea), PointOf(er))) = Origin
<1> DEFINE ma == ge_frombytes_neg_vartime(ea)
           mr == ge_frombytes_neg_vartime(er)
           sum == ge_add(DoubleScalar(ma.h, s, h), ge_cache(mr.h))
           a == PointOf(ea)
           r == PointOf(er)
           E == crypto_eddsa_check_equation([R |-> er, S |-> s], ea, h)
<1>1. E <=> /\ ma.ok /\ mr.ok /\ is_above_l(Limbs(N, s)) = 0
            /\ ge_tobytes(ge_double(ge_double(ge_double(sum)))) = ge_tobytes(ge_zero)
  BY DEF crypto_eddsa_check_equation
<1>2. /\ ma.ok <=> Abscissas(El(ea.y)) # {}
      /\ ma.ok => a \in Affine /\ Rep(ma.h, Negated(a))
      /\ mr.ok <=> Abscissas(El(er.y)) # {}
      /\ mr.ok => r \in Affine /\ Rep(mr.h, Negated(r))
  BY FromBytesIs
<1>3. is_above_l(Limbs(N, s)) = 0 <=> s < L
  BY AboveIs
<1>4. s \in Nat /\ h \in Nat /\ L \in Nat
  BY ScalarIs, SizeOfL
<1> HIDE DEF ma, mr, a, r
<1>5. ASSUME ma.ok, mr.ok, s < L
      PROVE  ge_tobytes(ge_double(ge_double(ge_double(sum)))) = ge_tobytes(ge_zero)
               <=> Times(8, LeftOver(s, h, a, r)) = Origin
  <2> DEFINE q == LeftOver(s, h, a, r)
             g == DoubleScalar(ma.h, s, h)
             t == AffineAdd(Mult(h, Negated(a)), Mult(s, B))
  <2>1. /\ a \in Affine /\ r \in Affine /\ Rep(ma.h, Negated(a)) /\ Rep(mr.h, Negated(r))
        /\ s \in 0 .. (L - 1)
    BY <1>2, <1>4, <1>5
  <2>2. Negated(a) \in Affine /\ Negated(r) \in Affine
    BY <2>1, NegatedIs
  <2>3. Rep(g, t)
    BY <2>1, <2>2, DoubleScalarIs
  <2>4. Cached(ge_cache(mr.h), Negated(r))
    BY <2>1, <2>2, CacheIs
  <2>5. t \in Affine
    <3>1. B \in Affine /\ s \in Int /\ h \in Int
      BY BaseIs, <1>4
    <3>2. Mult(h, Negated(a)) \in Affine /\ Mult(s, B) \in Affine
      BY <3>1, <2>2, MultIs
    <3> QED
      BY <3>2, SumClosed
  <2>6. AffineAdd(t, Negated(r)) = q
    BY <2>1, <1>4, LeftIs DEF LeftOver
  <2> HIDE DEF g, t
  <2>7. Rep(sum, q)
    BY <2>2, <2>3, <2>4, <2>5, <2>6, AddIs DEF g
  <2>8. q \in Affine
    BY <2>1, <1>4, LeftOverIs
  <2> HIDE DEF q, sum
  <2>9. /\ Rep(ge_double(ge_double(ge_double(sum))), TimesEight(q)) /\ TimesEight(q) \in Affine
        /\ Times(8, q) = TimesEight(q)
    BY <2>7, <2>8, TimesEightIs
  <2>10. ge_tobytes(ge_double(ge_double(ge_double(sum)))) = Encoded(TimesEight(q))
    BY <2>9, ToBytesIs
  <2>11. ge_tobytes(ge_zero) = Encoded(Origin)
    BY ZeroIs, OriginIs, ToBytesIs
  <2> QED
    BY <2>9, <2>10, <2>11, EncodedZero DEF q
<1> QED
  BY <1>1, <1>2, <1>3, <1>5 DEF a, r


AllTeeth == 2 * Teeth

LEMMA TeethAre ==
  /\ Teeth \in Nat \ {0} /\ Spacing \in Nat \ {0} /\ AllTeeth \in Nat \ {0}
  /\ Bits = Spacing * AllTeeth /\ Teeth <= Bits /\ AllTeeth = Teeth + Teeth
<1> DEFINE D == 2 * Teeth
<1>1. Teeth \in Nat \ {0} /\ Bits % D = 0 /\ Bits \in Nat /\ Bits >= 8 /\ D \in Nat \ {0}
  BY WidthAssumption, TwosAre
<1>2. D = AllTeeth /\ Spacing = Bits \div D /\ D = Teeth + Teeth
  BY <1>1 DEF AllTeeth, Spacing
<1> HIDE DEF D
<1>3. Bits = D * (Bits \div D) + (Bits % D) /\ Bits \div D \in Nat
  BY <1>1, LowAndHigh
<1>4. Bits = D * Spacing /\ Spacing \in Nat
  BY <1>1, <1>2, <1>3
<1>5. Spacing # 0
  BY <1>1, <1>4
<1>6. Spacing * D >= D
  <2>1. Spacing = (Spacing - 1) + 1 /\ Spacing - 1 \in Nat
    BY <1>4, <1>5
  <2>2. (Spacing - 1) * D \in Nat /\ Spacing * D = (Spacing - 1) * D + D
    BY <2>1, <1>1
  <2> QED
    BY <2>2, <1>1
<1>7. Bits = Spacing * D
  BY <1>1, <1>4
<1> QED
  BY <1>1, <1>2, <1>4, <1>5, <1>6, <1>7

LEMMA PlaceIs ==
  ASSUME NEW t \in 0 .. (AllTeeth - 1), NEW i \in 0 .. Spacing
  PROVE  /\ Spacing * t \in Nat /\ Spacing * t + i \in 0 .. Bits
         /\ Spacing * (t + 1) = Spacing * t + Spacing
         /\ i < Spacing => Spacing * t + i \in 0 .. (Bits - 1)
<1>1. Spacing \in Nat \ {0} /\ AllTeeth \in Nat \ {0} /\ Bits = Spacing * AllTeeth
  BY TeethAre
<1> DEFINE r == AllTeeth - (t + 1)
<1>2. r \in Nat /\ AllTeeth = t + 1 + r
  BY <1>1
<1> HIDE DEF r
<1>3. Spacing * t \in Nat /\ Spacing * r \in Nat /\ Bits = Spacing * t + Spacing + Spacing * r
  <2>1. Spacing * t \in Nat /\ Spacing * r \in Nat
    BY <1>1, <1>2
  <2>2. Spacing * (t + 1 + r) = Spacing * t + Spacing + Spacing * r
    BY <1>1, <1>2
  <2> QED
    BY <2>1, <2>2, <1>1, <1>2
<1>4. Spacing * (t + 1) = Spacing * t + Spacing
  BY <1>1
<1> QED
  BY <1>1, <1>3, <1>4

LEMMA TeethPower ==
  ASSUME NEW t \in 0 .. AllTeeth
  PROVE  /\ Spacing * t \in 0 .. Bits /\ 2 ^ (Spacing * t) \in Nat \ {0}
         /\ t < AllTeeth => 2 ^ (Spacing * (t + 1)) = 2 ^ (Spacing * t) * 2 ^ Spacing
<1>1. Spacing \in Nat \ {0} /\ AllTeeth \in Nat \ {0} /\ Bits = Spacing * AllTeeth /\ Bits \in Nat
  BY TeethAre, TwosAre
<1>2. Spacing * t \in 0 .. Bits
  <2>1. CASE t = AllTeeth
    BY <2>1, <1>1
  <2>2. CASE t < AllTeeth
    <3>1. t \in 0 .. (AllTeeth - 1) /\ 0 \in 0 .. Spacing
      BY <2>2, <1>1
    <3>2. Spacing * t \in Nat /\ Spacing * t + 0 \in 0 .. Bits
      BY <3>1, PlaceIs
    <3> QED
      BY <3>2, <1>1
  <2> QED
    BY <2>1, <2>2, <1>1
<1>3. ASSUME t < AllTeeth
      PROVE  2 ^ (Spacing * (t + 1)) = 2 ^ (Spacing * t) * 2 ^ Spacing
  <2> DEFINE u == Spacing * t
  <2>1. t \in 0 .. (AllTeeth - 1) /\ Spacing \in 0 .. Spacing
    BY <1>1, <1>3
  <2>2. u + Spacing \in 0 .. Bits /\ Spacing * (t + 1) = u + Spacing /\ u \in Nat
    BY <2>1, PlaceIs
  <2> HIDE DEF u
  <2>3. 2 ^ (u + Spacing) = 2 ^ u * 2 ^ Spacing
    BY <2>2, <1>1, TwosSum
  <2> QED
    BY <2>2, <2>3 DEF u
<1> QED
  BY <1>1, <1>2, <1>3, TwosAre


Prefixes(g, f) ==
  g \in [0 .. AllTeeth -> Int] /\ g[0] = 0
    /\ \A k \in 1 .. AllTeeth : g[k] = g[k - 1] + 2 ^ (Spacing * (k - 1)) * f[k - 1]
Prefix(f) == CHOOSE g : Prefixes(g, f)
AreInts(f) == \A t \in 0 .. (AllTeeth - 1) : f[t] \in Int

LEMMA PrefixIs ==
  ASSUME NEW f, AreInts(f)
  PROVE  /\ \A k \in 0 .. AllTeeth : Prefix(f)[k] \in Int
         /\ Prefix(f)[0] = 0
         /\ \A k \in 0 .. (AllTeeth - 1) : Prefix(f)[k + 1] = Prefix(f)[k] + 2 ^ (Spacing * k) * f[k]
<1> DEFINE n == AllTeeth
           F == [k \in 1 .. n |-> [s \in Int |-> s + 2 ^ (Spacing * (k - 1)) * f[k - 1]]]
<1>1. n \in Nat /\ 0 \in Int
  BY TeethAre
<1>2. \A k \in 1 .. n, s \in Int : F[k][s] = s + 2 ^ (Spacing * (k - 1)) * f[k - 1] /\ F[k][s] \in Int
  <2> TAKE k \in 1 .. n, s \in Int
  <2>1. k - 1 \in 0 .. (AllTeeth - 1) /\ k - 1 \in 0 .. AllTeeth
    BY <1>1
  <2>2. f[k - 1] \in Int /\ 2 ^ (Spacing * (k - 1)) \in Int
    BY <2>1, TeethPower DEF AreInts
  <2> QED
    BY <2>2
<1> HIDE DEF F
<1>3. PICK g : Follows(g, Int, 0, F, n)
  <2>1. StaysIn(Int, F, n)
    BY <1>2 DEF StaysIn
  <2>2. QED
    BY <2>1, <1>1, Recursion
<1>4. g \in [0 .. n -> Int] /\ g[0] = 0 /\ \A k \in 1 .. n : g[k] = F[k][g[k - 1]]
  BY <1>3 DEF Follows
<1>5. \A k \in 1 .. n : g[k] = g[k - 1] + 2 ^ (Spacing * (k - 1)) * f[k - 1]
  <2> TAKE k \in 1 .. n
  <2>1. k - 1 \in 0 .. n
    BY <1>1
  <2> QED
    BY <2>1, <1>2, <1>4
<1>6. Prefixes(g, f)
  BY <1>4, <1>5 DEF Prefixes
<1> DEFINE h == Prefix(f)
<1>7. Prefixes(h, f)
  BY <1>6 DEF Prefix
<1> HIDE DEF h
<1>8. \A k \in 0 .. (n - 1) : k + 1 \in 1 .. n /\ (k + 1) - 1 = k
  BY <1>1
<1>9. \A k \in 1 .. n : h[k] = h[k - 1] + 2 ^ (Spacing * (k - 1)) * f[k - 1]
  BY <1>7 DEF Prefixes
<1>10. \A k \in 0 .. (n - 1) : h[k + 1] = h[k] + 2 ^ (Spacing * k) * f[k]
  <2> TAKE k \in 0 .. (n - 1)
  <2>1. k + 1 \in 1 .. n /\ (k + 1) - 1 = k
    BY <1>8
  <2>2. h[k + 1] = h[(k + 1) - 1] + 2 ^ (Spacing * ((k + 1) - 1)) * f[(k + 1) - 1]
    BY <2>1, <1>9
  <2> QED
    BY <2>1, <2>2
<1> QED
  BY <1>7, <1>10 DEF h, Prefixes


Tooth(offset) == [t \in 0 .. Teeth - 1 |-> Times(2 ^ (Spacing * t + offset), B)]
Combing(g, tooth, j) ==
  g = [t \in 0 .. Teeth - 1 |->
        IF t = 0 THEN tooth[Teeth - 1]
        ELSE AffineAdd(g[t - 1], Signed(tooth[t - 1], scalar_bit(j, t - 1)))]
CombEntry(offset, j) == (CHOOSE g : Combing(g, Tooth(offset), j))[Teeth - 1]

LEMMA CombUnfold ==
  ASSUME NEW offset, NEW j \in 0 .. 2 ^ (Teeth - 1) - 1
  PROVE  Comb(offset)[j] = Precomputed(CombEntry(offset, j))
<1>1. Comb(offset) = [i \in 0 .. 2 ^ (Teeth - 1) - 1 |-> Precomputed(CombEntry(offset, i))]
  BY Zenon DEF Comb, CombEntry, Combing, Tooth
<1> QED
  BY <1>1

\* A comb starts with the first tooth of the scalar or with that of its upper half.
LEMMA ToothIs ==
  ASSUME NEW u \in {0, Teeth}, NEW t \in 0 .. (Teeth - 1)
  PROVE  /\ u + t \in 0 .. (AllTeeth - 1) /\ 2 ^ (Spacing * (u + t)) \in Nat \ {0}
         /\ Tooth(Spacing * u)[t] = Mult(2 ^ (Spacing * (u + t)), B)
         /\ Tooth(Spacing * u)[t] \in Affine
<1>1. Teeth \in Nat \ {0} /\ Spacing \in Nat \ {0} /\ AllTeeth = Teeth + Teeth /\ B \in Affine
  BY TeethAre, BaseIs
<1>2. u + t \in 0 .. (AllTeeth - 1) /\ u + t \in 0 .. AllTeeth /\ u \in Nat
  BY <1>1
<1>3. 2 ^ (Spacing * (u + t)) \in Nat \ {0}
  BY <1>2, TeethPower
<1>4. Spacing * t + Spacing * u = Spacing * (u + t)
  BY <1>1, <1>2
<1> DEFINE w == 2 ^ (Spacing * (u + t))
<1>5. Tooth(Spacing * u)[t] = Times(w, B)
  BY <1>4 DEF Tooth
<1> HIDE DEF w
<1>6. w \in Nat
  BY <1>3 DEF w
<1>7. Times(w, B) = Mult(w, B) /\ Times(w, B) \in Affine
  BY <1>1, <1>6, MultIs, TimesIs
<1> QED
  BY <1>2, <1>3, <1>5, <1>7 DEF w

LEMMA SignedIs ==
  ASSUME NEW p \in Affine, NEW bit, NEW e \in {1, -1}, bit = 1 <=> e = 1
  PROVE  Signed(p, bit) = Mult(e, p) /\ Signed(p, bit) \in Affine
<1>1. CASE e = 1
  BY <1>1, MultIs DEF Signed
<1>2. CASE e = -1
  <2> DEFINE one == 1
  <2>1. one \in Int /\ e = -one /\ bit # 1
    BY <1>2
  <2>2. Mult(one, p) = p
    BY MultIs
  <2> HIDE DEF one
  <2>3. Mult(-one, p) = Negated(Mult(one, p))
    BY <2>1, MultMinus
  <2>4. Mult(e, p) = Negated(p)
    BY <2>1, <2>2, <2>3
  <2> QED
    BY <2>1, <2>4, NegatedIs DEF Signed
<1> QED
  BY <1>1, <1>2

\* The signs of an entry: e is that of the last tooth.
SignsOf(f, e, u, j) ==
  /\ f[u + (Teeth - 1)] = e
  /\ \A t \in 0 .. (Teeth - 2) : scalar_bit(j, t) = 1 <=> e * f[u + t] = 1
Signs(f) == \A t \in 0 .. (AllTeeth - 1) : f[t] \in {1, -1}

LEMMA EntryStep ==
  ASSUME NEW e \in {1, -1}, NEW s \in {1, -1}, NEW w \in Nat, NEW c \in Int, NEW bit,
         bit = 1 <=> e * s = 1
  PROVE  AffineAdd(Mult(c, B), Signed(Mult(w, B), bit)) = Mult(c + e * (w * s), B)
<1>1. B \in Affine
  BY BaseIs
<1> DEFINE x == e * s
<1>2. x \in {1, -1} /\ x \in Int /\ (bit = 1 <=> x = 1)
  OBVIOUS
<1>3. e * (w * s) = x * w
  OBVIOUS
<1> HIDE DEF x
<1>4. Mult(w, B) \in Affine /\ w \in Int
  BY <1>1, MultIs
<1>5. Signed(Mult(w, B), bit) = Mult(x, Mult(w, B))
  BY <1>2, <1>4, SignedIs
<1>6. Mult(x, Mult(w, B)) = Mult(x * w, B)
  BY <1>1, <1>2, <1>4, MultTimes
<1> DEFINE y == x * w
<1>7. y \in Int
  BY <1>2, <1>4
<1> HIDE DEF y
<1>8. Mult(c + y, B) = AffineAdd(Mult(c, B), Mult(y, B))
  BY <1>1, <1>7, MultSum
<1> QED
  BY <1>3, <1>5, <1>6, <1>8 DEF y

LEMMA CombingExists ==
  ASSUME NEW u \in {0, Teeth}, NEW j, NEW tooth, tooth = Tooth(Spacing * u)
  PROVE  \E g : Combing(g, tooth, j)
<1> DEFINE n == Teeth - 1
           F == [k \in 1 .. n |-> [p \in Affine |-> AffineAdd(p, Signed(tooth[k - 1], scalar_bit(j, k - 1)))]]
           a == tooth[Teeth - 1]
<1>1. n \in Nat /\ Teeth - 1 \in 0 .. (Teeth - 1)
  BY TeethAre
<1>2. \A t \in 0 .. (Teeth - 1) : tooth[t] \in Affine
  BY ToothIs
<1>3. a \in Affine
  BY <1>1, <1>2
<1>4. \A k \in 1 .. n, p \in Affine :
        /\ F[k][p] = AffineAdd(p, Signed(tooth[k - 1], scalar_bit(j, k - 1)))
        /\ F[k][p] \in Affine
  <2> TAKE k \in 1 .. n, p \in Affine
  <2>1. k - 1 \in 0 .. (Teeth - 1)
    BY <1>1
  <2>2. Signed(tooth[k - 1], scalar_bit(j, k - 1)) \in Affine
    BY <2>1, <1>2, NegatedIs DEF Signed
  <2> QED
    BY <2>2, SumClosed
<1> HIDE DEF F, a
<1>5. PICK g : Follows(g, Affine, a, F, n)
  <2>1. StaysIn(Affine, F, n)
    BY <1>4 DEF StaysIn
  <2>2. QED
    BY <2>1, <1>1, <1>3, Recursion
<1>6. g \in [0 .. n -> Affine] /\ g[0] = a /\ \A k \in 1 .. n : g[k] = F[k][g[k - 1]]
  BY <1>5 DEF Follows
<1>7. \A k \in 0 .. n : g[k] = IF k = 0 THEN a
                             ELSE AffineAdd(g[k - 1], Signed(tooth[k - 1], scalar_bit(j, k - 1)))
  <2> TAKE k \in 0 .. n
  <2>1. k = 0 \/ (k \in 1 .. n /\ k - 1 \in 0 .. n /\ k # 0)
    BY <1>1
  <2> QED
    BY <2>1, <1>4, <1>6
<1>8. g = [k \in 0 .. n |-> IF k = 0 THEN a
                          ELSE AffineAdd(g[k - 1], Signed(tooth[k - 1], scalar_bit(j, k - 1)))]
  <2>1. g = [k \in 0 .. n |-> g[k]]
    BY <1>6
  <2> QED
    BY <2>1, <1>7, Zenon
<1> QED
  BY <1>8, Zenon DEF Combing, a, n

LEMMA EntryIs ==
  ASSUME NEW u \in {0, Teeth}, NEW f, Signs(f), NEW e \in {1, -1}, NEW j \in 0 .. 2 ^ (Teeth - 1) - 1,
         SignsOf(f, e, u, j)
  PROVE  Cached(Comb(Spacing * u)[j], Mult(e * (Prefix(f)[u + Teeth] - Prefix(f)[u]), B))
<1> DEFINE n == Teeth - 1
           tooth == Tooth(Spacing * u)
           g == CHOOSE h : Combing(h, tooth, j)
           X == Prefix(f)
           w(t) == 2 ^ (Spacing * (u + t))
           c(t) == w(n) + e * (X[u + t] - X[u])
           T == {t \in 0 .. n : g[t] = Mult(c(t), B)}
<1>1. n \in Nat /\ Teeth \in Nat \ {0} /\ AllTeeth = Teeth + Teeth /\ u \in Nat /\ B \in Affine
  BY TeethAre, BaseIs
<1>2. AreInts(f)
  BY DEF Signs, AreInts
<1>3. \A k \in 0 .. AllTeeth : X[k] \in Int
  BY <1>2, PrefixIs
<1>4. \A t \in 0 .. n : /\ X[u + t] \in Int /\ w(t) \in Nat /\ f[u + t] \in {1, -1}
                        /\ X[u + t + 1] = X[u + t] + w(t) * f[u + t]
                        /\ X[u + t + 1] \in Int
                        /\ tooth[t] = Mult(w(t), B) /\ tooth[t] \in Affine
  <2> TAKE t \in 0 .. n
  <2>1. u + t \in 0 .. (AllTeeth - 1) /\ t \in 0 .. (Teeth - 1) /\ u + t \in 0 .. AllTeeth /\ u + t + 1 \in 0 .. AllTeeth
    BY <1>1
  <2>2. X[(u + t) + 1] = X[u + t] + 2 ^ (Spacing * (u + t)) * f[u + t]
    BY <2>1, <1>2, PrefixIs
  <2>3. f[u + t] \in {1, -1}
    BY <2>1 DEF Signs
  <2>4. 2 ^ (Spacing * (u + t)) \in Nat \ {0} /\ tooth[t] = Mult(2 ^ (Spacing * (u + t)), B) /\ tooth[t] \in Affine
    BY <2>1, ToothIs
  <2> QED
    BY <2>1, <2>2, <2>3, <2>4, <1>3
<1>5. \A t \in 0 .. n : c(t) \in Int
  <2> TAKE t \in 0 .. n
  <2>1. u \in 0 .. AllTeeth /\ n \in 0 .. n
    BY <1>1
  <2>2. X[u] \in Int /\ X[u + t] \in Int /\ w(n) \in Nat
    BY <2>1, <1>3, <1>4
  <2> QED
    BY <2>2
<1>6. Combing(g, tooth, j)
  BY CombingExists
<1>7. g[0] = tooth[n] /\ \A t \in 1 .. n : g[t] = AffineAdd(g[t - 1], Signed(tooth[t - 1], scalar_bit(j, t - 1)))
  <2>1. 0 \in 0 .. n /\ \A t \in 1 .. n : t \in 0 .. n /\ t # 0
    BY <1>1
  <2>2. \A t \in 0 .. n : g[t] = IF t = 0 THEN tooth[n]
                             ELSE AffineAdd(g[t - 1], Signed(tooth[t - 1], scalar_bit(j, t - 1)))
    BY <1>6 DEF Combing
  <2> QED
    BY <2>1, <2>2
<1> HIDE DEF g, tooth, X, w
<1>8. 0 \in T
  <2>1. 0 \in 0 .. n /\ n \in 0 .. n /\ u + 0 = u
    BY <1>1
  <2>2. X[u + 0] \in Int /\ w(n) \in Nat
    BY <2>1, <1>4
  <2>3. c(0) = w(n)
    BY <2>1, <2>2
  <2> QED
    BY <2>1, <2>3, <1>4, <1>7
<1>9. \A t \in 0 .. (n - 1) : t \in T => t + 1 \in T
  <2> TAKE t \in 0 .. (n - 1)
  <2> HAVE t \in T
  <2>1. t \in 0 .. n /\ t + 1 \in 1 .. n /\ t + 1 \in 0 .. n /\ (t + 1) - 1 = t /\ t \in 0 .. (Teeth - 2) /\ n \in 0 .. n
        /\ u + (t + 1) = u + t + 1 /\ 0 \in 0 .. n /\ u + 0 = u
    BY <1>1
  <2>2. g[t] = Mult(c(t), B) /\ c(t) \in Int
    BY <2>1, <1>5
  <2>3. scalar_bit(j, t) = 1 <=> e * f[u + t] = 1
    BY <2>1 DEF SignsOf
  <2>4. g[t + 1] = AffineAdd(g[t], Signed(tooth[t], scalar_bit(j, t)))
    BY <2>1, <1>7
  <2>5. tooth[t] = Mult(w(t), B) /\ w(t) \in Nat /\ f[u + t] \in {1, -1}
    BY <2>1, <1>4
  <2>6. c(t + 1) = c(t) + e * (w(t) * f[u + t])
    <3>1. X[u + (t + 1)] = X[u + t] + w(t) * f[u + t] /\ X[u + t] \in Int /\ X[u + 0] \in Int /\ w(n) \in Nat
      BY <2>1, <1>4
    <3> DEFINE y == w(t) * f[u + t]
    <3>2. y \in Int
      BY <2>5
    <3> HIDE DEF y
    <3>3. X[u + (t + 1)] = X[u + t] + y /\ X[u] \in Int
      BY <3>1, <2>1 DEF y
    <3>4. w(n) + e * (X[u + (t + 1)] - X[u]) = (w(n) + e * (X[u + t] - X[u])) + e * y
      BY <3>1, <3>2, <3>3
    <3> QED
      BY <3>4 DEF y
  <2> HIDE DEF c
  <2>7. AffineAdd(Mult(c(t), B), Signed(Mult(w(t), B), scalar_bit(j, t))) = Mult(c(t) + e * (w(t) * f[u + t]), B)
    BY ZenonT(60), <2>2, <2>3, <2>5, EntryStep
  <2> QED
    BY <2>1, <2>2, <2>4, <2>5, <2>6, <2>7
<1> HIDE DEF T
<1>10. n \in T
  <2>1. \A t \in 0 .. n : t \in T
    BY <1>1, <1>8, <1>9, InductionTo
  <2> QED
    BY <2>1, <1>1
<1>11. g[n] = Mult(c(n), B)
  BY <1>10 DEF T
<1>12. c(n) = e * (X[u + Teeth] - X[u])
  <2>1. n \in 0 .. n /\ u + n + 1 = u + Teeth /\ u + 0 = u /\ 0 \in 0 .. n
    BY <1>1
  <2>2. X[u + Teeth] = X[u + n] + w(n) * f[u + n] /\ X[u + n] \in Int /\ X[u + 0] \in Int /\ w(n) \in Nat
    BY <2>1, <1>4
  <2>3. f[u + n] = e
    BY DEF SignsOf
  <2>4. X[u] \in Int
    BY <2>1, <2>2
  <2> DEFINE v == w(n)
             x == X[u + n]
             z == X[u]
  <2>5. v \in Int /\ x \in Int /\ z \in Int
    BY <2>2, <2>4
  <2> HIDE DEF v, x, z
  <2>6. v + e * (x - z) = e * ((x + v * e) - z)
    <3>1. e * e = 1
      OBVIOUS
    <3>2. e * ((x + v * e) - z) = e * (x - z) + v * (e * e)
      BY <2>5
    <3> QED
      BY <3>1, <3>2, <2>5
  <2> QED
    BY <2>2, <2>3, <2>6 DEF v, x, z
<1>13. CombEntry(Spacing * u, j) = Mult(c(n), B) /\ c(n) \in Int
  <2>1. n \in 0 .. n
    BY <1>1
  <2> QED
    BY <2>1, <1>5, <1>11 DEF CombEntry, g, tooth
<1> DEFINE q == CombEntry(Spacing * u, j)
<1>14. q \in Affine
  BY <1>1, <1>13, MultIs
<1>15. Comb(Spacing * u)[j] = Precomputed(q)
  BY CombUnfold
<1> HIDE DEF q
<1>16. Cached(ge_precomp(q[1], q[2]), q)
  BY <1>14, PrecompIs
<1> QED
  BY <1>12, <1>13, <1>15, <1>16 DEF Precomputed, q, X


\* A number put together from binary digits has them.
Binary(g, c, n) ==
  /\ g[0] = 0 /\ \A k \in 1 .. n : g[k] = g[k - 1] + 2 ^ (k - 1) * c[k - 1]
  /\ \A k \in 0 .. (n - 1) : c[k] \in {0, 1}
HasBits(x, c, k) == x \in 0 .. (2 ^ k - 1) /\ \A t \in 0 .. (k - 1) : scalar_bit(x, t) = c[t]

LEMMA HigherBit ==
  ASSUME NEW x \in Nat, NEW k \in 0 .. (Bits - 1), NEW b \in {0, 1}, NEW t \in 0 .. (k - 1)
  PROVE  scalar_bit(x + 2 ^ k * b, t) = scalar_bit(x, t)
<1> DEFINE D == 2 ^ t
           v == k - (t + 1)
           E == 2 ^ v
           q == x \div D
           r == x % D
           M == E * b
           y == x + 2 ^ k * b
<1>1. t \in Nat /\ k \in Nat /\ v \in Nat /\ t + 1 + v = k /\ Bits \in Nat
  BY TwosAre
<1>2. D \in Nat \ {0} /\ E \in Nat
  BY <1>1, TwosAre
<1>3. 2 ^ k = D * (2 * E)
  <2> DEFINE s == t + 1
  <2>1. s \in Nat /\ s + v = k /\ s + v <= Bits
    BY <1>1
  <2>2. 2 ^ s = 2 * D
    BY <1>1, TwosAre
  <2> HIDE DEF s, v
  <2>3. 2 ^ (s + v) = 2 ^ s * 2 ^ v
    BY <2>1, <1>1, TwosSum
  <2>4. 2 ^ k = (2 * D) * E
    BY <2>1, <2>2, <2>3
  <2> QED
    BY <2>4, <1>2
<1> HIDE DEF D, E, v
<1>4. x = D * q + r /\ q \in Nat /\ r \in 0 .. (D - 1)
  BY <1>2, LowAndHigh
<1> HIDE DEF q, r
<1>5. M \in Nat
  BY <1>2
<1>6. y = D * (2 * M + q) + r
  <2>1. 2 ^ k * b = D * (2 * M)
    BY <1>2, <1>3
  <2> HIDE DEF M
  <2>2. D * (2 * M + q) = D * (2 * M) + D * q
    BY <1>2, <1>4, <1>5
  <2>3. D * (2 * M) \in Nat /\ D * q \in Nat
    BY <1>2, <1>4, <1>5
  <2> QED
    BY <2>1, <2>2, <2>3, <1>4
<1> HIDE DEF M
<1> DEFINE z == 2 * M + q
<1>7. z \in Int /\ z % 2 = q % 2
  BY <1>4, <1>5, Shifted
<1> HIDE DEF z
<1>8. y \div D = z
  <2>1. (D * z + r) \div D = z
    BY <1>2, <1>4, <1>7, Division
  <2> QED
    BY <2>1, <1>6 DEF z
<1> HIDE DEF y
<1>9. scalar_bit(y, t) = z % 2 /\ scalar_bit(x, t) = q % 2
  BY <1>1, <1>8 DEF scalar_bit, D, q
<1> QED
  BY <1>7, <1>9 DEF y

LEMMA TopBitIs ==
  ASSUME NEW k \in 0 .. (Bits - 1), NEW x \in 0 .. (2 ^ k - 1), NEW b \in {0, 1}
  PROVE  scalar_bit(x + 2 ^ k * b, k) = b /\ x + 2 ^ k * b \in 0 .. (2 ^ (k + 1) - 1)
<1> DEFINE D == 2 ^ k
<1>1. D \in Nat \ {0} /\ 2 ^ (k + 1) = 2 * D /\ k \in Nat
  BY TwosAre
<1>2. x \in 0 .. (D - 1)
  OBVIOUS
<1>3. scalar_bit(x + D * b, k) = ((x + D * b) \div D) % 2
  BY <1>1 DEF scalar_bit
<1> HIDE DEF D
<1>4. (D * b + x) \div D = b
  BY <1>1, <1>2, Division
<1>5. x + D * b = D * b + x /\ b % 2 = b
  BY <1>1, <1>2
<1>6. x + D * b \in 0 .. (2 * D - 1)
  BY <1>1, <1>2
<1> QED
  BY <1>1, <1>3, <1>4, <1>5, <1>6 DEF D

LEMMA BinaryIs ==
  ASSUME NEW n \in 0 .. Bits, NEW g, NEW c, Binary(g, c, n)
  PROVE  HasBits(g[n], c, n)
<1> DEFINE T == {k \in 0 .. n : HasBits(g[k], c, k)}
<1>1. n \in Nat /\ Bits \in Nat
  BY TwosAre
<1>2. 0 \in T
  BY <1>1, TwosAre DEF Binary, HasBits
<1>3. \A k \in 0 .. (n - 1) : k \in T => k + 1 \in T
  <2> TAKE k \in 0 .. (n - 1)
  <2> HAVE k \in T
  <2>1. k \in 0 .. (Bits - 1) /\ k + 1 \in 1 .. n /\ k + 1 \in 0 .. n /\ (k + 1) - 1 = k
    BY <1>1
  <2>2. g[k + 1] = g[k] + 2 ^ k * c[k] /\ c[k] \in {0, 1}
    BY <2>1 DEF Binary
  <2>3. 2 ^ k \in Nat /\ g[k] \in 0 .. (2 ^ k - 1) /\ \A t \in 0 .. (k - 1) : scalar_bit(g[k], t) = c[t]
    BY <2>1, TwosAre DEF HasBits
  <2>4. scalar_bit(g[k + 1], k) = c[k] /\ g[k + 1] \in 0 .. (2 ^ (k + 1) - 1)
    BY <2>1, <2>2, <2>3, TopBitIs
  <2>5. \A t \in 0 .. (k - 1) : scalar_bit(g[k + 1], t) = c[t]
    <3> TAKE t \in 0 .. (k - 1)
    <3>1. g[k] \in Nat
      BY <2>3
    <3>2. scalar_bit(g[k] + 2 ^ k * c[k], t) = scalar_bit(g[k], t)
      BY <2>1, <2>2, <3>1, HigherBit
    <3> QED
      BY <2>2, <2>3, <3>2
  <2>6. \A t \in 0 .. ((k + 1) - 1) : t = k \/ t \in 0 .. (k - 1)
    BY <2>1
  <2>7. HasBits(g[k + 1], c, k + 1)
    BY <2>4, <2>5, <2>6 DEF HasBits
  <2> QED
    BY <2>1, <2>7
<1> HIDE DEF T
<1>4. \A k \in 0 .. n : k \in T
  BY <1>1, <1>2, <1>3, InductionTo
<1>5. n \in T
  BY <1>1, <1>4
<1> QED
  BY <1>5 DEF T

Spaced(x, i, t) == scalar_bit(x, i + Spacing * t)
SpacedDigit(x, i, t) == IF Spaced(x, i, Teeth - 1) = 1 THEN Spaced(x, i, t) ELSE 1 - Spaced(x, i, t)
Indexing(g, x, i) ==
  g = [t \in 0 .. Teeth - 1 |-> IF t = 0 THEN 0 ELSE g[t - 1] + 2 ^ (t - 1) * SpacedDigit(x, i, t - 1)]
IndexOf(x, i) == (CHOOSE g : Indexing(g, x, i))[Teeth - 1]

LEMMA LookupUnfold ==
  ASSUME NEW p, NEW comb, NEW x, NEW i
  PROVE  lookup_add(p, comb, x, i)
           = ge_add(p, IF Spaced(x, i, Teeth - 1) = 1 THEN comb[IndexOf(x, i)]
                       ELSE ge_negated(comb[IndexOf(x, i)]))
BY Zenon DEF lookup_add, IndexOf, Indexing, SpacedDigit, Spaced

LEMMA IndexIs ==
  ASSUME NEW x, NEW i, \A t \in 0 .. (Teeth - 1) : Spaced(x, i, t) \in {0, 1}
  PROVE  /\ IndexOf(x, i) \in 0 .. 2 ^ (Teeth - 1) - 1
         /\ \A t \in 0 .. (Teeth - 2) : scalar_bit(IndexOf(x, i), t) = SpacedDigit(x, i, t)
<1> DEFINE n == Teeth - 1
           c == [t \in 0 .. (n - 1) |-> SpacedDigit(x, i, t)]
           F == [k \in 1 .. n |-> [s \in Int |-> s + 2 ^ (k - 1) * SpacedDigit(x, i, k - 1)]]
<1>1. n \in Nat /\ n \in 0 .. Bits /\ 0 \in Int /\ Bits \in Nat /\ Teeth \in Nat \ {0}
  BY TeethAre, TwosAre
<1>2. \A t \in 0 .. (n - 1) : SpacedDigit(x, i, t) \in {0, 1} /\ 2 ^ t \in Nat
  <2> TAKE t \in 0 .. (n - 1)
  <2>1. t \in 0 .. (Teeth - 1) /\ t \in 0 .. Bits
    BY <1>1
  <2>2. Spaced(x, i, t) \in {0, 1}
    BY <2>1
  <2> QED
    BY <2>1, <2>2, TwosAre DEF SpacedDigit
<1>3. \A k \in 1 .. n, s \in Int : F[k][s] = s + 2 ^ (k - 1) * SpacedDigit(x, i, k - 1) /\ F[k][s] \in Int
  <2> TAKE k \in 1 .. n, s \in Int
  <2>1. k - 1 \in 0 .. (n - 1)
    BY <1>1
  <2>2. SpacedDigit(x, i, k - 1) \in Int /\ 2 ^ (k - 1) \in Int
    BY <2>1, <1>2
  <2> QED
    BY <2>2
<1> HIDE DEF F
<1>4. PICK g : Follows(g, Int, 0, F, n)
  <2>1. StaysIn(Int, F, n)
    BY <1>3 DEF StaysIn
  <2>2. QED
    BY <2>1, <1>1, Recursion
<1>5. g \in [0 .. n -> Int] /\ g[0] = 0 /\ \A k \in 1 .. n : g[k] = F[k][g[k - 1]]
  BY <1>4 DEF Follows
<1>6. \A k \in 0 .. n : g[k] = IF k = 0 THEN 0 ELSE g[k - 1] + 2 ^ (k - 1) * SpacedDigit(x, i, k - 1)
  <2> TAKE k \in 0 .. n
  <2>1. k = 0 \/ (k \in 1 .. n /\ k - 1 \in 0 .. n /\ k # 0)
    BY <1>1
  <2> QED
    BY <2>1, <1>3, <1>5
<1>7. g = [k \in 0 .. n |-> IF k = 0 THEN 0 ELSE g[k - 1] + 2 ^ (k - 1) * SpacedDigit(x, i, k - 1)]
  <2>1. g = [k \in 0 .. n |-> g[k]]
    BY <1>5
  <2> QED
    BY <2>1, <1>6, Zenon
<1>8. Indexing(g, x, i)
  BY <1>7, Zenon DEF Indexing, n
<1> DEFINE h == CHOOSE f : Indexing(f, x, i)
<1>9. Indexing(h, x, i)
  BY <1>8
<1> HIDE DEF h
<1>10. \A k \in 0 .. n : h[k] = IF k = 0 THEN 0 ELSE h[k - 1] + 2 ^ (k - 1) * SpacedDigit(x, i, k - 1)
  BY <1>9 DEF Indexing
<1>11. Binary(h, c, n)
  <2>1. h[0] = 0
    BY <1>1, <1>10
  <2>2. \A k \in 1 .. n : h[k] = h[k - 1] + 2 ^ (k - 1) * c[k - 1]
    <3> TAKE k \in 1 .. n
    <3>1. k \in 0 .. n /\ k # 0 /\ k - 1 \in 0 .. (n - 1)
      BY <1>1
    <3> QED
      BY <3>1, <1>10
  <2>3. \A k \in 0 .. (n - 1) : c[k] \in {0, 1}
    BY <1>2
  <2> HIDE DEF c
  <2> QED
    BY <2>1, <2>2, <2>3 DEF Binary
<1>12. HasBits(h[n], c, n)
  BY <1>1, <1>11, BinaryIs
<1>13. IndexOf(x, i) = h[n]
  BY DEF IndexOf, h
<1>14. \A t \in 0 .. (Teeth - 2) : t \in 0 .. (n - 1)
  BY <1>1
<1> QED
  BY <1>12, <1>13, <1>14 DEF HasBits

\* The signs that the bits of x stand for, i bits above every tooth.
SignAt(x, i, t) == 2 * scalar_bit(x, Spacing * t + i) - 1
SignsAt(x, i) == [t \in 0 .. (AllTeeth - 1) |-> SignAt(x, i, t)]

LEMMA SignIs ==
  ASSUME NEW x \in Nat, NEW i \in 0 .. (Spacing - 1)
  PROVE  /\ Signs(SignsAt(x, i))
         /\ \A t \in 0 .. (AllTeeth - 1) :
              /\ scalar_bit(x, Spacing * t + i) \in {0, 1}
              /\ SignsAt(x, i)[t] = 2 * scalar_bit(x, Spacing * t + i) - 1
<1>1. \A t \in 0 .. (AllTeeth - 1) : scalar_bit(x, Spacing * t + i) \in {0, 1}
  <2> TAKE t \in 0 .. (AllTeeth - 1)
  <2>1. i \in 0 .. Spacing /\ i < Spacing
    BY TeethAre
  <2>2. Spacing * t + i \in 0 .. (Bits - 1)
    BY <2>1, PlaceIs
  <2> QED
    BY <2>2, BitIs
<1>2. \A t \in 0 .. (AllTeeth - 1) : SignsAt(x, i)[t] = 2 * scalar_bit(x, Spacing * t + i) - 1
  BY DEF SignsAt, SignAt
<1>3. \A t \in 0 .. (AllTeeth - 1) : SignsAt(x, i)[t] \in {1, -1}
  <2> TAKE t \in 0 .. (AllTeeth - 1)
  <2> QED
    BY <1>1, <1>2
<1> QED
  BY <1>1, <1>2, <1>3 DEF Signs

CombPart(x, i, u) == Prefix(SignsAt(x, i))[u + Teeth] - Prefix(SignsAt(x, i))[u]

\* What a comb adds for the bits above its teeth.
LEMMA LookupIs ==
  ASSUME NEW x \in Nat, NEW i \in 0 .. (Spacing - 1), NEW u \in {0, Teeth},
         NEW g \in Coordinated
  PROVE  LET r == lookup_add(g, Comb(Spacing * u), x, i + Spacing * u) IN
         /\ r \in Coordinated /\ CombPart(x, i, u) \in Int
         /\ \A q \in Affine : Rep(g, q) => Rep(r, AffineAdd(q, Mult(CombPart(x, i, u), B)))
<1> DEFINE f == SignsAt(x, i)
           i2 == i + Spacing * u
           e == f[u + (Teeth - 1)]
           j == IndexOf(x, i2)
           m == CombPart(x, i, u)
           comb == Comb(Spacing * u)
           r == lookup_add(g, comb, x, i2)
<1>1. Teeth \in Nat \ {0} /\ Spacing \in Nat \ {0} /\ AllTeeth = Teeth + Teeth /\ u \in Nat /\ B \in Affine
  BY TeethAre, BaseIs
<1>2. Signs(f) /\ \A t \in 0 .. (AllTeeth - 1) :
        /\ scalar_bit(x, Spacing * t + i) \in {0, 1} /\ f[t] = 2 * scalar_bit(x, Spacing * t + i) - 1
  BY SignIs
<1>3. \A t \in 0 .. (Teeth - 1) :
        /\ u + t \in 0 .. (AllTeeth - 1) /\ Spaced(x, i2, t) = scalar_bit(x, Spacing * (u + t) + i)
        /\ Spaced(x, i2, t) \in {0, 1} /\ f[u + t] = 2 * Spaced(x, i2, t) - 1
  <2> TAKE t \in 0 .. (Teeth - 1)
  <2>1. u + t \in 0 .. (AllTeeth - 1)
    BY <1>1
  <2>2. i2 + Spacing * t = Spacing * (u + t) + i
    <3>1. Spacing * (u + t) = Spacing * u + Spacing * t /\ Spacing * u \in Nat /\ Spacing * t \in Nat
      BY <1>1
    <3> QED
      BY <3>1
  <2>3. Spaced(x, i2, t) = scalar_bit(x, Spacing * (u + t) + i)
    BY <2>2 DEF Spaced
  <2> QED
    BY <2>1, <2>3, <1>2
<1>4. Teeth - 1 \in 0 .. (Teeth - 1) /\ \A t \in 0 .. (Teeth - 2) : t \in 0 .. (Teeth - 1)
  BY <1>1
<1>5. e \in {1, -1} /\ (e = 1 <=> Spaced(x, i2, Teeth - 1) = 1)
  BY <1>3, <1>4
<1>6. m \in Int
  <2>1. AreInts(f)
    BY <1>2 DEF Signs, AreInts
  <2>2. u + Teeth \in 0 .. AllTeeth /\ u \in 0 .. AllTeeth
    BY <1>1
  <2> QED
    BY <2>1, <2>2, PrefixIs DEF CombPart
<1>7. j \in 0 .. 2 ^ (Teeth - 1) - 1 /\ \A t \in 0 .. (Teeth - 2) : scalar_bit(j, t) = SpacedDigit(x, i2, t)
  BY <1>3, IndexIs
<1> HIDE DEF f, i2, e, j
<1>8. SignsOf(f, e, u, j)
  <2>1. \A t \in 0 .. (Teeth - 2) : scalar_bit(j, t) = 1 <=> e * f[u + t] = 1
    <3> TAKE t \in 0 .. (Teeth - 2)
    <3>1. scalar_bit(j, t) = SpacedDigit(x, i2, t) /\ Spaced(x, i2, t) \in {0, 1} /\ f[u + t] = 2 * Spaced(x, i2, t) - 1
      BY <1>3, <1>4, <1>7
    <3>2. SpacedDigit(x, i2, t) = IF e = 1 THEN Spaced(x, i2, t) ELSE 1 - Spaced(x, i2, t)
      BY <1>5 DEF SpacedDigit
    <3> QED
      BY <3>1, <3>2, <1>5
  <2> QED
    BY <2>1 DEF SignsOf, e
<1>9. Cached(comb[j], Mult(e * m, B))
  <2>1. Cached(Comb(Spacing * u)[j], Mult(e * (Prefix(f)[u + Teeth] - Prefix(f)[u]), B))
    BY <1>2, <1>5, <1>7, <1>8, EntryIs
  <2> QED
    BY <2>1 DEF CombPart, f
<1> HIDE DEF comb, m
<1> DEFINE c == IF Spaced(x, i2, Teeth - 1) = 1 THEN comb[j] ELSE ge_negated(comb[j])
<1>10. r = ge_add(g, c)
  BY LookupUnfold DEF j
<1>11. Cached(c, Mult(m, B)) /\ Mult(m, B) \in Affine
  <2>1. Mult(m, B) \in Affine
    BY <1>1, <1>6, MultIs
  <2>2. CASE e = 1
    <3>1. e * m = m
      BY <2>2, <1>6
    <3> QED
      BY <2>1, <2>2, <3>1, <1>5, <1>9
  <2>3. CASE e = -1
    <3> DEFINE v == -m
    <3>1. e * m = v /\ v \in Int /\ -v = m
      BY <2>3, <1>6
    <3> HIDE DEF v
    <3>2. Mult(v, B) \in Affine
      BY <1>1, <3>1, MultIs
    <3>3. Cached(ge_negated(comb[j]), Negated(Mult(v, B)))
      BY <3>1, <3>2, <1>9, NegatedCached
    <3>4. Mult(-v, B) = Negated(Mult(v, B))
      BY <1>1, <3>1, MultMinus
    <3>5. Cached(ge_negated(comb[j]), Mult(m, B))
      BY <3>1, <3>3, <3>4
    <3>6. Spaced(x, i2, Teeth - 1) # 1
      BY <2>3, <1>5
    <3> QED
      BY <2>1, <3>5, <3>6
  <2> QED
    BY <2>2, <2>3, <1>5
<1> HIDE DEF c, r
<1>12. r \in Coordinated
  <2>1. InCache(c)
    BY <1>11, CachedIn
  <2>2. Coordinates(g)
    BY CoordinatedIs
  <2> QED
    BY <2>1, <2>2, <1>10, AddCoordinates
<1>13. \A q \in Affine : Rep(g, q) => Rep(r, AffineAdd(q, Mult(m, B)))
  BY <1>10, <1>11, AddIs
<1> QED
  BY <1>6, <1>12, <1>13 DEF r, m, comb, i2


LEMMA PrefixLinear ==
  ASSUME NEW f, AreInts(f), NEW g, AreInts(g), NEW h, AreInts(h),
         \A t \in 0 .. (AllTeeth - 1) : h[t] = 2 * f[t] + g[t]
  PROVE  Prefix(h)[AllTeeth] = 2 * Prefix(f)[AllTeeth] + Prefix(g)[AllTeeth]
<1> DEFINE n == AllTeeth
           X == Prefix(f)
           Y == Prefix(g)
           Z == Prefix(h)
           T == {k \in 0 .. n : Z[k] = 2 * X[k] + Y[k]}
<1>1. n \in Nat
  BY TeethAre
<1>2. /\ \A k \in 0 .. n : X[k] \in Int /\ Y[k] \in Int /\ Z[k] \in Int
      /\ X[0] = 0 /\ Y[0] = 0 /\ Z[0] = 0
  BY PrefixIs
<1>3. \A k \in 0 .. (n - 1) :
        /\ X[k + 1] = X[k] + 2 ^ (Spacing * k) * f[k]
        /\ Y[k + 1] = Y[k] + 2 ^ (Spacing * k) * g[k]
        /\ Z[k + 1] = Z[k] + 2 ^ (Spacing * k) * h[k]
  BY PrefixIs
<1>4. \A k \in 0 .. (n - 1) : f[k] \in Int /\ g[k] \in Int /\ h[k] = 2 * f[k] + g[k]
  BY DEF AreInts
<1> HIDE DEF X, Y, Z
<1>5. 0 \in T
  BY <1>1, <1>2
<1>6. \A k \in 0 .. (n - 1) : k \in T => k + 1 \in T
  <2> TAKE k \in 0 .. (n - 1)
  <2> HAVE k \in T
  <2> DEFINE w == 2 ^ (Spacing * k)
  <2>1. k \in 0 .. n /\ k + 1 \in 0 .. n
    BY <1>1
  <2>2. w \in Int
    BY <2>1, TeethPower
  <2>3. Z[k] = 2 * X[k] + Y[k] /\ X[k] \in Int /\ Y[k] \in Int
    BY <2>1, <1>2
  <2>4. X[k + 1] = X[k] + w * f[k] /\ Y[k + 1] = Y[k] + w * g[k] /\ Z[k + 1] = Z[k] + w * h[k]
    BY <1>3
  <2> HIDE DEF w
  <2> DEFINE a == f[k]
             b == g[k]
  <2>5. a \in Int /\ b \in Int /\ h[k] = 2 * a + b
    BY <1>4
  <2> HIDE DEF a, b
  <2>6. w * (2 * a + b) = 2 * (w * a) + w * b /\ w * a \in Int /\ w * b \in Int
    BY <2>2, <2>5
  <2>7. X[k + 1] = X[k] + w * a /\ Y[k + 1] = Y[k] + w * b /\ Z[k + 1] = Z[k] + w * (2 * a + b)
    BY <2>4, <2>5 DEF a, b
  <2> QED
    BY <2>1, <2>3, <2>6, <2>7
<1> HIDE DEF T
<1>7. \A k \in 0 .. n : k \in T
  BY <1>1, <1>5, <1>6, InductionTo
<1>8. n \in T
  BY <1>1, <1>7
<1> QED
  BY <1>8 DEF T, X, Y, Z

LEMMA PrefixZero ==
  ASSUME NEW f, \A t \in 0 .. (AllTeeth - 1) : f[t] = 0
  PROVE  AreInts(f) /\ Prefix(f)[AllTeeth] = 0
<1> DEFINE n == AllTeeth
           X == Prefix(f)
           T == {k \in 0 .. n : X[k] = 0}
<1>1. n \in Nat /\ AreInts(f)
  BY TeethAre DEF AreInts
<1>2. X[0] = 0 /\ \A k \in 0 .. (n - 1) : X[k + 1] = X[k] + 2 ^ (Spacing * k) * f[k]
  BY <1>1, PrefixIs
<1> HIDE DEF X
<1>3. 0 \in T
  BY <1>1, <1>2
<1>4. \A k \in 0 .. (n - 1) : k \in T => k + 1 \in T
  <2> TAKE k \in 0 .. (n - 1)
  <2> HAVE k \in T
  <2>1. 2 ^ (Spacing * k) \in Int /\ k + 1 \in 0 .. n
    BY <1>1, TeethPower
  <2>2. X[k + 1] = X[k] + 2 ^ (Spacing * k) * f[k] /\ f[k] = 0
    BY <1>2
  <2> QED
    BY <2>1, <2>2
<1> HIDE DEF T
<1>5. \A k \in 0 .. n : k \in T
  BY <1>1, <1>3, <1>4, InductionTo
<1>6. n \in T
  BY <1>1, <1>5
<1> QED
  BY <1>1, <1>6 DEF T, X

\* The bits from i up of every tooth, each standing for 1 or -1.
ValueAt(x, i, t) ==
  2 * (High(x, Spacing * t + i) - 2 ^ (Spacing - i) * High(x, Spacing * (t + 1))) - (2 ^ (Spacing - i) - 1)
ValuesAt(x, i) == [t \in 0 .. (AllTeeth - 1) |-> ValueAt(x, i, t)]

LEMMA ValueAtIs ==
  ASSUME NEW x \in Nat, NEW i \in 0 .. Spacing
  PROVE  /\ AreInts(ValuesAt(x, i))
         /\ \A t \in 0 .. (AllTeeth - 1) :
              /\ ValuesAt(x, i)[t] = ValueAt(x, i, t)
              /\ High(x, Spacing * t + i) \in Int /\ High(x, Spacing * (t + 1)) \in Int
              /\ 2 ^ (Spacing - i) \in Int
<1>1. 2 ^ (Spacing - i) \in Int
  <2>1. Spacing - i \in 0 .. Bits
    <3>1. Spacing \in Nat \ {0} /\ AllTeeth \in Nat \ {0} /\ Bits \in Nat
      BY TeethAre, TwosAre
    <3>2. 0 \in 0 .. (AllTeeth - 1) /\ Spacing \in 0 .. Spacing
      BY <3>1
    <3>3. Spacing * 0 + Spacing \in 0 .. Bits
      BY <3>2, PlaceIs
    <3> QED
      BY <3>1, <3>3
  <2> QED
    BY <2>1, TwosAre
<1>2. \A t \in 0 .. (AllTeeth - 1) :
              /\ ValuesAt(x, i)[t] = ValueAt(x, i, t)
              /\ High(x, Spacing * t + i) \in Int /\ High(x, Spacing * (t + 1)) \in Int
  <2> TAKE t \in 0 .. (AllTeeth - 1)
  <2>1. Spacing * t + i \in 0 .. Bits
    BY PlaceIs
  <2>2. Spacing \in 0 .. Spacing
    BY TeethAre
  <2>3. Spacing * t + Spacing \in 0 .. Bits /\ Spacing * (t + 1) = Spacing * t + Spacing
    BY <2>2, PlaceIs
  <2> QED
    BY <2>1, <2>3, HighIs DEF ValuesAt
<1>3. \A t \in 0 .. (AllTeeth - 1) : ValueAt(x, i, t) \in Int
  BY <1>1, <1>2 DEF ValueAt
<1> QED
  BY <1>1, <1>2, <1>3 DEF AreInts

TotalAt(x, i) == Prefix(ValuesAt(x, i))[AllTeeth]

LEMMA ValueStep ==
  ASSUME NEW x \in Nat, NEW i \in 0 .. (Spacing - 1), NEW t \in 0 .. (AllTeeth - 1)
  PROVE  ValueAt(x, i, t) = 2 * ValueAt(x, i + 1, t) + (2 * scalar_bit(x, Spacing * t + i) - 1)
<1>1. Spacing \in Nat \ {0} /\ AllTeeth \in Nat \ {0} /\ Bits \in Nat
  BY TeethAre, TwosAre
<1>2. i \in 0 .. Spacing /\ i < Spacing /\ i + 1 \in 0 .. Spacing
  BY <1>1
<1> DEFINE n == Spacing * t + i
           v == Spacing - (i + 1)
           b == scalar_bit(x, n)
           H == High(x, n + 1)
           G == High(x, Spacing * (t + 1))
           W == 2 ^ v
<1>3. n \in 0 .. (Bits - 1) /\ Spacing * t \in Nat
  BY <1>2, PlaceIs
<1>4. High(x, n) = 2 * H + b /\ b \in {0, 1}
  BY <1>3, BitIs
<1>5. H \in Int /\ G \in Int /\ W \in Int
  <2>1. Spacing * t + (i + 1) = n + 1
    BY <1>2, <1>3
  <2> QED
    BY <2>1, <1>2, ValueAtIs
<1>6. 2 ^ (Spacing - i) = 2 * W
  <2>1. v + 1 = Spacing - i /\ v \in 0 .. (Bits - 1)
    <3>1. 0 \in 0 .. (AllTeeth - 1) /\ Spacing \in 0 .. Spacing
      BY <1>1
    <3>2. Spacing * 0 + Spacing \in 0 .. Bits
      BY <3>1, PlaceIs
    <3> QED
      BY <3>2, <1>1, <1>2
  <2> HIDE DEF v
  <2>2. 2 ^ (v + 1) = 2 * 2 ^ v
    BY <2>1, TwosAre
  <2> QED
    BY <2>1, <2>2
<1>7. ValueAt(x, i, t) = 2 * (High(x, n) - (2 * W) * G) - (2 * W - 1)
  BY <1>6 DEF ValueAt
<1>8. ValueAt(x, i + 1, t) = 2 * (H - W * G) - (W - 1)
  <2>1. Spacing * t + (i + 1) = n + 1
    BY <1>2, <1>3
  <2> QED
    BY <2>1 DEF ValueAt
<1> HIDE DEF H, G, W, b, n
<1>9. 2 * ((2 * H + b) - (2 * W) * G) - (2 * W - 1) = 2 * (2 * (H - W * G) - (W - 1)) + (2 * b - 1)
  <2> DEFINE y == W * G
  <2>1. y \in Int /\ (2 * W) * G = 2 * y
    BY <1>5
  <2> HIDE DEF y
  <2>2. 2 * ((2 * H + b) - 2 * y) - (2 * W - 1) = 2 * (2 * (H - y) - (W - 1)) + (2 * b - 1)
    BY <2>1, <1>4, <1>5
  <2> QED
    BY <2>1, <2>2 DEF y
<1> QED
  BY <1>4, <1>7, <1>8, <1>9 DEF b, n

LEMMA TotalStep ==
  ASSUME NEW x \in Nat, NEW i \in 0 .. (Spacing - 1)
  PROVE  /\ TotalAt(x, i) = 2 * TotalAt(x, i + 1) + Prefix(SignsAt(x, i))[AllTeeth]
         /\ TotalAt(x, i + 1) \in Int /\ Prefix(SignsAt(x, i))[AllTeeth] \in Int
<1>1. i \in 0 .. Spacing /\ i + 1 \in 0 .. Spacing /\ AllTeeth \in 0 .. AllTeeth
  BY TeethAre
<1> DEFINE h == ValuesAt(x, i)
           f == ValuesAt(x, i + 1)
           g == SignsAt(x, i)
<1>2. AreInts(h) /\ AreInts(f)
  BY <1>1, ValueAtIs
<1>3. AreInts(g)
  BY SignIs DEF Signs, AreInts
<1>4. \A t \in 0 .. (AllTeeth - 1) : h[t] = 2 * f[t] + g[t]
  <2> TAKE t \in 0 .. (AllTeeth - 1)
  <2>1. h[t] = ValueAt(x, i, t) /\ f[t] = ValueAt(x, i + 1, t)
    BY <1>1, ValueAtIs
  <2>2. g[t] = 2 * scalar_bit(x, Spacing * t + i) - 1
    BY SignIs
  <2> QED
    BY <2>1, <2>2, ValueStep
<1> HIDE DEF h, f, g
<1>5. Prefix(h)[AllTeeth] = 2 * Prefix(f)[AllTeeth] + Prefix(g)[AllTeeth]
  BY <1>2, <1>3, <1>4, PrefixLinear
<1>6. Prefix(f)[AllTeeth] \in Int /\ Prefix(g)[AllTeeth] \in Int
  BY <1>1, <1>2, <1>3, PrefixIs
<1> QED
  BY <1>5, <1>6 DEF h, f, g, TotalAt

LEMMA TotalNone ==
  ASSUME NEW x \in Nat
  PROVE  TotalAt(x, Spacing) = 0
<1>1. Spacing \in Nat \ {0} /\ Spacing \in 0 .. Spacing
  BY TeethAre
<1>2. \A t \in 0 .. (AllTeeth - 1) : ValuesAt(x, Spacing)[t] = 0
  <2> TAKE t \in 0 .. (AllTeeth - 1)
  <2>1. /\ ValuesAt(x, Spacing)[t] = ValueAt(x, Spacing, t) /\ High(x, Spacing * t + Spacing) \in Int
        /\ Spacing * (t + 1) = Spacing * t + Spacing
    BY <1>1, ValueAtIs, PlaceIs
  <2> DEFINE H == High(x, Spacing * t + Spacing)
  <2>2. Spacing - Spacing = 0 /\ 2 ^ 0 = 1
    BY <1>1, TwosAre
  <2>3. ValueAt(x, Spacing, t) = 2 * (H - 1 * H) - (1 - 1)
    BY <2>1, <2>2 DEF ValueAt
  <2> HIDE DEF H
  <2>4. H \in Int
    BY <2>1 DEF H
  <2> QED
    BY <2>1, <2>3, <2>4
<1> QED
  BY <1>2, PrefixZero DEF TotalAt

LEMMA TotalIs ==
  ASSUME NEW x \in 0 .. (2 ^ Bits - 1)
  PROVE  TotalAt(x, 0) = 2 * x - (2 ^ Bits - 1)
<1> DEFINE n == AllTeeth
           X == Prefix(ValuesAt(x, 0))
           w(t) == 2 ^ (Spacing * t)
           H(t) == High(x, Spacing * t)
           T == {t \in 0 .. n : X[t] = 2 * (x - w(t) * H(t)) - (w(t) - 1)}
<1>1. n \in Nat \ {0} /\ Spacing \in Nat \ {0} /\ 0 \in 0 .. Spacing /\ Bits = Spacing * n /\ x \in Nat /\ Bits \in Nat
  BY TeethAre, TwosAre
<1>2. \A t \in 0 .. n : w(t) \in Int /\ H(t) \in Int
  BY <1>1, TeethPower, HighIs
<1>3. /\ X[0] = 0 /\ \A k \in 0 .. n : X[k] \in Int
      /\ \A k \in 0 .. (n - 1) : X[k + 1] = X[k] + w(k) * ValuesAt(x, 0)[k]
  BY <1>1, ValueAtIs, PrefixIs
<1>4. \A k \in 0 .. (n - 1) : ValuesAt(x, 0)[k] = 2 * (H(k) - 2 ^ Spacing * H(k + 1)) - (2 ^ Spacing - 1)
  <2> TAKE k \in 0 .. (n - 1)
  <2>1. ValuesAt(x, 0)[k] = ValueAt(x, 0, k) /\ Spacing * k \in Nat
    BY <1>1, ValueAtIs, PlaceIs
  <2>2. Spacing * k + 0 = Spacing * k /\ Spacing - 0 = Spacing
    BY <2>1, <1>1
  <2> QED
    BY <2>1, <2>2 DEF ValueAt
<1>5. \A k \in 0 .. (n - 1) : w(k + 1) = w(k) * 2 ^ Spacing
  BY <1>1, TeethPower
<1>6. 2 ^ Spacing \in Int
  <2>1. 2 ^ (Spacing - 0) \in Int /\ Spacing - 0 = Spacing
    BY <1>1, ValueAtIs
  <2> QED
    BY <2>1
<1> HIDE DEF X
<1>7. 0 \in T
  <2>1. 0 \in 0 .. n /\ Spacing * 0 = 0
    BY <1>1
  <2>2. w(0) = 1 /\ H(0) = x
    BY <2>1, <1>1, TwosAre, HighIs
  <2> QED
    BY <2>1, <2>2, <1>1, <1>3
<1>8. \A k \in 0 .. (n - 1) : k \in T => k + 1 \in T
  <2> TAKE k \in 0 .. (n - 1)
  <2> HAVE k \in T
  <2> DEFINE a == w(k)
             S == 2 ^ Spacing
             y == H(k)
             z == H(k + 1)
  <2>1. k \in 0 .. n /\ k + 1 \in 0 .. n
    BY <1>1
  <2>2. a \in Int /\ S \in Int /\ y \in Int /\ z \in Int /\ w(k + 1) = a * S
    BY <2>1, <1>2, <1>5, <1>6
  <2>3. X[k] = 2 * (x - a * y) - (a - 1)
    OBVIOUS
  <2>4. X[k + 1] = X[k] + a * (2 * (y - S * z) - (S - 1))
    BY <1>3, <1>4
  <2> HIDE DEF a, S, y, z
  <2>5. (2 * (x - a * y) - (a - 1)) + a * (2 * (y - S * z) - (S - 1)) = 2 * (x - (a * S) * z) - (a * S - 1)
    BY <2>2, <1>1
  <2> QED
    BY <2>1, <2>2, <2>3, <2>4, <2>5 DEF z
<1> HIDE DEF T
<1>9. \A k \in 0 .. n : k \in T
  BY <1>1, <1>7, <1>8, InductionTo
<1>10. n \in T
  BY <1>1, <1>9
<1>11. w(n) = 2 ^ Bits /\ H(n) = 0
  <2>1. Bits \in 0 .. Bits /\ 2 ^ Bits \in Nat
    BY <1>1, TwosAre
  <2> QED
    BY <2>1, <1>1, HighIs
<1>12. 2 ^ Bits \in Int
  BY <1>1, TwosAre
<1>13. X[n] = 2 * (x - 2 ^ Bits * 0) - (2 ^ Bits - 1)
  BY <1>10, <1>11 DEF T
<1> QED
  BY <1>12, <1>13, <1>1 DEF X, TotalAt


AtPlace(p, x, i, low, high) ==
  lookup_add(lookup_add(p, low, x, i), high, x, i + Spacing * Teeth)
Twin(g, x, low, high) ==
  g = [k \in 1 .. Spacing |->
        AtPlace(IF k = 1 THEN ge_zero ELSE ge_double(g[k - 1]), x, Spacing - k, low, high)]

LEMMA TwinUnfold ==
  ASSUME NEW x, NEW low, NEW high
  PROVE  TwinCombs(x, low, high) = (CHOOSE g : Twin(g, x, low, high))[Spacing]
BY Zenon DEF TwinCombs, Twin, AtPlace

LEMMA PlaceAdds ==
  ASSUME NEW x \in Nat, NEW i \in 0 .. (Spacing - 1), NEW p \in Coordinated
  PROVE  LET r == AtPlace(p, x, i, b_comb_low, b_comb_high) IN
         /\ r \in Coordinated
         /\ \A m \in Int : Rep(p, Mult(m, B)) => Rep(r, Mult(m + Prefix(SignsAt(x, i))[AllTeeth], B))
<1> DEFINE c1 == CombPart(x, i, 0)
           c2 == CombPart(x, i, Teeth)
           g == lookup_add(p, b_comb_low, x, i)
           r == lookup_add(g, b_comb_high, x, i + Spacing * Teeth)
           X == Prefix(SignsAt(x, i))
<1>1. Teeth \in Nat \ {0} /\ Spacing \in Nat \ {0} /\ AllTeeth = Teeth + Teeth /\ B \in Affine
  BY TeethAre, BaseIs
<1>2. 0 \in {0, Teeth} /\ Teeth \in {0, Teeth} /\ Spacing * 0 = 0 /\ i + 0 = i
  BY <1>1
<1>3. /\ b_comb_low = Comb(Spacing * 0) /\ g = lookup_add(p, Comb(Spacing * 0), x, i + Spacing * 0)
  BY <1>2 DEF b_comb_low
<1>4. /\ g \in Coordinated /\ c1 \in Int
      /\ \A q \in Affine : Rep(p, q) => Rep(g, AffineAdd(q, Mult(c1, B)))
  BY <1>2, <1>3, LookupIs
<1> HIDE DEF g
<1>5. /\ r \in Coordinated /\ c2 \in Int
      /\ \A q \in Affine : Rep(g, q) => Rep(r, AffineAdd(q, Mult(c2, B)))
  BY <1>2, <1>4, LookupIs DEF b_comb_high
<1>6. c1 + c2 = X[AllTeeth] /\ X[AllTeeth] \in Int
  <2>1. AreInts(SignsAt(x, i))
    BY SignIs DEF Signs, AreInts
  <2>2. Teeth \in 0 .. AllTeeth /\ AllTeeth \in 0 .. AllTeeth /\ 0 + Teeth = Teeth
    BY <1>1
  <2>3. X[0] = 0 /\ X[Teeth] \in Int /\ X[AllTeeth] \in Int
    BY <2>1, <2>2, PrefixIs
  <2>4. c1 = X[Teeth] - X[0] /\ c2 = X[AllTeeth] - X[Teeth]
    BY <2>2, <1>1 DEF CombPart
  <2> HIDE DEF X, c1, c2
  <2> QED
    BY <2>3, <2>4
<1> HIDE DEF r, c1, c2, X
<1>7. ASSUME NEW m \in Int, Rep(p, Mult(m, B))
      PROVE  Rep(r, Mult(m + X[AllTeeth], B))
  <2>1. Mult(m, B) \in Affine /\ Mult(m + c1, B) = AffineAdd(Mult(m, B), Mult(c1, B))
    BY <1>1, <1>4, MultIs, MultSum
  <2>2. Rep(g, Mult(m + c1, B))
    BY <1>4, <1>7, <2>1
  <2> DEFINE y == m + c1
  <2>3. y \in Int /\ y + c2 = m + X[AllTeeth]
    BY <1>4, <1>5, <1>6
  <2> HIDE DEF y
  <2>4. Mult(y, B) \in Affine /\ Mult(y + c2, B) = AffineAdd(Mult(y, B), Mult(c2, B))
    BY <1>1, <1>5, <2>3, MultIs, MultSum
  <2>5. Rep(r, Mult(y + c2, B))
    BY <1>5, <2>2, <2>4 DEF y
  <2> QED
    BY <2>3, <2>5
<1>8. AtPlace(p, x, i, b_comb_low, b_comb_high) = r
  BY DEF AtPlace, r, g
<1> QED
  BY <1>5, <1>7, <1>8 DEF X

LEMMA TwinExists ==
  ASSUME NEW x \in Nat
  PROVE  \E g : Twin(g, x, b_comb_low, b_comb_high)
<1> DEFINE n == Spacing
           A1(p, k) == AtPlace(p, x, Spacing - k, b_comb_low, b_comb_high)
           F == [k \in 1 .. n |-> [p \in Coordinated |-> A1(IF k = 1 THEN ge_zero ELSE ge_double(p), k)]]
<1>1. n \in Nat /\ ge_zero \in Coordinated
  BY TeethAre, OneIs DEF ge_zero, Coordinated
<1>2. \A k \in 1 .. n, p \in Coordinated :
        /\ F[k][p] = A1(IF k = 1 THEN ge_zero ELSE ge_double(p), k) /\ F[k][p] \in Coordinated
  <2> TAKE k \in 1 .. n, p \in Coordinated
  <2> DEFINE q == IF k = 1 THEN ge_zero ELSE ge_double(p)
  <2>1. Spacing - k \in 0 .. (Spacing - 1)
    BY <1>1
  <2>2. q \in Coordinated
    BY <1>1, CoordinatedIs, DoubleIn
  <2>3. F[k][p] = A1(q, k)
    OBVIOUS
  <2> HIDE DEF q, F
  <2>4. A1(q, k) \in Coordinated
    BY <2>1, <2>2, PlaceAdds
  <2> QED
    BY <2>3, <2>4 DEF q
<1> HIDE DEF F, A1
<1>3. PICK g : Follows(g, Coordinated, ge_zero, F, n)
  <2>1. StaysIn(Coordinated, F, n)
    BY <1>2 DEF StaysIn
  <2>2. QED
    BY <2>1, <1>1, Recursion
<1>4. g \in [0 .. n -> Coordinated] /\ \A k \in 1 .. n : g[k] = F[k][g[k - 1]]
  BY <1>3 DEF Follows
<1> DEFINE h == [k \in 1 .. n |-> g[k]]
<1>5. \A k \in 1 .. n : h[k] = A1(IF k = 1 THEN ge_zero ELSE ge_double(h[k - 1]), k)
  <2> TAKE k \in 1 .. n
  <2>1. k - 1 \in 0 .. n /\ (k = 1 \/ k - 1 \in 1 .. n)
    BY <1>1
  <2>2. g[k] = A1(IF k = 1 THEN ge_zero ELSE ge_double(g[k - 1]), k)
    BY <2>1, <1>2, <1>4
  <2>3. CASE k = 1
    BY <2>2, <2>3
  <2>4. CASE k - 1 \in 1 .. n /\ k # 1
    BY <2>2, <2>4
  <2> QED
    BY <2>1, <2>3, <2>4
<1>6. h = [k \in 1 .. n |-> h[k]]
  OBVIOUS
<1> HIDE DEF h
<1>7. h = [k \in 1 .. n |-> A1(IF k = 1 THEN ge_zero ELSE ge_double(h[k - 1]), k)]
  BY <1>5, <1>6, Zenon
<1> QED
  BY <1>7, Zenon DEF Twin, A1

LEMMA TwinCombsIs ==
  ASSUME NEW x \in 0 .. (2 ^ Bits - 1)
  PROVE  Rep(TwinCombs(x, b_comb_low, b_comb_high), Mult(2 * x - (2 ^ Bits - 1), B))
<1> DEFINE n == Spacing
           g == CHOOSE f : Twin(f, x, b_comb_low, b_comb_high)
           A1(p, k) == AtPlace(p, x, Spacing - k, b_comb_low, b_comb_high)
           Good(k) == k = 0 \/ (g[k] \in Coordinated /\ Rep(g[k], Mult(TotalAt(x, Spacing - k), B)))
           T == {k \in 0 .. n : Good(k)}
<1>1. n \in Nat \ {0} /\ x \in Nat /\ B \in Affine
  BY TeethAre, BaseIs
<1>2. Twin(g, x, b_comb_low, b_comb_high)
  BY <1>1, TwinExists
<1> HIDE DEF g
<1>3. \A k \in 1 .. n : g[k] = A1(IF k = 1 THEN ge_zero ELSE ge_double(g[k - 1]), k)
  BY <1>2 DEF Twin
<1> HIDE DEF A1
<1>4. 0 \in T
  <2>1. 0 \in 0 .. n
    BY <1>1
  <2>2. Good(0)
    OBVIOUS
  <2> HIDE DEF Good
  <2> QED
    BY <2>1, <2>2
<1>5. \A k \in 0 .. (n - 1) : k \in T => k + 1 \in T
  <2> TAKE k \in 0 .. (n - 1)
  <2> HAVE k \in T
  <2> DEFINE i == Spacing - (k + 1)
             p == IF k + 1 = 1 THEN ge_zero ELSE ge_double(g[k])
             m == 2 * TotalAt(x, i + 1)
             c == Prefix(SignsAt(x, i))[AllTeeth]
  <2>1. k + 1 \in 1 .. n /\ k + 1 \in 0 .. n /\ (k + 1) - 1 = k /\ i \in 0 .. (Spacing - 1) /\ i + 1 = Spacing - k
    BY <1>1
  <2>2. g[k + 1] = A1(p, k + 1)
    BY <2>1, <1>3
  <2>3. TotalAt(x, i) = m + c /\ m \in Int
    <3> HIDE DEF i
    <3>1. TotalAt(x, i) = 2 * TotalAt(x, i + 1) + c /\ TotalAt(x, i + 1) \in Int
      BY <2>1, <1>1, TotalStep
    <3> QED
      BY <3>1
  <2>4. p \in Coordinated /\ Rep(p, Mult(m, B))
    <3>1. CASE k = 0
      <4>1. i + 1 = Spacing
        BY <2>1, <3>1, <1>1
      <4>2. m = 0
        BY <4>1, <1>1, TotalNone
      <4>3. p = ge_zero
        BY <3>1
      <4>4. ge_zero \in Coordinated
        BY OneIs DEF ge_zero, Coordinated
      <4>5. Mult(0, B) = Origin
        BY <1>1, MultIs
      <4> QED
        BY <4>2, <4>3, <4>4, <4>5, ZeroIs
    <3>2. CASE k # 0
      <4> DEFINE t == TotalAt(x, i + 1)
      <4>1. p = ge_double(g[k])
        BY <3>2, <2>1
      <4>2. g[k] \in Coordinated /\ Rep(g[k], Mult(t, B))
        BY <3>2, <2>1
      <4>3. t \in Int
        BY <2>1, <1>1, TotalStep
      <4> HIDE DEF t
      <4>4. Mult(t, B) \in Affine /\ Mult(t + t, B) = AffineAdd(Mult(t, B), Mult(t, B))
        BY <4>3, <1>1, MultIs, MultSum
      <4>5. Rep(p, Mult(t + t, B))
        BY <4>1, <4>2, <4>4, DoubleIs
      <4>6. m = t + t
        BY <4>3 DEF t
      <4>7. p \in Coordinated
        BY <4>1, <4>2, CoordinatedIs, DoubleIn
      <4> QED
        BY <4>5, <4>6, <4>7
    <3> QED
      BY <3>1, <3>2
  <2> HIDE DEF m, c, p
  <2>5. A1(p, k + 1) \in Coordinated /\ Rep(A1(p, k + 1), Mult(m + c, B))
    BY <2>1, <2>3, <2>4, <1>1, PlaceAdds DEF A1, c
  <2> QED
    BY <2>1, <2>2, <2>3, <2>5
<1> HIDE DEF T
<1>6. \A k \in 0 .. n : k \in T
  BY <1>1, <1>4, <1>5, InductionTo
<1>7. n \in T
  BY <1>1, <1>6
<1>8. Rep(g[n], Mult(TotalAt(x, 0), B))
  <2>1. Spacing - n = 0
    BY <1>1
  <2> QED
    BY <2>1, <1>1, <1>7 DEF T
<1> QED
  BY <1>8, TotalIs, TwinUnfold DEF g


\* Multiples of the base point repeat after L.
LEMMA BaseRepeats ==
  ASSUME NEW m \in Int, NEW k \in Int
  PROVE  Mult(m + L * k, B) = Mult(m, B)
<1>1. B \in Affine /\ L \in Int /\ Mult(L, B) = Origin
  BY BaseIs, SizeOfL
<1>2. Mult(k, Mult(L, B)) = Mult(k * L, B)
  BY <1>1, MultTimes
<1>3. Mult(k, Origin) = Origin
  <2>1. Origin \in Affine
    BY OriginIs
  <2> DEFINE z == 0
  <2>2. z \in Int /\ k * z = 0
    OBVIOUS
  <2>3. Mult(z, B) = Origin
    BY <1>1, MultIs
  <2> HIDE DEF z
  <2>4. Mult(k, Mult(z, B)) = Mult(k * z, B)
    BY <1>1, <2>2, MultTimes
  <2>5. Mult(0, B) = Origin
    BY <1>1, MultIs
  <2> QED
    BY <2>2, <2>3, <2>4, <2>5
<1> DEFINE y == L * k
<1>4. y \in Int /\ y = k * L
  BY <1>1
<1> HIDE DEF y
<1>5. Mult(y, B) = Origin
  BY <1>1, <1>2, <1>3, <1>4
<1>6. Mult(m + y, B) = AffineAdd(Mult(m, B), Mult(y, B))
  BY <1>1, <1>4, MultSum
<1>7. Mult(m, B) \in Affine
  BY <1>1, MultIs
<1> QED
  BY <1>5, <1>6, <1>7, OriginIs DEF y

LEMMA RecodedIs ==
  ASSUME NEW s \in Scalars
  PROVE  /\ Recoded(s) \in 0 .. (2 ^ Bits - 1)
         /\ \E k \in Int : 2 * Recoded(s) - (2 ^ Bits - 1) = s + L * k
<1> DEFINE M == 2 ^ Bits - 1
           H == half_mod_L
           O == half_ones
           x == Recoded(s)
<1>1. L \in Nat /\ 8 * L < 2 ^ Bits /\ L % 8 = 5 /\ L > 1 /\ 2 ^ Bits \in Nat /\ Base ^ N = 2 ^ Bits
  <2>1. L \in Nat /\ 8 * L < 2 ^ Bits /\ Base ^ N = 2 ^ Bits /\ Weight[N - 1] < L
    BY SizeOfL, WidthAssumption
  <2>2. L % 8 = 5
    BY ScalarLAssumption
  <2>3. 2 ^ Bits \in Nat
    BY TwosAre
  <2> QED
    BY <2>1, <2>2, <2>3
<1>2. Scalars = 0 .. M /\ s \in Nat /\ M \in Nat
  BY <1>1 DEF Scalars
<1>3. H \in Nat /\ 2 * H = L + 1 /\ H \in 0 .. M
  BY <1>1 DEF half_mod_L
<1>4. (M % L) * H \in Nat /\ O \in 0 .. (L - 1) /\ O = ((M % L) * H) % L
  <2>1. M % L \in Nat
    BY <1>1, <1>2
  <2>2. (M % L) * H \in Nat
    BY <2>1, <1>3
  <2> DEFINE y == (M % L) * H
  <2>3. O = y % L /\ y \in Nat
    BY <2>2 DEF half_ones
  <2> HIDE DEF y, O
  <2>4. O \in 0 .. (L - 1)
    BY <2>3, <1>1
  <2> QED
    BY <2>2, <2>3, <2>4 DEF y
<1>5. O \in 0 .. M
  BY <1>1, <1>4
<1>6. x = (s * H + O) % L
  <2>1. s \in Scalars /\ H \in Scalars /\ O \in Scalars
    BY <1>2, <1>3, <1>5
  <2> QED
    BY <2>1, MulAddIs DEF Recoded
<1> HIDE DEF H, O, x, M
<1> DEFINE y == s * H + O
<1>7. y \in Nat /\ L \in Nat \ {0}
  BY <1>1, <1>2, <1>3, <1>4
<1>8. \E a \in Int : y = L * a + x /\ x \in 0 .. (L - 1)
  <2>1. y = L * (y \div L) + (y % L) /\ y \div L \in Nat /\ y % L \in 0 .. (L - 1)
    BY <1>7, LowAndHigh
  <2> QED
    BY <2>1, <1>6
<1>9. PICK a \in Int : y = L * a + x /\ x \in 0 .. (L - 1)
  BY <1>8
<1>10. \E b \in Int : M = L * b + (M % L) /\ M % L \in Nat
  <2>1. M = L * (M \div L) + (M % L) /\ M \div L \in Nat /\ M % L \in 0 .. (L - 1)
    BY <1>7, <1>2, LowAndHigh
  <2> QED
    BY <2>1
<1>11. PICK b \in Int : M = L * b + (M % L) /\ M % L \in Nat
  BY <1>10
<1> DEFINE r == M % L
           z == r * H
<1>12. \E c \in Int : z = L * c + O
  <2>1. z \in Nat
    BY <1>11, <1>3
  <2>2. z = L * (z \div L) + (z % L) /\ z \div L \in Nat
    BY <2>1, <1>7, LowAndHigh
  <2> QED
    BY <2>2, <1>4
<1>13. PICK c \in Int : z = L * c + O
  BY <1>12
<1>14. r \in Nat /\ M = L * b + r
  BY <1>11
<1> HIDE DEF r
<1>15. 2 * x - M = s + L * (s + r - 2 * c - 2 * a - b)
  <2>1. 2 * y = s * (L + 1) + 2 * O
    <3>1. 2 * y = s * (2 * H) + 2 * O
      BY <1>2, <1>3, <1>4
    <3> QED
      BY <3>1, <1>3
  <2>2. 2 * z = r * (L + 1)
    <3>1. 2 * z = r * (2 * H)
      BY <1>14, <1>3
    <3> QED
      BY <3>1, <1>3
  <2> HIDE DEF y, z
  <2>3. x \in Int /\ O \in Int /\ z \in Int /\ y \in Int
    BY <1>4, <1>7, <1>9, <1>13, <1>1 DEF z
  <2>4. 2 * x = 2 * y - 2 * (L * a) /\ 2 * O = 2 * z - 2 * (L * c)
    BY <1>9, <1>13, <2>3, <1>1
  <2> DEFINE la == L * a
             lb == L * b
             lc == L * c
             ls == L * s
             lr == L * r
  <2>5. la \in Int /\ lb \in Int /\ lc \in Int /\ ls \in Int /\ lr \in Int
    BY <1>1, <1>2, <1>14
  <2>6. L * (s + r - 2 * c - 2 * a - b) = ls + lr - 2 * lc - 2 * la - lb
    BY <1>1, <1>2, <1>14
  <2>7. s * (L + 1) = ls + s /\ r * (L + 1) = lr + r
    BY <1>1, <1>2, <1>14
  <2> DEFINE u == L * (s + r - 2 * c - 2 * a - b)
             sl == s * (L + 1)
             rl == r * (L + 1)
  <2>8. /\ 2 * y = sl + 2 * O /\ 2 * z = rl /\ 2 * x = 2 * y - 2 * la /\ 2 * O = 2 * z - 2 * lc
        /\ u = ls + lr - 2 * lc - 2 * la - lb /\ sl = ls + s /\ rl = lr + r /\ M = lb + r
    BY <2>1, <2>2, <2>4, <2>6, <2>7, <1>14
  <2>9. s \in Int /\ r \in Int /\ M \in Int
    BY <1>2, <1>14
  <2> HIDE DEF la, lb, lc, ls, lr, u, sl, rl
  <2>10. 2 * x - M = s + u
    BY ONLY <2>3, <2>5, <2>8, <2>9
  <2> QED
    BY <2>10 DEF u
<1>16. s + r - 2 * c - 2 * a - b \in Int
  BY <1>2, <1>14
<1>17. x \in 0 .. M
  BY <1>1, <1>9 DEF M
<1> QED
  BY <1>15, <1>16, <1>17 DEF x, M

\* The combs multiply the base point.
LEMMA ScalarBaseIs ==
  ASSUME NEW s \in Scalars
  PROVE  /\ Rep(ge_scalarmult_base(s), Times(s, B)) /\ Times(s, B) \in Affine
         /\ crypto_eddsa_scalarbase(s) = Encoded(Times(s, B))
<1> DEFINE x == Recoded(s)
<1>1. x \in 0 .. (2 ^ Bits - 1) /\ B \in Affine /\ s \in Nat
  BY RecodedIs, BaseIs, ScalarIs
<1>2. PICK k \in Int : 2 * x - (2 ^ Bits - 1) = s + L * k
  BY RecodedIs
<1>3. Mult(s + L * k, B) = Mult(s, B) /\ Mult(s, B) = Times(s, B) /\ Times(s, B) \in Affine
  BY <1>1, BaseRepeats, MultIs, TimesIs
<1>4. Rep(TwinCombs(x, b_comb_low, b_comb_high), Mult(2 * x - (2 ^ Bits - 1), B))
  BY <1>1, TwinCombsIs
<1>5. Rep(ge_scalarmult_base(s), Times(s, B))
  BY <1>2, <1>3, <1>4 DEF ge_scalarmult_base
<1> QED
  BY <1>3, <1>5, ToBytesIs DEF crypto_eddsa_scalarbase


\* A trimmed scalar is a multiple of 8 with its highest bit but one set.
LEMMA TrimIs ==
  ASSUME NEW x \in Nat
  PROVE  /\ crypto_eddsa_trim_scalar(x) \in Scalars /\ crypto_eddsa_trim_scalar(x) % 8 = 0
         /\ crypto_eddsa_trim_scalar(x) >= 2 ^ (Bits - 2)
         /\ crypto_eddsa_trim_scalar(x) < 2 ^ (Bits - 1)
<1> DEFINE m == 2 ^ (Bits - 2)
           h == 2 ^ (Bits - 1)
           e == 2 ^ (Bits - 5)
           w == 2 ^ Bits
<1>1. e \in Nat \ {0} /\ m = 8 * e /\ h = 2 * m /\ w = 2 * h
  <2>1. /\ Bits - 5 \in 0 .. (Bits - 1) /\ Bits - 4 \in 0 .. (Bits - 1) /\ Bits - 3 \in 0 .. (Bits - 1)
        /\ Bits - 2 \in 0 .. (Bits - 1) /\ Bits - 1 \in 0 .. (Bits - 1) /\ Bits - 5 \in 0 .. Bits
        /\ (Bits - 5) + 1 = Bits - 4 /\ (Bits - 4) + 1 = Bits - 3 /\ (Bits - 3) + 1 = Bits - 2
        /\ (Bits - 2) + 1 = Bits - 1 /\ (Bits - 1) + 1 = Bits
    BY TwosAre
  <2>2. /\ 2 ^ (Bits - 4) = 2 * e /\ 2 ^ (Bits - 3) = 2 * 2 ^ (Bits - 4) /\ m = 2 * 2 ^ (Bits - 3)
        /\ h = 2 * m /\ w = 2 * h /\ e \in Nat \ {0}
    BY <2>1, TwosAre
  <2> HIDE DEF m, h, e, w
  <2> QED
    BY <2>2
<1>2. w = Base ^ N
  BY WidthAssumption
<1> HIDE DEF m, h, e, w
<1> DEFINE r == x % m
           q == r \div 8
<1>3. r \in 0 .. (m - 1)
  BY <1>1
<1>4. q \in 0 .. (e - 1)
  BY <1>1, <1>3
<1> HIDE DEF q, r
<1> DEFINE t == m + 8 * q
<1>5. t >= m /\ t < h /\ t \in 0 .. (w - 1) /\ t % 8 = 0
  BY <1>1, <1>4
<1>6. crypto_eddsa_trim_scalar(x) = t
  BY DEF crypto_eddsa_trim_scalar, m, q, r
<1> HIDE DEF t
<1> QED
  BY <1>2, <1>5, <1>6 DEF Scalars, m, h

\* A point is what its encoding stands for.
LEMMA EncodingOf ==
  ASSUME NEW p \in Affine
  PROVE  /\ IsEncoding(Encoded(p)) /\ Abscissas(El(Encoded(p).y)) # {} /\ PointOf(Encoded(p)) = p
<1>1. p = <<p[1], p[2]>> /\ p[1] \in Field /\ p[2] \in Field /\ El(p[2]) = p[2] /\ OnCurve(p)
  BY AffineIs, AffineInts DEF Affine
<1>2. Encoded(p).y = p[2] /\ Encoded(p).sign = fe_isodd(p[1])
  BY DEF Encoded
<1>3. p[1] \in Int /\ p[2] \in Int /\ fe_isodd(p[1]) \in {0, 1}
  BY <1>1 DEF Field, fe_isodd
<1>4. IsEncoding(Encoded(p))
  BY <1>2, <1>3, AffineIs, FieldRead DEF IsEncoding
<1>5. p[1] \in Abscissas(El(Encoded(p).y))
  BY <1>1, <1>2 DEF Abscissas
<1>6. PointOf(Encoded(p)) = <<p[1], El(Encoded(p).y)>>
  BY <1>2, <1>4, <1>5, PointOfIs
<1> QED
  BY <1>1, <1>2, <1>4, <1>5, <1>6

\* The order of the base point is odd, so that no multiple by 8 takes it to zero.
LEMMA EightBase == Times(8, B) # Origin
<1>1. B \in Affine /\ B # Origin /\ Mult(L, B) = Origin /\ L \in Nat /\ L % 8 = 5
  BY BaseIs, ScalarLAssumption
<1> SUFFICES ASSUME Times(8, B) = Origin PROVE FALSE
  OBVIOUS
<1>2. Mult(8, B) = Origin
  BY <1>1, MultIs
\* 1 = 5 * 5 - 3 * 8, and L = 5 + 8 k.
<1> DEFINE k == L \div 8
<1>3. k \in Int /\ L = 8 * k + 5
  BY <1>1
<1>4. \A a, b \in Int : Mult(a, B) = Origin /\ Mult(b, B) = Origin => Mult(a + b, B) = Origin
  BY <1>1, MultSum, OriginIs
<1>5. \A a, b \in Int : Mult(b, B) = Origin => Mult(a * b, B) = Origin
  <2> SUFFICES ASSUME NEW a \in Int, NEW b \in Int, Mult(b, B) = Origin
               PROVE  Mult(a * b, B) = Origin
    OBVIOUS
  <2> DEFINE z == 0
  <2>1. z \in Int /\ Mult(z, B) = Origin /\ a * z = z
    BY <1>1, MultIs
  <2> HIDE DEF z
  <2>2. Mult(a, Mult(z, B)) = Mult(a * z, B)
    BY <1>1, <2>1, MultTimes
  <2>3. Mult(a, Mult(b, B)) = Mult(a * b, B)
    BY <1>1, MultTimes
  <2> QED
    BY <2>1, <2>2, <2>3
<1> DEFINE u == 5 * L
           v == (-5 * k - 3) * 8
<1>6. u \in Int /\ v \in Int /\ u + v = 1
  BY <1>3
<1>7. Mult(u, B) = Origin
  <2>1. 5 \in Int /\ L \in Int
    BY <1>1
  <2> QED
    BY <1>1, <1>5, <2>1
<1>8. Mult(v, B) = Origin
  <2> DEFINE c == -5 * k - 3
             e == 8
  <2>1. c \in Int /\ e \in Int /\ v = c * e /\ Mult(e, B) = Origin
    BY <1>2, <1>3
  <2> HIDE DEF c, e, v
  <2> QED
    BY <1>5, <2>1
<1> HIDE DEF u, v
<1>9. Mult(u + v, B) = Origin
  BY <1>4, <1>6, <1>7, <1>8
<1>10. Mult(1, B) = B
  BY <1>1, MultIs
<1> QED
  BY <1>1, <1>6, <1>9, <1>10

\* What is left over of a signature's equation is a multiple of the base point.
LEMMA LeftOfSignature ==
  ASSUME NEW s \in Nat, NEW h \in Nat, NEW a \in Nat, NEW r \in Nat
  PROVE  LeftOver(s, h, Times(a, B), Times(r, B)) = Mult(s - (h * a + r), B)
<1> DEFINE p == Times(a, B)
           q == Times(r, B)
           m == h * a
<1>1. B \in Affine /\ p = Mult(a, B) /\ q = Mult(r, B) /\ p \in Affine /\ q \in Affine
  BY BaseIs, MultIs, TimesIs
<1>2. m \in Nat /\ a \in Int /\ h \in Int /\ r \in Int /\ s \in Int
  OBVIOUS
<1>3. Times(h, p) = Mult(h, p) /\ Times(s, B) = Mult(s, B)
  BY <1>1, MultIs
<1>4. Mult(h, Mult(a, B)) = Mult(m, B)
  BY <1>1, <1>2, MultTimes
<1> HIDE DEF p, q, m
<1>5. Mult(m + r, B) = AffineAdd(Mult(m, B), q)
  BY <1>1, <1>2, MultSum
<1> DEFINE n == m + r
<1>6. n \in Int /\ s \in Int /\ -n \in Int /\ s + (-n) = s - n
  BY <1>2
<1> HIDE DEF n
<1>7. Mult(-n, B) = Negated(Mult(n, B)) /\ Mult(s + (-n), B) = AffineAdd(Mult(s, B), Mult(-n, B))
  BY <1>1, <1>6, MultMinus, MultSum
<1>8. LeftOver(s, h, p, q) = AffineAdd(Mult(s, B), Negated(AffineAdd(Mult(m, B), q)))
  BY <1>1, <1>3, <1>4 DEF LeftOver
<1>9. LeftOver(s, h, p, q) = Mult(s - n, B)
  BY <1>5, <1>6, <1>7, <1>8 DEF n
<1> QED
  BY <1>9 DEF n, m, p, q

\* A signature passes, but not with S + 1 or with S plus a multiple of L.
LEMMA Verifies ==
  ASSUME NEW a \in Nat, NEW r \in Nat, NEW h \in 0 .. (L - 1), NEW s, s = (h * a + r) % L,
         NEW x \in Scalars, x = s \/ x >= L \/ x = (s + 1) % L
  PROVE  crypto_eddsa_check_equation([R |-> Encoded(Times(r, B)), S |-> x], Encoded(Times(a, B)), h)
           <=> x = s
<1> DEFINE p == Times(a, B)
           q == Times(r, B)
           y == h * a + r
<1>1. B \in Affine /\ p \in Affine /\ q \in Affine /\ L \in Nat \ {0} /\ x \in Nat /\ h \in Nat
  <2>1. B \in Affine /\ L \in Nat \ {0}
    BY BaseIs, BarrettRIs
  <2>2. p \in Affine /\ q \in Affine
    BY <2>1, TimesIs
  <2>3. x \in Nat
    BY ScalarIs
  <2> QED
    BY <2>1, <2>2, <2>3
<1>2. y \in Nat
  BY <1>1
<1> DEFINE k == y \div L
<1>3. k \in Int /\ y = L * k + s /\ s \in 0 .. (L - 1)
  <2>1. s = y % L
    OBVIOUS
  <2> HIDE DEF y
  <2> QED
    BY <1>1, <1>2, <2>1
<1> DEFINE ea == Encoded(p)
           er == Encoded(q)
           ok == crypto_eddsa_check_equation([R |-> er, S |-> x], ea, h)
           t == Times(8, LeftOver(x, h, p, q))
<1>4. ok <=> x < L /\ t = Origin
  <2>1. IsEncoding(ea) /\ Abscissas(El(ea.y)) # {} /\ PointOf(ea) = p
    BY <1>1, EncodingOf
  <2>2. IsEncoding(er) /\ Abscissas(El(er.y)) # {} /\ PointOf(er) = q
    BY <1>1, EncodingOf
  <2> HIDE DEF p, q, ea, er
  <2>3. ok <=> /\ x < L /\ Abscissas(El(ea.y)) # {} /\ Abscissas(El(er.y)) # {}
               /\ Times(8, LeftOver(x, h, PointOf(ea), PointOf(er))) = Origin
    BY <2>1, <2>2, EquationIs
  <2> QED
    BY Zenon, <2>1, <2>2, <2>3
<1>5. LeftOver(x, h, p, q) = Mult(x - y, B)
  BY <1>1, LeftOfSignature
<1>11. s \in Int /\ s < L /\ x \in Int /\ y \in Int /\ L \in Int
  BY <1>1, <1>2, <1>3
<1> SUFFICES ok <=> x = s
  OBVIOUS
<1>12. t = Times(8, Mult(x - y, B))
  BY <1>5
<1> HIDE DEF p, q, y, k, ok, t, ea, er
<1> DEFINE c == -k
<1>6. c \in Int
  BY <1>3
<1>7. \A m \in Int : Mult(m + L * c, B) = Mult(m, B)
  BY <1>6, BaseRepeats
<1>8. CASE x = s
  <2> DEFINE z == 0
             e == 8
  <2>1. z \in Int /\ x - y = z + L * c
    <3>1. L * c = -(L * k) /\ L * k \in Int
      BY <1>3, <1>11
    <3> DEFINE f == L * c
               g == L * k
    <3>2. f = -g /\ g \in Int /\ y = g + s
      BY <1>3, <3>1
    <3> HIDE DEF f, g
    <3>3. x - y = 0 + f
      BY <1>8, <1>11, <3>2
    <3> QED
      BY <3>3 DEF f
  <2>2. Mult(z, B) = Origin
    BY <1>1, MultIs
  <2> HIDE DEF z, c
  <2>3. Mult(x - y, B) = Origin
    BY <1>7, <2>1, <2>2
  <2>4. Times(8, Origin) = Origin
    <3>1. Origin \in Affine /\ AffineAdd(Origin, Origin) = Origin
      BY OriginIs
    <3> QED
      BY <3>1, TimesEightIs DEF TimesEight
  <2>5. x < L
    BY <1>8, <1>11
  <2> QED
    BY <1>4, <1>8, <1>12, <2>3, <2>4, <2>5
<1>9. CASE x >= L
  BY <1>4, <1>9, <1>11
<1>10. CASE x = (s + 1) % L /\ x # s
  <2>1. \E j \in Int : s + 1 = L * j + x
    <3> DEFINE n == s + 1
    <3>1. n \in Int /\ x = n % L
      BY <1>3, <1>10
    <3> HIDE DEF n
    <3>2. n = L * (n \div L) + x /\ n \div L \in Int
      BY <1>1, <3>1
    <3> QED
      BY <3>2 DEF n
  <2>2. PICK j \in Int : s + 1 = L * j + x
    BY <2>1
  <2> DEFINE i == c - j
             o == 1
  <2>3. i \in Int /\ o \in Int
    BY <1>6
  <2>4. L * i = L * c - L * j /\ L * c = -(L * k)
    BY <1>1, <1>3
  <2>5. L * j \in Int /\ L * k \in Int /\ L * c \in Int /\ L * i \in Int
    BY <1>1, <1>3, <1>6, <2>3
  <2> HIDE DEF i, c, o
  <2>6. x - y = o + L * i
    <3>1. L * i = L * c - L * j /\ L * c = -(L * k) /\ s + 1 = L * j + x /\ y = L * k + s
          /\ x \in Int /\ y \in Int /\ s \in Int /\ o = 1
      BY <1>1, <1>2, <1>3, <2>2, <2>4 DEF o
    <3> DEFINE f == L * i
               g == L * c
               l == L * j
               w == L * k
    <3> HIDE DEF f, g, l, w
    <3>2. f = g - l /\ g = -w /\ s + 1 = l + x /\ y = w + s /\ f \in Int /\ g \in Int /\ l \in Int /\ w \in Int
      BY <2>5, <3>1 DEF f, g, l, w
    <3>3. x - y = o + f
      BY <3>1, <3>2
    <3> QED
      BY <3>3 DEF f
  <2>7. Mult(o + L * i, B) = Mult(o, B)
    BY <2>3, BaseRepeats
  <2>8. Mult(o, B) = B
    BY <1>1, MultIs DEF o
  <2> QED
    BY <1>4, <1>10, <1>12, <2>6, <2>7, <2>8, EightBase
<1> QED
  BY <1>8, <1>9, <1>10


\* What differs by a zero is the same.
LEMMA ElFrom ==
  ASSUME NEW a \in Int, NEW b \in Int, NEW c \in Int, El(c) = 0, a = b + c
  PROVE  El(a) = El(b)
<1>1. a - b = c
  OBVIOUS
<1>2. El(a - b) = 0
  BY <1>1
<1> QED
  BY <1>2, ElSame

\* (A + 2) / 4 is what makes d the other coefficient of the curve.
LEMMA A24Is ==
  /\ a24 \in Field /\ a24 \in Int /\ El(a24) = a24 /\ a24 # 0
  /\ El(a24 * d - (1 - a24)) = 0
  /\ El(4 * a24) = El(A + 2)
<1> DEFINE c == A + 2
           q == 4
<1>1. c \in Int /\ q \in Int /\ A \in Int
  BY CurveIs
<1>2. El(q) # 0
  <2>1. El(2) # 0 /\ El(2 * 2) = El(4)
    BY MinusOne
  <2> QED
    BY <2>1, ElTimes
<1>3. fe_invert(q) \in Int /\ El(q * fe_invert(q)) = 1
  BY <1>1, <1>2, InvertIs
<1> DEFINE v == fe_invert(q)
<1>4. v \in Int /\ El(q * v) = 1
  BY <1>3
<1>5. a24 = fe_mul(c, v)
  BY DEF a24
<1> HIDE DEF c, v, q
<1>6. a24 \in Field /\ a24 = El(c * v)
  BY <1>1, <1>4, <1>5, FeIs
<1>7. a24 \in Int /\ El(a24) = a24
  BY <1>6, ElField
<1>8. El(q * a24) = El(c)
  <2> DEFINE n == c * v
             m == q * v
  <2>1. n \in Int /\ m \in Int /\ q * n = m * c
    BY <1>1, <1>4
  <2>2. El(m) = 1 /\ a24 = El(n)
    BY <1>4, <1>6
  <2> HIDE DEF n, m
  <2>3. El(q * El(n)) = El(q * n)
    BY <1>1, <2>1, ElIn
  <2>4. El(m * c) = El(c)
    BY <1>1, <2>1, <2>2, ElUnit
  <2> QED
    BY <2>1, <2>2, <2>3, <2>4
<1> DEFINE w == fe_invert(a24)
           b == a24 - 1
<1>9. w \in Int /\ b \in Int /\ (a24 # 0 => El(a24 * w) = 1) /\ (a24 = 0 => w = 0)
  BY <1>7, InvertIs
<1>10. d = fe_neg(fe_mul(b, w))
  BY DEF d
<1> HIDE DEF w, b
<1>11. d = El(-(b * w))
  <2> DEFINE n == b * w
  <2>1. n \in Int
    BY <1>9
  <2>2. fe_mul(b, w) = El(n)
    BY <1>9, FeIs
  <2> HIDE DEF n
  <2>3. fe_neg(El(n)) = El(-n)
    BY <2>1, FeInOne
  <2> QED
    BY <1>10, <2>2, <2>3 DEF n
<1>12. a24 # 0
  <2>1. d # 0
    BY CurveIs
  <2>2. ASSUME a24 = 0 PROVE FALSE
    <3>1. w = 0
      BY <1>9, <2>2
    <3>2. -(b * w) = 0
      BY <1>9, <3>1
    <3> QED
      BY <1>11, <2>1, <3>2, OneIs
  <2> QED
    BY <2>2
<1>13. El(a24 * d) = El(1 - a24)
  <2> DEFINE n == -(b * w)
             m == a24 * w
  <2>1. n \in Int /\ m \in Int /\ a24 * n = m * (1 - a24) /\ 1 - a24 \in Int
    BY <1>7, <1>9 DEF b
  <2>2. El(m) = 1 /\ d = El(n)
    BY <1>9, <1>11, <1>12
  <2> HIDE DEF n, m
  <2>3. El(a24 * El(n)) = El(a24 * n)
    BY <1>7, <2>1, ElIn
  <2> DEFINE o == 1 - a24
  <2>4. o \in Int
    BY <2>1
  <2> HIDE DEF o
  <2>5. El(m * o) = El(o)
    BY <2>1, <2>2, <2>4, ElUnit
  <2> QED
    BY <2>1, <2>2, <2>3, <2>5 DEF o
<1>14. El(a24 * d - (1 - a24)) = 0
  <2> DEFINE n == a24 * d
             m == 1 - a24
  <2>1. n \in Int /\ m \in Int /\ El(n) = El(m)
    BY <1>7, <1>13, CurveIs
  <2> HIDE DEF n, m
  <2>2. El(n - m) = 0
    BY <2>1, ElSame
  <2> QED
    BY <2>2 DEF n, m
<1> QED
  BY <1>6, <1>7, <1>8, <1>12, <1>14 DEF q, c

\* x and z are the u coordinate of a point with ordinate y: y = (x - z) / (x + z).
UForm(x, z, y) == x \in Field /\ z \in Field /\ El(x + z) # 0 /\ El(x - z) = El(y * (x + z))

\* What one step of the ladder makes of x2 and z2.
LEMMA LadderDoubleForm ==
  ASSUME NEW x \in Field, NEW z \in Field, NEW y \in Int, El(x - z) = El(y * (x + z))
  PROVE  LET g  == (x + z) * (x + z)
             h  == y * y
             d2 == fe_sub(x, z)
             s2 == fe_add(x, z)
             bb == fe_sq(d2)
             aa == fe_sq(s2)
             e  == fe_sub(aa, bb)
         IN /\ fe_mul(aa, bb) = El((g * g) * h)
            /\ fe_mul(e, fe_add(bb, fe_mul(e, a24))) = El((g * g) * ((1 - h) * (h + (1 - h) * a24)))
<1> DEFINE s == x + z
           t == y * s
           g == s * s
           h == y * y
           b == g * h
           f == g - b
           d2 == fe_sub(x, z)
           s2 == fe_add(x, z)
           bb == fe_sq(d2)
           aa == fe_sq(s2)
           e  == fe_sub(aa, bb)
<1>1. x \in Int /\ z \in Int /\ a24 \in Int /\ y \in Int
  BY ElField, A24Is
<1>2. s \in Int /\ t \in Int /\ g \in Int /\ h \in Int /\ b \in Int /\ f \in Int /\ t * t = b
  BY <1>1
<1>3. d2 = El(t) /\ s2 = El(s)
  BY <1>1, FeIs
<1>4. aa = El(g) /\ bb = El(b)
  <2> HIDE DEF s, t, b, s2, d2
  <2>1. fe_sq(El(s)) = El(s * s) /\ fe_sq(El(t)) = El(t * t)
    BY <1>2, FeInOne
  <2> QED
    BY <1>2, <1>3, <2>1
<1> HIDE DEF aa, bb
<1>5. e = El(f) /\ fe_mul(aa, bb) = El(g * b)
  <2> HIDE DEF g, b
  <2> QED
    BY <1>2, <1>4, FeIn
<1> HIDE DEF e
<1> DEFINE k == f * a24
           m == b + k
<1>6. k \in Int /\ m \in Int
  BY <1>1, <1>2
<1>7. fe_mul(e, a24) = El(k)
  <2> HIDE DEF f
  <2>1. fe_mul(El(f), a24) = El(f * a24)
    BY <1>1, <1>2, FeIn
  <2> QED
    BY <1>5, <2>1
<1>8. fe_add(bb, fe_mul(e, a24)) = El(m)
  <2> HIDE DEF b, k
  <2>1. fe_add(El(b), El(k)) = El(b + k)
    BY <1>2, <1>6, FeIn
  <2> QED
    BY <1>4, <1>7, <2>1
<1>9. fe_mul(e, fe_add(bb, fe_mul(e, a24))) = El(f * m)
  <2> HIDE DEF f, m
  <2>1. fe_mul(El(f), El(m)) = El(f * m)
    BY <1>2, <1>6, FeIn
  <2> QED
    BY <1>5, <1>8, <2>1
<1>10. g * b = (g * g) * h /\ f * m = (g * g) * ((1 - h) * (h + (1 - h) * a24))
  <2> HIDE DEF g, h
  <2> QED
    BY <1>1, <1>2
<1> QED
  BY <1>5, <1>9, <1>10 DEF aa, bb, e

\* The double of a point.
LEMMA LadderDouble ==
  ASSUME NEW p \in Affine, NEW x, NEW z, UForm(x, z, p[2])
  PROVE  LET d2 == fe_sub(x, z)
             s2 == fe_add(x, z)
             bb == fe_sq(d2)
             aa == fe_sq(s2)
             e  == fe_sub(aa, bb)
         IN UForm(fe_mul(aa, bb), fe_mul(e, fe_add(bb, fe_mul(e, a24))), AffineAdd(p, p)[2])
<1> DEFINE X == p[1]
           Y == p[2]
           g == (x + z) * (x + z)
           c == g * g
           h == Y * Y
           i == X * X
           u == c * h
           w == h + (1 - h) * a24
           v == c * ((1 - h) * w)
           k == Cross(p, p)
           l == 1 - k
           n == h + i
           r == AffineAdd(p, p)[2]
           o1 == Off(X, Y)
           o2 == a24 * d - (1 - a24)
<1>1. /\ x \in Field /\ z \in Field /\ x \in Int /\ z \in Int /\ El(x + z) # 0 /\ El(x - z) = El(Y * (x + z))
      /\ X \in Int /\ Y \in Int /\ a24 \in Int /\ d \in Int /\ k \in Int /\ El(l) # 0
  BY AffineInts, ElField, A24Is, CurveIs, CrossIs DEF UForm
<1>2. /\ fe_mul(fe_sq(fe_add(x, z)), fe_sq(fe_sub(x, z))) = El(u)
      /\ LET d2 == fe_sub(x, z)
             s2 == fe_add(x, z)
             bb == fe_sq(d2)
             aa == fe_sq(s2)
             e  == fe_sub(aa, bb)
         IN fe_mul(e, fe_add(bb, fe_mul(e, a24))) = El(v)
  <2> HIDE DEF Y
  <2> QED
    BY <1>1, LadderDoubleForm
<1>3. El(o1) = 0 /\ El(o2) = 0 /\ o1 \in Int /\ o2 \in Int /\ o1 = (h - i) - (1 + k)
  <2>1. o1 = (h - i) - (1 + d * ((X * Y) * (X * Y))) /\ k = d * ((X * Y) * (X * Y))
    BY DEF Off, Cross
  <2> QED
    BY <1>1, <2>1, AffineIs, A24Is
<1>4. r \in Int /\ El(l * r) = El(n)
  <2>1. AffineAdd(p, p) \in Field \X Field /\ Sums(p, p, AffineAdd(p, p))
    BY SumIn
  <2> QED
    BY <2>1, ElField DEF Sums
<1>12. k = d * (i * h)
  <2>1. k = d * ((X * Y) * (X * Y))
    BY DEF Cross
  <2> HIDE DEF X, Y, k
  <2> QED
    BY <1>1, <2>1
<1> HIDE DEF g
<1>5. /\ c \in Int /\ h \in Int /\ i \in Int /\ u \in Int /\ w \in Int /\ v \in Int /\ l \in Int /\ n \in Int
  <2> HIDE DEF X, Y, k
  <2>1. g \in Int
    BY <1>1 DEF g
  <2> QED
    BY <1>1, <2>1
<1> HIDE DEF X, Y, k, r, o1
<1> DEFINE f == c * w
<1>6. f \in Int
  BY <1>5
<1>7. El(u + v) = El(f * l)
  <2> DEFINE a == u + v
             b == f * l
             f1 == -(c * (w - a24))
             f2 == c * (h * i)
  <2>1. a = b + (f1 * o1 + f2 * o2)
    <3> HIDE DEF c, h, i
    <3> QED
      BY <1>1, <1>3, <1>5, <1>12
  <2>2. a \in Int /\ b \in Int /\ f1 \in Int /\ f2 \in Int
    BY <1>1, <1>5, <1>6
  <2> HIDE DEF a, b, f1, f2, o2
  <2> DEFINE c0 == f1 * o1 + f2 * o2
  <2>4. El(c0) = 0
    BY <1>3, <2>2, ZeroSum
  <2>5. c0 \in Int /\ a = b + c0
    BY <1>3, <2>1, <2>2
  <2> HIDE DEF c0
  <2>3. El(a) = El(b)
    BY <2>2, <2>4, <2>5, ElFrom
  <2> QED
    BY <2>3 DEF a, b
<1>8. El(u - v) = El(f * n)
  <2> DEFINE a == u - v
             b == f * n
             f1 == c * a24
             f2 == c * (h * i)
  <2>1. a = b + (f1 * o1 + f2 * o2)
    <3> HIDE DEF c, h, i
    <3> QED
      BY <1>1, <1>3, <1>5, <1>12
  <2>2. a \in Int /\ b \in Int /\ f1 \in Int /\ f2 \in Int
    BY <1>1, <1>5, <1>6
  <2> HIDE DEF a, b, f1, f2, o2
  <2> DEFINE c0 == f1 * o1 + f2 * o2
  <2>4. El(c0) = 0
    BY <1>3, <2>2, ZeroSum
  <2>5. c0 \in Int /\ a = b + c0
    BY <1>3, <2>1, <2>2
  <2> HIDE DEF c0
  <2>3. El(a) = El(b)
    BY <2>2, <2>4, <2>5, ElFrom
  <2> QED
    BY <2>3 DEF a, b
<1>9. El(f) # 0
  <2>1. El(c) # 0
    BY <1>1, <1>5, ElTimes DEF g
  <2>2. El(w) # 0
    <3> DEFINE e == h * d + 1
               m == a24 * e
               f2 == (-1) * h
               c0 == f2 * o2
    <3>1. e \in Int /\ m \in Int /\ c0 \in Int /\ f2 \in Int /\ w = m + c0
      BY <1>1, <1>5
    <3>5. El(c0) = 0
      <4> HIDE DEF f2, o2
      <4> QED
        BY <1>3, <3>1, ZeroTimes
    <3>2. El(e) # 0
      BY <1>1, NoPole DEF h
    <3> HIDE DEF e
    <3>3. El(m) # 0
      BY <1>1, <3>1, <3>2, A24Is, ElTimes
    <3> HIDE DEF m, c0, w
    <3>4. El(w) = El(m)
      BY <1>5, <3>1, <3>5, ElFrom
    <3> QED
      BY <3>3, <3>4
  <2> HIDE DEF c, w
  <2> QED
    BY <1>5, <2>1, <2>2, ElTimes
<1> DEFINE s == El(u) + El(v)
           t == El(u) - El(v)
<1>10. El(s) = El(u + v) /\ El(t) = El(u - v) /\ s \in Int /\ t \in Int /\ El(u) \in Field /\ El(v) \in Field
  <2> HIDE DEF u, v
  <2>1. El(u) \in Field /\ El(v) \in Field
    BY <1>5, ElIs
  <2>2. El(u) \in Int /\ El(v) \in Int
    BY <1>5, ElIs
  <2>3. El(El(u) + El(v)) = El(u + v) /\ El(El(u) - El(v)) = El(u - v)
    BY ZenonT(60), <1>5, ElIn
  <2> QED
    BY <2>1, <2>2, <2>3
<1>11. El(s) # 0 /\ El(t) = El(r * s)
  <2> HIDE DEF f, s, t, u, v, l, n
  <2>1. El(f * l) # 0
    BY <1>1, <1>5, <1>6, <1>9, ElTimes
  <2>2. El(f * n) = El(f * (l * r))
    <3> DEFINE m == l * r
    <3>1. m \in Int /\ El(m) = El(n)
      BY <1>4, <1>5
    <3> HIDE DEF m
    <3>2. El(f * n) = El(f * m)
      BY ZenonT(60), <1>5, <1>6, <3>1, ElFactor
    <3> QED
      BY <3>2 DEF m
  <2>3. El(s * r) = El((f * l) * r)
    <3> DEFINE m == f * l
    <3>1. m \in Int /\ El(m) = El(s)
      BY <1>5, <1>6, <1>7, <1>10
    <3> HIDE DEF m
    <3>2. El(s * r) = El(m * r)
      BY <1>4, <1>10, <3>1, ElFactor
    <3> QED
      BY <3>2 DEF m
  <2>4. s * r = r * s /\ (f * l) * r = f * (l * r)
    BY <1>4, <1>5, <1>6, <1>10
  <2> QED
    BY <1>7, <1>8, <1>10, <2>1, <2>2, <2>3, <2>4
<1> QED
  BY <1>2, <1>10, <1>11 DEF UForm, r

\* The ordinate of a difference.
LEMMA DifferenceIs ==
  ASSUME NEW q \in Affine, NEW r \in Affine
  PROVE  LET t == AffineAdd(r, Negated(q))[2]
         IN t \in Field /\ El((1 + Cross(q, r)) * t) = El(q[2] * r[2] - q[1] * r[1])
<1> DEFINE a == q[1]
           b == q[2]
           c == r[1]
           e == r[2]
           n == Negated(q)
           t == AffineAdd(r, n)[2]
           m == n[1]
<1>1. /\ n \in Affine /\ m = El(-a) /\ n[2] = b
      /\ a \in Int /\ b \in Int /\ c \in Int /\ e \in Int /\ d \in Int
  BY NegatedIs, AffineInts, CurveIs
<1>2. t \in Field /\ El((1 - Cross(r, n)) * t) = El(e * b + c * m)
  <2>1. AffineAdd(r, n) \in Field \X Field /\ Sums(r, n, AffineAdd(r, n))
    BY <1>1, SumIn
  <2> QED
    BY <1>1, <2>1 DEF Sums
<1>3. m \in Int /\ \E j \in Int : -a = P * j + m
  BY <1>1, ElIs
<1>4. PICK j \in Int : -a = P * j + m
  BY <1>3
<1>5. Cross(r, n) = d * ((c * e) * (m * b)) /\ Cross(q, r) = d * ((a * b) * (c * e)) /\ t \in Int
  BY <1>1, <1>2, ElField DEF Cross
<1>6. P \in Int
  BY PrimeIs
<1> HIDE DEF a, b, c, e, m, n, t
<1> DEFINE x == (1 - Cross(r, n)) * t
           y == (1 + Cross(q, r)) * t
           u == e * b + c * m
           w == b * e - a * c
           k1 == (d * ((c * e) * b)) * t
           f == k1 * j
           g == -(c * j)
<1>7. /\ x \in Int /\ y \in Int /\ u \in Int /\ w \in Int /\ f \in Int /\ g \in Int
  BY <1>1, <1>3, <1>5
<1>8. x = P * f + y /\ w = P * (-g) + u /\ -g \in Int
  <2>1. m = -a - P * j
    BY <1>1, <1>3, <1>4, <1>6
  <2>2. P * j \in Int
    BY <1>6
  <2> DEFINE h == P * j
  <2>3. P * f = k1 * h /\ P * (-g) = c * h /\ k1 \in Int
    BY <1>1, <1>5, <1>6
  <2>4. m = -a - h /\ h \in Int
    BY <2>1, <2>2
  <2> HIDE DEF h
  <2>10. a \in Int /\ b \in Int /\ c \in Int /\ e \in Int /\ h \in Int /\ m = (-a) - h
    BY <1>1, <2>4
  <2>6. b * e - a * c = c * h + (e * b + c * m)
    BY ONLY <2>10
  <2>7. (c * e) * (m * b) = -((a * b) * (c * e)) - ((c * e) * b) * h
    BY ONLY <2>10
  <2> DEFINE r0 == (a * b) * (c * e)
             r1 == ((c * e) * b) * h
             r2 == (c * e) * (m * b)
  <2>8. r0 \in Int /\ r1 \in Int /\ r2 \in Int /\ r2 = -r0 - r1 /\ k1 * h = (d * r1) * t
    BY <1>1, <1>3, <1>5, <2>4, <2>7
  <2> HIDE DEF r0, r1, r2
  <2>9. (1 - d * r2) * t = (1 + d * r0) * t + (d * r1) * t
    BY <1>1, <1>5, <2>8
  <2>5. x = k1 * h + y /\ w = c * h + u
    BY <1>1, <1>5, <2>6, <2>8, <2>9 DEF r0, r2
  <2> QED
    BY <1>7, <2>3, <2>5
<1> HIDE DEF x, y, u, w, f, g
<1>9. El(x) = El(y) /\ El(w) = El(u)
  <2> DEFINE g1 == -g
  <2>1. g1 \in Int /\ w = P * g1 + u
    BY <1>8
  <2> HIDE DEF g1
  <2> QED
    BY <1>7, <1>8, <2>1, ElMore
<1>10. El(y) = El(w) /\ t \in Field
  BY <1>2, <1>9 DEF x, u
<1> QED
  BY <1>10 DEF y, w, a, b, c, e, t, n

\* What one step makes of x3 and z3, from sums s and t and the ordinates b and e.
LEMMA LadderSumForm ==
  ASSUME NEW s \in Int, NEW t \in Int, NEW b \in Int, NEW e \in Int, NEW v \in Int
  PROVE  LET c  == s * t
             z3 == fe_mul(El(e * t), El(s))
             z2 == fe_mul(El(t), El(b * s))
         IN /\ fe_sq(fe_add(z3, z2)) = El((c * c) * ((e + b) * (e + b)))
            /\ fe_mul(v, fe_sq(fe_sub(z3, z2))) = El(v * ((c * c) * ((e - b) * (e - b))))
<1> DEFINE c == s * t
           z3 == fe_mul(El(e * t), El(s))
           z2 == fe_mul(El(t), El(b * s))
           m3 == (e * t) * s
           m2 == t * (b * s)
           p == m3 + m2
           n == m3 - m2
<1>1. e * t \in Int /\ b * s \in Int /\ m3 \in Int /\ m2 \in Int /\ p \in Int /\ n \in Int
      /\ p * p \in Int /\ n * n \in Int
  OBVIOUS
<1>2. z3 = El(m3) /\ z2 = El(m2)
  <2> DEFINE et == e * t
             bs == b * s
  <2>1. et \in Int /\ bs \in Int
    BY <1>1
  <2> HIDE DEF et, bs
  <2>2. fe_mul(El(et), El(s)) = El(et * s) /\ fe_mul(El(t), El(bs)) = El(t * bs)
    BY <2>1, FeIn
  <2> QED
    BY <2>2 DEF et, bs
<1> HIDE DEF z3, z2
<1>3. fe_add(z3, z2) = El(p) /\ fe_sub(z3, z2) = El(n)
  <2> HIDE DEF m3, m2
  <2> QED
    BY <1>1, <1>2, FeIn
<1>4. fe_sq(El(p)) = El(p * p) /\ fe_sq(El(n)) = El(n * n)
  <2> HIDE DEF p, n
  <2> QED
    BY <1>1, FeInOne
<1> DEFINE nn == n * n
<1>5. fe_mul(v, El(nn)) = El(v * nn)
  <2>1. nn \in Int
    BY <1>1
  <2> HIDE DEF nn
  <2> QED
    BY <2>1, FeIn
<1>6. p * p = (c * c) * ((e + b) * (e + b)) /\ nn = (c * c) * ((e - b) * (e - b))
  OBVIOUS
<1> QED
  BY <1>3, <1>4, <1>5, <1>6 DEF z3, z2

\* The identities behind the sum: with the ordinate t of the difference, (1 - t) x3 and
\* (1 + t) z3 are what the formulas give, up to the equations of both points.
Mixed(b, e, t) == (b * b + e * e) - (2 * t) * (b * e)
Crossed(b, e, t) == 2 * (b * e) - t * (b * b + e * e)

LEMMA MixedIs ==
  ASSUME NEW b \in Int, NEW e \in Int, NEW t \in Int
  PROVE  /\ Mixed(b, e, t) \in Int /\ Crossed(b, e, t) \in Int
         /\ (1 - t) * ((e + b) * (e + b)) = Mixed(b, e, t) + Crossed(b, e, t)
         /\ (1 + t) * ((e - b) * (e - b)) = Mixed(b, e, t) - Crossed(b, e, t)
<1>1. (1 - t) * ((e + b) * (e + b)) = ((b * b + e * e) - (2 * t) * (b * e)) + (2 * (b * e) - t * (b * b + e * e))
  OBVIOUS
<1>2. (1 + t) * ((e - b) * (e - b)) = ((b * b + e * e) - (2 * t) * (b * e)) - (2 * (b * e) - t * (b * b + e * e))
  OBVIOUS
<1> QED
  BY <1>1, <1>2 DEF Mixed, Crossed

LEMMA SumOfOrdinates ==
  ASSUME NEW a \in Int, NEW b \in Int, NEW c \in Int, NEW e \in Int
  PROVE  LET m == b * e
             n == a * c
             k == d * ((a * b) * (c * e))
             s == b * b + e * e
         IN ((1 - k * k) + (m * m - n * n)) - s * (1 + d * (n * n))
              = (d * ((c * c) * (e * e)) + c * c) * Off(a, b) + (b * b - 1) * Off(c, e)
<1>1. d \in Int
  BY CurveIs
<1> DEFINE bb == b * b
           aa == a * a
           ee == e * e
           cc == c * c
           x  == d * (aa * bb)
           y  == d * (cc * ee)
           k  == d * ((a * b) * (c * e))
<1>2. /\ aa \in Int /\ bb \in Int /\ cc \in Int /\ ee \in Int /\ x \in Int /\ y \in Int
      /\ (b * e) * (b * e) = bb * ee /\ (a * c) * (a * c) = aa * cc
      /\ k * k = x * y /\ (a * b) * (a * b) = aa * bb /\ (c * e) * (c * e) = cc * ee
  BY <1>1
<1>3. Off(a, b) = (bb - aa) - (1 + x) /\ Off(c, e) = (ee - cc) - (1 + y)
  BY <1>2 DEF Off
<1>4. (bb + ee) * (1 + d * (aa * cc)) = (bb + ee) + (cc * x + aa * y)
  <2> HIDE DEF aa, bb, cc, ee
  <2> QED
    BY <1>1, <1>2
<1> HIDE DEF aa, bb, cc, ee, x, y, k
<1>5. ((1 - x * y) + (bb * ee - aa * cc)) - ((bb + ee) + (cc * x + aa * y))
        = (y + cc) * ((bb - aa) - (1 + x)) + (bb - 1) * ((ee - cc) - (1 + y))
  BY <1>2
<1> DEFINE l == ((1 - k * k) + ((b * e) * (b * e) - (a * c) * (a * c))) - (bb + ee) * (1 + d * (aa * cc))
<1>6. l = (y + cc) * Off(a, b) + (bb - 1) * Off(c, e)
  BY <1>2, <1>3, <1>4, <1>5
<1> QED
  BY <1>2, <1>6 DEF k, y, aa, bb, cc, ee

\* t is the ordinate of the difference of q and r.
DifferBy(q, r, t) == El((1 + Cross(q, r)) * t) = El(q[2] * r[2] - q[1] * r[1])

\* The ordinate of the sum is the ratio of the two forms.
LEMMA RatioOfForms ==
  ASSUME NEW q \in Affine, NEW r \in Affine, NEW t \in Int, DifferBy(q, r, t)
  PROVE  El(Crossed(q[2], r[2], t)) = El(AffineAdd(q, r)[2] * Mixed(q[2], r[2], t))
<1> DEFINE a == q[1]
           b == q[2]
           c == r[1]
           e == r[2]
           k == Cross(q, r)
           y == AffineAdd(q, r)[2]
           m == b * e
           n == a * c
           s == b * b + e * e
           dn == d * (n * n)
           f == Mixed(b, e, t)
           g == Crossed(b, e, t)
           h1 == (1 + k) * t - (m - n)
           h2 == (1 - k) * y - (m + n)
           o == ((1 - k * k) + (m * m - n * n)) - s * (1 + dn)
           u == (1 - k) * (1 + k)
<1>1. /\ a \in Int /\ b \in Int /\ c \in Int /\ e \in Int /\ d \in Int /\ k \in Int
      /\ El(1 + k) # 0 /\ El(1 - k) # 0 /\ k = d * ((a * b) * (c * e))
  BY AffineInts, CurveIs, CrossIs DEF Cross
<1>2. y \in Int /\ El((1 - k) * y) = El(m + n)
  <2>1. AffineAdd(q, r) \in Field \X Field /\ Sums(q, r, AffineAdd(q, r))
    BY SumIn
  <2>2. q[2] * r[2] + q[1] * r[1] = m + n
    OBVIOUS
  <2> QED
    BY <2>1, <2>2, ElField DEF Sums
<1>3. El((1 + k) * t) = El(m - n)
  BY DEF DifferBy
<1>4. El(Off(a, b)) = 0 /\ El(Off(c, e)) = 0
  BY AffineIs
<1> HIDE DEF a, b, c, e, y
<1>5. /\ m \in Int /\ n \in Int /\ s \in Int /\ dn \in Int /\ o \in Int /\ u \in Int
      /\ f = s - (2 * t) * m /\ g = 2 * m - t * s /\ f \in Int /\ g \in Int
  <2>1. f = s - (2 * t) * m /\ g = 2 * m - t * s
    BY DEF Mixed, Crossed
  <2> HIDE DEF k
  <2> QED
    BY <1>1, <2>1
<1>6. El(h1) = 0 /\ El(h2) = 0 /\ h1 \in Int /\ h2 \in Int
  <2> DEFINE u1 == (1 + k) * t
             v1 == m - n
             u2 == (1 - k) * y
             v2 == m + n
  <2>1. u1 \in Int /\ v1 \in Int /\ u2 \in Int /\ v2 \in Int /\ El(u1) = El(v1) /\ El(u2) = El(v2)
    BY <1>1, <1>2, <1>3, <1>5
  <2> HIDE DEF u1, v1, u2, v2
  <2>2. El(u1 - v1) = 0 /\ El(u2 - v2) = 0
    BY <2>1, ElSame
  <2>3. u1 - v1 \in Int /\ u2 - v2 \in Int
    BY <2>1
  <2> QED
    BY <2>2, <2>3 DEF u1, v1, u2, v2
<1>7. El(o) = 0
  <2> DEFINE f1 == d * ((c * c) * (e * e)) + c * c
             f2 == b * b - 1
             o1 == Off(a, b)
             o2 == Off(c, e)
  <2>1. o = f1 * o1 + f2 * o2
    BY <1>1, SumOfOrdinates
  <2>2. f1 \in Int /\ f2 \in Int /\ o1 \in Int /\ o2 \in Int
    BY <1>1 DEF Off
  <2> HIDE DEF f1, f2, o1, o2
  <2>3. El(f1 * o1 + f2 * o2) = 0
    BY <1>4, <2>2, ZeroSum DEF o1, o2
  <2> QED
    BY <2>1, <2>3
<1>8. k * n = m * dn
  <2>1. k = d * (m * n)
    BY <1>1
  <2> HIDE DEF m, n, k
  <2> QED
    BY <1>1, <1>5, <2>1
<1> HIDE DEF k, m, n, s, dn, f, g
<1>9. u * g = u * (y * f) + ((2 * m) * o + ((2 * m) * (m + n) - (1 - k) * s) * h1 + (-((1 + k) * f)) * h2)
  <2> DEFINE k1 == 1 + k
             k0 == 1 - k
             t1 == k1 * t
             y0 == k0 * y
  <2>1. k0 \in Int /\ k1 \in Int /\ t1 \in Int /\ y0 \in Int
    BY <1>1, <1>2
  <2>2. u * g = k0 * (k1 * (2 * m) - t1 * s)
    <3> HIDE DEF k0, k1
    <3>1. (k0 * k1) * g = k0 * (k1 * (2 * m) - t1 * s)
      BY <1>5, <2>1
    <3> QED
      BY <3>1 DEF k0, k1
  <2>3. u * (y * f) = y0 * (k1 * f)
    <3> HIDE DEF k0, k1
    <3>1. (k0 * k1) * (y * f) = y0 * (k1 * f)
      BY <1>2, <1>5, <2>1
    <3> QED
      BY <3>1 DEF k0, k1
  <2>4. k1 * f = k1 * s - (2 * t1) * m
    <3> HIDE DEF k1
    <3> QED
      BY <1>5, <2>1
  <2>5. t1 = (m - n) + h1 /\ y0 = (m + n) + h2
    <3>1. h1 = t1 - (m - n) /\ h2 = y0 - (m + n)
      OBVIOUS
    <3> HIDE DEF t1, y0, h1, h2
    <3> QED
      BY <1>5, <1>6, <2>1, <3>1
  <2> HIDE DEF t1, y0, h1, h2, u
  <2> DEFINE w == k1 * f
  <2>6. w \in Int /\ w = k1 * s - (2 * t1) * m
    BY <1>5, <2>1, <2>4
  <2>7. k0 * (k1 * (2 * m) - t1 * s)
          = ((m + n) * w) + ((2 * m) * o + ((2 * m) * (m + n) - k0 * s) * h1)
    <3>1. k0 * (k1 * (2 * m) - t1 * s) = (2 * m) * (1 - k * k) - (k0 * s) * (m - n) - (k0 * s) * h1
      BY <1>1, <1>5, <1>6, <2>5
    <3>2. (m + n) * w = (k1 * s) * (m + n) - (2 * m) * ((m * m - n * n) + (m + n) * h1)
      BY <1>1, <1>5, <1>6, <2>1, <2>5, <2>6
    <3>3. (2 * m) * o = (2 * m) * ((1 - k * k) + (m * m - n * n)) - (2 * s) * (m + k * n)
      BY <1>1, <1>5, <1>8
    <3>4. (k0 * s) * (m - n) + (k1 * s) * (m + n) = (2 * s) * (m + k * n)
      BY <1>1, <1>5
    <3> HIDE DEF k0, k1, o, w
    <3>5. (2 * m) * ((m * m - n * n) + (m + n) * h1) = (2 * m) * (m * m - n * n) + ((2 * m) * (m + n)) * h1
      BY <1>5, <1>6
    <3>6. ((2 * m) * (m + n) - k0 * s) * h1 = ((2 * m) * (m + n)) * h1 - (k0 * s) * h1
      BY <1>5, <1>6, <2>1
    <3>7. (2 * m) * ((1 - k * k) + (m * m - n * n)) = (2 * m) * (1 - k * k) + (2 * m) * (m * m - n * n)
      BY <1>1, <1>5
    <3> DEFINE e1 == k0 * (k1 * (2 * m) - t1 * s)
               e2 == (2 * m) * (1 - k * k)
               e3 == (k0 * s) * (m - n)
               e4 == (k0 * s) * h1
               e5 == (m + n) * w
               e6 == (k1 * s) * (m + n)
               e7 == (2 * m) * (m * m - n * n)
               e8 == ((2 * m) * (m + n)) * h1
               e9 == (2 * m) * o
               e10 == (2 * s) * (m + k * n)
               e11 == ((2 * m) * (m + n) - k0 * s) * h1
    <3>8. /\ e1 = (e2 - e3) - e4 /\ e5 = e6 - (e7 + e8) /\ e9 = (e2 + e7) - e10 /\ e3 + e6 = e10 /\ e11 = e8 - e4
          /\ e1 \in Int /\ e2 \in Int /\ e3 \in Int /\ e4 \in Int /\ e5 \in Int /\ e6 \in Int /\ e7 \in Int
          /\ e8 \in Int /\ e9 \in Int /\ e10 \in Int /\ e11 \in Int
      <4>1. /\ e2 \in Int /\ e3 \in Int /\ e4 \in Int /\ e6 \in Int /\ e7 \in Int
            /\ e8 \in Int /\ e10 \in Int /\ e5 \in Int /\ e9 \in Int /\ e1 \in Int /\ e11 \in Int
        BY <1>1, <1>5, <1>6, <2>1, <2>6
      <4> QED
        BY <3>1, <3>2, <3>3, <3>4, <3>5, <3>6, <3>7, <4>1
    <3> HIDE DEF e1, e2, e3, e4, e5, e6, e7, e8, e9, e10, e11
    <3>9. e1 = e5 + (e9 + e11)
      BY ONLY <3>8
    <3> QED
      BY <3>9 DEF e1, e5, e9, e11
  <2> DEFINE r1 == (2 * m) * o
             r2 == ((2 * m) * (m + n) - k0 * s) * h1
             r3 == (-w) * h2
             r4 == (m + n) * w
  <2>8. y0 * w = r4 - r3 /\ r1 \in Int /\ r2 \in Int /\ r3 \in Int /\ r4 \in Int /\ y0 * w \in Int
    BY <1>5, <1>6, <2>1, <2>5, <2>6
  <2>9. u * g = r4 + (r1 + r2) /\ u * (y * f) = y0 * w
    BY <2>2, <2>3, <2>7
  <2>10. u * g = u * (y * f) + ((r1 + r2) + r3)
    <3> HIDE DEF r1, r2, r3, r4, w, k0, k1
    <3> QED
      BY <2>8, <2>9
  <2> QED
    BY <2>10
<1>10. El(u * g) = El(u * (y * f))
  <2> DEFINE f0 == 2 * m
             f1 == (2 * m) * (m + n) - (1 - k) * s
             f2 == -((1 + k) * f)
             c0 == Three(f0, o, f1, h1, f2, h2)
             x1 == u * g
             x2 == u * (y * f)
  <2>1. f0 \in Int /\ f1 \in Int /\ f2 \in Int /\ x1 \in Int /\ x2 \in Int
    BY <1>1, <1>2, <1>5
  <2>2. x1 = x2 + ((f0 * o + f1 * h1) + f2 * h2)
    BY <1>9
  <2> HIDE DEF f0, f1, f2, o, h1, h2, x1, x2
  <2>6. /\ o \in Int /\ h1 \in Int /\ h2 \in Int /\ f0 \in Int /\ f1 \in Int /\ f2 \in Int
        /\ El(o) = 0 /\ El(h1) = 0 /\ El(h2) = 0
    BY <1>5, <1>6, <1>7, <2>1
  <2>3. El(c0) = 0
    BY ONLY <2>6, ZeroThree
  <2>4. c0 \in Int /\ x1 = x2 + c0
    BY <1>5, <1>6, <2>1, <2>2 DEF Three
  <2> HIDE DEF c0
  <2>5. El(x1) = El(x2)
    BY <2>1, <2>3, <2>4, ElFrom
  <2> QED
    BY <2>5 DEF x1, x2
<1>11. El(u) # 0
  <2> DEFINE k0 == 1 - k
             k1 == 1 + k
  <2>1. k0 \in Int /\ k1 \in Int /\ El(k0) # 0 /\ El(k1) # 0
    BY <1>1 DEF k
  <2> HIDE DEF k0, k1
  <2>2. El(k0 * k1) # 0
    BY <2>1, ElTimes
  <2> QED
    BY <2>2 DEF k0, k1
<1> DEFINE yf == y * f
<1>12. yf \in Int
  BY <1>2, <1>5
<1> HIDE DEF u, yf
<1>13. El(g) = El(yf)
  <2>1. El(u * g) = El(u * yf)
    BY <1>10 DEF yf
  <2> QED
    BY <1>5, <1>11, <1>12, <2>1, ElCancel
<1> QED
  BY <1>13 DEF yf, g, f, y, b, e

\* A point of the curve with ordinate 0 has an abscissa whose square is -1.
LEMMA SquareOnAxis ==
  ASSUME NEW a \in Int, NEW b \in Int, El(b) = 0, El(Off(a, b)) = 0
  PROVE  El(a * a) = El(-1)
<1> DEFINE aa == a * a
           m == -1
           o == Off(a, b)
           f == b - d * (aa * b)
           z == f * b
           h == m - aa
<1>1. d \in Int /\ aa \in Int
  BY CurveIs
<1>2. f \in Int /\ z \in Int /\ m \in Int /\ h \in Int /\ m = aa + h
  BY <1>1
<1>3. o = h + z
  <2>1. o = (b * b - a * a) - (1 + d * ((a * b) * (a * b)))
    BY <1>1 DEF Off
  <2>2. (a * b) * (a * b) = (aa * b) * b
    OBVIOUS
  <2>3. z = b * b - d * ((aa * b) * b)
    <3> HIDE DEF aa
    <3> QED
      BY <1>1
  <2>4. o = (b * b - aa) - (1 + d * ((aa * b) * b))
    BY <2>1, <2>2
  <2> DEFINE e1 == b * b
             e2 == d * ((aa * b) * b)
  <2>5. e1 \in Int /\ e2 \in Int /\ z = e1 - e2 /\ o = (e1 - aa) - (1 + e2) /\ h = (-1) - aa
    BY <1>1, <2>3, <2>4
  <2> HIDE DEF e1, e2, o, h, z, aa
  <2> QED
    BY <1>1, <2>5
<1>4. El(z) = 0
  <2> HIDE DEF f
  <2> QED
    BY <1>2, ZeroTimes
<1>5. El(o) = 0
  OBVIOUS
<1> HIDE DEF aa, m, o, z, h
<1>6. El(h) = 0
  <2>1. El(o) = El(h)
    BY <1>2, <1>3, <1>4, ElFrom
  <2> QED
    BY <1>5, <2>1
<1>7. El(m) = El(aa)
  BY <1>1, <1>2, <1>6, ElFrom
<1> QED
  BY <1>7 DEF m, aa

\* Both new coordinates vanish for no two points but those that differ by a point with
\* ordinate 1 or -1.
LEMMA MixedNotZero ==
  ASSUME NEW q \in Affine, NEW r \in Affine, NEW t \in Int, DifferBy(q, r, t),
         El(1 - t) # 0, El(1 + t) # 0
  PROVE  El(Mixed(q[2], r[2], t)) # 0
<1> DEFINE a == q[1]
           b == q[2]
           c == r[1]
           e == r[2]
           k == Cross(q, r)
           y == AffineAdd(q, r)[2]
           f == Mixed(b, e, t)
           g == Crossed(b, e, t)
           p == e + b
           n == e - b
<1> SUFFICES ASSUME El(f) = 0 PROVE FALSE
  OBVIOUS
<1>1. /\ a \in Int /\ b \in Int /\ c \in Int /\ e \in Int /\ d \in Int /\ k \in Int /\ y \in Int
      /\ k = d * ((a * b) * (c * e)) /\ El(Off(a, b)) = 0 /\ El(Off(c, e)) = 0
  <2>1. AffineAdd(q, r) \in Field \X Field
    BY SumIn
  <2>2. y \in Int
    BY <2>1, ElField
  <2> QED
    BY <2>2, AffineInts, AffineIs, CurveIs, CrossIs DEF Cross
<1>2. El(g) = El(y * f)
  BY RatioOfForms
<1>3. /\ El((1 + k) * t) = El(b * e - a * c)
  BY DEF DifferBy
<1> HIDE DEF a, b, c, e, y, k
<1>4. f \in Int /\ g \in Int /\ (1 - t) * (p * p) = f + g /\ (1 + t) * (n * n) = f - g
  BY <1>1, MixedIs
<1> HIDE DEF f, g
<1>5. El(g) = 0
  BY <1>1, <1>2, <1>4, ZeroTimes
<1>6. El(f + g) = 0 /\ El(f - g) = 0
  BY <1>4, <1>5, ZeroPlus
<1> DEFINE t0 == 1 - t
           t1 == 1 + t
           pp == p * p
           nn == n * n
<1>7. /\ t0 \in Int /\ t1 \in Int /\ p \in Int /\ n \in Int /\ pp \in Int /\ nn \in Int
  BY <1>1
<1>8. El(t0 * pp) = 0 /\ El(t1 * nn) = 0 /\ El(t0) # 0 /\ El(t1) # 0
  BY <1>4, <1>6
<1> HIDE DEF t0, t1
<1>9. El(pp) = 0 /\ El(nn) = 0
  <2> HIDE DEF pp, nn
  <2> QED
    BY <1>7, <1>8, ElZero
<1>10. El(p) = 0 /\ El(n) = 0
  <2> HIDE DEF p, n
  <2> QED
    BY <1>7, <1>9, ElZero
<1>11. El(b) = 0 /\ El(e) = 0
  <2>1. El(p + n) = 0 /\ El(p - n) = 0
    <3> HIDE DEF p, n
    <3> QED
      BY <1>7, <1>10, ZeroPlus
  <2>2. p + n = 2 * e /\ p - n = 2 * b
    BY <1>1
  <2>3. El(2 * e) = 0 /\ El(2 * b) = 0
    BY <2>1, <2>2
  <2> DEFINE w == 2
  <2>4. w \in Int /\ El(w) # 0
    BY MinusOne
  <2>5. El(w * e) = 0 /\ El(w * b) = 0
    BY <2>3
  <2> HIDE DEF w
  <2> QED
    BY <1>1, <2>4, <2>5, ElZero
\* With both ordinates 0 the abscissas are square roots of -1, and t is 1 or -1.
<1> DEFINE ac == a * c
           u == t * t
           v == ac * ac
<1>12. El(t) = El(-ac)
  <2> DEFINE f1 == (d * (a * b)) * c * t
             f2 == b
             x == (1 + k) * t
             z == b * e - a * c
  <2>1. x \in Int /\ z \in Int /\ El(x) = El(z)
    BY <1>1, <1>3
  <2>2. x = t + ((d * ((a * b) * c)) * t) * e
    BY <1>1
  <2>3. z = -ac + b * e
    BY <1>1
  <2> DEFINE g1 == (d * ((a * b) * c)) * t
             c1 == g1 * e
             c2 == b * e
             m == -ac
  <2>4. g1 \in Int /\ c1 \in Int /\ c2 \in Int /\ m \in Int /\ x = t + c1 /\ z = m + c2
    BY <1>1, <2>2, <2>3
  <2>5. El(c1) = 0 /\ El(c2) = 0
    <3> HIDE DEF g1
    <3> QED
      BY <1>1, <1>11, <2>4, ZeroTimes
  <2> HIDE DEF x, z, c1, c2, m, ac
  <2>6. El(x) = El(t) /\ El(z) = El(m)
    BY <2>1, <2>4, <2>5, ElFrom
  <2> QED
    BY <2>1, <2>6 DEF m
<1>13. El(u) = El(v)
  <2> DEFINE m == -ac
  <2>1. m \in Int /\ m * m = v
    BY <1>1
  <2>2. El(t) = El(m)
    BY <1>12
  <2> HIDE DEF m
  <2>3. El(t * t) = El(m * m)
    BY <2>1, <2>2, ElMul
  <2> QED
    BY <2>1, <2>3
<1>14. El(v) = El(1)
  <2> DEFINE aa == a * a
             cc == c * c
             m == -1
  <2>1. aa \in Int /\ cc \in Int /\ m \in Int /\ m * m = 1
    BY <1>1
  <2>2. El(aa) = El(-1) /\ El(cc) = El(-1)
    BY <1>1, <1>11, SquareOnAxis
  <2>3. El(aa) = El(m) /\ El(cc) = El(m)
    BY <2>2
  <2>4. v = aa * cc
    BY <1>1
  <2> HIDE DEF aa, cc, m
  <2>5. El(aa * cc) = El(m * m)
    BY <2>1, <2>3, ElMul
  <2> QED
    BY <2>1, <2>4, <2>5
<1>15. u \in Int /\ t0 * t1 = 1 - u
  BY DEF t0, t1
<1>16. El(1 - u) = 0
  <2> DEFINE o == 1
  <2>1. o \in Int /\ El(o) = El(u)
    BY <1>13, <1>14
  <2> HIDE DEF o, u
  <2>2. El(o - u) = 0
    BY <1>15, <2>1, ElSame
  <2> QED
    BY <2>2 DEF o
<1>17. El(t0 * t1) = 0
  BY <1>15, <1>16
<1> QED
  BY <1>7, <1>8, <1>17, ElZero

\* The second half of a step adds two points whose difference has the ordinate t, given
\* (1 + t) / (1 - t).
LEMMA LadderSum ==
  ASSUME NEW q \in Affine, NEW r \in Affine, NEW t \in Int, NEW v \in Int, NEW l,
         UForm(l.x2, l.z2, q[2]), UForm(l.x3, l.z3, r[2]),
         DifferBy(q, r, t), El(1 - t) # 0, El(1 + t) # 0, El((1 - t) * v) = El(1 + t)
  PROVE  LET n == LadderStep(v, l) IN UForm(n.x3, n.z3, AffineAdd(q, r)[2])
<1> DEFINE b == q[2]
           e == r[2]
           y == AffineAdd(q, r)[2]
           s == l.x2 + l.z2
           w == l.x3 + l.z3
           c == s * w
           D == c * c
           f == Mixed(b, e, t)
           g == Crossed(b, e, t)
           pp == (e + b) * (e + b)
           nn == (e - b) * (e - b)
           n == LadderStep(v, l)
           x == n.x3
           z == n.z3
           h == 1 - t
           k == 1 + t
<1>1. b \in Int /\ e \in Int /\ y \in Int
  <2>1. AffineAdd(q, r) \in Field \X Field
    BY SumIn
  <2> QED
    BY <2>1, AffineInts, ElField
<1>2. /\ l.x2 \in Int /\ l.z2 \in Int /\ l.x3 \in Int /\ l.z3 \in Int
      /\ El(s) # 0 /\ El(w) # 0 /\ El(l.x2 - l.z2) = El(b * s) /\ El(l.x3 - l.z3) = El(e * w)
  BY ElField DEF UForm
<1>3. s \in Int /\ w \in Int /\ c \in Int /\ D \in Int /\ El(c) # 0 /\ El(D) # 0
  <2>1. s \in Int /\ w \in Int /\ c \in Int /\ D \in Int
    BY <1>2
  <2> HIDE DEF s, w
  <2>2. El(c) # 0
    BY <1>2, <2>1, ElTimes
  <2> HIDE DEF c
  <2>3. El(D) # 0
    BY <2>1, <2>2, ElTimes
  <2> QED
    BY <2>1, <2>2, <2>3
<1>4. x = El(D * pp) /\ z = El(v * (D * nn))
  <2>1. fe_sub(l.x3, l.z3) = El(e * w) /\ fe_add(l.x2, l.z2) = El(s) /\ fe_add(l.x3, l.z3) = El(w)
        /\ fe_sub(l.x2, l.z2) = El(b * s)
    BY <1>2 DEF fe_sub, fe_add, El
  <2> DEFINE z3 == fe_mul(El(e * w), El(s))
             z2 == fe_mul(El(w), El(b * s))
  <2>2. x = fe_sq(fe_add(z3, z2)) /\ z = fe_mul(v, fe_sq(fe_sub(z3, z2)))
    BY <2>1 DEF LadderStep
  <2>3. /\ fe_sq(fe_add(z3, z2)) = El(((s * w) * (s * w)) * ((e + b) * (e + b)))
        /\ fe_mul(v, fe_sq(fe_sub(z3, z2))) = El(v * (((s * w) * (s * w)) * ((e - b) * (e - b))))
    <3>1. s \in Int /\ w \in Int /\ b \in Int /\ e \in Int /\ v \in Int
      BY <1>1, <1>3
    <3> HIDE DEF s, w, b, e
    <3> QED
      BY ONLY SMTT(60), <3>1, LadderSumForm
  <2> QED
    BY <2>2, <2>3
<1>5. f \in Int /\ g \in Int /\ h * pp = f + g /\ k * nn = f - g
  BY ZenonT(60), <1>1, MixedIs
<1>6. El(f) # 0
  BY MixedNotZero
<1>7. El(g) = El(y * f)
  BY RatioOfForms
<1>8. pp \in Int /\ nn \in Int /\ h \in Int /\ k \in Int /\ El(h) # 0 /\ El(h * v) = El(k)
  BY <1>1
<1> HIDE DEF n, x, z, y, f, g, D, pp, nn, h, k
<1>9. x \in Field /\ z \in Field /\ x \in Int /\ z \in Int
  <2>1. D * pp \in Int /\ v * (D * nn) \in Int
    BY <1>3, <1>8
  <2> QED
    BY <1>4, <2>1, ElIs
<1> DEFINE x0 == D * pp
           n0 == D * nn
           z0 == v * n0
           F == D * f
           G == D * g
<1>10. x0 \in Int /\ n0 \in Int /\ z0 \in Int /\ F \in Int /\ G \in Int /\ El(x) = El(x0) /\ El(z) = El(z0)
  <2>1. x0 \in Int /\ n0 \in Int /\ z0 \in Int /\ F \in Int /\ G \in Int
    BY <1>3, <1>5, <1>8
  <2> QED
    BY <1>4, <1>9, <2>1, ElIs
<1>11. h * x0 = F + G /\ El(h * z0) = El(F - G)
  <2>1. h * x0 = D * (h * pp) /\ h * z0 = (h * v) * n0 /\ k * n0 = D * (k * nn)
    BY <1>3, <1>8
  <2>2. h * x0 = F + G /\ k * n0 = F - G
    BY <1>3, <1>5, <2>1
  <2> DEFINE hv == h * v
  <2>3. hv \in Int /\ k \in Int /\ n0 \in Int /\ El(hv) = El(k)
    BY <1>8, <1>10
  <2> HIDE DEF hv, n0
  <2>4. El(hv * n0) = El(k * n0)
    BY ONLY ZenonT(60), <2>3, ElFactor
  <2> QED
    BY <2>1, <2>2, <2>4 DEF hv
<1>12. El(G) = El(y * F)
  <2> DEFINE yf == y * f
  <2>1. yf \in Int
    BY <1>1, <1>5
  <2>2. El(D * g) = El(D * yf)
    <3> HIDE DEF yf
    <3>1. El(g) = El(yf)
      BY <1>7 DEF yf
    <3> QED
      BY <1>3, <1>5, <2>1, <3>1, ElFactor
  <2>3. D * yf = y * F
    BY <1>1, <1>3, <1>5
  <2> QED
    BY <2>2, <2>3
<1>13. El(F) # 0
  BY <1>3, <1>5, <1>6, ElTimes
<1> HIDE DEF x0, z0, n0, F, G
<1> DEFINE u == h * x
           m == h * z
           d1 == F - G
           s1 == F + G
<1>14. u \in Int /\ m \in Int /\ d1 \in Int /\ s1 \in Int /\ El(u) = El(s1) /\ El(m) = El(d1)
  <2>1. u \in Int /\ m \in Int /\ d1 \in Int /\ s1 \in Int
    BY <1>8, <1>9, <1>10
  <2>2. El(h * x) = El(h * x0) /\ El(h * z) = El(h * z0)
    BY <1>8, <1>9, <1>10, ElFactor
  <2> QED
    BY <2>1, <2>2, <1>11
<1>15. El(u + m) = El(2 * F) /\ El(u - m) = El(2 * G)
  <2> HIDE DEF u, m, d1, s1
  <2>1. El(u + m) = El(s1 + d1) /\ El(u - m) = El(s1 - d1)
    BY <1>14, ElAdd, ElSub
  <2>2. s1 + d1 = 2 * F /\ s1 - d1 = 2 * G
    BY <1>10 DEF s1, d1
  <2> QED
    BY <2>1, <2>2
<1> DEFINE j == x + z
           i == x - z
           F2 == 2 * F
           G2 == 2 * G
           two == 2
<1>16. j \in Int /\ i \in Int /\ F2 \in Int /\ G2 \in Int /\ h * j = u + m /\ h * i = u - m /\ two \in Int /\ El(two) # 0
  BY <1>8, <1>9, <1>10, MinusOne
<1>17. El(h * j) = El(F2) /\ El(h * i) = El(G2)
  BY <1>15, <1>16
<1>18. El(F2) # 0
  <2> HIDE DEF two
  <2>1. El(two * F) # 0
    BY <1>10, <1>13, <1>16, ElTimes
  <2> QED
    BY <2>1 DEF two
<1>19. El(G2) = El(y * F2)
  <2> DEFINE yF == y * F
  <2>1. yF \in Int /\ El(G) = El(yF)
    BY <1>1, <1>10, <1>12
  <2> HIDE DEF yF, two
  <2>2. El(two * G) = El(two * yF)
    BY <1>10, <1>16, <2>1, ElFactor
  <2>3. 2 * yF = y * F2
    BY <1>1, <1>10 DEF yF
  <2> QED
    BY <2>2, <2>3 DEF two
<1> HIDE DEF j, i, F2, G2, u, m
<1>20. El(j) # 0
  <2> SUFFICES ASSUME El(j) = 0 PROVE FALSE
    OBVIOUS
  <2>1. El(h * j) = 0
    BY <1>8, <1>16, ZeroTimes
  <2> QED
    BY <1>17, <1>18, <2>1
<1>21. El(i) = El(y * j)
  <2> DEFINE hj == h * j
             yj == y * j
  <2>1. hj \in Int /\ yj \in Int /\ h * yj = y * hj
    BY <1>1, <1>8, <1>16
  <2>2. El(hj) = El(F2)
    BY <1>17
  <2> HIDE DEF hj, yj
  <2>3. El(y * hj) = El(y * F2)
    BY <1>1, <1>16, <2>1, <2>2, ElFactor
  <2>4. El(h * i) = El(h * yj)
    BY <1>17, <1>19, <2>1, <2>3
  <2>5. El(i) = El(yj)
    BY <1>8, <1>16, <2>1, <2>4, ElCancel
  <2> QED
    BY <2>5 DEF yj
<1> QED
  BY <1>9, <1>20, <1>21 DEF UForm, j, i, x, z, n, y

Pair(l, a, b) == UForm(l.x2, l.z2, a[2]) /\ UForm(l.x3, l.z3, b[2])

\* One step of the ladder: from two multiples of a point that are one apart to twice the
\* first and the sum of both.
LEMMA LadderAdvance ==
  ASSUME NEW p \in Affine, NEW v \in Int, NEW m \in Nat, NEW j \in Nat, NEW l,
         El(1 - p[2]) # 0, El(1 + p[2]) # 0, El((1 - p[2]) * v) = El(1 + p[2]),
         j = m + 1 \/ m = j + 1,
         Pair(l, Times(m, p), Times(j, p))
  PROVE  Pair(LadderStep(v, l), Times(2 * m, p), Times(m + j, p))
<1> DEFINE q == Times(m, p)
           r == Times(j, p)
           t == p[2]
           n == LadderStep(v, l)
<1>1. /\ q \in Affine /\ r \in Affine /\ t \in Int
      /\ q = Mult(m, p) /\ r = Mult(j, p) /\ m \in Int /\ j \in Int
  BY TimesIs, MultIs, AffineInts
<1>2. AffineAdd(q, q) = Times(2 * m, p)
  BY TimesTwice
<1>3. AffineAdd(q, r) = Times(m + j, p)
  <2>1. AffineAdd(q, r) = Mult(m + j, p)
    BY <1>1, MultSum
  <2>2. m + j \in Nat
    OBVIOUS
  <2> QED
    BY <2>1, <2>2, MultIs
<1>4. DifferBy(q, r, t)
  <2>1. AffineAdd(r, Negated(q)) = Mult(j - m, p)
    <3>1. Negated(q) = Mult(-m, p)
      BY <1>1, MultIs
    <3> DEFINE k == -m
    <3>2. k \in Int /\ j + k = j - m
      OBVIOUS
    <3> HIDE DEF k
    <3>3. Mult(j + k, p) = AffineAdd(Mult(j, p), Mult(k, p))
      BY <1>1, <3>2, MultSum
    <3> QED
      BY <1>1, <3>1, <3>2, <3>3 DEF k
  <2>2. Mult(j - m, p)[2] = t
    <3>1. CASE j = m + 1
      <4>1. j - m = 1
        BY <3>1
      <4> QED
        BY <4>1, MultIs
    <3>2. CASE m = j + 1
      <4>1. j - m = -1
        BY <3>2
      <4>2. Mult(-1, p) = Negated(p)
        BY MultIs, MultMinus
      <4> QED
        BY <4>1, <4>2, NegatedIs
    <3> QED
      BY <3>1, <3>2
  <2>3. El((1 + Cross(q, r)) * AffineAdd(r, Negated(q))[2]) = El(q[2] * r[2] - q[1] * r[1])
    BY <1>1, DifferenceIs
  <2> QED
    BY <2>1, <2>2, <2>3 DEF DifferBy
<1>5. UForm(l.x2, l.z2, q[2]) /\ UForm(l.x3, l.z3, r[2])
  BY DEF Pair
<1>6. El(1 - t) # 0 /\ El(1 + t) # 0 /\ El((1 - t) * v) = El(1 + t)
  OBVIOUS
<1> HIDE DEF q, r, t
<1>7. UForm(n.x3, n.z3, AffineAdd(q, r)[2])
  BY <1>1, <1>4, <1>5, <1>6, LadderSum
<1>8. UForm(n.x2, n.z2, AffineAdd(q, q)[2])
  <2> DEFINE d2 == fe_sub(l.x2, l.z2)
             s2 == fe_add(l.x2, l.z2)
             bb == fe_sq(d2)
             aa == fe_sq(s2)
             e  == fe_sub(aa, bb)
  <2>1. n.x2 = fe_mul(aa, bb) /\ n.z2 = fe_mul(e, fe_add(bb, fe_mul(e, a24)))
    BY DEF LadderStep
  <2>2. UForm(fe_mul(aa, bb), fe_mul(e, fe_add(bb, fe_mul(e, a24))), AffineAdd(q, q)[2])
    BY <1>1, <1>5, LadderDouble
  <2> QED
    BY <2>1, <2>2
<1> QED
  BY <1>2, <1>3, <1>7, <1>8 DEF Pair

\* The quotient of both coordinates is the u coordinate of the point.
LEMMA UFormIs ==
  ASSUME NEW q \in Affine, NEW x, NEW z, UForm(x, z, q[2])
  PROVE  fe_mul(x, fe_invert(z)) = MontgomeryU(q)
<1> DEFINE y == q[2]
           s == x + z
           ys == y * s
           k == 1 - y
           h == 1 + y
           i == fe_invert(fe_sub(1, y))
<1>1. /\ x \in Field /\ z \in Field /\ x \in Int /\ z \in Int /\ El(z) = z /\ y \in Int /\ s \in Int /\ ys \in Int
      /\ El(s) # 0 /\ El(x - z) = El(ys)
  BY ElField, AffineInts DEF UForm
<1>2. k \in Int /\ h \in Int /\ h * s = s + ys /\ k * s = s - ys
  BY <1>1
<1>3. El(h * s) = El(2 * x) /\ El(k * s) = El(2 * z)
  <2> DEFINE w == x - z
  <2>1. w \in Int /\ El(w) = El(ys) /\ s + w = 2 * x /\ s - w = 2 * z
    BY <1>1
  <2> HIDE DEF w, s, ys
  <2>2. El(s + w) = El(s + ys) /\ El(s - w) = El(s - ys)
    BY ZenonT(60), <1>1, <2>1, ElPlus
  <2> QED
    BY <1>2, <2>1, <2>2
<1>4. MontgomeryU(q) = fe_mul(El(h), fe_invert(El(k)))
  BY DEF MontgomeryU, fe_add, fe_sub, El
<1>5. /\ El(h) \in Int /\ El(k) \in Int /\ El(El(k)) = El(k) /\ El(El(h)) = El(h)
      /\ fe_invert(El(k)) = fe_invert(k) /\ fe_invert(z) \in Int /\ fe_invert(k) \in Int
  <2>1. El(h) \in Int /\ El(k) \in Int /\ El(El(k)) = El(k) /\ El(El(h)) = El(h)
    BY <1>2, ElIs
  <2> HIDE DEF k
  <2> QED
    BY <1>1, <1>2, <2>1, InvertSame, InvertIs
<1> HIDE DEF y, s, ys, k, h
<1> DEFINE two == 2
<1>6. two \in Int /\ El(two) # 0
  BY MinusOne
<1>7. CASE El(k) = 0
  <2>1. El(two * z) = 0
    BY <1>1, <1>2, <1>3, <1>7, ZeroTimes
  <2> HIDE DEF two
  <2>2. El(z) = 0
    BY <1>1, <1>6, <2>1, ElZero
  <2>3. fe_invert(z) = 0 /\ fe_invert(El(k)) = 0
    BY <1>1, <1>2, <1>5, <1>7, <2>2, InvertIs
  <2>4. fe_mul(x, 0) = El(0) /\ fe_mul(El(h), 0) = El(0)
    BY <1>1, <1>5 DEF fe_mul, El
  <2> QED
    BY <1>4, <2>3, <2>4
<1>8. CASE El(k) # 0
  <2> HIDE DEF two
  <2>1. El(z) # 0
    <3> SUFFICES ASSUME El(z) = 0 PROVE FALSE
      OBVIOUS
    <3>1. El(two * z) = 0
      BY <1>1, <1>6, ZeroTimes
    <3>2. El(k * s) = 0
      BY <1>3, <3>1 DEF two
    <3> QED
      BY <1>1, <1>2, <1>8, <3>2, ElZero
  <2> DEFINE u == fe_mul(El(h), fe_invert(El(k)))
  <2>2. u \in Field /\ u \in Int /\ El(u) = u
    <3>1. fe_invert(El(k)) \in Int
      BY <1>5
    <3> HIDE DEF k, h
    <3>2. u \in Field
      BY <1>5, <3>1, FeIs
    <3> QED
      BY <3>2, ElField
  <2>3. El(h) = El(k * u)
    <3> DEFINE k0 == El(k)
               h0 == El(h)
    <3>1. k0 \in Int /\ h0 \in Int /\ El(k0) # 0 /\ El(h0) = h0 /\ u = fe_mul(h0, fe_invert(k0))
      BY <1>5, <1>8
    <3>2. El(k0 * u) = El(k * u)
      BY <1>2, <2>2, ElIn
    <3> HIDE DEF k0, h0, u
    <3>3. fe_mul(h0, fe_invert(k0)) = El(u)
      BY <2>2, <3>1
    <3>4. El(h0) = El(k0 * u)
      BY ZenonT(60), <2>2, <3>1, <3>3, Quotient
    <3> QED
      BY <3>1, <3>2, <3>4 DEF h0
  <2> HIDE DEF u
  <2>4. El(two * x) = El(two * (z * u))
    <3> DEFINE ku == k * u
               z2 == two * z
               ks == k * s
    <3>1. ku \in Int /\ z2 \in Int /\ ks \in Int /\ ku * s = ks * u /\ z2 * u = two * (z * u)
      BY <1>1, <1>2, <1>6, <2>2
    <3>2. El(h) = El(ku) /\ El(ks) = El(z2)
      BY <1>3, <2>3 DEF two
    <3> HIDE DEF ku, z2, ks
    <3>3. El(h * s) = El(ku * s) /\ El(ks * u) = El(z2 * u)
      BY SMTT(60), <1>1, <1>2, <2>2, <3>1, <3>2, ElFactor
    <3> QED
      BY <1>3, <3>1, <3>3 DEF two
  <2>5. El(x) = El(z * u)
    <3> DEFINE zu == z * u
    <3>1. zu \in Int /\ El(two * x) = El(two * zu)
      BY <1>1, <2>2, <2>4
    <3> HIDE DEF zu
    <3>2. El(x) = El(zu)
      BY <1>1, <1>6, <3>1, ElCancel
    <3> QED
      BY <3>2 DEF zu
  <2>6. fe_mul(x, fe_invert(z)) = El(u)
    BY <1>1, <2>1, <2>2, <2>5, Quotient
  <2> QED
    BY <1>4, <2>2, <2>6 DEF u
<1> QED
  BY <1>7, <1>8


FirstRung(v) == [l |-> [x2 |-> 1, z2 |-> 0, x3 |-> v, z3 |-> 1], swap |-> 0]
NextRung(v, st, b) == [l |-> LadderStep(v, Swapped(st.l, (st.swap + b) % 2)), swap |-> b]
Laddering(g, s, v, n) ==
  g = [i \in 0 .. n |-> IF i = 0 THEN FirstRung(v)
                        ELSE NextRung(v, g[i - 1], scalar_bit(s, n - i))]
LastRung(st) == LET end == Swapped(st.l, st.swap) IN fe_mul(end.x2, fe_invert(end.z2))

LEMMA LadderUnfold ==
  ASSUME NEW s, NEW u, NEW n
  PROVE  scalarmult(s, u, n) = LastRung((CHOOSE g : Laddering(g, s, fe_frombytes(u), n))[n])
BY Zenon DEF scalarmult, Laddering, FirstRung, NextRung, LastRung

Rungs == [l : [x2 : Field, z2 : Field, x3 : Field, z3 : Field], swap : {0, 1}]

LEMMA RungIn ==
  ASSUME NEW v \in Field, NEW st \in Rungs, NEW b \in {0, 1}
  PROVE  FirstRung(v) \in Rungs /\ NextRung(v, st, b) \in Rungs
<1> DEFINE l == Swapped(st.l, (st.swap + b) % 2)
           n == LadderStep(v, l)
<1>1. l.x2 \in Field /\ l.z2 \in Field /\ l.x3 \in Field /\ l.z3 \in Field
  BY DEF Rungs, Swapped
<1>2. l.x2 \in Int /\ l.z2 \in Int /\ l.x3 \in Int /\ l.z3 \in Int /\ v \in Int /\ a24 \in Int
  BY <1>1, ElField, A24Is
<1> HIDE DEF l
<1> DEFINE d3 == fe_sub(l.x3, l.z3)
           d2 == fe_sub(l.x2, l.z2)
           s2 == fe_add(l.x2, l.z2)
           s3 == fe_add(l.x3, l.z3)
           z3 == fe_mul(d3, s2)
           z2 == fe_mul(s3, d2)
           bb == fe_sq(d2)
           aa == fe_sq(s2)
           e  == fe_sub(aa, bb)
           ea == fe_mul(e, a24)
           be == fe_add(bb, ea)
           x  == fe_sub(z3, z2)
           y  == fe_add(z3, z2)
           xx == fe_sq(x)
<1>3. d3 \in Int /\ d2 \in Int /\ s2 \in Int /\ s3 \in Int
  BY <1>2, FeIs, ElField
<1> HIDE DEF d3, d2, s2, s3
<1>4. z3 \in Int /\ z2 \in Int /\ bb \in Int /\ aa \in Int
  BY <1>3, FeIs, FeOne, ElField
<1> HIDE DEF z3, z2, bb, aa
<1>5. e \in Int /\ x \in Int /\ y \in Int
  BY <1>4, FeIs, ElField
<1> HIDE DEF e, x, y
<1>6. ea \in Int /\ xx \in Int
  BY <1>2, <1>5, FeIs, FeOne, ElField
<1> HIDE DEF ea, xx
<1>7. be \in Int
  BY <1>4, <1>6, FeIs, ElField
<1> HIDE DEF be
<1>8. fe_mul(aa, bb) \in Field /\ fe_mul(e, be) \in Field /\ fe_sq(y) \in Field /\ fe_mul(v, xx) \in Field
  BY <1>2, <1>4, <1>5, <1>6, <1>7, FeIs, FeOne
<1>9. n = [x2 |-> fe_mul(aa, bb), z2 |-> fe_mul(e, be), x3 |-> fe_sq(y), z3 |-> fe_mul(v, xx)]
  BY DEF LadderStep, d3, d2, s2, s3, z3, z2, bb, aa, e, ea, be, x, y, xx
<1>10. n \in [x2 : Field, z2 : Field, x3 : Field, z3 : Field]
  BY <1>8, <1>9
<1>11. NextRung(v, st, b) = [l |-> n, swap |-> b]
  BY DEF NextRung, l
<1> HIDE DEF n
<1>12. NextRung(v, st, b) \in Rungs
  BY <1>10, <1>11 DEF Rungs
<1>13. FirstRung(v) \in Rungs
  BY OneIs DEF FirstRung, Rungs
<1> QED
  BY <1>12, <1>13

LEMMA LadderExists ==
  ASSUME NEW s \in Nat, NEW v \in Field, NEW n \in 0 .. Bits
  PROVE  \E g : Laddering(g, s, v, n)
<1> DEFINE F == [i \in 1 .. n |-> [st \in Rungs |-> NextRung(v, st, scalar_bit(s, n - i))]]
<1>1. n \in Nat /\ FirstRung(v) \in Rungs
  <2>1. [l |-> [x2 |-> 0, z2 |-> 0, x3 |-> 0, z3 |-> 0], swap |-> 0] \in Rungs
    BY OneIs DEF Rungs
  <2> QED
    BY <2>1, RungIn, TwosAre
<1>2. \A i \in 1 .. n, st \in Rungs :
        F[i][st] = NextRung(v, st, scalar_bit(s, n - i)) /\ F[i][st] \in Rungs
  <2> TAKE i \in 1 .. n, st \in Rungs
  <2>1. n - i \in 0 .. (Bits - 1)
    BY TwosAre
  <2>2. scalar_bit(s, n - i) \in {0, 1}
    BY <2>1, BitIs
  <2>3. NextRung(v, st, scalar_bit(s, n - i)) \in Rungs
    BY <2>2, RungIn
  <2> QED
    BY <2>3
<1> HIDE DEF F
<1>3. PICK g : Follows(g, Rungs, FirstRung(v), F, n)
  <2>1. StaysIn(Rungs, F, n)
    BY <1>2 DEF StaysIn
  <2> QED
    BY <2>1, <1>1, Recursion
<1>4. g \in [0 .. n -> Rungs] /\ g[0] = FirstRung(v) /\ \A i \in 1 .. n : g[i] = F[i][g[i - 1]]
  BY <1>3 DEF Follows
<1>5. \A i \in 0 .. n : g[i] = IF i = 0 THEN FirstRung(v) ELSE NextRung(v, g[i - 1], scalar_bit(s, n - i))
  <2> TAKE i \in 0 .. n
  <2>1. CASE i = 0
    BY <1>4, <2>1
  <2>2. CASE i # 0
    <3>1. i \in 1 .. n /\ i - 1 \in 0 .. n
      BY <1>1, <2>2
    <3> QED
      BY <1>2, <1>4, <2>2, <3>1
  <2> QED
    BY <2>1, <2>2
<1>6. g = [i \in 0 .. n |-> g[i]]
  BY <1>4
<1>7. g = [i \in 0 .. n |-> IF i = 0 THEN FirstRung(v) ELSE NextRung(v, g[i - 1], scalar_bit(s, n - i))]
  BY <1>5, <1>6, Zenon
<1> QED
  BY <1>7, Zenon DEF Laddering

\* What a rung's two pairs of coordinates are after the swap that is left over.
LEMMA SwappedIs ==
  ASSUME NEW l, NEW swap \in {0, 1}, NEW b \in {0, 1}
  PROVE  LET w == Swapped(l, swap)
             n == Swapped(l, (swap + b) % 2)
         IN /\ b = 0 => n.x2 = w.x2 /\ n.z2 = w.z2 /\ n.x3 = w.x3 /\ n.z3 = w.z3
            /\ b = 1 => n.x2 = w.x3 /\ n.z2 = w.z3 /\ n.x3 = w.x2 /\ n.z3 = w.z2
<1>1. (swap + b) % 2 = IF swap = b THEN 0 ELSE 1
  OBVIOUS
<1> QED
  BY <1>1 DEF Swapped

\* A bit of the scalar: m becomes 2 m or 2 m + 1.
LEMMA RungNext ==
  ASSUME NEW p \in Affine, NEW v \in Int, NEW st \in Rungs, NEW b \in {0, 1}, NEW m \in Nat,
         El(1 - p[2]) # 0, El(1 + p[2]) # 0, El((1 - p[2]) * v) = El(1 + p[2]),
         Pair(Swapped(st.l, st.swap), Times(m, p), Times(m + 1, p))
  PROVE  LET n == NextRung(v, st, b) IN
         Pair(Swapped(n.l, n.swap), Times(2 * m + b, p), Times(2 * m + b + 1, p))
<1> DEFINE l == Swapped(st.l, (st.swap + b) % 2)
           w == Swapped(st.l, st.swap)
           k == LadderStep(v, l)
           n == NextRung(v, st, b)
<1>1. st.swap \in {0, 1} /\ m + 1 \in Nat
  BY DEF Rungs
<1>2. n.l = k /\ n.swap = b
  BY DEF NextRung
<1>3. /\ b = 0 => l.x2 = w.x2 /\ l.z2 = w.z2 /\ l.x3 = w.x3 /\ l.z3 = w.z3
      /\ b = 1 => l.x2 = w.x3 /\ l.z2 = w.z3 /\ l.x3 = w.x2 /\ l.z3 = w.z2
  BY <1>1, SwappedIs
<1> DEFINE q == Times(m, p)
           r == Times(m + 1, p)
           j == m + 1
<1>4. UForm(w.x2, w.z2, q[2]) /\ UForm(w.x3, w.z3, r[2])
  BY DEF Pair
<1>5. CASE b = 0
  <2>1. Pair(l, q, r)
    <3> HIDE DEF l, w, q, r
    <3> QED
      BY <1>3, <1>4, <1>5 DEF Pair
  <2>2. j \in Nat /\ j = m + 1 /\ r = Times(j, p)
    BY <1>1
  <2> HIDE DEF j
  <2>3. Pair(k, Times(2 * m, p), Times(m + j, p))
    <3> HIDE DEF l
    <3> QED
      BY <2>1, <2>2, LadderAdvance
  <2>4. Swapped(n.l, n.swap) = k
    BY <1>2, <1>5 DEF Swapped
  <2>5. 2 * m + b = 2 * m /\ 2 * m + b + 1 = m + j
    BY <1>5, <2>2
  <2> QED
    BY <2>3, <2>4, <2>5
<1>6. CASE b = 1
  <2>1. Pair(l, r, q)
    <3> HIDE DEF l, w, q, r
    <3> QED
      BY <1>3, <1>4, <1>6 DEF Pair
  <2>2. j \in Nat /\ j = m + 1 /\ r = Times(j, p)
    BY <1>1
  <2> HIDE DEF j
  <2>3. Pair(k, Times(2 * j, p), Times(j + m, p))
    <3> HIDE DEF l
    <3> QED
      BY <2>1, <2>2, LadderAdvance
  <2>4. /\ Swapped(n.l, n.swap).x2 = k.x3 /\ Swapped(n.l, n.swap).z2 = k.z3
        /\ Swapped(n.l, n.swap).x3 = k.x2 /\ Swapped(n.l, n.swap).z3 = k.z2
    BY <1>2, <1>6 DEF Swapped
  <2>5. 2 * m + b = j + m /\ 2 * m + b + 1 = 2 * j
    BY <1>6, <2>2
  <2> DEFINE e == Swapped(n.l, n.swap)
  <2>6. Pair(e, Times(j + m, p), Times(2 * j, p))
    <3> HIDE DEF e, k
    <3> QED
      BY <2>3, <2>4 DEF Pair, e
  <2> QED
    BY <2>5, <2>6
<1> QED
  BY <1>5, <1>6

\* From the u coordinate back to the ordinate: u - 1 = y (u + 1).
LEMMA UnitPair ==
  ASSUME NEW y \in Int, NEW v \in Int, El(1 - y) # 0, El((1 - y) * v) = El(1 + y)
  PROVE  El(v + 1) # 0 /\ El(v - 1) = El(y * (v + 1))
<1> DEFINE h == 1 - y
           k == 1 + y
           a == v - 1
           b == v + 1
           hv == h * v
           yb == y * b
           two == 2
           ty == two * y
<1>1. h \in Int /\ k \in Int /\ a \in Int /\ b \in Int /\ El(h) # 0 /\ El(h * v) = El(k)
  OBVIOUS
<1>2. /\ hv \in Int /\ yb \in Int /\ two \in Int /\ ty \in Int /\ El(two) # 0
      /\ h * b = hv + h /\ h * a = hv - h /\ k + h = two /\ k - h = ty /\ El(hv) = El(k)
  BY <1>1, MinusOne
<1>3. El(h * b) = El(two) /\ El(h * a) = El(ty)
  <2> HIDE DEF hv, two, ty, h, k, a, b
  <2>1. El(hv + h) = El(k + h) /\ El(hv - h) = El(k - h)
    <3>1. hv \in Int /\ h \in Int /\ k \in Int /\ El(hv) = El(k)
      BY <1>1, <1>2
    <3>2. El(hv + h) = El(k + h)
      BY ONLY ZenonT(60), <3>1, ElPlus
    <3>3. El(hv - h) = El(k - h)
      BY ONLY ZenonT(60), <3>1, ElPlus
    <3> QED
      BY ONLY <3>2, <3>3
  <2> QED
    BY <1>2, <2>1
<1>4. El(b) # 0
  <2> SUFFICES ASSUME El(b) = 0 PROVE FALSE
    OBVIOUS
  <2> HIDE DEF h, b, two
  <2>1. El(h * b) = 0
    BY <1>1, ZeroTimes
  <2> QED
    BY <1>2, <1>3, <2>1
<1>5. El(a) = El(yb)
  <2> DEFINE hb == h * b
  <2>1. hb \in Int /\ h * yb = y * hb /\ y * two = ty
    BY <1>1
  <2> HIDE DEF h, a, yb, two, ty
  <2>2. El(hb) = El(two)
    BY <1>3
  <2> HIDE DEF hb, b
  <2>3. El(y * hb) = El(y * two)
    BY <1>1, <1>2, <2>1, <2>2, ElFactor
  <2>4. El(h * a) = El(h * yb)
    BY <1>3, <2>1, <2>3
  <2> QED
    BY <1>1, <1>2, <2>4, ElCancel
<1> QED
  BY <1>4, <1>5

\* What the ladder starts from: the zero point and the point itself.
LEMMA FirstPair ==
  ASSUME NEW p \in Affine, NEW v \in Field, El(1 - p[2]) # 0, El((1 - p[2]) * v) = El(1 + p[2])
  PROVE  LET f == FirstRung(v) IN
         /\ f \in Rungs /\ Pair(Swapped(f.l, f.swap), Times(0, p), Times(0 + 1, p))
<1> DEFINE f == FirstRung(v)
<1>1. p[2] \in Int /\ v \in Int
  BY AffineInts, ElField
<1>2. Times(0, p) = Origin /\ Times(0 + 1, p) = p
  BY TimesIs, MultIs
<1>3. Swapped(f.l, f.swap) = [x2 |-> 1, z2 |-> 0, x3 |-> v, z3 |-> 1]
  BY DEF FirstRung, Swapped
<1>4. f \in Rungs
  BY OneIs DEF FirstRung, Rungs
<1>5. UForm(1, 0, Origin[2])
  BY OneIs DEF UForm, Origin
<1>6. UForm(v, 1, p[2])
  BY <1>1, UnitPair, OneIs DEF UForm
<1> QED
  BY <1>2, <1>3, <1>4, <1>5, <1>6 DEF Pair

\* A point with an ordinate other than 1 and -1 is multiplied by as many bits as there are.
LEMMA LadderRuns ==
  ASSUME NEW p \in Affine, NEW v \in Field, NEW s \in Nat, NEW n \in 0 .. Bits, s < 2 ^ n,
         El(1 - p[2]) # 0, El(1 + p[2]) # 0, El((1 - p[2]) * v) = El(1 + p[2])
  PROVE  scalarmult(s, v, n) = MontgomeryU(Times(s, p))
<1> DEFINE g == CHOOSE f : Laddering(f, s, v, n)
           w(i) == Swapped(g[i].l, g[i].swap)
           At(i) == High(s, n - i)
           Good(i) == g[i] \in Rungs /\ Pair(w(i), Times(At(i), p), Times(At(i) + 1, p))
           T == {i \in 0 .. n : Good(i)}
<1>1. n \in Nat /\ v \in Int /\ fe_frombytes(v) = v
  <2>1. v \in Int /\ El(v) = v
    BY ElField
  <2> QED
    BY <2>1, TwosAre, FieldRead
<1>2. Laddering(g, s, v, n)
  BY LadderExists
<1>3. scalarmult(s, v, n) = LastRung(g[n])
  BY <1>1, LadderUnfold
<1> HIDE DEF g
<1>4. /\ g[0] = FirstRung(v)
      /\ \A i \in 1 .. n : g[i] = NextRung(v, g[i - 1], scalar_bit(s, n - i))
  <2>1. 0 \in 0 .. n /\ \A i \in 1 .. n : i \in 0 .. n /\ i # 0
    BY <1>1
  <2>2. \A i \in 0 .. n : g[i] = IF i = 0 THEN FirstRung(v) ELSE NextRung(v, g[i - 1], scalar_bit(s, n - i))
    BY <1>2, Zenon DEF Laddering
  <2> QED
    BY <2>1, <2>2
<1>5. Good(0)
  <2>1. At(0) = 0
    BY <1>1, HighIs
  <2> QED
    BY <1>4, <2>1, FirstPair
<1>6. ASSUME NEW i \in 0 .. (n - 1), Good(i)
      PROVE  Good(i + 1)
  <2> DEFINE b == scalar_bit(s, n - (i + 1))
             m == At(i)
             st == g[i]
             r == NextRung(v, st, b)
  <2>1. i + 1 \in 1 .. n /\ (i + 1) - 1 = i /\ n - (i + 1) \in 0 .. (Bits - 1) /\ n - i = (n - (i + 1)) + 1
        /\ n - i \in 0 .. Bits
    BY <1>1, TwosAre
  <2>2. b \in {0, 1} /\ m \in Nat /\ At(i + 1) = 2 * m + b
    BY <2>1, HighIs, BitIs
  <2>3. g[i + 1] = r
    BY <1>4, <2>1
  <2>4. st \in Rungs /\ Pair(Swapped(st.l, st.swap), Times(m, p), Times(m + 1, p))
    BY <1>6
  <2>5. r \in Rungs
    BY <2>2, <2>4, RungIn
  <2> HIDE DEF b, m, st
  <2>6. Pair(Swapped(r.l, r.swap), Times(2 * m + b, p), Times(2 * m + b + 1, p))
    BY <1>1, <2>2, <2>4, RungNext
  <2> QED
    BY <2>2, <2>3, <2>5, <2>6
<1>7. \A i \in 0 .. n : Good(i)
  <2>1. 0 \in T /\ \A i \in 0 .. (n - 1) : i \in T => i + 1 \in T
    <3>1. 0 \in 0 .. n /\ \A i \in 0 .. (n - 1) : i + 1 \in 0 .. n
      BY <1>1
    <3> HIDE DEF Good
    <3> QED
      BY <1>5, <1>6, <3>1
  <2> HIDE DEF T
  <2>2. \A i \in 0 .. n : i \in T
    BY <1>1, <2>1, InductionTo
  <2> QED
    BY <2>2 DEF T
<1>8. At(n) = s /\ n \in 0 .. n
  <2>1. n - n = 0 /\ 0 \in 0 .. Bits
    BY <1>1, TwosAre
  <2> QED
    BY <1>1, <2>1, HighIs
<1>9. Times(s, p) \in Affine /\ UForm(w(n).x2, w(n).z2, Times(s, p)[2])
  BY <1>7, <1>8, TimesIs DEF Pair
<1>10. LastRung(g[n]) = fe_mul(w(n).x2, fe_invert(w(n).z2))
  BY DEF LastRung
<1> HIDE DEF w
<1> QED
  BY <1>3, <1>9, <1>10, UFormIs


LEMMA AxisIs ==
  ASSUME NEW p \in Affine, El(1 - p[2]) = 0 \/ El(1 + p[2]) = 0
  PROVE  p[1] = 0
<1> DEFINE x == p[1]
           y == p[2]
           o == Off(x, y)
           h == 1 - y
           k == 1 + y
           hk == h * k
           xx == x * x
           n == -1
<1>1. x \in Int /\ y \in Int /\ El(x) = x /\ El(o) = 0 /\ d \in Int /\ x \in Field
  BY AffineInts, AffineIs, CurveIs
<1>2. o \in Int /\ h \in Int /\ k \in Int /\ hk \in Int /\ xx \in Int /\ n \in Int
  BY <1>1 DEF Off
<1>3. El(hk) = 0
  <2>1. El(h) = 0 \/ El(k) = 0
    OBVIOUS
  <2> HIDE DEF h, k
  <2> QED
    BY <1>2, <2>1, ZeroTimes
\* -(1 + d) x^2 = o + (1 - y^2) (1 - d x^2)
<1> DEFINE f == 1 - d * xx
           g == hk * f
           e == 1 + d
<1>4. f \in Int /\ g \in Int /\ e \in Int
  BY <1>1, <1>2
<1>5. -(e * xx) = o + g
  <2>1. o = (y * y - xx) - (1 + d * ((x * y) * (x * y)))
    BY <1>1 DEF Off
  <2>2. (x * y) * (x * y) = xx * (y * y)
    BY <1>1
  <2>3. hk = 1 - y * y
    BY <1>1
  <2> DEFINE yy == y * y
             dx == d * xx
  <2>4. yy \in Int /\ dx \in Int /\ d * (xx * yy) = dx * yy /\ e * xx = xx + dx
    BY <1>1, <1>2
  <2>5. o = (yy - xx) - (1 + dx * yy) /\ hk = 1 - yy /\ f = 1 - dx
    BY <2>1, <2>2, <2>3, <2>4
  <2>6. (1 - yy) * (1 - dx) = ((1 - yy) - dx) + dx * yy
    <3> HIDE DEF yy, dx
    <3> QED
      BY <2>4
  <2> DEFINE w == dx * yy
             ex == e * xx
  <2>7. w \in Int /\ ex \in Int /\ ex = xx + dx /\ g = ((1 - yy) - dx) + w /\ o = (yy - xx) - (1 + w)
    <3>1. w \in Int /\ ex \in Int
      BY <1>2, <1>4, <2>4
    <3> QED
      BY <2>4, <2>5, <2>6, <3>1
  <2> HIDE DEF w, ex, g, o, yy, dx, xx
  <2>8. -ex = o + g
    BY <1>2, <2>4, <2>7
  <2> QED
    BY <2>8 DEF ex
<1>6. El(e * xx) = 0
  <2> DEFINE ex == e * xx
             m == -ex
             z == 0
  <2>1. ex \in Int /\ m \in Int /\ z \in Int
    BY <1>2, <1>4
  <2>2. El(o + g) = 0
    <3>1. El(g) = 0
      <4> HIDE DEF hk, f
      <4> QED
        BY <1>2, <1>3, <1>4, ZeroTimes
    <3> HIDE DEF o, g
    <3> QED
      BY <1>1, <1>2, <1>4, <3>1, ZeroPlus
  <2>3. El(m) = 0 /\ El(z) = 0
    BY <1>5, <2>2, OneIs
  <2>4. z - m = ex
    BY <2>1
  <2> HIDE DEF m, z, ex
  <2>5. El(z - m) = 0
    BY <2>1, <2>3, ZeroPlus
  <2> QED
    BY <2>4, <2>5 DEF ex
<1>7. El(e) # 0
  <2> SUFFICES ASSUME El(e) = 0 PROVE FALSE
    OBVIOUS
  <2> DEFINE ss == sqrtm1 * sqrtm1
  <2>1. ss \in Int /\ El(ss) = El(n)
    BY MinusOne
  <2>2. d = n + e /\ El(d) = d
    BY <1>1, CurveIs
  <2> HIDE DEF n, e
  <2>3. El(d) = El(n)
    BY <1>1, <1>2, <1>4, <2>2, ElFrom
  <2> QED
    BY <2>1, <2>2, <2>3, CurveIs, MinusOne
<1>8. El(xx) = 0
  <2> HIDE DEF e, xx
  <2> QED
    BY <1>2, <1>4, <1>6, <1>7, ElZero
<1>9. El(x) = 0
  BY <1>1, <1>8, ElZero
<1> QED
  BY <1>1, <1>9

LEMMA AxisSum ==
  ASSUME NEW p \in Affine, NEW q \in Affine, p[1] = 0, q[1] = 0
  PROVE  AffineAdd(p, q)[1] = 0
<1> DEFINE r == AffineAdd(p, q)
<1>1. r \in Field \X Field /\ Sums(p, q, r)
  BY SumIn
<1>2. p[2] \in Int /\ q[2] \in Int /\ d \in Int /\ r[1] \in Int /\ El(r[1]) = r[1]
  BY <1>1, AffineInts, CurveIs, ElField
<1>3. Cross(p, q) = 0
  <2>1. d * ((0 * p[2]) * (0 * q[2])) = 0
    BY <1>2
  <2> QED
    BY <2>1 DEF Cross
<1> HIDE DEF r
<1>4. (1 + Cross(p, q)) * r[1] = r[1] /\ p[1] * q[2] + q[1] * p[2] = 0
  BY <1>2, <1>3
<1>5. El(r[1]) = El(0)
  BY <1>1, <1>4 DEF Sums
<1> QED
  BY <1>2, <1>5, OneIs DEF r

LEMMA AxisTimes ==
  ASSUME NEW p \in Affine, p[1] = 0, NEW s \in Nat
  PROVE  Times(s, p)[1] = 0
<1> DEFINE T == {n \in Nat : Times(n, p)[1] = 0}
<1>1. 0 \in T
  BY TimesIs DEF Origin
<1>2. \A n \in Nat : n \in T => n + 1 \in T
  <2> SUFFICES ASSUME NEW n \in Nat, Times(n, p)[1] = 0
               PROVE  Times(n + 1, p)[1] = 0
    OBVIOUS
  <2>1. Times(n, p) \in Affine /\ Times(n + 1, p) = AffineAdd(Times(n, p), p)
    BY TimesIs, TimesNext
  <2> QED
    BY <2>1, AxisSum
<1>3. \A n \in Nat : n \in T
  <2> HIDE DEF T
  <2> QED
    BY <1>1, <1>2, InductionOver
<1> QED
  BY <1>3

LEMMA AxisU ==
  ASSUME NEW q \in Affine, q[1] = 0
  PROVE  MontgomeryU(q) = 0
<1> DEFINE y == q[2]
           h == 1 - y
           k == 1 + y
<1>1. y \in Int /\ El(Off(0, y)) = 0 /\ d \in Int
  BY AffineInts, AffineIs, CurveIs
<1>2. h \in Int /\ k \in Int /\ El(h) \in Int /\ El(k) \in Int /\ El(El(h)) = El(h) /\ El(El(k)) = El(k)
  BY <1>1, ElIs
<1>3. MontgomeryU(q) = fe_mul(El(k), fe_invert(El(h)))
  BY DEF MontgomeryU, fe_add, fe_sub, El
<1>4. El(h * k) = 0
  <2> DEFINE hk == h * k
             o == Off(0, y)
             z == 0
  <2>1. hk \in Int /\ o \in Int /\ z \in Int /\ El(z) = 0 /\ hk = z - o
    <3>1. o = (y * y - 0 * 0) - (1 + d * ((0 * y) * (0 * y)))
      BY <1>1 DEF Off
    <3>2. d * ((0 * y) * (0 * y)) = 0 /\ h * k = 1 - y * y
      BY <1>1
    <3> HIDE DEF h, k
    <3>3. o = y * y - 1 /\ hk = 1 - y * y /\ y * y \in Int
      BY <1>1, <3>1, <3>2
    <3> QED
      BY <3>3, OneIs
  <2> HIDE DEF hk, o, z
  <2>2. El(z - o) = 0
    BY <1>1, <2>1, ZeroPlus DEF o
  <2> QED
    BY <2>1, <2>2 DEF hk
<1>5. El(h) = 0 \/ El(k) = 0
  <2> HIDE DEF h, k
  <2> QED
    BY <1>2, <1>4, ElZero
<1>6. CASE El(h) = 0
  <2>1. fe_invert(El(h)) = 0
    BY <1>2, <1>6, InvertIs
  <2>2. fe_mul(El(k), 0) = El(0)
    BY <1>2 DEF fe_mul, El
  <2> QED
    BY <1>3, <2>1, <2>2, OneIs
<1>7. CASE El(k) = 0
  <2>1. fe_invert(El(h)) \in Int
    BY <1>2, InvertIs
  <2> DEFINE i == fe_invert(El(h))
  <2> HIDE DEF i
  <2>2. fe_mul(0, i) = El(0)
    BY <2>1 DEF fe_mul, El, i
  <2> QED
    BY <1>3, <1>7, <2>2, OneIs DEF i
<1> QED
  BY <1>5, <1>6, <1>7

Flat(st) == (st.l.x2 = 0 \/ st.l.z2 = 0) /\ (st.l.x3 = 0 \/ st.l.z3 = 0)

\* With u = 0 one step makes both denominators 0, and they stay 0.
LEMMA FlatStep ==
  ASSUME NEW st \in Rungs, Flat(st), NEW b \in {0, 1}
  PROVE  LET n == NextRung(0, st, b) IN n.l.z2 = 0 /\ n.l.z3 = 0
<1> DEFINE l == Swapped(st.l, (st.swap + b) % 2)
           n == LadderStep(0, l)
           d3 == fe_sub(l.x3, l.z3)
           d2 == fe_sub(l.x2, l.z2)
           s2 == fe_add(l.x2, l.z2)
           s3 == fe_add(l.x3, l.z3)
           bb == fe_sq(d2)
           aa == fe_sq(s2)
           e  == fe_sub(aa, bb)
           x  == l.x2
           z  == l.z2
<1>1. /\ l.x2 \in Field /\ l.z2 \in Field /\ l.x3 \in Field /\ l.z3 \in Field
      /\ l.x2 = 0 \/ l.z2 = 0
  BY DEF Rungs, Swapped, Flat
<1>2. l.x2 \in Int /\ l.z2 \in Int /\ l.x3 \in Int /\ l.z3 \in Int /\ a24 \in Int /\ x \in Int /\ z \in Int
  BY <1>1, ElField, A24Is
<1>3. n.z2 = fe_mul(e, fe_add(bb, fe_mul(e, a24)))
      /\ n.z3 = fe_mul(0, fe_sq(fe_sub(fe_mul(d3, s2), fe_mul(s3, d2))))
  BY DEF LadderStep
<1>4. aa = bb /\ aa \in Int
  <2>1. d2 = El(x - z) /\ s2 = El(x + z)
    BY DEF fe_sub, fe_add, El
  <2>2. (x - z) * (x - z) = (x + z) * (x + z) /\ x - z \in Int /\ x + z \in Int
    BY <1>1, <1>2
  <2> DEFINE f == x - z
             g == x + z
  <2>3. f \in Int /\ g \in Int /\ f * f = g * g /\ El(f) \in Int /\ El(g) \in Int /\ d2 = El(f) /\ s2 = El(g)
    BY <2>1, <2>2, ElIs
  <2> HIDE DEF f, g, d2, s2
  <2>4. fe_sq(El(f)) = El(f * f) /\ fe_sq(El(g)) = El(g * g)
    <3>1. fe_sq(El(f)) = El(El(f) * El(f)) /\ fe_sq(El(g)) = El(El(g) * El(g))
      BY <2>3, FeOne
    <3>2. El(El(f)) = El(f) /\ El(El(g)) = El(g)
      BY <2>3, ElIs
    <3>a. f \in Int /\ El(f) \in Int /\ El(El(f)) = El(f)
      BY ONLY <2>3, <3>2
    <3>b. El(El(f) * El(f)) = El(f * f)
      BY ONLY <3>a, ElMul
    <3>c. g \in Int /\ El(g) \in Int /\ El(El(g)) = El(g)
      BY ONLY <2>3, <3>2
    <3>d. El(El(g) * El(g)) = El(g * g)
      BY ONLY <3>c, ElMul
    <3>3. El(El(f) * El(f)) = El(f * f) /\ El(El(g) * El(g)) = El(g * g)
      BY ONLY <3>b, <3>d
    <3> QED
      BY <3>1, <3>3
  <2>5. El(f * f) \in Int /\ f * f \in Int
    BY <2>3, ElIs
  <2> QED
    BY <2>3, <2>4, <2>5
<1> HIDE DEF aa, bb, d2, d3, s2, s3, x, z, l, n
<1>5. e = 0
  <2>1. e = El(aa - bb) /\ aa - bb = 0
    BY <1>4 DEF fe_sub, El
  <2> QED
    BY <2>1, OneIs
<1>6. n.z2 = 0
  <2> HIDE DEF e
  <2>1. fe_mul(0, a24) = El(0)
    BY <1>2 DEF fe_mul, El
  <2>2. fe_add(bb, 0) \in Int
    BY <1>4, FeIs, ElField
  <2> DEFINE w == fe_add(bb, 0)
  <2> HIDE DEF w
  <2>3. fe_mul(0, w) = El(0)
    BY <2>2 DEF fe_mul, El, w
  <2> QED
    BY <1>3, <1>5, <2>1, <2>3, OneIs DEF w
<1>7. n.z3 = 0
  <2> DEFINE i == fe_sub(fe_mul(d3, s2), fe_mul(s3, d2))
             w == fe_sq(i)
  <2>1. d3 \in Int /\ d2 \in Int /\ s2 \in Int /\ s3 \in Int
    BY <1>2, FeIs, ElField DEF d3, d2, s2, s3
  <2>2. fe_mul(d3, s2) \in Int /\ fe_mul(s3, d2) \in Int
    BY <2>1, FeIs, ElField
  <2>3. i \in Int
    BY <2>2, FeIs, ElField
  <2> HIDE DEF i
  <2>4. w \in Int
    BY <2>3, FeOne, ElField
  <2> HIDE DEF w
  <2>5. fe_mul(0, w) = El(0)
    BY <2>4 DEF fe_mul, El
  <2> QED
    BY <1>3, <2>5, OneIs DEF w, i
<1>8. NextRung(0, st, b).l = n
  BY DEF NextRung, n, l
<1> QED
  BY <1>6, <1>7, <1>8

LEMMA LadderOnAxis ==
  ASSUME NEW s \in Nat, NEW n \in 1 .. Bits
  PROVE  scalarmult(s, 0, n) = 0
<1> DEFINE g == CHOOSE f : Laddering(f, s, 0, n)
           Good(i) == g[i] \in Rungs /\ Flat(g[i])
           T == {i \in 0 .. n : Good(i)}
<1>1. n \in Nat /\ 0 \in Field /\ fe_frombytes(0) = 0 /\ n \in 0 .. Bits
  BY TwosAre, OneIs, FieldRead
<1>2. Laddering(g, s, 0, n)
  BY <1>1, LadderExists
<1>3. scalarmult(s, 0, n) = LastRung(g[n])
  BY <1>1, LadderUnfold
<1> HIDE DEF g
<1>4. /\ g[0] = FirstRung(0)
      /\ \A i \in 1 .. n : g[i] = NextRung(0, g[i - 1], scalar_bit(s, n - i))
  <2>1. 0 \in 0 .. n /\ \A i \in 1 .. n : i \in 0 .. n /\ i # 0
    BY <1>1
  <2>2. \A i \in 0 .. n : g[i] = IF i = 0 THEN FirstRung(0) ELSE NextRung(0, g[i - 1], scalar_bit(s, n - i))
    BY <1>2, Zenon DEF Laddering
  <2> QED
    BY <2>1, <2>2
<1>5. Good(0)
  <2>1. FirstRung(0) \in Rungs
    BY OneIs DEF FirstRung, Rungs
  <2>2. Flat(FirstRung(0))
    BY DEF Flat, FirstRung
  <2> QED
    BY <1>4, <2>1, <2>2
<1>6. ASSUME NEW i \in 0 .. (n - 1), Good(i)
      PROVE  Good(i + 1) /\ g[i + 1].l.z2 = 0 /\ g[i + 1].l.z3 = 0
  <2> DEFINE b == scalar_bit(s, n - (i + 1))
             st == g[i]
             r == NextRung(0, st, b)
  <2>1. i + 1 \in 1 .. n /\ (i + 1) - 1 = i /\ n - (i + 1) \in 0 .. (Bits - 1)
    BY <1>1, TwosAre
  <2>2. b \in {0, 1}
    BY <2>1, BitIs
  <2>3. g[i + 1] = r
    BY <1>4, <2>1
  <2>4. st \in Rungs /\ Flat(st)
    BY <1>6
  <2> HIDE DEF b, st
  <2>5. r \in Rungs
    BY <1>1, <2>2, <2>4, RungIn
  <2>6. r.l.z2 = 0 /\ r.l.z3 = 0
    BY <2>2, <2>4, FlatStep
  <2> QED
    BY <2>3, <2>5, <2>6 DEF Flat
<1>7. \A i \in 0 .. n : Good(i)
  <2>1. 0 \in T /\ \A i \in 0 .. (n - 1) : i \in T => i + 1 \in T
    <3>1. 0 \in 0 .. n /\ \A i \in 0 .. (n - 1) : i + 1 \in 0 .. n
      BY <1>1
    <3> HIDE DEF Good
    <3> QED
      BY <1>5, <1>6, <3>1
  <2> HIDE DEF T
  <2>2. \A i \in 0 .. n : i \in T
    BY <1>1, <2>1, InductionTo
  <2> QED
    BY <2>2 DEF T
<1> DEFINE w == Swapped(g[n].l, g[n].swap)
<1>8. w.z2 = 0 /\ w.x2 \in Int
  <2>1. n - 1 \in 0 .. (n - 1) /\ n - 1 \in 0 .. n /\ (n - 1) + 1 = n /\ n \in 0 .. n
    BY <1>1
  <2> HIDE DEF Good
  <2>2. g[n].l.z2 = 0 /\ g[n].l.z3 = 0 /\ g[n] \in Rungs
    BY <1>6, <1>7, <2>1 DEF Good
  <2>3. w.z2 = 0 /\ w.x2 \in Field
    BY <2>2 DEF Swapped, Rungs
  <2> QED
    BY <2>3, ElField
<1>9. LastRung(g[n]) = fe_mul(w.x2, fe_invert(w.z2))
  BY DEF LastRung
<1> HIDE DEF w
<1>10. fe_invert(0) = 0
  BY InvertIs, OneIs
<1>11. fe_mul(w.x2, 0) = El(0)
  BY <1>8 DEF fe_mul, El
<1> QED
  BY <1>3, <1>8, <1>9, <1>10, <1>11, OneIs

\* The u coordinate times 1 - y is 1 + y.
LEMMA UIs ==
  ASSUME NEW p \in Affine
  PROVE  /\ MontgomeryU(p) \in Field /\ MontgomeryU(p) \in Int /\ El(MontgomeryU(p)) = MontgomeryU(p)
         /\ El(1 - p[2]) # 0 => El((1 - p[2]) * MontgomeryU(p)) = El(1 + p[2])
<1> DEFINE y == p[2]
           h == 1 - y
           k == 1 + y
           v == MontgomeryU(p)
           i == fe_invert(El(h))
<1>1. y \in Int /\ h \in Int /\ k \in Int /\ El(h) \in Int /\ El(k) \in Int /\ El(El(h)) = El(h) /\ El(El(k)) = El(k)
  <2>1. y \in Int
    BY AffineInts
  <2> QED
    BY <2>1, ElIs
<1>2. v = fe_mul(El(k), i)
  BY DEF MontgomeryU, fe_add, fe_sub, El
<1>3. i \in Int
  BY <1>1, InvertIs
<1>4. v \in Field /\ v \in Int /\ El(v) = v
  <2> HIDE DEF i, k, h
  <2>1. fe_mul(El(k), i) \in Field
    BY <1>1, <1>3, FeIs
  <2> QED
    BY <1>2, <2>1, ElField
<1>5. ASSUME El(h) # 0
      PROVE  El(h * v) = El(k)
  <2> DEFINE h0 == El(h)
             k0 == El(k)
  <2>1. h0 \in Int /\ k0 \in Int /\ El(h0) # 0 /\ El(k0) = k0 /\ v = fe_mul(k0, fe_invert(h0))
    BY <1>1, <1>2, <1>5
  <2>2. El(h0 * v) = El(h * v)
    BY <1>1, <1>4, ElIn
  <2> HIDE DEF h0, k0, v
  <2>3. fe_mul(k0, fe_invert(h0)) = El(v)
    BY <1>4, <2>1
  <2>4. El(k0) = El(h0 * v)
    BY <1>4, <2>1, <2>3, Quotient
  <2> QED
    BY <2>1, <2>2, <2>4 DEF k0
<1> QED
  BY <1>4, <1>5

\* The ladder multiplies every point by every scalar of its width.
LEMMA LadderIs ==
  ASSUME NEW p \in Affine, NEW s \in Nat, NEW n \in 1 .. Bits, s < 2 ^ n
  PROVE  scalarmult(s, MontgomeryU(p), n) = MontgomeryU(Times(s, p))
<1> DEFINE v == MontgomeryU(p)
<1>1. v \in Field /\ (El(1 - p[2]) # 0 => El((1 - p[2]) * v) = El(1 + p[2]))
  BY UIs
<1>2. n \in 0 .. Bits
  BY TwosAre
<1>3. CASE El(1 - p[2]) = 0 \/ El(1 + p[2]) = 0
  <2>1. p[1] = 0
    BY <1>3, AxisIs
  <2>2. Times(s, p) \in Affine /\ Times(s, p)[1] = 0
    BY <2>1, TimesIs, AxisTimes
  <2>3. v = 0 /\ MontgomeryU(Times(s, p)) = 0
    BY <2>1, <2>2, AxisU
  <2> QED
    BY <2>3, LadderOnAxis
<1>4. CASE El(1 - p[2]) # 0 /\ El(1 + p[2]) # 0
  <2> HIDE DEF v
  <2>1. scalarmult(s, v, n) = MontgomeryU(Times(s, p))
    BY <1>1, <1>2, <1>4, LadderRuns
  <2> QED
    BY <2>1 DEF v
<1> QED
  BY <1>3, <1>4


LEMMA ToMontgomery ==
  ASSUME NEW p \in Affine
  PROVE  crypto_eddsa_to_x25519(Encoded(p)) = MontgomeryU(p)
<1>1. fe_frombytes(p[2]) = p[2]
  BY AffineIs, FieldRead
<1> QED
  BY <1>1 DEF crypto_eddsa_to_x25519, Encoded, MontgomeryU

\* The ordinate comes back; the zero point, which has no u coordinate, becomes the other
\* point with abscissa 0.
LEMMA FromMontgomery ==
  ASSUME NEW p \in Affine
  PROVE  crypto_x25519_to_eddsa(MontgomeryU(p)).y = IF p = Origin THEN P - 1 ELSE p[2]
<1> DEFINE v == MontgomeryU(p)
           y == p[2]
           a == v - 1
           b == v + 1
<1>1. y \in Int /\ y \in Field /\ El(y) = y /\ v \in Int /\ El(v) = v /\ a \in Int /\ b \in Int
  BY UIs, AffineInts, AffineIs
<1>2. crypto_x25519_to_eddsa(v).y = fe_mul(El(a), fe_invert(El(b)))
  <2>1. fe_frombytes(v) = v
    BY UIs, FieldRead
  <2> HIDE DEF v
  <2> QED
    BY <2>1 DEF crypto_x25519_to_eddsa, fe_sub, fe_add, El
<1>3. /\ El(a) \in Int /\ El(b) \in Int /\ El(El(a)) = El(a) /\ El(El(b)) = El(b)
  <2> HIDE DEF a, b
  <2> QED
    BY <1>1, ElIs
<1>4. CASE El(1 - y) = 0
  <2>1. p[1] = 0
    BY <1>4, AxisIs
  <2>2. y = 1
    <3> DEFINE o == 1
               h == o - y
    <3>1. o \in Int /\ h \in Int /\ El(h) = 0 /\ El(o) = 1
      BY <1>1, <1>4, OneIs
    <3> HIDE DEF o
    <3>2. El(o) = El(y)
      BY <1>1, <3>1, ElSame
    <3> QED
      BY <1>1, <3>1, <3>2
  <2>3. p = Origin
    BY <2>1, <2>2, AffineInts DEF Origin
  <2>4. v = 0
    BY <2>1, AxisU
  <2>5. El(a) = P - 1 /\ El(b) = 1
    <3>1. a = -1 /\ b = 1
      BY <2>4
    <3> QED
      BY <3>1, MinusOne, OneIs
  <2>6. fe_invert(1) = 1
    <3>1. 1 \in Int /\ El(1 * 1) = 1 /\ El(1) = 1
      BY OneIs
    <3> QED
      BY <3>1, InvertIf
  <2>7. fe_mul(P - 1, 1) = P - 1
    <3>1. P - 1 \in Int /\ (P - 1) * 1 = P - 1
      BY PrimeIs
    <3>2. El(P - 1) = P - 1
      BY <1>3, <2>5
    <3> QED
      BY <3>1, <3>2 DEF fe_mul, El
  <2> QED
    BY <1>2, <2>3, <2>5, <2>6, <2>7
<1>5. CASE El(1 - y) # 0
  <2>1. El((1 - y) * v) = El(1 + y)
    BY <1>5, UIs
  <2>2. El(b) # 0 /\ El(a) = El(y * b)
    <3> HIDE DEF v, y
    <3> QED
      BY <1>1, <1>5, <2>1, UnitPair
  <2>3. p # Origin
    <3>1. y # 1
      <4>1. 1 - 1 = 0
        OBVIOUS
      <4> QED
        BY <1>5, <4>1, OneIs
    <3> QED
      BY <3>1 DEF Origin
  <2>4. fe_mul(El(a), fe_invert(El(b))) = y
    <3> DEFINE a0 == El(a)
               b0 == El(b)
               yb == y * b
    <3>1. a0 \in Int /\ b0 \in Int /\ El(b0) # 0 /\ El(a0) = a0 /\ yb = b * y
      BY <1>1, <1>3, <2>2
    <3>2. El(b0 * y) = El(b * y)
      BY <1>1, ElIn
    <3> HIDE DEF y
    <3>3. El(a0) = El(b0 * y)
      BY <2>2, <3>1, <3>2
    <3> HIDE DEF a0, b0
    <3>4. fe_mul(a0, fe_invert(b0)) = El(y)
      BY <1>1, <3>1, <3>3, Quotient
    <3> QED
      BY <1>1, <3>4 DEF a0, b0
  <2> QED
    BY <1>2, <2>3, <2>4
<1> QED
  BY <1>4, <1>5

\* The exchange multiplies by the trimmed secret.
LEMMA X25519Is ==
  ASSUME NEW p \in Affine, NEW s \in Nat
  PROVE  crypto_x25519(s, MontgomeryU(p)) = MontgomeryU(Times(crypto_eddsa_trim_scalar(s), p))
<1> DEFINE k == crypto_eddsa_trim_scalar(s)
           n == Bits - 1
<1>1. k \in Nat /\ k < 2 ^ n
  BY TrimIs, ScalarIs
<1>2. n \in 1 .. Bits
  BY TwosAre
<1> HIDE DEF k, n
<1>3. scalarmult(k, MontgomeryU(p), n) = MontgomeryU(Times(k, p))
  BY <1>1, <1>2, LadderIs
<1> QED
  BY <1>3 DEF crypto_x25519, k, n

-----------------------------------------------------------------------------
(* Division by a private key.                                              *)


\* The residue modulo L, as a term of its own.
Residue(x) == x % L

LEMMA ResidueIs ==
  ASSUME NEW x \in Nat
  PROVE  /\ Residue(x) \in 0 .. (L - 1) /\ Residue(x) \in Nat /\ Residue(Residue(x)) = Residue(x)
         /\ x < L => Residue(x) = x
         /\ L \in Nat \ {0} /\ L > 1 /\ Residue(x) = x % L
<1>1. L \in Nat \ {0} /\ L > 1
  BY BarrettRIs, ScalarLAssumption
<1>2. x % L \in 0 .. (L - 1)
  BY <1>1, ModStep
<1> DEFINE r == x % L
<1>3. r \in 0 .. (L - 1) /\ r \in Nat
  BY <1>1, <1>2
<1> HIDE DEF r
<1>4. r % L = r
  BY <1>1, <1>3, Remainders
<1>5. x < L => x % L = x
  BY <1>1, Remainders
<1> QED
  BY <1>1, <1>3, <1>4, <1>5 DEF r, Residue

\* A factor may be replaced by one with the same residue.
LEMMA ResidueFactor ==
  ASSUME NEW a \in Nat, NEW b \in Nat, NEW c \in Nat, Residue(a) = Residue(b)
  PROVE  Residue(a * c) = Residue(b * c) /\ Residue(c * a) = Residue(c * b)
<1>1. L \in Nat \ {0}
  BY BarrettRIs
<1>2. ((a % L) * c) % L = (a * c) % L
  BY <1>1, ModProduct
<1>3. ((b % L) * c) % L = (b * c) % L
  BY <1>1, ModProduct
<1>4. a * c = c * a /\ b * c = c * b
  OBVIOUS
<1> QED
  BY <1>2, <1>3, <1>4 DEF Residue

ModDoublings(g, x) ==
  g = [k \in Nat |-> IF k = 0 THEN 1
                     ELSE LET half == g[k \div 2]
                          IN (((half * half) % L) * (IF k % 2 = 1 THEN x ELSE 1)) % L]

LEMMA PowerModUnfold == ASSUME NEW x, NEW n PROVE PowerModL(x, n) = (CHOOSE g : ModDoublings(g, x))[n]
BY Zenon DEF PowerModL, ModDoublings

LEMMA PowerModIs ==
  ASSUME NEW x \in Nat
  PROVE  /\ PowerModL(x, 0) = 1 /\ \A n \in Nat : PowerModL(x, n) \in 0 .. (L - 1)
         /\ \A n \in Nat \ {0} :
              PowerModL(x, n) = (((PowerModL(x, n \div 2) * PowerModL(x, n \div 2)) % L)
                                   * (IF n % 2 = 1 THEN x ELSE 1)) % L
<1> DEFINE R == 0 .. (L - 1)
           next(k, s) == (((s * s) % L) * (IF k % 2 = 1 THEN x ELSE 1)) % L
           F == [k \in Nat \ {0} |-> [s \in R |-> next(k, s)]]
           h == CHOOSE g : ModDoublings(g, x)
<1>l. L \in Nat \ {0} /\ L > 1
  BY BarrettRIs, ScalarLAssumption
<1>1. ASSUME NEW k \in Nat \ {0}, NEW s \in R
      PROVE  next(k, s) \in R
  <2> DEFINE q == (s * s) % L
             e == IF k % 2 = 1 THEN x ELSE 1
  <2>1. s * s \in Nat
    BY <1>l
  <2>2. q \in Nat /\ e \in Nat
    BY <1>l, <2>1, ModStep
  <2> HIDE DEF q, e
  <2>3. q * e \in Int
    BY <2>2
  <2>4. (q * e) % L \in R
    BY <1>l, <2>3, ModStep
  <2> QED
    BY <2>4 DEF q, e
<1> HIDE DEF next
<1>2. HalvesIn(R, F)
  BY <1>1 DEF HalvesIn
<1>3. PICK g : ByHalves(g, R, 1, F)
  <2>1. 1 \in R
    BY <1>l
  <2> HIDE DEF F, R
  <2>2. QED
    BY <1>2, <2>1, HalvingRecursion, Zenon
<1>4. \A n \in Nat \ {0} : n \div 2 \in Nat
  OBVIOUS
<1>5. \A n \in Nat \ {0} : g[n] = next(n, g[n \div 2])
  <2>1. \A n \in Nat \ {0} : g[n \div 2] \in R
    BY <1>3, <1>4 DEF ByHalves
  <2>2. QED
    BY <1>3, <2>1 DEF ByHalves
<1> HIDE DEF F
<1>6. \A e : ModDoublings(e, x) <=> e = [k \in Nat |-> IF k = 0 THEN 1 ELSE next(k, e[k \div 2])]
  BY Zenon DEF ModDoublings, next
<1>7. g = [k \in Nat |-> IF k = 0 THEN 1 ELSE next(k, g[k \div 2])]
  BY <1>3, <1>5 DEF ByHalves
<1>8. ModDoublings(h, x)
  BY <1>6, <1>7, Zenon
<1> HIDE DEF h
<1>9. h = [k \in Nat |-> IF k = 0 THEN 1 ELSE next(k, h[k \div 2])]
  BY <1>6, <1>8, Zenon
<1>10. h[0] = 1 /\ \A n \in Nat \ {0} : h[n] = next(n, h[n \div 2])
  BY <1>9
<1>11. \A n : PowerModL(x, n) = h[n]
  BY PowerModUnfold DEF h
<1> DEFINE T == {n \in Nat : h[n] \in R}
<1>12. \A n \in Nat : n \in T
  <2>1. ASSUME NEW n \in Nat, \A k \in 0 .. (n - 1) : k \in T
        PROVE  n \in T
    <3>1. CASE n = 0
      BY <1>10, <3>1, <1>l
    <3>2. CASE n # 0
      <4>1. n \in Nat \ {0} /\ n \div 2 \in 0 .. (n - 1)
        BY <3>2, Half
      <4>2. h[n \div 2] \in R
        BY <2>1, <4>1
      <4> HIDE DEF R
      <4>3. QED
        BY <1>1, <1>10, <4>1, <4>2
    <3>3. QED
      BY <3>1, <3>2
  <2> HIDE DEF T
  <2>2. QED
    BY <2>1, InductionBelow
<1>13. \A n \in Nat \ {0} : PowerModL(x, n) = next(n, PowerModL(x, n \div 2))
  BY <1>10, <1>11
<1>14. QED
  BY <1>10, <1>11, <1>12, <1>13 DEF next

\* One more bit of the exponent.
LEMMA PowerModNext ==
  ASSUME NEW x \in Nat, NEW m \in Nat, NEW b \in {0, 1}
  PROVE  LET p == PowerModL(x, m)
         IN /\ p \in Nat /\ p < L
            /\ PowerModL(x, 2 * m + b) = (((p * p) % L) * (IF b = 1 THEN x ELSE 1)) % L
<1> DEFINE p == PowerModL(x, m)
           n == 2 * m + b
<1>l. L \in Nat \ {0} /\ L > 1
  BY BarrettRIs, ScalarLAssumption
<1>1. p \in Nat /\ p < L
  <2>1. p \in 0 .. (L - 1)
    BY PowerModIs
  <2> QED
    BY <1>l, <2>1
<1>2. n \in Nat /\ n \div 2 = m /\ n % 2 = b
  BY Doubled
<1>3. CASE n # 0
  <2>1. PowerModL(x, n) = (((PowerModL(x, n \div 2) * PowerModL(x, n \div 2)) % L)
                                   * (IF n % 2 = 1 THEN x ELSE 1)) % L
    BY <1>2, <1>3, PowerModIs
  <2> QED
    BY <1>1, <1>2, <2>1
<1>4. CASE n = 0
  <2>1. m = 0 /\ b = 0
    BY <1>4
  <2>2. p = 1 /\ PowerModL(x, n) = 1
    BY <1>4, <2>1, PowerModIs
  <2>3. 1 * 1 = 1 /\ 1 % L = 1
    BY <1>l, Remainders
  <2> QED
    BY <1>1, <2>1, <2>2, <2>3
<1> QED
  BY <1>3, <1>4


Residues == {t \in Seq(Limb) : Len(t) = N /\ Val(t, N) < L}
MontgomeryProduct(a, b) == redc(multiply(ZeroLimbs(2 * N), a, b))

LEMMA ResiduesAre ==
  ASSUME NEW t
  PROVE  t \in Residues <=> IsLimbs(t, N) /\ Val(t, N) \in 0 .. (L - 1)
<1>1. ASSUME IsLimbs(t, N) PROVE Val(t, N) \in Nat
  <2>1. N \in Nat /\ N \in 0 .. Top
    BY Limbed
  <2>2. Naturals(t, N)
    BY <1>1, <2>1, LimbsAre
  <2> QED
    BY <2>1, <2>2, ValNat
<1>2. L \in Nat \ {0}
  BY BarrettRIs
<1>3. t \in Residues <=> IsLimbs(t, N) /\ Val(t, N) < L
  BY Zenon DEF Residues, IsLimbs
<1> QED
  BY <1>1, <1>2, <1>3

LEMMA MontgomeryProductIs ==
  ASSUME NEW a \in Residues, NEW b \in Residues
  PROVE  LET t == MontgomeryProduct(a, b)
         IN /\ t \in Residues /\ Val(a, N) \in Nat /\ Val(b, N) \in Nat
            /\ (Val(t, N) * (Weight[N] % L)) % L = (Val(a, N) * Val(b, N)) % L
<1> DEFINE z == ZeroLimbs(2 * N)
           m == multiply(z, a, b)
           x == Val(a, N)
           y == Val(b, N)
           W == Weight[N]
<1>1. /\ IsLimbs(a, N) /\ x \in 0 .. (L - 1) /\ IsLimbs(b, N) /\ y \in 0 .. (L - 1)
      /\ L \in Nat \ {0} /\ W \in Nat /\ L < W
  <2>1. L \in Nat \ {0} /\ W \in Nat /\ L < W
    BY SizeOfL, BarrettRIs
  <2> QED
    BY <2>1, ResiduesAre
<1>2. N \in Nat /\ 2 * N \in Nat /\ 2 * N \in 0 .. Top /\ N + N = 2 * N /\ N + N <= Top
  BY Limbed
<1>3. IsLimbs(z, 2 * N) /\ Val(z, 2 * N) = 0 /\ \A i \in 1 .. 2 * N : z[i] = 0
  BY <1>2, Zeros
<1>4. AllLimbs(a, N) /\ AllLimbs(b, N)
  BY <1>1, <1>2, LimbsAre
<1> HIDE DEF z
<1>5. MayMultiply(z, a, b)
  <2>1. \A i \in 1 .. N : z[N + i] = 0
    BY <1>2, <1>3
  <2>2. IsLimbs(z, N + N)
    BY <1>2, <1>3
  <2> QED
    BY <1>2, <1>4, <2>1, <2>2 DEF MayMultiply, Factors
<1>6. IsLimbs(m, 2 * N) /\ Val(m, 2 * N) = Val(z, 2 * N) + x * y
  BY <1>5, MultiplyIs
<1> HIDE DEF m
<1>7. x * y \in Nat /\ x * y < L * W
  <2> HIDE DEF x, y, W
  <2>1. x * y <= x * L
    BY <1>1
  <2>2. x * L <= L * L /\ L * L < L * W
    <3>1. L * L < L * W
      BY <1>1
    <3>2. x * L <= L * L
      BY <1>1
    <3> QED
      BY <3>1, <3>2
  <2>3. x * y \in Nat /\ x * L \in Nat /\ L * L \in Nat /\ L * W \in Nat
    BY <1>1
  <2> DEFINE xy == x * y
             xl == x * L
             ll == L * L
             lw == L * W
  <2> HIDE DEF xy, xl, ll, lw
  <2>4. xy \in Nat /\ xl \in Nat /\ ll \in Nat /\ lw \in Nat /\ xy <= xl /\ xl <= ll /\ ll < lw
    BY <2>1, <2>2, <2>3 DEF xy, xl, ll, lw
  <2>5. xy < lw
    BY ONLY <2>4
  <2> QED
    BY <2>4, <2>5 DEF xy, lw
<1>8. Val(m, 2 * N) = x * y
  BY <1>3, <1>6, <1>7
<1>9. IsReducible(m)
  BY <1>6, <1>7, <1>8 DEF IsReducible
<1>10. /\ IsLimbs(redc(m), N) /\ Val(redc(m), N) \in 0 .. (L - 1)
       /\ (Val(redc(m), N) * (Weight[N] % L)) % L = Val(m, 2 * N) % L
  BY <1>9, RedcIs
<1>11. redc(m) \in Residues
  BY <1>10, ResiduesAre
<1>12. MontgomeryProduct(a, b) = redc(m)
  BY DEF MontgomeryProduct, m, z
<1> QED
  BY <1>1, <1>8, <1>10, <1>11, <1>12

\* The weight of N limbs has an inverse modulo L.
LEMMA WeightCancels ==
  ASSUME NEW a \in Nat, NEW b \in Nat, Residue(a * Weight[N]) = Residue(b * Weight[N])
  PROVE  Residue(a) = Residue(b)
<1> DEFINE W == Weight[N]
           K == MontgomeryK
           q == (K * L) \div W
<1>1. L \in Nat \ {0} /\ L > 1 /\ W \in Nat \ {0} /\ K \in Nat /\ (K * L) % W = W - 1
  BY SizeOfL, BarrettRIs, MontgomeryKIs, ScalarLAssumption DEF IsMontgomery
<1>2. K * L \in Nat
  BY <1>1
<1>3. K * L = W * q + (W - 1) /\ q \in Nat
  <2> DEFINE x == K * L
  <2> HIDE DEF x, W, K
  <2>1. x = W * (x \div W) + (x % W) /\ x \div W \in Nat
    BY <1>1, <1>2, LowAndHigh DEF x
  <2> QED
    BY <1>1, <2>1 DEF x
<1> DEFINE e == q + 1
<1>4. e \in Nat /\ W * e = L * K + 1
  <2> HIDE DEF W, K, q
  <2>1. W * e = W * q + W
    BY <1>1, <1>3
  <2>2. K * L = L * K
    BY <1>1
  <2> QED
    BY <1>1, <1>2, <1>3, <2>1, <2>2
<1>5. Residue(W * e) = 1
  <2> DEFINE o == 1
  <2>0. L \in Nat \ {0} /\ K \in Int /\ o \in Int
    BY <1>1
  <2> HIDE DEF o
  <2>1. (L * K + o) % L = o % L
    BY ONLY <2>0, Shifted
  <2> USE DEF o
  <2> QED
    BY <1>1, <1>4, <2>1, Remainders DEF Residue
<1> HIDE DEF W, e, K, q
<1>7. \A c \in Nat : Residue((c * W) * e) = Residue(c)
  <2> TAKE c \in Nat
  <2> DEFINE g == W * e
             o == 1
  <2>1. (c * W) * e = c * g /\ c * o = c /\ g \in Nat /\ o \in Nat
    BY <1>1, <1>4
  <2>2. Residue(g) = Residue(o)
    BY <1>1, <1>5, ResidueIs
  <2> HIDE DEF g, o
  <2>3. Residue(c * g) = Residue(c * o)
    BY <2>1, <2>2, ResidueFactor
  <2> QED
    BY <2>1, <2>3
<1>8. Residue((a * W) * e) = Residue((b * W) * e)
  <2> DEFINE g == a * W
             h == b * W
  <2>1. g \in Nat /\ h \in Nat /\ Residue(g) = Residue(h)
    BY <1>1 DEF W
  <2> HIDE DEF g, h
  <2>2. Residue(g * e) = Residue(h * e)
    BY <1>4, <2>1, ResidueFactor
  <2> QED
    BY <2>2 DEF g, h
<1> QED
  BY <1>7, <1>8

\* A product of two numbers in Montgomery form is in that form.
LEMMA MontgomeryForm ==
  ASSUME NEW a \in Residues, NEW b \in Residues, NEW x \in Nat, NEW y \in Nat,
         Val(a, N) = Residue(Weight[N] * x), Val(b, N) = Residue(Weight[N] * y)
  PROVE  LET t == MontgomeryProduct(a, b)
         IN t \in Residues /\ Val(t, N) = Residue(Weight[N] * Residue(x * y))
<1> DEFINE t == MontgomeryProduct(a, b)
           W == Weight[N]
           u == Val(a, N)
           w == Val(b, N)
           p == Val(t, N)
           v == Residue(W)
           wx == W * x
           wy == W * y
           z == x * y
           r == Residue(z)
           wz == W * z
<1>2. L \in Nat \ {0} /\ W \in Nat
  BY SizeOfL, BarrettRIs
<1>1. /\ t \in Residues /\ u \in Nat /\ w \in Nat /\ Residue(p * v) = Residue(u * w)
      /\ u = Residue(wx) /\ w = Residue(wy)
  BY MontgomeryProductIs DEF Residue
<1>3. p \in 0 .. (L - 1)
  BY <1>1, ResiduesAre
<1>4. wx \in Nat /\ wy \in Nat /\ z \in Nat /\ wz \in Nat /\ p \in Nat
  BY <1>2, <1>3
<1>5. wx * wy = wz * W
  <2> HIDE DEF W
  <2> QED
    BY <1>2
<1> HIDE DEF t, W, u, w, p, v, wx, wy, z, r
<1>6. v \in Nat /\ Residue(v) = Residue(W) /\ r \in Nat /\ Residue(r) = Residue(z)
      /\ Residue(u) = Residue(wx) /\ Residue(w) = Residue(wy)
  <2>1. v \in Nat /\ Residue(v) = Residue(W)
    BY <1>2, ResidueIs DEF v
  <2>2. r \in Nat /\ Residue(r) = Residue(z)
    BY <1>4, ResidueIs DEF r
  <2>3. Residue(u) = Residue(wx) /\ Residue(w) = Residue(wy)
    BY <1>1, <1>4, ResidueIs
  <2> QED
    BY <2>1, <2>2, <2>3
<1>7. Residue(u * w) = Residue(wx * w) /\ Residue(wx * w) = Residue(wx * wy)
  <2>1. Residue(u * w) = Residue(wx * w)
    BY <1>1, <1>4, <1>6, ResidueFactor
  <2>2. Residue(wx * w) = Residue(wx * wy)
    BY <1>1, <1>4, <1>6, ResidueFactor
  <2> QED
    BY <2>1, <2>2
<1>8. Residue(p * v) = Residue(p * W)
  BY <1>2, <1>4, <1>6, ResidueFactor
<1>9. Residue(p) = Residue(wz)
  <2>0. wz \in Nat
    BY <1>4
  <2> HIDE DEF wz
  <2>1. Residue(p * Weight[N]) = Residue(wz * Weight[N])
    BY <1>1, <1>5, <1>7, <1>8 DEF W
  <2> QED
    BY <1>4, <2>0, <2>1, WeightCancels
<1>10. p = Residue(wz)
  BY <1>2, <1>3, <1>4, <1>9, ResidueIs
<1>11. Residue(W * r) = Residue(W * z)
  BY <1>2, <1>4, <1>6, ResidueFactor
<1> QED
  BY <1>1, <1>10, <1>11 DEF t, p, W, z, r


NextPower(t, m, bit) ==
  LET squared == MontgomeryProduct(t, t)
  IN IF bit = 1 THEN MontgomeryProduct(squared, m) ELSE squared
Inverting(g, m) ==
  g = [k \in 0 .. TopBit + 1 |->
         IF k = 0 THEN Limbs(N, Base ^ N % L)
         ELSE NextPower(g[k - 1], m, scalar_bit(L - 2, TopBit + 1 - k))]

LEMMA InverseUnfold ==
  ASSUME NEW s
  PROVE  MontgomeryInverse(s) =
           Number(redc((CHOOSE g : Inverting(g, mod_l(ZeroLimbs(N) \o Limbs(N, s))))[TopBit + 1]
                         \o ZeroLimbs(N)))
BY Zenon DEF MontgomeryInverse, Inverting, NextPower, MontgomeryProduct

\* One in Montgomery form, and the scalar.
LEMMA InMontgomeryForm ==
  ASSUME NEW s \in Scalars
  PROVE  LET o == Limbs(N, Base ^ N % L)
             m == mod_l(ZeroLimbs(N) \o Limbs(N, s))
         IN /\ o \in Residues /\ Val(o, N) = Residue(Weight[N] * 1)
            /\ m \in Residues /\ Val(m, N) = Residue(Weight[N] * Residue(s))
<1> DEFINE W == Weight[N]
           z == ZeroLimbs(N)
           t == Limbs(N, s)
           r == W % L
           o == Limbs(N, r)
           m == mod_l(z \o t)
<1>1. L \in Nat \ {0} /\ W \in Nat \ {0} /\ L < W /\ W = Base ^ N
  BY SizeOfL, BarrettRIs
<1>2. N \in Nat /\ N \in 0 .. Top /\ N \in 0 .. 2 * N /\ N + N = 2 * N /\ N + N <= Top
  BY Limbed
<1>3. IsLimbs(t, N) /\ Val(t, N) = s /\ s \in Nat
  BY ScalarIs
<1>4. IsLimbs(z, N) /\ Val(z, N) = 0
  BY <1>2, Zeros
<1>5. r = Residue(W) /\ r \in 0 .. (L - 1) /\ r \in Nat /\ r < W
  BY <1>1, ResidueIs DEF Residue
<1>o. o = Limbs(N, Base ^ N % L)
  BY <1>1
<1> HIDE DEF t, z, r, W
<1>6. IsLimbs(o, N) /\ Val(o, N) = r
  <2>1. IsLimbs(o, N) /\ Val(o, N) = r % Weight[N]
    BY <1>2, <1>5, ValLimbs
  <2>2. r % W = r
    BY <1>1, <1>5, Remainders
  <2> QED
    BY <2>1, <2>2 DEF W
<1>7. o \in Residues /\ Val(o, N) = Residue(W * 1)
  <2>1. W * 1 = W
    BY <1>1
  <2> QED
    BY <1>5, <1>6, <2>1, ResiduesAre
<1>8. IsLimbs(z \o t, 2 * N) /\ Val(z \o t, 2 * N) = W * s
  <2> DEFINE x == z \o t
  <2>1. IsLimbs(x, N + N) /\ Agree(z, x, N) /\ IsPart(t, x, N, N)
    BY <1>2, <1>3, <1>4, LimbsConcat
  <2> HIDE DEF x
  <2>2. Naturals(x, N + N) /\ Naturals(z, N)
    BY <1>2, <1>4, <2>1, LimbsAre
  <2>3. Val(x, N + N) = Val(x, N) + Weight[N] * Val(t, N) /\ Val(x, N) \in Nat
    BY <1>2, <2>1, <2>2, ValConcat
  <2>4. Agree(x, z, N)
    BY <2>1 DEF Agree
  <2>5. Val(z, N) = Val(x, N)
    BY <1>2, <2>2, <2>4, ValSame
  <2>6. W * s \in Nat
    BY <1>1, <1>3
  <2>7. Val(x, N + N) = 0 + W * s
    BY <1>3, <1>4, <2>3, <2>5 DEF W
  <2> QED
    BY <1>2, <2>1, <2>6, <2>7 DEF x
<1>9. IsLimbs(m, N) /\ Val(m, N) = (W * s) % L
  BY <1>8, ModIs
<1>10. W * s \in Nat
  BY <1>1, <1>3
<1>11. Val(m, N) = Residue(W * s)
  BY <1>9 DEF Residue
<1>12. m \in Residues
  BY <1>9, <1>10, <1>11, ResidueIs, ResiduesAre
<1>13. Residue(W * Residue(s)) = Residue(W * s)
  <2> DEFINE y == Residue(s)
  <2>1. y \in Nat /\ Residue(y) = Residue(s)
    BY <1>3, ResidueIs
  <2> HIDE DEF y
  <2>2. Residue(W * y) = Residue(W * s)
    BY <1>1, <1>3, <2>1, ResidueFactor
  <2> QED
    BY <2>2 DEF y
<1> HIDE DEF o, m
<1> QED
  BY <1>7, <1>11, <1>12, <1>13, <1>o DEF m, z, t, W

\* A step of the exponentiation.
LEMMA NextPowerIs ==
  ASSUME NEW x \in Nat, NEW e \in Nat, NEW b \in {0, 1}, NEW t \in Residues, NEW m \in Residues,
         Val(t, N) = Residue(Weight[N] * PowerModL(x, e)), Val(m, N) = Residue(Weight[N] * x)
  PROVE  /\ NextPower(t, m, b) \in Residues
         /\ Val(NextPower(t, m, b), N) = Residue(Weight[N] * PowerModL(x, 2 * e + b))
<1> DEFINE p == PowerModL(x, e)
           n == PowerModL(x, 2 * e + b)
           q == Residue(p * p)
           w == MontgomeryProduct(t, t)
<1>1. p \in Nat /\ n = Residue(q * (IF b = 1 THEN x ELSE 1))
  BY PowerModNext DEF Residue
<1>2. q \in Nat /\ Residue(q) = q
  <2>1. p * p \in Nat
    BY <1>1
  <2> QED
    BY <2>1, ResidueIs
<1> HIDE DEF p, n
<1>3. w \in Residues /\ Val(w, N) = Residue(Weight[N] * q)
  BY <1>1, MontgomeryForm DEF p
<1> HIDE DEF q, w
<1>4. CASE b = 1
  <2>1. NextPower(t, m, b) = MontgomeryProduct(w, m)
    BY <1>4 DEF NextPower, w
  <2>2. MontgomeryProduct(w, m) \in Residues /\ Val(MontgomeryProduct(w, m), N) = Residue(Weight[N] * Residue(q * x))
    BY <1>2, <1>3, MontgomeryForm
  <2> QED
    BY <1>1, <1>4, <2>1, <2>2 DEF n
<1>5. CASE b = 0
  <2>1. NextPower(t, m, b) = w
    BY <1>5 DEF NextPower, w
  <2>2. n = q
    BY <1>1, <1>2, <1>5
  <2> QED
    BY <1>3, <2>1, <2>2 DEF n
<1> QED
  BY <1>4, <1>5

LEMMA InvertingExists ==
  ASSUME NEW m \in Residues, Limbs(N, Base ^ N % L) \in Residues
  PROVE  \E g : Inverting(g, m)
<1> DEFINE n == TopBit + 1
           o == Limbs(N, Base ^ N % L)
           F == [k \in 1 .. n |-> [t \in Residues |-> NextPower(t, m, scalar_bit(L - 2, TopBit + 1 - k))]]
<1>1. n \in Nat /\ o \in Residues
  BY TwosAre DEF TopBit
<1>2. \A k \in 1 .. n, t \in Residues :
        F[k][t] = NextPower(t, m, scalar_bit(L - 2, TopBit + 1 - k)) /\ F[k][t] \in Residues
  <2> TAKE k \in 1 .. n, t \in Residues
  <2>1. NextPower(t, m, scalar_bit(L - 2, TopBit + 1 - k)) \in Residues
    <3>1. \A a \in Residues, b \in Residues : MontgomeryProduct(a, b) \in Residues
      BY MontgomeryProductIs
    <3> QED
      BY <3>1 DEF NextPower
  <2> QED
    BY <2>1
<1> HIDE DEF F, o
<1>3. PICK g : Follows(g, Residues, o, F, n)
  <2>1. StaysIn(Residues, F, n)
    BY <1>2 DEF StaysIn
  <2> QED
    BY <2>1, <1>1, Recursion
<1>4. g \in [0 .. n -> Residues] /\ g[0] = o /\ \A k \in 1 .. n : g[k] = F[k][g[k - 1]]
  BY <1>3 DEF Follows
<1>5. \A k \in 0 .. n : g[k] = IF k = 0 THEN o ELSE NextPower(g[k - 1], m, scalar_bit(L - 2, TopBit + 1 - k))
  <2> HIDE DEF n
  <2> TAKE k \in 0 .. n
  <2>1. CASE k = 0
    BY <1>4, <2>1
  <2>2. CASE k # 0
    <3>1. k \in 1 .. n /\ k - 1 \in 0 .. n
      BY <1>1, <2>2
    <3> QED
      BY <1>2, <1>4, <2>2, <3>1
  <2> QED
    BY <2>1, <2>2
<1>6. g = [k \in 0 .. n |-> g[k]]
  BY <1>4
<1>7. g = [k \in 0 .. n |-> IF k = 0 THEN o ELSE NextPower(g[k - 1], m, scalar_bit(L - 2, TopBit + 1 - k))]
  BY <1>5, <1>6, Zenon
<1> QED
  BY <1>7, Zenon DEF Inverting, o

\* The exponents on the way are what L - 2 has above a bit.
LEMMA MontgomeryInverseIs ==
  ASSUME NEW s \in Scalars
  PROVE  MontgomeryInverse(s) = PowerModL(Residue(s), L - 2)
<1> DEFINE y == Residue(s)
           o == Limbs(N, Base ^ N % L)
           m == mod_l(ZeroLimbs(N) \o Limbs(N, s))
           g == CHOOSE h : Inverting(h, m)
           n == TopBit + 1
           e == L - 2
           W == Weight[N]
           At(k) == g[k] \in Residues /\ Val(g[k], N) = Residue(W * PowerModL(y, High(e, n - k)))
           T == {k \in 0 .. n : At(k)}
<1>1. s \in Nat /\ y \in Nat /\ L \in Nat \ {0} /\ L > 1 /\ W \in Nat \ {0} /\ L < W /\ e \in Nat
  <2>1. s \in Nat
    BY ScalarIs
  <2>2. y \in Nat
    BY <2>1, ResidueIs
  <2> QED
    BY <2>1, <2>2, SizeOfL, BarrettRIs, ScalarLAssumption
<1>2. n = Bits - 3 /\ n \in 0 .. Bits /\ n \in Nat
  BY TwosAre DEF TopBit
<1>3. /\ o \in Residues /\ Val(o, N) = Residue(W * 1)
      /\ m \in Residues /\ Val(m, N) = Residue(W * y)
  BY InMontgomeryForm
<1> HIDE DEF m, y
<1>4. Inverting(g, m)
  <2>1. \E h : Inverting(h, m)
    BY <1>3, InvertingExists
  <2> QED
    BY <2>1
<1>5. MontgomeryInverse(s) = Number(redc(g[n] \o ZeroLimbs(N)))
  BY InverseUnfold DEF m
<1>6. g = [k \in 0 .. n |-> IF k = 0 THEN o ELSE NextPower(g[k - 1], m, scalar_bit(L - 2, TopBit + 1 - k))]
  BY <1>4 DEF Inverting
<1>t. TopBit \in Int /\ n = TopBit + 1
  BY TwosAre DEF TopBit
<1> HIDE DEF g, o, n
<1>7. g[0] = o /\ \A k \in 0 .. (n - 1) : g[k + 1] = NextPower(g[k], m, scalar_bit(e, n - (k + 1)))
  <2>1. g[0] = o
    BY <1>2, <1>6
  <2>2. ASSUME NEW k \in 0 .. (n - 1) PROVE g[k + 1] = NextPower(g[k], m, scalar_bit(e, n - (k + 1)))
    <3>1. k + 1 \in 0 .. n /\ k + 1 # 0 /\ (k + 1) - 1 = k
      BY <1>2
    <3>2. g[k + 1] = NextPower(g[(k + 1) - 1], m, scalar_bit(L - 2, TopBit + 1 - (k + 1)))
      BY <1>6, <3>1
    <3>3. TopBit + 1 - (k + 1) = n - (k + 1)
      BY <1>t
    <3> QED
      BY <3>1, <3>2, <3>3
  <2> QED
    BY <2>1, <2>2
<1> HIDE DEF e
<1>8. 0 \in T
  <2>1. High(e, n) = 0
    <3>1. e < 2 ^ n
      <4>1. L <= 2 ^ (Bits - 3)
        BY ReducedIs
      <4> QED
        BY <1>1, <1>2, <4>1, TwosAre DEF e
    <3> QED
      BY <1>1, <1>2, <3>1, HighIs
  <2>2. PowerModL(y, High(e, n - 0)) = 1
    BY <1>1, <1>2, <2>1, PowerModIs
  <2>3. At(0)
    BY <1>3, <1>7, <2>2
  <2> HIDE DEF At
  <2> QED
    BY <1>2, <2>3
<1>9. \A k \in 0 .. (n - 1) : k \in T => k + 1 \in T
  <2> SUFFICES ASSUME NEW k \in 0 .. (n - 1), k \in T PROVE k + 1 \in T
    OBVIOUS
  <2> DEFINE i == n - (k + 1)
             b == scalar_bit(e, i)
             f == High(e, n - k)
  <2>1. i \in 0 .. (Bits - 1) /\ i + 1 = n - k /\ n - k \in 0 .. Bits /\ k + 1 \in 0 .. n
    BY <1>2, TwosAre
  <2>2. b \in {0, 1} /\ High(e, i) = 2 * f + b /\ f \in Nat
    <3>1. b \in {0, 1} /\ High(e, i) = 2 * High(e, i + 1) + b
      BY <1>1, <2>1, BitIs
    <3>2. f \in Nat
      BY <1>1, <2>1, HighIs
    <3> QED
      BY <2>1, <3>1, <3>2
  <2>3. g[k] \in Residues /\ Val(g[k], N) = Residue(W * PowerModL(y, f))
    OBVIOUS
  <2>4. g[k + 1] = NextPower(g[k], m, b)
    BY <1>7
  <2> HIDE DEF b, f, At
  <2> DEFINE t == g[k]
  <2>c. /\ y \in Nat /\ f \in Nat /\ b \in {0, 1} /\ t \in Residues /\ m \in Residues
        /\ Val(t, N) = Residue(Weight[N] * PowerModL(y, f)) /\ Val(m, N) = Residue(Weight[N] * y)
    BY <1>1, <1>3, <2>2, <2>3
  <2> HIDE DEF t
  <2>d. NextPower(t, m, b) \in Residues /\ Val(NextPower(t, m, b), N) = Residue(Weight[N] * PowerModL(y, 2 * f + b))
    BY ONLY <2>c, NextPowerIs
  <2>5. NextPower(g[k], m, b) \in Residues /\ Val(NextPower(g[k], m, b), N) = Residue(W * PowerModL(y, 2 * f + b))
    BY <2>d DEF t
  <2>6. At(k + 1)
    BY <2>2, <2>4, <2>5 DEF At
  <2> QED
    BY <2>1, <2>6
<1>10. n \in T
  <2> HIDE DEF T
  <2>1. \A k \in 0 .. n : k \in T
    BY <1>2, <1>8, <1>9, InductionTo
  <2> QED
    BY <1>2, <2>1
<1> DEFINE p == PowerModL(y, e)
           t == g[n]
           x == t \o ZeroLimbs(N)
<1>11. t \in Residues /\ Val(t, N) = Residue(W * p) /\ p \in 0 .. (L - 1) /\ p \in Nat
  <2>1. High(e, n - n) = e
    <3>1. n - n = 0 /\ 0 \in 0 .. Bits
      BY <1>2, TwosAre
    <3> QED
      BY <1>1, <3>1, HighIs
  <2>2. p \in 0 .. (L - 1)
    BY <1>1, PowerModIs
  <2> QED
    BY <1>1, <1>10, <2>1, <2>2
<1> HIDE DEF p, t
<1>12. IsLimbs(x, 2 * N) /\ Val(x, 2 * N) = Val(t, N)
  <2>1. IsLimbs(t, N) /\ AllLimbs(t, N)
    <3>1. IsLimbs(t, N)
      BY <1>11, ResiduesAre
    <3> QED
      BY <3>1, LimbsAre, Limbed
  <2>2. MayMultiply(x, t, t) /\ Val(x, 2 * N) = Val(t, N)
    BY <2>1, Padded
  <2> HIDE DEF x
  <2> QED
    BY <2>2, Limbed DEF MayMultiply, Factors
<1> HIDE DEF x
<1>13. Val(t, N) \in Nat /\ Val(t, N) < L * W
  <2>1. Val(t, N) \in 0 .. (L - 1)
    BY <1>11, ResiduesAre
  <2>2. L * 1 <= L * W
    BY <1>1
  <2> DEFINE lw == L * W
  <2>3. lw \in Nat /\ L <= lw
    BY <1>1, <2>2
  <2> HIDE DEF lw
  <2>4. Val(t, N) < lw
    BY <1>1, <2>1, <2>3
  <2> QED
    BY <1>1, <2>1, <2>4 DEF lw
<1> DEFINE r == redc(x)
           v == Val(r, N)
<1>14. IsLimbs(r, N) /\ v \in 0 .. (L - 1) /\ (v * (Weight[N] % L)) % L = Val(x, 2 * N) % L
  <2>1. IsReducible(x)
    BY <1>12, <1>13 DEF IsReducible, W
  <2> QED
    BY <2>1, RedcIs
<1> HIDE DEF r, v, W
<1>15. v \in Nat /\ Residue(v * W) = Residue(p * W)
  <2> DEFINE u == Residue(W)
             q == W * p
  <2>0. v \in Nat /\ q \in Nat /\ q = p * W
    BY <1>1, <1>11, <1>14
  <2>1. u \in Nat /\ Residue(u) = Residue(W)
    BY <1>1, ResidueIs
  <2>2. Residue(v * u) = Residue(Residue(q))
    BY <1>11, <1>12, <1>14 DEF Residue, W
  <2> HIDE DEF u, q
  <2>3. Residue(v * u) = Residue(v * W)
    BY <1>1, <2>0, <2>1, ResidueFactor
  <2>4. Residue(Residue(q)) = Residue(q)
    BY <2>0, ResidueIs
  <2> QED
    BY <2>0, <2>2, <2>3, <2>4
<1>16. Residue(v) = Residue(p)
  BY <1>11, <1>15, WeightCancels DEF W
<1>17. v = p
  BY <1>1, <1>11, <1>14, <1>15, <1>16, ResidueIs
<1>18. Number(r) = v
  BY <1>14, Limbed, NumberIs DEF v
<1> QED
  BY <1>5, <1>17, <1>18 DEF r, x, t, p, y, e


LEMMA AddXlIs ==
  ASSUME NEW s \in Scalars, NEW x \in Nat, s + L * (x % 8) < Weight[N]
  PROVE  add_xl(s, x) = s + L * (x % 8)
<1> DEFINE c == x % 8
           t == Limbs(N, s)
           u == LimbsOfL
           terms == [i \in 1 .. N |-> t[i] + u[i] * c]
           row == Carried(terms, 0)
           W == Weight[N]
<1>1. c \in 0 .. 7 /\ c \in Limb /\ c \in Nat /\ L \in Nat /\ W \in Nat \ {0}
  <2>1. c \in 0 .. 7
    OBVIOUS
  <2>2. Base \in Nat /\ Base >= 8
    BY OrderAssumption, ScalarLAssumption
  <2> QED
    BY <2>1, <2>2, SizeOfL, BarrettRIs DEF Limb
<1>2. IsLimbs(t, N) /\ AllLimbs(t, N) /\ Val(t, N) = s /\ s \in Nat
  BY ScalarIs
<1>3. IsLimbs(u, N) /\ AllLimbs(u, N) /\ Val(u, N) = L
  BY SizeOfL
<1>4. N \in Nat /\ N \in 0 .. Top /\ N \in 0 .. 2 * N /\ N <= Top
  BY Limbed
<1> HIDE DEF t, u, c, W
<1>5. Len(terms) = N /\ AllTerms(terms, N) /\ IsLinear(terms, t, c, u, N)
  <2>1. Len(terms) = N
    BY <1>4
  <2>2. ASSUME NEW i \in 1 .. N
        PROVE  terms[i] \in Term /\ terms[i] = t[i] + c * u[i]
    <3>1. t[i] \in Limb /\ u[i] \in Limb
      BY <1>2, <1>3 DEF AllLimbs
    <3>2. terms[i] = t[i] + u[i] * c
      OBVIOUS
    <3>3. u[i] * c = c * u[i]
      <4>1. u[i] \in Nat
        BY <3>1, LimbIs
      <4> QED
        BY <1>1, <4>1
    <3>4. t[i] + u[i] * c \in Term
      BY <1>1, <3>1, Products
    <3> QED
      BY <3>2, <3>3, <3>4
  <2> QED
    BY <2>1, <2>2 DEF AllTerms, IsLinear
<1>6. Naturals(t, N) /\ Naturals(u, N)
  BY <1>2, <1>3, <1>4, LimbsAre
<1>r. add_xl(s, x) = Number(Low(row, N))
  BY DEF add_xl, t, u, c
<1> HIDE DEF terms
<1>7. Val(terms, N) = s + c * L
  <2>1. N \in 0 .. Top /\ Naturals(t, N) /\ Naturals(u, N) /\ IsLinear(terms, t, c, u, N) /\ c \in Nat
    BY <1>1, <1>4, <1>5, <1>6
  <2>2. Val(terms, N) = Val(t, N) + c * Val(u, N)
    BY ONLY <2>1, ValLinear
  <2> QED
    BY <1>2, <1>3, <2>2
<1>8. IsLimbs(row, N + 1) /\ Val(row, N) + row[N + 1] * W = Val(terms, N) + 0
  BY <1>4, <1>5, LimbIs, CarriedIs DEF W
<1> HIDE DEF row
<1>9. IsLimbs(Low(row, N), N) /\ Val(Low(row, N), N) = Val(row, N)
      /\ Val(row, N) \in 0 .. (W - 1) /\ row[N + 1] \in Limb
  BY <1>4, <1>8, LowIs DEF W
<1>10. Val(row, N) = s + L * c
  <2> DEFINE a == Val(row, N)
             e == row[N + 1]
             z == s + L * c
  <2>1. a \in 0 .. (W - 1) /\ e \in Nat /\ z \in Nat /\ z < W /\ a + e * W = z
    <3>1. e \in Nat
      BY <1>9, LimbIs
    <3>2. z = s + c * L /\ z \in Nat
      BY <1>1, <1>2
    <3>3. z < W
      BY DEF c, W
    <3>4. a + e * W = Val(terms, N)
      <4>1. Val(terms, N) \in Nat
        BY <1>7, <3>2
      <4> QED
        BY <1>8, <4>1
    <3> QED
      BY <1>7, <1>9, <3>1, <3>2, <3>3, <3>4
  <2> HIDE DEF a, e, z
  <2>2. e = 0
    <3>1. CASE e >= 1
      <4>1. 1 * W <= e * W
        BY <1>1, <2>1, <3>1
      <4> QED
        BY <1>1, <2>1, <4>1
    <3> QED
      BY <2>1, <3>1
  <2>3. a = z
    BY <1>1, <2>1, <2>2
  <2> QED
    BY <2>3 DEF a, z
<1>11. Number(Low(row, N)) = Val(Low(row, N), N)
  BY <1>4, <1>9, NumberIs
<1> QED
  BY <1>9, <1>10, <1>11, <1>r DEF c

\* A trimmed scalar is no multiple of L.
LEMMA TrimResidue ==
  ASSUME NEW x \in Nat
  PROVE  LET t == crypto_eddsa_trim_scalar(x)
         IN t \in Nat /\ t % 8 = 0 /\ Residue(t) # 0
<1> DEFINE t == crypto_eddsa_trim_scalar(x)
           h == 2 ^ (Bits - 4)
<1>1. t \in Scalars /\ t \in Nat /\ t % 8 = 0 /\ t < 8 * h /\ t > 0 /\ h \in Nat /\ h < L
  <2>1. Bits - 4 \in 0 .. Bits /\ Bits - 3 \in 0 .. Bits /\ Bits - 2 \in 0 .. Bits /\ Bits \in Nat
        /\ Bits - 4 \in 0 .. (Bits - 1) /\ Bits - 3 \in 0 .. (Bits - 1) /\ Bits - 2 \in 0 .. (Bits - 1)
        /\ (Bits - 4) + 1 = Bits - 3 /\ (Bits - 3) + 1 = Bits - 2 /\ (Bits - 2) + 1 = Bits - 1
    BY TwosAre
  <2>2. h \in Nat \ {0} /\ 2 ^ (Bits - 2) \in Nat \ {0}
    BY <2>1, TwosAre
  <2>3. 2 ^ (Bits - 3) = 2 * h
    BY <2>1, TwosAre
  <2>4. 2 ^ (Bits - 2) = 2 * 2 ^ (Bits - 3)
    BY <2>1, TwosAre
  <2>5. 2 ^ (Bits - 1) = 2 * 2 ^ (Bits - 2)
    BY <2>1, TwosAre
  <2>6. t \in Scalars /\ t % 8 = 0 /\ t >= 2 ^ (Bits - 2) /\ t < 2 ^ (Bits - 1)
    BY TrimIs
  <2>7. t \in Nat
    BY <2>6, ScalarIs
  <2>8. h < L
    BY OrderAssumption
  <2> HIDE DEF t, h
  <2> QED
    BY <2>2, <2>3, <2>4, <2>5, <2>6, <2>7, <2>8
<1>2. L \in Nat \ {0} /\ L % 8 = 5
  BY BarrettRIs, ScalarLAssumption
<1> HIDE DEF t, h
<1>3. Residue(t) # 0
  <2> SUFFICES ASSUME Residue(t) = 0 PROVE FALSE
    OBVIOUS
  <2> DEFINE k == t \div L
             j == L \div 8
             m == t \div 8
  <2>1. t = L * k + (t % L) /\ k \in Nat
    BY <1>1, <1>2, LowAndHigh
  <2>2. t % L = 0
    BY DEF Residue
  <2>3. L = 8 * j + 5 /\ j \in Nat /\ t = 8 * m /\ m \in Nat
    BY <1>1, <1>2
  <2> HIDE DEF k, j, m
  <2>4. 8 * m = (8 * j + 5) * k
    BY <2>1, <2>2, <2>3
  <2> DEFINE jk == j * k
  <2>5. jk \in Int /\ 8 * m = 8 * jk + 5 * k
    BY <2>1, <2>3, <2>4
  <2> HIDE DEF jk
  <2>6. \E e \in Int : k = 8 * e
    <3>1. k = 8 * (5 * (m - jk) - 3 * k)
      BY <2>1, <2>3, <2>5
    <3>2. 5 * (m - jk) - 3 * k \in Int
      BY <2>1, <2>3, <2>5
    <3> QED
      BY <3>1, <3>2
  <2>7. PICK e \in Int : k = 8 * e
    BY <2>6
  <2>8. t = 8 * (L * e)
    BY <1>2, <2>1, <2>2, <2>7
  <2>9. e >= 1
    <3>1. k # 0
      BY <1>1, <1>2, <2>1, <2>2
    <3> QED
      BY <2>1, <2>7, <3>1
  <2>10. L * e >= L * 1
    BY <1>2, <2>9
  <2> DEFINE le == L * e
  <2>11. le \in Int /\ le >= L /\ t = 8 * le
    BY <1>2, <2>8, <2>10
  <2> HIDE DEF le
  <2> QED
    BY <1>1, <1>2, <2>11
<1> QED
  BY <1>1, <1>3 DEF t

\* The divisor is the inverse of the trimmed scalar, and a multiple of 8.
LEMMA DivisorIs ==
  ASSUME NEW x \in Nat
  PROVE  /\ Divisor(x) \in Scalars /\ Divisor(x) \in Nat /\ Divisor(x) % 8 = 0
         /\ (Divisor(x) * crypto_eddsa_trim_scalar(x)) % L = 1
<1> DEFINE t == crypto_eddsa_trim_scalar(x)
           inv == MontgomeryInverse(t)
           y == Residue(t)
           c == (inv * 3) % 8
           D == Divisor(x)
           W == Weight[N]
<1>1. t \in Scalars /\ t \in Nat /\ y # 0 /\ y \in 0 .. (L - 1) /\ y \in Nat
      /\ L \in Nat \ {0} /\ L % 8 = 5 /\ 8 * L < W /\ W \in Nat \ {0} /\ W = Base ^ N
  <2>1. t \in Scalars
    BY TrimIs
  <2>2. t \in Nat /\ y # 0
    BY TrimResidue
  <2>3. y \in 0 .. (L - 1) /\ y \in Nat
    BY <2>2, ResidueIs
  <2> QED
    BY <2>1, <2>2, <2>3, SizeOfL, BarrettRIs, ScalarLAssumption
<1>d. D = add_xl(inv, (inv * 3) % 8)
  BY DEF Divisor
<1> HIDE DEF t, D
<1>2. inv = PowerModL(y, L - 2)
  BY <1>1, MontgomeryInverseIs
<1> HIDE DEF y
<1>3. inv \in 0 .. (L - 1) /\ (y * inv) % L = 1
  <2>1. L - 2 \in Nat
    BY ScalarLAssumption
  <2>2. y \in 1 .. L - 1
    BY <1>1
  <2> QED
    BY <1>1, <1>2, <2>1, <2>2, PowerModIs, OrderAssumption
<1> HIDE DEF inv, W
<1>4. inv \in Nat /\ c \in 0 .. 7 /\ c % 8 = c /\ inv \in Scalars
  <2>1. inv \in Nat
    BY <1>1, <1>3
  <2>2. c \in 0 .. 7 /\ c % 8 = c
    BY <2>1
  <2>3. inv \in 0 .. (Base ^ N - 1)
    BY <1>1, <1>3, <2>1
  <2> QED
    BY <2>1, <2>2, <2>3 DEF Scalars
<1>5. D = inv + L * c /\ D \in Nat /\ D < W
  <2> HIDE DEF c
  <2>1. L * c <= 7 * L /\ L * c \in Nat
    BY <1>1, <1>4
  <2>2. inv + L * c < W
    BY <1>1, <1>3, <1>4, <2>1
  <2>3. c \in Nat
    BY <1>4
  <2>4. add_xl(inv, c) = inv + L * (c % 8)
    BY <1>4, <2>2, <2>3, AddXlIs DEF W
  <2> QED
    BY <1>4, <1>d, <2>1, <2>2, <2>4 DEF c
<1>6. D \in Scalars
  BY <1>1, <1>5 DEF Scalars
<1>7. D % 8 = 0
  <2> DEFINE j == L \div 8
             h == (inv * 3) \div 8
  <2>1. L = 8 * j + 5 /\ j \in Nat /\ inv * 3 = 8 * h + c /\ h \in Nat
    BY <1>1, <1>4
  <2> HIDE DEF j, h, c
  <2> DEFINE jc == j * c
  <2>2. L * c = 8 * jc + 5 * c /\ jc \in Int
    BY <1>4, <2>1
  <2> HIDE DEF jc
  <2>3. D = 8 * (jc + 2 * inv - 5 * h)
    BY <1>4, <1>5, <2>1, <2>2
  <2>4. jc + 2 * inv - 5 * h \in Int
    BY <1>4, <2>1, <2>2
  <2> QED
    BY <2>3, <2>4
<1>8. Residue(D * t) = 1
  <2>1. Residue(D) = Residue(inv)
    <3>1. L \in Nat \ {0} /\ c \in Int /\ inv \in Int
      BY <1>1, <1>4
    <3> HIDE DEF c
    <3>2. (L * c + inv) % L = inv % L
      BY ONLY <3>1, Shifted
    <3>3. D = L * c + inv
      BY <1>1, <1>4, <1>5
    <3> QED
      BY <3>2, <3>3 DEF Residue
  <2>2. Residue(D * t) = Residue(inv * t)
    BY <1>1, <1>4, <1>5, <2>1, ResidueFactor
  <2>3. Residue(y) = Residue(t)
    BY <1>1, ResidueIs DEF y
  <2>4. Residue(inv * y) = Residue(inv * t)
    BY <1>1, <1>4, <2>3, ResidueFactor
  <2>5. inv * y = y * inv
    BY <1>1, <1>4
  <2>6. Residue(y * inv) = 1
    BY <1>3 DEF Residue
  <2> QED
    BY <2>2, <2>4, <2>5, <2>6
<1> QED
  BY <1>5, <1>6, <1>7, <1>8 DEF Residue, D, t


LEMMA MultOfOrigin ==
  ASSUME NEW a \in Int
  PROVE  Mult(a, Origin) = Origin
<1> DEFINE z == 0
<1>1. B \in Affine /\ z \in Int /\ a * z = z /\ Mult(z, B) = Origin
  BY BaseIs, MultIs
<1> HIDE DEF z
<1>2. Mult(a, Mult(z, B)) = Mult(a * z, B)
  BY <1>1, MultTimes
<1> QED
  BY <1>1, <1>2

\* Multiples of an order add nothing.
LEMMA TimesRepeats ==
  ASSUME NEW p \in Affine, NEW m \in Nat \ {0}, Times(m, p) = Origin, NEW n \in Nat
  PROVE  Times(n, p) = Times(n % m, p)
<1> DEFINE q == n \div m
           r == n % m
           mq == q * m
<1>1. n = m * q + r /\ q \in Nat /\ r \in Nat
  <2>1. n = m * q + r /\ q \in Nat /\ r \in 0 .. (m - 1)
    BY LowAndHigh
  <2> QED
    BY <2>1
<1> HIDE DEF q, r
<1>2. mq \in Int /\ n = mq + r /\ q \in Int /\ m \in Int /\ r \in Int
  BY <1>1
<1>3. Mult(m, p) = Origin /\ Mult(n, p) = Times(n, p) /\ Mult(r, p) = Times(r, p) /\ Mult(r, p) \in Affine
  BY <1>1, <1>2, MultIs
<1>4. Mult(q, Mult(m, p)) = Mult(q * m, p)
  BY <1>2, MultTimes
<1>5. Mult(mq, p) = Origin
  BY <1>2, <1>3, <1>4, MultOfOrigin
<1> HIDE DEF mq
<1>6. Mult(mq + r, p) = AffineAdd(Mult(mq, p), Mult(r, p))
  BY <1>2, MultSum
<1>7. AffineAdd(Origin, Mult(r, p)) = Mult(r, p)
  BY <1>3, OriginIs
<1> QED
  BY <1>2, <1>3, <1>5, <1>6, <1>7 DEF r

\* A number is known modulo 8 L from what it is modulo L and 8.
LEMMA RemaindersOfBoth ==
  ASSUME NEW a \in Nat, NEW b \in Nat, a % L = b % L, a % 8 = b % 8, b <= a
  PROVE  a % (8 * L) = b % (8 * L)
<1> DEFINE q == a \div L
           r == b \div L
           f == a \div 8
           g == b \div 8
           j == L \div 8
           k == q - r
           M == 8 * L
<1>1. L \in Nat \ {0} /\ L = 8 * j + 5 /\ j \in Nat /\ M \in Nat \ {0}
  BY BarrettRIs, ScalarLAssumption
<1>2. a = L * q + (a % L) /\ q \in Nat /\ b = L * r + (b % L) /\ r \in Nat /\ a % L \in Nat
  <2>1. a = L * q + (a % L) /\ q \in Nat /\ a % L \in 0 .. (L - 1)
    BY <1>1, LowAndHigh
  <2>2. b = L * r + (b % L) /\ r \in Nat
    BY <1>1, LowAndHigh
  <2> QED
    BY <1>1, <2>1, <2>2
<1>3. f \in Int /\ g \in Int /\ a - b = 8 * (f - g)
  BY IntDivision
<1> HIDE DEF q, r, f, g, j
<1>4. k \in Int /\ a - b = L * k
  BY <1>1, <1>2
<1> DEFINE jk == j * k
<1>5. jk \in Int /\ L * k = 8 * jk + 5 * k
  BY <1>1, <1>4
<1> HIDE DEF k, jk
<1> DEFINE e == 5 * ((f - g) - jk) - 3 * k
<1>6. e \in Int /\ k = 8 * e
  BY <1>3, <1>4, <1>5
<1> HIDE DEF e
<1>7. a = M * e + b
  BY <1>1, <1>4, <1>6
<1> HIDE DEF M
<1>8. M \in Nat \ {0} /\ e \in Int /\ b \in Int
  BY <1>1, <1>6
<1>9. (M * e + b) % M = b % M
  BY ONLY <1>8, Shifted
<1>10. a % M = b % M
  BY ONLY <1>7, <1>9
<1> QED
  BY ONLY <1>10 DEF M

PrimePart == CHOOSE c \in 0 .. (8 * L) : c % L = 1 /\ c % 8 = 0

\* Multiplying and dividing by a secret leaves the part of a point that has order L.
LEMMA InverseHolds ==
  ASSUME NEW x \in Scalars, NEW p \in Affine, Times(8 * L, p) = Origin
  PROVE  crypto_x25519(x, crypto_x25519_inverse(x, MontgomeryU(p))) = MontgomeryU(Times(PrimePart, p))
<1> DEFINE t == crypto_eddsa_trim_scalar(x)
           D == Divisor(x)
           q == Times(D, p)
           M == 8 * L
           m == t * D
           c == PrimePart
<1>1. x \in Nat
  BY ScalarIs
<1>a. D \in Scalars /\ D % 8 = 0 /\ (D * t) % L = 1
  BY ONLY <1>1, DivisorIs DEF D, t
<1>b. D \in Nat
  BY <1>a, ScalarIs
<1>c. t \in Nat
  BY <1>1, TrimResidue
<1>d. L \in Nat \ {0}
  BY BarrettRIs
<1> HIDE DEF t, D
<1>e. M \in Nat \ {0} /\ m \in Nat
  BY ONLY <1>b, <1>c, <1>d DEF M, m
<1>2. D \in Scalars /\ D \in Nat /\ D % 8 = 0 /\ (D * t) % L = 1 /\ t \in Nat /\ L \in Nat \ {0} /\ M \in Nat \ {0}
      /\ m \in Nat
  BY ONLY <1>a, <1>b, <1>c, <1>d, <1>e
<1>3. scalarmult(D, MontgomeryU(p), Bits) = MontgomeryU(q)
  <2>1. Bits \in 1 .. Bits
    BY TwosAre
  <2>2. D < 2 ^ Bits
    BY <1>2, WidthAssumption DEF Scalars
  <2> QED
    BY <1>2, <2>1, <2>2, LadderIs
<1>4. crypto_x25519_inverse(x, MontgomeryU(p)) = MontgomeryU(q)
  BY <1>3 DEF crypto_x25519_inverse, D
<1>5. q \in Affine
  BY <1>2, TimesIs
<1>6. crypto_x25519(x, MontgomeryU(q)) = MontgomeryU(Times(t, q))
  BY <1>1, <1>5, X25519Is DEF t
<1>7. Times(t, q) = Times(m, p)
  <2>a. p \in Affine /\ t \in Int /\ D \in Int
    BY <1>2
  <2>1. Mult(t, Mult(D, p)) = Mult(t * D, p)
    BY ONLY <2>a, MultTimes
  <2>2. Mult(D, p) = q /\ Mult(t, q) = Times(t, q) /\ Mult(m, p) = Times(m, p)
    BY <1>2, <1>5, MultIs
  <2> QED
    BY <2>1, <2>2
<1>8. m % L = 1 /\ m % 8 = 0
  <2>1. m = D * t
    BY <1>2
  <2> DEFINE e == D \div 8
  <2>2. e \in Int /\ D = 8 * e
    BY <1>2
  <2> HIDE DEF e
  <2>3. m = 8 * (e * t) /\ e * t \in Int
    BY <1>2, <2>1, <2>2
  <2> HIDE DEF m
  <2>4. m % 8 = 0
    BY <2>3
  <2> QED
    BY <1>2, <2>1, <2>4
<1> HIDE DEF m
<1>9. c \in 0 .. (8 * L) /\ c % L = 1 /\ c % 8 = 0
  <2> DEFINE r == m % M
             eight == 8
  <2>a. M = L * eight /\ M = eight * L /\ eight \in Nat \ {0} /\ L \in Nat \ {0} /\ m \in Nat /\ m \in Int
        /\ M \in Nat \ {0}
    BY <1>2
  <2>f. m % eight = 0 /\ 8 * L = M
    BY <1>8
  <2> HIDE DEF M, eight, r
  <2>b. m % M \in 0 .. (M - 1)
    BY ONLY <2>a, ModStep
  <2>1. r \in 0 .. (M - 1)
    BY ONLY <2>b DEF r
  <2>2. (m % (eight * L)) % eight = m % eight
    BY ONLY <2>a, ModOfMod
  <2>3. (m % (L * eight)) % L = m % L
    BY ONLY <2>a, ModOfMod
  <2>4. r % L = 1 /\ r % 8 = 0
    BY ONLY <1>8, <2>f, <2>a, <2>2, <2>3 DEF r, eight
  <2>5. r \in 0 .. (8 * L)
    BY ONLY <2>a, <2>f, <2>1
  <2> HIDE DEF r
  <2>6. \E e \in 0 .. (8 * L) : e % L = 1 /\ e % 8 = 0
    BY <2>4, <2>5
  <2> QED
    BY <2>6 DEF PrimePart
<1> HIDE DEF c
<1>10. c \in Nat
  BY <1>2, <1>9
<1>11. m % M = c % M
  <2>1. CASE c <= m
    BY <1>2, <1>8, <1>9, <1>10, <2>1, RemaindersOfBoth
  <2>2. CASE m <= c
    BY <1>2, <1>8, <1>9, <1>10, <2>2, RemaindersOfBoth
  <2> QED
    BY <1>2, <1>10, <2>1, <2>2
<1>12. Times(m, p) = Times(m % M, p) /\ Times(c, p) = Times(c % M, p)
  <2>1. Times(M, p) = Origin
    OBVIOUS
  <2> HIDE DEF M
  <2> QED
    BY <1>2, <1>10, <2>1, TimesRepeats
<1> QED
  BY <1>4, <1>6, <1>7, <1>11, <1>12 DEF c


-----------------------------------------------------------------------------
(* Dirty keys.                                                             *)


\* The u coordinate of a point in extended coordinates.
LEMMA UCoordinateIs ==
  ASSUME NEW p \in Affine, NEW g, Rep(g, p)
  PROVE  UCoordinate(g) = MontgomeryU(p)
<1> DEFINE y == p[2]
           z == g.Z
           v == MontgomeryU(p)
           h == 1 - y
           k == 1 + y
           a == fe_add(z, g.Y)
           b == fe_sub(z, g.Y)
<1>1. y \in Int /\ z \in Int /\ g.Y \in Int /\ g.Y = El(y * z) /\ El(z) # 0 /\ v \in Int /\ El(v) = v
      /\ (El(h) # 0 => El(h * v) = El(k))
  BY AffineInts, ElField, UIs DEF Rep, Coordinates
<1>2. h \in Int /\ k \in Int /\ y * z \in Int /\ z * h \in Int /\ z * k \in Int
  BY <1>1
<1>3. a = El(z * k) /\ b = El(z * h) /\ a \in Int /\ b \in Int /\ El(a) = a /\ El(b) = b
  <2> DEFINE w == y * z
  <2>a. w \in Int /\ z \in Int /\ g.Y = El(w)
    BY <1>1, <1>2
  <2> HIDE DEF w
  <2>b. fe_add(z, El(w)) = El(z + w) /\ fe_sub(z, El(w)) = El(z - w)
    BY ONLY <2>a, FeIn
  <2>1. a = El(z + w) /\ b = El(z - w)
    BY <2>a, <2>b
  <2> USE DEF w
  <2>2. z + w = z * k /\ z - w = z * h
    BY <1>1
  <2> HIDE DEF w, k, h
  <2>3. a = El(z * k) /\ b = El(z * h)
    BY <2>1, <2>2
  <2> QED
    BY <1>2, <2>3, ElIs
<1>4. UCoordinate(g) = fe_mul(a, fe_invert(b))
  BY DEF UCoordinate
<1>5. CASE El(h) = 0
  <2>1. b = 0
    <3>1. El(z * h) = El(z * 0)
      <4> DEFINE o == 0
      <4>1. o \in Int /\ El(h) = El(o)
        BY <1>5, OneIs
      <4> HIDE DEF o, h
      <4>2. El(z * h) = El(z * o)
        BY <1>1, <1>2, <4>1, ElFactor
      <4> QED
        BY <4>2 DEF o
    <3>2. z * 0 = 0
      BY <1>1
    <3> QED
      BY <1>3, <3>1, <3>2, OneIs
  <2>2. fe_invert(b) = 0
    BY <1>3, <2>1, InvertIs
  <2>3. fe_sub(1, y) = El(h) /\ fe_invert(0) = 0
    BY <2>1, <2>2 DEF fe_sub, El
  <2>4. v = fe_mul(fe_add(1, y), 0)
    BY <1>5, <2>3 DEF MontgomeryU
  <2>5. fe_add(1, y) \in Int
    <3> DEFINE one == 1
    <3>1. one \in Int /\ y \in Int
      BY <1>1
    <3> HIDE DEF one, y
    <3>2. fe_add(one, y) \in Field
      BY ONLY <3>1, FeIs
    <3> QED
      BY <3>2, ElField DEF one
  <2>6. v = 0 /\ fe_mul(a, 0) = 0
    BY <1>3, <2>4, <2>5, OneIs DEF fe_mul, El
  <2> QED
    BY <1>4, <2>2, <2>6
<1>6. CASE El(h) # 0
  <2> HIDE DEF h, k, v, z, y, a, b
  <2>1. El(b) # 0
    <3>1. El(z * h) # 0
      BY <1>1, <1>2, <1>6, ElZero
    <3> QED
      BY <1>3, <3>1
  <2>2. El(b * v) = El((z * h) * v)
    BY <1>1, <1>2, <1>3, ElIn
  <2>3. (z * h) * v = z * (h * v) /\ h * v \in Int
    BY <1>1, <1>2
  <2>4. El(z * (h * v)) = El(z * k)
    <3> DEFINE hv == h * v
    <3>1. hv \in Int /\ k \in Int /\ z \in Int /\ El(hv) = El(k)
      BY <1>1, <1>2, <1>6, <2>3
    <3> HIDE DEF hv
    <3>2. El(z * hv) = El(z * k)
      BY ONLY <3>1, ElFactor
    <3> QED
      BY <3>2 DEF hv
  <2>5. El(a) = El(b * v)
    BY <1>3, <2>2, <2>3, <2>4
  <2>6. fe_mul(a, fe_invert(b)) = El(v)
    BY <1>1, <1>3, <2>1, <2>5, Quotient
  <2> QED
    BY <1>1, <1>4, <2>6 DEF v
<1> QED
  BY <1>5, <1>6

\* The multiples of the point of low order: adding (sqrtm1, 0) turns the curve.
LopPoint == <<lop_x, lop_y>>

LEMMA LopIs ==
  /\ LopPoint \in Affine /\ lop_x \in Int /\ lop_y \in Int /\ El(lop_x) = lop_x /\ El(lop_y) = lop_y
  /\ lop_x \in Field /\ lop_y \in Field
  /\ AffineAdd(LopPoint, LopPoint) = Turned(Origin)
<1>1. lop_x \in Field /\ lop_y \in Field /\ OnCurve(LopPoint)
  BY LowOrderAssumption DEF Field, LopPoint
<1>2. LopPoint \in Affine
  BY <1>1 DEF Affine, LopPoint
<1>3. Times(2, LopPoint) = <<sqrtm1, 0>>
  BY LowOrderAssumption DEF LopPoint
<1>4. Times(2, LopPoint) = AffineAdd(LopPoint, LopPoint)
  <2> DEFINE one == 1
  <2>1. one \in Nat /\ 2 * one = 2 /\ Times(one, LopPoint) = LopPoint
    BY <1>2, MultIs
  <2> HIDE DEF one
  <2>2. Times(2 * one, LopPoint) = AffineAdd(Times(one, LopPoint), Times(one, LopPoint))
    BY <1>2, <2>1, TimesTwice
  <2> QED
    BY <2>1, <2>2
<1>5. Turned(Origin) = <<sqrtm1, 0>>
  <2>1. sqrtm1 * 1 = sqrtm1 /\ sqrtm1 * 0 = 0
    BY MinusOne
  <2> QED
    BY <2>1, MinusOne, OneIs DEF Turned, Origin
<1> QED
  BY <1>1, <1>2, <1>3, <1>4, <1>5, ElField

LEMMA LopTurns == El(sqrtm1 * lop_y) = lop_x /\ El(sqrtm1 * lop_x) = El(-lop_y)
<1> DEFINE p == LopPoint
           n == Negated(p)
           i == sqrtm1
           x == lop_x
           y == lop_y
           mx == -x
           my == -y
<1>1. p \in Affine /\ n \in Affine /\ AffineAdd(n, p) = Origin /\ n = <<El(-x), y>> /\ Turned(n) \in Affine
  <2>1. p \in Affine /\ n \in Affine /\ AffineAdd(p, n) = Origin /\ n = <<El(-p[1]), p[2]>>
    BY LopIs, NegatedIs
  <2>2. AffineAdd(p, n) = AffineAdd(n, p)
    BY <2>1, Commutes
  <2>3. p[1] = x /\ p[2] = y
    BY DEF LopPoint
  <2> QED
    BY <2>1, <2>2, <2>3, TurnedIs
<1>2. AffineAdd(Turned(n), p) = Turned(Origin)
  BY <1>1, TurnedSum
<1>3. Turned(n) = p
  BY <1>1, <1>2, LopIs, SumCancel
<1>4. Turned(n) = <<El(i * y), El(i * El(mx))>>
  <2>1. n[1] = El(mx) /\ n[2] = y
    BY <1>1
  <2> QED
    BY <2>1 DEF Turned
<1>5. El(i * y) = x /\ El(i * El(mx)) = y
  <2>1. p = <<x, y>>
    BY DEF LopPoint
  <2> HIDE DEF n, p, x, y, i, mx
  <2>2. <<El(i * y), El(i * El(mx))>> = <<x, y>>
    BY <1>3, <1>4, <2>1
  <2> QED
    BY <2>2
<1>6. x \in Int /\ y \in Int /\ i \in Int /\ mx \in Int /\ my \in Int /\ El(y) = y /\ i * y \in Int
  BY LopIs, MinusOne
<1>7. El(i * x) = El(my)
  <2>1. El(i * El(i * y)) = El(i * (i * y))
    BY <1>6, ElIn
  <2>2. i * (i * y) = (i * i) * y /\ i * i \in Int
    BY <1>6
  <2> DEFINE m == -1
             ii == i * i
  <2>3. m \in Int /\ ii \in Int /\ El(ii) = El(m) /\ m * y = my
    BY <1>6, <2>2, MinusOne
  <2> HIDE DEF m, ii, x, y, my, i
  <2>4. El(ii * y) = El(m * y)
    <3>1. ii \in Int /\ m \in Int /\ y \in Int /\ El(ii) = El(m)
      BY <1>6, <2>3
    <3> QED
      BY ONLY <3>1, ElFactor
  <2> QED
    BY <1>5, <2>1, <2>2, <2>3, <2>4 DEF ii
<1> QED
  BY <1>5, <1>7

LEMMA TurnedTwice ==
  ASSUME NEW x \in Field, NEW y \in Field
  PROVE  /\ Turned(<<x, y>>) = <<El(sqrtm1 * y), El(sqrtm1 * x)>>
         /\ Turned(Turned(<<x, y>>)) = <<El(-x), El(-y)>>
<1> DEFINE i == sqrtm1
<1>1. x \in Int /\ y \in Int /\ i \in Int /\ i * x \in Int /\ i * y \in Int /\ El(x) = x /\ El(y) = y
  BY ElField, MinusOne
<1>2. Turned(<<x, y>>) = <<El(i * y), El(i * x)>>
  BY DEF Turned
<1>3. Turned(Turned(<<x, y>>)) = <<El(i * El(i * x)), El(i * El(i * y))>>
  BY <1>2 DEF Turned
<1>4. ASSUME NEW z \in Int
      PROVE  El(i * El(i * z)) = El(-z)
  <2> DEFINE iz == i * z
             ii == i * i
             m == -1
             mz == -z
  <2>1. iz \in Int /\ ii \in Int /\ m \in Int /\ i * iz = ii * z /\ m * z = mz /\ El(ii) = El(m)
    BY <1>1, MinusOne
  <2> HIDE DEF iz, ii, m, mz, i
  <2>2. El(i * El(iz)) = El(i * iz)
    BY <1>1, <2>1, ElIn
  <2>3. El(ii * z) = El(m * z)
    BY <2>1, ElFactor
  <2> QED
    BY <2>1, <2>2, <2>3 DEF iz, mz
<1> QED
  BY <1>1, <1>2, <1>3, <1>4

LEMMA MinusElIs ==
  ASSUME NEW x \in Field
  PROVE  El(-El(-x)) = x
<1> DEFINE m == -x
<1>1. x \in Int /\ m \in Int /\ -m = x /\ El(x) = x
  BY ElField
<1> DEFINE o == 0
<1>2. o \in Int /\ o - El(m) = -El(m) /\ o - m = -m
  BY <1>1, ElIs
<1> HIDE DEF o, m
<1>3. El(o - El(m)) = El(o - m)
  BY ONLY <1>1, <1>2, ElIn
<1> QED
  BY <1>1, <1>2, <1>3 DEF m

\* Adding a point with an odd part to one of even order.
LEMMA LopAdds ==
  ASSUME NEW n \in Nat
  PROVE  /\ Times(n, LopPoint) \in Affine
         /\ Times(n + 2, LopPoint) = Turned(Times(n, LopPoint))
<1> DEFINE p == LopPoint
           two == 2
<1>1. p \in Affine /\ AffineAdd(p, p) = Turned(Origin) /\ Origin \in Affine
  BY LopIs, OriginIs
<1>2. Times(n, p) \in Affine /\ Mult(n, p) = Times(n, p)
  BY <1>1, MultIs, TimesIs
<1>3. Times(two, p) = Turned(Origin)
  <2> DEFINE one == 1
  <2>1. one \in Nat /\ 2 * one = two /\ Times(one, p) = p
    BY <1>1, MultIs
  <2> HIDE DEF one, two, p
  <2>2. Times(2 * one, p) = AffineAdd(Times(one, p), Times(one, p))
    BY <1>1, <2>1, TimesTwice
  <2> QED
    BY <1>1, <2>1, <2>2
<1>4. two \in Nat /\ two \in Int /\ n \in Int /\ two + n \in Nat /\ two + n = n + 2
  OBVIOUS
<1> HIDE DEF p, two
<1>5. Mult(two + n, p) = AffineAdd(Mult(two, p), Mult(n, p))
  BY <1>1, <1>4, MultSum
<1>6. Mult(two + n, p) = Times(two + n, p) /\ Mult(two, p) = Times(two, p)
  BY <1>1, <1>4, MultIs
<1>7. AffineAdd(Turned(Origin), Times(n, p)) = Turned(AffineAdd(Origin, Times(n, p)))
  BY <1>1, <1>2, TurnedSum
<1>8. AffineAdd(Origin, Times(n, p)) = Times(n, p)
  BY <1>2, OriginIs
<1> QED
  BY <1>2, <1>3, <1>4, <1>5, <1>6, <1>7, <1>8 DEF p

LEMMA LowTimes ==
  LET x == lop_x
      y == lop_y
      T(k) == Times(k, LopPoint)
  IN /\ T(0) = <<0, 1>> /\ T(1) = <<x, y>> /\ T(2) = <<sqrtm1, 0>> /\ T(3) = <<x, El(-y)>>
     /\ T(4) = <<0, El(-1)>> /\ T(5) = <<El(-x), El(-y)>> /\ T(6) = <<El(-sqrtm1), 0>>
     /\ T(7) = <<El(-x), y>> /\ T(8) = Origin
<1> DEFINE x == lop_x
           y == lop_y
           i == sqrtm1
           T(k) == Times(k, LopPoint)
<1>1. x \in Field /\ y \in Field /\ i \in Field /\ 0 \in Field /\ 1 \in Field /\ El(1) = 1 /\ El(0) = 0
      /\ i * 1 = i /\ i * 0 = 0 /\ El(i) = i /\ -0 = 0
  <2>1. x \in Field /\ y \in Field
    BY LopIs
  <2>2. i \in Field /\ El(i) = i /\ i \in Int
    BY MinusOne
  <2>3. i * 1 = i /\ i * 0 = 0
    BY <2>2
  <2>4. -0 = 0
    <3> DEFINE o == 0
    <3>1. o \in Int /\ o <= 0 /\ o >= 0
      OBVIOUS
    <3> HIDE DEF o
    <3>2. -o = o
      BY <3>1, MinusZero
    <3> QED
      BY <3>2 DEF o
  <2> QED
    BY <2>1, <2>2, <2>3, <2>4, OneIs
<1>2. T(0) = <<0, 1>> /\ T(1) = <<x, y>>
  BY LopIs, MultIs, TimesIs DEF Origin, LopPoint
<1>3. /\ T(0 + 2) = Turned(T(0)) /\ T(1 + 2) = Turned(T(1)) /\ T(2 + 2) = Turned(T(2)) /\ T(3 + 2) = Turned(T(3))
      /\ T(4 + 2) = Turned(T(4)) /\ T(5 + 2) = Turned(T(5)) /\ T(6 + 2) = Turned(T(6))
  <2> HIDE DEF T
  <2>1. \A n \in Nat : T(n + 2) = Turned(T(n))
    BY LopAdds DEF T
  <2> QED
    BY <2>1
<1>4. /\ T(2) = Turned(T(0)) /\ T(3) = Turned(T(1)) /\ T(4) = Turned(T(2)) /\ T(5) = Turned(T(3))
      /\ T(6) = Turned(T(4)) /\ T(7) = Turned(T(5)) /\ T(8) = Turned(T(6))
  <2>1. 0 + 2 = 2 /\ 1 + 2 = 3 /\ 2 + 2 = 4 /\ 3 + 2 = 5 /\ 4 + 2 = 6 /\ 5 + 2 = 7 /\ 6 + 2 = 8
    OBVIOUS
  <2> HIDE DEF T
  <2> QED
    BY <1>3, <2>1
<1> HIDE DEF T
<1>5. T(2) = <<i, 0>> /\ T(4) = <<0, El(-1)>>
  <2>1. Turned(<<0, 1>>) = <<El(i * 1), El(i * 0)>> /\ Turned(Turned(<<0, 1>>)) = <<El(-0), El(-1)>>
    BY <1>1, TurnedTwice
  <2> QED
    BY <1>1, <1>2, <1>4, <2>1
<1>6. T(3) = <<x, El(-y)>> /\ T(5) = <<El(-x), El(-y)>>
  <2>1. Turned(<<x, y>>) = <<El(i * y), El(i * x)>> /\ Turned(Turned(<<x, y>>)) = <<El(-x), El(-y)>>
    BY <1>1, TurnedTwice
  <2> QED
    BY <1>2, <1>4, <2>1, LopTurns
<1>7. T(6) = <<El(-i), 0>>
  <2>1. Turned(Turned(<<i, 0>>)) = <<El(-i), El(-0)>>
    BY <1>1, TurnedTwice
  <2> QED
    BY <1>1, <1>4, <1>5, <2>1
<1>8. T(7) = <<El(-x), y>>
  <2>1. El(-y) \in Field /\ El(-El(-y)) = y
    BY <1>1, MinusElIs, ElIs, LopIs
  <2>2. Turned(Turned(<<x, El(-y)>>)) = <<El(-x), El(-El(-y))>>
    BY <1>1, <2>1, TurnedTwice
  <2> QED
    BY <1>4, <1>6, <2>1, <2>2
<1>9. T(8) = Origin
  <2>1. El(-1) \in Field /\ El(-El(-1)) = 1
    BY <1>1, MinusElIs, MinusOne, ElIs
  <2>2. Turned(Turned(<<0, El(-1)>>)) = <<El(-0), El(-El(-1))>>
    BY <1>1, <2>1, TurnedTwice
  <2> QED
    BY <1>1, <1>4, <1>5, <2>1, <2>2 DEF Origin
<1> QED
  BY <1>2, <1>5, <1>6, <1>7, <1>8, <1>9 DEF T

\* The bits of a cofactor choose the coordinates of the multiple.
LEMMA SelectIs ==
  ASSUME NEW c \in 0 .. 7
  PROVE  <<select_lop(lop_x, sqrtm1, c), select_lop(lop_y, 1, (c + 2) % 8)>> = Times(c, LopPoint)
<1> DEFINE bit(k, i) == scalar_bit(k, i)
<1>1. 2 ^ 0 = 1 /\ 2 ^ 1 = 2 /\ 2 ^ 2 = 4
  <2>1. Bits - 1 >= 1 /\ 0 \in 0 .. (Bits - 1) /\ 1 \in 0 .. (Bits - 1) /\ 0 + 1 = 1 /\ 1 + 1 = 2
    BY TwosAre
  <2>2. 2 ^ (0 + 1) = 2 * 2 ^ 0 /\ 2 ^ (1 + 1) = 2 * 2 ^ 1 /\ 2 ^ 0 = 1
    BY Zenon, <2>1, TwosAre
  <2> QED
    BY <2>1, <2>2
<1>2. ASSUME NEW k \in Nat
      PROVE  bit(k, 0) = (k \div 1) % 2 /\ bit(k, 1) = (k \div 2) % 2 /\ bit(k, 2) = (k \div 4) % 2
  <2>1. ~(0 < 0) /\ ~(1 < 0) /\ ~(2 < 0)
    OBVIOUS
  <2> QED
    BY Zenon, <1>1, <2>1 DEF scalar_bit
<1>3. /\ bit(0, 0) = 0 /\ bit(0, 1) = 0 /\ bit(0, 2) = 0 /\ bit(1, 0) = 1 /\ bit(1, 1) = 0 /\ bit(1, 2) = 0
      /\ bit(2, 0) = 0 /\ bit(2, 1) = 1 /\ bit(2, 2) = 0 /\ bit(3, 0) = 1 /\ bit(3, 1) = 1 /\ bit(3, 2) = 0
      /\ bit(4, 0) = 0 /\ bit(4, 1) = 0 /\ bit(4, 2) = 1 /\ bit(5, 0) = 1 /\ bit(5, 1) = 0 /\ bit(5, 2) = 1
      /\ bit(6, 0) = 0 /\ bit(6, 1) = 1 /\ bit(6, 2) = 1 /\ bit(7, 0) = 1 /\ bit(7, 1) = 1 /\ bit(7, 2) = 1
  <2> HIDE DEF bit
  <2>1. \A k \in Nat : bit(k, 0) = (k \div 1) % 2 /\ bit(k, 1) = (k \div 2) % 2 /\ bit(k, 2) = (k \div 4) % 2
    BY <1>2
  <2>2. bit(0, 0) = 0 /\ bit(0, 1) = 0 /\ bit(0, 2) = 0 /\ bit(1, 0) = 1 /\ bit(1, 1) = 0 /\ bit(1, 2) = 0
    BY <2>1
  <2>3. bit(2, 0) = 0 /\ bit(2, 1) = 1 /\ bit(2, 2) = 0 /\ bit(3, 0) = 1 /\ bit(3, 1) = 1 /\ bit(3, 2) = 0
    BY <2>1
  <2>4. bit(4, 0) = 0 /\ bit(4, 1) = 0 /\ bit(4, 2) = 1 /\ bit(5, 0) = 1 /\ bit(5, 1) = 0 /\ bit(5, 2) = 1
    BY <2>1
  <2>5. bit(6, 0) = 0 /\ bit(6, 1) = 1 /\ bit(6, 2) = 1 /\ bit(7, 0) = 1 /\ bit(7, 1) = 1 /\ bit(7, 2) = 1
    BY <2>1
  <2> QED
    BY <2>2, <2>3, <2>4, <2>5
<1>4. fe_neg(0) = 0 /\ fe_neg(1) = El(-1) /\ \A x \in Int : fe_neg(x) = El(-x)
  <2>1. fe_neg(0) = El(0) /\ El(0) = 0
    BY OneIs DEF fe_neg, El
  <2> QED
    BY <2>1 DEF fe_neg, El
<1>5. ASSUME NEW x, NEW k
      PROVE  /\ select_lop(x, k, 0) = 0 /\ select_lop(x, k, 1) = x /\ select_lop(x, k, 2) = k /\ select_lop(x, k, 3) = x
             /\ select_lop(x, k, 4) = fe_neg(0) /\ select_lop(x, k, 5) = fe_neg(x)
             /\ select_lop(x, k, 6) = fe_neg(k) /\ select_lop(x, k, 7) = fe_neg(x)
  <2>1. 0 # 1
    OBVIOUS
  <2> QED
    BY Zenon, <1>3, <2>1 DEF select_lop
<1>6. /\ (0 + 2) % 8 = 2 /\ (1 + 2) % 8 = 3 /\ (2 + 2) % 8 = 4 /\ (3 + 2) % 8 = 5
      /\ (4 + 2) % 8 = 6 /\ (5 + 2) % 8 = 7 /\ (6 + 2) % 8 = 0 /\ (7 + 2) % 8 = 1
  OBVIOUS
<1>7. fe_neg(lop_x) = El(-lop_x) /\ fe_neg(lop_y) = El(-lop_y) /\ fe_neg(sqrtm1) = El(-sqrtm1)
  BY <1>4, LopIs, MinusOne
<1> DEFINE G(k) == <<select_lop(lop_x, sqrtm1, k), select_lop(lop_y, 1, (k + 2) % 8)>> = Times(k, LopPoint)
<1>8. G(0) /\ G(1) /\ G(2) /\ G(3)
  BY <1>4, <1>5, <1>6, <1>7, LowTimes
<1>9. G(4) /\ G(5) /\ G(6) /\ G(7)
  BY <1>4, <1>5, <1>6, <1>7, LowTimes
<1>10. c = 0 \/ c = 1 \/ c = 2 \/ c = 3 \/ c = 4 \/ c = 5 \/ c = 6 \/ c = 7
  OBVIOUS
<1> HIDE DEF G
<1>11. G(c)
  BY <1>8, <1>9, <1>10
<1> QED
  BY <1>11 DEF G

\* Both versions of a dirty key add the multiple of the point of low order that the bits
\* below the cofactor choose to the clean key.
DirtyPoint(x) == AffineAdd(Times(crypto_eddsa_trim_scalar(x), B), Times(x % 8, LopPoint))

LEMMA DirtyPointIs ==
  ASSUME NEW x \in Scalars
  PROVE  /\ DirtyPoint(x) \in Affine /\ x \in Nat /\ x % 8 \in 0 .. 7 /\ x % 8 \in Nat
         /\ Times(x % 8, LopPoint) \in Affine /\ Times(crypto_eddsa_trim_scalar(x), B) \in Affine
<1> DEFINE t == crypto_eddsa_trim_scalar(x)
           c == x % 8
<1>1. x \in Nat
  BY ScalarIs
<1>2. c \in 0 .. 7 /\ c \in Nat
  BY <1>1
<1>3. t \in Nat /\ B \in Affine /\ LopPoint \in Affine
  BY <1>1, TrimResidue, BaseIs, LopIs
<1> HIDE DEF t, c
<1>4. Times(t, B) \in Affine /\ Times(c, LopPoint) \in Affine
  BY <1>2, <1>3, TimesIs
<1>5. AffineAdd(Times(t, B), Times(c, LopPoint)) \in Affine
  BY <1>4, SumClosed
<1> QED
  BY <1>1, <1>2, <1>4, <1>5 DEF DirtyPoint, t, c

LEMMA DirtyFast ==
  ASSUME NEW x \in Scalars
  PROVE  crypto_x25519_dirty_fast(x) = MontgomeryU(DirtyPoint(x))
<1> DEFINE t == crypto_eddsa_trim_scalar(x)
           c == x % 8
           p == Times(c, LopPoint)
           clean == ge_scalarmult_base(t)
           low == ge_precomp(select_lop(lop_x, sqrtm1, c), select_lop(lop_y, 1, (x + 2) % 8))
<1>1. x \in Nat /\ c \in 0 .. 7 /\ p \in Affine /\ t \in Scalars
  BY DirtyPointIs, TrimIs
<1>2. (x + 2) % 8 = (c + 2) % 8
  BY <1>1
<1>3. <<select_lop(lop_x, sqrtm1, c), select_lop(lop_y, 1, (c + 2) % 8)>> = p
  <2> HIDE DEF c
  <2> QED
    BY <1>1, SelectIs
<1>4. low = ge_precomp(p[1], p[2])
  <2> DEFINE a == select_lop(lop_x, sqrtm1, c)
             b == select_lop(lop_y, 1, (c + 2) % 8)
  <2>1. <<a, b>> = p /\ low = ge_precomp(a, b)
    BY <1>2, <1>3
  <2> HIDE DEF a, b, p, low
  <2>2. p[1] = a /\ p[2] = b
    BY <2>1
  <2> QED
    BY <2>1, <2>2
<1>5. Cached(low, p) /\ Rep(clean, Times(t, B)) /\ Times(t, B) \in Affine
  BY <1>1, <1>4, PrecompIs, ScalarBaseIs
<1> HIDE DEF low, clean, p, t, c
<1>6. Rep(ge_add(clean, low), AffineAdd(Times(t, B), p))
  BY <1>1, <1>5, AddIs
<1>7. AffineAdd(Times(t, B), p) = DirtyPoint(x)
  BY DEF DirtyPoint, p, t, c
<1>8. crypto_x25519_dirty_fast(x) = UCoordinate(ge_add(clean, low))
  BY DEF crypto_x25519_dirty_fast, clean, low, t, c
<1> QED
  BY <1>6, <1>7, <1>8, DirtyPointIs, UCoordinateIs

LEMMA DirtyScalar ==
  ASSUME NEW x \in Scalars
  PROVE  LET t == crypto_eddsa_trim_scalar(x)
             n == t + L * (x % 8)
         IN add_xl(t, x % 8) = n /\ n \in Nat /\ n < 2 ^ Bits /\ (5 * n) % 8 = x % 8
<1> DEFINE t == crypto_eddsa_trim_scalar(x)
           c == x % 8
           n == t + L * c
           h == 2 ^ (Bits - 1)
           W == Weight[N]
<1>1. x \in Nat /\ c \in 0 .. 7 /\ c \in Nat /\ c % 8 = c
  BY DirtyPointIs
<1>2. t \in Scalars /\ t % 8 = 0 /\ t < h /\ t \in Nat
  BY <1>1, TrimIs, ScalarIs
<1>3. h \in Nat /\ 2 ^ Bits = 2 * h /\ 7 * L <= h /\ L \in Nat /\ L % 8 = 5
  <2>1. Bits - 1 \in 0 .. (Bits - 1) /\ Bits - 1 \in 0 .. Bits /\ (Bits - 1) + 1 = Bits
    BY TwosAre
  <2>2. 2 ^ ((Bits - 1) + 1) = 2 * 2 ^ (Bits - 1) /\ 2 ^ (Bits - 1) \in Nat
    BY Zenon, <2>1, TwosAre
  <2> QED
    BY <2>1, <2>2, OrderAssumption, ScalarLAssumption
<1>4. W = 2 ^ Bits
  <2>1. N \in 0 .. 2 * N
    BY Limbed
  <2> QED
    BY <2>1, WeightIsPower, WidthAssumption
<1> HIDE DEF t, h
<1> DEFINE Lc == L * c
<1>5. Lc \in Nat /\ Lc <= 7 * L
  BY <1>1, <1>3
<1>6. n \in Nat /\ n < 2 ^ Bits
  <2> HIDE DEF Lc, c
  <2>1. t + Lc \in Nat /\ t + Lc < 2 * h
    BY <1>2, <1>3, <1>5
  <2> QED
    BY <1>3, <2>1 DEF Lc
<1>7. add_xl(t, c) = n
  <2> HIDE DEF c, W
  <2>1. t + L * (c % 8) < Weight[N]
    BY <1>1, <1>4, <1>6 DEF W
  <2>2. add_xl(t, c) = t + L * (c % 8)
    BY <1>1, <1>2, <2>1, AddXlIs
  <2> QED
    BY <1>1, <2>2
<1>8. (5 * n) % 8 = c
  <2> DEFINE j == L \div 8
             k == t \div 8
             jc == j * c
             e == 5 * k + 5 * jc + 3 * c
  <2>1. L = 8 * j + 5 /\ t = 8 * k /\ j \in Int /\ k \in Int
    BY <1>2, <1>3
  <2> HIDE DEF j, k, c, e
  <2>2. L * c = 8 * jc + 5 * c /\ jc \in Int
    BY <1>1, <2>1
  <2> HIDE DEF jc
  <2>3. 5 * n = 8 * e + c /\ e \in Int
    BY <1>1, <2>1, <2>2 DEF e
  <2>4. (8 * e + c) % 8 = c
    BY <1>1, <2>3
  <2> QED
    BY <2>3, <2>4
<1> QED
  BY <1>6, <1>7, <1>8 DEF t

LEMMA DirtySmall ==
  ASSUME NEW x \in Scalars
  PROVE  crypto_x25519_dirty_small(x) = MontgomeryU(DirtyPoint(x))
<1> DEFINE t == crypto_eddsa_trim_scalar(x)
           c == x % 8
           n == t + L * c
           p == LopPoint
           five == 5
           eight == 8
           D == AffineAdd(B, Times(five, p))
<1>1. x \in Nat /\ c \in 0 .. 7 /\ c \in Nat /\ c \in Int /\ t \in Nat /\ t \in Int /\ L \in Nat
  BY DirtyPointIs, TrimResidue, ScalarLAssumption
<1>2. add_xl(t, c) = n /\ n \in Nat /\ n \in Int /\ n < 2 ^ Bits /\ (five * n) % eight = c
  BY DirtyScalar
<1>3. B \in Affine /\ p \in Affine /\ Times(five, p) \in Affine /\ D \in Affine
  <2>1. B \in Affine /\ p \in Affine /\ five \in Nat
    BY BaseIs, LopIs
  <2> HIDE DEF five, p
  <2>2. Times(five, p) \in Affine
    BY <2>1, TimesIs
  <2> QED
    BY <2>1, <2>2, SumClosed
<1>4. DirtyBase = MontgomeryU(D)
  BY LowOrderAssumption DEF LopPoint
<1> HIDE DEF D, five, eight, p, c, t
<1>5. scalarmult(n, MontgomeryU(D), Bits) = MontgomeryU(Times(n, D))
  <2>1. Bits \in 1 .. Bits
    BY TwosAre
  <2> HIDE DEF n
  <2> QED
    BY <1>2, <1>3, <2>1, LadderIs
<1>6. crypto_x25519_dirty_small(x) = MontgomeryU(Times(n, D))
  BY <1>2, <1>4, <1>5 DEF crypto_x25519_dirty_small, t, c
<1>7. Times(n, D) = AffineAdd(Mult(n, B), Mult(n, Times(five, p)))
  <2> HIDE DEF n
  <2>1. Mult(n, AffineAdd(B, Times(five, p))) = AffineAdd(Mult(n, B), Mult(n, Times(five, p)))
    BY <1>2, <1>3, MultPlus
  <2>2. Mult(n, D) = Times(n, D)
    BY <1>2, <1>3, MultIs
  <2> QED
    BY <2>1, <2>2 DEF D
<1>8. Mult(n, B) = Times(t, B)
  <2>1. Mult(t + L * c, B) = Mult(t, B)
    BY <1>1, BaseRepeats
  <2>2. Mult(t, B) = Times(t, B)
    BY <1>1, <1>3, MultIs
  <2> QED
    BY <2>1, <2>2
<1>9. Mult(n, Times(five, p)) = Times(c, p)
  <2> HIDE DEF n
  <2> DEFINE m == n * five
  <2>1. five \in Nat /\ five \in Int /\ m \in Nat /\ m \in Int /\ m % eight = c /\ eight \in Nat \ {0}
    <3>1. n * five = five * n
      BY <1>2 DEF five
    <3> QED
      BY <1>2, <3>1 DEF five, eight
  <2>2. Mult(five, p) = Times(five, p) /\ Mult(m, p) = Times(m, p)
    BY <1>3, <2>1, MultIs
  <2>3. Mult(n, Mult(five, p)) = Mult(n * five, p)
    BY <1>2, <1>3, <2>1, MultTimes
  <2>4. Times(eight, p) = Origin
    BY LowTimes DEF eight, p
  <2> HIDE DEF m
  <2>5. Times(m, p) = Times(m % eight, p)
    BY <1>3, <2>1, <2>4, TimesRepeats
  <2> QED
    BY <2>1, <2>2, <2>3, <2>5 DEF m
<1>10. DirtyPoint(x) = AffineAdd(Times(t, B), Times(c, p))
  BY DEF DirtyPoint, t, c, p
<1> QED
  BY <1>6, <1>7, <1>8, <1>9, <1>10

-----------------------------------------------------------------------------
(* Squares, and the maps of Elligator.                                     *)


LEMMA SquareSame ==
  ASSUME NEW a \in Int, NEW b \in Int, El(a) = El(b), IsSquare(a)
  PROVE  IsSquare(b)
BY DEF IsSquare

\* The square of a unit may be left out.
LEMMA SquareUnit ==
  ASSUME NEW a \in Int, NEW c \in Int, El(c) # 0
  PROVE  IsSquare(a * (c * c)) <=> IsSquare(a)
<1> DEFINE cc == c * c
<1>0. cc \in Int /\ a * cc \in Int
  OBVIOUS
<1>1. ASSUME IsSquare(a)
      PROVE  IsSquare(a * cc)
  <2>1. PICK y \in Int : El(y * y) = El(a)
    BY <1>1 DEF IsSquare
  <2>2. (y * c) * (y * c) = (y * y) * cc /\ y * c \in Int /\ y * y \in Int
    OBVIOUS
  <2> DEFINE yy == y * y
  <2>3. yy \in Int /\ a \in Int /\ El(yy) = El(a)
    BY <2>1, <2>2
  <2> HIDE DEF cc, yy
  <2>4. El(yy * cc) = El(a * cc)
    BY ONLY ZenonT(60), <1>0, <2>3, ElFactor
  <2> QED
    BY <2>2, <2>4 DEF IsSquare, yy
<1>2. ASSUME IsSquare(a * cc)
      PROVE  IsSquare(a)
  <2>1. PICK y \in Int : El(y * y) = El(a * cc)
    BY <1>2 DEF IsSquare
  <2>2. PICK e \in Int : El(c * e) = 1
    BY Invertible
  <2> DEFINE ce == c * e
             yy == y * y
             acc == a * cc
             ee == e * e
  <2>3. ce \in Int /\ yy \in Int /\ acc \in Int /\ ee \in Int /\ El(yy) = El(acc)
    BY <1>0, <2>1
  <2>4. (y * e) * (y * e) = yy * ee /\ acc * ee = (a * ce) * ce /\ y * e \in Int /\ a * ce \in Int
    OBVIOUS
  <2> HIDE DEF yy, acc, ee
  <2>5. El(yy * ee) = El(acc * ee)
    <3>1. yy \in Int
      BY <2>3
    <3>2. acc \in Int
      BY <2>3
    <3>3. ee \in Int
      BY <2>3
    <3>4. El(yy) = El(acc)
      BY <2>3
    <3> QED
      BY ONLY ZenonT(60), <3>1, <3>2, <3>3, <3>4, ElFactor
  <2> DEFINE f == a * ce
  <2>6. f \in Int /\ ce \in Int /\ El(ce) = 1
    BY <2>2, <2>3, <2>4
  <2>7. El(f) = El(a)
    <3>1. a \in Int /\ ce \in Int /\ El(ce) = 1
      BY <2>6
    <3> HIDE DEF ce
    <3>2. El(a * ce) = El(a)
      BY ONLY <3>1, ElUnit
    <3> QED
      BY <3>2
  <2> HIDE DEF ce, f
  <2>8. El(f * ce) = El(f)
    BY ONLY <2>6, ElUnit
  <2>9. El((y * e) * (y * e)) = El(a)
    BY <2>4, <2>5, <2>7, <2>8 DEF f
  <2> QED
    BY <2>4, <2>9 DEF IsSquare
<1> QED
  BY <1>1, <1>2

LEMMA RootNotSquare == ~IsSquare(sqrtm1)
<1> SUFFICES ASSUME IsSquare(sqrtm1) PROVE FALSE
  OBVIOUS
<1> DEFINE i == sqrtm1
           n == 2 * Eighth + 1
           q == Power(i, n)
           m == -1
           p == Power(m, Eighth)
           pp == p * p
           one == 1
<1>1. i \in Int /\ El(i) # 0 /\ El(i * i) = El(m) /\ m \in Int /\ El(m) # 1 /\ Eighth \in Nat /\ n \in Nat /\ one \in Int
  BY MinusOne, EighthIs
<1>2. q \in {1, El(m)}
  BY <1>1, SquareIs
<1>3. El(q * q) = 1
  <2>1. El(1 * 1) = 1 /\ m * m = 1
    BY OneIs
  <2>2. El(El(m) * El(m)) = El(m * m)
    BY <1>1, ElIn
  <2> HIDE DEF q, m
  <2> QED
    BY <1>2, <2>1, <2>2, OneIs
<1>4. El(m) = El(i * i)
  BY <1>1
<1> HIDE DEF i, n
<1>5. Power(m, n) = El(q * q)
  BY <1>1, <1>4, PowerProduct
<1>6. Power(m, n) = El(pp * m)
  <2> HIDE DEF m
  <2>1. Power(m, 2 * Eighth + 1) = El((Power(m, Eighth) * Power(m, Eighth)) * m)
    BY <1>1, PowerTwice
  <2> QED
    BY <2>1 DEF n
<1>7. El(pp) = 1 /\ pp \in Int
  <2>1. El(one) = El(m * m)
    OBVIOUS
  <2>2. p \in Int
    BY <1>1, PowerIs, ElField
  <2> HIDE DEF m, one
  <2>3. Power(one, Eighth) = El(Power(m, Eighth) * Power(m, Eighth))
    BY <1>1, <2>1, PowerProduct
  <2>4. Power(one, Eighth) = 1
    BY <1>1, PowerOfOne DEF one
  <2> QED
    BY <2>2, <2>3, <2>4
<1> HIDE DEF pp, m, q
<1>8. El(pp * m) = El(m)
  BY <1>1, <1>7, ElUnit
<1> QED
  BY <1>1, <1>3, <1>5, <1>6, <1>8

LEMMA TwoNotSquare == ~IsSquare(2)
<1> SUFFICES ASSUME IsSquare(2) PROVE FALSE
  OBVIOUS
<1> DEFINE i == sqrtm1
           ii == i * i
           m == -1
<1>1. PICK y \in Int : El(y * y) = El(2)
  BY DEF IsSquare
<1>2. i \in Int /\ El(ii) = El(m) /\ El(2) # 0 /\ ii \in Int /\ m \in Int
  BY MinusOne
<1> DEFINE s == 1 + i
           j == 2 * i
           yy == y * y
           two == 2
\* (1 + i)^2 = 2 i.
<1>3. El(s * s) = El(j) /\ s \in Int /\ j \in Int
  <2>1. s * s - j = ii - m /\ s * s \in Int /\ j \in Int /\ s \in Int
    BY <1>2
  <2> HIDE DEF s, j, ii, m
  <2>2. El(ii - m) = 0
    BY <1>2, ElSame
  <2> QED
    BY <2>1, <2>2, ElSame
<1>4. El(i * yy) = El(j) /\ yy \in Int /\ i * yy \in Int
  <2>1. yy \in Int /\ two \in Int /\ El(yy) = El(two) /\ i * two = j
    BY <1>1, <1>2
  <2> HIDE DEF yy, two
  <2>2. El(i * yy) = El(i * two)
    BY <1>2, <2>1, ElFactor
  <2> QED
    BY <1>2, <2>1, <2>2
<1>5. IsSquare(i * yy)
  BY <1>3, <1>4 DEF IsSquare
<1>6. El(y) # 0
  <2> SUFFICES ASSUME El(y) = 0 PROVE FALSE
    OBVIOUS
  <2>1. El(y * y) = 0
    BY ZeroTimes
  <2> QED
    BY <1>1, <1>2, <2>1
<1>7. IsSquare(i)
  BY <1>2, <1>5, <1>6, SquareUnit
<1> QED
  BY <1>7, RootNotSquare

\* The product of two elements that are no squares is one.
LEMMA NonSquares ==
  ASSUME NEW a \in Int, NEW b \in Int, ~IsSquare(a), ~IsSquare(b)
  PROVE  IsSquare(a * b)
<1> DEFINE i == sqrtm1
<1>0. i \in Int /\ El(i) = i /\ i # 0 /\ i * i \in Int
  BY MinusOne
<1>1. ASSUME NEW x \in Int, ~IsSquare(x)
      PROVE  \E r \in Int : El(x * (r * r)) = i
  <2> DEFINE e == El(x)
  <2>1. e \in Field /\ e \in Int /\ El(e) = e
    BY ElIs
  <2>2. ~IsSquare(e)
    BY <1>1, <2>1 DEF IsSquare
  <2>3. e # 0
    <3>1. El(0 * 0) = El(0) /\ 0 \in Int
      BY OneIs
    <3> QED
      BY <2>2, <3>1 DEF IsSquare
  <2> HIDE DEF e
  <2> DEFINE r == invsqrt(e).root
             rr == r * r
  <2>4. r \in Int /\ rr \in Int /\ El(e * rr) = i
    <3>1. InvRoot(e, invsqrt(e))
      BY <2>1, InvSqrt
    <3>2. r \in Field /\ El(e * (r * r)) = i
      BY <2>2, <2>3, <3>1 DEF InvRoot
    <3>3. r \in Int
      BY <3>2, ElField
    <3> HIDE DEF r
    <3> QED
      BY <3>2, <3>3
  <2> HIDE DEF rr
  <2>5. El(El(x) * rr) = El(x * rr)
    BY <2>4, ElIn
  <2> QED
    BY <2>4, <2>5 DEF e, rr
<1>2. PICK r \in Int : El(a * (r * r)) = i
  BY <1>1
<1>3. PICK s \in Int : El(b * (s * s)) = i
  BY <1>1
<1> DEFINE f == a * (r * r)
           g == b * (s * s)
           c == r * s
<1>4. (a * b) * (c * c) = f * g /\ c \in Int /\ f \in Int /\ g \in Int /\ a * b \in Int
  OBVIOUS
<1>5. El(f) = i /\ El(g) = i
  BY <1>2, <1>3
<1>6. El(f * g) = El(i * i)
  <2> HIDE DEF f, g, i
  <2>1. El(El(f) * El(g)) = El(f * g)
    BY <1>4, ElIn
  <2> QED
    BY <1>5, <2>1
<1>7. IsSquare(f * g)
  BY <1>0, <1>6 DEF IsSquare
<1>8. El(c) # 0
  <2> SUFFICES ASSUME El(c) = 0 PROVE FALSE
    OBVIOUS
  <2>1. f * g = (a * b) * (c * c) /\ (a * b) * c \in Int /\ (a * b) * (c * c) = ((a * b) * c) * c
    BY <1>4
  <2> DEFINE k == (a * b) * c
  <2> HIDE DEF c, f, g
  <2>2. El(k * c) = 0
    BY <1>4, <2>1, ZeroTimes
  <2>3. El(i * i) = 0
    BY <1>6, <2>1, <2>2
  <2> QED
    BY <1>0, <2>3, ElZero
<1> HIDE DEF c, f, g
<1> QED
  BY <1>4, <1>7, <1>8, SquareUnit


Eps(u) == u * ((u * u + A * u) + 1)

LEMMA MontgomeryIs ==
  /\ A \in Int /\ A \in Field /\ El(A) = A /\ El(A) # 0 /\ El(A + 2) # 0 /\ d \in Int
  /\ El(d * (A + 2) - (2 - A)) = 0
  /\ \E s \in Int : El(s * s) = El(-(A + 2))
<1> DEFINE z1 == a24 * d - (1 - a24)
           z2 == 4 * a24 - (A + 2)
           f1 == 4
           f2 == (-d) - 1
<1>1. A \in Int /\ A \in Field /\ El(A) = A /\ d \in Int /\ a24 \in Int /\ El(a24) # 0
  BY CurveIs, A24Is
<1>2. z1 \in Int /\ z2 \in Int /\ El(z1) = 0 /\ El(z2) = 0 /\ f1 \in Int /\ f2 \in Int
  <2>1. z1 \in Int /\ z2 \in Int /\ f1 \in Int /\ f2 \in Int /\ 4 * a24 \in Int /\ A + 2 \in Int
    BY <1>1
  <2>2. El(4 * a24) = El(A + 2) /\ El(a24 * d - (1 - a24)) = 0
    BY A24Is
  <2> DEFINE u == 4 * a24
             v == A + 2
  <2>3. u \in Int /\ v \in Int /\ El(u) = El(v) /\ z2 = u - v
    BY <2>1, <2>2
  <2> HIDE DEF u, v, z2
  <2>4. El(z2) = 0
    BY <2>3, ElSame
  <2> QED
    BY <2>1, <2>2, <2>4 DEF z1
<1>3. El(d * (A + 2) - (2 - A)) = 0
  <2>1. d * (A + 2) - (2 - A) = f1 * z1 + f2 * z2
    BY <1>1
  <2> HIDE DEF f1, f2, z1, z2
  <2>2. El(f1 * z1 + f2 * z2) = 0
    BY <1>2, ZeroSum
  <2> QED
    BY <2>1, <2>2
<1>4. El(A + 2) # 0
  <2> DEFINE u == 4
             v == A + 2
  <2>1. El(u) # 0
    <3>1. El(2) # 0 /\ 2 \in Int /\ 2 * 2 = u
      BY MinusOne
    <3> HIDE DEF u
    <3>2. El(2 * 2) # 0
      BY <3>1, ElZero
    <3> QED
      BY <3>1, <3>2
  <2>2. u \in Int /\ El(u * a24) = El(v)
    BY A24Is
  <2> HIDE DEF u
  <2>3. El(u * a24) # 0
    BY <1>1, <2>1, <2>2, ElZero
  <2> QED
    BY <2>2, <2>3
<1>5. El(A) # 0
  <2> SUFFICES ASSUME A = 0 PROVE FALSE
    BY <1>1
  <2>1. d * (A + 2) - (2 - A) = 2 * (d - 1) /\ d - 1 \in Int /\ 2 \in Int
    BY <1>1
  <2> DEFINE e == d - 1
             one == 1
  <2>2. El(2 * e) = 0 /\ e \in Int /\ 2 \in Int /\ e = d - one /\ one \in Int /\ El(one * one) = one /\ El(one) = one
    BY <1>3, <2>1, OneIs
  <2> HIDE DEF e, one
  <2>3. El(e) = 0
    BY <2>2, ElZero, MinusOne
  <2>4. El(d) = El(one)
    BY <1>1, <2>2, <2>3, ElSame
  <2>5. El(d) = d
    BY CurveIs
  <2>6. El(one * one) # d
    BY <2>2, CurveIs
  <2> QED
    BY <2>2, <2>4, <2>5, <2>6
<1>6. \E s \in Int : El(s * s) = El(-(A + 2))
  <2>1. PICK s \in 0 .. P - 1 : fe_sq(s) = fe_neg(A + 2)
    BY MontgomeryAssumption
  <2>2. s \in Int
    BY <2>1, PrimeIs
  <2>3. fe_sq(s) = El(s * s) /\ fe_neg(A + 2) = El(-(A + 2))
    BY DEF fe_sq, fe_mul, fe_neg, El
  <2> QED
    BY <2>1, <2>2, <2>3
<1> QED
  BY <1>1, <1>3, <1>4, <1>5, <1>6

\* u^2 + A u + 1 has no roots.
LEMMA NoOtherRoots ==
  ASSUME NEW u \in Int
  PROVE  Eps(u) \in Int /\ El((u * u + A * u) + 1) # 0 /\ (El(u) # 0 => El(Eps(u)) # 0)
<1> DEFINE q == (u * u + A * u) + 1
           i == sqrtm1
           s == 2 * u + A
           is == i * s
           v == A + 2
           z1 == d * (A + 2) - (2 - A)
           z2 == i * i - (-1)
<1>1. A \in Int /\ d \in Int /\ i \in Int /\ El(v) # 0 /\ El(z1) = 0 /\ El(i * i) = El(-1)
  BY MontgomeryIs, MinusOne
<1>2. q \in Int /\ s \in Int /\ is \in Int /\ v \in Int /\ z1 \in Int /\ z2 \in Int
  BY <1>1
<1>3. El(z2) = 0
  <2> DEFINE ii == i * i
             m == -1
  <2>1. ii \in Int /\ m \in Int /\ El(ii) = El(m) /\ z2 = ii - m
    BY <1>1
  <2> HIDE DEF ii, m, z2
  <2> QED
    BY <2>1, ElSame
<1>4. El(q) # 0
  <2> SUFFICES ASSUME El(q) = 0 PROVE FALSE
    OBVIOUS
  \* (i (2 u + A))^2 = (A^2 - 4) i^2 + 4 i^2 q = d (A + 2)^2.
  <2> DEFINE f1 == -v
             f2 == (4 * q + A * A) - 4
             f3 == -4
             t == Three(f1, z1, f2, z2, f3, q)
  <2>1. f1 \in Int /\ f2 \in Int /\ f3 \in Int
    BY <1>1, <1>2
  <2>2. is * is = d * (v * v) + t
    BY <1>1, <1>2 DEF Three
  <2>3. El(t) = 0 /\ t \in Int
    <3> HIDE DEF f1, f2, f3, z1, z2, q
    <3>a. z1 \in Int /\ z2 \in Int /\ q \in Int /\ El(z1) = 0 /\ El(z2) = 0 /\ El(q) = 0
      BY <1>1, <1>2, <1>3 DEF z1
    <3>1. El(t) = 0
      BY ONLY <3>a, <2>1, ZeroThree
    <3>2. t \in Int
      BY <1>2, <2>1 DEF Three
    <3> QED
      BY <3>1, <3>2
  <2>4. is * is \in Int /\ d * (v * v) \in Int
    BY <1>1, <1>2
  <2> DEFINE a == is * is
             b == d * (v * v)
  <2> HIDE DEF t, a, b
  <2>5. a = b + t /\ a \in Int /\ b \in Int
    BY <2>2, <2>4 DEF a, b
  <2>6. El(a) = El(b)
    BY <2>3, <2>5, ElFrom
  <2> HIDE DEF is, v
  <2> QED
    BY <1>1, <1>2, <2>6, NonSquare DEF a, b
<1>5. Eps(u) \in Int /\ Eps(u) = u * q
  BY <1>1, <1>2 DEF Eps
<1>6. El(u) # 0 => El(Eps(u)) # 0
  <2> HIDE DEF q
  <2> QED
    BY <1>2, <1>4, <1>5, ElZero
<1> QED
  BY <1>4, <1>5, <1>6

Cube(w) == (w * w) * w
\* w^3 Eps(a / w).
Lifted(a, w) == a * ((a * a + A * (a * w)) + w * w)

LEMMA LiftedIs ==
  ASSUME NEW u \in Int, NEW w \in Int, NEW a \in Int, El(u * w) = El(a)
  PROVE  /\ El(Eps(u) * (Cube(w) * Cube(w))) = El(Lifted(a, w) * Cube(w))
         /\ El(Eps(u) * Cube(w)) = El(Lifted(a, w))
         /\ Eps(u) \in Int /\ Lifted(a, w) \in Int /\ Cube(w) \in Int
<1> DEFINE q == u * w
           e == q - a
           G == ((q * q + q * a) + a * a) + ((A * w) * (q + a) + w * w)
           c == Cube(w)
           E == Eps(u)
           F == Lifted(a, w)
           g == c * G
<1>1. A \in Int /\ q \in Int
  BY MontgomeryIs
<1>2. e \in Int /\ G \in Int /\ c \in Int /\ E \in Int /\ F \in Int /\ g \in Int
  BY <1>1 DEF Cube, Eps, Lifted
<1>3. El(e) = 0
  <2>1. q \in Int /\ a \in Int /\ El(q) = El(a)
    BY <1>1
  <2> HIDE DEF q
  <2> QED
    BY <2>1, ElSame
<1>4. E * c = F + G * e
  BY <1>1 DEF Cube, Eps, Lifted
<1>5. E * (c * c) = F * c + g * e
  <2> HIDE DEF E, F, G, e, c
  <2>1. E * (c * c) = (E * c) * c
    BY <1>2
  <2>2. (F + G * e) * c = F * c + (c * G) * e
    BY <1>2
  <2> QED
    BY <1>4, <2>1, <2>2
<1> HIDE DEF e, G, g, E, F, c
<1>6. El(G * e) = 0 /\ El(g * e) = 0 /\ G * e \in Int /\ g * e \in Int /\ E * c \in Int /\ E * (c * c) \in Int /\ F * c \in Int
  <2>1. El(G * e) = 0 /\ El(g * e) = 0
    BY <1>2, <1>3, ZeroTimes
  <2>2. G * e \in Int /\ g * e \in Int /\ E * c \in Int /\ F * c \in Int
    BY <1>2
  <2>3. E * (c * c) \in Int
    BY <1>2
  <2> QED
    BY <2>1, <2>2, <2>3
<1> DEFINE y == G * e
           z == g * e
           k == E * c
           l == E * (c * c)
           m == F * c
<1>7. y \in Int /\ z \in Int /\ k \in Int /\ l \in Int /\ m \in Int /\ k = F + y /\ l = m + z /\ El(y) = 0 /\ El(z) = 0
  BY <1>4, <1>5, <1>6
<1> HIDE DEF y, z, k, l, m
<1>8. El(k) = El(F)
  BY <1>2, <1>7, ElFrom
<1>9. El(l) = El(m)
  BY <1>7, ElFrom
<1> QED
  BY <1>2, <1>8, <1>9 DEF k, l, m, E, F, c

Wd(R) == 1 + 2 * R
Tn(R) == ((2 * R) * (A * A) - Wd(R) * Wd(R)) * A
Xn(R) == Tn(R) * Cube(Wd(R))

LEMMA LiftedRoots ==
  ASSUME NEW R \in Int
  PROVE  /\ Wd(R) \in Int /\ Tn(R) \in Int /\ Xn(R) \in Int /\ -A \in Int /\ -((2 * R) * A) \in Int
         /\ Lifted(-A, Wd(R)) = Tn(R)
         /\ Lifted(-((2 * R) * A), Wd(R)) = (2 * R) * Tn(R)
<1>1. A \in Int
  BY MontgomeryIs
<1>2. Wd(R) \in Int /\ Tn(R) \in Int /\ Cube(Wd(R)) \in Int
  BY <1>1 DEF Wd, Tn, Cube
<1>3. Xn(R) \in Int
  BY <1>2 DEF Xn
<1>4. Lifted(-A, Wd(R)) = Tn(R)
  BY <1>1 DEF Wd, Tn, Lifted
<1>5. Lifted(-((2 * R) * A), Wd(R)) = (2 * R) * Tn(R)
  BY <1>1 DEF Wd, Tn, Lifted
<1> QED
  BY <1>1, <1>2, <1>3, <1>4, <1>5

LEMMA EpsAt ==
  ASSUME NEW R \in Int, NEW u \in Int, El(Wd(R)) # 0
  PROVE  /\ El(u * Wd(R)) = El(-A) => (IsSquare(Eps(u)) <=> IsSquare(Xn(R)))
         /\ El(u * Wd(R)) = El(-((2 * R) * A)) => (IsSquare(Eps(u)) <=> IsSquare((2 * R) * Xn(R)))
<1> DEFINE w == Wd(R)
           c == Cube(w)
           E == Eps(u)
           a == -A
           b == -((2 * R) * A)
<1>1. w \in Int /\ a \in Int /\ b \in Int /\ Tn(R) \in Int /\ Xn(R) \in Int /\ Lifted(a, w) = Tn(R)
      /\ Lifted(b, w) = (2 * R) * Tn(R) /\ Xn(R) = Tn(R) * c
  BY LiftedRoots DEF Xn
<1>2. El(c) # 0 /\ c \in Int /\ E \in Int
  <2> HIDE DEF w
  <2>1. El(w * w) # 0 /\ w * w \in Int
    BY <1>1, ElTimes DEF w
  <2> DEFINE ww == w * w
  <2>2. ww \in Int /\ El(ww) # 0
    BY <2>1
  <2> HIDE DEF ww
  <2>a. w \in Int
    BY <1>1
  <2>b. El(w) # 0
    BY DEF w
  <2>c. ww * w \in Int
    BY <2>a, <2>2
  <2>d. El(ww * w) # 0
    BY ONLY <2>a, <2>b, <2>2, ElTimes
  <2>3. El(ww * w) # 0 /\ ww * w \in Int
    BY <2>c, <2>d
  <2> QED
    BY <2>3, NoOtherRoots DEF Cube, ww
<1>3. IsSquare(E * (c * c)) <=> IsSquare(E)
  <2> HIDE DEF E, c
  <2> QED
    BY <1>2, SquareUnit
<1>4. E * (c * c) \in Int
  <2> HIDE DEF E, c
  <2> QED
    BY <1>2
<1> HIDE DEF w, c, E, a, b
<1> DEFINE l == E * (c * c)
<1>5. ASSUME El(u * w) = El(a)
      PROVE  IsSquare(E) <=> IsSquare(Xn(R))
  <2>1. El(l) = El(Lifted(a, w) * c)
    BY ZenonT(60), <1>1, <1>5, LiftedIs DEF E, c
  <2>2. El(l) = El(Xn(R)) /\ l \in Int
    BY <1>1, <1>4, <2>1
  <2> HIDE DEF l
  <2> QED
    BY <1>1, <1>3, <2>2, SquareSame DEF l
<1>6. ASSUME El(u * w) = El(b)
      PROVE  IsSquare(E) <=> IsSquare((2 * R) * Xn(R))
  <2>1. El(l) = El(Lifted(b, w) * c)
    BY ZenonT(60), <1>1, <1>6, LiftedIs DEF E, c
  <2>2. ((2 * R) * Tn(R)) * c = (2 * R) * Xn(R) /\ (2 * R) * Xn(R) \in Int
    BY <1>1, <1>2
  <2> DEFINE x == (2 * R) * Xn(R)
  <2>3. El(l) = El(x) /\ l \in Int /\ x \in Int
    BY <1>1, <1>4, <2>1, <2>2
  <2> HIDE DEF l, x
  <2>4. IsSquare(l) <=> IsSquare(x)
    BY <2>3, SquareSame
  <2> QED
    BY <1>3, <2>4 DEF l, x
<1> QED
  BY <1>5, <1>6 DEF E, w, a, b

LEMMA RootSquares ==
  ASSUME NEW r \in Int
  PROVE  LET R == r * r
         IN /\ R \in Int /\ 2 * R \in Int /\ (El(r) # 0 => ~IsSquare(2 * R) /\ El(2 * R) # 0)
            /\ El(Wd(R)) # 0 /\ El(Tn(R)) # 0 /\ El(Xn(R)) # 0
            /\ El(r) = 0 => El(R) = 0
<1> DEFINE R == r * r
           two == 2
           T == two * R
           w == Wd(R)
<1>1. R \in Int /\ two \in Int /\ T \in Int /\ w \in Int /\ w = 1 + T /\ A \in Int /\ El(A) # 0 /\ T = 2 * R
  BY MontgomeryIs DEF Wd
<1>2. ASSUME El(r) # 0
      PROVE  ~IsSquare(T) /\ El(T) # 0
  <2>1. ~IsSquare(two) /\ El(two) # 0
    BY TwoNotSquare, MinusOne
  <2> HIDE DEF two
  <2>2. IsSquare(two * (r * r)) <=> IsSquare(two)
    BY <1>1, <1>2, SquareUnit
  <2>3. El(r * r) # 0 /\ r * r \in Int
    BY <1>2, ElTimes
  <2> HIDE DEF R
  <2>4. El(two * R) # 0
    BY <1>1, <2>1, <2>3, ElTimes DEF R
  <2> QED
    BY <2>1, <2>2, <2>4 DEF R
<1>3. El(r) = 0 => El(R) = 0
  BY ZeroTimes
<1>4. El(r) = 0 => El(T) = 0
  <2> SUFFICES ASSUME El(r) = 0 PROVE El(T) = 0
    OBVIOUS
  <2>1. El(R) = 0
    BY <1>3
  <2> HIDE DEF R, two
  <2> QED
    BY <1>1, <2>1, ZeroTimes
<1> HIDE DEF R, T, w, two
<1>5. El(T) = 0 => El(w) = 1
  <2> SUFFICES ASSUME El(T) = 0 PROVE El(w) = 1
    OBVIOUS
  <2> DEFINE one == 1
  <2>1. one \in Int /\ w = one + T /\ El(one) = 1
    BY <1>1, OneIs
  <2> HIDE DEF one
  <2>2. El(w) = El(one)
    BY <1>1, <2>1, ElFrom
  <2> QED
    BY <2>1, <2>2
<1>6. El(w) # 0
  <2> SUFFICES ASSUME El(w) = 0 PROVE FALSE
    OBVIOUS
  <2>1. El(r) # 0
    BY <1>4, <1>5
  <2> DEFINE m == -1
             i == sqrtm1
  <2>2. T - m = w /\ m \in Int
    BY <1>1
  <2> HIDE DEF m
  <2>3. El(T) = El(m)
    BY <1>1, <2>2, ElSame
  <2>4. i \in Int /\ El(i * i) = El(m)
    BY MinusOne DEF m
  <2>5. IsSquare(T)
    BY <2>3, <2>4 DEF IsSquare
  <2> QED
    BY <1>2, <2>1, <2>5
<1>7. El(Tn(R)) # 0
  <2> DEFINE t == T * (A * A)
             ww == w * w
             e == t - ww
  <2>1. t \in Int /\ ww \in Int /\ e \in Int /\ Tn(R) = e * A
    BY <1>1 DEF Tn, w
  <2>2. El(e) # 0
    <3> SUFFICES ASSUME El(e) = 0 PROVE FALSE
      OBVIOUS
    <3>1. El(t) = El(ww)
      <4> HIDE DEF t, ww
      <4> QED
        BY <2>1, ElSame
    <3>2. IsSquare(t)
      BY <1>1, <3>1 DEF IsSquare
    <3>3. IsSquare(T)
      BY <1>1, <3>2, SquareUnit
    <3>4. El(r) = 0
      BY <1>2, <3>3
    <3>5. El(T) = 0 /\ El(w) = 1
      BY <1>4, <1>5, <3>4
    <3>6. El(t) = 0
      <4> DEFINE aa == A * A
      <4>1. aa \in Int /\ T \in Int /\ El(T) = 0
        BY <1>1, <3>5
      <4> HIDE DEF aa
      <4>2. El(T * aa) = 0
        BY ONLY <4>1, ZeroTimes
      <4> QED
        BY <4>2 DEF aa
    <3>7. El(ww) = El(w)
      BY <1>1, <3>5, ElUnit
    <3> QED
      BY <3>1, <3>5, <3>6, <3>7
  <2> HIDE DEF e
  <2>3. El(e * A) # 0
    BY <1>1, <2>1, <2>2, ElTimes
  <2> QED
    BY <2>1, <2>3
<1>8. El(Xn(R)) # 0
  <2> DEFINE ww == w * w
             t == Tn(R)
             c == ww * w
  <2>1. ww \in Int /\ El(ww) # 0
    BY <1>1, <1>6, ElTimes
  <2> HIDE DEF ww
  <2>2. c \in Int
    BY <1>1, <2>1
  <2>3. El(c) # 0
    <3>1. ww \in Int /\ w \in Int /\ El(ww) # 0 /\ El(w) # 0
      BY <1>1, <1>6, <2>1
    <3> QED
      BY ONLY <3>1, ElTimes DEF c
  <2>4. t \in Int /\ El(t) # 0
    BY <1>1, <1>7, LiftedRoots
  <2> HIDE DEF c, t
  <2>5. El(t * c) # 0
    BY <2>2, <2>3, <2>4, ElTimes
  <2> QED
    BY <2>5 DEF Xn, Cube, t, c, ww, w
<1> QED
  BY <1>1, <1>2, <1>3, <1>6, <1>7, <1>8 DEF R, T, two, w

\* The values of the map, their product with the denominator and the root of X.
MapValue(f, R, root) == -((((f * A) * Tn(R)) * (Wd(R) * Wd(R))) * (root * root))

LEMMA MapUnfold ==
  ASSUME NEW h, h.r \in Field
  PROVE  LET R == h.r * h.r
             root == invsqrt(El(Xn(R)))
         IN crypto_elligator_map(h) = El(MapValue(IF root.is_square THEN 1 ELSE R * (-(2 * sqrtm1)), R, root.root))
<1> DEFINE r == h.r
           R == r * r
           R2 == R + R
           w == R2 + 1
           ww == w * w
           a == A * A
           b == a * R2
           e == b - ww
           t == e * A
           c == ww * w
           X == t * c
           root == invsqrt(El(X))
           i == sqrtm1
           j == 2 * i
           mj == -j
           f == IF root.is_square THEN 1 ELSE R * mj
           factor == IF root.is_square THEN 1 ELSE fe_mul(El(R), ufactor)
<1>1. r \in Int /\ El(r) = r /\ A \in Int /\ i \in Int
  BY ElField, MontgomeryIs, MinusOne
<1>2. R \in Int /\ R2 \in Int /\ w \in Int /\ ww \in Int /\ a \in Int /\ b \in Int /\ e \in Int /\ t \in Int /\ c \in Int /\ X \in Int
      /\ j \in Int /\ mj \in Int
  BY <1>1
<1>3. fe_sq(fe_frombytes(r)) = El(R)
  BY <1>1, FieldRead DEF El, fe_sq, fe_mul
<1>4. fe_add(El(R), El(R)) = El(R2) /\ fe_add(El(R2), 1) = El(w)
  <2> HIDE DEF R
  <2>1. fe_add(El(R), El(R)) = El(R2)
    BY <1>2, FeIn
  <2> DEFINE one == 1
  <2>2. one \in Int
    OBVIOUS
  <2> HIDE DEF one, R2
  <2>3. fe_add(El(R2), one) = El(R2 + one)
    BY <1>2, <2>2, FeIn
  <2> QED
    BY <2>1, <2>3 DEF one
<1>5. fe_sq(El(w)) = El(ww) /\ A2 = El(a)
  <2> HIDE DEF w
  <2>1. fe_sq(El(w)) = El(ww)
    BY <1>2, FeInOne
  <2> QED
    BY <2>1 DEF A2, fe_sq, fe_mul, El
<1>6. fe_mul(El(a), El(R2)) = El(b) /\ fe_sub(El(b), El(ww)) = El(e) /\ fe_mul(El(e), A) = El(t)
  <2>1. fe_mul(El(a), El(R2)) = El(b)
    <3> HIDE DEF a, R2
    <3> QED
      BY <1>2, FeIn
  <2>2. fe_sub(El(b), El(ww)) = El(e)
    <3> HIDE DEF b, ww
    <3> QED
      BY <1>2, FeIn
  <2>3. fe_mul(El(e), A) = El(t)
    <3> HIDE DEF e
    <3> QED
      BY <1>1, <1>2, FeIn
  <2> QED
    BY <2>1, <2>2, <2>3
<1>7. fe_mul(El(ww), El(w)) = El(c) /\ fe_mul(El(t), El(c)) = El(X)
  <2>1. fe_mul(El(ww), El(w)) = El(c)
    <3> HIDE DEF ww, w
    <3> QED
      BY <1>2, FeIn
  <2>2. fe_mul(El(t), El(c)) = El(X)
    <3> HIDE DEF t, c
    <3> QED
      BY <1>2, FeIn
  <2> QED
    BY <2>1, <2>2
<1>8. ufactor = El(mj) /\ fe_mul(El(R), ufactor) = El(R * mj)
  <2>1. ufactor = fe_neg(El(j))
    BY DEF ufactor, fe_mul, El
  <2> HIDE DEF j
  <2>2. fe_neg(El(j)) = El(mj)
    BY <1>2, FeInOne
  <2> HIDE DEF mj, R
  <2>3. fe_mul(El(R), El(mj)) = El(R * mj)
    BY <1>2, FeIn
  <2> QED
    BY <2>1, <2>2, <2>3
<1>9. crypto_elligator_map(h) = fe_neg(fe_mul(fe_mul(fe_mul(fe_mul(factor, A), El(t)), El(ww)), fe_sq(root.root)))
  <2> HIDE DEF X, t, c, e, b, a, ww, w, R2, R
  <2> QED
    BY Zenon, <1>3, <1>4, <1>5, <1>6, <1>7 DEF crypto_elligator_map
<1>10. El(X) \in Field /\ root.root \in Int
  <2> HIDE DEF X
  <2>1. El(X) \in Field
    BY <1>2, ElIs
  <2>2. InvRoot(El(X), root)
    BY <2>1, InvSqrt
  <2>3. root.root \in Field
    BY <2>2 DEF InvRoot
  <2> QED
    BY <2>1, <2>3, ElField
<1>11. factor = El(f) /\ f \in Int
  <2>1. El(1) = 1 /\ 1 \in Int
    BY OneIs
  <2>2. R * mj \in Int
    <3> HIDE DEF R, mj
    <3> QED
      BY <1>2
  <2> HIDE DEF root, R, mj
  <2> QED
    BY <1>8, <2>1, <2>2
<1> DEFINE q == root.root
           qq == q * q
           g == f * A
           k == g * t
           l == k * ww
           v == l * qq
<1> HIDE DEF root, f, factor, t, ww, X
<1>12. q \in Int /\ qq \in Int /\ g \in Int /\ k \in Int /\ l \in Int /\ v \in Int
  <2>1. q \in Int /\ f \in Int /\ t \in Int /\ ww \in Int
    BY <1>2, <1>10, <1>11
  <2>2. qq \in Int /\ g \in Int
    BY <1>1, <2>1
  <2>3. k \in Int
    BY <2>1, <2>2
  <2>4. l \in Int
    BY <2>1, <2>3
  <2> HIDE DEF l, qq, q
  <2>5. v \in Int
    BY <2>2, <2>4
  <2> QED
    BY <2>1, <2>2, <2>3, <2>4, <2>5
<1>13. fe_mul(factor, A) = El(g) /\ fe_mul(El(g), El(t)) = El(k) /\ fe_mul(El(k), El(ww)) = El(l)
       /\ fe_sq(q) = El(qq) /\ fe_mul(El(l), El(qq)) = El(v) /\ fe_neg(El(v)) = El(-v)
  <2>1. fe_mul(factor, A) = El(g)
    BY <1>1, <1>11, FeIn
  <2> HIDE DEF g
  <2>2. fe_mul(El(g), El(t)) = El(k)
    BY <1>2, <1>12, FeIn
  <2> HIDE DEF k
  <2>3. fe_mul(El(k), El(ww)) = El(l)
    BY <1>2, <1>12, FeIn
  <2>4. fe_sq(q) = El(qq)
    BY DEF fe_sq, fe_mul, El
  <2> HIDE DEF l, qq
  <2>5. fe_mul(El(l), El(qq)) = El(v)
    BY <1>12, FeIn
  <2> HIDE DEF v
  <2>6. fe_neg(El(v)) = El(-v)
    BY <1>12, FeInOne
  <2> QED
    BY <2>1, <2>2, <2>3, <2>4, <2>5, <2>6
<1>14. crypto_elligator_map(h) = El(-v)
  <2> HIDE DEF g, k, l, qq, v, q
  <2> QED
    BY Zenon, <1>9, <1>13 DEF q
<1>15. w = Wd(R) /\ t = Tn(R) /\ X = Xn(R) /\ ww = Wd(R) * Wd(R)
  <2>1. w = Wd(R)
    BY <1>2 DEF Wd
  <2>2. t = Tn(R)
    <3> HIDE DEF R, w
    <3> QED
      BY <1>1, <1>2, <2>1 DEF Tn, t, ww
  <2> QED
    BY <2>1, <2>2 DEF Xn, Cube, X, ww
<1>16. -v = MapValue(f, R, q)
  <2> HIDE DEF R, q
  <2> QED
    BY <1>15 DEF MapValue
<1> QED
  BY <1>14, <1>15, <1>16 DEF f, root

\* The map chooses, of the two roots, the one that is on the curve.
LEMMA MapIs ==
  ASSUME NEW h, h.r \in Field
  PROVE  LET R == h.r * h.r
             u == crypto_elligator_map(h)
         IN /\ u \in Field /\ u \in Int /\ El(u) = u
            /\ IsSquare(Xn(R)) => El(u * Wd(R)) = El(-A)
            /\ ~IsSquare(Xn(R)) => El(u * Wd(R)) = El(-((2 * R) * A))
<1> DEFINE r == h.r
           R == r * r
           X == Xn(R)
           W == Wd(R)
           t == Tn(R)
           root == invsqrt(El(X))
           i == sqrtm1
           f == IF root.is_square THEN 1 ELSE R * (-(2 * i))
           q == root.root
           qq == q * q
           V == MapValue(f, R, q)
           u == crypto_elligator_map(h)
           s == X * qq
<1>1. r \in Int /\ R \in Int /\ A \in Int /\ i \in Int /\ El(i * i) = El(-1)
  <2>1. r \in Int
    BY ElField
  <2> QED
    BY <2>1, MontgomeryIs, MinusOne
<1>2. X \in Int /\ W \in Int /\ t \in Int /\ El(X) # 0 /\ El(W) # 0 /\ X = t * Cube(W)
  <2>1. El(X) # 0 /\ El(W) # 0
    BY <1>1, RootSquares
  <2> HIDE DEF R
  <2> QED
    BY <1>1, <2>1, LiftedRoots DEF Xn
<1>3. u = El(V)
  BY MapUnfold
<1> HIDE DEF R, X, W, t, u
<1>4. q \in Int /\ (root.is_square <=> IsSquare(X)) /\ El(El(X) * qq) = IF root.is_square THEN 1 ELSE i
  <2>1. El(X) \in Field
    BY <1>2, ElIs
  <2>2. InvRoot(El(X), root)
    BY <2>1, InvSqrt
  <2>3. q \in Field /\ (root.is_square <=> IsSquare(El(X)))
    BY <2>2 DEF InvRoot
  <2>4. IsSquare(El(X)) <=> IsSquare(X)
    BY <1>2, ElIs DEF IsSquare
  <2>5. El(El(X) * qq) = IF root.is_square THEN 1 ELSE i
    BY <1>2, <2>2 DEF InvRoot
  <2>6. q \in Int
    BY <2>3, ElField
  <2> QED
    BY <2>3, <2>4, <2>5, <2>6
<1> HIDE DEF root
<1>5. qq \in Int /\ f \in Int /\ s \in Int /\ V \in Int
  <2>1. qq \in Int
    BY <1>4
  <2>2. f \in Int
    BY <1>1
  <2>3. s \in Int
    BY <1>2, <1>4
  <2> HIDE DEF f, q
  <2>4. V \in Int
    BY <1>1, <1>2, <1>4, <2>2 DEF MapValue, t, W
  <2> QED
    BY <2>1, <2>2, <2>3, <2>4
<1>6. El(s) = IF root.is_square THEN 1 ELSE i
  <2> HIDE DEF qq
  <2>1. El(El(X) * qq) = El(X * qq)
    BY <1>2, <1>5, ElIn
  <2> QED
    BY <1>4, <2>1
<1>7. V * W = -((f * A) * s)
  <2>1. V = -((((f * A) * t) * (W * W)) * (q * q))
    BY DEF MapValue, t, W
  <2>2. X = t * ((W * W) * W)
    BY <1>2 DEF Cube
  <2> DEFINE fA == f * A
  <2>3. fA \in Int /\ t \in Int /\ W \in Int /\ qq \in Int /\ X \in Int
    <3> HIDE DEF f, qq
    <3> QED
      BY <1>1, <1>2, <1>5
  <2>4. V = -(((fA * t) * (W * W)) * qq) /\ s = X * qq
    BY <2>1
  <2> HIDE DEF fA, V, qq, s
  <2>5. V * W = -(fA * s)
    BY ONLY <2>2, <2>3, <2>4
  <2> QED
    BY <2>5 DEF fA
<1> HIDE DEF s, V, q
<1>8. El(u * W) = El(V * W) /\ u \in Field /\ u \in Int /\ El(u) = u
  <2>1. u \in Field /\ u \in Int /\ El(u) = u
    BY <1>3, <1>5, ElIs
  <2>2. El(El(V) * W) = El(V * W)
    BY <1>2, <1>5, ElIn
  <2> QED
    BY <1>3, <2>1, <2>2
<1>9. CASE root.is_square
  <2>1. f = 1 /\ El(s) = 1
    BY <1>6, <1>9
  <2> DEFINE ma == -A
  <2>2. V * W = ma * s /\ ma \in Int
    BY <1>1, <1>5, <1>7, <2>1
  <2> HIDE DEF ma
  <2>3. El(ma * s) = El(ma)
    BY <1>5, <2>1, <2>2, ElUnit
  <2> QED
    BY <1>4, <1>8, <1>9, <2>2, <2>3 DEF ma, u, R, X, W, r
<1>10. CASE ~root.is_square
  <2>1. f = R * (-(2 * i)) /\ El(s) = i /\ El(i) = i
    BY <1>6, <1>10, MinusOne
  <2> DEFINE g == (R * (2 * i)) * A
             k == (2 * R) * A
             m == -1
             ii == i * i
  <2>2. g \in Int /\ V * W = g * s /\ k \in Int /\ m \in Int /\ ii \in Int /\ g * i = k * ii /\ k * m = -k /\ El(ii) = El(m)
    <3>1. V * W = g * s
      BY <1>1, <1>5, <1>7, <2>1
    <3>2. g * i = k * ii /\ g \in Int /\ k \in Int /\ ii \in Int
      BY <1>1
    <3>3. k * m = -k
      <4> HIDE DEF k
      <4> QED
        BY <3>2
    <3> QED
      BY <1>1, <3>1, <3>2, <3>3
  <2> HIDE DEF g, k, m, ii
  <2>3. El(g * s) = El(g * i)
    <3>1. g \in Int
      BY <2>2
    <3>2. s \in Int
      BY <1>5
    <3>3. i \in Int
      BY <1>1
    <3>4. El(s) = El(i)
      BY <2>1
    <3> HIDE DEF i
    <3> QED
      BY ONLY <3>1, <3>2, <3>3, <3>4, ElFactor
  <2>4. El(k * ii) = El(k * m)
    <3>1. k \in Int
      BY <2>2
    <3>2. ii \in Int
      BY <2>2
    <3>3. m \in Int
      BY <2>2
    <3>4. El(ii) = El(m)
      BY <2>2
    <3> QED
      BY ONLY <3>1, <3>2, <3>3, <3>4, ElFactor
  <2>5. El(u * W) = El(-k)
    BY <1>8, <2>2, <2>3, <2>4
  <2> QED
    BY <1>4, <1>8, <1>10, <2>5 DEF k, u, R, X, W, r
<1> QED
  BY <1>9, <1>10

\* What the map returns is on the curve, and apart from 0 nothing else is of its form.
LEMMA MapOnCurve ==
  ASSUME NEW h, h.r \in Field
  PROVE  IsSquare(Eps(crypto_elligator_map(h)))
<1> DEFINE r == h.r
           R == r * r
           u == crypto_elligator_map(h)
           X == Xn(R)
<1>1. r \in Int /\ R \in Int /\ u \in Int /\ El(Wd(R)) # 0 /\ X \in Int /\ 2 * R \in Int
  <2>1. r \in Int
    BY ElField
  <2>2. R \in Int /\ El(Wd(R)) # 0 /\ 2 * R \in Int
    BY <2>1, RootSquares
  <2> HIDE DEF R
  <2>3. X \in Int
    BY <2>2, LiftedRoots
  <2> QED
    BY <2>1, <2>2, <2>3, MapIs DEF R
<1>2. /\ IsSquare(X) => El(u * Wd(R)) = El(-A)
      /\ ~IsSquare(X) => El(u * Wd(R)) = El(-((2 * R) * A))
  BY MapIs
<1>3. El(r) # 0 => ~IsSquare(2 * R)
  BY <1>1, RootSquares
<1>4. El(r) = 0 => El(2 * R) = 0
  <2>1. El(r) = 0 => El(R) = 0
    BY <1>1, RootSquares
  <2> DEFINE two == 2
  <2> HIDE DEF R, two
  <2>2. El(R) = 0 => El(two * R) = 0
    BY <1>1, ZeroTimes DEF two
  <2> QED
    BY <2>1, <2>2 DEF two
<1> HIDE DEF R, u, X
<1>5. /\ El(u * Wd(R)) = El(-A) => (IsSquare(Eps(u)) <=> IsSquare(X))
      /\ El(u * Wd(R)) = El(-((2 * R) * A)) => (IsSquare(Eps(u)) <=> IsSquare((2 * R) * X))
  BY <1>1, EpsAt DEF X
<1>6. CASE IsSquare(X)
  BY <1>2, <1>5, <1>6 DEF u
<1>7. CASE ~IsSquare(X)
  <2> DEFINE T == 2 * R
  <2>1. T \in Int /\ (El(r) # 0 => ~IsSquare(T)) /\ (El(r) = 0 => El(T) = 0) /\ T * X \in Int
    BY <1>1, <1>3, <1>4
  <2> HIDE DEF T
  <2>2. IsSquare(T * X)
    <3>1. CASE El(r) # 0
      BY <1>1, <1>7, <2>1, <3>1, NonSquares
    <3>2. CASE El(r) = 0
      <4>1. El(T * X) = 0
        BY <1>1, <2>1, <3>2, ZeroTimes
      <4>2. El(0 * 0) = 0 /\ 0 \in Int
        BY OneIs
      <4> QED
        BY <4>1, <4>2 DEF IsSquare
    <3> QED
      BY <3>1, <3>2
  <2> QED
    BY <1>2, <1>5, <1>7, <2>2 DEF T, u
<1> QED
  BY <1>6, <1>7

LEMMA MapUnique ==
  ASSUME NEW h, h.r \in Field, El(h.r) # 0, NEW v \in Field,
         \/ El(v * Wd(h.r * h.r)) = El(-A)
         \/ El(v * Wd(h.r * h.r)) = El(-((2 * (h.r * h.r)) * A)),
         IsSquare(Eps(v))
  PROVE  crypto_elligator_map(h) = v
<1> DEFINE r == h.r
           R == r * r
           u == crypto_elligator_map(h)
           X == Xn(R)
           W == Wd(R)
<1>1. r \in Int /\ R \in Int /\ u \in Int /\ El(u) = u /\ El(W) # 0 /\ X \in Int /\ 2 * R \in Int /\ v \in Int
      /\ El(v) = v /\ El(X) # 0 /\ W \in Int /\ ~IsSquare(2 * R)
  <2>1. r \in Int /\ v \in Int /\ El(v) = v
    BY ElField
  <2>2. R \in Int /\ El(W) # 0 /\ 2 * R \in Int /\ El(X) # 0 /\ ~IsSquare(2 * R)
    BY <2>1, RootSquares
  <2> HIDE DEF R
  <2>3. X \in Int /\ W \in Int
    BY <2>2, LiftedRoots
  <2> QED
    BY <2>1, <2>2, <2>3, MapIs DEF R
<1>2. /\ IsSquare(X) => El(u * W) = El(-A)
      /\ ~IsSquare(X) => El(u * W) = El(-((2 * R) * A))
  BY MapIs
<1>3. /\ El(v * W) = El(-A) => IsSquare(X)
      /\ El(v * W) = El(-((2 * R) * A)) => IsSquare((2 * R) * X)
  <2> HIDE DEF R
  <2> QED
    BY <1>1, EpsAt
<1>4. El(v * W) = El(-A) \/ El(v * W) = El(-((2 * R) * A))
  OBVIOUS
<1> HIDE DEF R, u, X, W
<1>5. IsSquare(X) => ~IsSquare((2 * R) * X)
  <2> SUFFICES ASSUME IsSquare(X), IsSquare((2 * R) * X) PROVE FALSE
    OBVIOUS
  <2> DEFINE T == 2 * R
             TX == T * X
  <2>1. T \in Int /\ ~IsSquare(T) /\ IsSquare(TX) /\ TX \in Int
    BY <1>1
  <2>2. PICK y \in Int : El(y * y) = El(X)
    BY DEF IsSquare
  <2> DEFINE yy == y * y
             Ty == T * yy
  <2>3. yy \in Int
    OBVIOUS
  <2>4. El(y) # 0
    <3> SUFFICES ASSUME El(y) = 0 PROVE FALSE
      OBVIOUS
    <3>1. El(y * y) = 0
      BY ZeroTimes
    <3> QED
      BY <1>1, <2>2, <3>1
  <2> HIDE DEF T
  <2>5. El(TX) = El(Ty) /\ Ty \in Int
    <3>1. T \in Int
      BY <2>1
    <3>2. X \in Int
      BY <1>1
    <3>3. El(X) = El(yy)
      BY <2>2
    <3>4. Ty \in Int
      BY <2>1, <2>3
    <3> HIDE DEF yy
    <3>5. El(T * X) = El(T * yy)
      BY ONLY <2>3, <3>1, <3>2, <3>3, ElFactor
    <3> QED
      BY <3>4, <3>5
  <2>6. IsSquare(Ty)
    <3> HIDE DEF TX, Ty
    <3> QED
      BY <2>1, <2>5, SquareSame
  <2> HIDE DEF yy
  <2>7. IsSquare(T)
    BY <2>1, <2>4, <2>6, SquareUnit DEF yy
  <2> QED
    BY <2>1, <2>7
<1>6. El(u * W) = El(v * W)
  BY <1>2, <1>3, <1>4, <1>5
<1>7. W * u = u * W /\ W * v = v * W
  BY <1>1
<1>8. El(u) = El(v)
  BY <1>1, <1>6, <1>7, ElCancel
<1> QED
  BY <1>1, <1>8 DEF u

LEMMA MapZero ==
  ASSUME NEW h, h.r = 0
  PROVE  /\ IsSquare(-A) => crypto_elligator_map(h) = El(-A)
         /\ ~IsSquare(-A) => crypto_elligator_map(h) = 0
         /\ Eps(-A) = -A
<1> DEFINE u == crypto_elligator_map(h)
           ma == -A
           z == h.r * h.r
<1>1. A \in Int /\ h.r \in Field /\ z = 0 /\ ma \in Int
  BY MontgomeryIs, OneIs
<1>2. Wd(z) = 1 /\ Tn(z) = ma /\ Xn(z) = ma /\ -((2 * z) * A) = 0
  <2>1. Wd(z) = 1
    BY <1>1 DEF Wd
  <2>2. Tn(z) = ma
    BY <1>1, <2>1 DEF Tn
  <2>3. Xn(z) = ma
    BY <1>1, <2>1, <2>2 DEF Xn, Cube
  <2>4. -((2 * z) * A) = 0
    <3> DEFINE o == (2 * z) * A
    <3>1. o \in Int /\ o <= 0 /\ o >= 0
      BY <1>1
    <3> HIDE DEF o
    <3>2. -o = o
      BY <3>1, MinusZero
    <3> QED
      BY <1>1, <3>2 DEF o
  <2> QED
    BY <2>1, <2>2, <2>3, <2>4
<1>3. /\ u \in Int /\ El(u) = u
      /\ IsSquare(Xn(z)) => El(u * Wd(z)) = El(-A)
      /\ ~IsSquare(Xn(z)) => El(u * Wd(z)) = El(-((2 * z) * A))
  BY <1>1, MapIs
<1>4. u * 1 = u
  BY <1>3
<1>5. Eps(-A) = -A
  BY <1>1 DEF Eps
<1> HIDE DEF z, u
<1> QED
  BY <1>2, <1>3, <1>4, <1>5, OneIs DEF u

Radicand(u) == (u * (u + A)) * (-2)
Tweaked(u, tweak) == IF tweak.sign = 1 THEN u + A ELSE u
RootOf(u) == invsqrt(El(Radicand(u)))
Positive(r) == IF fe_isodd(fe_mul(r, 2)) = 1 THEN fe_neg(r) ELSE r

LEMMA RevUnfold ==
  ASSUME NEW u \in Field, NEW tweak
  PROVE  /\ crypto_elligator_rev(u, tweak) =
              [ok |-> RootOf(u).is_square,
               hidden |-> [r |-> Positive(El(Tweaked(u, tweak) * RootOf(u).root)), pad |-> tweak.pad]]
         /\ u \in Int /\ El(u) = u /\ u + A \in Int /\ Radicand(u) \in Int /\ Tweaked(u, tweak) \in Int
         /\ RootOf(u).root \in Int /\ InvRoot(El(Radicand(u)), RootOf(u)) /\ El(Radicand(u)) \in Field
<1> DEFINE v == u + A
           uv == u * v
           m == -2
           Y == uv * m
           root == RootOf(u)
           t == Tweaked(u, tweak)
           k == IF tweak.sign = 1 THEN fe_add(u, A) ELSE u
<1>1. u \in Int /\ El(u) = u /\ A \in Int /\ v \in Int /\ uv \in Int /\ m \in Int /\ Y \in Int /\ Y = Radicand(u)
  <2>1. u \in Int /\ El(u) = u
    BY ElField
  <2>2. A \in Int
    BY MontgomeryIs
  <2> QED
    BY <2>1, <2>2 DEF Radicand
<1>2. fe_frombytes(u) = u /\ fe_add(u, A) = El(v) /\ fe_neg(2) = El(m)
  BY <1>1, FieldRead DEF fe_add, fe_neg, El
<1>3. fe_mul(u, El(v)) = El(uv) /\ fe_mul(El(uv), El(m)) = El(Y)
  <2>1. fe_mul(u, El(v)) = El(uv)
    <3> HIDE DEF v
    <3> QED
      BY <1>1, FeIn
  <2> HIDE DEF uv, m
  <2>2. fe_mul(El(uv), El(m)) = El(Y)
    BY <1>1, FeIn
  <2> QED
    BY <2>1, <2>2
<1>4. t \in Int /\ k \in Int /\ El(k) = El(t)
  <2>1. El(v) \in Int /\ El(El(v)) = El(v)
    <3> HIDE DEF v
    <3> QED
      BY <1>1, ElIs
  <2> QED
    BY <1>1, <1>2, <2>1 DEF Tweaked
<1>5. El(Y) \in Field /\ InvRoot(El(Y), root)
  <2> HIDE DEF Y
  <2>1. El(Y) \in Field
    BY <1>1, ElIs
  <2> QED
    BY <1>1, <2>1, InvSqrt DEF RootOf
<1>6. root.root \in Int
  <2>1. root.root \in Field
    BY <1>5 DEF InvRoot
  <2> QED
    BY <2>1, ElField
<1> HIDE DEF t, k, root
<1>7. fe_mul(k, root.root) = El(t * root.root)
  <2> DEFINE q == root.root
  <2>1. k \in Int /\ t \in Int /\ q \in Int /\ El(k) = El(t)
    BY <1>4, <1>6
  <2> HIDE DEF q
  <2>2. fe_mul(k, q) = El(k * q)
    BY <2>1, FeIs
  <2>3. El(k * q) = El(t * q)
    BY <2>1, ElFactor
  <2> QED
    BY <2>2, <2>3 DEF q
<1>8. crypto_elligator_rev(u, tweak) =
        LET r == fe_mul(k, root.root)
        IN [ok |-> root.is_square, hidden |-> [r |-> Positive(r), pad |-> tweak.pad]]
  <2>1. invsqrt(El(Y)) = root
    BY <1>1 DEF root, RootOf
  <2> HIDE DEF Y, uv, v, m
  <2> QED
    BY Zenon, <1>2, <1>3, <2>1 DEF crypto_elligator_rev, Positive, k
<1> QED
  BY <1>1, <1>4, <1>5, <1>6, <1>7, <1>8 DEF t, root

\* The smaller of the two opposite elements.
LEMMA PositiveIs ==
  ASSUME NEW r \in Field
  PROVE  /\ Positive(r) \in 0 .. ((P - 1) \div 2) /\ Positive(r) \in Field
         /\ Positive(r) = r \/ Positive(r) = El(-r)
         /\ \A b \in 0 .. ((P - 1) \div 2) : El(b) = El(r) \/ El(b) = El(-r) => Positive(r) = b
<1> DEFINE h == (P - 1) \div 2
<1>1. P \in Nat /\ h \in Nat /\ P = 2 * h + 1 /\ h > 1 /\ r \in 0 .. (2 * h) /\ r \in Int
  BY PrimeIs DEF Field
<1> HIDE DEF h
<1>2. \A x \in 0 .. (2 * h) : x % P = x
  <2>1. P \in Nat \ {0} /\ 2 * h = P - 1
    BY <1>1
  <2> QED
    BY <2>1, Remainders
<1>3. r = 0 => El(-r) = 0
  <2> DEFINE m == -r
  <2>1. r = 0 => m = 0
    <3>1. ASSUME r = 0 PROVE m = r
      <4>1. r \in Int /\ r <= 0 /\ r >= 0
        BY <1>1, <3>1
      <4> QED
        BY ONLY <4>1, MinusZero
    <3> QED
      BY <3>1
  <2> HIDE DEF m
  <2>2. r = 0 => El(m) = 0
    BY <2>1, OneIs
  <2> QED
    BY <2>2 DEF m
<1>4. r > 0 => El(-r) = P - r
  <2> DEFINE x == P - r
             m == -r
  <2>1. r > 0 => x \in 0 .. (2 * h) /\ m = P * (-1) + x /\ x \in Int
    BY <1>1
  <2> HIDE DEF x, m
  <2>2. -1 \in Int
    OBVIOUS
  <2>3. r > 0 => El(m) = El(x)
    BY <2>1, <2>2, ElMore
  <2>4. r > 0 => El(x) = x
    BY <1>2, <2>1 DEF El
  <2> QED
    BY <2>3, <2>4 DEF x, m
<1>5. CASE r <= h
  <2>1. r * 2 \in 0 .. (2 * h) /\ (r * 2) % 2 = 0
    BY <1>1, <1>5
  <2>2. fe_mul(r, 2) = r * 2
    BY <1>2, <2>1 DEF fe_mul
  <2>3. fe_isodd(fe_mul(r, 2)) = 0
    BY <2>1, <2>2 DEF fe_isodd
  <2>4. Positive(r) = r /\ r \in 0 .. h
    BY <1>1, <1>5, <2>3 DEF Positive
  <2>5. ASSUME NEW b \in 0 .. h, El(b) = El(r) \/ El(b) = El(-r)
        PROVE  r = b
    <3>1. El(b) = b /\ El(r) = r
      BY <1>1, <1>2 DEF El
    <3> QED
      BY <1>1, <1>3, <1>4, <1>5, <2>5, <3>1
  <2> QED
    BY <2>4, <2>5 DEF h
<1>6. CASE r > h
  <2> DEFINE x == r * 2 - P
             k == r - h - 1
  <2>1. x \in 0 .. (2 * h) /\ x \in Int /\ r * 2 = P * 1 + x /\ x = 2 * k + 1 /\ k \in Int
    BY <1>1, <1>6
  <2>2. fe_mul(r, 2) = x
    <3> DEFINE one == 1
    <3>1. r * 2 = P * one + x /\ one \in Int
      BY <2>1
    <3> HIDE DEF x, one
    <3>2. El(P * one + x) = El(x)
      BY <2>1, <3>1, ElMore
    <3> QED
      BY <1>2, <2>1, <3>1, <3>2 DEF fe_mul, El
  <2> HIDE DEF k
  <2>3. (2 * k + 1) % 2 = 1
    BY <2>1
  <2>4. fe_isodd(fe_mul(r, 2)) = 1
    BY <2>1, <2>2, <2>3 DEF fe_isodd
  <2> HIDE DEF x
  <2>5. Positive(r) = El(-r)
    BY <2>4 DEF Positive, fe_neg, El
  <2>6. El(-r) = P - r /\ P - r \in 0 .. h
    BY <1>1, <1>4, <1>6
  <2>7. ASSUME NEW b \in 0 .. h, El(b) = El(r) \/ El(b) = El(-r)
        PROVE  El(-r) = b
    <3>1. El(b) = b /\ El(r) = r
      BY <1>1, <1>2 DEF El
    <3> QED
      BY <1>1, <1>6, <2>6, <2>7, <3>1
  <2>8. El(-r) \in Field
    BY <1>1, <2>6 DEF Field
  <2> QED
    BY <2>5, <2>6, <2>7, <2>8 DEF h
<1> QED
  BY <1>1, <1>5, <1>6

\* Where the map returns one of its two exceptional values the representative is 0.
LEMMA RevZero ==
  ASSUME NEW u \in Field, NEW tweak, u = 0 \/ El(u + A) = 0
  PROVE  crypto_elligator_rev(u, tweak) = [ok |-> TRUE, hidden |-> [r |-> 0, pad |-> tweak.pad]]
<1> DEFINE v == u + A
           uv == u * v
           m == -2
           Y == Radicand(u)
           root == RootOf(u)
           t == Tweaked(u, tweak)
<1>1. /\ crypto_elligator_rev(u, tweak) =
            [ok |-> root.is_square, hidden |-> [r |-> Positive(El(t * root.root)), pad |-> tweak.pad]]
      /\ u \in Int /\ El(u) = u /\ v \in Int /\ t \in Int /\ InvRoot(El(Y), root) /\ El(Y) \in Field
  BY RevUnfold
<1>2. El(uv) = 0 /\ uv \in Int /\ m \in Int
  <2>1. uv \in Int
    BY <1>1
  <2>2. CASE El(u) = 0
    <3> HIDE DEF v
    <3> QED
      BY <1>1, <2>1, <2>2, ZeroTimes
  <2>3. CASE El(v) = 0
    <3> HIDE DEF v
    <3> QED
      BY <1>1, <2>1, <2>3, ZeroTimes
  <2> QED
    BY <2>1, <2>2, <2>3, OneIs
<1>3. El(Y) = 0
  <2> HIDE DEF uv, m
  <2>1. El(uv * m) = 0
    BY <1>2, ZeroTimes
  <2> QED
    BY <2>1 DEF uv, m, Radicand
<1>4. root.root = 0 /\ root.is_square
  <2>1. IsSquare(0)
    BY OneIs DEF IsSquare
  <2> HIDE DEF Y, root
  <2> QED
    BY <1>1, <1>3, <2>1 DEF InvRoot
<1>5. Positive(El(t * root.root)) = 0
  <2>1. t * 0 = 0 /\ 0 * 2 = 0 /\ 0 % 2 = 0
    BY <1>1
  <2>2. El(t * root.root) = 0
    BY <1>4, <2>1, OneIs
  <2>3. fe_isodd(fe_mul(0, 2)) = 0
    BY <2>1, OneIs DEF fe_isodd, fe_mul, El
  <2> QED
    BY <2>2, <2>3 DEF Positive
<1>6. root.is_square \in BOOLEAN
  BY DEF RootOf, invsqrt, RootFrom
<1> QED
  BY <1>1, <1>4, <1>5, <1>6

LEMMA ElMinus ==
  ASSUME NEW a \in Int, NEW b \in Int, El(a) = El(b)
  PROVE  -a \in Int /\ -b \in Int /\ El(-a) = El(-b)
<1> DEFINE m == -1
<1>1. m \in Int /\ m * a = -a /\ m * b = -b /\ -a \in Int /\ -b \in Int
  OBVIOUS
<1> HIDE DEF m
<1>2. El(m * a) = El(m * b)
  BY <1>1, ElFactor
<1> QED
  BY <1>1, <1>2

LEMMA SquaresOf ==
  ASSUME NEW r \in Int, NEW t \in Int, El(r) = El(t) \/ El(r) = El(-t)
  PROVE  r * r \in Int /\ t * t \in Int /\ El(r * r) = El(t * t)
<1> DEFINE m == -t
<1>1. m \in Int /\ m * m = t * t /\ r * r \in Int /\ t * t \in Int
  OBVIOUS
<1>2. CASE El(r) = El(t)
  BY <1>1, <1>2, ElMul
<1>3. CASE El(r) = El(m)
  <2> HIDE DEF m
  <2>1. El(r * r) = El(m * m)
    BY <1>1, <1>3, ElMul
  <2> QED
    BY <1>1, <2>1
<1> QED
  BY <1>1, <1>2, <1>3

LEMMA RevIdentity ==
  ASSUME NEW a \in Int, NEW b \in Int, NEW q \in Int
  PROVE  (2 * b) * ((a * q) * (a * q)) = (((a * b) * (-2)) * (q * q)) * (-a)
OBVIOUS

\* What the representative of u is.
LEMMA RevIs ==
  ASSUME NEW u \in Field, NEW tweak, El(u) # 0, El(u + A) # 0, IsSquare(Radicand(u))
  PROVE  LET rev == crypto_elligator_rev(u, tweak)
             r == rev.hidden.r
         IN /\ rev.ok /\ rev.hidden = [r |-> r, pad |-> tweak.pad]
            /\ r \in 0 .. ((P - 1) \div 2) /\ r \in Field /\ r \in Int /\ El(r) # 0
            /\ IF tweak.sign = 1 THEN El(u * Wd(r * r)) = El(-A)
               ELSE El(u * Wd(r * r)) = El(-((2 * (r * r)) * A))
            /\ \A b \in 0 .. ((P - 1) \div 2) : El(b * b) = El(r * r) => r = b
<1> DEFINE v == u + A
           Y == Radicand(u)
           root == RootOf(u)
           q == root.root
           a == Tweaked(u, tweak)
           b == IF tweak.sign = 1 THEN u ELSE v
           s == a * q
           r == Positive(El(s))
           rr == r * r
           rev == crypto_elligator_rev(u, tweak)
<1>1. /\ rev = [ok |-> root.is_square, hidden |-> [r |-> r, pad |-> tweak.pad]]
      /\ u \in Int /\ v \in Int /\ Y \in Int /\ a \in Int /\ q \in Int /\ InvRoot(El(Y), root)
  BY RevUnfold
<1>2. A \in Int /\ b \in Int /\ -2 \in Int
  BY <1>1, MontgomeryIs
<1>3. s \in Int
  <2> HIDE DEF a, q
  <2> QED
    BY <1>1
<1>4. r \in 0 .. ((P - 1) \div 2) /\ r \in Field /\ r \in Int /\ (El(r) = El(s) \/ El(r) = El(-s))
  <2>1. El(s) \in Field /\ El(s) \in Int /\ El(El(s)) = El(s)
    <3> HIDE DEF s
    <3> QED
      BY <1>3, ElIs
  <2> DEFINE x == El(s)
  <2> HIDE DEF x
  <2>2. r \in 0 .. ((P - 1) \div 2) /\ r \in Field /\ (r = x \/ r = El(-x))
    BY <2>1, PositiveIs DEF x
  <2>3. El(-x) = El(-s) /\ -x \in Int /\ El(-x) \in Int /\ El(El(-x)) = El(-x)
    <3> HIDE DEF s
    <3>1. El(x) = El(s) /\ x \in Int
      BY <2>1 DEF x
    <3>2. El(-x) = El(-s) /\ -x \in Int
      BY <1>3, <3>1, ElMinus
    <3> QED
      BY <3>2, ElIs
  <2>4. r \in Int
    BY <2>2, ElField
  <2> QED
    BY <2>1, <2>2, <2>3, <2>4 DEF x
<1> HIDE DEF r
<1>5. El(Y) # 0 /\ Y = (a * b) * (-2)
  <2> DEFINE two == 2
             m == -two
             uv == u * v
  <2>1. uv \in Int /\ m \in Int /\ El(m) # 0
    <3>1. uv \in Int
      BY <1>1
    <3>4. El(two) # 0 /\ two \in Int
      BY MinusOne
    <3> HIDE DEF two
    <3>2. m \in Int
      BY <3>4
    <3>3. El(m) = 0 => FALSE
      <4> SUFFICES ASSUME El(m) = 0 PROVE FALSE
        OBVIOUS
      <4> DEFINE mo == -1
      <4>1. mo * m = two /\ mo \in Int /\ m \in Int
        BY ONLY <3>4
      <4> HIDE DEF mo
      <4>2. El(mo * m) = 0
        BY <4>1, ZeroTimes
      <4> QED
        BY <3>4, <4>1, <4>2
    <3> QED
      BY <3>1, <3>2, <3>3
  <2>2. El(uv) # 0
    <3> HIDE DEF v
    <3> QED
      BY <1>1, ElTimes DEF v
  <2>3. Y = uv * m
    BY DEF Radicand
  <2>4. a * b = uv
    BY <1>1, <1>2 DEF Tweaked
  <2> HIDE DEF uv, two, m, Y, a, b
  <2>5. El(uv * m) # 0
    BY <2>1, <2>2, ElTimes
  <2> QED
    BY <2>3, <2>4, <2>5 DEF m, two
<1>6. root.is_square /\ El(Y * (q * q)) = 1
  <2>1. El(Y) \in Int /\ El(El(Y)) = El(Y)
    <3> HIDE DEF Y
    <3> QED
      BY <1>1, ElIs
  <2>2. IsSquare(El(Y))
    BY <2>1 DEF IsSquare
  <2>3. El(El(Y) * (q * q)) = 1
    <3> HIDE DEF Y, root
    <3> QED
      BY <1>1, <1>5, <2>2 DEF InvRoot
  <2>4. El(El(Y) * (q * q)) = El(Y * (q * q))
    <3> DEFINE qq == q * q
    <3>1. q \in Int
      BY <1>1
    <3> HIDE DEF q
    <3>2. qq \in Int
      BY <3>1
    <3>3. Y \in Int
      BY <1>1
    <3> HIDE DEF Y, qq
    <3>4. El(El(Y) * qq) = El(Y * qq)
      BY ONLY <3>2, <3>3, ElIn
    <3> QED
      BY <3>4 DEF qq, q
  <2> HIDE DEF Y, root
  <2> QED
    BY <1>1, <2>2, <2>3, <2>4, <1>5 DEF InvRoot
<1>7. rr \in Int /\ El((2 * b) * rr) = El(-a)
  <2> DEFINE ss == s * s
             tb == 2 * b
             ma == -a
             Yq == Y * (q * q)
  <2>1. rr \in Int /\ ss \in Int /\ El(rr) = El(ss)
    <3>1. El(r) = El(s) \/ El(r) = El(-s)
      BY <1>4
    <3>2. r \in Int
      BY <1>4
    <3>3. s \in Int
      BY <1>3
    <3> HIDE DEF s
    <3> QED
      BY ONLY <3>1, <3>2, <3>3, SquaresOf
  <2>2. tb * ss = Yq * ma
    <3>1. a \in Int
      BY <1>1
    <3>2. b \in Int
      BY <1>2
    <3>3. q \in Int
      BY <1>1
    <3>4. Y = (a * b) * (-2)
      BY <1>5
    <3> HIDE DEF a, b, q, Y
    <3>5. tb * ss = (((a * b) * (-2)) * (q * q)) * (-a)
      BY ONLY <3>1, <3>2, <3>3, RevIdentity
    <3> QED
      BY Zenon, <3>4, <3>5
  <2>3. tb \in Int /\ ma \in Int
    BY <1>1, <1>2
  <2>4. Yq \in Int /\ El(Yq) = 1
    <3>1. q \in Int
      BY <1>1
    <3> HIDE DEF q
    <3>2. q * q \in Int
      BY <3>1
    <3> DEFINE qq == q * q
    <3>3. Y \in Int
      BY <1>1
    <3> HIDE DEF qq, Y
    <3>4. Y * qq \in Int
      BY <3>2, <3>3 DEF qq
    <3> QED
      BY <1>6, <3>4 DEF qq, q
  <2> HIDE DEF rr, ss, tb, ma, Yq
  <2>5. El(tb * rr) = El(tb * ss)
    BY <2>1, <2>3, ElFactor
  <2>6. El(Yq * ma) = El(ma)
    BY <2>3, <2>4, ElUnit
  <2> QED
    BY <2>1, <2>2, <2>5, <2>6 DEF tb, ma
<1>8. El(r) # 0
  <2> SUFFICES ASSUME El(r) = 0 PROVE FALSE
    OBVIOUS
  <2> DEFINE ma == -a
             tb == 2 * b
             m == -1
  <2>1. El(rr) = 0
    <3>1. r \in Int
      BY <1>4
    <3> QED
      BY ONLY <3>1, ZeroTimes, El(r) = 0
  <2>2. tb \in Int /\ ma \in Int /\ m \in Int /\ m * ma = a
    BY <1>1, <1>2
  <2> HIDE DEF ma, tb, rr, m, a
  <2>3. El(tb * rr) = 0
    BY <1>7, <2>1, <2>2, ZeroTimes
  <2>4. El(ma) = 0
    BY <1>7, <2>3 DEF ma, tb
  <2>5. El(a) = 0
    BY <2>2, <2>4, ZeroTimes
  <2> QED
    BY <2>5 DEF a, Tweaked
<1>9. IF tweak.sign = 1 THEN El(u * Wd(rr)) = El(-A) ELSE El(u * Wd(rr)) = El(-((2 * rr) * A))
  <2> DEFINE c == (2 * b) * rr
             ma == -a
             c2 == c - ma
  <2>1. c \in Int /\ ma \in Int
    <3> HIDE DEF b, rr, a
    <3>1. 2 * b \in Int
      BY <1>2
    <3> QED
      BY <1>1, <1>7, <3>1
  <2>2. El(c2) = 0 /\ c2 \in Int
    <3>1. El(c) = El(ma)
      BY <1>7
    <3> HIDE DEF c, ma
    <3>2. c2 \in Int
      BY <2>1
    <3> QED
      BY <2>1, <3>1, <3>2, ElSame
  <2> HIDE DEF rr
  <2>3. CASE tweak.sign = 1
    <3> DEFINE x == u * Wd(rr)
               y == -A
    <3>1. x \in Int /\ y \in Int /\ x = y + c2
      BY <1>1, <1>2, <1>7, <2>3 DEF Wd, Tweaked
    <3> HIDE DEF x, y, c2
    <3>2. El(x) = El(y)
      BY <2>2, <3>1, ElFrom
    <3> QED
      BY <2>3, <3>2 DEF x, y
  <2>4. CASE tweak.sign # 1
    <3> DEFINE x == u * Wd(rr)
               y == -((2 * rr) * A)
    <3>1. x \in Int /\ y \in Int /\ x = y + c2
      BY <1>1, <1>2, <1>7, <2>4 DEF Wd, Tweaked
    <3> HIDE DEF x, y, c2
    <3>2. El(x) = El(y)
      BY <2>2, <3>1, ElFrom
    <3> QED
      BY <2>4, <3>2 DEF x, y
  <2> QED
    BY <2>3, <2>4
<1>10. ASSUME NEW e \in 0 .. ((P - 1) \div 2), El(e * e) = El(rr)
       PROVE  r = e
  <2>0. e \in Int
    OBVIOUS
  <2>1. El(s) \in Field /\ El(s) \in Int /\ El(El(s)) = El(s)
    <3> HIDE DEF s
    <3> QED
      BY <1>3, ElIs
  <2> DEFINE x == El(s)
  <2>2. El(rr) = El(x * x)
    <3>1. -x \in Int /\ El(-x) = El(-s)
      <4> HIDE DEF s
      <4>1. El(x) = El(s) /\ x \in Int
        BY <2>1
      <4> QED
        BY ONLY <1>3, <4>1, ElMinus
    <3>2. CASE El(r) = El(s)
      <4>1. El(r) = El(x)
        BY <2>1, <3>2
      <4>2. x \in Int
        BY <2>1
      <4>3. r \in Int
        BY <1>4
      <4> HIDE DEF x
      <4> QED
        BY ONLY <4>1, <4>2, <4>3, ElMul
    <3>3. CASE El(r) = El(-s)
      <4> DEFINE mx == -x
      <4>1. El(r) = El(mx)
        BY <3>1, <3>3
      <4>3. x \in Int
        BY <2>1
      <4>4. r \in Int
        BY <1>4
      <4> HIDE DEF x
      <4>0. mx * mx = x * x /\ mx \in Int
        BY <4>3
      <4> HIDE DEF mx
      <4>2. El(r * r) = El(mx * mx)
        BY ONLY <4>0, <4>1, <4>4, ElMul
      <4> QED
        BY <4>0, <4>2
    <3> QED
      BY <1>4, <3>2, <3>3
  <2> HIDE DEF x
  <2>3. El(e) = El(x) \/ El(e) = El(-x)
    <3>1. El(e * e) = El(x * x) /\ x \in Int
      BY <1>10, <2>1, <2>2 DEF x
    <3> QED
      BY ONLY <2>0, <3>1, SquareRoots
  <2>4. Positive(x) = e
    BY <2>1, <2>3, PositiveIs DEF x
  <2> QED
    BY <2>4 DEF x, r
<1>11. rev.ok /\ rev.hidden = [r |-> r, pad |-> tweak.pad] /\ rev.hidden.r = r
  <2> HIDE DEF root, rev
  <2> QED
    BY <1>1, <1>6
<1> HIDE DEF rev
<1>12. \A e \in 0 .. ((P - 1) \div 2) : El(e * e) = El(r * r) => r = e
  BY <1>10
<1>13. rev.hidden.r = r /\ rev.hidden = [r |-> rev.hidden.r, pad |-> tweak.pad]
  BY <1>11
<1>14. rev.hidden.r \in 0 .. ((P - 1) \div 2) /\ rev.hidden.r \in Field /\ rev.hidden.r \in Int /\ El(rev.hidden.r) # 0
  BY Zenon, <1>4, <1>8, <1>13
<1>15. IF tweak.sign = 1 THEN El(u * Wd(rev.hidden.r * rev.hidden.r)) = El(-A)
       ELSE El(u * Wd(rev.hidden.r * rev.hidden.r)) = El(-((2 * (rev.hidden.r * rev.hidden.r)) * A))
  BY Zenon, <1>9, <1>13
<1>16. \A e \in 0 .. ((P - 1) \div 2) : El(e * e) = El(rev.hidden.r * rev.hidden.r) => rev.hidden.r = e
  BY Zenon, <1>12, <1>13
<1> QED
  BY Zenon, <1>11, <1>13, <1>14, <1>15, <1>16 DEF rev

\* A representative of u maps to u.
LEMMA RevMaps ==
  ASSUME NEW u \in Field, NEW tweak, El(u) # 0, El(u + A) # 0, IsSquare(Radicand(u)), IsSquare(Eps(u))
  PROVE  LET rev == crypto_elligator_rev(u, tweak)
         IN rev.ok /\ crypto_elligator_map(rev.hidden) = u
<1> DEFINE rev == crypto_elligator_rev(u, tweak)
           h == rev.hidden
<1>1. /\ rev.ok /\ h.r \in Field /\ El(h.r) # 0
      /\ IF tweak.sign = 1 THEN El(u * Wd(h.r * h.r)) = El(-A)
         ELSE El(u * Wd(h.r * h.r)) = El(-((2 * (h.r * h.r)) * A))
  BY ZenonT(60), RevIs
<1>2. crypto_elligator_map(h) = u
  <2> HIDE DEF rev
  <2> QED
    BY <1>1, MapUnique
<1> QED
  BY <1>1, <1>2

\* The two exceptional values are those the map never takes but at 0.
LEMMA MapRadicand ==
  ASSUME NEW h, h.r \in Field, El(h.r) # 0
  PROVE  LET u == crypto_elligator_map(h)
         IN El(u) # 0 /\ El(u + A) # 0 /\ IsSquare(Radicand(u))
<1> DEFINE r == h.r
           R == r * r
           u == crypto_elligator_map(h)
           W == Wd(R)
           v == u + A
           ma == -A
           T == 2 * R
           mt == -(T * A)
           TA == T * A
           uW == u * W
           vW == v * W
<1>1. /\ u \in Field /\ u \in Int /\ El(u) = u
      /\ El(uW) = El(ma) \/ El(uW) = El(mt)
  BY MapIs
<1>2. r \in Int /\ R \in Int /\ T \in Int /\ A \in Int /\ W \in Int /\ W = 1 + T /\ ma \in Int /\ El(A) # 0
      /\ El(W) # 0 /\ El(T) # 0
  <2>1. r \in Int
    BY ElField
  <2>2. R \in Int /\ T \in Int /\ El(W) # 0 /\ El(T) # 0
    BY <2>1, RootSquares
  <2>3. A \in Int /\ El(A) # 0
    BY MontgomeryIs
  <2> HIDE DEF R
  <2>4. W \in Int /\ W = 1 + T
    BY <2>2 DEF Wd
  <2> QED
    BY <2>1, <2>2, <2>3, <2>4
<1>3. El(ma) # 0 /\ El(mt) # 0 /\ El(TA) # 0 /\ TA \in Int /\ mt \in Int
  <2> HIDE DEF T
  <2>1. El(TA) # 0 /\ TA \in Int
    BY <1>2, ElTimes
  <2> DEFINE mo == -1
  <2>2. mo \in Int /\ El(mo) # 0 /\ mo * A = ma /\ mo * TA = mt /\ mt \in Int
    BY <1>2, <2>1, MinusOne
  <2> HIDE DEF mo, ma, mt, TA
  <2>3. El(mo * A) # 0
    BY <1>2, <2>2, ElTimes
  <2>4. El(mo * TA) # 0
    BY <2>1, <2>2, ElTimes
  <2> QED
    BY <2>1, <2>2, <2>3, <2>4
<1>4. El(u) # 0
  <2> SUFFICES ASSUME El(u) = 0 PROVE FALSE
    OBVIOUS
  <2>1. El(uW) = 0
    <3>1. u \in Int
      BY <1>1
    <3>2. W \in Int
      BY <1>2
    <3> HIDE DEF u, W
    <3> QED
      BY ONLY <3>1, <3>2, ZeroTimes, El(u) = 0
  <2> QED
    BY <1>1, <1>3, <2>1
<1>5. uW \in Int /\ vW \in Int /\ v \in Int /\ vW = uW + A * W /\ A * W \in Int
  <2>1. u \in Int /\ A \in Int /\ W \in Int
    BY <1>1, <1>2
  <2> HIDE DEF u, W
  <2> QED
    BY <2>1
\* (u + A) W is 2 R A or A.
<1>6. \/ El(uW) = El(ma) /\ El(vW) = El(TA)
      \/ El(uW) = El(mt) /\ El(vW) = El(A)
  <2> DEFINE AW == A * W
  <2>1. AW \in Int /\ vW = uW + AW /\ ma + AW = TA /\ mt + AW = A
    BY <1>2, <1>3, <1>5
  <2> HIDE DEF uW, vW, AW, ma, mt, TA
  <2>2. CASE El(uW) = El(ma)
    <3>1. El(uW + AW) = El(ma + AW)
      BY <1>2, <1>5, <2>1, <2>2, ElPlus
    <3> QED
      BY <2>1, <2>2, <3>1
  <2>3. CASE El(uW) = El(mt)
    <3>1. El(uW + AW) = El(mt + AW)
      BY <1>3, <1>5, <2>1, <2>3, ElPlus
    <3> QED
      BY <2>1, <2>3, <3>1
  <2> QED
    BY <1>1, <2>2, <2>3
<1>7. El(v) # 0
  <2> SUFFICES ASSUME El(v) = 0 PROVE FALSE
    OBVIOUS
  <2>1. El(vW) = 0
    <3>1. v \in Int
      BY <1>5
    <3>2. W \in Int
      BY <1>2
    <3> HIDE DEF v, W
    <3> QED
      BY ONLY <3>1, <3>2, ZeroTimes, El(v) = 0
  <2> QED
    BY <1>2, <1>3, <1>6, <2>1
<1>8. IsSquare(Radicand(u))
  <2> DEFINE m == -2
             y == (2 * r) * A
             yy == y * y
             uv == uW * vW
             g == Radicand(u) * (W * W)
             a1 == ma * TA
             a2 == mt * A
  <2>1. m \in Int /\ y \in Int /\ yy \in Int /\ uv \in Int /\ a1 \in Int /\ a2 \in Int
    <3>1. m \in Int
      OBVIOUS
    <3>2. y \in Int
      BY <1>2
    <3> HIDE DEF y, uW, vW, ma, mt, TA
    <3>3. yy \in Int
      BY <3>2
    <3>4. uv \in Int /\ a1 \in Int /\ a2 \in Int
      BY <1>2, <1>3, <1>5
    <3> QED
      BY <3>1, <3>2, <3>3, <3>4
  <2>2. a1 = a2 /\ a1 * m = yy
    <3>1. r \in Int
      BY <1>2
    <3>2. A \in Int
      BY <1>2
    <3> HIDE DEF r
    <3> QED
      BY ONLY <3>1, <3>2
  <2>3. g = uv * m /\ Radicand(u) \in Int /\ g \in Int
    <3>1. u \in Int
      BY <1>1
    <3>2. W \in Int
      BY <1>2
    <3>3. A \in Int
      BY <1>2
    <3>4. v \in Int
      BY <1>5
    <3> HIDE DEF u, W
    <3>5. Radicand(u) = (u * v) * m
      BY DEF Radicand
    <3> HIDE DEF v
    <3>6. (u * v) * m \in Int
      BY ONLY <3>1, <3>4
    <3>7. ((u * v) * m) * (W * W) = uv * m /\ uv * m \in Int
      BY ONLY <3>1, <3>2, <3>4
    <3> QED
      BY <3>5, <3>6, <3>7
  <2>4. El(uv) = El(a1)
    <3> HIDE DEF uW, vW, ma, mt, TA
    <3>1. CASE El(uW) = El(ma) /\ El(vW) = El(TA)
      BY <1>2, <1>3, <1>5, <3>1, ElMul
    <3>2. CASE El(uW) = El(mt) /\ El(vW) = El(A)
      <4>1. El(uW * vW) = El(mt * A)
        BY <1>2, <1>3, <1>5, <3>2, ElMul
      <4> HIDE DEF uv, a1
      <4> QED
        BY <2>2, <4>1 DEF uv
    <3> QED
      BY <1>6, <3>1, <3>2
  <2>5. El(g) = El(yy)
    <3> HIDE DEF uv, a1, a2, m, yy, g
    <3>1. El(uv * m) = El(a1 * m)
      BY <2>1, <2>4, ElFactor
    <3> QED
      BY <2>2, <2>3, <3>1
  <2>6. IsSquare(g)
    <3> HIDE DEF y, g
    <3>1. El(y * y) = El(g)
      BY <2>5 DEF y
    <3> QED
      BY <2>1, <3>1 DEF IsSquare
  <2> HIDE DEF W
  <2> QED
    BY <1>2, <2>3, <2>6, SquareUnit
<1> QED
  BY <1>4, <1>7, <1>8 DEF u, v

\* The square of a representative, from the equation it satisfies.
LEMMA FirstEquation ==
  ASSUME NEW u \in Int, NEW R \in Int, NEW r \in Int, El(u) # 0, El(u * Wd(R)) = El(u * Wd(r))
  PROVE  El(R) = El(r)
<1> DEFINE W == Wd(R)
           w == Wd(r)
           two == 2
           m == -1
<1>1. W \in Int /\ w \in Int /\ two \in Int /\ m \in Int /\ W + m = two * R /\ w + m = two * r
  BY DEF Wd
<1>2. El(W) = El(w)
  <2> HIDE DEF W, w
  <2> QED
    BY <1>1, ElCancel DEF W, w
<1>3. El(W + m) = El(w + m)
  <2> HIDE DEF W, w, m
  <2> QED
    BY <1>1, <1>2, ElPlus
<1>4. El(two) # 0
  BY MinusOne
<1> HIDE DEF two, W, w, m
<1>5. El(two * R) = El(two * r)
  BY <1>1, <1>3
<1> QED
  BY <1>1, <1>4, <1>5, ElCancel

LEMMA SecondEquation ==
  ASSUME NEW u \in Int, NEW R \in Int, NEW r \in Int, El(u + A) # 0,
         El(u * Wd(R)) = El(-((2 * R) * A)), El(u * Wd(r)) = El(-((2 * r) * A))
  PROVE  El(R) = El(r)
<1> DEFINE v == u + A
           a == u * Wd(R)
           b == -((2 * R) * A)
           e == u * Wd(r)
           f == -((2 * r) * A)
           g == (2 * R) * v
           k == (2 * r) * v
           mu == -u
<1>0. A \in Int
  BY MontgomeryIs
<1>1. a \in Int /\ b \in Int /\ e \in Int /\ f \in Int /\ g \in Int /\ k \in Int /\ v \in Int /\ mu \in Int
      /\ a - b = g - mu /\ e - f = k - mu /\ a - b \in Int /\ e - f \in Int
  BY <1>0 DEF Wd
<1>2. El(a) = El(b) /\ El(e) = El(f)
  OBVIOUS
<1> HIDE DEF a, b, e, f, mu
<1>3. El(a - b) = 0 /\ El(e - f) = 0
  BY <1>1, <1>2, ElSame
<1>4. El(g) = El(mu) /\ El(k) = El(mu)
  <2> HIDE DEF g, k
  <2>1. El(g - mu) = 0 /\ El(k - mu) = 0
    BY <1>1, <1>3
  <2>2. g \in Int /\ k \in Int /\ mu \in Int
    BY <1>1
  <2> QED
    BY ONLY <2>1, <2>2, ElSame
<1> DEFINE two == 2
           S == two * R
           s == two * r
<1>5. two \in Int /\ S \in Int /\ s \in Int /\ v * S = g /\ v * s = k /\ El(two) # 0
  BY <1>1, MinusOne
<1>6. El(v * S) = El(v * s)
  BY <1>4, <1>5
<1>7. El(S) = El(s)
  <2> HIDE DEF S, s
  <2>1. El(v) # 0
    OBVIOUS
  <2> HIDE DEF v
  <2> QED
    BY <1>1, <1>5, <1>6, <2>1, ElCancel
<1> HIDE DEF two
<1> QED
  BY <1>5, <1>7, ElCancel

\* What a representative maps to is mapped back to it, with one of the tweaks.
LEMMA MapRev ==
  ASSUME NEW r \in 0 .. ((P - 1) \div 2), NEW pad
  PROVE  LET h == [r |-> r, pad |-> pad]
             u == crypto_elligator_map(h)
             back(sign) == crypto_elligator_rev(u, [sign |-> sign, pad |-> pad])
         IN /\ back(0).hidden = h \/ back(1).hidden = h
            /\ \A sign \in {0, 1} : back(sign).ok /\ crypto_elligator_map(back(sign).hidden) = u
<1> DEFINE h == [r |-> r, pad |-> pad]
           u == crypto_elligator_map(h)
           tweak(sign) == [sign |-> sign, pad |-> pad]
           back(sign) == crypto_elligator_rev(u, tweak(sign))
<1>1. r \in Field /\ r \in Int /\ El(r) = r /\ h.r = r
  <2>1. r \in Field
    BY PrimeIs DEF Field
  <2> QED
    BY <2>1, ElField
<1>2. u \in Field /\ u \in Int /\ El(u) = u
  BY <1>1, MapIs
<1>3. CASE r = 0
  <2>1. u = 0 \/ El(u + A) = 0
    <3>1. h.r = 0
      BY <1>3
    <3>2. u = El(-A) \/ u = 0
      BY <3>1, MapZero
    <3>3. ASSUME u = El(-A)
          PROVE  El(u + A) = 0
      <4> DEFINE ma == -A
      <4>1. ma \in Int /\ A \in Int /\ ma + A = 0
        BY MontgomeryIs
      <4> HIDE DEF ma
      <4>2. El(El(ma) + A) = El(ma + A)
        BY <4>1, ElIn
      <4> QED
        BY <3>3, <4>1, <4>2, OneIs DEF ma
    <3> QED
      BY <3>2, <3>3
  <2>2. ASSUME NEW sign \in {0, 1}
        PROVE  back(sign).ok /\ back(sign).hidden = h
    <3>1. back(sign) = [ok |-> TRUE, hidden |-> [r |-> 0, pad |-> tweak(sign).pad]]
      <4> HIDE DEF u, tweak
      <4> QED
        BY <1>2, <2>1, RevZero
    <3> QED
      BY <1>3, <3>1
  <2>3. back(0).hidden = h
    BY <2>2
  <2>4. \A sign \in {0, 1} : back(sign).ok /\ crypto_elligator_map(back(sign).hidden) = u
    <3> HIDE DEF back, h
    <3> QED
      BY <2>2 DEF u
  <2> QED
    BY <2>3, <2>4
<1>4. CASE r # 0
  <2>1. El(u) # 0 /\ El(u + A) # 0 /\ IsSquare(Radicand(u))
    BY <1>1, <1>4, MapRadicand
  <2>2. IsSquare(Eps(u))
    BY <1>1, MapOnCurve
  <2>3. ASSUME NEW sign \in {0, 1}
        PROVE  back(sign).ok /\ crypto_elligator_map(back(sign).hidden) = u
    <3> DEFINE tw == tweak(sign)
    <3> HIDE DEF u, tw
    <3>1. LET rev == crypto_elligator_rev(u, tw) IN rev.ok /\ crypto_elligator_map(rev.hidden) = u
      BY <1>2, <2>1, <2>2, RevMaps
    <3> QED
      BY <3>1 DEF tw
  <2>4. ASSUME NEW sign \in {0, 1}
        PROVE  LET q == back(sign).hidden.r
               IN /\ back(sign).hidden = [r |-> q, pad |-> pad] /\ q \in Int
                  /\ IF sign = 1 THEN El(u * Wd(q * q)) = El(-A)
                     ELSE El(u * Wd(q * q)) = El(-((2 * (q * q)) * A))
                  /\ El(r * r) = El(q * q) => q = r
    <3> DEFINE tw == tweak(sign)
    <3> HIDE DEF u, tw
    <3>1. tw.sign = sign /\ tw.pad = pad
      BY DEF tw
    <3>2. LET rev == crypto_elligator_rev(u, tw)
              q == rev.hidden.r
          IN /\ rev.hidden = [r |-> q, pad |-> tw.pad] /\ q \in Int
             /\ IF tw.sign = 1 THEN El(u * Wd(q * q)) = El(-A)
                ELSE El(u * Wd(q * q)) = El(-((2 * (q * q)) * A))
             /\ \A b \in 0 .. ((P - 1) \div 2) : El(b * b) = El(q * q) => q = b
      BY <1>2, <2>1, RevIs
    <3> DEFINE rev == crypto_elligator_rev(u, tw)
               q == rev.hidden.r
    <3>3. El(r * r) = El(q * q) => q = r
      BY <3>2
    <3>4. back(sign) = rev
      BY DEF tw
    <3> HIDE DEF rev, back
    <3> QED
      BY Zenon, <3>1, <3>2, <3>3, <3>4 DEF rev
  <2> DEFINE R == r * r
  <2>5. /\ IsSquare(Xn(R)) => El(u * Wd(R)) = El(-A)
        /\ ~IsSquare(Xn(R)) => El(u * Wd(R)) = El(-((2 * R) * A))
    BY <1>1, MapIs
  <2>6. CASE IsSquare(Xn(R))
    <3> DEFINE q == back(1).hidden.r
               Q == q * q
    <3>1. /\ back(1).hidden = [r |-> q, pad |-> pad] /\ q \in Int
          /\ El(u * Wd(Q)) = El(-A) /\ (El(R) = El(Q) => q = r)
      BY <2>4
    <3> HIDE DEF q
    <3>2. El(u * Wd(R)) = El(u * Wd(Q)) /\ Q \in Int /\ R \in Int
      BY <1>1, <2>5, <2>6, <3>1
    <3> HIDE DEF Q, R, u
    <3>3. El(R) = El(Q)
      BY <1>2, <2>1, <3>2, FirstEquation
    <3>4. back(1).hidden = h
      BY <3>1, <3>3 
    <3> QED
      BY <2>3, <3>4 DEF back, tweak
  <2>7. CASE ~IsSquare(Xn(R))
    <3> DEFINE q == back(0).hidden.r
               Q == q * q
    <3>1. /\ back(0).hidden = [r |-> q, pad |-> pad] /\ q \in Int
          /\ El(u * Wd(Q)) = El(-((2 * Q) * A)) /\ (El(R) = El(Q) => q = r)
      BY <2>4
    <3> HIDE DEF q
    <3>2. El(u * Wd(R)) = El(-((2 * R) * A)) /\ Q \in Int /\ R \in Int
      BY <1>1, <2>5, <2>7, <3>1
    <3> HIDE DEF Q, R, u
    <3>3. El(R) = El(Q)
      BY <1>2, <2>1, <3>1, <3>2, SecondEquation
    <3>4. back(0).hidden = h
      BY <3>1, <3>3
    <3> QED
      BY <2>3, <3>4 DEF back, tweak
  <2> QED
    BY <2>6, <2>7
<1> QED
  BY <1>3, <1>4

\* The u coordinate of a point is that of a point of the Montgomery curve.
LEMMA EpsOnCurve ==
  ASSUME NEW p \in Affine, p[1] # 0
  PROVE  IsSquare(Eps(MontgomeryU(p))) /\ El(MontgomeryU(p)) # 0
<1> DEFINE x == p[1]
           y == p[2]
           xx == x * x
           yy == y * y
           h == 1 - y
           k == 1 + y
           u == MontgomeryU(p)
           v == A + 2
           E == Eps(u)
           C == Cube(h)
           F == Lifted(k, h)
           K == (k * k) * h
           uu == u * u
<1>1. x \in Int /\ y \in Int /\ A \in Int /\ d \in Int /\ v \in Int /\ El(x) # 0
  BY AffineInts, MontgomeryIs
<1>2. xx \in Int /\ yy \in Int /\ h \in Int /\ k \in Int
  BY <1>1
<1>3. El(h) # 0 /\ El(k) # 0
  BY AxisIs
<1>4. u \in Int /\ uu \in Int /\ El(u * h) = El(k) /\ u * h \in Int
  <2>1. u \in Int /\ El(h * u) = El(k)
    BY <1>3, UIs
  <2> HIDE DEF u, h
  <2>2. h * u = u * h /\ u * h \in Int /\ uu \in Int
    BY <1>2, <2>1
  <2> QED
    BY <2>1, <2>2
<1>5. El(u) # 0
  <2> SUFFICES ASSUME El(u) = 0 PROVE FALSE
    OBVIOUS
  <2> HIDE DEF u, h, k
  <2>1. El(u * h) = 0
    BY ONLY <1>2, <1>4, ZeroTimes, El(u) = 0
  <2> QED
    BY <1>3, <1>4, <2>1
<1>6. El(E * C) = El(F) /\ E \in Int /\ C \in Int /\ F \in Int
  <2> HIDE DEF u, h, k
  <2> QED
    BY <1>2, <1>4, LiftedIs
<1>7. El(C) # 0 /\ C = (h * h) * h /\ h * h \in Int
  <2> HIDE DEF h
  <2>1. El(h * h) # 0 /\ h * h \in Int
    BY <1>2, <1>3, ElTimes
  <2> DEFINE hh == h * h
  <2>2. hh \in Int /\ El(hh) # 0
    BY <2>1
  <2> HIDE DEF hh
  <2>3. El(hh * h) # 0
    BY <1>2, <1>3, <2>2, ElTimes
  <2> QED
    BY <2>1, <2>3 DEF Cube, hh
\* The equation of the curve in both forms.
<1>8. El(xx * F + v * K) = 0 /\ K \in Int /\ xx * F \in Int /\ v * K \in Int
  <2> DEFINE z3 == d * (A + 2) - (2 - A)
             z2 == Off(x, y)
             c3 == -(k * (xx * yy))
             c2 == -(k * v)
  <2>1. El(z3) = 0 /\ El(z2) = 0
    BY MontgomeryIs, AffineIs
  <2>2. z2 = (yy - xx) - (1 + d * (xx * yy)) /\ z2 \in Int /\ z3 \in Int
    <3>1. (x * y) * (x * y) = xx * yy /\ xx * yy \in Int
      BY <1>1
    <3> HIDE DEF xx, yy
    <3>2. z2 = (yy - xx) - (1 + d * (xx * yy))
      BY <3>1 DEF Off, xx, yy
    <3>3. z3 \in Int
      BY <1>1
    <3> DEFINE w == xx * yy
    <3>4. (yy - xx) - (1 + d * w) \in Int
      <4> HIDE DEF w
      <4> QED
        BY <1>1, <1>2, <3>1 DEF w
    <3> QED
      BY <3>2, <3>3, <3>4
  <2>3. xx * F + v * K = c3 * z3 + c2 * z2
    <3>1. xx * F + v * K = (-((1 + y) * (xx * (y * y)))) * (d * (A + 2) - (2 - A))
             + (-((1 + y) * (A + 2))) * ((y * y - xx) - (1 + d * (xx * (y * y))))
      <4> HIDE DEF xx
      <4>1. xx * F + v * K = xx * ((1 + y) * (((1 + y) * (1 + y) + A * ((1 + y) * (1 - y))) + (1 - y) * (1 - y)))
           + (A + 2) * (((1 + y) * (1 + y)) * (1 - y))
        BY DEF Lifted
      <4>2. xx \in Int
        BY <1>2
      <4>3. y \in Int
        BY <1>1
      <4>4. A \in Int
        BY <1>1
      <4>5. d \in Int
        BY <1>1
      <4> HIDE DEF F, K, v, y
      <4>6. xx * ((1 + y) * (((1 + y) * (1 + y) + A * ((1 + y) * (1 - y))) + (1 - y) * (1 - y)))
              + (A + 2) * (((1 + y) * (1 + y)) * (1 - y))
            = (-((1 + y) * (xx * (y * y)))) * (d * (A + 2) - (2 - A))
                + (-((1 + y) * (A + 2))) * ((y * y - xx) - (1 + d * (xx * (y * y))))
        BY ONLY <4>2, <4>3, <4>4, <4>5
      <4> QED
        BY ONLY <4>1, <4>6
    <3> HIDE DEF xx, z2
    <3> QED
      BY <2>2, <3>1
  <2>4. c2 \in Int /\ c3 \in Int /\ K \in Int
    <3> HIDE DEF xx, yy, k, h, v
    <3>1. xx * yy \in Int /\ k * v \in Int /\ k * k \in Int
      BY <1>1, <1>2
    <3>2. k * (xx * yy) \in Int
      BY <1>2, <3>1
    <3>3. K \in Int
      BY <1>2, <3>1
    <3> QED
      BY <3>1, <3>2, <3>3
  <2> HIDE DEF c2, c3, z2, z3, K, F, xx, v
  <2>5. El(c3 * z3 + c2 * z2) = 0
    BY ONLY ZenonT(60), <2>1, <2>2, <2>4, ZeroSum
  <2> QED
    BY <1>1, <1>2, <1>6, <2>3, <2>4, <2>5
<1>9. El(K) = El(uu * C) /\ uu * C \in Int
  <2> DEFINE q == u * h
             kk == k * k
             qq == q * q
  <2>1. q \in Int /\ El(q) = El(k)
    BY <1>4
  <2>2. qq * h = uu * C
    <3> HIDE DEF u, h
    <3>1. C = (h * h) * h
      BY <1>7
    <3> HIDE DEF C
    <3> QED
      BY <1>2, <1>4, <3>1
  <2> HIDE DEF q, k, h, u
  <2>3. El(qq) = El(kk) /\ qq \in Int /\ kk \in Int
    BY <1>2, <2>1, ElMul
  <2> HIDE DEF qq, kk
  <2>4. El(qq * h) = El(kk * h) /\ qq * h \in Int
    BY <1>2, <2>3, ElFactor
  <2> HIDE DEF C, uu
  <2> QED
    BY <2>2, <2>4 DEF kk
<1>10. El(xx * E + v * uu) = 0 /\ xx * E \in Int /\ v * uu \in Int /\ xx * E + v * uu \in Int
  <2> DEFINE a == xx * (E * C)
             b == v * (uu * C)
             EC == E * C
             uC == uu * C
             f == xx * F
             g == v * K
             t == xx * E + v * uu
  <2> HIDE DEF xx, E, C, v, uu, F, K
  <2>0. EC \in Int /\ uC \in Int
    BY <1>6, <1>9
  <2> HIDE DEF EC, uC
  <2>1. El(xx * EC) = El(f) /\ El(v * uC) = El(g) /\ xx * EC \in Int /\ v * uC \in Int
    <3>1. El(EC) = El(F) /\ El(uC) = El(K)
      BY <1>6, <1>9 DEF EC, uC
    <3>4. xx \in Int
      BY <1>2
    <3>5. v \in Int
      BY <1>1 DEF v
    <3>6. F \in Int
      BY <1>6
    <3>7. K \in Int
      BY <1>8
    <3>2. El(xx * EC) = El(f)
      BY ONLY <2>0, <3>1, <3>4, <3>6, ElFactor
    <3>3. El(v * uC) = El(g)
      BY ONLY <2>0, <3>1, <3>5, <3>7, ElFactor
    <3> QED
      BY <1>1, <1>2, <2>0, <3>2, <3>3
  <2> DEFINE l == xx * EC
             m == v * uC
  <2>2. f \in Int /\ g \in Int /\ l \in Int /\ m \in Int /\ El(l) = El(f) /\ El(m) = El(g) /\ El(f + g) = 0
    BY <1>8, <2>1
  <2> HIDE DEF f, g, l, m
  <2>3. El(l + m) = 0
    <3>1. El(l + m) = El(f + g)
      BY ONLY <2>2, ElAdd
    <3> QED
      BY <2>2, <3>1
  <2>4. l + m = C * t /\ t \in Int /\ xx * E \in Int /\ v * uu \in Int
    BY <1>1, <1>2, <1>4, <1>6 DEF l, m, EC, uC
  <2> HIDE DEF t
  <2>5. El(C * t) = 0
    BY <2>3, <2>4
  <2>6. El(t) = 0
    BY ONLY <1>6, <1>7, <2>4, <2>5, ElZero
  <2> QED
    BY <2>4, <2>6 DEF t
<1>11. PICK s \in Int : El(s * s) = El(-v)
  BY MontgomeryIs
<1>12. IsSquare(E * (x * x))
  <2> DEFINE su == s * u
             ss == s * s
             mv == -v
             t == xx * E
             w == v * uu
             r == mv * uu
  <2>1. su \in Int /\ ss \in Int /\ mv \in Int /\ su * su = ss * uu /\ r \in Int /\ t = r + (t + w) /\ t + w \in Int /\ t \in Int
    <3> HIDE DEF u, v, xx, E
    <3>1. su \in Int /\ ss \in Int /\ mv \in Int
      BY <1>1, <1>4
    <3>2. su * su = ss * uu
      BY <1>4
    <3>3. r = -w /\ w \in Int /\ t \in Int
      BY <1>1, <1>4, <1>10
    <3> HIDE DEF r, w, t
    <3> QED
      BY <3>1, <3>2, <3>3
  <2>2. El(t + w) = 0
    BY <1>10
  <2> HIDE DEF ss, mv, uu, t, w, r
  <2>3. El(ss * uu) = El(r)
    <3>1. El(ss) = El(mv)
      BY <1>11 DEF ss, mv
    <3>2. uu \in Int
      BY <1>4 DEF uu
    <3> QED
      BY <2>1, <3>1, <3>2, ElFactor DEF r
  <2> DEFINE tw == t + w
  <2>4. tw \in Int /\ El(tw) = 0 /\ t = r + tw /\ t \in Int /\ r \in Int
    BY <2>1, <2>2
  <2> HIDE DEF tw
  <2>5. El(t) = El(r)
    BY ONLY <2>4, ElFrom
  <2>6. E * (x * x) = t
    <3> HIDE DEF E, x
    <3> QED
      BY <1>1, <1>6 DEF t
  <2> HIDE DEF su
  <2>7. El(su * su) = El(E * (x * x))
    BY <2>1, <2>3, <2>5, <2>6
  <2> QED
    BY <2>1, <2>7 DEF IsSquare
<1> HIDE DEF E
<1>13. IsSquare(E)
  BY <1>1, <1>6, <1>12, SquareUnit
<1> QED
  BY <1>5, <1>13 DEF E

\* A point without abscissa is the opposite of itself.
LEMMA AxisTwice ==
  ASSUME NEW p \in Affine, p[1] = 0
  PROVE  AffineAdd(p, p) = Origin
<1> DEFINE y == p[2]
           one == 1
           yy == y * y
<1>1. y \in Int /\ El(y) = y /\ p = <<0, y>> /\ El(Off(0, y)) = 0 /\ one \in Int
  <2>1. y \in Int /\ El(y) = y /\ p = <<p[1], y>>
    BY AffineInts
  <2> QED
    BY <2>1, AffineIs
<1>2. Off(0, y) = yy - one /\ yy \in Int /\ one * one = one
  <2>1. (0 * y) * (0 * y) = 0 /\ d * 0 = 0 /\ yy \in Int
    BY <1>1, CurveIs
  <2> QED
    BY <2>1 DEF Off
<1>3. El(yy) = El(one)
  <2> HIDE DEF yy, one
  <2> QED
    BY <1>1, <1>2, ElSame
<1>4. y = 1 \/ y = El(-1)
  <2>1. El(y) = El(one) \/ El(y) = El(-one)
    <3>1. El(y * y) = El(one * one)
      BY <1>2, <1>3
    <3> HIDE DEF y, one
    <3> QED
      BY ONLY <1>1, <3>1, SquareRoots
  <2> QED
    BY <1>1, <2>1, OneIs
<1>5. CASE y = 1
  <2>1. p = Origin
    <3> HIDE DEF y
    <3> QED
      BY <1>1, <1>5 DEF Origin
  <2> QED
    BY <2>1, OriginIs
<1>6. CASE y = El(-1)
  <2>1. p = Times(4, LopPoint) /\ Times(8, LopPoint) = Origin
    BY <1>1, <1>6, LowTimes
  <2> DEFINE m == 4
  <2>2. m \in Nat /\ 2 * m = 8 /\ LopPoint \in Affine
    BY LopIs
  <2> HIDE DEF m
  <2>3. Times(2 * m, LopPoint) = AffineAdd(Times(m, LopPoint), Times(m, LopPoint))
    BY <2>2, TimesTwice
  <2> QED
    BY <2>1, <2>2, <2>3 DEF m
<1> QED
  BY <1>4, <1>5, <1>6

\* What a multiple of 8 makes of a dirty point is what it makes of the clean one.
LEMMA EightCleans ==
  ASSUME NEW x \in Scalars, NEW e \in Nat, e % 8 = 0
  PROVE  Times(e, DirtyPoint(x)) = Times(e, Times(crypto_eddsa_trim_scalar(x), B))
<1> DEFINE c == x % 8
           low == Times(c, LopPoint)
           clean == Times(crypto_eddsa_trim_scalar(x), B)
           eight == 8
<1>1. c \in Nat /\ low \in Affine /\ clean \in Affine /\ DirtyPoint(x) = AffineAdd(clean, low) /\ LopPoint \in Affine
  BY DirtyPointIs, LopIs DEF DirtyPoint
<1>2. Times(e, LopPoint) = Origin
  <2>1. eight \in Nat \ {0} /\ Times(eight, LopPoint) = Origin /\ Times(0, LopPoint) = Origin /\ e % eight = 0
    BY LowTimes DEF Origin
  <2> HIDE DEF eight
  <2>2. Times(e, LopPoint) = Times(e % eight, LopPoint)
    BY <1>1, <2>1, TimesRepeats
  <2> QED
    BY <2>1, <2>2
<1> HIDE DEF c, clean
<1>3. Mult(e, low) = Origin
  <2>1. e \in Int /\ c \in Int
    BY <1>1
  <2>2. Mult(c, LopPoint) = low /\ Mult(e, LopPoint) = Origin
    BY <1>1, <1>2, MultIs
  <2>3. Mult(e, Mult(c, LopPoint)) = Mult(e * c, LopPoint) /\ Mult(c, Mult(e, LopPoint)) = Mult(c * e, LopPoint)
    BY <1>1, <2>1, MultTimes
  <2>4. e * c = c * e
    BY <2>1
  <2>5. Mult(c, Origin) = Origin
    BY <2>1, MultOfOrigin
  <2> QED
    BY <2>2, <2>3, <2>4, <2>5
<1> HIDE DEF low
<1>4. Mult(e, AffineAdd(clean, low)) = AffineAdd(Mult(e, clean), Mult(e, low))
  <2>1. e \in Int
    OBVIOUS
  <2> QED
    BY <1>1, <2>1, MultPlus
<1>5. AffineAdd(Mult(e, clean), Origin) = Mult(e, clean)
  BY <1>1, MultIs, OriginIs
<1>6. AffineAdd(clean, low) \in Affine
  BY <1>1, SumClosed
<1> QED
  BY <1>1, <1>3, <1>4, <1>5, <1>6, MultIs DEF clean

\* No dirty key is of low order.
LEMMA DirtyOffAxis ==
  ASSUME NEW x \in Scalars
  PROVE  DirtyPoint(x)[1] # 0
<1> SUFFICES ASSUME DirtyPoint(x)[1] = 0 PROVE FALSE
  OBVIOUS
<1> DEFINE q == DirtyPoint(x)
           t == crypto_eddsa_trim_scalar(x)
           D == Divisor(x)
           W == Times(8, B)
<1>1. q \in Affine /\ x \in Nat /\ t \in Nat /\ D \in Nat /\ (D * t) % L = 1 /\ B \in Affine /\ Mult(L, B) = Origin
      /\ L \in Nat \ {0}
  BY DirtyPointIs, TrimResidue, DivisorIs, BaseIs, BarrettRIs
<1>2. AffineAdd(q, q) = Origin
  BY <1>1, AxisTwice
<1>3. Times(8, q) = Origin
  <2> DEFINE one == 1
             two == 2
             four == 4
  <2>1. one \in Nat /\ two \in Nat /\ four \in Nat /\ 2 * one = two /\ 2 * two = four /\ 2 * four = 8 /\ Mult(one, q) = q
    BY <1>1, MultIs
  <2> HIDE DEF one, two, four, q
  <2>2. Times(one, q) = q
    BY <1>1, <2>1, MultIs
  <2>3. /\ Times(2 * one, q) = AffineAdd(Times(one, q), Times(one, q))
        /\ Times(2 * two, q) = AffineAdd(Times(two, q), Times(two, q))
        /\ Times(2 * four, q) = AffineAdd(Times(four, q), Times(four, q))
    BY <1>1, <2>1, TimesTwice
  <2>4. AffineAdd(Origin, Origin) = Origin
    BY OriginIs
  <2> QED
    BY <1>2, <2>1, <2>2, <2>3, <2>4
<1>4. Times(8, Times(t, B)) = Origin
  <2> DEFINE e == 8
  <2>1. e \in Nat /\ e % 8 = 0 /\ Times(e, q) = Origin
    BY <1>3
  <2> HIDE DEF e
  <2>2. Times(e, DirtyPoint(x)) = Times(e, Times(t, B))
    BY <2>1, EightCleans
  <2> QED
    BY <2>1, <2>2 DEF e
<1> HIDE DEF q, t, D
<1> DEFINE e == 8
<1>5. W \in Affine /\ Mult(e, B) = W /\ e \in Int /\ e \in Nat
  BY <1>1, MultIs
<1>6. Mult(t, W) = Origin
  <2>1. Mult(t, B) = Times(t, B) /\ Mult(t, B) \in Affine /\ t \in Int
    BY <1>1, MultIs
  <2>2. Mult(e, Mult(t, B)) = Origin
    <3>1. Mult(e, Times(t, B)) = Times(e, Times(t, B))
      BY <1>5, <2>1, MultIs
    <3> QED
      BY <1>4, <2>1, <3>1
  <2> HIDE DEF e, W
  <2>3. Mult(t, Mult(e, B)) = Mult(t * e, B) /\ Mult(e, Mult(t, B)) = Mult(e * t, B)
    BY <1>1, <1>5, <2>1, MultTimes
  <2>4. t * e = e * t
    BY <1>5, <2>1
  <2> QED
    BY <1>5, <2>2, <2>3, <2>4
<1> HIDE DEF W, e
<1>7. Mult(L, W) = Origin
  <2>1. L \in Int
    BY <1>1
  <2>2. Mult(L, Mult(e, B)) = Mult(L * e, B) /\ Mult(e, Mult(L, B)) = Mult(e * L, B)
    BY <1>1, <1>5, <2>1, MultTimes
  <2>3. L * e = e * L
    BY <1>5, <2>1
  <2>4. Mult(e, Origin) = Origin
    BY <1>5, MultOfOrigin
  <2> QED
    BY <1>1, <1>5, <2>2, <2>3, <2>4
<1>8. Times(D * t, W) = W
  <2> DEFINE n == D * t
  <2>1. n \in Nat /\ n % L = 1
    BY <1>1
  <2>2. Times(L, W) = Origin
    BY <1>1, <1>5, <1>7, MultIs
  <2> HIDE DEF n
  <2>3. Times(n, W) = Times(n % L, W)
    BY <1>1, <1>5, <2>1, <2>2, TimesRepeats
  <2>4. Times(1, W) = W
    BY <1>5, MultIs
  <2> QED
    BY <2>1, <2>3, <2>4 DEF n
<1>9. Mult(D * t, W) = Origin /\ D * t \in Nat
  <2>1. D \in Int /\ t \in Int /\ D * t \in Nat
    BY <1>1
  <2>2. Mult(D, Mult(t, W)) = Mult(D * t, W)
    BY <1>5, <2>1, MultTimes
  <2>3. Mult(D, Origin) = Origin
    BY <2>1, MultOfOrigin
  <2> QED
    BY <1>6, <2>1, <2>2, <2>3
<1>10. W # Origin
  BY EightBase DEF W
<1> QED
  BY <1>5, <1>8, <1>9, <1>10, MultIs

\* A hidden key is the dirty key of its secret.
LEMMA HiddenMaps ==
  ASSUME NEW u \in Field, NEW tweak, El(u) # 0, IsSquare(Eps(u)), crypto_elligator_rev(u, tweak).ok
  PROVE  crypto_elligator_map(crypto_elligator_rev(u, tweak).hidden) = u
<1> DEFINE rev == crypto_elligator_rev(u, tweak)
           Y == Radicand(u)
<1>1. u \in Int /\ El(u) = u
  BY ElField
<1>2. CASE El(u + A) = 0
  <2> DEFINE h == rev.hidden
             ma == -A
             one == 1
  <2>1. h.r = 0
    <3>1. rev = [ok |-> TRUE, hidden |-> [r |-> 0, pad |-> tweak.pad]]
      BY <1>2, RevZero
    <3> HIDE DEF rev
    <3> QED
      BY <3>1
  <2> HIDE DEF rev
  <2>2. (IsSquare(ma) => crypto_elligator_map(h) = El(ma)) /\ Eps(ma) = ma
    BY <2>1, MapZero
  <2>3. A \in Int /\ ma \in Int /\ one \in Int /\ u * one = u /\ u + A = u - ma
    BY <1>1, MontgomeryIs
  <2>4. El(u) = El(ma)
    <3>1. El(u - ma) = 0
      BY <1>2, <2>3
    <3> HIDE DEF ma
    <3> QED
      BY ONLY <1>1, <2>3, <3>1, ElSame
  <2>5. El(Eps(u)) = El(Eps(ma)) /\ Eps(u) \in Int /\ Eps(ma) \in Int
    <3>1. El(u * one) = El(ma)
      BY <2>3, <2>4
    <3>2. Cube(one) = 1 /\ Lifted(ma, one) = Eps(ma)
      <4> HIDE DEF ma
      <4>1. ma * one = ma
        BY <2>3
      <4> QED
        BY <4>1 DEF Cube, Lifted, Eps
    <3> HIDE DEF ma, one
    <3>3. El(Eps(u) * Cube(one)) = El(Lifted(ma, one)) /\ Eps(u) \in Int /\ Lifted(ma, one) \in Int
      BY <1>1, <2>3, <3>1, LiftedIs
    <3>4. Eps(u) * 1 = Eps(u)
      BY <3>3
    <3> QED
      BY <3>2, <3>3, <3>4
  <2> HIDE DEF ma
  <2>6. IsSquare(ma)
    BY <2>2, <2>5, SquareSame
  <2> QED
    BY <1>1, <2>2, <2>4, <2>6 DEF rev
<1>3. CASE El(u + A) # 0
  <2> DEFINE root == RootOf(u)
  <2>1. rev.ok = root.is_square /\ InvRoot(El(Y), root) /\ Y \in Int
    <3>1. rev = [ok |-> root.is_square,
                 hidden |-> [r |-> Positive(El(Tweaked(u, tweak) * root.root)), pad |-> tweak.pad]]
          /\ InvRoot(El(Y), root) /\ Y \in Int
      BY RevUnfold
    <3> HIDE DEF rev, root, Y
    <3> QED
      BY <3>1
  <2>2. IsSquare(El(Y))
    <3> HIDE DEF root, Y
    <3> QED
      BY <2>1 DEF InvRoot
  <2> HIDE DEF Y
  <2>3. IsSquare(Y)
    <3>1. El(El(Y)) = El(Y) /\ El(Y) \in Int
      BY <2>1, ElIs
    <3> QED
      BY <2>2, <3>1 DEF IsSquare
  <2> QED
    BY <1>3, <2>3, RevMaps DEF Y
<1> QED
  BY <1>2, <1>3

LEMMA HiddenKey ==
  ASSUME NEW x \in Scalars, NEW tweak, crypto_elligator_rev(crypto_x25519_dirty_fast(x), tweak).ok
  PROVE  LET u == crypto_elligator_map(crypto_elligator_rev(crypto_x25519_dirty_fast(x), tweak).hidden)
         IN /\ u = crypto_x25519_dirty_small(x)
            /\ crypto_x25519(7, u) = crypto_x25519(7, crypto_x25519_public_key(x))
<1> DEFINE q == DirtyPoint(x)
           v == MontgomeryU(q)
           t == crypto_eddsa_trim_scalar(x)
           p == Times(t, B)
           n == 7
           e == crypto_eddsa_trim_scalar(n)
<1>1. q \in Affine /\ x \in Nat /\ p \in Affine /\ n \in Nat /\ B \in Affine
  BY DirtyPointIs, BaseIs
<1>2. crypto_x25519_dirty_fast(x) = v /\ crypto_x25519_dirty_small(x) = v
  BY DirtyFast, DirtySmall
<1>3. v \in Field /\ El(v) # 0 /\ IsSquare(Eps(v))
  <2>1. q[1] # 0
    BY DirtyOffAxis
  <2> HIDE DEF q
  <2> QED
    BY <1>1, <2>1, EpsOnCurve, UIs
<1>4. crypto_elligator_map(crypto_elligator_rev(v, tweak).hidden) = v
  <2>1. crypto_elligator_rev(v, tweak).ok
    BY <1>2
  <2> HIDE DEF v
  <2> QED
    BY <1>3, <2>1, HiddenMaps
<1>5. crypto_x25519_public_key(x) = MontgomeryU(p)
  <2>1. BaseU = MontgomeryU(B)
    BY BasePointAssumption
  <2>2. crypto_x25519(x, MontgomeryU(B)) = MontgomeryU(Times(t, B))
    BY <1>1, X25519Is
  <2> QED
    BY <2>1, <2>2 DEF crypto_x25519_public_key
<1> HIDE DEF p, n
<1>6. e \in Nat /\ e % 8 = 0
  BY <1>1, TrimResidue
<1>7. crypto_x25519(n, v) = MontgomeryU(Times(e, q)) /\ crypto_x25519(n, MontgomeryU(p)) = MontgomeryU(Times(e, p))
  <2> HIDE DEF q, e
  <2> QED
    BY <1>1, X25519Is DEF e
<1>8. Times(e, q) = Times(e, p)
  <2> HIDE DEF e
  <2> QED
    BY <1>6, EightCleans DEF p
<1> HIDE DEF q, e
<1>9. crypto_x25519(n, v) = crypto_x25519(n, crypto_x25519_public_key(x))
  BY <1>5, <1>7, <1>8
<1> HIDE DEF v
<1> QED
  BY <1>2, <1>4, <1>9 DEF n

\* The first that succeeds is one of those tried.
LEMMA FirstHiddenIs ==
  ASSUME NEW tried, DOMAIN tried \subseteq Nat, FirstHidden(tried).ok
  PROVE  \E k \in DOMAIN tried :
           tried[k].rev.ok /\ FirstHidden(tried) = [ok |-> TRUE, hidden |-> tried[k].rev.hidden, secret |-> tried[k].secret]
<1> DEFINE found == {k \in DOMAIN tried : tried[k].rev.ok}
           least(k) == \A j \in found : k <= j
           k0 == CHOOSE k \in found : least(k)
<1>1. found # {}
  BY DEF FirstHidden
<1>2. \E k \in found : least(k)
  <2>1. found \subseteq Nat
    OBVIOUS
  <2> HIDE DEF found
  <2> QED
    BY <1>1, <2>1, Least
<1>3. k0 \in found
  <2> HIDE DEF found, least
  <2> QED
    BY <1>2
<1>4. FirstHidden(tried) = [ok |-> TRUE, hidden |-> tried[k0].rev.hidden, secret |-> tried[k0].secret]
  BY <1>1 DEF FirstHidden
<1> HIDE DEF k0
<1> QED
  BY <1>3, <1>4
==============================================================================
