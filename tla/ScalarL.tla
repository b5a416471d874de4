------------------------------- MODULE ScalarL --------------------------------
(***************************************************************************)
(* Arithmetic modulo L of software/crypto/src/monocypher.c, limb by limb:  *)
(* Barrett and Montgomery reduction, the conditional subtraction, and the  *)
(* multiples of L that carry a cofactor.  A number of N limbs is a         *)
(* sequence, the lowest limb first; a u64 carry is the width of two limbs. *)
(* The eight limbs of 32 bits are scaled to N limbs below Base.            *)
(***************************************************************************)
EXTENDS Integers, Sequences

CONSTANTS Base,   \* the values of a limb (2^32)
          N,      \* the limbs of a scalar (8)
          L       \* the order of the base point (2^252 + ...)

\* L fills its top limb but for three bits and more; the code holds -1 / L modulo Base^N,
\* that L has an inverse is all there is to it.
ASSUME ScalarLAssumption ==
  /\ Base \in Nat \ {0, 1} /\ N \in Nat \ {0}
  /\ L \in Nat /\ Base ^ (N - 1) < L /\ 8 * L < Base ^ N /\ L % 8 = 5

\* What a power is, for the provers.
ASSUME PowersAssumption ==
  Base ^ 0 = 1 /\ \A i \in 0 .. (2 * N - 1) : Base ^ (i + 1) = Base * Base ^ i

Scalars == 0 .. (Base ^ N - 1)

ASSUME InverseAssumption == \E k \in Scalars : (k * L) % Base ^ N = Base ^ N - 1

\* load32_le_buf and store32_le_buf.
Limbs(n, x) == [i \in 1 .. n |-> (x \div Base ^ (i - 1)) % Base]
Number(limbs) ==
  LET sum[i \in 0 .. Len(limbs)] == IF i = 0 THEN 0 ELSE sum[i - 1] + limbs[i] * Base ^ (i - 1)
  IN sum[Len(limbs)]
ZeroLimbs(n) == [i \in 1 .. n |-> 0]
Low(limbs, n) == SubSeq(limbs, 1, n)

u32(x) == x % Base
u64(x) == x % (Base * Base)

\* The carries into each limb of a sum of terms, from `first` on.
Carries(terms, first) ==
  LET carry[i \in 1 .. Len(terms) + 1] ==
        IF i = 1 THEN first ELSE u64(carry[i - 1] + terms[i - 1]) \div Base
  IN carry

\* The limbs of a sum of terms, and its last carry behind them.
Carried(terms, first) ==
  LET carry == Carries(terms, first)
  IN [i \in 1 .. Len(terms) + 1 |->
        IF i <= Len(terms) THEN u32(carry[i] + terms[i]) ELSE u32(carry[i])]

\* p with a * b[1 .. n] added from its limb `at` on; the last carry is dropped.
AddRow(p, at, a, b, n) ==
  LET row == Carried([j \in 1 .. n |-> p[at + j - 1] + a * b[j]], 0)
  IN SubSeq(p, 1, at - 1) \o Low(row, n) \o SubSeq(p, at + n, Len(p))

\* The same, with the last carry stored in the limb behind the row.
MultiplyRow(p, at, a, b, n) ==
  LET row == Carried([j \in 1 .. n |-> p[at + j - 1] + a * b[j]], 0)
  IN SubSeq(p, 1, at - 1) \o row \o SubSeq(p, at + n + 1, Len(p))

LimbsOfL == Limbs(N, L)

\* p + a * b.
multiply(p, a, b) ==
  LET rows[i \in 0 .. N] == IF i = 0 THEN p ELSE MultiplyRow(rows[i - 1], i, a[i], b, N)
  IN rows[N]

\* The complement of a limb, for a subtraction in two's complement.
Complement(limb) == Base - 1 - limb

\* Is x above L.
is_above_l_Strict(x) == Carried([i \in 1 .. N |-> x[i] + Complement(LimbsOfL[i])], 0)[N + 1]

\* Is x at least L: the carry out of x - L.
is_above_l(x) == Carried([i \in 1 .. N |-> x[i] + Complement(LimbsOfL[i])], 1)[N + 1]

\* x - L whatever x is.
remove_l_Always(x) == Low(Carried([i \in 1 .. N |-> x[i] + Complement(LimbsOfL[i])], 1), N)

remove_l(x) ==
  LET above == is_above_l(x)
      term(i) == x[i] + (IF above = 1 THEN Complement(LimbsOfL[i]) ELSE 0)
  IN Low(Carried([i \in 1 .. N |-> term(i)], above), N)

\* Base^(2N) divided by L, in N + 1 limbs.
BarrettR == Limbs(N + 1, Base ^ (2 * N) \div L)

mod_l(x) ==
  LET product[i \in 0 .. N + 1] ==
        IF i = 0 THEN ZeroLimbs(3 * N + 1)
        ELSE MultiplyRow(product[i - 1], i, BarrettR[i], x, 2 * N)
      xr == product[N + 1]
      floor[i \in 0 .. N] ==                    \* the quotient times L, its low N limbs
        IF i = 0 THEN ZeroLimbs(N)
        ELSE AddRow(floor[i - 1], i, xr[2 * N + i], LimbsOfL, N + 1 - i)
  IN remove_l(Low(Carried([i \in 1 .. N |-> x[i] + Complement(floor[N][i])], 1), N))

crypto_eddsa_reduce(expanded) == Number(mod_l(Limbs(2 * N, expanded)))

crypto_eddsa_mul_add(a, b, c) ==
  Number(mod_l(multiply(Limbs(N, c) \o ZeroLimbs(N), Limbs(N, a), Limbs(N, b))))

\* s + (x % 8) * L, the cofactor of x in the multiple of L.
add_xl(s, x) ==
  Number(Low(Carried([i \in 1 .. N |-> Limbs(N, s)[i] + LimbsOfL[i] * (x % 8)], 0), N))

\* -1 / L modulo Base^N.
MontgomeryK == CHOOSE k \in Scalars : (k * L) % Base ^ N = Base ^ N - 1

\* x / Base^N modulo L, for x below L * Base^N.
redc(x) ==
  LET k == Limbs(N, MontgomeryK)
      rows[i \in 0 .. N] ==
        IF i = 0 THEN ZeroLimbs(N) ELSE AddRow(rows[i - 1], i, x[i], k, N + 1 - i)
      t == multiply(ZeroLimbs(2 * N), rows[N], LimbsOfL)
  IN remove_l(SubSeq(Carried([i \in 1 .. 2 * N |-> t[i] + x[i]], 0), N + 1, 2 * N))
=============================================================================
