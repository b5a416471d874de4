------------------------------ MODULE Curve25519 ------------------------------
(***************************************************************************)
(* The curve of software/crypto/src/monocypher.c over a prime field of any *)
(* size: Edwards points in extended coordinates, the group law they are    *)
(* compared with, and the Montgomery ladder.  A field element is its       *)
(* value: the limbs of fe_* below it are left out, their results taken as  *)
(* exact.                                                                  *)
(***************************************************************************)
EXTENDS ScalarL

CONSTANTS P,          \* the prime of the field (2^255 - 19)
          A,          \* the coefficient of the Montgomery curve (486662)
          sqrtm1,     \* a square root of -1
          lop_x, lop_y,    \* the low-order point
          B_x, B_y,   \* the base point
          BaseU,      \* its u coordinate (9)
          DirtyBase,  \* the u coordinate of the base point of order 8 L
          Bits,       \* the bits of a scalar (256)
          FieldBits,  \* the bits that fe_frombytes reads, without the top one (255)
          Teeth,      \* the teeth of a comb (4), two combs to a scalar
          P_W_WIDTH, B_W_WIDTH   \* the windows of the signature equation (3, 5)

Spacing == Bits \div (2 * Teeth)   \* the bits between two teeth (32)

-----------------------------------------------------------------------------
(* The field.                                                              *)

fe_add(f, g) == (f + g) % P
fe_sub(f, g) == (f - g) % P
fe_neg(f)    == (-f) % P
fe_mul(f, g) == (f * g) % P
fe_sq(f)     == fe_mul(f, f)
fe_isodd(f)  == f % 2

\* A number of bytes, without its top bit, reduced.
fe_frombytes(s) == (s % 2 ^ FieldBits) % P

\* Every element of the field has an encoding.
ASSUME EncodingAssumption == 2 ^ FieldBits \in Nat /\ P <= 2 ^ FieldBits

Power(f, n) ==
  LET power[k \in Nat] ==
        IF k = 0 THEN 1
        ELSE LET half == power[k \div 2]
             IN fe_mul(fe_sq(half), IF k % 2 = 1 THEN f ELSE 1)
  IN power[n]

\* 1 / sqrt(x), or sqrt(sqrt(-1) / x) when x is not a square, from t0 = x^((P - 5) / 8)
\* and the fourth root of unity it leaves.
RootFrom(x, t0, quartic) ==
  [root      |-> IF quartic \in {fe_neg(1), fe_neg(sqrtm1)} THEN fe_mul(t0, sqrtm1) ELSE t0,
   is_square |-> quartic \in {1, fe_neg(1)} \/ x = 0]

invsqrt(x) == LET t0 == Power(x, (P - 5) \div 8) IN RootFrom(x, t0, fe_mul(fe_sq(t0), x))

fe_invert(x) == fe_mul(fe_sq(invsqrt(fe_sq(x)).root), x)

\* The constants of the curve.
a24     == fe_mul(A + 2, fe_invert(4))              \* (A + 2) / 4, 121666
d       == fe_neg(fe_mul(a24 - 1, fe_invert(a24)))
D2      == fe_mul(2, d)
ufactor == fe_neg(fe_mul(2, sqrtm1))
A2      == fe_sq(A)

\* P is prime, as Fermat's little theorem tells it, and sqrtm1 is a root of -1.
ASSUME FieldAssumption ==
  /\ P \in Nat /\ P > 5 /\ P % 8 = 5
  /\ \A x \in 1 .. P - 1 : Power(x, P - 1) = 1
  /\ sqrtm1 \in 0 .. P - 1 /\ fe_sq(sqrtm1) = P - 1

\* A scalar has as many bits as its limbs, counted in a byte; a window has at most 8, and
\* the teeth of both combs are equally far apart.
ASSUME WidthAssumption ==
  /\ Bits \in 8 .. 256 /\ 2 ^ Bits = Base ^ N
  /\ 2 ^ 0 = 1 /\ \A i \in 0 .. Bits - 1 : 2 ^ (i + 1) = 2 * 2 ^ i
  /\ P_W_WIDTH \in 2 .. 8 /\ B_W_WIDTH \in 2 .. 8
  /\ Teeth \in Nat \ {0} /\ Bits % (2 * Teeth) = 0

\* d is not a square: the formulas below have no exceptional points.
ASSUME CompleteAssumption == A \in 0 .. P - 1 /\ \A x \in 0 .. P - 1 : fe_sq(x) # d

-----------------------------------------------------------------------------
(* Edwards points.  An encoding is [y, sign].                              *)

ge_zero == [X |-> 0, Y |-> 1, Z |-> 1, T |-> 0]

ge_tobytes(h) ==
  LET recip == fe_invert(h.Z)
  IN [y |-> fe_mul(h.Y, recip), sign |-> fe_isodd(fe_mul(h.X, recip))]

\* The opposite of the point that s encodes, if it is on the curve.
ge_frombytes_neg_vartime(s) ==
  LET y    == fe_frombytes(s.y)
      num  == fe_sub(fe_sq(y), 1)
      den  == fe_add(fe_mul(fe_sq(y), d), 1)
      root == invsqrt(fe_mul(num, den))
      x0   == fe_mul(num, root.root)
      x    == IF fe_isodd(x0) = s.sign THEN fe_neg(x0) ELSE x0
  IN [ok |-> root.is_square, h |-> [X |-> x, Y |-> y, Z |-> 1, T |-> fe_mul(x, y)]]

ge_cache(p) ==
  [Yp |-> fe_add(p.Y, p.X), Ym |-> fe_sub(p.Y, p.X), Z |-> p.Z, T2 |-> fe_mul(p.T, D2)]

\* A cached point in affine coordinates: the form of the tables.
ge_precomp(x, y) ==
  [Yp |-> fe_add(y, x), Ym |-> fe_sub(y, x), Z |-> 1, T2 |-> fe_mul(fe_mul(x, y), D2)]

ge_negated(q) == [Yp |-> q.Ym, Ym |-> q.Yp, Z |-> q.Z, T2 |-> fe_neg(q.T2)]

\* ge_add and, with Z = 1, ge_madd.
ge_add(p, q) ==
  LET a0 == fe_mul(fe_add(p.Y, p.X), q.Yp)
      b0 == fe_mul(fe_sub(p.Y, p.X), q.Ym)
      y  == fe_add(a0, b0)
      x  == fe_sub(a0, b0)
      z  == fe_mul(fe_add(p.Z, p.Z), q.Z)
      t  == fe_mul(p.T, q.T2)
      a  == fe_add(z, t)
      b  == fe_sub(z, t)
  IN [X |-> fe_mul(x, b), Y |-> fe_mul(y, a), Z |-> fe_mul(a, b), T |-> fe_mul(x, y)]

\* ge_sub and ge_msub.
ge_sub(p, q) == ge_add(p, ge_negated(q))

ge_double(p) ==
  LET xx == fe_sq(p.X)
      yy == fe_sq(p.Y)
      t  == fe_add(yy, xx)
      y  == fe_sub(yy, xx)
      x  == fe_sub(fe_sq(fe_add(p.X, p.Y)), t)
      z  == fe_sub(fe_mul(2, fe_sq(p.Z)), y)
  IN [X |-> fe_mul(x, z), Y |-> fe_mul(t, y), Z |-> fe_mul(y, z), T |-> fe_mul(x, t)]

\* The group law in affine coordinates: it defines the points of the tables, and
\* what the formulas above are compared with.
AffineSum(p, q, k) ==   \* k = d x1 x2 y1 y2
  << fe_mul(fe_add(fe_mul(p[1], q[2]), fe_mul(q[1], p[2])), fe_invert(1 + k)),
     fe_mul(fe_add(fe_mul(p[2], q[2]), fe_mul(p[1], q[1])), fe_invert(1 - k)) >>
AffineAdd(p, q) == AffineSum(p, q, fe_mul(d, fe_mul(fe_mul(p[1], q[1]), fe_mul(p[2], q[2]))))

Times(k, p) ==
  LET times[n \in Nat] ==
        IF n = 0 THEN <<0, 1>>
        ELSE LET half == times[n \div 2]
             IN AffineAdd(AffineAdd(half, half), IF n % 2 = 1 THEN p ELSE <<0, 1>>)
  IN times[k]

Negated(p) == <<fe_neg(p[1]), p[2]>>
OnCurve(p) == fe_sub(fe_sq(p[2]), fe_sq(p[1])) = fe_add(1, fe_mul(d, fe_mul(fe_sq(p[1]), fe_sq(p[2]))))
B == <<B_x, B_y>>
Encoded(p) == [y |-> p[2], sign |-> fe_isodd(p[1])]
\* The u coordinate of a point; the zero point has none and is sent to 0.
MontgomeryU(p) == fe_mul(fe_add(1, p[2]), fe_invert(fe_sub(1, p[2])))

\* The base point has order L and the low-order point order 8, and DirtyBase is their
\* sum as both versions of a dirty key need it.
ASSUME BasePointAssumption ==
  /\ B_x \in 0 .. P - 1 /\ B_y \in 0 .. P - 1 /\ OnCurve(B)
  /\ B # <<0, 1>> /\ Times(L, B) = <<0, 1>> /\ BaseU = MontgomeryU(B)
ASSUME LowOrderAssumption ==
  /\ lop_x \in 0 .. P - 1 /\ lop_y \in 0 .. P - 1 /\ OnCurve(<<lop_x, lop_y>>)
  /\ Times(2, <<lop_x, lop_y>>) = <<sqrtm1, 0>> /\ Times(4, <<lop_x, lop_y>>) = <<0, P - 1>>
  /\ DirtyBase = MontgomeryU(AffineAdd(B, Times(5, <<lop_x, lop_y>>)))

-----------------------------------------------------------------------------
(* Scalars and the Montgomery ladder.                                      *)

scalar_bit(s, i) == IF i < 0 THEN 0 ELSE (s \div 2 ^ i) % 2

crypto_eddsa_trim_scalar(in) ==
  2 ^ (Bits - 2) + 8 * ((in % 2 ^ (Bits - 2)) \div 8)

\* One step of the ladder: (P2, P3) becomes (2 P2, P2 + P3), given P3 - P2 = P1.
LadderStep(x1, l) ==
  LET d3 == fe_sub(l.x3, l.z3)
      d2 == fe_sub(l.x2, l.z2)
      s2 == fe_add(l.x2, l.z2)
      s3 == fe_add(l.x3, l.z3)
      z3 == fe_mul(d3, s2)
      z2 == fe_mul(s3, d2)
      bb == fe_sq(d2)
      aa == fe_sq(s2)
      e  == fe_sub(aa, bb)
  IN [x2 |-> fe_mul(aa, bb), z2 |-> fe_mul(e, fe_add(bb, fe_mul(e, a24))),
      x3 |-> fe_sq(fe_add(z3, z2)), z3 |-> fe_mul(x1, fe_sq(fe_sub(z3, z2)))]

Swapped(l, swap) ==
  IF swap = 1 THEN [x2 |-> l.x3, z2 |-> l.z3, x3 |-> l.x2, z3 |-> l.z2] ELSE l

\* The ladder without the swap that is left over after its last bit.
scalarmult_NoLastSwap(scalar, p, nb_bits) ==
  LET x1 == fe_frombytes(p)
      step[i \in 0 .. nb_bits] ==
        IF i = 0 THEN [l |-> [x2 |-> 1, z2 |-> 0, x3 |-> x1, z3 |-> 1], swap |-> 0]
        ELSE LET last == step[i - 1]
                 b    == scalar_bit(scalar, nb_bits - i)
             IN [l |-> LadderStep(x1, Swapped(last.l, (last.swap + b) % 2)), swap |-> b]
      end == step[nb_bits].l
  IN fe_mul(end.x2, fe_invert(end.z2))

scalarmult(scalar, p, nb_bits) ==
  LET x1 == fe_frombytes(p)
      step[i \in 0 .. nb_bits] ==
        IF i = 0 THEN [l |-> [x2 |-> 1, z2 |-> 0, x3 |-> x1, z3 |-> 1], swap |-> 0]
        ELSE LET last == step[i - 1]
                 b    == scalar_bit(scalar, nb_bits - i)
             IN [l |-> LadderStep(x1, Swapped(last.l, (last.swap + b) % 2)), swap |-> b]
      end == Swapped(step[nb_bits].l, step[nb_bits].swap)
  IN fe_mul(end.x2, fe_invert(end.z2))

crypto_x25519(secret, public) ==
  scalarmult(crypto_eddsa_trim_scalar(secret), public, Bits - 1)

crypto_x25519_public_key(secret) == crypto_x25519(secret, BaseU)
=============================================================================
