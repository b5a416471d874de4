-------------------------------- MODULE EdDsa ---------------------------------
(***************************************************************************)
(* What signatures of software/crypto/src/monocypher.c are computed with:  *)
(* [s]B - [h]A with two sliding windows over one ladder, and the twin      *)
(* signed combs that multiply the base point.                              *)
(***************************************************************************)
EXTENDS Curve25519

-----------------------------------------------------------------------------
(* Sliding windows.                                                        *)

\* The highest bit a reduced scalar may have (252).
TopBit == Bits - 4

slide_init(scalar) ==
  LET ones == {i \in 1 .. TopBit : scalar_bit(scalar, i) = 1}
      i    == IF ones = {} THEN 0 ELSE CHOOSE k \in ones : \A j \in ones : j <= k
  IN [next_check |-> i + 1, next_index |-> -1, next_digit |-> -1]

\* The 2-adic digit of v: v = odd * 2^shift, for a window of at most 8 bits.
Shift(v) == CHOOSE s \in 0 .. 7 : v % 2 ^ s = 0 /\ (v \div 2 ^ s) % 2 = 1

\* The window without the bit below it.
Window_NoRound(scalar, i, w) ==
  LET bits[j \in 0 .. w - 1] ==
        IF j = 0 THEN 0 ELSE bits[j - 1] + scalar_bit(scalar, i - (w - 1) + j - 1) * 2 ^ (j - 1)
  IN bits[w - 1] - scalar_bit(scalar, i) * 2 ^ (w - 1)

\* The value of a window of w bits below i, its top bit negative, rounded up by the bit
\* below it.
Window(scalar, i, w) ==
  LET bits[j \in 0 .. w - 1] ==
        IF j = 0 THEN 0 ELSE bits[j - 1] + scalar_bit(scalar, i - (w - 1) + j - 1) * 2 ^ (j - 1)
  IN bits[w - 1] + scalar_bit(scalar, i - w) - scalar_bit(scalar, i) * 2 ^ (w - 1)

\* next_check is a u8: below the last window it wraps and is never met again.
slide_step(ctx, width, i, scalar) ==
  LET w    == IF width < i + 1 THEN width ELSE i + 1
      v    == Window(scalar, i, w)
      next == IF i # ctx.next_check THEN ctx
              ELSE IF scalar_bit(scalar, i) = scalar_bit(scalar, i - 1)
              THEN [ctx EXCEPT !.next_check = (@ - 1) % 256]
              ELSE [next_check |-> (ctx.next_check - w) % 256,
                    next_index |-> i - (w - 1) + Shift(v),
                    next_digit |-> v \div 2 ^ Shift(v)]
  IN [ctx |-> next, digit |-> IF i = next.next_index THEN next.next_digit ELSE 0]

\* The digits of a scalar, from the top: what the loop below meets.
Digits(scalar, width, top) ==
  LET step[k \in 0 .. top + 1] ==
        IF k = 0 THEN [ctx |-> slide_init(scalar), digits |-> <<>>]
        ELSE LET last == step[k - 1]
                 now  == slide_step(last.ctx, width, top + 1 - k, scalar)
             IN [ctx |-> now.ctx, digits |-> Append(last.digits, now.digit)]
  IN step[top + 1].digits

-----------------------------------------------------------------------------
(* The equation of a signature.                                            *)

\* A point of a table.
Precomputed(p) == ge_precomp(p[1], p[2])

\* The odd multiples B, 3 B, ... 15 B.
b_window == [j \in 0 .. 2 ^ (B_W_WIDTH - 2) - 1 |->
               Precomputed(Times(2 * j + 1, B))]

\* The odd multiples of -A.
LutA(minus_A) ==
  LET twice == ge_double(minus_A)
      lut[i \in 0 .. 2 ^ (P_W_WIDTH - 2) - 1] ==
        IF i = 0 THEN ge_cache(minus_A) ELSE ge_cache(ge_add(twice, lut[i - 1]))
  IN lut

AddDigit(sum, digit, table) ==
  IF digit > 0 THEN ge_add(sum, table[digit \div 2])
  ELSE IF digit < 0 THEN ge_sub(sum, table[(-digit) \div 2]) ELSE sum

\* [s]B - [h]A: one doubling for a bit of both scalars.
DoubleScalar(minus_A, s, h) ==
  LET lutA == LutA(minus_A)
      top  == LET a == slide_init(h).next_check
                  b == slide_init(s).next_check
              IN IF a > b THEN a ELSE b
      hs   == Digits(h, P_W_WIDTH, top)
      ss   == Digits(s, B_W_WIDTH, top)
      sum[k \in 0 .. top + 1] ==
        IF k = 0 THEN ge_zero
        ELSE AddDigit(AddDigit(ge_double(sum[k - 1]), hs[k], lutA), ss[k], b_window)
  IN sum[top + 1]

\* The equation when S may be L or more.
crypto_eddsa_check_equation_AnyS(signature, public_key, h) ==
  LET minus_A == ge_frombytes_neg_vartime(public_key)
      minus_R == ge_frombytes_neg_vartime(signature.R)
      sum     == ge_add(DoubleScalar(minus_A.h, signature.S, h), ge_cache(minus_R.h))
  IN /\ minus_A.ok /\ minus_R.ok
     /\ ge_tobytes(ge_double(ge_double(ge_double(sum)))) = ge_tobytes(ge_zero)

crypto_eddsa_check_equation(signature, public_key, h) ==
  LET minus_A == ge_frombytes_neg_vartime(public_key)
      minus_R == ge_frombytes_neg_vartime(signature.R)
      sum     == ge_add(DoubleScalar(minus_A.h, signature.S, h), ge_cache(minus_R.h))
  IN /\ minus_A.ok /\ minus_R.ok /\ is_above_l(Limbs(N, signature.S)) = 0
     /\ ge_tobytes(ge_double(ge_double(ge_double(sum)))) = ge_tobytes(ge_zero)

-----------------------------------------------------------------------------
(* The base point times a scalar.                                          *)

\* A tooth or its opposite.
Signed(p, bit) == IF bit = 1 THEN p ELSE Negated(p)

\* Entry j of the low comb: the last tooth and, by the bits of j, plus or minus the
\* others; the high comb starts at half of the scalar.
Comb(offset) ==
  [j \in 0 .. 2 ^ (Teeth - 1) - 1 |->
     LET tooth[t \in 0 .. Teeth - 1] == Times(2 ^ (Spacing * t + offset), B)
         sum[t \in 0 .. Teeth - 1] ==
           IF t = 0 THEN tooth[Teeth - 1]
           ELSE AffineAdd(sum[t - 1], Signed(tooth[t - 1], scalar_bit(j, t - 1)))
     IN Precomputed(sum[Teeth - 1])]
b_comb_low  == Comb(0)
b_comb_high == Comb(Spacing * Teeth)

\* The entry for the bits `Spacing` apart, from i on; the last tooth gives the sign.
lookup_add(p, comb, scalar, i) ==
  LET bit(t)  == scalar_bit(scalar, i + Spacing * t)
      high    == bit(Teeth - 1)
      index[t \in 0 .. Teeth - 1] ==
        IF t = 0 THEN 0
        ELSE index[t - 1] + 2 ^ (t - 1) * (IF high = 1 THEN bit(t - 1) ELSE 1 - bit(t - 1))
      entry == comb[index[Teeth - 1]]
  IN ge_add(p, IF high = 1 THEN entry ELSE ge_negated(entry))

half_mod_L == (L + 1) \div 2
half_ones  == (((2 ^ Bits - 1) % L) * half_mod_L) % L

\* The comb of a scalar that is only halved.
Recoded_NoOnes(scalar) == crypto_eddsa_mul_add(scalar, half_mod_L, 0)

\* The scalar with every bit set: a bit stands for 1 or -1.
Recoded(scalar) == crypto_eddsa_mul_add(scalar, half_mod_L, half_ones)

\* One doubling, and one entry of each comb, for every place between two teeth.
TwinCombs(s_scalar, low, high) ==
  LET sum[k \in 1 .. Spacing] ==
        LET i == Spacing - k
            p == IF k = 1 THEN ge_zero ELSE ge_double(sum[k - 1])
        IN lookup_add(lookup_add(p, low, s_scalar, i), high, s_scalar, i + Spacing * Teeth)
  IN sum[Spacing]

ge_scalarmult_base(scalar) == TwinCombs(Recoded(scalar), b_comb_low, b_comb_high)

crypto_eddsa_scalarbase(scalar) == ge_tobytes(ge_scalarmult_base(scalar))
=============================================================================
