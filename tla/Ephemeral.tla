------------------------------ MODULE Ephemeral -------------------------------
(***************************************************************************)
(* The key exchange extras of software/crypto/src/monocypher.c: the maps   *)
(* between the two forms of a key, dirty ephemeral keys, Elligator 2, and  *)
(* the division of a point by a private key.                               *)
(***************************************************************************)
EXTENDS EdDsa

crypto_eddsa_to_x25519(eddsa) ==
  LET y == fe_frombytes(eddsa.y) IN fe_mul(fe_add(1, y), fe_invert(fe_sub(1, y)))

\* x is taken as positive.
crypto_x25519_to_eddsa(x25519) ==
  LET u == fe_frombytes(x25519)
  IN [y |-> fe_mul(fe_sub(u, 1), fe_invert(fe_add(u, 1))), sign |-> 0]

-----------------------------------------------------------------------------
(* Dirty keys: the three bits of a secret that trimming clears choose a    *)
(* point of low order that is added to the public key.                     *)

\* The smaller version, spanning the ladder over one bit less.
crypto_x25519_dirty_small_ShortLadder(secret) ==
  scalarmult(add_xl(crypto_eddsa_trim_scalar(secret), secret % 8), DirtyBase, Bits - 1)

crypto_x25519_dirty_small(secret) ==
  scalarmult(add_xl(crypto_eddsa_trim_scalar(secret), secret % 8), DirtyBase, Bits)

\* The pattern of both coordinates of the multiples of the low-order point.
select_lop(x, k, cofactor) ==
  LET out == IF scalar_bit(cofactor, 0) = 1 THEN x
             ELSE IF scalar_bit(cofactor, 1) = 1 THEN k ELSE 0
  IN IF scalar_bit(cofactor, 2) = 1 THEN fe_neg(out) ELSE out

\* (1 + y) / (1 - y) without a division by Z.
UCoordinate(p) == fe_mul(fe_add(p.Z, p.Y), fe_invert(fe_sub(p.Z, p.Y)))

crypto_x25519_dirty_fast(secret) ==
  LET clean == ge_scalarmult_base(crypto_eddsa_trim_scalar(secret))
      low   == ge_precomp(select_lop(lop_x, sqrtm1, secret % 8),
                          select_lop(lop_y, 1, (secret + 2) % 8))
  IN UCoordinate(ge_add(clean, low))

-----------------------------------------------------------------------------
(* Elligator 2.  A representative is [r, pad], its two padding bits apart. *)

\* The Montgomery curve is v^2 = u^3 + A u^2 + u, not its twist.
ASSUME MontgomeryAssumption == \E x \in 0 .. P - 1 : fe_sq(x) = fe_neg(A + 2)

crypto_elligator_map(hidden) ==
  LET r      == fe_sq(fe_frombytes(hidden.r))
      r1     == fe_add(r, r)
      r2     == fe_add(r1, 1)
      t2     == fe_sq(r2)
      t3     == fe_mul(fe_sub(fe_mul(A2, r1), t2), A)
      root   == invsqrt(fe_mul(t3, fe_mul(t2, r2)))
      factor == IF root.is_square THEN 1 ELSE fe_mul(r, ufactor)
  IN fe_neg(fe_mul(fe_mul(fe_mul(fe_mul(factor, A), t3), t2), fe_sq(root.root)))

\* A representative that is not made positive.
crypto_elligator_rev_AnySign(public, tweak) ==
  LET u    == fe_frombytes(public)
      root == invsqrt(fe_mul(fe_mul(u, fe_add(u, A)), fe_neg(2)))
      r    == fe_mul(IF tweak.sign = 1 THEN fe_add(u, A) ELSE u, root.root)
  IN [ok |-> root.is_square, hidden |-> [r |-> r, pad |-> tweak.pad]]

crypto_elligator_rev(public, tweak) ==
  LET u    == fe_frombytes(public)
      root == invsqrt(fe_mul(fe_mul(u, fe_add(u, A)), fe_neg(2)))
      r    == fe_mul(IF tweak.sign = 1 THEN fe_add(u, A) ELSE u, root.root)
  IN [ok     |-> root.is_square,
      hidden |-> [r   |-> IF fe_isodd(fe_mul(r, 2)) = 1 THEN fe_neg(r) ELSE r,
                  pad |-> tweak.pad]]

\* The first key of those tried that has a representative.
FirstHidden(tried) ==
  LET found == {k \in DOMAIN tried : tried[k].rev.ok}
  IN IF found = {} THEN [ok |-> FALSE]
     ELSE LET k == CHOOSE k \in found : \A j \in found : k <= j
          IN [ok |-> TRUE, hidden |-> tried[k].rev.hidden, secret |-> tried[k].secret]

\* The first secret of a stream, one [secret, tweak] for each turn of the loop, whose
\* key has a representative.
crypto_elligator_key_pair(stream) ==
  LET tried == [k \in DOMAIN stream |->
                 [rev |-> crypto_elligator_rev(crypto_x25519_dirty_fast(stream[k].secret),
                                               stream[k].tweak),
                  secret |-> stream[k].secret]]
  IN FirstHidden(tried)

-----------------------------------------------------------------------------
(* Division by a private key.                                              *)

\* The powers of x modulo L.
PowerModL(x, n) ==
  LET power[k \in Nat] ==
        IF k = 0 THEN 1
        ELSE LET half == power[k \div 2]
             IN (((half * half) % L) * (IF k % 2 = 1 THEN x ELSE 1)) % L
  IN power[n]

\* L is prime, as Fermat's little theorem tells it, and it is just above its top bit:
\* a trimmed scalar is eight times a number below L, and bears seven times L on top.
ASSUME OrderAssumption ==
  /\ \A x \in 1 .. L - 1 : (x * PowerModL(x, L - 2)) % L = 1
  /\ 2 ^ (Bits - 4) < L /\ 7 * L <= 2 ^ (Bits - 1) /\ Base >= 8

\* Exponentiation by L - 2 in Montgomery form.
MontgomeryInverse(scalar) ==
  LET m_scl == mod_l(ZeroLimbs(N) \o Limbs(N, scalar))
      product(a, b) == redc(multiply(ZeroLimbs(2 * N), a, b))
      m_inv[k \in 0 .. TopBit + 1] ==
        IF k = 0 THEN Limbs(N, Base ^ N % L)
        ELSE LET last    == m_inv[k - 1]
                 squared == product(last, last)
             IN IF scalar_bit(L - 2, TopBit + 1 - k) = 1 THEN product(squared, m_scl) ELSE squared
  IN Number(redc(m_inv[TopBit + 1] \o ZeroLimbs(N)))

\* The inverse with its cofactor left as it is.
Divisor_NoClear(secret) == MontgomeryInverse(crypto_eddsa_trim_scalar(secret))

\* The inverse modulo L that is a multiple of 8.
Divisor(secret) ==
  LET inverse == MontgomeryInverse(crypto_eddsa_trim_scalar(secret))
  IN add_xl(inverse, (inverse * 3) % 8)

crypto_x25519_inverse(secret, point) == scalarmult(Divisor(secret), point, Bits)
=============================================================================
