------------------------------ MODULE CurveCalls ------------------------------
(***************************************************************************)
(* Programs that call the curve, signature and hash functions of           *)
(* software/crypto/src/monocypher.c.  A key is made, a message signed with *)
(* it and the signature, as it was made or altered, checked; or one of the *)
(* other functions is called once.  They share no state, so that a         *)
(* behaviour is one signing or one call.  What BLAKE2b returns is drawn    *)
(* when a message is first hashed and kept in `oracle`.                    *)
(***************************************************************************)
EXTENDS Ephemeral, Argon2, FiniteSets

CONSTANTS Seeds, Messages,   \* what keys are made from, and messages, as bytes
          HashValues,        \* what BLAKE2b may return, numbers of 2N limbs
          Points,            \* points of the curve
          Encodings,         \* encodings of points and others
          Secrets,           \* scalars as a caller may give them
          BaseScalars, DirtySecrets,   \* more of them, for the cheaper functions
          Offsets,           \* multiples of the low-order point
          Wide,              \* numbers of 2N limbs
          Streams,           \* streams of [secret, tweak] for Elligator keys
          HashTexts,         \* messages in pieces for BLAKE2b
          HashKeys,          \* and the keys it is given
          ArgonConfigs,      \* crypto_argon2_config records
          ArgonSeeds,        \* index seeds, [low, high]
          ArgonInputs        \* tuples of password, salt, key and additional data

\* A scalar is given in 32 bytes, a number to be reduced and a hash in 64; a point is given
\* by its coordinates, an encoding with one bit for the sign.  The curve has 8 L points.
ASSUME CallsAssumption ==
  /\ Secrets \cup BaseScalars \cup DirtySecrets \subseteq Scalars
  /\ Wide \subseteq 0 .. (Base ^ (2 * N) - 1)
  /\ HashValues \subseteq 0 .. (Base ^ (2 * N) - 1)
  /\ \A p \in Points :
       p \in (0 .. P - 1) \X (0 .. P - 1) /\ OnCurve(p) /\ Times(8 * L, p) = <<0, 1>>
  /\ \A stream \in Streams :
       /\ stream \in Seq({stream[k] : k \in DOMAIN stream})
       /\ \A k \in DOMAIN stream : stream[k].secret \in Scalars
  /\ Offsets \subseteq Nat
  /\ \A s \in Encodings : s.y \in 0 .. (2 ^ FieldBits - 1) /\ s.sign \in {0, 1}

\* Texts are bytes, a key of BLAKE2b fits into a block, and Argon2 has four inputs.
IsBytes(t) == t \in Seq({t[i] : i \in DOMAIN t})
ASSUME TextsAssumption ==
  /\ \A t \in Messages \cup HashKeys : IsBytes(t)
  /\ \A t \in HashKeys : Len(t) <= HashBlock
  /\ \A pieces \in HashTexts \cup ArgonInputs :
       IsBytes(pieces) /\ \A k \in DOMAIN pieces : IsBytes(pieces[k])
  /\ \A inputs \in ArgonInputs : Len(inputs) = 4

\* crypto_argon2 asks for a lane, a pass and eight blocks a lane or more; the blocks of a
\* lane are counted in 32 bits, and the two halves of a seed have as many.
ASSUME ArgonAssumption ==
  /\ \A config \in ArgonConfigs :
       /\ config.nb_lanes \in Nat \ {0} /\ config.nb_passes \in Nat \ {0}
       /\ config.nb_blocks \in Nat /\ config.nb_blocks >= 8 * config.nb_lanes
       /\ lane_size(config) <= Seed32
  /\ \A seed \in ArgonSeeds : seed.low \in 0 .. Seed32 - 1 /\ seed.high \in Nat

VARIABLES call,    \* the last call with its result
          key,     \* the key pair
          signed,  \* the message signed with it and its signature
          oracle   \* what BLAKE2b has returned
vars == <<call, key, signed, oracle>>

None == [of |-> "none"]
Idle == call = None /\ key = None

Init == call = None /\ key = None /\ signed = None /\ oracle = <<>>

-----------------------------------------------------------------------------
(* Signatures.                                                             *)

\* 32 bytes are a quarter of a block: one byte of the model.
SeedBytes(seed)     == <<{<<"seed", seed>>}>>
PrefixBytes(prefix) == <<{<<"prefix", prefix>>}>>
PointBytes(point)   == <<{<<"point", point>>}>>

\* hash_reduce hashes three pieces one after the other.
HashOf(a, b, c) ==
  crypto_blake2b_final(crypto_blake2b_update(crypto_blake2b_update(
    crypto_blake2b_update(crypto_blake2b_keyed_init(MaxHash, <<>>), a), b), c))

\* The oracle once it knows a hash, which is `value` if it is new.
Asked(known, hash, value) ==
  [h \in DOMAIN known \cup {hash} |-> IF h \in DOMAIN known THEN known[h] ELSE value]

hash_reduce(known, hash) == crypto_eddsa_reduce(known[hash])

SecretHash(seed) == crypto_blake2b(MaxHash, SeedBytes(seed))

crypto_eddsa_key_pair ==
  /\ Idle
  /\ \E seed \in Seeds, value \in HashValues :
       LET a == crypto_eddsa_trim_scalar(value % Base ^ N)
       IN /\ oracle' = Asked(oracle, SecretHash(seed), value)
          /\ key' = [of |-> "pair", seed |-> seed, public |-> crypto_eddsa_scalarbase(a)]
  /\ UNCHANGED <<call, signed>>

\* S with the nonce and the challenge in each other's place.
Signature_SwappedFactors(R_, r, h, a) == [R |-> R_, S |-> crypto_eddsa_mul_add(r, a, h)]

Signature(R_, r, h, a) == [R |-> R_, S |-> crypto_eddsa_mul_add(h, a, r)]

\* What the hash of the secret's second half and the message is reduced to is the nonce r.
crypto_eddsa_sign ==
  /\ key # None /\ signed = None
  /\ \E message \in Messages, nonce \in HashValues, challenge \in HashValues :
       LET secret == oracle[SecretHash(key.seed)]
           hash_r == HashOf(PrefixBytes(secret \div Base ^ N), message, <<>>)
       IN \E known \in {Asked(oracle, hash_r, nonce)} :
          \E r \in {hash_reduce(known, hash_r)} :
          \E R_ \in {crypto_eddsa_scalarbase(r)} :
          \E hash_h \in {HashOf(PointBytes(R_), PointBytes(key.public), message)} :
            /\ oracle' = Asked(known, hash_h, challenge)
            /\ signed' = [of |-> "signed", message |-> message,
                          signature |-> Signature(R_, r, hash_reduce(oracle', hash_h),
                                                  crypto_eddsa_trim_scalar(secret % Base ^ N))]
  /\ UNCHANGED <<call, key>>

\* A signature as it was made, or with S or R altered.
Altered(signature) ==
  {signature} \cup {[signature EXCEPT !.S = @ + k * L] : k \in 1 .. ((Base ^ N - 1 - signature.S) \div L)}
    \cup {[signature EXCEPT !.S = (@ + 1) % L], [signature EXCEPT !.R.sign = 1 - @]}

crypto_eddsa_check ==
  /\ signed # None /\ call = None
  /\ \E signature \in Altered(signed.signature), message \in Messages, value \in HashValues :
       LET hash == HashOf(PointBytes(signature.R), PointBytes(key.public), message)
           all  == Asked(oracle, hash, value)
       IN /\ oracle' = all
          /\ call' = [of |-> "check", signature |-> signature, message |-> message,
                      result |-> crypto_eddsa_check_equation(signature, key.public,
                                                             hash_reduce(all, hash))]
  /\ UNCHANGED <<key, signed>>

-----------------------------------------------------------------------------
(* The other functions, each called once.                                  *)

Returns(record) == call' = record /\ UNCHANGED <<key, signed, oracle>>

\* Encodings with any scalars, and R that satisfy the equation but for a point of low
\* order and, perhaps, the base point.
AnyEquations ==
  [A : Encodings, R : Encodings, S : Secrets, h : {x % L : x \in Secrets}]
NearEquations ==
  {[A |-> Encoded(p),
    R |-> Encoded(AffineAdd(AffineAdd(Times(s + extra, B), Negated(Times(h, p))),
                            Times(off, <<lop_x, lop_y>>))),
    S |-> s, h |-> h] :
     p \in Points, s \in Secrets, h \in {x % L : x \in Secrets}, off \in Offsets, extra \in {0, 1}}

CallEquation ==
  /\ Idle
  /\ \E e \in AnyEquations \cup NearEquations :
       Returns([of |-> "equation", A |-> e.A, R |-> e.R, S |-> e.S, h |-> e.h,
                result |-> crypto_eddsa_check_equation([R |-> e.R, S |-> e.S], e.A, e.h)])

CallSlide ==
  /\ Idle
  /\ \E s \in 0 .. (L - 1), width \in {P_W_WIDTH, B_W_WIDTH} :
       \E top \in {slide_init(s).next_check, TopBit + 1} :
         Returns([of |-> "slide", s |-> s, width |-> width, result |-> Digits(s, width, top)])

CallReduce ==
  /\ Idle
  /\ \/ \E x \in Wide : Returns([of |-> "reduce", x |-> x, result |-> crypto_eddsa_reduce(x)])
     \/ \E x \in Wide : /\ x < L * Base ^ N
                        /\ Returns([of |-> "redc", x |-> x, result |-> Number(redc(Limbs(2 * N, x)))])
     \/ \E a, b, c \in Secrets :
          Returns([of |-> "reduce", x |-> a * b + c, result |-> crypto_eddsa_mul_add(a, b, c)])

\* The bytes that are read as u: RFC 7748 has the top bit ignored, and numbers of P and
\* more accepted.
FormsOf(u) == {v \in {u, u + P} : v < 2 ^ FieldBits} \cup {u + 2 ^ FieldBits}

CallScalarMult ==
  /\ Idle
  /\ \E p \in Points, s \in Secrets : \E point \in FormsOf(MontgomeryU(p)) :
       \/ Returns([of |-> "multiply", p |-> p, s |-> s,
                   result |-> scalarmult(s, point, Bits)])
       \/ Returns([of |-> "multiply", p |-> p, s |-> crypto_eddsa_trim_scalar(s),
                   result |-> crypto_x25519(s, point)])

CallBase ==
  /\ Idle
  /\ \E s \in BaseScalars :
     \E point \in {[k \in {s, crypto_eddsa_trim_scalar(s)} |-> crypto_eddsa_scalarbase(k)]} :
     \E u \in {[k \in DOMAIN point |-> crypto_eddsa_to_x25519(point[k])]} :
       Returns([of |-> "base", s |-> s, result |-> point[s], u |-> u[s],
                back |-> crypto_x25519_to_eddsa(u[s]),
                trimmed |-> u[crypto_eddsa_trim_scalar(s)],
                public |-> crypto_x25519_public_key(s)])

CallDirty ==
  /\ Idle
  /\ \E s \in DirtySecrets :
       Returns([of |-> "dirty", s |-> s, small |-> crypto_x25519_dirty_small(s),
                fast |-> crypto_x25519_dirty_fast(s)])

CallInverse ==
  /\ Idle
  /\ \E s \in Secrets, p \in Points :
       Returns([of |-> "inverse", s |-> s, p |-> p, divisor |-> Divisor(s),
                result |-> crypto_x25519_inverse(s, MontgomeryU(p))])

\* A representative, and the representatives of the key it maps to.
CallElligatorMap ==
  /\ Idle
  /\ \E r \in 0 .. ((P - 1) \div 2), pad \in {0, 3} :
       LET curve == crypto_elligator_map([r |-> r, pad |-> pad])
           back(sign) == crypto_elligator_rev(curve, [sign |-> sign, pad |-> pad])
       IN Returns([of |-> "map", hidden |-> [r |-> r, pad |-> pad], curve |-> curve,
                   back |-> <<back(0), back(1)>>])

CallElligatorKeyPair ==
  /\ Idle
  /\ \E stream \in Streams :
       Returns([of |-> "hidden_key", stream |-> stream, result |-> crypto_elligator_key_pair(stream)])

CallBlake2b ==
  /\ Idle
  /\ \E pieces \in HashTexts, secret \in HashKeys, size \in {1, MaxHash} :
       LET fed[k \in 0 .. Len(pieces)] ==
             IF k = 0 THEN crypto_blake2b_keyed_init(size, secret)
             ELSE crypto_blake2b_update(fed[k - 1], pieces[k])
       IN Returns([of |-> "blake2b", pieces |-> pieces, secret |-> secret, size |-> size,
                   result |-> crypto_blake2b_final(fed[Len(pieces)])])

CallExtendedHash ==
  /\ Idle
  /\ \E size \in 1 .. 3 * MaxHash, message \in Messages :
       Returns([of |-> "extended", size |-> size, message |-> message,
                result |-> extended_hash(size, message)])

CallInitialHash ==
  /\ Idle
  /\ \E a, b \in ArgonInputs :
       LET hash(inputs) == initial_hash(CHOOSE config \in ArgonConfigs : TRUE, MaxHash, inputs)
       IN Returns([of |-> "initial", inputs |-> <<a, b>>, result |-> <<hash(a), hash(b)>>])

CallArgon2 ==
  /\ Idle
  /\ \E config \in ArgonConfigs, seed \in ArgonSeeds :
       Returns([of |-> "argon2", config |-> config, seed |-> seed,
                result |-> crypto_argon2(config, seed)])

Next ==
  \/ crypto_eddsa_key_pair \/ crypto_eddsa_sign \/ crypto_eddsa_check
  \/ CallEquation \/ CallSlide \/ CallReduce \/ CallScalarMult \/ CallBase
  \/ CallDirty \/ CallInverse \/ CallElligatorMap \/ CallElligatorKeyPair \/ CallBlake2b
  \/ CallExtendedHash \/ CallInitialHash \/ CallArgon2

Spec == Init /\ [][Next]_vars

-----------------------------------------------------------------------------
(* What the functions should return.                                       *)

\* The point an encoding stands for: y may be P or more, the sign of x = 0 is ignored.
Roots(y) == {x \in 0 .. (P - 1) : OnCurve(<<x, y>>)}
Decoded(s) == <<CHOOSE x \in Roots(s.y % P) : x = 0 \/ fe_isodd(x) = s.sign, s.y % P>>

\* 8 (S B - h A - R) = 0, with S reduced and both points on the curve.
Satisfied(s, h, A_, R_) ==
  /\ s < L
  /\ Roots(A_.y % P) # {} /\ Roots(R_.y % P) # {}
  /\ Times(8, AffineAdd(Times(s, B), Negated(AffineAdd(Times(h, Decoded(A_)), Decoded(R_)))))
       = <<0, 1>>

\* RFC 9106, section 3.3: V1 to V(r+1), each the hash of the one before; the digest is
\* the first half of V1 to Vr and all of V(r+1).
HPrime(size, message) ==
  LET short == HashBytes(crypto_blake2b(Smaller(size, MaxHash), Word32(size) \o message),
                         Smaller(size, MaxHash))
      r     == -((-size) \div HalfHash) - 2
      length(i) == IF i <= r THEN MaxHash ELSE size - HalfHash * r
      V[i \in 1 .. r + 1] ==
        IF i = 1 THEN short ELSE HashBytes(crypto_blake2b(length(i), V[i - 1]), length(i))
  IN IF size <= MaxHash THEN short
     ELSE [o \in 1 .. size |->
             LET i == Smaller((o - 1) \div HalfHash + 1, r + 1) IN V[i][o - HalfHash * (i - 1)]]

\* RFC 9106, section 3.4: the blocks of a lane are numbered as they are computed, over
\* all passes.  A block may look at what its lane computed in the last three segments
\* and in this one, but not at the block before; and at what another lane computed in
\* the last three segments, but, from the first block of a segment, not at the last.
ReferenceOf(config, at, seed) ==
  LET length == segment_size(config)
      start  == 4 * length * at.pass + length * at.slice
      l      == IF at.pass = 0 /\ at.slice = 0 THEN at.segment ELSE seed.high % config.nb_lanes
      W      == {t \in (start - 3 * length) .. (start + at.block - 2) :
                   t >= 0 /\ (l # at.segment => t < start - (IF at.block = 0 THEN 1 ELSE 0))}
      size   == Cardinality(W)
      zz     == size - 1 - ((size * ((seed.low * seed.low) \div Seed32)) \div Seed32)
      chosen == CHOOSE t \in W : Cardinality({u \in W : u < t}) = zz
  IN 4 * length * l + (chosen % (4 * length))

\* Where a block of a lane is: lane, slice, and place in the segment.
Place(config, index) ==
  [lane  |-> index \div lane_size(config),
   slice |-> (index % lane_size(config)) \div segment_size(config),
   block |-> index % segment_size(config)]

-----------------------------------------------------------------------------
(* Properties.                                                             *)

\* A signature passes for its message, and never with an S that is not the one made:
\* neither S + 1 nor S plus a multiple of L.
SignatureHolds ==
  call.of = "check" /\ signed # None /\ call.message = signed.message /\ call.signature.R = signed.signature.R
    => (call.result <=> call.signature.S = signed.signature.S)

\* crypto_eddsa_check_equation passes exactly when both encodings are points, S is
\* below L, and the equation holds up to a point of low order.
EquationExact ==
  call.of = "equation" => (call.result <=> Satisfied(call.S, call.h, call.A, call.R))

\* The digits of a window add up to the scalar, are odd, and stay inside the tables of
\* odd multiples, from the two bits the loops of the code start at.
SlideExact ==
  call.of = "slide" =>
    LET n == Len(call.result)
        value[k \in 0 .. n] == IF k = 0 THEN 0 ELSE 2 * value[k - 1] + call.result[k]
    IN /\ value[n] = call.s
       /\ \A k \in 1 .. n : LET digit == call.result[k] IN
            digit # 0 => digit % 2 = 1 /\ digit \in -(2 ^ (call.width - 1)) .. 2 ^ (call.width - 1)

\* Barrett's reduction, and Montgomery's division by 2^256, modulo L.
ReduceExact ==
  /\ call.of = "reduce" => call.result = call.x % L
  /\ call.of = "redc" => call.result < L /\ (call.result * (Base ^ N % L)) % L = call.x % L

\* The ladder multiplies every point of the curve, those of low order included, in every
\* form its u coordinate may be given in.
LadderExact ==
  call.of = "multiply" => call.result = MontgomeryU(Times(call.s, call.p))

\* The combs multiply the base point by every scalar; the two forms of a public key
\* are maps of each other, and those of one secret agree.
BaseExact ==
  call.of = "base" =>
    LET p == Times(call.s, B)
    IN /\ call.result = Encoded(p)
       /\ call.u = MontgomeryU(p)
       /\ call.back.y = (IF p = <<0, 1>> THEN P - 1 ELSE p[2])
       /\ call.trimmed = call.public

\* Both versions of a dirty key are the clean key plus the point of low order that the
\* low bits of the secret choose.
DirtyExact ==
  call.of = "dirty" =>
    /\ call.small = call.fast
    /\ call.fast = MontgomeryU(AffineAdd(Times(crypto_eddsa_trim_scalar(call.s), B),
                                         Times(call.s % 8, <<lop_x, lop_y>>)))

\* Dividing and multiplying by the same secret leaves the part of a point that has
\* order L.
InverseExact ==
  call.of = "inverse" =>
    /\ (call.divisor * crypto_eddsa_trim_scalar(call.s)) % L = 1 /\ call.divisor % 8 = 0
    /\ crypto_x25519(call.s, call.result) =
         MontgomeryU(Times(CHOOSE c \in 0 .. (8 * L) : c % L = 1 /\ c % 8 = 0, call.p))

\* A representative maps to a key that is mapped back to it by one of the two tweaks;
\* and the key of a hidden key pair is that of its secret.
ElligatorExact ==
  /\ call.of = "map" =>
       /\ \E k \in {1, 2} : call.back[k].hidden = call.hidden
       /\ \A k \in {1, 2} : call.back[k].ok /\ crypto_elligator_map(call.back[k].hidden) = call.curve
  /\ call.of = "hidden_key" /\ call.result.ok =>
       /\ crypto_elligator_map(call.result.hidden) = crypto_x25519_dirty_small(call.result.secret)
       /\ crypto_x25519(7, crypto_elligator_map(call.result.hidden)) =
            crypto_x25519(7, crypto_x25519_public_key(call.result.secret))

\* However a message is cut into pieces, the blocks and offsets compressed are those of
\* RFC 7693.
HashExact ==
  call.of = "blake2b" =>
    call.result = Rfc7693(call.size, call.secret,
                          LET all[k \in 0 .. Len(call.pieces)] ==
                                IF k = 0 THEN <<>> ELSE all[k - 1] \o call.pieces[k]
                          IN all[Len(call.pieces)])

\* A digest of any length, computed in place in halves that overlap, is H' of RFC 9106.
ExtendedHashExact ==
  call.of = "extended" => call.result = HPrime(call.size, call.message)

\* No two lists of inputs begin Argon2 with the same hash, wherever one input ends and
\* the next begins.
InputsSeparated ==
  call.of = "initial" => (call.result[1] = call.result[2] <=> call.inputs[1] = call.inputs[2])

\* Argon2 fills every block once in a pass, each from the block RFC 9106 chooses, and
\* each word of a block of indices is used once.
ArgonExact ==
  call.of = "argon2" =>
    LET config == call.config
        steps  == call.result.steps
        seeds  == [k \in DOMAIN steps |-> steps[k].seed]
    IN /\ Len(steps) + 2 * config.nb_lanes = lane_size(config) * config.nb_lanes * config.nb_passes
       /\ \A k \in DOMAIN steps :
            /\ steps[k].reference = ReferenceOf(config, steps[k].at, call.seed)
            /\ seeds[k].from = "indices" => seeds[k].ctr = steps[k].at.block \div IndexWords + 1
       /\ \A k, j \in DOMAIN steps :
            seeds[k].from = "indices" /\ seeds[k] = seeds[j] => k = j
       /\ call.result.last = {i \in 0 .. lane_size(config) * config.nb_lanes - 1 :
                                (i + 1) % lane_size(config) = 0}

\* The block a step reads has been written, is neither the one it writes nor the one
\* before, and does not change while the slice is filled, so that the lanes could be
\* filled in parallel; and `previous` is what the lane wrote last.
ReferenceReady ==
  call.of = "argon2" =>
    LET config == call.config
        steps  == call.result.steps
    IN \A k \in DOMAIN steps :
         LET step   == steps[k]
             at     == step.at
             before == {j \in 1 .. k - 1 : steps[j].at.segment = at.segment}
             ref    == Place(config, step.reference)
         IN /\ step.reference \in call.result.first \cup {steps[j].current : j \in 1 .. k - 1}
            /\ step.reference \notin {step.current, step.previous}
            /\ ref.slice = at.slice => ref.lane = at.segment /\ ref.block < at.block
            /\ step.previous = IF before = {} THEN at.segment * lane_size(config) + 1
                               ELSE steps[CHOOSE j \in before : \A i \in before : i <= j].current

\* Windows, ladder and combs multiply a point by a scalar: the digits, the ladder over
\* every point, and the two forms of a public key.
MultiplesExact == SlideExact /\ LadderExact /\ BaseExact

\* The extras of key exchange agree with the group law: dirty keys, the division by a
\* secret, and the two directions of Elligator.
EphemeralExact == DirtyExact /\ InverseExact /\ ElligatorExact

\* What is hashed is what the RFCs hash: the blocks of a message, a digest of any length,
\* and the inputs of Argon2.
HashingExact == HashExact /\ ExtendedHashExact /\ InputsSeparated

\* Argon2 computes each block from the block RFC 9106 chooses, and never from one that is
\* not there yet.
FillExact == ArgonExact /\ ReferenceReady
=============================================================================
