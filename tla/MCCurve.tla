------------------------------- MODULE MCCurve --------------------------------
(* A curve of order 8 * 269 over the field of 2141 elements for CurveCalls:
   A = 162, so that (A + 2) / 4 = 41 and d = -40/41.  A scalar is three limbs of 4
   bits; 8 L is above 2^11 as that of Curve25519 is above 2^255, and L just above
   2^8 as the other is above 2^252.                                              *)
EXTENDS CurveCalls

LowOrder == <<lop_x, lop_y>>

\* The whole low-order group and, with components of order L, some of the rest.
MCPoints == {Times(k, LowOrder) : k \in 0 .. 7}
              \cup {AffineAdd(Times(k[1], B), Times(k[2], LowOrder)) :
                      k \in {<<1, 0>>, <<1, 1>>, <<268, 4>>}}

MCEncodings == {Encoded(Times(2, B)), [y |-> 3, sign |-> 0]} \cup [y : {0, P + 1}, sign : {0, 1}]

MCSecrets == {0, 1, 255, 256, L - 1, L, 2047, 4095}
\* Every value of the bits that trimming keeps and of those it clears.
MCDirtySecrets == 0 .. (2 ^ (Bits - 2) - 1)
MCBaseScalars  == 0 .. 300 \cup 2040 .. 2056 \cup 3990 .. 4095
MCOffsets      == {0, 1, 4}

\* Around the multiples of L, and at both ends.
MCWide == {q * L + e : q \in {0, 1, 16, 4095, 62367}, e \in {0, 1, 2, 133, L - 2, L - 1}}
            \cup (Base ^ (2 * N) - 300) .. (Base ^ (2 * N) - 1)
            \cup {a * Base ^ N - 1 : a \in 1 .. 300}

MCSeeds      == {1}
MCMessages   == {<<>>, <<{<<"m", 1>>}>>, <<{<<"m", 1>>}, {<<"m", 2>>}, {<<"m", 3>>}>>}
MCHashValues == {0, 7391113, Base ^ (2 * N) - 1}

MCStreams == {<<[secret |-> s, tweak |-> [sign |-> t, pad |-> 2]],
                [secret |-> s + 1, tweak |-> [sign |-> 1 - t, pad |-> 1]]>> :
                s \in 0 .. 60, t \in {0, 1}}

Text(n) == [i \in 1 .. n |-> {<<"t", i>>}]
MCHashTexts == {<<Text(a), Text(b), Text(c)>> : a \in {0, 1, 3, 4, 5, 8, 9}, b \in 0 .. 5, c \in {0, 1, 4}}

\* One to three lanes, with segments up to more than an index block and blocks left over.
MCArgonConfigs == {[algorithm |-> a, nb_blocks |-> 4 * size * lanes + 3, nb_passes |-> 2,
                    nb_lanes |-> lanes] :
                     a \in {ARGON2_D, ARGON2_I, ARGON2_ID}, size \in {2, 5}, lanes \in 1 .. 3}
MCArgonSeeds   == [low : {0, 9, 40, 55, 63}, high : 0 .. 2]

Same(n) == [i \in 1 .. n |-> {<<"m", 1>>}]
MCArgonInputs == {<<Same(n[1]), Same(n[2]), Same(n[3]), Same(n[4])>> :
                    n \in (0 .. 2) \X (0 .. 2) \X (0 .. 1) \X (0 .. 1)}
=============================================================================
