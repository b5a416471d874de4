------------------------------- MODULE Poly1305 -------------------------------
(***************************************************************************)
(* The authenticator of software/crypto/src/monocypher.c, in two layers.   *)
(* The stream: how a message that arrives in pieces is cut into blocks; a  *)
(* tag is known by its key and the blocks added up for it.  The sum: one   *)
(* block of poly_blocks and the last reduction, limb by limb, with the     *)
(* widths of the code scaled from 32 bits to LimbBits.                     *)
(***************************************************************************)
EXTENDS Integers, Sequences

CONSTANTS PolyBlock,  \* bytes of a block (16), a power of two
          LimbBits    \* bits of a limb (32)

ASSUME Poly1305Assumption ==
  /\ PolyBlock \in Nat \ {0} /\ PolyBlock % 2 = 0
  /\ LimbBits \in Nat \ 0 .. 4

One == {<<"digit", 1>>}

-----------------------------------------------------------------------------
(* The stream.                                                             *)

\* What is missing from x to a multiple of pow_2: (~x + 1) & (pow_2 - 1).
gap(x, pow_2) == (pow_2 - (x % pow_2)) % pow_2

\* crypto_poly1305_ctx, with the blocks added up for h.
Ctx(key, h, c, c_idx) == [key |-> key, h |-> h, c |-> c, c_idx |-> c_idx]

\* poly_blocks: `end` is the bit behind the block, absent from a block that holds its
\* own final 1.
poly_blocks(ctx, blocks, end) ==
  Ctx(ctx.key, ctx.h \o [b \in 1 .. Len(blocks) |-> [bytes |-> blocks[b], end |-> end]],
      ctx.c, ctx.c_idx)

\* A context begins with whatever the stack held in its buffer c.
crypto_poly1305_init(key, junk) == Ctx(key, <<>>, junk, 0)

\* Bytes into the buffer, from c_idx on.
Buffered(ctx, bytes) ==
  LET end == ctx.c_idx + Len(bytes)
  IN Ctx(ctx.key, ctx.h, SubSeq(ctx.c, 1, ctx.c_idx) \o bytes \o SubSeq(ctx.c, end + 1, PolyBlock),
         end)

\* A full buffer is compressed.
FlushFull(ctx) ==
  IF ctx.c_idx = PolyBlock THEN Ctx(ctx.key, poly_blocks(ctx, <<ctx.c>>, 1).h, ctx.c, 0) ELSE ctx

crypto_poly1305_update(ctx, message) ==
  LET room      == gap(ctx.c_idx, PolyBlock)
      aligned   == IF room < Len(message) THEN room ELSE Len(message)
      rest      == SubSeq(message, aligned + 1, Len(message))
      nb_blocks == Len(rest) \div PolyBlock
      whole     == [b \in 1 .. nb_blocks |-> SubSeq(rest, PolyBlock * (b - 1) + 1, PolyBlock * b)]
      flushed   == FlushFull(Buffered(ctx, SubSeq(message, 1, aligned)))
  IN Buffered(poly_blocks(flushed, whole, 1), SubSeq(rest, PolyBlock * nb_blocks + 1, Len(rest)))

\* The last block keeps what an earlier one left behind the final 1.
LastBlock_Stale(ctx) == [ctx.c EXCEPT ![ctx.c_idx + 1] = One]

LastBlock(ctx) ==
  [i \in 1 .. PolyBlock |-> IF i <= ctx.c_idx THEN ctx.c[i]
                            ELSE IF i = ctx.c_idx + 1 THEN One ELSE {}]

crypto_poly1305_final(ctx) ==
  LET last == IF ctx.c_idx # 0 THEN poly_blocks(ctx, <<LastBlock(ctx)>>, 0) ELSE ctx
  IN [key |-> ctx.key, h |-> last.h]

\* Pieces fed in one after the other.
Updated(ctx, pieces) ==
  LET done[k \in 0 .. Len(pieces)] ==
        IF k = 0 THEN ctx ELSE crypto_poly1305_update(done[k - 1], pieces[k])
  IN done[Len(pieces)]

crypto_poly1305(message, key, junk) ==
  crypto_poly1305_final(crypto_poly1305_update(crypto_poly1305_init(key, junk), message))

-----------------------------------------------------------------------------
(* The sum: h has five limbs, r and a block have four.                     *)

Limb == 2 ^ LimbBits

\* What a power is, for the provers.
ASSUME LimbAssumption ==
  /\ 2 ^ 0 = 1 /\ \A i \in 0 .. (LimbBits - 1) : 2 ^ (i + 1) = 2 * 2 ^ i
  /\ Limb ^ 0 = 1 /\ \A i \in 0 .. 3 : Limb ^ (i + 1) = Limb * Limb ^ i

u32(x) == x % Limb
u64(x) == x % (Limb * Limb)
High(x)  == x \div Limb

\* r with its low and high bits cleared, as crypto_poly1305_init loads it.
Clamped(r) ==
  [i \in 1 .. 4 |-> IF i = 1 THEN r[i] % (Limb \div 16)
                    ELSE 4 * ((r[i] % (Limb \div 16)) \div 4)]

\* h when u5, the part of the product above 2^130, loses its two low bits.
Reduced_NoLowBits(x) ==
  LET u5 == u32(x[5] + High(x[4]))
      u0 == u64((u5 \div 4) * 5 + u32(x[1]))
      u1 == u64(High(u0) + u32(x[2]) + High(x[1]))
      u2 == u64(High(u1) + u32(x[3]) + High(x[2]))
      u3 == u64(High(u2) + u32(x[4]) + High(x[3]))
  IN <<u32(u0), u32(u1), u32(u2), u32(u3), u32(High(u3))>>

\* The partial reduction modulo 2^130 - 5 of five products without carries.
Reduced(x) ==
  LET u5 == u32(x[5] + High(x[4]))
      u0 == u64((u5 \div 4) * 5 + u32(x[1]))
      u1 == u64(High(u0) + u32(x[2]) + High(x[1]))
      u2 == u64(High(u1) + u32(x[3]) + High(x[2]))
      u3 == u64(High(u2) + u32(x[4]) + High(x[3]))
  IN <<u32(u0), u32(u1), u32(u2), u32(u3), u32(High(u3) + (u5 % 4))>>

\* h := (h + c) * r for one block c.
AddBlock(h, r, c, end) ==
  LET s   == [i \in 1 .. 5 |-> IF i = 5 THEN u32(h[5] + end) ELSE u64(h[i] + c[i])]
      rr  == [i \in 1 .. 4 |-> u32(r[i] \div 4 + (IF i = 1 THEN 4 * (r[i] \div 4) ELSE r[i]))]
      rr4 == r[1] % 4
  IN Reduced(<<
       u64(s[1]*r[1] + s[2]*rr[4] + s[3]*rr[3] + s[4]*rr[2] + s[5]*rr[1]),
       u64(s[1]*r[2] + s[2]*r[1]  + s[3]*rr[4] + s[4]*rr[3] + s[5]*rr[2]),
       u64(s[1]*r[3] + s[2]*r[2]  + s[3]*r[1]  + s[4]*rr[4] + s[5]*rr[3]),
       u64(s[1]*r[4] + s[2]*r[3]  + s[3]*r[2]  + s[4]*r[1]  + s[5]*rr[4]),
       u32(s[5]*rr4) >>)

\* The carries of h + 5 tell whether 2^130 - 5 fits into h once more.
TagLimbs(h, pad) ==
  LET top[i \in 0 .. 4] == IF i = 0 THEN 5 ELSE High(top[i - 1] + h[i])
      shift == ((top[4] + h[5]) \div 4) * 5
      c[i \in 1 .. 4] == (IF i = 1 THEN shift ELSE High(c[i - 1])) + h[i] + pad[i]
  IN [i \in 1 .. 4 |-> u32(c[i])]
=============================================================================
