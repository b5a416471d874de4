------------------------------- MODULE Blake2b --------------------------------
(***************************************************************************)
(* BLAKE2b of software/crypto/src/monocypher.c: how a message that arrives *)
(* in pieces is cut into blocks, the key block, and the offset each block  *)
(* is compressed with.  The rounds are left out: a hash is known by the    *)
(* parameters and the blocks compressed.  A byte is a set of atoms, zero   *)
(* is {} and OR is union.                                                  *)
(***************************************************************************)
EXTENDS Integers, Sequences

CONSTANTS WordBytes,   \* bytes of a word (8)
          HashBlock,   \* bytes of a block (128)
          OffsetWord,  \* values of a word of the offset (2^64)
          MaxHash      \* the longest hash (64)

ASSUME Blake2bAssumption ==
  /\ WordBytes \in Nat \ {0} /\ HashBlock \in Nat \ {0} /\ HashBlock % WordBytes = 0
  /\ OffsetWord \in Nat /\ OffsetWord > HashBlock
  /\ MaxHash \in Nat

ZeroBlock == [i \in 1 .. HashBlock |-> {}]
Smaller(a, b) == IF a <= b THEN a ELSE b
Missing(x, n) == (n - (x % n)) % n

\* The offset counts the bytes of the block before it is compressed.
blake2b_compress(ctx, is_last_block) ==
  LET x0 == (ctx.x0 + ctx.input_idx) % OffsetWord
      x1 == (ctx.x1 + (IF x0 < ctx.input_idx THEN 1 ELSE 0)) % OffsetWord
  IN [ctx EXCEPT !.x0 = x0, !.x1 = x1,
                 !.hash = Append(@, [block |-> ctx.input, x0 |-> x0, x1 |-> x1,
                                     last |-> is_last_block])]

\* `bytes` written, or OR-ed, into the buffer from offset `at` on.
Loaded(ctx, at, bytes) ==
  [ctx EXCEPT !.input = SubSeq(@, 1, at) \o bytes \o SubSeq(@, at + Len(bytes) + 1, HashBlock),
              !.input_idx = @ + Len(bytes)]

Ored(ctx, bytes) ==
  LET at == ctx.input_idx
  IN Loaded(ctx, at, [i \in DOMAIN bytes |-> ctx.input[at + i] \cup bytes[i]])

crypto_blake2b_keyed_init(hash_size, key) ==
  LET ctx == [params |-> [key_size |-> Len(key), hash_size |-> hash_size],
              hash |-> <<>>, x0 |-> 0, x1 |-> 0, input |-> ZeroBlock, input_idx |-> 0]
  IN IF key = <<>> THEN ctx
     ELSE [ctx EXCEPT !.input = [i \in 1 .. HashBlock |-> IF i <= Len(key) THEN key[i] ELSE {}],
                      !.input_idx = HashBlock]

-----------------------------------------------------------------------------
(* The four parts of crypto_blake2b_update.  Each takes the context and    *)
(* what is left of the message, and leaves the rest to the next.           *)

Took(ctx, message, n) == [ctx |-> ctx, message |-> SubSeq(message, n + 1, Len(message))]

\* Up to a word boundary, byte by byte.
AlignWord(s) ==
  LET n == Smaller(Missing(s.ctx.input_idx, WordBytes), Len(s.message))
  IN Took(Ored(s.ctx, SubSeq(s.message, 1, n)), s.message, n)

\* Up to a block boundary, by whole words.
AlignBlock(s) ==
  LET n == WordBytes * (Smaller(Missing(s.ctx.input_idx, HashBlock), Len(s.message)) \div WordBytes)
  IN Took(Loaded(s.ctx, s.ctx.input_idx, SubSeq(s.message, 1, n)), s.message, n)

\* A block is compressed as soon as it is full, although it may be the last.
WholeBlocks_Eager(s) ==
  LET nb_blocks == Len(s.message) \div HashBlock
      ctx[b \in 0 .. nb_blocks] ==
        IF b = 0 THEN s.ctx
        ELSE [blake2b_compress([ctx[b - 1] EXCEPT
                 !.input = SubSeq(s.message, HashBlock * (b - 1) + 1, HashBlock * b),
                 !.input_idx = HashBlock], FALSE) EXCEPT !.input_idx = 0]
  IN Took(ctx[nb_blocks], s.message, HashBlock * nb_blocks)

\* Block by block; the last one stays in the buffer, for it may be the last of all.
WholeBlocks(s) ==
  LET nb_blocks == Len(s.message) \div HashBlock
      emptied(ctx) == IF ctx.input_idx = HashBlock THEN blake2b_compress(ctx, FALSE) ELSE ctx
      ctx[b \in 0 .. nb_blocks] ==
        IF b = 0 THEN s.ctx
        ELSE [emptied(ctx[b - 1]) EXCEPT
                 !.input = SubSeq(s.message, HashBlock * (b - 1) + 1, HashBlock * b),
                 !.input_idx = HashBlock]
  IN Took(ctx[nb_blocks], s.message, HashBlock * nb_blocks)

\* Less than a block: words from the start of the buffer, then bytes.
Remainder(s) ==
  LET flushed == IF s.ctx.input_idx = HashBlock
                 THEN [blake2b_compress(s.ctx, FALSE) EXCEPT !.input_idx = 0] ELSE s.ctx
      cleared == IF flushed.input_idx = 0 THEN [flushed EXCEPT !.input = ZeroBlock] ELSE flushed
      n       == WordBytes * (Len(s.message) \div WordBytes)
  IN IF s.message = <<>> THEN s.ctx
     ELSE Ored(Loaded(cleared, 0, SubSeq(s.message, 1, n)), SubSeq(s.message, n + 1, Len(s.message)))

crypto_blake2b_update(ctx, message) ==
  IF message = <<>> THEN ctx
  ELSE Remainder(WholeBlocks(AlignBlock(AlignWord([ctx |-> ctx, message |-> message]))))

crypto_blake2b_final(ctx) ==
  [params |-> ctx.params, blocks |-> blake2b_compress(ctx, TRUE).hash,
   bytes |-> Smaller(ctx.params.hash_size, MaxHash)]

crypto_blake2b_keyed(hash_size, key, message) ==
  crypto_blake2b_final(crypto_blake2b_update(crypto_blake2b_keyed_init(hash_size, key), message))

crypto_blake2b(hash_size, message) == crypto_blake2b_keyed(hash_size, <<>>, message)

-----------------------------------------------------------------------------
(* RFC 7693, section 3.3: the key, padded to a block, and the message; at  *)
(* least one block; the offset, of two words, counts the bytes up to the   *)
(* end of a block, without the zeros that fill up the last.                *)
Rfc7693(hash_size, key, message) ==
  LET fill(bytes) == bytes \o [i \in 1 .. Missing(Len(bytes), HashBlock) |-> {}]
      data   == fill(key) \o message
      whole  == IF data = <<>> THEN ZeroBlock ELSE fill(data)
      number == Len(whole) \div HashBlock
      offset(b) == Smaller(HashBlock * b, Len(data))
  IN [params |-> [key_size |-> Len(key), hash_size |-> hash_size],
      blocks |-> [b \in 1 .. number |->
                    [block |-> SubSeq(whole, HashBlock * (b - 1) + 1, HashBlock * b),
                     x0 |-> offset(b) % OffsetWord, x1 |-> (offset(b) \div OffsetWord) % OffsetWord,
                     last |-> b = number]],
      bytes |-> Smaller(hash_size, MaxHash)]
=============================================================================
