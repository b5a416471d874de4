-------------------------------- MODULE Argon2 --------------------------------
(***************************************************************************)
(* Argon2 of software/crypto/src/monocypher.c: which block is computed     *)
(* from which, in the order of passes, slices, lanes and blocks; the hash  *)
(* of any length; and what is hashed first.  The contents of the blocks    *)
(* are left out: where an index seed is read is kept, its value is given   *)
(* from outside.                                                           *)
(***************************************************************************)
EXTENDS Blake2b

CONSTANTS Seed32,      \* the values of a u32 (2^32), more than there are blocks in a lane
          IndexWords   \* words of a block (128)

ASSUME Argon2Assumption ==
  /\ Seed32 \in Nat \ {0}
  /\ IndexWords \in Nat /\ IndexWords > 2
  /\ MaxHash % 2 = 0 /\ MaxHash > 0 /\ WordBytes % 2 = 0

ARGON2_D  == 0
ARGON2_I  == 1
ARGON2_ID == 2

-----------------------------------------------------------------------------
(* Hashes.                                                                 *)

\* A 32-bit word in bytes: half a word of the hash.
Word32(n) == [i \in 1 .. WordBytes \div 2 |-> {<<"u32", n, i>>}]

blake_update_32(ctx, n) == crypto_blake2b_update(ctx, Word32(n))

\* An input hashed without its length.
blake_update_32_buf_NoLength(ctx, buf) == crypto_blake2b_update(ctx, buf)

blake_update_32_buf(ctx, buf) == crypto_blake2b_update(blake_update_32(ctx, Len(buf)), buf)

\* The first n bytes of a hash.
HashBytes(hash, n) == [o \in 1 .. n |-> {<<"hash", hash, o>>}]
HalfHash == MaxHash \div 2

\* A hash of MaxHash bytes of the MaxHash bytes of a digest from `in` on.
HashAt(digest, in, size) ==
  HashBytes(crypto_blake2b(size, SubSeq(digest, in + 1, in + MaxHash)), size)

\* How many hashes give half of theirs to a long digest, with the division rounded down.
rounds_Floor(digest_size) == digest_size \div HalfHash - 2

rounds(digest_size) == (digest_size + HalfHash - 1) \div HalfHash - 2

\* The hashes overlap by half; the last one is as long as what is left.
extended_hash(digest_size, input) ==
  LET size  == Smaller(digest_size, MaxHash)
      first == HashBytes(crypto_blake2b_final(crypto_blake2b_update(
                 blake_update_32(crypto_blake2b_keyed_init(size, <<>>), digest_size), input)), size)
      r     == rounds(digest_size)
      digest[i \in 0 .. r] ==
        IF i = 0 THEN first
        ELSE LET last == digest[i - 1]
             IN SubSeq(last, 1, HalfHash * i) \o
                HashAt(last, HalfHash * (i - 1),
                       IF i < r THEN MaxHash ELSE digest_size - HalfHash * r)
  IN IF digest_size > MaxHash THEN digest[r] ELSE first

\* The parameters and the inputs, each with its length.
initial_hash(config, hash_size, inputs) ==
  LET words == <<config.nb_lanes, hash_size, config.nb_blocks, config.nb_passes, 19,
                 config.algorithm>>
      begun[k \in 0 .. Len(words)] ==
        IF k = 0 THEN crypto_blake2b_keyed_init(MaxHash, <<>>)
        ELSE blake_update_32(begun[k - 1], words[k])
      ctx[k \in 0 .. Len(inputs)] ==
        IF k = 0 THEN begun[Len(words)] ELSE blake_update_32_buf(ctx[k - 1], inputs[k])
  IN crypto_blake2b_final(ctx[Len(inputs)])

-----------------------------------------------------------------------------
(* The blocks.  A place is [pass, slice, segment, block]; a step says which *)
(* block it writes, which two it reads, and where its seed came from.       *)

segment_size(config) == (config.nb_blocks \div config.nb_lanes) \div 4
lane_size(config)    == segment_size(config) * 4

\* Blocks 0 and 1 of a lane are there before the first pass.
pass_offset(at) == IF at.pass = 0 /\ at.slice = 0 THEN 2 ELSE 0

\* Argon2id indexes by what it has computed from the third slice on.
constant_time(config, at) ==
  /\ config.algorithm # ARGON2_D
  /\ config.algorithm = ARGON2_ID => at.pass = 0 /\ at.slice < 2

current(config, at) ==
  at.segment * lane_size(config) + at.slice * segment_size(config) + at.block

previous(config, at) ==
  IF at.block = 0 /\ at.slice = 0 THEN current(config, at) + lane_size(config) - 1
  ELSE current(config, at) - 1

\* How often the block of indices has been filled: at the first block of a segment and
\* at every multiple of its words.
index_ctr(at) ==
  LET ctr[b \in pass_offset(at) - 1 .. at.block] ==
        IF b < pass_offset(at) THEN 0
        ELSE ctr[b - 1] + (IF b = pass_offset(at) \/ b % IndexWords = 0 THEN 1 ELSE 0)
  IN ctr[at.block]

index_seed(config, at) ==
  IF constant_time(config, at)
  THEN [from |-> "indices", pass |-> at.pass, segment |-> at.segment, slice |-> at.slice,
        ctr |-> index_ctr(at), word |-> at.block % IndexWords]
  ELSE [from |-> "block", index |-> previous(config, at)]

lane(config, at, seed) ==
  IF at.pass = 0 /\ at.slice = 0 THEN at.segment ELSE seed.high % config.nb_lanes

\* The window with the block before the current one in it.
window_size_WithPrevious(config, at, seed) ==
  LET nb_segments == IF at.pass = 0 THEN at.slice ELSE 3
      own         == lane(config, at, seed) = at.segment
  IN (nb_segments * segment_size(config)
        + (IF own THEN at.block ELSE IF at.block = 0 THEN Seed32 - 1 ELSE 0)) % Seed32

\* The window that forgets that the first block of a segment may not see the last
\* block of another lane.
window_size_EveryBlock(config, at, seed) ==
  LET nb_segments == IF at.pass = 0 THEN at.slice ELSE 3
      own         == lane(config, at, seed) = at.segment
  IN (nb_segments * segment_size(config) + (IF own THEN at.block - 1 ELSE 0)) % Seed32

\* The last three slices, as far as there are, and what the segment has so far; u32.
window_size(config, at, seed) ==
  LET nb_segments == IF at.pass = 0 THEN at.slice ELSE 3
      own         == lane(config, at, seed) = at.segment
  IN (nb_segments * segment_size(config)
        + (IF own THEN at.block - 1 ELSE IF at.block = 0 THEN Seed32 - 1 ELSE 0)) % Seed32

reference(config, at, seed) ==
  LET next_slice   == ((at.slice + 1) % 4) * segment_size(config)
      window_start == IF at.pass = 0 THEN 0 ELSE next_slice
      size         == window_size(config, at, seed)
      x            == (seed.low * seed.low) \div Seed32
      y            == (size * x) \div Seed32
      z            == (size - 1) - y
  IN lane(config, at, seed) * lane_size(config) + ((window_start + z) % lane_size(config))

\* From the second pass on a block is XORed into the one it replaces.
Step(config, at, seed) ==
  [at |-> at, current |-> current(config, at), previous |-> previous(config, at),
   reference |-> reference(config, at, seed), seed |-> index_seed(config, at),
   xored |-> at.pass # 0]

\* The places of the k-th segment to be filled: the order of passes, slices and lanes.
SegmentPlaces(config, k) ==
  LET place(block) == [pass    |-> (k - 1) \div (4 * config.nb_lanes),
                       slice   |-> ((k - 1) \div config.nb_lanes) % 4,
                       segment |-> (k - 1) % config.nb_lanes, block |-> block]
      first == pass_offset(place(0))
  IN [b \in 1 .. segment_size(config) - first |-> place(first + b - 1)]

\* All places, segment by segment.
Places(config) ==
  LET segments == 4 * config.nb_lanes * config.nb_passes
      places[k \in 0 .. segments] ==
        IF k = 0 THEN <<>> ELSE places[k - 1] \o SegmentPlaces(config, k)
  IN places[segments]

\* The blocks that are XORed into the last: the last of each lane.
LastBlocks(config) ==
  LET last[l \in 0 .. config.nb_lanes - 1] ==
        IF l = 0 THEN {lane_size(config) - 1}
        ELSE last[l - 1] \cup {lane_size(config) * (l + 1) - 1}
  IN last[config.nb_lanes - 1]

\* `seed` is what every index seed is found to hold.
crypto_argon2(config, seed) ==
  LET places == Places(config)
  IN [first |-> {l * lane_size(config) + i : l \in 0 .. config.nb_lanes - 1, i \in 0 .. 1},
      steps |-> [k \in DOMAIN places |-> Step(config, places[k], seed)],
      last  |-> LastBlocks(config)]
=============================================================================
