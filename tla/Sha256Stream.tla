----------------------------- MODULE Sha256Stream ----------------------------
(***************************************************************************)
(* sha256_init, sha256_update and sha256_final of software/crypto/src/     *)
(* sha256.c: how a message that arrives in pieces is cut into blocks and   *)
(* padded.  The compression of a block is left out: the digest is a        *)
(* function of the sequence of blocks compressed, which `hashed` records.  *)
(* sha256_hash, the one entry the BootROM uses, is a single update.        *)
(***************************************************************************)
EXTENDS Integers, Sequences

CONSTANT MaxLength   \* bound of the length of a message

ASSUME MaxLengthAssumption == MaxLength \in Nat

Block       == 64    \* bytes of a block
LengthBytes == 8     \* bytes of the length field
LengthAt    == Block - LengthBytes
Offsets     == 0 .. (Block - 1)

\* Bytes: byte i of the message, the padding, byte j of a bit count in big-endian
\* order, and what the stack held before.
Message(i)     == <<"message", i, 0>>
One            == <<"pad", 128, 0>>
Zero           == <<"pad", 0, 0>>
Length(bits, j) == <<"length", bits, j>>
Junk           == <<"junk", 0, 0>>

Bytes == {"message", "pad", "length", "junk"} \X Nat \X Nat

VARIABLES hashed, bit_len, ctx_buffer, buffer_len,   \* sha256_ctx
          rest,                                  \* bytes left in the current update
          fed,                                   \* bytes of the message so far
          pc
sha_vars == <<hashed, bit_len, ctx_buffer, buffer_len, rest, fed, pc>>

-----------------------------------------------------------------------------
(* The code.                                                               *)

\* sha256_init on a context that is not cleared.
ShaInit ==
  /\ hashed = <<>> /\ bit_len = 0 /\ buffer_len = 0
  /\ ctx_buffer = [o \in Offsets |-> Junk]
  /\ rest = 0 /\ fed = 0 /\ pc = "ready"

CallUpdate ==
  /\ pc = "ready"
  /\ rest' \in 1 .. (MaxLength - fed)
  /\ pc' = "update"
  /\ UNCHANGED <<hashed, bit_len, ctx_buffer, buffer_len, fed>>

take == LET space == Block - buffer_len IN IF rest < space THEN rest ELSE space

\* The context after `take` bytes were copied behind those already there.
Copied ==
  [o \in Offsets |-> IF o \in buffer_len .. (buffer_len + take - 1)
                     THEN Message(fed + o - buffer_len) ELSE ctx_buffer[o]]

\* The buffer is not emptied after its block was compressed.
UpdateLoop_NoReset ==
  /\ pc = "update"
  /\ ctx_buffer' = Copied /\ fed' = fed + take /\ rest' = rest - take
  /\ buffer_len' = buffer_len + take
  /\ IF buffer_len + take = Block
     THEN hashed' = Append(hashed, ctx_buffer') /\ bit_len' = bit_len + 8 * Block
     ELSE UNCHANGED <<hashed, bit_len>>
  /\ pc' = IF rest' = 0 THEN "ready" ELSE pc

\* One turn of the loop of sha256_update.
UpdateLoop ==
  /\ pc = "update"
  /\ ctx_buffer' = Copied /\ fed' = fed + take /\ rest' = rest - take
  /\ IF buffer_len + take = Block
     THEN hashed' = Append(hashed, ctx_buffer') /\ bit_len' = bit_len + 8 * Block /\ buffer_len' = 0
     ELSE buffer_len' = buffer_len + take /\ UNCHANGED <<hashed, bit_len>>
  /\ pc' = IF rest' = 0 THEN "ready" ELSE pc

\* Does the length fit behind the bytes of the block and the one-bit?
Fits_OffByOne == buffer_len <= LengthAt
Fits == buffer_len + 1 <= LengthAt

total_bits == bit_len + 8 * buffer_len

\* The block with the one-bit, zeros up to offset `end`, and after it what was there.
WithOne(end) ==
  [o \in Offsets |-> IF o = buffer_len THEN One
                     ELSE IF o > buffer_len /\ o < end THEN Zero ELSE ctx_buffer[o]]

\* A block with the length in its last bytes.
WithLength(b) ==
  [o \in Offsets |-> IF o < LengthAt THEN b[o] ELSE Length(total_bits, o - LengthAt)]

Final ==
  /\ pc = "ready"
  /\ hashed' = IF Fits
               THEN Append(hashed, WithLength(WithOne(LengthAt)))
               ELSE hashed \o <<WithOne(Block), WithLength([o \in Offsets |-> Zero])>>
  /\ ctx_buffer' = hashed'[Len(hashed')]
  /\ pc' = "done"
  /\ UNCHANGED <<bit_len, buffer_len, rest, fed>>

ShaNext == CallUpdate \/ UpdateLoop \/ Final

ShaSpec == ShaInit /\ [][ShaNext]_sha_vars

-----------------------------------------------------------------------------
(* What FIPS 180-4 asks for, without buffers.                              *)

\* The padded message of n bytes is as many blocks as hold the message, the one-bit
\* and the length.
PaddedBlocks(n) == (n + LengthBytes) \div Block + 1

\* Byte p of the padded message.
PaddedByte(n, p) ==
  LET end == Block * PaddedBlocks(n) - LengthBytes IN
    IF p < n THEN Message(p)
    ELSE IF p = n THEN One
    ELSE IF p < end THEN Zero ELSE Length(8 * n, p - end)

Padded(n) ==
  [b \in 1 .. PaddedBlocks(n) |-> [o \in Offsets |-> PaddedByte(n, Block * (b - 1) + o)]]

-----------------------------------------------------------------------------
(* Properties.                                                             *)

\* Types; between two turns the buffer is never full, so that there is room for the
\* one-bit and sha256_final writes inside the 64 bytes.
ShaTypeOK ==
  /\ buffer_len \in 0 .. (Block - 1)
  /\ bit_len \in Nat /\ fed \in 0 .. MaxLength /\ rest \in 0 .. (MaxLength - fed)
  /\ pc \in {"ready", "update", "done"}
  /\ pc = "update" => rest > 0
  /\ pc # "update" => rest = 0
  /\ ctx_buffer \in [Offsets -> Bytes]
  /\ hashed \in Seq([Offsets -> Bytes])

\* The digest is that of the padded message, whatever its length and however it was
\* cut into pieces.
DigestExact == pc = "done" => hashed = Padded(fed)

\* Up to sha256_final the blocks and the buffer together are the message so far.
ShaStreamInv ==
  pc # "done" =>
    /\ bit_len = 8 * Block * Len(hashed)
    /\ fed = Block * Len(hashed) + buffer_len
    /\ \A b \in 1 .. Len(hashed) : hashed[b] = [o \in Offsets |-> Message(Block * (b - 1) + o)]
    /\ \A o \in 0 .. (buffer_len - 1) : ctx_buffer[o] = Message(fed - buffer_len + o)
=============================================================================
