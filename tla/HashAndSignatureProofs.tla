----------------------- MODULE HashAndSignatureProofs -----------------------
(***************************************************************************)
(* Proofs about the two computations the boot chain takes as functions: for *)
(* parts of every size, every set of images, and files that may fail to open *)
(* at any START (Ed25519Verifier), and for messages of every length in pieces *)
(* of every size (Sha256Stream).                                           *)
(***************************************************************************)
EXTENDS Ed25519Verifier, Sha256Stream, SequenceTheorems, TLAPS

(* -------- the Ed25519 verifier -------- *)

\* The verdicts hold because of what the stream has established before.
IInv == TypeOK /\ StreamInv /\ PassIsForScratch /\ RejectIsForScratch

\* The number of words is a positive integer.
LEMMA TotalNat == Total \in Nat /\ Total > 0
BY WordsAssumption DEF Total

\* An image gives each position a word.
LEMMA ScratchWords ==
  ASSUME TypeOK PROVE scratch \in [Index -> Words]
BY ImagesAssumption DEF TypeOK

LEMMA InitIInv == Init => IInv
BY TotalNat, ImagesAssumption, WordsAssumption
   DEF Init, IInv, TypeOK, StreamInv, PassIsForScratch, RejectIsForScratch, Index

LEMMA CallStep == ASSUME IInv, Call PROVE IInv'
BY DEF Call, verifier, IInv, TypeOK, StreamInv, PassIsForScratch, RejectIsForScratch, Verdict

LEMMA WriteClearStep == ASSUME IInv, WriteClear PROVE IInv'
BY TotalNat DEF WriteClear, Clear, IInv, TypeOK, StreamInv, PassIsForScratch,
                RejectIsForScratch, Verdict

\* A word sent lands at its own position and leaves those before it alone.
LEMMA WriteDataStep == ASSUME IInv, WriteData PROVE IInv'
<1> USE DEF WriteData, Data
<1>1. idx = sent /\ sent \in 0 .. Total /\ sent < Total /\ dpc = "data"
  BY TotalNat DEF IInv, TypeOK, StreamInv
<1>2. sent \in Index /\ scratch[sent] \in Words
  BY <1>1, TotalNat, ScratchWords DEF IInv, Index
<1>3. buffer' = [buffer EXCEPT ![sent] = scratch[sent]] /\ idx' = sent + 1 /\ status' = status
  BY <1>1
<1>4. TypeOK'
  BY <1>1, <1>2, <1>3, TotalNat DEF IInv, TypeOK
<1>5. \A k \in 0 .. (sent' - 1) : buffer'[k] = scratch'[k]
  <2> SUFFICES ASSUME NEW k \in 0 .. (sent' - 1) PROVE buffer'[k] = scratch[k]
    OBVIOUS
  <2>1. k \in Index /\ buffer \in [Index -> Words]
    BY <1>1, TotalNat DEF Index, IInv, TypeOK
  <2>2. CASE k = sent
    BY <1>3, <2>1, <2>2
  <2>3. CASE k # sent
    BY <1>1, <1>3, <2>1, <2>3 DEF IInv, StreamInv
  <2>4. QED
    BY <2>2, <2>3
<1>6. dpc' = "start" => sent' = Total
  BY <1>1, TotalNat
<1>7. StreamInv'
  BY <1>1, <1>3, <1>5, <1>6 DEF StreamInv
<1>8. PassIsForScratch' /\ RejectIsForScratch'
  BY <1>1 DEF PassIsForScratch, RejectIsForScratch
<1>9. QED
  BY <1>4, <1>7, <1>8 DEF IInv

\* If every file could be opened, what START judges is what was streamed.
LEMMA WriteStartStep == ASSUME IInv, WriteStart PROVE IInv'
<1> USE DEF WriteStart, Start
<1>1. idx = Total /\ \A k \in Index : buffer[k] = scratch[k]
  BY TotalNat DEF IInv, StreamInv, Index
<1>2. failed' \in SUBSET Parts /\ files' = Written(failed') /\ status' = Verdict(files')
  BY <1>1
<1>3. files' \in [Index -> Words \cup {Missing}]
  BY <1>2 DEF Written, IInv, TypeOK
<1>4. TypeOK'
  BY <1>2, <1>3 DEF IInv, TypeOK, Verdict
<1>5. failed' = {} => files' = scratch
  BY <1>1, <1>2, ScratchWords DEF Written, IInv
<1>6. StreamInv'
  BY <1>2, <1>5 DEF StreamInv
<1>7. PassIsForScratch' /\ RejectIsForScratch'
  BY DEF PassIsForScratch, RejectIsForScratch
<1>8. QED
  BY <1>4, <1>6, <1>7 DEF IInv

LEMMA PollStatusStep == ASSUME IInv, PollStatus PROVE IInv'
<1> USE DEF PollStatus, verifier
<1>1. TypeOK'
  BY DEF IInv, TypeOK
<1>2. StreamInv'
  BY DEF IInv, StreamInv, Verdict
<1>3. failed = {} => status = Verdict(scratch)
  BY DEF IInv, StreamInv
<1>4. PassIsForScratch'
  BY <1>3 DEF PassIsForScratch, Verdict
<1>5. RejectIsForScratch'
  BY <1>3 DEF RejectIsForScratch, Verdict
<1>6. QED
  BY <1>1, <1>2, <1>4, <1>5 DEF IInv

LEMMA RestartStep == ASSUME IInv, Restart PROVE IInv'
BY TotalNat DEF Restart, IInv, TypeOK, StreamInv, PassIsForScratch, RejectIsForScratch

LEMMA NextIInv == IInv /\ [Next]_vars => IInv'
<1> SUFFICES ASSUME IInv, [Next]_vars PROVE IInv'
  OBVIOUS
<1>1. CASE UNCHANGED vars
  BY <1>1 DEF vars, verifier, IInv, TypeOK, StreamInv, PassIsForScratch, RejectIsForScratch, Verdict
<1>2. QED
  BY <1>1, CallStep, WriteClearStep, WriteDataStep, WriteStartStep, PollStatusStep, RestartStep
     DEF Next

\* Every state of the driver and the core satisfies the inductive invariant: the stream is
\* in step with the message, and a verdict is of the message in the scratchpad.
THEOREM Invariance == Spec => []IInv
BY InitIInv, NextIInv, PTL DEF Spec

\* The index never leaves the buffer, and the driver never leaves its own.
THEOREM TypeCorrect == Spec => []TypeOK
<1>1. IInv => TypeOK
  BY DEF IInv
<1>2. QED
  BY <1>1, Invariance, PTL

\* The ROM goes on only with the buffers of this boot validly signed.
THEOREM PassIsSound == Spec => []PassIsForScratch
<1>1. IInv => PassIsForScratch
  BY DEF IInv
<1>2. QED
  BY <1>1, Invariance, PTL

\* And gives up only if they are not, however earlier attempts were cut off.
THEOREM RejectIsSound == Spec => []RejectIsForScratch
<1>1. IInv => RejectIsForScratch
  BY DEF IInv
<1>2. QED
  BY <1>1, Invariance, PTL

(* -------- SHA-256 -------- *)

USE DEF Block, LengthBytes, LengthAt, Offsets

\* What is exact at the end is exact at every turn.
ShaIInv == ShaTypeOK /\ ShaStreamInv /\ DigestExact

\* Every named byte is a byte.
LEMMA BytesOk ==
  /\ One \in Bytes /\ Zero \in Bytes /\ Junk \in Bytes
  /\ \A i \in Nat : Message(i) \in Bytes
  /\ \A i, j \in Nat : Length(i, j) \in Bytes
BY DEF One, Zero, Junk, Message, Length, Bytes

\* A message of q full blocks and r bytes needs one more block, or two.
LEMMA BlockCount ==
  ASSUME NEW q \in Nat, NEW r \in 0 .. 63
  PROVE  PaddedBlocks(64 * q + r) = IF r + 1 <= 56 THEN q + 1 ELSE q + 2
<1>1. CASE r + 1 <= 56
  <2>1. (64 * q + r + 8) \div 64 = q
    BY <1>1
  <2>2. QED
    BY <1>1, <2>1 DEF PaddedBlocks
<1>2. CASE r + 1 > 56
  <2>1. (64 * q + r + 8) \div 64 = q + 1
    BY <1>2
  <2>2. QED
    BY <1>2, <2>1 DEF PaddedBlocks
<1>3. QED
  BY <1>1, <1>2

LEMMA ShaInitIInv == ShaInit => ShaIInv
BY BytesOk, MaxLengthAssumption DEF ShaInit, ShaIInv, ShaTypeOK, ShaStreamInv, DigestExact

LEMMA CallUpdateStep == ASSUME ShaIInv, CallUpdate PROVE ShaIInv'
<1>1. rest' > 0 /\ rest' \in 0 .. (MaxLength - fed)
  BY MaxLengthAssumption DEF CallUpdate, ShaIInv, ShaTypeOK
<1>2. ShaTypeOK'
  BY <1>1 DEF CallUpdate, ShaIInv, ShaTypeOK
<1>3. ShaStreamInv' /\ DigestExact'
  BY DEF CallUpdate, ShaIInv, ShaStreamInv, DigestExact
<1>4. QED
  BY <1>2, <1>3 DEF ShaIInv

\* The numbers of the type invariant, without the contents.
LEMMA Ranges ==
  ASSUME ShaIInv
  PROVE  /\ buffer_len \in 0 .. 63 /\ bit_len \in Nat
         /\ fed \in Nat /\ rest \in Nat /\ fed + rest <= MaxLength
         /\ pc = "update" => rest > 0
<1>1. buffer_len \in 0 .. 63 /\ bit_len \in Nat
  BY DEF ShaIInv, ShaTypeOK
<1>2. fed \in Nat /\ rest \in Nat /\ fed + rest <= MaxLength
  BY MaxLengthAssumption DEF ShaIInv, ShaTypeOK
<1>3. pc = "update" => rest > 0
  BY DEF ShaIInv, ShaTypeOK
<1>4. QED
  BY <1>1, <1>2, <1>3

\* A turn copies at least one byte and never past the end of the buffer or the piece.
LEMMA TakeBounds ==
  ASSUME ShaIInv, pc = "update"
  PROVE  take \in 1 .. rest /\ buffer_len + take <= 64
<1>1. buffer_len \in 0 .. 63 /\ rest \in Nat /\ rest > 0
  BY Ranges
<1>2. QED
  BY <1>1 DEF take

\* A turn leaves the message so far in the blocks and the buffer.
LEMMA UpdateLoopStep == ASSUME ShaIInv, UpdateLoop PROVE ShaIInv'
<1>1. take \in 1 .. rest /\ buffer_len + take <= 64 /\ buffer_len \in 0 .. 63
  BY TakeBounds, Ranges DEF UpdateLoop
<1>2. fed \in Nat /\ rest \in Nat /\ fed + rest <= MaxLength /\ bit_len \in Nat /\ pc = "update"
  BY Ranges DEF UpdateLoop
<1>3. /\ fed' = fed + take /\ rest' = rest - take /\ ctx_buffer' = Copied
      /\ fed' \in 0 .. MaxLength /\ rest' \in 0 .. (MaxLength - fed')
      /\ pc' = IF rest' = 0 THEN "ready" ELSE "update"
  BY <1>1, <1>2, MaxLengthAssumption DEF UpdateLoop
<1>4. hashed \in Seq([Offsets -> Bytes]) /\ ctx_buffer \in [Offsets -> Bytes]
  BY DEF ShaIInv, ShaTypeOK
<1>0. Len(hashed) \in Nat
  BY <1>4
<1>5. Copied \in [Offsets -> Bytes]
  <2>1. \A o \in Offsets : o \in buffer_len .. (buffer_len + take - 1) =>
                             Message(fed + o - buffer_len) \in Bytes
    <3> SUFFICES ASSUME NEW o \in Offsets, o \in buffer_len .. (buffer_len + take - 1)
                 PROVE  Message(fed + o - buffer_len) \in Bytes
      OBVIOUS
    <3>1. fed + o - buffer_len \in Nat
      BY <1>1, <1>2
    <3>2. QED
      BY <3>1, BytesOk
  <2>2. QED
    BY <1>4, <2>1 DEF Copied
<1>6. /\ fed = 64 * Len(hashed) + buffer_len /\ bit_len = 512 * Len(hashed)
      /\ \A b \in 1 .. Len(hashed) : hashed[b] = [o \in Offsets |-> Message(64 * (b - 1) + o)]
      /\ \A o \in 0 .. (buffer_len - 1) : ctx_buffer[o] = Message(fed - buffer_len + o)
  BY <1>2 DEF ShaIInv, ShaStreamInv
<1>7. \A o \in 0 .. (buffer_len + take - 1) : Copied[o] = Message(64 * Len(hashed) + o)
  <2> SUFFICES ASSUME NEW o \in 0 .. (buffer_len + take - 1)
               PROVE  Copied[o] = Message(64 * Len(hashed) + o)
    OBVIOUS
  <2>1. o \in Offsets
    BY <1>1
  <2>2. CASE o < buffer_len
    <3>1. ctx_buffer[o] = Message(fed - buffer_len + o)
      BY <1>1, <1>6, <2>2
    <3>2. fed - buffer_len + o = 64 * Len(hashed) + o
      BY <1>1, <1>4, <1>6
    <3>3. Copied[o] = ctx_buffer[o]
      BY <1>1, <2>1, <2>2 DEF Copied
    <3>4. QED
      BY <3>1, <3>2, <3>3
  <2>3. CASE o >= buffer_len
    <3>1. Copied[o] = Message(fed + o - buffer_len)
      BY <1>1, <2>1, <2>3 DEF Copied
    <3>2. fed + o - buffer_len = 64 * Len(hashed) + o
      BY <1>1, <1>4, <1>6
    <3>3. QED
      BY <3>1, <3>2
  <2>4. QED
    BY <1>1, <2>2, <2>3
<1>8. /\ pc' \in {"ready", "update"}
      /\ pc' = "update" => rest' > 0
      /\ pc' # "update" => rest' = 0
  BY <1>1, <1>2, <1>3
<1>9. CASE buffer_len + take = 64
  <2>1. hashed' = Append(hashed, Copied) /\ bit_len' = bit_len + 512 /\ buffer_len' = 0
    BY <1>3, <1>9 DEF UpdateLoop
  <2>2. hashed' \in Seq([Offsets -> Bytes])
    BY <1>4, <1>5, <2>1, AppendProperties
  <2>3. Len(hashed') = Len(hashed) + 1
    BY <1>4, <1>5, <2>1, AppendProperties
  <2>4. buffer_len' \in 0 .. 63 /\ bit_len' \in Nat
    BY <1>2, <2>1
  <2>5. ShaTypeOK'
    BY <1>3, <1>5, <1>8, <2>2, <2>4 DEF ShaTypeOK
  <2>6. Copied = [o \in Offsets |-> Message(64 * Len(hashed) + o)]
    <3>1. \A o \in Offsets : Copied[o] = Message(64 * Len(hashed) + o)
      BY <1>1, <1>7, <1>9
    <3>2. QED
      BY <3>1 DEF Copied
  <2>7. ASSUME NEW b \in 1 .. Len(hashed')
        PROVE  hashed'[b] = [o \in Offsets |-> Message(64 * (b - 1) + o)]
    <3>1. b \in 1 .. Len(hashed) \/ b = Len(hashed) + 1
      BY <1>0, <2>3
    <3>2. CASE b \in 1 .. Len(hashed)
      <4>1. hashed'[b] = hashed[b]
        BY <1>4, <1>5, <2>1, <3>2, AppendProperties
      <4>2. QED
        BY <1>6, <3>2, <4>1
    <3>3. CASE b = Len(hashed) + 1
      <4>1. hashed'[b] = Copied
        BY <1>4, <1>5, <2>1, <3>3, AppendProperties
      <4>2. b - 1 = Len(hashed)
        BY <1>0, <3>3
      <4>3. QED
        BY <2>6, <4>1, <4>2
    <3>4. QED
      BY <3>1, <3>2, <3>3
  <2>8. fed' = 64 * Len(hashed') + buffer_len'
    <3>1. fed' = 64 * Len(hashed) + 64
      BY <1>0, <1>1, <1>3, <1>6, <1>9
    <3>2. QED
      BY <1>0, <2>1, <2>3, <3>1
  <2>9. bit_len' = 512 * Len(hashed')
    BY <1>0, <1>6, <2>1, <2>3
  <2>10. \A o \in 0 .. (buffer_len' - 1) : FALSE
    BY <2>1
  <2>11. ShaStreamInv'
    <3>1. bit_len' = 8 * Block * Len(hashed') /\ fed' = Block * Len(hashed') + buffer_len'
      BY <1>0, <2>3, <2>8, <2>9 DEF Block
    <3>2. \A b \in 1 .. Len(hashed') : hashed'[b] = [o \in Offsets |-> Message(Block * (b - 1) + o)]
      BY Zenon, <2>7 DEF Block
    <3>3. \A o \in 0 .. (buffer_len' - 1) : ctx_buffer'[o] = Message(fed' - buffer_len' + o)
      BY Zenon, <2>10
    <3> QED
      BY Zenon, <3>1, <3>2, <3>3 DEF ShaStreamInv
  <2>12. QED
    BY <1>8, <2>5, <2>11 DEF ShaIInv, DigestExact
<1>10. CASE buffer_len + take # 64
  <2>1. hashed' = hashed /\ bit_len' = bit_len /\ buffer_len' = buffer_len + take
    BY <1>10 DEF UpdateLoop
  <2>2. buffer_len' \in 0 .. 63 /\ bit_len' \in Nat
    BY <1>1, <1>2, <1>10, <2>1
  <2>3. ShaTypeOK'
    BY <1>3, <1>4, <1>5, <1>8, <2>1, <2>2 DEF ShaTypeOK
  <2>4. fed' = 64 * Len(hashed') + buffer_len' /\ fed' - buffer_len' = 64 * Len(hashed)
    BY <1>0, <1>1, <1>3, <1>6, <2>1
  <2>5. \A o \in 0 .. (buffer_len' - 1) : ctx_buffer'[o] = Message(fed' - buffer_len' + o)
    <3> SUFFICES ASSUME NEW o \in 0 .. (buffer_len' - 1)
                 PROVE  ctx_buffer'[o] = Message(fed' - buffer_len' + o)
      OBVIOUS
    <3>1. o \in 0 .. (buffer_len + take - 1)
      <4>1. buffer_len' - 1 = buffer_len + take - 1
        BY <1>1, <2>1, <2>2
      <4>2. QED
        BY <4>1
    <3>2. Copied[o] = Message(64 * Len(hashed) + o)
      BY <1>7, <3>1
    <3>3. QED
      BY <1>3, <2>4, <3>2
  <2>6. ShaStreamInv'
    BY <1>6, <2>1, <2>4, <2>5 DEF ShaStreamInv
  <2>7. QED
    BY <1>8, <2>3, <2>6 DEF ShaIInv, DigestExact
<1>11. QED
  BY <1>9, <1>10

\* A block of the padded message, byte by byte.
LEMMA PaddedBlock ==
  ASSUME NEW n \in Nat, NEW q \in Nat, q + 1 \in 1 .. PaddedBlocks(n)
  PROVE  Padded(n)[q + 1] = [o \in Offsets |-> PaddedByte(n, 64 * q + o)]
<1>1. (q + 1) - 1 = q
  OBVIOUS
<1>2. Padded(n)[q + 1] = [o \in Offsets |-> PaddedByte(n, 64 * ((q + 1) - 1) + o)]
  BY DEF Padded
<1>3. QED
  BY <1>1, <1>2

\* Two lists of blocks of one length are equal if their blocks are.
LEMMA EqualBlocks ==
  ASSUME NEW S, NEW s \in Seq(S), NEW n \in Nat, PaddedBlocks(n) \in Nat,
         Len(s) = PaddedBlocks(n), \A b \in 1 .. PaddedBlocks(n) : s[b] = Padded(n)[b]
  PROVE  s = Padded(n)
<1>1. s = [b \in 1 .. PaddedBlocks(n) |-> s[b]]
  OBVIOUS
<1>2. Padded(n) = [b \in 1 .. PaddedBlocks(n) |-> Padded(n)[b]]
  BY DEF Padded
<1>3. QED
  BY <1>1, <1>2

\* sha256_final yields the padded message.
LEMMA FinalStep == ASSUME ShaIInv, Final PROVE ShaIInv'
<1> DEFINE q == Len(hashed)
           r == buffer_len
<1>0. hashed \in Seq([Offsets -> Bytes]) /\ ctx_buffer \in [Offsets -> Bytes] /\ pc = "ready"
  BY DEF ShaIInv, ShaTypeOK, Final
<1>1. q \in Nat /\ r \in 0 .. 63 /\ fed = 64 * q + r /\ fed \in Nat /\ total_bits = 8 * fed
  <2>1. r \in 0 .. 63 /\ fed \in Nat
    BY Ranges
  <2>2. q \in Nat
    BY <1>0
  <2>3. fed = 64 * q + r /\ bit_len = 512 * q
    BY <1>0 DEF ShaIInv, ShaStreamInv
  <2>4. QED
    BY <2>1, <2>2, <2>3 DEF total_bits
<1>2. \A b \in 1 .. q : hashed[b] = [o \in Offsets |-> Message(64 * (b - 1) + o)]
  BY <1>0 DEF ShaIInv, ShaStreamInv
<1>3. \A o \in 0 .. (r - 1) : ctx_buffer[o] = Message(64 * q + o)
  <2>1. \A o \in 0 .. (r - 1) : ctx_buffer[o] = Message(fed - r + o)
    BY <1>0 DEF ShaIInv, ShaStreamInv
  <2>2. fed - r = 64 * q
    BY <1>1
  <2>3. QED
    BY <2>1, <2>2
<1>4. PaddedBlocks(fed) = IF Fits THEN q + 1 ELSE q + 2
  <2>1. PaddedBlocks(64 * q + r) = IF r + 1 <= 56 THEN q + 1 ELSE q + 2
    BY <1>1, BlockCount
  <2>2. Fits <=> r + 1 <= 56
    BY DEF Fits
  <2>3. QED
    BY <1>1, <2>1, <2>2
<1>5. \A b \in 1 .. q : hashed[b] = Padded(fed)[b]
  <2> SUFFICES ASSUME NEW b \in 1 .. q PROVE hashed[b] = Padded(fed)[b]
    OBVIOUS
  <2>1. \A o \in Offsets : 64 * (b - 1) + o < fed
    BY <1>1
  <2>2. \A o \in Offsets : PaddedByte(fed, 64 * (b - 1) + o) = Message(64 * (b - 1) + o)
    BY <2>1 DEF PaddedByte
  <2>3. b \in 1 .. PaddedBlocks(fed)
    BY <1>1, <1>4
  <2>4. QED
    BY <1>2, <2>2, <2>3 DEF Padded
<1>6. \A end \in Nat : WithOne(end) \in [Offsets -> Bytes]
  BY <1>0, BytesOk DEF WithOne
<1>7. \A c \in [Offsets -> Bytes] : WithLength(c) \in [Offsets -> Bytes]
  <2>1. 8 * fed \in Nat /\ \A o \in Offsets : o >= 56 => Length(8 * fed, o - 56) \in Bytes
    BY <1>1, BytesOk
  <2>2. QED
    BY <1>1, <2>1 DEF WithLength
<1>8. CASE Fits
  <2> DEFINE last == WithLength(WithOne(56))
  <2>1. last \in [Offsets -> Bytes]
    BY <1>6, <1>7
  <2>2. hashed' = Append(hashed, last)
    BY <1>8 DEF Final
  <2>3. PaddedBlocks(fed) = q + 1 /\ r + 1 <= 56
    BY <1>4, <1>8 DEF Fits
  <2>4. ASSUME NEW o \in Offsets PROVE last[o] = PaddedByte(fed, 64 * q + o)
    <3> DEFINE p == 64 * q + o
    <3>1. last[o] = IF o < 56 THEN (IF o = r THEN One ELSE IF o > r THEN Zero ELSE ctx_buffer[o])
                    ELSE Length(8 * fed, o - 56)
      BY <1>1 DEF WithLength, WithOne
    <3>2. 64 * PaddedBlocks(fed) - 8 = 64 * q + 56
      BY <1>1, <2>3
    <3>3. PaddedByte(fed, p) = IF p < fed THEN Message(p) ELSE IF p = fed THEN One
                               ELSE IF p < 64 * q + 56 THEN Zero
                               ELSE Length(8 * fed, p - (64 * q + 56))
      BY <3>2 DEF PaddedByte
    <3>4. /\ p < fed <=> o < r
          /\ p = fed <=> o = r
          /\ p < 64 * q + 56 <=> o < 56
          /\ p - (64 * q + 56) = o - 56
      BY <1>1
    <3>5. o < r => ctx_buffer[o] = Message(p)
      BY <1>1, <1>3
    <3>6. r < 56 /\ (o < r \/ o = r \/ (o > r /\ ~(o < r) /\ o # r))
      BY <1>1, <2>3
    <3>7. CASE o < r
      <4>1. o < 56 /\ ~(o > r) /\ o # r
        BY <1>1, <3>6, <3>7
      <4>2. QED
        BY <3>1, <3>3, <3>4, <3>5, <3>7, <4>1
    <3>8. CASE o = r
      <4>1. o < 56 /\ ~(o < r)
        BY <1>1, <3>6, <3>8
      <4>2. QED
        BY <3>1, <3>3, <3>4, <3>8, <4>1
    <3>9. CASE o > r /\ ~(o < r) /\ o # r
      BY <3>1, <3>3, <3>4, <3>9
    <3>10. QED
      BY <3>6, <3>7, <3>8, <3>9
  <2>5. last = [o \in Offsets |-> PaddedByte(fed, 64 * q + o)]
    <3>1. last = [o \in Offsets |-> last[o]]
      BY <2>1
    <3>2. QED
      BY <2>4, <3>1
  <2>6. hashed' \in Seq([Offsets -> Bytes]) /\ Len(hashed') = q + 1
    BY <1>0, <2>1, <2>2, AppendProperties
  <2>7. hashed'[q + 1] = last /\ \A b \in 1 .. q : hashed'[b] = hashed[b]
    BY <1>0, <2>1, <2>2, AppendProperties
  <2>8. Padded(fed)[q + 1] = last
    <3>1. fed \in Nat /\ q \in Nat /\ q + 1 \in 1 .. PaddedBlocks(fed)
      BY <1>1, <2>3
    <3>2. QED
      BY <2>5, <3>1, PaddedBlock
  <2>9. \A b \in 1 .. (q + 1) : b \in 1 .. q \/ b = q + 1
    BY <1>1
  <2>10. \A b \in 1 .. (q + 1) : hashed'[b] = Padded(fed)[b]
    BY <1>5, <2>7, <2>8, <2>9
  <2>11. hashed' = Padded(fed)
    <3>1. fed \in Nat /\ PaddedBlocks(fed) \in Nat
      BY <1>1, <2>3
    <3>2. Len(hashed') = PaddedBlocks(fed)
      BY <2>3, <2>6
    <3>3. \A b \in 1 .. PaddedBlocks(fed) : hashed'[b] = Padded(fed)[b]
      BY <2>3, <2>10
    <3>4. QED
      BY <2>6, <3>1, <3>2, <3>3, EqualBlocks
  <2>12. ctx_buffer' \in [Offsets -> Bytes]
    BY <2>1, <2>6, <2>7, ZenonT(60) DEF Final
  <2>13. QED
    BY <1>0, <2>6, <2>11, <2>12 DEF Final, ShaIInv, ShaTypeOK, ShaStreamInv, DigestExact
<1>9. CASE ~Fits
  <2> DEFINE full == WithOne(64)
             last == WithLength([o \in Offsets |-> Zero])
  <2>1. full \in [Offsets -> Bytes] /\ last \in [Offsets -> Bytes]
    BY <1>6, <1>7, BytesOk
  <2>2. hashed' = hashed \o <<full, last>>
    BY <1>9 DEF Final
  <2>3. PaddedBlocks(fed) = q + 2 /\ r + 1 > 56
    BY <1>1, <1>4, <1>9 DEF Fits
  <2>4. 64 * PaddedBlocks(fed) - 8 = 64 * q + 120
    BY <1>1, <2>3
  <2>5. \A p \in Nat : PaddedByte(fed, p) =
          IF p < fed THEN Message(p) ELSE IF p = fed THEN One
          ELSE IF p < 64 * q + 120 THEN Zero ELSE Length(8 * fed, p - (64 * q + 120))
    BY <2>4 DEF PaddedByte
  <2>6. ASSUME NEW o \in Offsets PROVE full[o] = PaddedByte(fed, 64 * q + o)
    <3> DEFINE p == 64 * q + o
    <3>1. full[o] = IF o = r THEN One ELSE IF o > r /\ o < 64 THEN Zero ELSE ctx_buffer[o]
      BY DEF WithOne
    <3>2. /\ p \in Nat /\ p < 64 * q + 120 /\ o < 64
          /\ p < fed <=> o < r
          /\ p = fed <=> o = r
      BY <1>1
    <3>3. o < r => ctx_buffer[o] = Message(p)
      BY <1>1, <1>3
    <3>4. o < r \/ o = r \/ (o > r /\ ~(o < r) /\ o # r)
      BY <1>1
    <3>5. o < r => ~(o > r) /\ o # r
      BY <1>1
    <3>6. PaddedByte(fed, p) = IF p < fed THEN Message(p) ELSE IF p = fed THEN One ELSE Zero
      BY <2>5, <3>2
    <3>7. QED
      BY <3>1, <3>2, <3>3, <3>4, <3>5, <3>6
  <2>7. ASSUME NEW o \in Offsets PROVE last[o] = PaddedByte(fed, 64 * (q + 1) + o)
    <3> DEFINE p == 64 * (q + 1) + o
    <3>1. last[o] = IF o < 56 THEN Zero ELSE Length(8 * fed, o - 56)
      BY <1>1 DEF WithLength
    <3>2. /\ p \in Nat /\ ~(p < fed) /\ p # fed
          /\ p < 64 * q + 120 <=> o < 56
          /\ p - (64 * q + 120) = o - 56
      BY <1>1
    <3>3. PaddedByte(fed, p) = IF p < 64 * q + 120 THEN Zero
                               ELSE Length(8 * fed, p - (64 * q + 120))
      BY <2>5, <3>2
    <3>4. CASE o < 56
      BY <3>1, <3>2, <3>3, <3>4
    <3>5. CASE ~(o < 56)
      BY <3>1, <3>2, <3>3, <3>5
    <3>6. QED
      BY <3>4, <3>5
  <2>8. full = [o \in Offsets |-> PaddedByte(fed, 64 * q + o)]
    <3>1. full = [o \in Offsets |-> full[o]]
      BY <2>1
    <3>2. QED
      BY <2>6, <3>1
  <2>9. last = [o \in Offsets |-> PaddedByte(fed, 64 * (q + 1) + o)]
    <3>1. last = [o \in Offsets |-> last[o]]
      BY <2>1
    <3>2. QED
      BY <2>7, <3>1
  <2>10. hashed' \in Seq([Offsets -> Bytes]) /\ Len(hashed') = q + 2
    <3>1. <<full, last>> \in Seq([Offsets -> Bytes]) /\ Len(<<full, last>>) = 2
      BY <2>1
    <3>2. QED
      BY <1>0, <2>2, <3>1, ConcatProperties
  <2>11. /\ hashed'[q + 1] = full /\ hashed'[q + 2] = last
         /\ \A b \in 1 .. q : hashed'[b] = hashed[b]
    <3> DEFINE two == <<full, last>>
    <3>1. two \in Seq([Offsets -> Bytes]) /\ Len(two) = 2 /\ two[1] = full /\ two[2] = last
      BY <2>1
    <3> HIDE DEF two
    <3>2. \A i \in 1 .. (Len(hashed) + Len(two)) :
            (hashed \o two)[i] = IF i <= Len(hashed) THEN hashed[i] ELSE two[i - Len(hashed)]
      BY <1>0, <3>1, ConcatProperties
    <3>3. hashed' = hashed \o two
      BY <2>2 DEF two
    <3>4. /\ q + 1 \in 1 .. (q + 2) /\ ~(q + 1 <= q) /\ (q + 1) - q = 1
          /\ q + 2 \in 1 .. (q + 2) /\ ~(q + 2 <= q) /\ (q + 2) - q = 2
          /\ \A b \in 1 .. q : b \in 1 .. (q + 2) /\ b <= q
      BY <1>1
    <3>5. QED
      BY <3>1, <3>2, <3>3, <3>4
  <2>12. Padded(fed)[q + 1] = full /\ Padded(fed)[q + 2] = last
    <3>1. Padded(fed)[q + 1] = full
      <4>1. fed \in Nat /\ q \in Nat /\ q + 1 \in 1 .. PaddedBlocks(fed)
        BY <1>1, <2>3
      <4>2. QED
        BY <2>8, <4>1, PaddedBlock
    <3>2. q + 1 \in Nat /\ (q + 1) + 1 = q + 2 /\ (q + 1) + 1 \in 1 .. PaddedBlocks(fed)
      BY <1>1, <2>3
    <3>3. Padded(fed)[(q + 1) + 1] = last
      BY <1>1, <2>9, <3>2, PaddedBlock
    <3>4. QED
      BY <3>1, <3>2, <3>3
  <2>13. \A b \in 1 .. (q + 2) : b \in 1 .. q \/ b = q + 1 \/ b = q + 2
    BY <1>1
  <2>14. \A b \in 1 .. (q + 2) : hashed'[b] = Padded(fed)[b]
    BY <1>5, <2>11, <2>12, <2>13
  <2>15. hashed' = Padded(fed)
    <3>1. fed \in Nat /\ PaddedBlocks(fed) \in Nat
      BY <1>1, <2>3
    <3>2. Len(hashed') = PaddedBlocks(fed)
      BY <2>3, <2>10
    <3>3. \A b \in 1 .. PaddedBlocks(fed) : hashed'[b] = Padded(fed)[b]
      BY <2>3, <2>14
    <3>4. QED
      BY <2>10, <3>1, <3>2, <3>3, EqualBlocks
  <2>16. ctx_buffer' \in [Offsets -> Bytes]
    BY <2>1, <2>10, <2>11, ZenonT(60) DEF Final
  <2>17. QED
    BY <1>0, <2>10, <2>15, <2>16 DEF Final, ShaIInv, ShaTypeOK, ShaStreamInv, DigestExact
<1>10. QED
  BY <1>8, <1>9

LEMMA ShaNextIInv == ShaIInv /\ [ShaNext]_sha_vars => ShaIInv'
<1> SUFFICES ASSUME ShaIInv, [ShaNext]_sha_vars PROVE ShaIInv'
  OBVIOUS
<1>1. CASE UpdateLoop
  BY <1>1, UpdateLoopStep
<1>2. CASE UNCHANGED sha_vars
  BY <1>2 DEF sha_vars, ShaIInv, ShaTypeOK, ShaStreamInv, DigestExact
<1>3. QED
  BY <1>1, <1>2, CallUpdateStep, FinalStep DEF ShaNext

\* Every state of the stream is typed and buffers what is left of its message, and every
\* digest is that of the message given (sha256_update, sha256_final).
THEOREM ShaInvariance == ShaSpec => []ShaIInv
BY ShaInitIInv, ShaNextIInv, PTL DEF ShaSpec

\* The buffer is never full between two turns, and nothing is written outside it.
THEOREM ShaTypeCorrect == ShaSpec => []ShaTypeOK
<1>1. ShaIInv => ShaTypeOK
  BY DEF ShaIInv
<1>2. QED
  BY <1>1, ShaInvariance, PTL

\* Whatever its length and its pieces, the message is hashed as FIPS 180-4 pads it.
THEOREM DigestIsExact == ShaSpec => []DigestExact
<1>1. ShaIInv => DigestExact
  BY DEF ShaIInv
<1>2. QED
  BY <1>1, ShaInvariance, PTL
==============================================================================
