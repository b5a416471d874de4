---------------------------- MODULE BootRomProofs ----------------------------
(***************************************************************************)
(* Proofs about BootRom for every flash content, memory map, poll bound    *)
(* and reset value its assumptions allow, with and without unexpected      *)
(* faults and resets.  IInv is inductive: InitIInv, one lemma per action,  *)
(* NextIInv; the safety theorems follow from it.                           *)
(***************************************************************************)
EXTENDS BootRom, SequenceTheorems, TLAPS

(* The vocabulary of control points, and the tuples of BootRom, are always *)
(* expanded; the invariants and the actions only where a step cites them.  *)
USE DEF hart, reading, memory, link, board, Goto, Fail, Trap,
        NoReason, StatusBits, FlashParts,
        ReadPcs, VerifyPcs, LockPcs, RecoverPcs, BootRomPcs, Pcs,
        KernelRead, PastHash, PastLoad, PastSign, PastKey, PastHeader, PastClear

(* -------- lemmas about the operators -------- *)

\* A write never lowers the rollback counter.
LEMMA CounterWriteNat ==
  ASSUME NEW old \in Nat, NEW data \in Nat
  PROVE  CounterWrite(old, data) \in Nat /\ CounterWrite(old, data) >= old
BY DEF CounterWrite

\* The fields of a manifest have the types the code gives them.
LEMMA ManifestFields ==
  ASSUME NEW man \in Manifests
  PROVE  /\ man.version \in Nat
         /\ man.payload_size \in 0 .. FlashBlocks
         /\ man.load_address \in Nat
BY ImagesAssumption DEF Manifests

\* Stages 0 to 2 together: what the three buffers then say about the manifest.
LEMMA StagesMakeAuthentic ==
  ASSUME NEW man \in Manifests, HeaderOk(man),
         NEW key \in PublicKeys, KeyTrusted(key),
         NEW sig \in Signatures \cup {Zero, Garbage}, SignatureOk(key, man, sig)
  PROVE  Authentic(man)
<1>1. sig \in Signatures
  BY BufferAssumption DEF SignatureOk, Sign
<1>2. QED
  BY <1>1 DEF Authentic

\* A trusted key is the developer's, so it is no cleared or misplaced buffer.
LEMMA TrustedKeyIsKey ==
  ASSUME NEW key \in PublicKeys \cup {Zero, Garbage}, KeyTrusted(key)
  PROVE  key \in PublicKeys
BY BufferAssumption DEF KeyTrusted, OtpHash, Sha256

\* What check_public_key writes into its two hash buffers are digests.
LEMMA DigestOfKey ==
  /\ \A key \in PublicKeys \cup {Zero, Garbage} : Sha256(key) \in Digests
  /\ OtpHash \in Digests
BY DEF Digests, OtpHash

\* So is what check_and_load_kernel writes, if the kernel fits into DRAM.
LEMMA LoadedHashType ==
  ASSUME NEW man \in Manifests, NEW m \in [Dram -> Blocks \cup {Garbage}],
         LoadParamsOk(man), man.load_address + man.payload_size <= DramTop
  PROVE  LoadedHash(man, m) \in Digests
<1> DEFINE n == man.payload_size
           f == [j \in 1 .. n |-> m[man.load_address + j - 1]]
<1>1. n \in 0 .. FlashBlocks /\ man.load_address \in Nat
  BY ManifestFields
<1>2. \A j \in 1 .. n : man.load_address + j - 1 \in Dram
  BY <1>1, MemoryAssumption DEF LoadParamsOk, Dram
<1>3. f \in [1 .. n -> Blocks \cup {Garbage}]
  BY <1>2
<1>4. Sha256(f) \in {Sha256(g) : g \in [1 .. n -> Blocks \cup {Garbage}]}
  BY <1>3
<1>5. QED
  BY <1>1, <1>4 DEF LoadedHash, Digests

\* A block of the wrong transfer is stored as garbage, never as a value of the
\* wrong kind.
LEMMA StoredType ==
  ASSUME NEW b \in FlashWords
  PROVE  /\ Stored("manifest", b) \in Manifests \cup {Zero, Garbage}
         /\ Stored("signature", b) \in Signatures \cup {Zero, Garbage}
         /\ Stored("public_key", b) \in PublicKeys \cup {Zero, Garbage}
         /\ Stored("kernel", b) \in Blocks \cup {Garbage}
BY DEF Stored, FlashWords

(* -------- what steps leave alone -------- *)

\* A release in memory stays admitted while memory and the counter stay.
LEMMA ReleaseFrame ==
  ASSUME dram' = dram, counter' = counter
  PROVE  SomeRelease => SomeRelease'
BY DEF SomeRelease, Installed, LoadedHash

\* The checked kernel stays the manifest's while neither is written.
LEMMA InstalledFrame ==
  ASSUME dram' = dram, scratch'.manifest = scratch.manifest
  PROVE  Installed(scratch.manifest)' = Installed(scratch.manifest)
BY DEF Installed, LoadedHash

\* In the counter stage the manifest in the scratch area is an installed release.
LEMMA InstalledRelease ==
  ASSUME IInv, PastHash
  PROVE  scratch.manifest \in Releases /\ Installed(scratch.manifest)
BY DEF IInv, StageInv, Releases

\* How many blocks a transfer has, and that a kernel transfer has a manifest.
LEMMA TransferSize ==
  ASSUME IInv, pc \in ReadPcs
  PROVE  /\ TotalBytes(part) \in 1 .. (FlashBlocks + 1)
         /\ part = "kernel" =>
              /\ TotalBytes(part) <= FlashBlocks
              /\ scratch.manifest \in Manifests /\ LoadParamsOk(scratch.manifest)
<1>1. CASE part = "kernel"
  <2>1. scratch.manifest \in Manifests /\ LoadParamsOk(scratch.manifest)
    BY <1>1 DEF IInv, StageInv
  <2>2. QED
    BY <1>1, <2>1, ManifestFields, MemoryAssumption DEF TotalBytes, LoadParamsOk
<1>2. CASE part # "kernel"
  BY <1>2, MemoryAssumption DEF TotalBytes
<1>3. QED
  BY <1>1, <1>2

\* Taking a block leaves a well-typed FIFO.
LEMMA FifoHead ==
  ASSUME IInv, fifo # <<>>
  PROVE  /\ Head(fifo) \in FlashWords
         /\ Tail(fifo) \in Seq(FlashWords) /\ Len(Tail(fifo)) <= FifoDepth
<1>1. fifo \in Seq(FlashWords) /\ Len(fifo) <= FifoDepth
  BY DEF IInv, TypeOK
<1>2. /\ Head(fifo) \in FlashWords /\ Tail(fifo) \in Seq(FlashWords)
      /\ Len(Tail(fifo)) = Len(fifo) - 1
  BY <1>1, HeadTailProperties
<1>3. Len(fifo) \in Nat
  BY <1>1, LenProperties
<1>4. QED
  BY <1>1, <1>2, <1>3, NumbersAssumption

(* -------- the initial states and stuttering -------- *)

LEMMA InitIInv == ASSUME Init PROVE IInv
<1>1. dram \in [Dram -> Blocks \cup {Garbage}]
  BY MemoryAssumption DEF Init
<1>2. spi \in SpiType
  BY MemoryAssumption DEF Init, SpiReset, SpiType
<1>3. fifo \in Seq(FlashWords) /\ Len(fifo) <= FifoDepth
  BY NumbersAssumption, EmptySeq DEF Init
<1>4. scratch \in ScratchType
  BY DEF Init, Cleared, ScratchType
<1>5. TypeOK
  BY <1>1, <1>2, <1>3, <1>4, NumbersAssumption, MemoryAssumption
  DEF Init, TypeOK, PmpReset
<1>6. StageInv
  BY DEF Init, StageInv
<1>7. TransferInv
  BY DEF Init, TransferInv, SpiReset
<1>8. ControlInv
  BY DEF Init, ControlInv
<1>9. QED
  BY <1>5, <1>6, <1>7, <1>8 DEF IInv

LEMMA StutterKeeps == ASSUME IInv, UNCHANGED vars PROVE IInv'
<1>1. TypeOK'
  BY DEF IInv, TypeOK, vars
<1>2. /\ SomeRelease' = SomeRelease
      /\ Installed(scratch.manifest)' = Installed(scratch.manifest)
  BY DEF vars, SomeRelease, Installed, LoadedHash
<1>3. StageInv'
  BY <1>2 DEF IInv, vars, StageInv
<1>4. TransferInv' /\ ControlInv'
  BY DEF IInv, vars, TransferInv, ControlInv
<1>5. QED
  BY <1>1, <1>3, <1>4 DEF IInv

(* -------- read_flash and the SPI controller -------- *)

LEMMA StartFlashReadKeeps == ASSUME IInv, StartFlashRead PROVE IInv'
<1>1. spi' \in SpiType
  BY TransferSize, MemoryAssumption DEF IInv, TypeOK, StartFlashRead, SpiType
<1>2. TypeOK'
  BY <1>1, MemoryAssumption, NumbersAssumption DEF IInv, TypeOK, StartFlashRead
<1>3. StageInv'
  BY DEF IInv, StageInv, StartFlashRead
<1>4. TransferInv'
  BY TransferSize, MemoryAssumption DEF IInv, TransferInv, StartFlashRead, TotalBytes
<1>5. ControlInv'
  BY DEF IInv, ControlInv, StartFlashRead
<1>6. QED
  BY <1>2, <1>3, <1>4, <1>5 DEF IInv

LEMMA SpiDeliverKeeps == ASSUME IInv, SpiDeliver PROVE IInv'
<1> DEFINE word == [part |-> spi.part,
                    data |-> IF spi.part = "kernel" THEN flash.kernel[spi.next]
                                                    ELSE flash[spi.part]]
<1>1. spi.next \in 1 .. (FlashBlocks + 2) /\ spi.left \in 1 .. (FlashBlocks + 1)
  BY MemoryAssumption DEF IInv, TypeOK, SpiType, SpiDeliver
<1>2. spi.part = "kernel" => spi.next \in 1 .. FlashBlocks
  BY <1>1, MemoryAssumption DEF IInv, TransferInv
<1>3. word \in FlashWords
  <2>1. CASE spi.part = "kernel"
    BY <2>1, <1>2, ImagesAssumption DEF IInv, TypeOK, SpiType, FlashWords
  <2>2. CASE spi.part # "kernel"
    BY <2>2 DEF IInv, TypeOK, SpiType, FlashWords, Manifests, Signatures, PublicKeys
  <2>3. QED
    BY <2>1, <2>2
<1>4. fifo' = Append(fifo, word)
  BY DEF SpiDeliver
<1>5. fifo' \in Seq(FlashWords) /\ Len(fifo') = Len(fifo) + 1
  <2>1. fifo \in Seq(FlashWords)
    BY DEF IInv, TypeOK
  <2> HIDE DEF word
  <2>2. QED
    BY <1>3, <1>4, <2>1, AppendProperties
<1>6. Len(fifo') <= FifoDepth
  BY <1>5, NumbersAssumption, LenProperties DEF SpiDeliver, IInv, TypeOK
<1>7. spi' = [spi EXCEPT !.next = spi.next + 1, !.left = spi.left - 1]
  BY DEF SpiDeliver
<1>8. spi' \in SpiType /\ spi'.part = spi.part /\ spi'.next + spi'.left = spi.next + spi.left
  <2>1. spi.next + 1 \in 1 .. (FlashBlocks + 2) /\ spi.left - 1 \in 0 .. (FlashBlocks + 1)
    BY <1>1, MemoryAssumption DEF IInv, TransferInv
  <2>2. spi \in SpiType
    BY DEF IInv, TypeOK
  <2>3. spi' \in SpiType
    BY <1>7, <2>1, <2>2 DEF SpiType
  <2>4. spi'.part = spi.part /\ spi'.next = spi.next + 1 /\ spi'.left = spi.left - 1
    BY <1>7, <2>2 DEF SpiType
  <2>5. spi.next + 1 + (spi.left - 1) = spi.next + spi.left
    BY <1>1
  <2>6. QED
    BY <2>3, <2>4, <2>5
<1>9. TypeOK'
  BY <1>5, <1>6, <1>8 DEF IInv, TypeOK, SpiDeliver
<1>10. SomeRelease' = SomeRelease /\ Installed(scratch.manifest)' = Installed(scratch.manifest)
  BY DEF SpiDeliver, SomeRelease, Installed, LoadedHash
<1>11. StageInv' /\ ControlInv'
  BY <1>10 DEF IInv, StageInv, ControlInv, SpiDeliver
<1>12. TransferInv'
  BY <1>8 DEF IInv, TransferInv, SpiDeliver
<1>13. QED
  BY <1>9, <1>11, <1>12 DEF IInv

LEMMA SpiFinishKeeps == ASSUME IInv, SpiFinish PROVE IInv'
<1>1. spi' = [spi EXCEPT !.busy = FALSE, !.done = TRUE]
  BY DEF SpiFinish
<1>2. spi' \in SpiType /\ spi'.part = spi.part /\ spi'.next = spi.next /\ spi'.left = spi.left
  BY <1>1 DEF IInv, TypeOK, SpiType
<1>3. TypeOK'
  BY <1>2 DEF IInv, TypeOK, SpiFinish
<1>4. SomeRelease' = SomeRelease /\ Installed(scratch.manifest)' = Installed(scratch.manifest)
  BY DEF SpiFinish, SomeRelease, Installed, LoadedHash
<1>5. StageInv' /\ ControlInv'
  BY <1>4 DEF IInv, StageInv, ControlInv, SpiFinish
<1>6. TransferInv'
  BY <1>2 DEF IInv, TransferInv, SpiFinish
<1>7. QED
  BY <1>3, <1>5, <1>6 DEF IInv

LEMMA ReadBlockKeeps == ASSUME IInv, ReadBlock PROVE IInv'
<1> DEFINE b == Head(fifo)
<1>1. b \in FlashWords /\ fifo' \in Seq(FlashWords) /\ Len(fifo') <= FifoDepth
  BY FifoHead DEF ReadBlock
<1>2. pc' \in {"_start", "read_flash_words", "poll_done"} /\ part' = part
  BY DEF IInv, ReadBlock, ControlInv
<1>3. CASE StoreFaults
  <2>1. pc' = "_start" /\ UNCHANGED <<mtvec, mepc, reason, part, got, memory, flash, spi, board, report>>
    BY <1>3 DEF IInv, ControlInv, ReadBlock
  <2>2. TypeOK'
    BY <1>1, <2>1, NumbersAssumption DEF IInv, TypeOK, ReadBlock
  <2>3. StageInv' /\ TransferInv' /\ ControlInv'
    BY <2>1 DEF IInv, StageInv, TransferInv, ControlInv, ReadBlock
  <2>4. QED
    BY <2>2, <2>3 DEF IInv
<1>4. CASE ~StoreFaults /\ part = "kernel"
  <2> DEFINE size == scratch.manifest.payload_size
             at   == scratch.manifest.load_address + got
  <2>1. /\ scratch' = scratch /\ got' = got + 1
        /\ dram' = [dram EXCEPT ![at] = Stored("kernel", b)]
        /\ pc' = IF got + 1 = size THEN "poll_done" ELSE "read_flash_words"
    BY <1>4 DEF ReadBlock, StoreBlock, TotalBytes
  <2>2. /\ got \in Nat /\ size \in 0 .. FlashBlocks /\ got < size
        /\ scratch.manifest.load_address \in Nat
        /\ ~(scratch.manifest.load_address < DramBase) /\ at < DramTop
    BY <1>4, TransferSize, ManifestFields, MemoryAssumption, SMTT(60)
    DEF IInv, TypeOK, TransferInv, ReadBlock, StoreFaults, LoadParamsOk
  <2>3. at \in Dram
    BY <2>2, MemoryAssumption DEF Dram
  <2>4. Stored("kernel", b) \in Blocks \cup {Garbage}
    BY <1>1, StoredType
  <2>5. dram' \in [Dram -> Blocks \cup {Garbage}]
    BY <2>1, <2>3, <2>4 DEF IInv, TypeOK
  <2>6. got' \in 0 .. (FlashBlocks + 1)
    BY <2>1, <2>2, MemoryAssumption
  <2>7. TypeOK'
    BY <1>1, <1>2, <2>1, <2>5, <2>6, NumbersAssumption DEF IInv, TypeOK, ReadBlock
  <2>8. StageInv'
    BY <1>2, <1>4, <2>1 DEF IInv, StageInv, ReadBlock
  <2>9. TransferInv'
    BY <1>2, <1>4, <2>1, <2>2, MemoryAssumption DEF IInv, TransferInv, ReadBlock
  <2>10. ControlInv'
    BY <1>2, <1>4 DEF IInv, ControlInv, ReadBlock
  <2>11. QED
    BY <2>7, <2>8, <2>9, <2>10 DEF IInv
<1>5. CASE part # "kernel"
  <2>1. /\ got = 0 /\ got' = got + 1 /\ pc' = "poll_done" /\ dram' = dram
        /\ scratch' = [scratch EXCEPT ![part] = Stored(part, b)]
    BY <1>5 DEF IInv, TransferInv, ReadBlock, StoreBlock, StoreFaults, TotalBytes
  <2>2. scratch' \in ScratchType
    <3>1. part \in {"manifest", "signature", "public_key"} /\ scratch \in ScratchType
      BY <1>5 DEF IInv, TypeOK
    <3>2. QED
      BY <1>1, <2>1, <3>1, StoredType DEF ScratchType
  <2>3. TypeOK'
    BY <1>1, <2>1, <2>2, MemoryAssumption, NumbersAssumption DEF IInv, TypeOK, ReadBlock
  <2>4. StageInv' /\ TransferInv'
    BY <1>2, <1>5, <2>1 DEF IInv, StageInv, TransferInv, ReadBlock
  <2>5. ControlInv'
    BY <1>5, <2>1 DEF IInv, ControlInv, ReadBlock, StoreFaults
  <2>6. QED
    BY <2>3, <2>4, <2>5 DEF IInv
<1>6. QED
  BY <1>3, <1>4, <1>5

LEMMA ReadDoneKeeps == ASSUME IInv, ReadDone PROVE IInv'
<1>1. /\ pc' \in {"start_flash_read", "check_manifest_header", "hash_kernel"}
      /\ pc' = "hash_kernel" <=> part = "kernel"
      /\ part' \in FlashParts /\ (part' = "kernel" <=> part = "kernel")
  BY DEF IInv, TypeOK, ReadDone, AfterRead, NextPart
<1>2. TypeOK'
  BY <1>1 DEF IInv, TypeOK, ReadDone
<1>3. StageInv'
  <2>1. CASE part = "kernel"
    <3>1. scratch.manifest \in Manifests /\ LoadParamsOk(scratch.manifest)
      BY <2>1, TransferSize DEF ReadDone
    <3>2. scratch.manifest.load_address + scratch.manifest.payload_size <= DramTop
      BY <2>1, <3>1 DEF IInv, TransferInv, ReadDone, LoadParamsOk
    <3>3. QED
      BY <1>1, <2>1, <3>1, <3>2 DEF IInv, StageInv, ReadDone
  <2>2. CASE part # "kernel"
    BY <1>1, <2>2 DEF IInv, StageInv, ReadDone
  <2>3. QED
    BY <2>1, <2>2
<1>4. TransferInv'
  BY <1>1 DEF IInv, TransferInv, ReadDone
<1>5. ControlInv'
  BY <1>1 DEF IInv, ControlInv, ReadDone
<1>6. QED
  BY <1>2, <1>3, <1>4, <1>5 DEF IInv

LEMMA FlashNotReadyKeeps == ASSUME IInv, FlashNotReady PROVE IInv'
<1>1. TypeOK'
  BY NumbersAssumption DEF IInv, TypeOK, FlashNotReady, SpinOrFail
<1>2. StageInv'
  BY DEF IInv, StageInv, FlashNotReady, SpinOrFail
<1>3. TransferInv'
  BY DEF IInv, TransferInv, FlashNotReady, SpinOrFail
<1>4. ControlInv'
  BY DEF IInv, ControlInv, FlashNotReady, SpinOrFail
<1>5. QED
  BY <1>1, <1>2, <1>3, <1>4 DEF IInv

(* -------- the stages -------- *)

LEMMA CheckManifestHeaderKeeps == ASSUME IInv, CheckManifestHeader PROVE IInv'
<1>1. TypeOK'
  BY DEF IInv, TypeOK, CheckManifestHeader
<1>2. StageInv'
  BY DEF IInv, StageInv, CheckManifestHeader, HeaderOk
<1>3. TransferInv'
  BY DEF IInv, TransferInv, CheckManifestHeader
<1>4. ControlInv'
  BY DEF IInv, ControlInv, CheckManifestHeader
<1>5. QED
  BY <1>1, <1>2, <1>3, <1>4 DEF IInv

LEMMA CheckPublicKeyKeeps == ASSUME IInv, CheckPublicKey PROVE IInv'
<1>1. scratch \in ScratchType
  BY DEF IInv, TypeOK
<1>2. scratch'.manifest = scratch.manifest /\ scratch'.public_key = scratch.public_key
  BY <1>1 DEF CheckPublicKey, ScratchType
<1>3. scratch' \in ScratchType
  BY <1>1, DigestOfKey DEF CheckPublicKey, ScratchType
<1>4. TypeOK'
  BY <1>3 DEF IInv, TypeOK, CheckPublicKey
<1>5. StageInv'
  <2>1. scratch.manifest \in Manifests /\ HeaderOk(scratch.manifest)
    BY DEF IInv, StageInv, CheckPublicKey
  <2>2. KeyTrusted(scratch.public_key) => scratch.public_key \in PublicKeys
    BY <1>1, TrustedKeyIsKey DEF ScratchType
  <2>3. QED
    BY <1>2, <2>1, <2>2 DEF StageInv, CheckPublicKey
<1>6. TransferInv'
  BY DEF IInv, TransferInv, CheckPublicKey
<1>7. ControlInv'
  BY DEF IInv, ControlInv, CheckPublicKey
<1>8. QED
  BY <1>4, <1>5, <1>6, <1>7 DEF IInv

LEMMA StreamEd25519Keeps == ASSUME IInv, StreamEd25519 PROVE IInv'
<1>1. TypeOK'
  BY NumbersAssumption DEF IInv, TypeOK, StreamEd25519
<1>2. StageInv'
  BY DEF IInv, StageInv, StreamEd25519
<1>3. TransferInv' /\ ControlInv'
  BY DEF IInv, TransferInv, ControlInv, StreamEd25519
<1>4. QED
  BY <1>1, <1>2, <1>3 DEF IInv

LEMMA SignaturePassesKeeps == ASSUME IInv, SignaturePasses PROVE IInv'
<1>1. TypeOK'
  BY DEF IInv, TypeOK, SignaturePasses
<1>2. Authentic(scratch.manifest)
  BY StagesMakeAuthentic DEF IInv, TypeOK, ScratchType, StageInv, SignaturePasses
<1>3. StageInv'
  BY <1>2 DEF IInv, StageInv, SignaturePasses
<1>4. TransferInv' /\ ControlInv'
  BY DEF IInv, TransferInv, ControlInv, SignaturePasses
<1>5. QED
  BY <1>1, <1>3, <1>4 DEF IInv

LEMMA SignatureErrorKeeps == ASSUME IInv, SignatureError PROVE IInv'
<1>1. TypeOK'
  BY DEF IInv, TypeOK, SignatureError
<1>2. StageInv'
  BY DEF IInv, StageInv, SignatureError
<1>3. TransferInv' /\ ControlInv'
  BY DEF IInv, TransferInv, ControlInv, SignatureError
<1>4. QED
  BY <1>1, <1>2, <1>3 DEF IInv

LEMMA SignatureNotReadyKeeps == ASSUME IInv, SignatureNotReady PROVE IInv'
<1>1. TypeOK'
  BY NumbersAssumption DEF IInv, TypeOK, SignatureNotReady, SpinOrFail
<1>2. StageInv'
  BY DEF IInv, StageInv, SignatureNotReady, SpinOrFail
<1>3. TransferInv' /\ ControlInv'
  BY DEF IInv, TransferInv, ControlInv, SignatureNotReady, SpinOrFail
<1>4. QED
  BY <1>1, <1>2, <1>3 DEF IInv

LEMMA CheckLoadParamsKeeps == ASSUME IInv, CheckLoadParams PROVE IInv'
<1>1. TypeOK'
  BY DEF IInv, TypeOK, CheckLoadParams
<1>2. StageInv'
  BY DEF IInv, StageInv, CheckLoadParams
<1>3. TransferInv' /\ ControlInv'
  BY DEF IInv, TransferInv, ControlInv, CheckLoadParams
<1>4. QED
  BY <1>1, <1>2, <1>3 DEF IInv

LEMMA HashKernelKeeps == ASSUME IInv, HashKernel PROVE IInv'
<1>1. scratch \in ScratchType
  BY DEF IInv, TypeOK
<1>2. scratch'.manifest = scratch.manifest /\ scratch'.public_key = scratch.public_key
  BY <1>1 DEF HashKernel, ScratchType
<1>3. LoadedHash(scratch.manifest, dram) \in Digests
  BY LoadedHashType DEF IInv, TypeOK, StageInv, HashKernel
<1>4. scratch' \in ScratchType
  BY <1>1, <1>3 DEF HashKernel, ScratchType
<1>5. TypeOK'
  BY <1>4 DEF IInv, TypeOK, HashKernel
<1>6. PayloadOk(scratch.manifest, dram) => Installed(scratch.manifest)
  BY DEF IInv, StageInv, HashKernel, PayloadOk, Installed
<1>7. Installed(scratch.manifest)' = Installed(scratch.manifest)
  BY <1>2, InstalledFrame DEF HashKernel
<1>8. StageInv'
  BY <1>2, <1>6, <1>7 DEF IInv, StageInv, HashKernel
<1>9. TransferInv' /\ ControlInv'
  BY DEF IInv, TransferInv, ControlInv, HashKernel
<1>10. QED
  BY <1>5, <1>8, <1>9 DEF IInv

LEMMA CheckRollbackCounterKeeps == ASSUME IInv, CheckRollbackCounter PROVE IInv'
<1>1. scratch.manifest \in Releases /\ Installed(scratch.manifest)
  BY InstalledRelease DEF CheckRollbackCounter
<1>2. scratch.manifest.version \in Nat /\ counter \in Nat
  BY <1>1, ManifestFields DEF Releases, IInv, TypeOK
<1>3. Installed(scratch.manifest)' = Installed(scratch.manifest)
  BY InstalledFrame DEF CheckRollbackCounter
<1>4. TypeOK'
  BY <1>2 DEF IInv, TypeOK, CheckRollbackCounter, CounterWrite
<1>5. pc' = "clear_scratch" => SomeRelease'
  <2> SUFFICES ASSUME pc' = "clear_scratch" PROVE SomeRelease'
    OBVIOUS
  <2>1. scratch.manifest.version = counter /\ counter' = counter /\ UNCHANGED memory
    BY DEF CheckRollbackCounter
  <2>2. SomeRelease
    BY <1>1, <1>2, <2>1 DEF SomeRelease
  <2>3. QED
    BY <1>2, <2>1, <2>2, ReleaseFrame
<1>6. pc' = "read_back_counter" => scratch'.manifest.version = counter'
  BY <1>2 DEF CheckRollbackCounter, CounterWrite
<1>7. StageInv'
  BY <1>1, <1>3, <1>5, <1>6 DEF IInv, StageInv, CheckRollbackCounter
<1>8. TransferInv' /\ ControlInv'
  BY DEF IInv, TransferInv, ControlInv, CheckRollbackCounter
<1>9. QED
  BY <1>4, <1>7, <1>8 DEF IInv

LEMMA ReadBackCounterKeeps == ASSUME IInv, ReadBackCounter PROVE IInv'
<1>1. scratch.manifest \in Releases /\ Installed(scratch.manifest)
  BY InstalledRelease DEF ReadBackCounter
<1>2. scratch.manifest.version = counter /\ counter \in Nat
  BY DEF IInv, StageInv, TypeOK, ReadBackCounter
<1>3. SomeRelease'
  <2>1. SomeRelease
    BY <1>1, <1>2 DEF SomeRelease
  <2>2. QED
    BY <1>2, <2>1, ReleaseFrame DEF ReadBackCounter
<1>4. TypeOK'
  BY DEF IInv, TypeOK, ReadBackCounter
<1>5. StageInv'
  BY <1>3 DEF IInv, StageInv, ReadBackCounter
<1>6. TransferInv' /\ ControlInv'
  BY DEF IInv, TransferInv, ControlInv, ReadBackCounter
<1>7. QED
  BY <1>4, <1>5, <1>6 DEF IInv

LEMMA ClearScratchKeeps == ASSUME IInv, ClearScratch PROVE IInv'
<1>1. TypeOK'
  BY DEF IInv, TypeOK, ClearScratch, Cleared, ScratchType
<1>2. SomeRelease'
  BY ReleaseFrame DEF IInv, TypeOK, StageInv, ClearScratch
<1>3. StageInv'
  BY <1>2 DEF IInv, StageInv, ClearScratch
<1>4. TransferInv' /\ ControlInv'
  BY DEF IInv, TransferInv, ControlInv, ClearScratch
<1>5. QED
  BY <1>1, <1>3, <1>4 DEF IInv

(* -------- start-up -------- *)

LEMMA MsipInterruptKeeps == ASSUME IInv, MsipInterrupt PROVE IInv'
<1>1. TypeOK'
  BY DEF IInv, TypeOK, MsipInterrupt, ControlInv
<1>2. StageInv'
  BY DEF IInv, StageInv, ControlInv, MsipInterrupt
<1>3. TransferInv' /\ ControlInv'
  BY DEF IInv, TransferInv, ControlInv, MsipInterrupt
<1>4. QED
  BY <1>1, <1>2, <1>3 DEF IInv

LEMMA StartKeeps == ASSUME IInv, Start PROVE IInv'
<1>1. TypeOK'
  BY DEF IInv, TypeOK, Start
<1>2. StageInv'
  BY DEF IInv, StageInv, ControlInv, Start
<1>3. TransferInv' /\ ControlInv'
  BY DEF IInv, TransferInv, ControlInv, Start
<1>4. QED
  BY <1>1, <1>2, <1>3 DEF IInv

(* -------- lock_pmp and the handoff -------- *)

LEMMA LockSetStatusKeeps == ASSUME IInv, LockSetStatus PROVE IInv'
<1>1. TypeOK'
  BY DEF IInv, TypeOK, LockSetStatus
<1>2. StageInv'
  BY ReleaseFrame DEF IInv, TypeOK, StageInv, LockSetStatus
<1>3. TransferInv' /\ ControlInv'
  BY DEF IInv, TransferInv, ControlInv, LockSetStatus
<1>4. QED
  BY <1>1, <1>2, <1>3 DEF IInv

LEMMA LockArmMtvecKeeps == ASSUME IInv, LockArmMtvec PROVE IInv'
<1>1. TypeOK'
  BY DEF IInv, TypeOK, LockArmMtvec
<1>2. StageInv'
  BY ReleaseFrame DEF IInv, TypeOK, StageInv, LockArmMtvec
<1>3. TransferInv' /\ ControlInv'
  BY DEF IInv, TransferInv, ControlInv, LockArmMtvec
<1>4. QED
  BY <1>1, <1>2, <1>3 DEF IInv

LEMMA LockPmpKeeps == ASSUME IInv, LockPmp PROVE IInv'
<1>1. pmp' \in [pmpaddr : BOOLEAN, pmpcfg2 : BOOLEAN, pmpcfg0 : BOOLEAN]
  BY DEF IInv, TypeOK, LockPmp, WritePmp
<1>2. TypeOK'
  BY <1>1, ZenonT(60) DEF IInv, TypeOK, LockPmp, WritePmp
<1>3. StageInv'
  BY ReleaseFrame DEF IInv, TypeOK, StageInv, LockPmp, WritePmp
<1>4. TransferInv'
  BY DEF IInv, TransferInv, LockPmp, WritePmp
<1>5. ControlInv'
  <2>1. CASE pc = "lock_pmpaddr"
    <3>1. pmp' = [PmpReset EXCEPT !.pmpaddr = TRUE] /\ pc' = "lock_pmpcfg2"
      <4>1. pmp = PmpReset /\ ~pmp.pmpcfg0
        BY <2>1 DEF IInv, ControlInv, PmpReset
      <4>2. QED
        BY <2>1, <4>1 DEF LockPmp, WritePmp
    <3>2. QED
      BY <2>1, <3>1 DEF IInv, ControlInv, LockPmp, WritePmp
  <2>2. CASE pc = "lock_pmpcfg2"
    <3>1. /\ pmp' = [pmpaddr |-> TRUE, pmpcfg2 |-> TRUE, pmpcfg0 |-> FALSE]
          /\ pc' = "lock_pmpcfg0"
      <4>1. pmp = [PmpReset EXCEPT !.pmpaddr = TRUE]
        BY <2>2 DEF IInv, ControlInv
      <4>2. ~pmp.pmpcfg0 /\ pmp = [pmpaddr |-> TRUE, pmpcfg2 |-> FALSE, pmpcfg0 |-> FALSE]
        BY <4>1 DEF PmpReset
      <4>3. pmp' = [pmp EXCEPT !["pmpcfg2"] = TRUE] /\ pc' = "lock_pmpcfg0"
        BY <2>2, <4>2 DEF LockPmp, WritePmp
      <4>4. pmp' = [pmpaddr |-> TRUE, pmpcfg2 |-> TRUE, pmpcfg0 |-> FALSE]
        BY <4>2, <4>3
      <4>5. QED
        BY <4>3, <4>4
    <3>2. QED
      BY <2>2, <3>1 DEF IInv, ControlInv, LockPmp, WritePmp
  <2>3. CASE pc = "lock_pmpcfg0"
    <3>1. pmp' = PmpLocked /\ pc' = "unlock_sr"
      BY <2>3 DEF IInv, ControlInv, LockPmp, WritePmp, PmpLocked
    <3>2. QED
      BY <2>3, <3>1 DEF IInv, ControlInv, LockPmp, WritePmp
  <2>4. QED
    BY <2>1, <2>2, <2>3 DEF LockPmp, WritePmp
<1>6. QED
  BY <1>2, <1>3, <1>4, <1>5 DEF IInv

LEMMA LockClearStatusKeeps == ASSUME IInv, LockClearStatus PROVE IInv'
<1>1. TypeOK'
  BY DEF IInv, TypeOK, LockClearStatus
<1>2. StageInv'
  BY ReleaseFrame DEF IInv, TypeOK, StageInv, LockClearStatus
<1>3. TransferInv' /\ ControlInv'
  BY DEF IInv, TransferInv, ControlInv, LockClearStatus
<1>4. QED
  BY <1>1, <1>2, <1>3 DEF IInv

LEMMA JumpToKernelKeeps == ASSUME IInv, JumpToKernel PROVE IInv'
<1>1. TypeOK'
  BY DEF IInv, TypeOK, JumpToKernel, EntryPoint
<1>2. StageInv'
  BY ReleaseFrame DEF IInv, TypeOK, StageInv, JumpToKernel
<1>3. TransferInv' /\ ControlInv'
  BY DEF IInv, TransferInv, ControlInv, JumpToKernel
<1>4. QED
  BY <1>1, <1>2, <1>3 DEF IInv

(* -------- recovery -------- *)

LEMMA SetStatusKeeps == ASSUME IInv, SetStatus PROVE IInv'
<1>1. TypeOK'
  BY DEF IInv, TypeOK, SetStatus, ControlInv
<1>2. StageInv'
  BY DEF IInv, StageInv, ControlInv, SetStatus
<1>3. TransferInv' /\ ControlInv'
  BY DEF IInv, TransferInv, ControlInv, SetStatus
<1>4. QED
  BY <1>1, <1>2, <1>3 DEF IInv

LEMMA ArmTrapExitKeeps == ASSUME IInv, ArmTrapExit PROVE IInv'
<1>1. TypeOK'
  BY DEF IInv, TypeOK, ArmTrapExit
<1>2. StageInv'
  BY DEF IInv, StageInv, ControlInv, ArmTrapExit
<1>3. TransferInv' /\ ControlInv'
  BY DEF IInv, TransferInv, ControlInv, ArmTrapExit
<1>4. QED
  BY <1>1, <1>2, <1>3 DEF IInv

LEMMA MretRecoveryKeeps == ASSUME IInv, MretRecovery PROVE IInv'
<1>1. TypeOK'
  BY DEF IInv, TypeOK, MretRecovery
<1>2. StageInv'
  BY DEF IInv, StageInv, ControlInv, MretRecovery
<1>3. TransferInv' /\ ControlInv'
  BY DEF IInv, TransferInv, ControlInv, MretRecovery
<1>4. QED
  BY <1>1, <1>2, <1>3 DEF IInv

LEMMA RecoveryFetchKeeps == ASSUME IInv, RecoveryFetch PROVE IInv'
<1>1. TypeOK'
  BY DEF IInv, TypeOK, RecoveryFetch, ControlInv
<1>2. StageInv'
  BY DEF IInv, StageInv, ControlInv, RecoveryFetch
<1>3. TransferInv' /\ ControlInv'
  BY DEF IInv, TransferInv, ControlInv, RecoveryFetch
<1>4. QED
  BY <1>1, <1>2, <1>3 DEF IInv

LEMMA RecoveryMainKeeps == ASSUME IInv, RecoveryMain PROVE IInv'
<1>1. TypeOK'
  BY DEF IInv, TypeOK, RecoveryMain
<1>2. StageInv'
  BY DEF IInv, StageInv, ControlInv, RecoveryMain
<1>3. TransferInv' /\ ControlInv'
  BY DEF IInv, TransferInv, ControlInv, RecoveryMain
<1>4. QED
  BY <1>1, <1>2, <1>3 DEF IInv

(* -------- the kernel and the surroundings -------- *)

LEMMA KernelSetsMtvecKeeps == ASSUME IInv, KernelSetsMtvec PROVE IInv'
<1>1. TypeOK'
  BY DEF IInv, TypeOK, KernelSetsMtvec
<1>2. StageInv'
  BY ReleaseFrame DEF IInv, TypeOK, StageInv, KernelSetsMtvec
<1>3. TransferInv' /\ ControlInv'
  BY DEF IInv, TransferInv, ControlInv, KernelSetsMtvec
<1>4. QED
  BY <1>1, <1>2, <1>3 DEF IInv

LEMMA KernelWritesCounterKeeps ==
  ASSUME IInv, NEW man \in Manifests, KernelWritesCounter(man.version)
  PROVE  IInv'
<1>1. pmp = PmpLocked /\ ~MayAccess("counter", "W")
  BY DEF KernelWritesCounter, IInv, ControlInv, PmpLocked, MayAccess
<1>2. /\ counter' = counter /\ pc' = mtvec
      /\ UNCHANGED <<mtvec, mepc, reason, reading, memory, link, sr, pmp, report>>
  BY <1>1 DEF KernelWritesCounter
<1>3. pc = "kernel" /\ pc' \in {"recovery_entry", "kernel"}
  BY <1>2 DEF KernelWritesCounter, IInv, ControlInv
<1>4. TypeOK'
  BY <1>2, <1>3 DEF IInv, TypeOK
<1>5. StageInv'
  <2>1. SomeRelease /\ scratch = Cleared
    BY <1>3 DEF IInv, StageInv
  <2>2. SomeRelease'
    BY <2>1, <1>2, <1>4, ReleaseFrame DEF IInv, TypeOK
  <2>3. QED
    BY <1>2, <1>3, <2>1, <2>2 DEF StageInv
<1>6. TransferInv' /\ ControlInv'
  BY <1>1, <1>2, <1>3 DEF IInv, TransferInv, ControlInv
<1>7. QED
  BY <1>4, <1>5, <1>6 DEF IInv

LEMMA KernelClearsPmpKeeps == ASSUME IInv, KernelClearsPmp PROVE IInv'
<1>1. pmp' = pmp
  BY DEF KernelClearsPmp, IInv, ControlInv, PmpLocked
<1>2. TypeOK'
  BY <1>1 DEF IInv, TypeOK, KernelClearsPmp
<1>3. StageInv'
  BY <1>2, ReleaseFrame DEF IInv, TypeOK, StageInv, KernelClearsPmp
<1>4. TransferInv' /\ ControlInv'
  BY <1>1 DEF IInv, TransferInv, ControlInv, KernelClearsPmp
<1>5. QED
  BY <1>2, <1>3, <1>4 DEF IInv

LEMMA ReflashKeeps == ASSUME IInv, Reflash PROVE IInv'
<1>1. TypeOK'
  BY DEF IInv, TypeOK, Reflash
<1>2. SomeRelease' = SomeRelease /\ Installed(scratch.manifest)' = Installed(scratch.manifest)
  BY DEF Reflash, SomeRelease, Installed, LoadedHash
<1>3. StageInv'
  BY <1>2 DEF IInv, StageInv, Reflash
<1>4. TransferInv' /\ ControlInv'
  BY DEF IInv, TransferInv, ControlInv, Reflash
<1>5. QED
  BY <1>1, <1>3, <1>4 DEF IInv

LEMMA UnexpectedFaultKeeps == ASSUME IInv, UnexpectedFault PROVE IInv'
<1>1. TypeOK'
  BY DEF IInv, TypeOK, UnexpectedFault, ControlInv
<1>2. StageInv'
  BY DEF IInv, StageInv, ControlInv, UnexpectedFault
<1>3. TransferInv' /\ ControlInv'
  BY DEF IInv, TransferInv, ControlInv, UnexpectedFault
<1>4. QED
  BY <1>1, <1>2, <1>3 DEF IInv

LEMMA ResetKeeps == ASSUME IInv, Reset PROVE IInv'
<1>1. spi' \in SpiType
  BY MemoryAssumption DEF Reset, SpiReset, SpiType
<1>2. fifo' \in Seq(FlashWords) /\ Len(fifo') <= FifoDepth
  BY NumbersAssumption, EmptySeq DEF Reset
<1>3. TypeOK'
  BY <1>1, <1>2, NumbersAssumption DEF IInv, TypeOK, Reset, PmpReset
<1>4. StageInv'
  BY DEF StageInv, Reset
<1>5. TransferInv' /\ ControlInv'
  BY DEF TransferInv, ControlInv, Reset, SpiReset
<1>6. QED
  BY <1>3, <1>4, <1>5 DEF IInv

(* -------- IInv is inductive -------- *)

LEMMA BootStepKeeps == ASSUME IInv, BootStep PROVE IInv'
BY MsipInterruptKeeps, StartKeeps, StartFlashReadKeeps, ReadBlockKeeps, ReadDoneKeeps,
   FlashNotReadyKeeps, CheckManifestHeaderKeeps, CheckPublicKeyKeeps,
   StreamEd25519Keeps, SignaturePassesKeeps, SignatureErrorKeeps,
   SignatureNotReadyKeeps, CheckLoadParamsKeeps, HashKernelKeeps,
   CheckRollbackCounterKeeps, ReadBackCounterKeeps, ClearScratchKeeps,
   LockSetStatusKeeps, LockArmMtvecKeeps, LockPmpKeeps, LockClearStatusKeeps,
   JumpToKernelKeeps, SetStatusKeeps, ArmTrapExitKeeps, MretRecoveryKeeps,
   RecoveryFetchKeeps, RecoveryMainKeeps
DEF BootStep

LEMMA KernelStepKeeps == ASSUME IInv, KernelStep PROVE IInv'
BY KernelSetsMtvecKeeps, KernelClearsPmpKeeps, KernelWritesCounterKeeps DEF KernelStep

LEMMA NextIInv == ASSUME IInv, [Next]_vars PROVE IInv'
BY BootStepKeeps, KernelStepKeeps, SpiDeliverKeeps, SpiFinishKeeps, ReflashKeeps,
   UnexpectedFaultKeeps, ResetKeeps, StutterKeeps
DEF Next, SpiStep

\* The inductive invariant holds in every reachable state.
THEOREM Invariance == Spec => []IInv
<1>1. Init => IInv
  BY InitIInv
<1>2. IInv /\ [Next]_vars => IInv'
  BY NextIInv
<1>3. QED
  BY <1>1, <1>2, PTL DEF Spec

(* -------- the safety theorems -------- *)

\* Every variable keeps its type: no transfer leaves its buffer or DRAM, the poll
\* counter stays below MAX_SPIN and the FIFO within its depth.
THEOREM TypeCorrect == Spec => []TypeOK
<1>1. IInv => TypeOK
  BY DEF IInv
<1>2. QED
  BY Invariance, <1>1, PTL

\* Whatever the flash holds at any moment, the kernel that is entered lies in
\* memory under a signed manifest of the version the counter shows.
THEOREM HandoffIsVerified == Spec => []HandoffVerified
<1>1. IInv => HandoffVerified
  BY DEF IInv, StageInv, SomeRelease, HandoffVerified
<1>2. QED
  BY Invariance, <1>1, PTL

\* The kernel finds cleared buffers, a locked PMP and a trap vector outside the ROM.
THEOREM HandoffIsClean == Spec => []HandoffHygiene
<1>1. IInv => HandoffHygiene
  BY DEF IInv, StageInv, ControlInv, HandoffHygiene
<1>2. QED
  BY Invariance, <1>1, PTL

\* The rollback counter moves only at reset or to the version of the signed,
\* loaded and checked image.
THEOREM CounterAdvances == Spec => CounterAdvancesVerified
<1> DEFINE Advance ==
      counter' # counter =>
        \/ pc' = "_hang"
        \/ /\ scratch.manifest \in Releases
           /\ Installed(scratch.manifest)
           /\ counter < counter' /\ counter' = scratch.manifest.version
<1>1. ASSUME IInv, [Next]_vars PROVE [Advance]_vars
  <2>1. CASE CheckRollbackCounter
    BY <1>1, <2>1, InstalledRelease DEF CheckRollbackCounter, CounterWrite
  <2>2. CASE KernelStep
    <3>1. counter' = counter
      BY <1>1, <2>2 DEF IInv, ControlInv, KernelStep, KernelSetsMtvec, KernelClearsPmp,
         KernelWritesCounter, MayAccess, PmpLocked
    <3>2. QED
      BY <3>1
  <2>3. CASE Reset
    BY <2>3 DEF Reset
  <2>4. CASE SpiStep \/ Reflash \/ UnexpectedFault \/ UNCHANGED vars
    BY <2>4 DEF SpiStep, SpiDeliver, SpiFinish, Reflash, UnexpectedFault, vars
  <2>5. CASE BootStep /\ ~CheckRollbackCounter
    BY <2>5 DEF BootStep, MsipInterrupt, Start, StartFlashRead, ReadBlock, ReadDone,
       FlashNotReady, CheckManifestHeader, CheckPublicKey, StreamEd25519, SignaturePasses,
       SignatureError, SignatureNotReady, CheckLoadParams, HashKernel, ReadBackCounter,
       ClearScratch, LockSetStatus, LockArmMtvec, LockPmp, WritePmp, LockClearStatus,
       JumpToKernel, SetStatus, ArmTrapExit, MretRecovery, RecoveryFetch, RecoveryMain
  <2>6. QED
    BY <1>1, <2>1, <2>2, <2>3, <2>4, <2>5 DEF Next
<1>2. QED
  BY <1>1, Invariance, PTL DEF Spec, CounterAdvancesVerified

\* Nothing the kernel does reaches the counter or the PMP.
THEOREM KernelIsConfined == Spec => KernelConfined
<1>1. ASSUME IInv, [Next]_vars
      PROVE  [(pc = "kernel" /\ pc' # "_hang") => UNCHANGED <<counter, pmp>>]_vars
  <2> SUFFICES ASSUME pc = "kernel", pc' # "_hang", Next
               PROVE  UNCHANGED <<counter, pmp>>
    BY <1>1
  <2>1. CASE KernelStep
    BY <1>1, <2>1 DEF IInv, ControlInv, KernelStep, KernelSetsMtvec, KernelClearsPmp,
       KernelWritesCounter, MayAccess, PmpLocked
  <2>2. CASE SpiStep \/ Reflash
    BY <2>2 DEF SpiStep, SpiDeliver, SpiFinish, Reflash
  <2>3. ~BootStep /\ ~UnexpectedFault /\ ~Reset
    BY <1>1 DEF BootStep, MsipInterrupt, Start, StartFlashRead, ReadBlock, ReadDone,
       FlashNotReady, CheckManifestHeader, CheckPublicKey, StreamEd25519, SignaturePasses,
       SignatureError, SignatureNotReady, CheckLoadParams, HashKernel, CheckRollbackCounter,
       ReadBackCounter, ClearScratch, LockSetStatus, LockArmMtvec, LockPmp, WritePmp,
       LockClearStatus, JumpToKernel, SetStatus, ArmTrapExit, MretRecovery, RecoveryFetch,
       RecoveryMain, UnexpectedFault, Reset
  <2>4. QED
    BY <2>1, <2>2, <2>3 DEF Next
<1>2. QED
  BY <1>1, Invariance, PTL DEF Spec, KernelConfined

(* -------- the status register -------- *)

\* StatusInv is inductive beside IInv.
LEMMA StatusKeeps == ASSUME IInv, StatusInv, [Next]_vars PROVE StatusInv'
<1> USE DEF StatusInv, CauseRecorded, PartialLockReported
<1>1. CASE SetStatus \/ ArmTrapExit \/ MretRecovery \/ RecoveryFetch \/ RecoveryMain
  BY <1>1 DEF IInv, ControlInv, SetStatus, ArmTrapExit, MretRecovery, RecoveryFetch,
     RecoveryMain
<1>2. CASE LockSetStatus \/ LockArmMtvec \/ LockPmp \/ LockClearStatus \/ JumpToKernel
  BY <1>2 DEF IInv, ControlInv, LockSetStatus, LockArmMtvec, LockPmp, WritePmp,
     LockClearStatus, JumpToKernel
<1>3. CASE MsipInterrupt \/ Start \/ StartFlashRead \/ ReadBlock \/ ReadDone \/ FlashNotReady
  BY <1>3 DEF IInv, ControlInv, MsipInterrupt, Start, StartFlashRead, ReadBlock, ReadDone,
     FlashNotReady, SpinOrFail, AfterRead, TypeOK
<1>4. CASE \/ CheckManifestHeader \/ CheckPublicKey \/ StreamEd25519 \/ SignaturePasses
           \/ SignatureError \/ SignatureNotReady \/ CheckLoadParams \/ HashKernel
           \/ CheckRollbackCounter \/ ReadBackCounter \/ ClearScratch
  BY <1>4 DEF IInv, ControlInv, CheckManifestHeader, CheckPublicKey, StreamEd25519,
     SignaturePasses, SignatureError, SignatureNotReady, SpinOrFail, CheckLoadParams,
     HashKernel, CheckRollbackCounter, ReadBackCounter, ClearScratch
<1>5. CASE KernelStep
  BY <1>5 DEF IInv, ControlInv, KernelStep, KernelSetsMtvec, KernelClearsPmp,
     KernelWritesCounter, MayAccess, PmpLocked
<1>6. CASE SpiStep \/ Reflash \/ UnexpectedFault \/ Reset \/ UNCHANGED vars
  BY <1>6 DEF IInv, ControlInv, SpiStep, SpiDeliver, SpiFinish, Reflash, UnexpectedFault,
     Reset, vars
<1>7. QED
  BY <1>1, <1>2, <1>3, <1>4, <1>5, <1>6 DEF Next, BootStep

\* The status register tells the truth in every reachable state.
THEOREM StatusInvariance == Spec => []StatusInv
<1>1. Init => StatusInv
  BY DEF Init, StatusInv, CauseRecorded, PartialLockReported
<1>2. IInv /\ IInv' /\ StatusInv /\ [Next]_vars => StatusInv'
  BY StatusKeeps
<1>3. QED
  BY <1>1, <1>2, Invariance, PTL DEF Spec

\* The failing stage is recorded before enter_recovery arms its way out of the ROM,
\* whatever faults came before.
THEOREM CauseIsRecorded == Spec => []CauseRecorded
<1>1. StatusInv => CauseRecorded
  BY DEF StatusInv
<1>2. QED
  BY StatusInvariance, <1>1, PTL

\* Recovery that runs with a PMP only partly locked finds SR_LOCK_PMP set.
THEOREM PartialLockIsReported == Spec => []PartialLockReported
<1>1. StatusInv => PartialLockReported
  BY DEF StatusInv
<1>2. QED
  BY StatusInvariance, <1>1, PTL

(* -------- boots without unexpected faults -------- *)

\* FaultFreeInv is inductive beside IInv where no instruction traps by itself; resets
\* and the traps of full transfers, recovery and kernel are allowed.
LEMMA FaultFreeKeeps ==
  ASSUME ~FaultsEnabled, IInv, FaultFreeInv, [Next]_vars
  PROVE  FaultFreeInv'
<1> USE DEF FaultFreeInv, Reported, ReportExact
<1>1. CASE SetStatus \/ ArmTrapExit \/ MretRecovery \/ RecoveryFetch \/ RecoveryMain
  <2>1. CASE SetStatus
    BY <2>1 DEF IInv, ControlInv, SetStatus
  <2>2. CASE ArmTrapExit \/ MretRecovery \/ RecoveryMain
    BY <2>2 DEF ArmTrapExit, MretRecovery, RecoveryMain
  <2>3. CASE RecoveryFetch
    BY <2>3 DEF IInv, ControlInv, RecoveryFetch
  <2>4. QED
    BY <1>1, <2>1, <2>2, <2>3
<1>2. CASE LockSetStatus \/ LockArmMtvec \/ LockPmp \/ LockClearStatus \/ JumpToKernel
  BY <1>2 DEF LockSetStatus, LockArmMtvec, LockPmp, WritePmp, LockClearStatus, JumpToKernel
<1>3. CASE MsipInterrupt \/ Start \/ StartFlashRead \/ ReadBlock \/ ReadDone \/ FlashNotReady
  BY <1>3 DEF IInv, ControlInv, MsipInterrupt, Start, StartFlashRead, ReadBlock, ReadDone,
     FlashNotReady, SpinOrFail, AfterRead, TypeOK
<1>4. CASE \/ CheckManifestHeader \/ CheckPublicKey \/ StreamEd25519 \/ SignaturePasses
           \/ SignatureError \/ SignatureNotReady \/ CheckLoadParams \/ HashKernel
           \/ CheckRollbackCounter \/ ReadBackCounter \/ ClearScratch
  BY <1>4 DEF CheckManifestHeader, CheckPublicKey, StreamEd25519, SignaturePasses,
     SignatureError, SignatureNotReady, SpinOrFail, CheckLoadParams, HashKernel,
     CheckRollbackCounter, ReadBackCounter, ClearScratch
<1>5. CASE KernelStep
  BY <1>5 DEF IInv, ControlInv, KernelStep, KernelSetsMtvec, KernelClearsPmp,
     KernelWritesCounter, MayAccess, PmpLocked
<1>6. CASE SpiStep \/ Reflash \/ UnexpectedFault \/ Reset \/ UNCHANGED vars
  BY <1>6 DEF SpiStep, SpiDeliver, SpiFinish, Reflash, UnexpectedFault, Reset, vars
<1>7. QED
  BY <1>1, <1>2, <1>3, <1>4, <1>5, <1>6 DEF Next, BootStep

LEMMA FaultFreeInvariance == ASSUME ~FaultsEnabled PROVE Spec => []FaultFreeInv
<1>1. Init => FaultFreeInv
  BY DEF Init, FaultFreeInv, ReportExact
<1>2. IInv /\ FaultFreeInv /\ [Next]_vars => FaultFreeInv'
  BY FaultFreeKeeps
<1>3. QED
  BY <1>1, <1>2, Invariance, PTL DEF Spec

\* Without unexpected faults a kernel that is entered sees no failure: lock_pmp has
\* withdrawn its tentative bit and nothing else was left.
THEOREM HandoffStatusIsClear == ASSUME ~FaultsEnabled PROVE Spec => []HandoffStatusClear
<1>1. FaultFreeInv => HandoffStatusClear
  BY DEF FaultFreeInv, HandoffStatusClear
<1>2. QED
  BY FaultFreeInvariance, <1>1, PTL

\* Without unexpected faults recovery prints exactly the stage that failed.
THEOREM ReportIsExact == ASSUME ~FaultsEnabled PROVE Spec => []ReportExact
<1>1. FaultFreeInv => ReportExact
  BY DEF FaultFreeInv
<1>2. QED
  BY FaultFreeInvariance, <1>1, PTL

\* No image in the flash loads past the end of DRAM: no transfer traps half-way.
ImagesFit ==
  \A man \in Manifests : LoadParamsOk(man) => man.load_address + man.payload_size <= DramTop

\* CleanInv is inductive beside IInv where no transfer is cut off by a trap.
LEMMA CleanKeeps ==
  ASSUME ~FaultsEnabled, ImagesFit, IInv, CleanInv, [Next]_vars
  PROVE  CleanInv'
<1> USE DEF CleanInv
<1>0. fifo \in Seq(FlashWords) /\ Len(fifo) \in Nat /\ spi \in SpiType /\ got \in Nat
  BY LenProperties DEF IInv, TypeOK
<1>1. CASE SetStatus \/ ArmTrapExit \/ MretRecovery \/ RecoveryFetch \/ RecoveryMain
  BY <1>1 DEF IInv, ControlInv, SetStatus, ArmTrapExit, MretRecovery, RecoveryFetch,
     RecoveryMain, TotalBytes
<1>2. CASE \/ LockSetStatus \/ LockArmMtvec \/ LockPmp \/ LockClearStatus \/ JumpToKernel
           \/ MsipInterrupt \/ Start
  BY <1>2 DEF IInv, ControlInv, LockSetStatus, LockArmMtvec, LockPmp, WritePmp,
     LockClearStatus, JumpToKernel, MsipInterrupt, Start, TotalBytes
<1>3. CASE StartFlashRead
  <2>1. TotalBytes(part) \in Nat
    BY <1>3, TransferSize, NumbersAssumption, MemoryAssumption DEF StartFlashRead
  <2>2. fifo = <<>> /\ Len(fifo) = 0
    BY <1>3 DEF StartFlashRead
  <2>3. QED
    BY <1>3, <2>1, <2>2 DEF StartFlashRead, TotalBytes
<1>4. CASE ReadBlock
  <2>1. Len(Tail(fifo)) = Len(fifo) - 1
    BY <1>0, <1>4, HeadTailProperties DEF ReadBlock
  <2>2. ~StoreFaults
    <3>1. part = "kernel" => scratch.manifest \in Manifests /\ LoadParamsOk(scratch.manifest)
      BY <1>4, TransferSize DEF ReadBlock
    <3>2. part = "kernel" => got < scratch.manifest.payload_size
      BY <1>4 DEF ReadBlock, IInv, TransferInv
    <3>3. QED
      BY <1>0, <3>1, <3>2, ManifestFields, MemoryAssumption DEF StoreFaults, ImagesFit
  <2>3. part' = part /\ TotalBytes(part)' = TotalBytes(part)
    BY <1>4, <2>2 DEF ReadBlock, StoreBlock, TotalBytes
  <2>4. QED
    BY <1>0, <1>4, <2>1, <2>2, <2>3 DEF ReadBlock, SpiType
<1>5. CASE ReadDone
  <2>1. Len(fifo) = 0 /\ spi.left = 0 /\ ~spi.busy
    BY <1>0, <1>5 DEF ReadDone, SpiType
  <2>2. fifo = <<>>
    BY <1>0, <2>1, EmptySeq
  <2>3. QED
    BY <1>5, <2>1, <2>2 DEF ReadDone, AfterRead, IInv, TypeOK
<1>6. CASE FlashNotReady
  BY <1>6 DEF FlashNotReady, SpinOrFail, TotalBytes
<1>7. CASE \/ CheckManifestHeader \/ CheckPublicKey \/ StreamEd25519 \/ SignaturePasses
           \/ SignatureError \/ SignatureNotReady \/ CheckLoadParams \/ HashKernel
           \/ CheckRollbackCounter \/ ReadBackCounter \/ ClearScratch
  BY <1>7 DEF CheckManifestHeader, CheckPublicKey, StreamEd25519, SignaturePasses,
     SignatureError, SignatureNotReady, SpinOrFail, CheckLoadParams, HashKernel,
     CheckRollbackCounter, ReadBackCounter, ClearScratch
<1>8. CASE KernelStep
  BY <1>8 DEF IInv, ControlInv, KernelStep, KernelSetsMtvec, KernelClearsPmp,
     KernelWritesCounter, MayAccess, PmpLocked
<1>9. CASE SpiDeliver
  <2>1. Len(fifo') = Len(fifo) + 1
    BY <1>0, <1>9, AppendProperties DEF SpiDeliver
  <2>2. QED
    BY <1>0, <1>9, <2>1 DEF SpiDeliver, SpiType, TotalBytes
<1>10. CASE SpiFinish
  BY <1>0, <1>10 DEF SpiFinish, SpiType, TotalBytes
<1>11. CASE Reflash \/ UnexpectedFault \/ Reset \/ UNCHANGED vars
  BY <1>11 DEF Reflash, UnexpectedFault, Reset, SpiReset, TotalBytes, vars
<1>12. QED
  BY <1>1, <1>2, <1>3, <1>4, <1>5, <1>6, <1>7, <1>8, <1>9, <1>10, <1>11
     DEF Next, BootStep, SpiStep

\* Without traps every transfer starts with an empty FIFO and an idle controller.
THEOREM TransfersAreClean ==
  ASSUME ~FaultsEnabled, ImagesFit PROVE Spec => []TransfersStartClean
<1>1. Init => CleanInv
  BY DEF Init, CleanInv, SpiReset
<1>2. IInv /\ CleanInv /\ [Next]_vars => CleanInv'
  BY CleanKeeps
<1>3. CleanInv => TransfersStartClean
  BY DEF CleanInv, TransfersStartClean
<1>4. QED
  BY <1>1, <1>2, <1>3, Invariance, PTL DEF Spec

(* -------- the abstract promise -------- *)

\* The map of the refinement.
LEMMA PromiseInit == ASSUME Init PROVE Promise!Init
BY DEF Init, Promise!Init, Phase

\* While memory is untouched the same releases are approved.
LEMMA ApprovedFrame ==
  ASSUME dram' = dram
  PROVE  {man \in Releases : Installed(man)}' = {man \in Releases : Installed(man)}
BY DEF Installed, LoadedHash

\* Every step of the boot chain is a step of the promise or invisible in it.
LEMMA PromiseStep == ASSUME IInv, [Next]_vars PROVE [Promise!Next]_(Promise!vars)
<1> USE DEF Phase, Promise!vars
<1>1. CASE ReadBlock
  BY <1>1 DEF IInv, ControlInv, ReadBlock, Promise!Next, Promise!Transfer
<1>2. CASE CheckRollbackCounter
  <2>1. scratch.manifest \in {man \in Releases : Installed(man)}
    BY <1>2, InstalledRelease DEF CheckRollbackCounter
  <2>2. UNCHANGED {man \in Releases : Installed(man)}
    BY <1>2, ApprovedFrame DEF CheckRollbackCounter
  <2>3. QED
    BY <1>2, <2>1, <2>2 DEF CheckRollbackCounter, CounterWrite, Promise!Next, Promise!Advance
<1>3. CASE JumpToKernel
  <2>1. SomeRelease
    BY <1>3 DEF IInv, StageInv, JumpToKernel
  <2>2. UNCHANGED {man \in Releases : Installed(man)}
    BY <1>3, ApprovedFrame DEF JumpToKernel
  <2>3. QED
    BY <1>3, <2>1, <2>2 DEF JumpToKernel, SomeRelease, Promise!Next, Promise!Handoff
<1>4. CASE MretRecovery
  BY <1>4, ApprovedFrame DEF MretRecovery, Promise!Next, Promise!Divert
<1>5. CASE RecoveryFetch \/ RecoveryMain
  BY <1>5, ApprovedFrame DEF IInv, ControlInv, RecoveryFetch, RecoveryMain
<1>6. CASE KernelStep
  BY <1>6, ApprovedFrame DEF IInv, ControlInv, KernelStep, KernelSetsMtvec, KernelClearsPmp,
     KernelWritesCounter, MayAccess, PmpLocked, Promise!Next, Promise!Divert
<1>7. CASE UnexpectedFault
  BY <1>7, ApprovedFrame DEF IInv, ControlInv, UnexpectedFault, Promise!Next, Promise!Divert
<1>8. CASE Reset
  BY <1>8, ApprovedFrame DEF Reset, Promise!Next, Promise!Reset
<1>9. CASE SpiStep \/ Reflash \/ UNCHANGED vars
  BY <1>9, ApprovedFrame DEF SpiStep, SpiDeliver, SpiFinish, Reflash, vars
<1>10. CASE \/ MsipInterrupt \/ Start \/ StartFlashRead \/ ReadDone \/ FlashNotReady
            \/ CheckManifestHeader \/ CheckPublicKey \/ StreamEd25519 \/ SignaturePasses
            \/ SignatureError \/ SignatureNotReady \/ CheckLoadParams \/ HashKernel
            \/ ReadBackCounter \/ ClearScratch
  BY <1>10, ApprovedFrame DEF IInv, TypeOK, ControlInv, MsipInterrupt, Start, StartFlashRead,
     ReadDone, AfterRead, FlashNotReady, SpinOrFail, CheckManifestHeader, CheckPublicKey,
     StreamEd25519, SignaturePasses, SignatureError, SignatureNotReady, CheckLoadParams,
     HashKernel, ReadBackCounter, ClearScratch
<1>11. CASE LockSetStatus \/ LockArmMtvec \/ LockPmp \/ LockClearStatus \/ SetStatus \/ ArmTrapExit
  BY <1>11, ApprovedFrame DEF LockSetStatus, LockArmMtvec, LockPmp, WritePmp,
     LockClearStatus, SetStatus, ArmTrapExit
<1>12. QED
  BY <1>1, <1>2, <1>3, <1>4, <1>5, <1>6, <1>7, <1>8, <1>9, <1>10, <1>11 DEF Next, BootStep

\* The boot chain implements SecureBoot for every value of the constants.
THEOREM Implements == Spec => ImplementsPromise
<1>1. Init => Promise!Init
  BY PromiseInit
<1>2. IInv /\ [Next]_vars => [Promise!Next]_(Promise!vars)
  BY PromiseStep
<1>3. QED
  BY <1>1, <1>2, Invariance, PTL DEF Spec, ImplementsPromise, Promise!Spec

\* The constants of the promise.
LEMMA ReleasesAre == ResetValue \in Nat /\ \A man \in Releases : man.version \in Nat
BY NumbersAssumption, ManifestFields DEF Releases

\* The promise itself: neither the counter nor memory can change under a running release.
PromiseInv == Promise!TypeOK /\ Promise!RunsApprovedRelease

LEMMA PromiseKeeps == ASSUME PromiseInv, [Promise!Next]_(Promise!vars) PROVE PromiseInv'
<1> USE DEF PromiseInv, Promise!TypeOK, Promise!RunsApprovedRelease
<1>1. ResetValue \in Nat /\ \A man \in Releases : man.version \in Nat
  BY ReleasesAre
<1>2. CASE Promise!Transfer
  BY <1>2 DEF Promise!Transfer
<1>3. CASE Promise!Advance
  BY <1>1, <1>3 DEF Promise!Advance
<1>4. CASE Promise!Handoff
  BY <1>4 DEF Promise!Handoff
<1>5. CASE Promise!Divert
  BY <1>5 DEF Promise!Divert
<1>6. CASE Promise!Reset
  BY <1>1, <1>6 DEF Promise!Reset
<1>7. CASE UNCHANGED Promise!vars
  BY <1>7 DEF Promise!vars
<1> QED
  BY <1>2, <1>3, <1>4, <1>5, <1>6, <1>7 DEF Promise!Next

\* What runs is a signed release that is in memory and has the counter's version: it
\* follows from SecureBoot alone, for whatever implements it.
THEOREM PromiseIsSafe == Promise!Spec => []Promise!RunsApprovedRelease
<1>1. Promise!Init => PromiseInv
  BY ReleasesAre DEF Promise!Init, PromiseInv, Promise!TypeOK, Promise!RunsApprovedRelease
<1>2. PromiseInv /\ [Promise!Next]_(Promise!vars) => PromiseInv'
  BY PromiseKeeps
<1>3. PromiseInv => Promise!RunsApprovedRelease
  BY DEF PromiseInv
<1> QED
  BY <1>1, <1>2, <1>3, PTL DEF Promise!Spec
=============================================================================
