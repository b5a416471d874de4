------------------------------- MODULE BootRom -------------------------------
(***************************************************************************)
(* The boot chain of hart 0: software/bootrom/bootrom.S and bootrom.c, the *)
(* status register, rollback counter and PMP it programs, the recovery     *)
(* firmware it diverts to and the accesses the kernel may try afterwards.  *)
(*                                                                         *)
(* pc names the function the hart is about to run (or the step inside it). *)
(* Memory is counted in blocks, one block per word group the SPI           *)
(* controller delivers; the manifest, the signature and the public key are *)
(* one block each.  SHA-256 is an injective constructor and Ed25519        *)
(* accepts exactly the signatures made by Sign.  The SPI controller is     *)
(* seen through its registers and its FIFO; it and the verifier answer a   *)
(* poll when they like, or never.  Kernels that reach into the scratch     *)
(* area, 128 MB above the usual load address, are left out.                *)
(***************************************************************************)
EXTENDS Integers, Sequences, FiniteSets

CONSTANTS
  Images,        \* what the flash may hold: records manifest, signature, public_key, kernel
  FlashBlocks,   \* blocks of kernel area in the flash
  Blocks,        \* the values one block of code may have
  DeveloperKey,  \* the key whose hash is fused into the OTP
  DramBase,      \* DRAM_BASE, first block of DRAM and the constant entry point
  DramTop,       \* first block past the end of DRAM
  RecoveryEntry, \* RECOVERY_ENTRY
  RecoveryImage, \* the block that makes RECOVERY_ENTRY executable
  Preloads,      \* DRAM as FESVR may leave it before it raises MSIP
  FifoDepth,     \* fifoDepth of the SPI controller, in blocks
  MaxSpin,       \* MAX_SPIN
  ResetValue,    \* resetValue of the rollback counter
  Zero,          \* a cleared buffer
  Garbage,       \* a buffer holding bytes meant for another one
  FaultsEnabled, \* may the BootROM trap at an instruction chosen by nobody
  ResetsEnabled  \* may the chip be reset (DRAM keeps its contents)

Manifests  == {i.manifest : i \in Images}
Signatures == {i.signature : i \in Images}
PublicKeys == {i.public_key : i \in Images}
Dram       == DramBase .. (DramTop - 1)

ASSUME ImagesAssumption ==
  \A i \in Images :
    /\ i.manifest.version \in Nat
    /\ i.manifest.payload_size \in 0 .. FlashBlocks
    /\ i.manifest.load_address \in Nat
    /\ i.kernel \in [1 .. FlashBlocks -> Blocks]
ASSUME MemoryAssumption ==
  /\ FlashBlocks \in Nat /\ DramBase \in Nat /\ DramTop \in Nat
  /\ RecoveryEntry \in Dram
  /\ Preloads \subseteq [Dram -> Blocks]
ASSUME NumbersAssumption ==
  /\ MaxSpin \in Nat /\ ResetValue \in Nat /\ FifoDepth \in Nat \ {0}
  /\ FaultsEnabled \in BOOLEAN /\ ResetsEnabled \in BOOLEAN
\* Cleared or misplaced bytes are neither a manifest, nor the developer's key, nor
\* a signature of anything.
ASSUME BufferAssumption ==
  \A b \in {Zero, Garbage} :
    /\ b \notin Manifests \cup PublicKeys \cup {DeveloperKey}
    /\ \A key \in PublicKeys, man \in Manifests : b # <<"ed25519", key, man>>

VARIABLES
  pc,        \* where the hart is
  mtvec,     \* the label traps go to
  mepc,      \* target of the last mret
  reason,    \* reason_bit of the last enter_recovery since reset
  part,      \* the flash region read_flash is to transfer
  got,       \* bytes_read, in blocks
  spin,      \* the poll counter of the loop the hart is in
  scratch,   \* the buffers at BOOT_SCRATCH_BASE
  dram,      \* DRAM outside the scratch area
  flash,     \* contents of the SPI flash
  spi,       \* the transaction of the SPI controller
  fifo,      \* its receive FIFO
  counter,   \* rollback counter register
  sr,        \* boot status register: the set of bits that are 1
  pmp,       \* which PMP CSRs lock_pmp has written
  report     \* what the recovery firmware printed

hart    == <<pc, mtvec, mepc, reason>>
reading == <<part, got, spin>>
memory  == <<scratch, dram>>
link    == <<flash, spi, fifo>>
board   == <<counter, sr, pmp>>
vars    == <<hart, reading, memory, link, board, report>>

StatusBits == {"SR_MANIFEST_HEADER", "SR_PUBLIC_KEY", "SR_MANIFEST_SIGNATURE",
               "SR_LOAD_KERNEL", "SR_ROLLBACK_COUNTER", "SR_LOCK_PMP"}
NoReason   == "none"
FlashParts == {"manifest", "signature", "public_key", "kernel"}

ReadPcs    == {"start_flash_read", "read_flash_words", "poll_done"}
VerifyPcs  == {"check_manifest_header", "check_public_key", "stream_ed25519",
               "poll_ed25519", "check_and_load_kernel", "hash_kernel",
               "check_rollback_counter", "read_back_counter"}
LockPcs    == {"lock_sr", "lock_mtvec", "lock_pmpaddr", "lock_pmpcfg2",
               "lock_pmpcfg0", "unlock_sr"}
RecoverPcs == {"enter_recovery", "arm_trap_exit", "mret_recovery"}
BootRomPcs == {"_start", "clear_scratch", "jump_to_kernel"}
                \cup ReadPcs \cup VerifyPcs \cup LockPcs \cup RecoverPcs
Pcs        == BootRomPcs \cup {"_hang", "kernel", "recovery_entry", "recovery",
                               "recovery_exit", "mret_trap_exit"}

-----------------------------------------------------------------------------
(* The cryptography, idealised, and the checks each stage makes.           *)

Sha256(data)   == <<"sha256", data>>
Sign(key, man) == <<"ed25519", key, man>>

Digests == {Sha256(k) : k \in PublicKeys \cup {DeveloperKey, Zero, Garbage}}
             \cup UNION {{Sha256(f) : f \in [1 .. n -> Blocks \cup {Garbage}]}
                           : n \in 0 .. FlashBlocks}

\* Bytes that are no manifest do not begin with the magic.
HeaderOk(man) ==
  man \in Manifests /\ man.magic = "MANIFEST_MAGIC" /\ man.header_version = 1

\* OTP_HASH_SIZE bytes at OTP_BASE, fused at manufacture.
OtpHash == Sha256(DeveloperKey)

KeyTrusted(key) == Sha256(key) = OtpHash

SignatureOk(key, man, sig) == sig = Sign(key, man)

LoadParamsOk(man) == man.payload_size # 0 /\ ~(man.load_address < DramBase)

\* The digest of the loaded kernel as it lies in memory m.
LoadedHash(man, m) ==
  Sha256([j \in 1 .. man.payload_size |-> m[man.load_address + j - 1]])

\* RegWriteFn of the counter: only a strictly greater value is latched.
CounterWrite(old, data) == IF data > old THEN data ELSE old

Cleared == [manifest |-> Zero, signature |-> Zero, public_key |-> Zero,
            key_hash |-> Zero, otp_hash |-> Zero, kernel_hash |-> Zero]

\* The controller has no transaction; RegInit values.
SpiReset == [part |-> "manifest", next |-> 1, left |-> 0, busy |-> FALSE, done |-> FALSE]

PmpReset  == [pmpaddr |-> FALSE, pmpcfg2 |-> FALSE, pmpcfg0 |-> FALSE]
PmpLocked == [pmpaddr |-> TRUE, pmpcfg2 |-> TRUE, pmpcfg0 |-> TRUE]

\* pmpcfg0 enforces nothing until written, and then the regions pmpaddr names:
\* BootROM R-X, OTP and counter no access, everything else RWX.
MayAccess(region, how) ==
  \/ ~pmp.pmpcfg0 \/ ~pmp.pmpaddr
  \/ region = "bootrom" /\ how \in {"R", "X"}
  \/ region = "other"

-----------------------------------------------------------------------------
Goto(label) == pc' = label /\ UNCHANGED <<mtvec, mepc, reason>>

\* Variants named X_... are X with a plausible bug; no specification uses them.
\* They show that the properties below can fail.
Fail_SkipsStatus(bit) ==
  pc' = "arm_trap_exit" /\ reason' = bit /\ UNCHANGED <<mtvec, mepc>>

\* The argument of enter_recovery; its body is the three steps further down.
Fail(bit) == pc' = "enter_recovery" /\ reason' = bit /\ UNCHANGED <<mtvec, mepc>>

\* Any synchronous exception: the hart continues at mtvec.
Trap == Goto(mtvec)

Init ==
  /\ pc = "_hang" /\ mtvec = "_start" /\ mepc = 0 /\ reason = NoReason
  /\ part = "manifest" /\ got = 0 /\ spin = 0
  /\ scratch = Cleared /\ dram \in Preloads
  /\ flash \in Images /\ spi = SpiReset /\ fifo = <<>>
  /\ counter = ResetValue /\ sr = {} /\ pmp = PmpReset
  /\ report = {}

\* _hang waits in wfi; FESVR raises MSIP once the ELF files are in DRAM.
MsipInterrupt ==
  /\ pc = "_hang"
  /\ Goto(mtvec)
  /\ UNCHANGED <<reading, memory, link, board, report>>

\* _start of hart 0 up to bootrom_main, which begins with read_boot_parts.
Start ==
  /\ pc = "_start"
  /\ Goto("start_flash_read")
  /\ part' = "manifest"
  /\ UNCHANGED <<got, spin, memory, link, board, report>>

-----------------------------------------------------------------------------
(* read_flash.                                                             *)

\* How many blocks the transfer of region p has.
TotalBytes(p) == IF p = "kernel" THEN scratch.manifest.payload_size ELSE 1

\* ADDR, LEN, CLEAR_DONE, START.  A store to COMMAND is not acknowledged while
\* the controller is busy; nothing empties the FIFO.
StartFlashRead ==
  /\ pc = "start_flash_read"
  /\ ~spi.busy
  /\ spi' = [part |-> part, next |-> 1, left |-> TotalBytes(part), busy |-> TRUE, done |-> FALSE]
  /\ got' = 0 /\ spin' = 0
  /\ Goto("read_flash_words")
  /\ UNCHANGED <<part, memory, flash, fifo, board, report>>

\* The controller reads the next block of its transaction into the FIFO.
SpiDeliver ==
  /\ spi.left > 0
  /\ Len(fifo) < FifoDepth
  /\ fifo' = Append(fifo, [part |-> spi.part,
                           data |-> IF spi.part = "kernel" THEN flash.kernel[spi.next]
                                                           ELSE flash[spi.part]])
  /\ spi' = [spi EXCEPT !.next = @ + 1, !.left = @ - 1]
  /\ UNCHANGED <<hart, reading, memory, flash, board, report>>

SpiFinish ==
  /\ spi.busy /\ spi.left = 0
  /\ spi' = [spi EXCEPT !.busy = FALSE, !.done = TRUE]
  /\ UNCHANGED <<hart, reading, memory, flash, fifo, board, report>>

\* The destination of the next kernel block is not backed by memory.  (The devices
\* above it, which would accept a store, are left out.)
StoreFaults ==
  part = "kernel" /\ scratch.manifest.load_address + got >= DramTop

\* What the buffer of region p holds after block b was stored into it.
Stored(p, b) == IF b.part = p THEN b.data ELSE Garbage

StoreBlock(b) ==
  IF part = "kernel"
  THEN /\ dram' = [dram EXCEPT ![scratch.manifest.load_address + got] = Stored(part, b)]
       /\ UNCHANGED scratch
  ELSE /\ scratch' = [scratch EXCEPT ![part] = Stored(part, b)]
       /\ UNCHANGED dram

\* DATA_READY was seen: a block is taken from the FIFO and stored.
ReadBlock ==
  /\ pc = "read_flash_words"
  /\ fifo # <<>>
  /\ fifo' = Tail(fifo)
  /\ spin' = 0
  /\ \/ /\ ~StoreFaults
        /\ StoreBlock(Head(fifo))
        /\ got' = got + 1
        /\ Goto(IF got + 1 = TotalBytes(part) THEN "poll_done" ELSE pc)
     \/ /\ StoreFaults
        /\ Trap
        /\ UNCHANGED <<got, memory>>
  /\ UNCHANGED <<part, flash, spi, board, report>>

AfterRead_NoHash == [manifest |-> "start_flash_read", signature |-> "start_flash_read",
                     public_key |-> "check_manifest_header",
                     kernel |-> "check_rollback_counter"]

\* The next step of the caller once a region has arrived.
AfterRead == [manifest   |-> "start_flash_read",
              signature  |-> "start_flash_read",
              public_key |-> "check_manifest_header",
              kernel     |-> "hash_kernel"]
NextPart  == [manifest |-> "signature", signature |-> "public_key",
              public_key |-> "public_key", kernel |-> "kernel"]

ReadDone_NoPoll ==
  /\ pc = "poll_done"
  /\ Goto(AfterRead[part])
  /\ part' = NextPart[part]
  /\ UNCHANGED <<got, spin, memory, link, board, report>>

\* DONE was seen: read_flash returns.
ReadDone ==
  /\ pc = "poll_done"
  /\ spi.done
  /\ Goto(AfterRead[part])
  /\ part' = NextPart[part]
  /\ UNCHANGED <<got, spin, memory, link, board, report>>

SpinOrFail_OffByOne(bit) ==
  IF spin > MaxSpin
  THEN Fail(bit) /\ UNCHANGED spin
  ELSE spin' = spin + 1 /\ UNCHANGED hart

SpinOrFail_NotCounted(bit) == UNCHANGED spin /\ UNCHANGED hart

\* One poll of a device that is not ready: count it, or give up.
SpinOrFail(bit) ==
  IF spin + 1 > MaxSpin
  THEN Fail(bit) /\ UNCHANGED spin
  ELSE spin' = spin + 1 /\ UNCHANGED hart

FlashNotReady ==
  /\ \/ pc = "read_flash_words" /\ fifo = <<>>
     \/ pc = "poll_done" /\ ~spi.done
  /\ SpinOrFail("SR_LOAD_KERNEL")
  /\ UNCHANGED <<part, got, memory, link, board, report>>

-----------------------------------------------------------------------------
(* The stages of bootrom_main.                                             *)

CheckManifestHeader ==
  /\ pc = "check_manifest_header"
  /\ \/ HeaderOk(scratch.manifest) /\ Goto("check_public_key")
     \/ ~HeaderOk(scratch.manifest) /\ Fail("SR_MANIFEST_HEADER")
  /\ UNCHANGED <<reading, memory, link, board, report>>

CheckPublicKey ==
  /\ pc = "check_public_key"
  /\ scratch' = [scratch EXCEPT !.key_hash = Sha256(scratch.public_key),
                                !.otp_hash = OtpHash]
  /\ \/ KeyTrusted(scratch.public_key) /\ Goto("stream_ed25519")
     \/ ~KeyTrusted(scratch.public_key) /\ Fail("SR_PUBLIC_KEY")
  /\ UNCHANGED <<reading, dram, link, board, report>>

\* CLEAR, the 48 words of the three buffers, START.
StreamEd25519 ==
  /\ pc = "stream_ed25519"
  /\ Goto("poll_ed25519")
  /\ spin' = 0
  /\ UNCHANGED <<part, got, memory, link, board, report>>

\* DONE with PASS; the verifier reports it only for a valid signature.
SignaturePasses ==
  /\ pc = "poll_ed25519"
  /\ SignatureOk(scratch.public_key, scratch.manifest, scratch.signature)
  /\ Goto("check_and_load_kernel")
  /\ UNCHANGED <<reading, memory, link, board, report>>

\* ERROR, for an invalid signature or because the verifier itself failed.
SignatureError ==
  /\ pc = "poll_ed25519"
  /\ Fail("SR_MANIFEST_SIGNATURE")
  /\ UNCHANGED <<reading, memory, link, board, report>>

SignatureNotReady ==
  /\ pc = "poll_ed25519"
  /\ SpinOrFail("SR_MANIFEST_SIGNATURE")
  /\ UNCHANGED <<part, got, memory, link, board, report>>

CheckLoadParams ==
  /\ pc = "check_and_load_kernel"
  /\ \/ /\ LoadParamsOk(scratch.manifest)
        /\ Goto("start_flash_read")
        /\ part' = "kernel"
     \/ /\ ~LoadParamsOk(scratch.manifest)
        /\ Fail("SR_LOAD_KERNEL")
        /\ UNCHANGED part
  /\ UNCHANGED <<got, spin, memory, link, board, report>>

\* Does the kernel in memory have the digest the manifest promises?
PayloadOk(man, m) == LoadedHash(man, m) = man.payload_hash

HashKernel ==
  /\ pc = "hash_kernel"
  /\ scratch' = [scratch EXCEPT !.kernel_hash = LoadedHash(scratch.manifest, dram)]
  /\ \/ PayloadOk(scratch.manifest, dram) /\ Goto("check_rollback_counter")
     \/ ~PayloadOk(scratch.manifest, dram) /\ Fail("SR_LOAD_KERNEL")
  /\ UNCHANGED <<reading, dram, link, board, report>>

CheckRollbackCounter_NoReject ==
  /\ pc = "check_rollback_counter"
  /\ counter' = CounterWrite(counter, scratch.manifest.version)
  /\ Goto("read_back_counter")
  /\ UNCHANGED <<reading, memory, link, sr, pmp, report>>

CheckRollbackCounter ==
  /\ pc = "check_rollback_counter"
  /\ LET version == scratch.manifest.version IN
       \/ version < counter /\ Fail("SR_ROLLBACK_COUNTER") /\ UNCHANGED counter
       \/ version = counter /\ Goto("clear_scratch") /\ UNCHANGED counter
       \/ /\ version > counter
          /\ Goto("read_back_counter")
          /\ counter' = CounterWrite(counter, version)
  /\ UNCHANGED <<reading, memory, link, sr, pmp, report>>

ReadBackCounter_Strict ==
  /\ pc = "read_back_counter"
  /\ IF counter <= scratch.manifest.version
     THEN Fail("SR_ROLLBACK_COUNTER")
     ELSE Goto("clear_scratch")
  /\ UNCHANGED <<reading, memory, link, board, report>>

ReadBackCounter ==
  /\ pc = "read_back_counter"
  /\ IF counter < scratch.manifest.version
     THEN Fail("SR_ROLLBACK_COUNTER")
     ELSE Goto("clear_scratch")
  /\ UNCHANGED <<reading, memory, link, board, report>>

ClearScratch_KeepsHash ==
  /\ pc = "clear_scratch"
  /\ scratch' = [Cleared EXCEPT !.kernel_hash = scratch.kernel_hash]
  /\ Goto("lock_sr")
  /\ UNCHANGED <<reading, dram, link, board, report>>

ClearScratch ==
  /\ pc = "clear_scratch"
  /\ scratch' = Cleared
  /\ Goto("lock_sr")
  /\ UNCHANGED <<reading, dram, link, board, report>>

-----------------------------------------------------------------------------
(* lock_pmp, one CSR or register write per step.                           *)

LockSetStatus_Missing ==
  /\ pc = "lock_sr"
  /\ Goto("lock_mtvec")
  /\ UNCHANGED <<reading, memory, link, board, report>>

LockSetStatus ==
  /\ pc = "lock_sr"
  /\ sr' = sr \cup {"SR_LOCK_PMP"}
  /\ Goto("lock_mtvec")
  /\ UNCHANGED <<reading, memory, link, counter, pmp, report>>

LockArmMtvec ==
  /\ pc = "lock_mtvec"
  /\ mtvec' = "recovery_entry"
  /\ pc' = "lock_pmpaddr"
  /\ UNCHANGED <<mepc, reason, reading, memory, link, board, report>>

\* A CSR write of lock_pmp; an entry that is already locked ignores it.
WritePmp(csr, from, to) ==
  /\ pc = from
  /\ pmp' = IF pmp.pmpcfg0 THEN pmp ELSE [pmp EXCEPT ![csr] = TRUE]
  /\ Goto(to)
  /\ UNCHANGED <<reading, memory, link, counter, sr, report>>

LockPmp_ConfigFirst ==
  \/ WritePmp("pmpcfg0", "lock_pmpaddr", "lock_pmpcfg2")
  \/ WritePmp("pmpcfg2", "lock_pmpcfg2", "lock_pmpcfg0")
  \/ WritePmp("pmpaddr", "lock_pmpcfg0", "unlock_sr")

LockPmp ==
  \/ WritePmp("pmpaddr", "lock_pmpaddr", "lock_pmpcfg2")
  \/ WritePmp("pmpcfg2", "lock_pmpcfg2", "lock_pmpcfg0")
  \/ WritePmp("pmpcfg0", "lock_pmpcfg0", "unlock_sr")

LockClearStatus_Missing ==
  /\ pc = "unlock_sr"
  /\ Goto("jump_to_kernel")
  /\ UNCHANGED <<reading, memory, link, board, report>>

LockClearStatus ==
  /\ pc = "unlock_sr"
  /\ sr' = sr \ {"SR_LOCK_PMP"}
  /\ Goto("jump_to_kernel")
  /\ UNCHANGED <<reading, memory, link, counter, pmp, report>>

\* bootrom_main jumps to the constant 0x80000000, whatever the manifest says.
EntryPoint == DramBase

JumpToKernel ==
  /\ pc = "jump_to_kernel"
  /\ mepc' = EntryPoint
  /\ pc' = "kernel"
  /\ UNCHANGED <<mtvec, reason, reading, memory, link, board, report>>

-----------------------------------------------------------------------------
(* enter_recovery and the recovery firmware.                               *)

SetStatus_Overwrites ==
  /\ pc = "enter_recovery"
  /\ sr' = {"SR_LOAD_KERNEL"}
  /\ Goto("arm_trap_exit")
  /\ UNCHANGED <<reading, memory, link, counter, pmp, report>>

SetStatus ==
  /\ pc = "enter_recovery"
  /\ sr' = sr \cup {reason}
  /\ Goto("arm_trap_exit")
  /\ UNCHANGED <<reading, memory, link, counter, pmp, report>>

ArmTrapExit_Missing ==
  /\ pc = "arm_trap_exit"
  /\ Goto("mret_recovery")
  /\ UNCHANGED <<reading, memory, link, board, report>>

ArmTrapExit ==
  /\ pc = "arm_trap_exit"
  /\ mtvec' = "mret_trap_exit"
  /\ pc' = "mret_recovery"
  /\ UNCHANGED <<mepc, reason, reading, memory, link, board, report>>

MretRecovery ==
  /\ pc = "mret_recovery"
  /\ mepc' = RecoveryEntry
  /\ pc' = "recovery_entry"
  /\ UNCHANGED <<mtvec, reason, reading, memory, link, board, report>>

\* The first fetch at RECOVERY_ENTRY: it traps when no image is there.
RecoveryFetch ==
  /\ pc = "recovery_entry"
  /\ \/ dram[RecoveryEntry] = RecoveryImage /\ Goto("recovery")
     \/ dram[RecoveryEntry] # RecoveryImage /\ Trap
  /\ UNCHANGED <<reading, memory, link, board, report>>

RecoveryMain ==
  /\ pc = "recovery"
  /\ report' = sr
  /\ Goto("recovery_exit")
  /\ UNCHANGED <<reading, memory, link, board>>

-----------------------------------------------------------------------------
(* What is not the BootROM's own doing.                                    *)

\* The kernel replaces the trap vector it inherited.
KernelSetsMtvec ==
  /\ pc = "kernel"
  /\ mtvec' = "kernel"
  /\ UNCHANGED <<pc, mepc, reason, reading, memory, link, board, report>>

\* The kernel stores to the rollback counter.
KernelWritesCounter(data) ==
  /\ pc = "kernel"
  /\ IF MayAccess("counter", "W")
     THEN counter' = CounterWrite(counter, data) /\ UNCHANGED hart
     ELSE Trap /\ UNCHANGED counter
  /\ UNCHANGED <<reading, memory, link, sr, pmp, report>>

\* The kernel clears the PMP configuration; a locked one ignores the write.
KernelClearsPmp ==
  /\ pc = "kernel"
  /\ pmp' = IF pmp.pmpcfg0 THEN pmp ELSE PmpReset
  /\ UNCHANGED <<hart, reading, memory, link, counter, sr, report>>

\* Somebody rewrites the flash, at any moment.
Reflash ==
  /\ flash' \in Images \ {flash}
  /\ UNCHANGED <<hart, reading, memory, spi, fifo, board, report>>

\* An exception no line of bootrom.c raises on purpose.
UnexpectedFault ==
  /\ FaultsEnabled
  /\ pc \in BootRomPcs
  /\ Trap
  /\ UNCHANGED <<reading, memory, link, board, report>>

\* Registers take their RegInit values; DRAM keeps its contents.
Reset ==
  /\ ResetsEnabled
  /\ pc' = "_hang" /\ mtvec' = "_start" /\ mepc' = 0 /\ reason' = NoReason
  /\ counter' = ResetValue /\ sr' = {} /\ pmp' = PmpReset
  /\ spi' = SpiReset /\ fifo' = <<>>
  /\ report' = {}
  /\ UNCHANGED <<reading, memory, flash>>

-----------------------------------------------------------------------------
BootStep ==
  \/ MsipInterrupt \/ Start
  \/ StartFlashRead \/ ReadBlock \/ ReadDone \/ FlashNotReady
  \/ CheckManifestHeader \/ CheckPublicKey
  \/ StreamEd25519 \/ SignaturePasses \/ SignatureError \/ SignatureNotReady
  \/ CheckLoadParams \/ HashKernel
  \/ CheckRollbackCounter \/ ReadBackCounter \/ ClearScratch
  \/ LockSetStatus \/ LockArmMtvec \/ LockPmp \/ LockClearStatus \/ JumpToKernel
  \/ SetStatus \/ ArmTrapExit \/ MretRecovery \/ RecoveryFetch \/ RecoveryMain

KernelStep ==
  \/ KernelSetsMtvec \/ KernelClearsPmp
  \/ \E man \in Manifests : KernelWritesCounter(man.version)

SpiStep == SpiDeliver \/ SpiFinish

Next == BootStep \/ SpiStep \/ KernelStep \/ Reflash \/ UnexpectedFault \/ Reset

\* The hart executes its next instruction; nothing is assumed of the devices,
\* because a poll that finds them not ready is a step of the hart too.
Spec == Init /\ [][Next]_vars /\ WF_vars(BootStep)

-----------------------------------------------------------------------------
(* Type invariant.                                                         *)

FlashWords ==
  UNION {[part : {"manifest"}, data : Manifests],
         [part : {"signature"}, data : Signatures],
         [part : {"public_key"}, data : PublicKeys],
         [part : {"kernel"}, data : Blocks]}

ScratchType ==
  [manifest    : Manifests \cup {Zero, Garbage},
   signature   : Signatures \cup {Zero, Garbage},
   public_key  : PublicKeys \cup {Zero, Garbage},
   key_hash    : Digests \cup {Zero},
   otp_hash    : Digests \cup {Zero},
   kernel_hash : Digests \cup {Zero}]

SpiType ==
  [part : FlashParts, next : 1 .. (FlashBlocks + 2), left : 0 .. (FlashBlocks + 1),
   busy : BOOLEAN, done : BOOLEAN]

TypeOK ==
  /\ pc \in Pcs
  /\ mtvec \in {"_start", "recovery_entry", "mret_trap_exit", "kernel"}
  /\ mepc \in {0, RecoveryEntry, DramBase}
  /\ reason \in StatusBits \cup {NoReason}
  /\ part \in FlashParts
  /\ got \in 0 .. (FlashBlocks + 1)
  /\ spin \in 0 .. MaxSpin
  /\ scratch \in ScratchType
  /\ dram \in [Dram -> Blocks \cup {Garbage}]
  /\ flash \in Images
  /\ spi \in SpiType
  /\ fifo \in Seq(FlashWords) /\ Len(fifo) <= FifoDepth
  /\ counter \in Nat
  /\ sr \subseteq StatusBits
  /\ pmp \in [pmpaddr : BOOLEAN, pmpcfg2 : BOOLEAN, pmpcfg0 : BOOLEAN]
  /\ report \subseteq StatusBits

-----------------------------------------------------------------------------
(* Safety.                                                                 *)

\* Manifests that pass stages 0 to 2 with some key and signature there are.
Authentic(man) ==
  /\ HeaderOk(man)
  /\ \E key \in PublicKeys, sig \in Signatures :
       KeyTrusted(key) /\ SignatureOk(key, man, sig)

\* The kernel of man lies in DRAM, complete and with the digest it promises.
Installed(man) ==
  /\ LoadParamsOk(man)
  /\ man.load_address + man.payload_size <= DramTop
  /\ LoadedHash(man, dram) = man.payload_hash

Releases == {man \in Manifests : Authentic(man)}

\* The kernel is entered only when some signed manifest describes exactly the code
\* in DRAM and has the version the counter now shows (an older one was refused, a
\* newer one has moved it), although the flash may be rewritten between any two of
\* the reads the checks are based on.
HandoffVerified ==
  pc = "kernel" =>
    \E man \in Releases : Installed(man) /\ man.version = counter

\* At the handoff no intermediate value is left in the scratch buffers, all PMP
\* entries are locked with their addresses set, and traps do not restart the ROM.
HandoffHygiene ==
  pc = "kernel" => scratch = Cleared /\ pmp = PmpLocked /\ mtvec # "_start"

\* A kernel that was entered sees a status register without failures (lock_pmp
\* withdraws its tentative bit).  Fault-free boots only.
HandoffStatusClear ==
  pc = "kernel" => sr = {}

\* Recovery prints exactly the stage that failed, and nothing when it was
\* entered by a trap of the kernel.  Fault-free boots only.
ReportExact ==
  pc = "recovery_exit" => report = IF reason = NoReason THEN {} ELSE {reason}

\* From the moment enter_recovery arms its trap exit the failing stage is in the
\* status register, whatever faults came before.
CauseRecorded ==
  mtvec = "mret_trap_exit" => reason \in sr

\* A trap out of lock_pmp that leaves the PMP open reaches recovery with
\* SR_LOCK_PMP set: recovery can tell that nothing is protected.
PartialLockReported ==
  (pc \in {"recovery_entry", "recovery"} /\ mtvec = "recovery_entry" /\ pmp # PmpLocked)
    => "SR_LOCK_PMP" \in sr

\* Every transfer starts with an idle controller and an empty FIFO: read_flash may
\* be called back to back.  Boots without a trap inside a transfer only.
TransfersStartClean ==
  pc = "start_flash_read" => fifo = <<>> /\ ~spi.busy

\* The rollback counter moves only at reset, or up to the version of the signed
\* manifest whose kernel is already in DRAM and checked: "only after all prior
\* verifications pass".
CounterAdvancesVerified ==
  [][counter' # counter =>
       \/ pc' = "_hang"
       \/ /\ scratch.manifest \in Releases
          /\ Installed(scratch.manifest)
          /\ counter < counter' /\ counter' = scratch.manifest.version]_vars

\* No step of the kernel changes the rollback counter or the PMP.
KernelConfined ==
  [][(pc = "kernel" /\ pc' # "_hang") => UNCHANGED <<counter, pmp>>]_vars

-----------------------------------------------------------------------------
(* The inductive invariant behind the safety properties.                   *)

KernelRead == part = "kernel" /\ pc \in ReadPcs
PastHash   == pc \in {"check_rollback_counter", "read_back_counter"}
PastLoad   == KernelRead \/ PastHash \/ pc = "hash_kernel"
PastSign   == PastLoad \/ pc = "check_and_load_kernel"
PastKey    == PastSign \/ pc \in {"stream_ed25519", "poll_ed25519"}
PastHeader == PastKey \/ pc = "check_public_key"
PastClear  == pc \in LockPcs \cup {"jump_to_kernel", "kernel"}

SomeRelease == \E man \in Releases : Installed(man) /\ man.version = counter

\* What the checks made so far in this boot have established.
StageInv ==
  /\ PastHeader => scratch.manifest \in Manifests /\ HeaderOk(scratch.manifest)
  /\ PastKey => scratch.public_key \in PublicKeys /\ KeyTrusted(scratch.public_key)
  /\ PastSign => Authentic(scratch.manifest)
  /\ PastLoad => LoadParamsOk(scratch.manifest)
  /\ pc = "hash_kernel" =>
       scratch.manifest.load_address + scratch.manifest.payload_size <= DramTop
  /\ PastHash => Installed(scratch.manifest)
  /\ pc = "read_back_counter" => scratch.manifest.version = counter
  /\ PastClear => scratch = Cleared
  /\ PastClear \/ pc = "clear_scratch" => SomeRelease

\* How far the running transfer has come, in the driver and in the controller.
TransferInv ==
  /\ pc = "read_flash_words" /\ part # "kernel" => got = 0
  /\ pc = "read_flash_words" /\ part = "kernel" => got < scratch.manifest.payload_size
  /\ pc = "poll_done" /\ part = "kernel" => got = scratch.manifest.payload_size
  /\ pc \in {"read_flash_words", "poll_done"} /\ part = "kernel" =>
       got = 0 \/ scratch.manifest.load_address + got <= DramTop
  /\ spi.next + spi.left <= IF spi.part = "kernel" THEN FlashBlocks + 1 ELSE 2

\* The trap vector and the PMP at each point.
ControlInv ==
  /\ pc = "enter_recovery" => reason \in StatusBits
  /\ pc \in {"_hang", "_start", "clear_scratch", "lock_sr", "lock_mtvec",
              "enter_recovery", "arm_trap_exit"} \cup ReadPcs \cup VerifyPcs
       => mtvec = "_start" /\ pmp = PmpReset
  /\ pc \in {"lock_pmpaddr", "lock_pmpcfg2", "lock_pmpcfg0", "unlock_sr", "jump_to_kernel"}
       => mtvec = "recovery_entry"
  /\ pc = "lock_pmpaddr" => pmp = PmpReset
  /\ pc = "lock_pmpcfg2" => pmp = [PmpReset EXCEPT !.pmpaddr = TRUE]
  /\ pc = "lock_pmpcfg0" => pmp = [pmpaddr |-> TRUE, pmpcfg2 |-> TRUE, pmpcfg0 |-> FALSE]
  /\ pc \in {"unlock_sr", "jump_to_kernel", "kernel"} => pmp = PmpLocked
  /\ pc = "kernel" => mtvec \in {"recovery_entry", "kernel"}
  /\ pc = "mret_recovery" => mtvec = "mret_trap_exit"
  /\ pc \in {"recovery_entry", "recovery"} => mtvec \in {"recovery_entry", "mret_trap_exit"}

\* The status register between enter_recovery or lock_pmp and the recovery firmware.
StatusInv ==
  /\ pc = "arm_trap_exit" => reason \in sr
  /\ CauseRecorded
  /\ pc \in {"lock_mtvec", "lock_pmpaddr", "lock_pmpcfg2", "lock_pmpcfg0", "unlock_sr"}
       => "SR_LOCK_PMP" \in sr
  /\ PartialLockReported

IInv == TypeOK /\ StageInv /\ TransferInv /\ ControlInv

\* Without unexpected faults the status register holds nothing but the reason of the
\* last enter_recovery, and SR_LOCK_PMP while lock_pmp runs.
Reported == IF reason = NoReason THEN {} ELSE {reason}
FaultFreeInv ==
  /\ pc \in {"_hang", "_start", "clear_scratch", "lock_sr", "jump_to_kernel", "kernel"}
            \cup ReadPcs \cup VerifyPcs => reason = NoReason /\ sr = {}
  /\ pc \in LockPcs \ {"lock_sr"} => reason = NoReason /\ sr = {"SR_LOCK_PMP"}
  /\ pc = "enter_recovery" => sr = {}
  /\ pc \in {"arm_trap_exit", "mret_recovery", "recovery_entry", "recovery", "recovery_exit",
              "mret_trap_exit"} => sr = Reported
  /\ ReportExact

\* Without traps the driver and the controller agree on what is left of a transfer.
CleanInv ==
  /\ spi.done => ~spi.busy
  /\ pc \in {"read_flash_words", "poll_done"} => got + Len(fifo) + spi.left = TotalBytes(part)
  /\ pc = "poll_done" => got = TotalBytes(part)
  /\ pc \in {"_hang", "_start", "start_flash_read"} \cup VerifyPcs =>
       fifo = <<>> /\ spi.left = 0 /\ ~spi.busy

-----------------------------------------------------------------------------
(* What a documented promise would need; see the findings.                 *)

\* README, stage 5: mepc is set to manifest.entry_point.
EntryPointFromManifest ==
  pc = "kernel" => \E man \in Releases : Installed(man) /\ mepc = man.entry_point

-----------------------------------------------------------------------------
(* Liveness and refinement.                                                *)

Settled == pc \in {"kernel", "recovery_exit", "mret_trap_exit"}

\* Every boot ends in the kernel, in recovery or at the trap exit, even when
\* the SPI controller and the verifier never answer: each poll loop is bounded.
BootSettles == (pc = "_start") ~> Settled

\* Once the counter has been advanced for an image, that image is started.
AdvanceReachesKernel == (pc = "read_back_counter") ~> (pc = "kernel")

\* README, failure mode: "even an unexpected fault routes into recovery rather
\* than dead-looping in ROM".
NoDeadLoopInRom == (pc = "_start") ~> (pc \notin BootRomPcs)

Phase ==
  CASE pc = "kernel" -> "running"
    [] pc \in {"recovery_entry", "recovery", "recovery_exit", "mret_trap_exit"} -> "recovery"
    [] OTHER -> "booting"

Promise == INSTANCE SecureBoot WITH
  phase <- Phase, approved <- {man \in Releases : Installed(man)}

\* The boot chain implements the abstract promise: only installed releases
\* advance the counter or run, and recovery is left by a reset only.
ImplementsPromise == Promise!Spec
=============================================================================
