# TLA+ specifications of the secure-boot RV64 microcontroller

This directory holds TLA+ modules, TLC configurations and TLAPS proofs for the boot
chain of this repository: the BootROM (`software/bootrom`), the devices it drives
(`hardware/*`), the recovery firmware it diverts to (`software/recovery`), what the
kernel may do afterwards, and the cryptographic library it is linked with
(`software/crypto`). `PROJECT.json` is the machine-readable index: the components,
the runs, the definition-by-definition map to the source, the hazards, the findings and
the theorems.

## 1. The system

### Parts, state and operations

| Part | State | Operations | Made correct by |
|---|---|---|---|
| BootROM C code, `software/bootrom/bootrom.c` | the stage it is in; the buffers at `BOOT_SCRATCH_BASE` (manifest, signature, public key, three hashes); the spin counter of the current poll loop | `read_boot_parts`, the five checks, `clear_scratch`, `lock_pmp`, `jump_to_kernel`, `enter_recovery` | only a verified kernel is entered; the counter moves only for a verified kernel; every failure is recorded; every loop ends |
| BootROM start-up, `bootrom.S` | `mtvec`, MSIP, stack pointer | `_start`, `_hang`, hart dispatch | a trap has a defined place to go |
| SPI controller and flash, `hardware/spi_flash` | command registers, busy/done, 16-word FIFO, bit-level master and slave | START, CLEAR_DONE, reading FIFO_DATA, shifting | each word exactly once and in order; DONE only after the last one |
| Ed25519 verifier, `hardware/ed25519` | 192-byte buffer with an index, a 2-bit status | CLEAR, write a word, START | PASS only for a valid signature over what was written since CLEAR |
| OTP, `hardware/otp` | a constant | read | equals the hash fused at manufacture |
| Rollback counter, `hardware/rollback_counter` | one 32-bit register | read; write, latched only if strictly greater | never falls between resets |
| Status register, `hardware/status_register` | six bits | read, write | names the stage that failed |
| Recovery firmware, `software/recovery` | none | reads the status register, prints the stages | prints exactly what is set |
| Kernel, `software/kernel` | none | prints a banner and exits | cannot reach what the PMP locks |
| SHA-256, `software/crypto/src/sha256.c` | block buffer, length, eight words | init, update, final | the digest does not depend on how the input is cut |
| MonoCypher, `software/crypto/src/monocypher.c` | the contexts a caller holds: key, nonce and counter of an AEAD session; buffer and sum of Poly1305; buffer, offset and hash of BLAKE2b | AEAD init/write/read and the one-shots, ChaCha20, Poly1305, BLAKE2b, Argon2, EdDSA, X25519, dirty keys, Elligator, scalar division | a message is accepted only if it was sent; no key stream is used twice; results do not depend on how input is cut; the curve functions agree with the group law at every edge |
| Host tools, `tools/*.py`, `scripts/*.sh` | files | build, hash, sign, stage the flash image | what is staged is what was signed |

MonoCypher is a vendored library: the BootROM is linked with it and, since the verifier
is a device, does not call it at run time. It is more than half of the repository's C code, and is
modelled as a library, by what its functions promise any caller.
`crypto/src/ed25519.c` is a stub without callers; the RTL test benches and the shell
tests drive the system and are not part of it.

### How they interact

FESVR loads ELF files into DRAM and raises MSIP; hart 0 leaves `_hang` through
`mtvec = _start`. The BootROM programs the SPI controller through registers and polls
`DATA_READY`/`DONE`; it polls the verifier the same way. OTP, counter and status register
answer immediately. Every failed check calls `enter_recovery(bit)`: OR the bit into the
status register, point `mtvec` at a small exit routine, `mret` to `RECOVERY_ENTRY`.
Otherwise the ROM advances the counter, clears its buffers, locks the PMP one CSR at a
time and `mret`s to the kernel. The flash is outside the chip: its contents may change
between any two reads.

### What is hard

Nothing here has threads, and yet the ROM does not run alone: the flash changes under it,
the SPI controller runs on when the hart has been thrown back to `_start` by a trap, and
devices answer late or never. The order of the steps is itself the protection (hash before
counter, status before leaving, `pmpaddr` before `pmpcfg`). A trap anywhere restarts the
boot on whatever the previous attempt left in scratch, DRAM, FIFO, counter and status
register; a reset clears the registers but not DRAM.

In the library it is the edges that are hard: a carry that random inputs almost never
produce, a block that is exactly full, a scalar one bit too long, a key of low order, a
buffer that still holds an earlier block, a reader that loses its place after one bad
record. Tests with random vectors hardly reach them; a scaled-down instance does. The hazards in `PROJECT.json` list
these at the line where they bite.

## 2. Modules

| Module | Role |
|---|---|
| `SecureBoot.tla` | the promise, without any steps of the ROM: only approved releases advance the counter or run |
| `BootRom.tla` | the boot chain step by step: BootROM, SPI controller registers and FIFO, verifier, OTP, counter, status register, PMP, recovery firmware, kernel accesses, reflash, fault, reset; shown to implement `SecureBoot` |
| `SpiPromise.tla` | what the SPI controller promises its driver: each word of the range once and in order, DONE after the last |
| `SpiFlash.tla` | the controller clock by clock: `SPIMasterCore`, `SPIFlashSlave`, the queue, the registers, and the driver loops of the ROM; shown to implement `SpiPromise` |
| `Ed25519Verifier.tla` | the verifier register by register, with the files of its simulation model, and `check_manifest_signature` streaming the boot parts into it |
| `Sha256Stream.tla` | buffering and padding of `sha256_update` and `sha256_final`, against FIPS 180-4's padding |
| `ChaCha20.tla`, `Poly1305.tla` | the cipher's blocks and counter; the authenticator's cutting into blocks and its arithmetic, limb by limb |
| `AeadSession.tla` | a writer and a reader on top of these two, over a channel that loses, repeats, reorders and damages records; and single calls of the two layers |
| `Blake2b.tla`, `Argon2.tla` | BLAKE2b's blocks, key block and offset; Argon2's order of filling, references, first hash and hash of any length |
| `ScalarL.tla`, `Curve25519.tla`, `EdDsa.tla`, `Ephemeral.tla` | arithmetic modulo L, limb by limb; points and the ladder; windows, combs and the signature equation; dirty keys, Elligator, division |
| `CurveCalls.tla` | callers of these: making a key, signing, checking; or one call of any other function |
| `BootRomProofs.tla`, `SpiFlashProofs.tla`, `HashAndSignatureProofs.tla`, `AeadSessionProofs.tla`, `CurveCallsProofs.tla` | the proofs, one module for each of the above that has a state (`HashAndSignatureProofs` for the verifier and SHA-256) |
| `CurveProofs.tla`, `ScalarMultProofs.tla` | lemmas for `CurveCallsProofs`: the reductions modulo L, the group law and its formulas, the digits of windows; and, built on these, the signature equation, combs, ladder, keys, division modulo L, dirty keys and Elligator |
| `Numbers.tla` | lemmas the proofs share, on natural numbers (induction, division, digits) and on texts (cutting and joining sequences) |
| `MCBootRom.tla`, `MCSpiFlash.tla`, `MCEd25519Verifier.tla`, `MCAead.tla`, `MCCurve.tla` | finite instances for TLC: fourteen flash images; transfers; four sets of boot buffers; texts and limbs; a small curve |

`BootRom` uses the SPI controller in the form of `SpiPromise` (`SpiDeliver`, `SpiFinish`),
counted in blocks; `SpiFlash` justifies that form. It uses the verifier as one step from
CLEAR to START (`StreamEd25519`) whose verdict is about the boot buffers;
`Ed25519Verifier` justifies that, as `Sha256Stream` does `Sha256` as a function of the
bytes alone.

### How BootRom corresponds to the code

`pc` is the function (or the step of a function) the hart is about to run; each action is
the whole of that function or one memory-mapped or CSR access of it, wherever something
else can happen between two of them.

| Action | Code |
|---|---|
| `MsipInterrupt`, `Start` | `_hang`, `_start`, hart 0 path of `bootrom.S` |
| `StartFlashRead`, `ReadBlock`, `ReadDone`, `FlashNotReady` | `start_flash_read`, `read_flash_words` with both poll loops, and `read_boot_parts` through `AfterRead`/`NextPart` |
| `SpiDeliver`, `SpiFinish` | `SPIMasterCore` and its FIFO, as the registers show them |
| `CheckManifestHeader`, `CheckPublicKey` | the functions of those names |
| `StreamEd25519`, `SignaturePasses`, `SignatureError`, `SignatureNotReady` | `check_manifest_signature` |
| `CheckLoadParams`, the kernel transfer, `HashKernel` | `check_and_load_kernel` |
| `CheckRollbackCounter`, `ReadBackCounter` | `check_rollback_counter` and the compare in the register |
| `ClearScratch`, `LockSetStatus` ... `LockClearStatus`, `JumpToKernel` | `clear_scratch`, `lock_pmp` write by write, `jump_to_kernel` |
| `SetStatus`, `ArmTrapExit`, `MretRecovery`, `RecoveryFetch`, `RecoveryMain` | `enter_recovery`, `mret_trap_exit`, `recovery.c` |
| `Kernel...` | stores of kernel code to counter and PMP, and its own `mtvec` |
| `Reflash`, `UnexpectedFault`, `Reset` | the surroundings |

Data abstractions:

* Memory is counted in blocks. The manifest, the signature and the public key are one
  block each and the kernel a few, where the code moves 32-bit words; `got` and
  `FifoDepth` count blocks. Torn manifests (half old, half new) therefore do not occur as
  such; a block from another transfer is `Garbage`, which no check accepts.
* SHA-256 is an injective constructor, `Sign` is unforgeable: a signature is valid only if
  it is `Sign(key, manifest)`. Keys other than the developer's have another hash.
* The verifier answers PASS only for a valid signature, but may answer ERROR, or nothing,
  for any.
* `dram` is the kernel area and the recovery area. The scratch area, which the code puts
  128 MB above the usual load address, is a variable of its own; signed kernels large
  enough to be loaded over it are left out (no code checks for it; `load_address` is
  checked against `DRAM_BASE` only). For the same reason a kernel could be copied over
  devices that lie above DRAM; in the model every store from the top of DRAM on traps.
* PMP entries are three flags, one per group of CSR writes. `pmpaddr0..3` are written
  before any configuration; a locked entry ignores writes.
* Harts other than hart 0 are left out: `SecureBootConfig` has one core.
* Version numbers are naturals; the 32-bit compare needs no wrap-around.

### How SpiFlash corresponds to the code

A step is a clock cycle. `Clock` is the conjunction of what happens in it in parallel: one
of the master's states (`MIdle` ... `MDone`, one operator per `is` branch of
`SPIMasterCore`), one of the slave's (`SDeselected`, `SQuiet`, `SCommand`, `SAddress`,
`SData`), the queue (`QueueNext`) and `doneSticky` (`DoneNext`). All of them read the
registers of the cycle before, as RTL does. The hart adds at most one register access:
`WriteAddr`, `WriteLen`, `ClearDone` and `StartRead` are the four stores of
`start_flash_read`; `PollReady`, `ReadData` and `PollDone` are the loads of
`read_flash_words`; `Trap` throws it out of the transfer at any cycle, and
`CallReadFlash` begins the next.

A bit read from the flash is the pair of its address and its position, so what is checked
about the data holds for every content. A shift register and its bit counter are one
sequence. `errorReg` never changes and is left out, as are the registers nobody reads.

The hart cannot make two accesses in adjacent cycles (each is a TileLink transaction of
several cycles, `concurrency = 1`): `AccessGap`. With `AccessGap = 1` and traps,
`DoneIsOwn` would fail, because the master holds `done` for two cycles and setting
`doneSticky` wins over clearing it; the property depends on that distance.

### How Ed25519Verifier and Sha256Stream correspond to the code

A step of `Ed25519Verifier` is one register access: `Clear`, `Data` and `Start` are the
branches of the verifier on a write, `WriteClear`, `WriteData`, `WriteStart` and
`PollStatus` the accesses of `check_manifest_signature` (192 bytes, a word at a time).
`Restart` is a trap to `_start` or a reset between any two of them: the first keeps index,
buffer and status, the second the buffer; both keep the files. `failed` is the set of files
the last START could not open; they keep what an earlier START wrote, and that is what the
external tool then judges. The buffer has no reset value and starts with anything in it.
Left out: BUSY, which is overwritten in the cycle that sets it, and COUNT, which nobody
reads.

`Sha256Stream` keeps the three counters of `sha256_ctx`, its buffer byte by byte, and in
`hashed` the blocks given to the compression function, of which the eight words are a
function. A message byte is its position, so what is checked holds for every content; the
length field's bytes name the bit count they encode. `UpdateLoop` is one turn of the loop
of `sha256_update`, `Final` is `sha256_final` with both of its cases.

### How the MonoCypher modules correspond to the code

Operators have the names of the functions they translate; the state of `AeadSession` and
`CurveCalls` is a caller's. Four idealisations carry the data:

* A byte is a set of atoms, XOR is the symmetric difference, zero is `{}`. A byte of key
  stream is one atom that names the key, nonce and counter of its block and its offset,
  so that two equal bytes of key stream are the same byte of the same block, and a key
  stream applied twice cancels. The rounds of ChaCha20 are thereby taken as a random
  function, those of BLAKE2b as an injective one (a hash is its parameters and the
  blocks and offsets compressed); a tag is known by its key and the blocks added up.
* Words are scaled, with their carries and overflows in place: a counter word of
  ChaCha20 has `Word` values, a block `Block` bytes, a limb of Poly1305 `LimbBits` bits, a
  limb of a scalar `Base` values, an index seed of Argon2 `Seed32` values.
* Encodings are numbers. `fe_frombytes` drops the top bit (of `FieldBits` and one) and
  reduces; the sign of x and the padding bits of a representative, which lie in those top
  bits, are fields of their own. The candidates of `crypto_elligator_key_pair` are a given
  stream, whatever the chain of seeds they come from.
* A field element is its value modulo `P`: the results of `fe_*` are taken as exact, the
  formulas made of them are those of the code.

`Open`, `Write` and `Read` are `crypto_aead_init_*`, `crypto_aead_write` and
`crypto_aead_read`. `Arriving` is the channel: any record written so far, at any time, as
often as the channel likes, with its own tag or another's, its bytes cut differently
between additional data and text, shortened, lengthened or changed. `crypto_aead_read`
writes its output and the next key only behind the comparison, and so does the operator.

`CurveCalls` is one signing (`crypto_eddsa_key_pair`, `crypto_eddsa_sign`,
`crypto_eddsa_check` of what was made or of an altered form of it) or one call
(`CallEquation`, `CallSlide`, ...). What BLAKE2b returns to a signature is drawn from
`HashValues` when a message is first hashed and kept in `oracle`. The small curve has the
shape of Curve25519: `P = 2141` is 5 modulo 8, the order is 8 times the prime
`L = 269`, `A = 162`; 8 L lies just above the power of two to which scalars are trimmed,
as the order of Curve25519 does above 2^255, and L just above 2^8 as the other above 2^252.
The assumptions of `Curve25519` state how the constants hang together. In Argon2 the values of the
blocks are left out: which block a step refers to depends on an index seed, and the seed is
a parameter (for the data-dependent half) or known by the block of indices it is read from.

## 3. Properties and runs

All `bootrom_*` runs use five DRAM blocks (`1 .. 5`), a recovery entry in the middle of them, kernels
of at most two blocks, and a FIFO of one block, so that the FIFO fills and the controller
stalls on every transfer longer than a block. DRAM starts with or without a recovery image.

| Run | Asks | Bounds |
|---|---|---|
| `bootrom_nominal` | all image classes of `tests/` and more (old, equal and newer versions, tampered kernel, bad magic, bad header version, bad signature, edited manifest, foreign key, empty payload, load address too low, loads that end in, at and past the top of DRAM), rewritten at any moment, devices late or dead: `TypeOK`, `HandoffVerified`, `HandoffHygiene`, `HandoffStatusClear`, `ReportExact`, `KernelConfined` | `MAX_SPIN` 1 |
| `bootrom_faults` | an exception at any ROM instruction and a reset at any step, DRAM keeping its contents: `CauseRecorded`, `PartialLockReported`, `CounterAdvancesVerified`, and that `BootRom` implements `SecureBoot` | two releases whose parts mix through rewriting; `MAX_SPIN` 0, since the fault already takes the place of a timeout |
| `bootrom_live` | `BootSettles`, `AdvanceReachesKernel`, and that back-to-back transfers start clean (`TransfersStartClean`), all of boots without unexpected faults: after a trap behind the counter write the next pass reads the flash again, and no progress is claimed; what `bootrom_faults` claims there is that the release counted was one that could run (`CounterAdvancesVerified`) | four images that fit into DRAM, `MAX_SPIN` 2, so that the counter is restarted part-way |
| `spi_flash` | any order of transfers, a driver of any speed: every one returns (`TransferReturns`) with exactly the requested bytes (`BytesExact`), master and slave never lose step (`InStep`) | 3-bit addresses, a flash of 4 bytes, 2-bit bytes, 2-byte words, FIFO of 2 words, `AccessGap` 1; transfers of less than a word, a word and a half, one that runs past the end of the flash and fills the FIFO, one with address bits the memory ignores |
| `spi_flash_traps` | the driver thrown out at any cycle: `DoneIsOwn`, `StartNotLost`, and that the circuit implements `SpiPromise` | FIFO of 1 word, `AccessGap` 2, two transfers of two and three words |
| `ed25519_verifier` | attempts cut off anywhere and files that cannot be opened: `check_manifest_signature` passes only buffers that are validly signed (`PassIsForScratch`) and refuses none that are (`RejectIsForScratch`) | parts of 2, 1 and 1 words; two releases, a manifest under another's signature, a foreign key |
| `sha256_stream` | the blocks hashed are the padded message (`DigestExact`), in pieces of any size | the real block size; messages up to 140 bytes, so that every remainder of the block occurs twice |
| `monocypher_aead` | a session over that channel: the reader takes exactly what was written, in order (`OnlySentAccepted`), a refused record costs it nothing (`ReaderInStep`), no byte of key stream is used twice or doubles as a key (`KeyStreamOnce`), the one-shots agree with a session (`OneShotAgrees`). And calls below: key stream across carries and in pieces (`StreamExact`), the blocks of a tag in pieces (`TagExact`), the sum modulo 2^130 - 5 scaled down, at the ends of its limbs (`SumExact`) | sessions of 2 messages with 3 texts and 3 additional data, all three ways to begin one; counter words of 2 values, so that a text of two blocks carries and one of four wraps; blocks of 4 bytes; limbs of 7 bits |
| `monocypher_curve` | a signature passes for its message, and with its R in no other form: neither with S + 1 nor with S plus a multiple of L (`SignatureHolds`); the equation holds exactly when the group law says so, up to low order, for keys of low order, y above P, either sign of x = 0 (`EquationExact`); reduction modulo L (`ReduceExact`); windows, combs, and the ladder for u coordinates in all forms, with the top bit set or above P (`MultiplesExact`); dirty keys, division, Elligator both ways (`EphemeralExact`); BLAKE2b and the hashes of Argon2 against RFC 7693 and 9106 (`HashingExact`); what Argon2 reads and when (`FillExact`) | the curve above; three limbs of 4 bits; every scalar below 2^10 for dirty keys, every representative for Elligator, every scalar below L for the windows; one to three lanes with segments shorter and longer than a block of indices |
| `bootrom_dead_loop`, `bootrom_entry_point`, `ed25519_unopened` | statements of the repository that the code does not meet (section 5) | two images each; the last as in `ed25519_verifier` |

Why these bounds are enough to be interesting: two releases of different versions give
every mix of manifest, signature, key and kernel, because the flash may be rewritten
between any two reads; three versions against `resetValue` 1 give the smaller, equal and
greater case of the counter; two kernel blocks make a rewrite inside a kernel transfer
possible; one FIFO block leaves a stale block behind after a trap. For the library the
scaled words make every carry, wrap and boundary occur among a few values, and the small
curve has every kind of point the big one has; a formula that is wrong in general is wrong
on some scalar of it. What the small curve cannot show is a slip that depends on the very
constants of Curve25519. What is true beyond
these sizes is the subject of section 4.

`CHECK_DEADLOCK FALSE` in the `bootrom_*` configurations: recovery, the trap exit and the
kernel are where the machine is meant to stay; in `Sha256Stream.cfg`, where a hashed
message is the end; and in `Aead.cfg` and `Curve.cfg`, where a single call, or a session
with all its messages, is.

**Fairness.** `Spec` assumes `WF_vars(BootStep)` only: the hart executes its next
instruction. Nothing is assumed of the SPI controller, the verifier, the kernel, the flash
or faults. This is justified because a poll that finds a device not ready is itself a step
of the hart (`FlashNotReady`, `SignatureNotReady`); the liveness run shows that the spin
limits turn a dead device into recovery. The one place where the hart could wait without a
limit is the store to COMMAND while the controller is busy; `TransfersStartClean` shows
that a fault-free boot never gets there.

In `SpiFlash` the clock ticks for ever (`WF_vars(Next)`) and the hart, having got to an
access, makes it at some time (`WF_vars(DriverStep)`); with traps, nothing is claimed
about liveness.

**Findings of the liveness kind** are checked under the same fairness.

Every property of a passing run has a mutant in `PROJECT.json`: a variant of a modelled
operation with a plausible bug (named `Operation_What`) under which TLC finds the property
violated.

## 4. Proofs

Every theorem is checked by `tlapm` on its module. Those about `BootRom` hold for every
set of images, memory map, FIFO depth, `MAX_SPIN`, `resetValue`, with and without faults
and resets (where a hypothesis does not say otherwise); those about `SpiFlash` for every
width, depth and set of transfers; those about the verifier for every size of the parts,
set of images and set of signed ones; those about SHA-256 for every message length; those
about AEAD for sessions of any length, any texts, block sizes and counter widths; those
about the arithmetic of Poly1305 for limbs of every width above three bits; those
about reduction modulo L for limbs of every base and any number of them, and for any L
that has the size of the code's; and those about the curve for every prime P, coefficient
A, base point and width of scalars, windows and combs that the assumptions below admit,
those of Curve25519 among them.

| Theorem | States |
|---|---|
| `TypeCorrect` (`BootRom`, `SpiFlash`, `Ed25519Verifier`, `AeadSession`), `ShaTypeCorrect` | `Spec => []TypeOK`, `ShaSpec => []ShaTypeOK` |
| `HandoffIsVerified` | `Spec => []HandoffVerified` |
| `HandoffIsClean` | `Spec => []HandoffHygiene` |
| `HandoffStatusIsClear`, `ReportIsExact` | `Spec => []HandoffStatusClear`, `Spec => []ReportExact`, without unexpected faults |
| `TransfersAreClean` | `Spec => []TransfersStartClean`, without unexpected faults and with images that fit into DRAM |
| `CounterAdvances` | `Spec => CounterAdvancesVerified` |
| `KernelIsConfined` | `Spec => KernelConfined` |
| `CauseIsRecorded`, `PartialLockIsReported` | `Spec => []CauseRecorded`, `Spec => []PartialLockReported` |
| `Implements` | `Spec => ImplementsPromise`, the refinement of `SecureBoot` |
| `PromiseIsSafe` | `Promise!Spec => []Promise!RunsApprovedRelease`: the promise means what it says |
| `BitsInStep` | `SpiFlash!Spec => []InStep` |
| `StartIsNeverLost` | `SpiFlash!Spec => StartNotLost` |
| `DoneIsNotStale` | `SpiFlash!Spec => []DoneIsOwn`, if `AccessGap > 1` |
| `BufferIsExact` | `SpiFlash!Spec => []BytesExact`, without traps |
| `CircuitImplementsPromise` | `SpiFlash!Spec => ImplementsPromise`, the refinement of `SpiPromise`, if `AccessGap > 1` |
| `PassIsSound`, `RejectIsSound` | `Ed25519Verifier!Spec => []PassIsForScratch`, `[]RejectIsForScratch` |
| `DigestIsExact` | `ShaSpec => []DigestExact` |
| `OnlySentIsAccepted`, `ReaderStaysInStep` | `AeadSession!Spec => []OnlySentAccepted`, `[]ReaderInStep` |
| `KeyStreamMeetsOnce`, `OneShotsAgree` | `AeadSession!Spec => []KeyStreamOnce`, `[]OneShotAgrees` |
| `TagsAreExact` | `AeadSession!Spec => []TagExact` |
| `StreamsAreExact` | `AeadSession!Spec => []StreamExact` |
| `SumsAreExact` | `AeadSession!Spec => []SumExact` |
| `ReductionsAreExact` | `CurveCalls!Spec => []ReduceExact` |
| `SignaturesHold` | `CurveCalls!Spec => []SignatureHolds` |
| `EquationsAreExact` | `CurveCalls!Spec => []EquationExact` |
| `MultiplesAreExact` | `CurveCalls!Spec => []MultiplesExact` |
| `EphemeralsAreExact` | `CurveCalls!Spec => []EphemeralExact` |
| `HashesAreExact` | `CurveCalls!Spec => []HashingExact` |
| `FillsAreExact` | `CurveCalls!Spec => []FillExact` |

Assumptions on the constants, all named and evaluated by TLC in every run of their module:
`ImagesAssumption` (manifest fields have their C types, a payload fits into the flash),
`MemoryAssumption` (the recovery entry is in DRAM), `NumbersAssumption` (the FIFO holds
something) and `BufferAssumption` (cleared or misplaced bytes are not a manifest, the
developer's key or a signature) for `BootRom`; `SizesAssumption`, `TransfersAssumption`
(transfers start inside the address space and are not empty, as the code sees to) and
`AddressAssumption` (the flash is a power of two in size; what powers of two are is stated,
because the provers do not know) for `SpiFlash`; `WordsAssumption` and `ImagesAssumption`
(no part is empty; what a missing file holds is not a word; buffers are words) for the
verifier; `MaxLengthAssumption` (it is a natural number) for SHA-256; for `AeadSession`
`SessionAssumption` (keys and texts are bytes, a caller's bytes are not key stream, and no
text outruns the block counter or the size field, both of 64 bits in the code) and
`SizesAssumption` (two sizes that fit into the size field have different bytes there) and
`LimbsAssumption` (the sums start where the code lets them: words in range, the top one at
most 4); `LimbAssumption` (`Poly1305`) and `PowersAssumption` (`ScalarL`), which say what
the powers of two and of the base are, `InverseAssumption` (L has the inverse that
Montgomery's division multiplies with), `ScalarLAssumption` (L lies between the base's
power N - 1 and an eighth of its power N, and is 5 modulo 8, as the code's L is);
for the curve `EncodingAssumption` (the bits that `fe_frombytes` reads hold every element of the field), `FieldAssumption` (P is a prime that is 5 modulo 8, by Fermat's little
theorem, and `sqrtm1` a root of -1), `CompleteAssumption` (d is not a square),
`WidthAssumption` (scalars have whole limbs and at most 256 bits, windows 2 to 8, and both
combs the same distance of teeth), `BasePointAssumption` and `LowOrderAssumption` (the base
point has order L, the low-order point order 8, and the code's constants `lop_x`, `lop_y`
and `DirtyBase` are made of them), `MontgomeryAssumption` (-(A + 2) is a square, which makes
v^2 = u^3 + A u^2 + u the Montgomery form of the curve and not of its twist),
`OrderAssumption` (L is a prime, by Fermat's little theorem, and so close above a power of
two that a trimmed scalar is never a multiple of it);
`CallsAssumption` (points are on the curve with an order that divides 8 L, a stream holds
scalars, encodings are what they are called, and the numbers given to the reductions fit into the bytes they are given in), `TextsAssumption` (what is hashed is bytes, a key fits into a block, Argon2 has four
inputs), `Blake2bAssumption` (a block is whole words, and fewer bytes than a word of the
offset counts), `Argon2Assumption` (a digest has two halves, as has a word) and
`ArgonAssumption` (what monocypher.h:160-162 asks of a configuration, and that the blocks
of a lane and the halves of an index seed are numbers of 32 bits). The provers know
nothing of powers; TLC evaluates what is assumed of them. The idealised cryptography is in
the definitions: `Sha256`, `Sign` and `SignatureOk`, and in the library's modules what section
2 says of key stream, hashes and tags.

**BootRom.** `HandoffVerified` speaks of the kernel step only and is far from
inductive: the step before it sees cleared buffers and knows nothing. `IInv` adds, for
every program point, what the checks behind it have established (`StageInv`): the header
is good once past stage 0, the key is the developer's once past stage 1, the manifest is
`Authentic` once past stage 2, load parameters are sane during the kernel transfer, the
kernel in DRAM is `Installed` once hashed, and from `clear_scratch` on *some* release is
installed at the version of the counter (`SomeRelease`: the buffers that named it are gone). Each of those
facts survives exactly because the program point is lost on a trap: a restart goes to
`_start`, about which `StageInv` claims nothing. `TransferInv` bounds the driver and the
controller in a transfer; without it neither `TypeOK` nor "the kernel ends before the top
of DRAM" is inductive. `ControlInv` gives `mtvec` and the PMP at every point; it is what
tells where a trap goes, and that the kernel's stores meet a locked PMP. `StatusInv` does
the same for the status register. Two more invariants are for boots without unexpected
faults: `FaultFreeInv` gives the exact contents of the status register at every point, and
`CleanInv` what the controller still has to deliver at every point of the driver.
`BootRomProofs` has one lemma per action and then `NextIInv`, `Invariance` and the theorems.

**SpiFlash.** The invariant is a chain, each link proved with the help of those before.
`LinkInv` gives, for each state of the master, the wires and where the slave is: the slave
has the bits sent so far, and in the data phase it is one bit ahead of the master or one
behind, depending on the last two values of SCLK. `DriverInv` says that two cycles after
CLEAR_DONE nothing is left of an earlier transfer, which is where `AccessGap > 1` enters;
`DoneInv` ties the sticky bit to the master's. `CollectInv` says that the bits, bytes and
word collected are those of the flash; `QueueInv`, that buffer, FIFO and what the master
still holds are together the bytes asked for.

**Verifier and SHA-256.** For the verifier, `StreamInv` says what each point of the driver
has achieved: after CLEAR the index equals the words sent and the buffer holds them,
whatever was there before; with all of them sent START judges the boot buffers and nothing
else. CLEAR is what makes it inductive over `Restart`. For SHA-256, `StreamInv` says that
the compressed blocks and the buffer together are the message so far; `TypeOK` adds that
the buffer is never full between two turns, without which `sha256_final` would write behind
it. `DigestExact` follows in the step of `Final`, by cases on whether the length still fits
into the block.

**AEAD.** Two facts carry everything. `TagSeparate`: equal tags come from equal tag keys,
additional data and ciphertexts, because padding to blocks and the two sizes determine
where each part ends (`FramedSeparate`), because the blocks of a tag determine the
message (`BlocksSeparate`), and because, however the library cuts its input, those are the
blocks (`UpdatedHolds`, `FinalIs`). And `SessionInv`: there is a chain of contexts, one for
every message, each made from the one before and all with different keys; every record
was made by its place in the chain, the writer holds the context behind the last record,
the reader the one behind the last record it took. A record that arrives is then accepted
only if its tag is that of the reader's place, which only the record written there has;
otherwise the reader stays where it is. `KeyStreamMeetsOnce` needs the keys of the chain to
differ and the counter not to come around (`MetOnce`), and that the block of the keys
lies in front of those of the text (`MetIsNoKey`).

A stream in pieces (`StreamExact`) is the same bytes of key stream as in one call: whatever
a piece leaves of its last block is not used, so that pieces other than the last have to be
filled up to whole blocks, and the counter behind a piece is the counter before it plus
the blocks begun, modulo both words together (`StreamPieces`). That the carry between the
two words is right is `TwoDigits` and the lemmas on `chacha20`'s counter.

**Arithmetic.** `SumExact` and `ReduceExact` are about numbers in limbs, and both proofs
go through the number the limbs stand for. For Poly1305: the five columns of the product
are the product's digits before carrying, and small enough for a double word; four carries
keep the number; what is above 2^130 comes back times 5, which leaves the number the same
modulo 2^130 - 5 and the top limb at most 4, the invariant from block to block; the last
reduction adds 5, looks whether that reaches 2^130, and subtracts. The reference product
modulo p is a recursion by doubling, shown equal to `%` by `Doubling`. For the scalars:
the value of limbs is a weighted sum (`Val`), which carrying keeps (`CarriedIs`), a
schoolbook product multiplies (`ProductIs`) and complementing subtracts; Barrett's quotient
is too small by at most two (`Barrett`), so that two conditional subtractions of L are
enough (`ModIs`), with every intermediate result inside its limbs; in Montgomery's division
the low half of x + k L vanishes (`Montgomery`), and what is left is below 2 L
(`RedcIs`). These are nonlinear, and the provers do not multiply: every product is named,
and one lemma each says what is known of it.

**The curve.** The group law is not assumed, it is proved: that the sum of two points is a
point (`SumClosed`), that no denominator is zero because d is not a square (`Complete`),
and that addition is associative (`Associates`). For the last, both ways of adding three
points are put over a common denominator, and what their difference vanishes by, the three
curve equations, is factored out one equation at a time (`Off` is how far a pair is from the
curve); the provers check polynomial identities over the integers, and `El` carries them
to the field. A multiple is then a recursion with `MultSum` and `MultTimes`, and `Times`, by
which the properties are stated, is shown to be it (`TimesIs`). Extended coordinates stand
for a point by `Rep`, and each formula of the code (`ge_add`, `ge_double`, ...) is shown to
keep it, never with Z = 0.

**Signatures.** `SlideHolds` says of the windows that their digits have the scalar's value, by
an invariant of the scan from the top: once a window is passed, the sum of the digits met is
the scalar's bits above, rounded (`WindowIs`, `SlideInv`); then the double multiplication of `crypto_eddsa_check_equation`
follows both recodings at once with a multiple of each point, and three doublings of the
difference are zero exactly when 8 times it is (`EquationIs`). That `Decoded` gives the
point of an encoding needs the inverse square root: of u and its quarter turn one has a root
(`InvSqrt`). `SignInv` ties keys and signatures to the hashes asked for: R is r B, S is
r + h a modulo L, and so S B = R + h A; with S + 1 the difference is the base point, of which
8 times is not zero.

**Multiples.** For the combs, the signs of the bits of a scalar recoded to be odd sum to the
scalar (`ScalarBaseIs`), each table entry is the multiple that the bits of its index say, and
the two halves of the comb add up. For the ladder, every form of a u coordinate is read as the same element (`FormsRead`), and a step takes the u coordinates of two
multiples that differ by the point to those of twice the one and of the sum
(`LadderAdvance`); these are the differential formulas of the Montgomery form, proved from
the group law of the Edwards form through u = (1 + y) / (1 - y). The zero point and the
point of order 2 have u = 0, there both denominators become 0 and stay 0
(`LadderOnAxis`), and the inversion makes 0 of it, which is what the reference says.

**Dirty keys.** Both functions give the u coordinate of the scalar's multiple of the base
point plus a multiple of the low-order point (`DirtyFast`, `DirtySmall`). The one looks the
latter up among eight points, whose coordinates are chosen by masks (`SelectIs`) and are
those multiples (`LowTimes`); the other folds it into the scalar: `add_xl` adds the multiple
of L, a number that is 5 modulo 8, that makes the low three bits come out right, and
its base point is `B` plus five times the low-order point (`DirtyScalar`).

**Division.** The scalar that `crypto_x25519_inverse` multiplies with is the inverse modulo L
by Fermat: the loop keeps the powers in Montgomery form (`NextPowerIs`,
`MontgomeryInverseIs`), and `add_xl` makes a multiple of 8 of it that has the same residue
(`DivisorIs`). Times the scalar it is 1 modulo L and 0 modulo 8, so that multiplying and dividing
leaves a point without its low-order part (`InverseHolds`).

**Elligator.** What is a square decides every branch: a number or its product with a
non-square is one (`NonSquares`), and 2 and the root of -1 are none (`TwoNotSquare`,
`RootNotSquare`). From this follow `MapOnCurve` (the result of the map is the u coordinate of
a point), `MapUnique` (of the two values the map may return for a representative, only one is), `RevMaps` (what the reverse map returns is mapped back) and `MapRev` (and it
fails on no point that a representative is mapped to). `HiddenKey`
joins the two: for a dirty key that has a representative, the map returns the key, and
a multiple by a trimmed scalar is that of the clean key (`EightCleans`); it needs that no
dirty key is of low order (`DirtyOffAxis`), for there the two maps disagree.

**Hashing.** What a BLAKE2b context holds is a function of the bytes hashed so far
(`Stored`): the full blocks before the last byte are compressed, each with the offset of
its end, and the buffer holds the rest, never nothing if there was any byte, followed by
zeros. Each of the four parts of `crypto_blake2b_update` keeps that
(`AlignWordIs`, `AlignBlockIs`, `WholeBlocksIs`, `RemainderIs`), the middle two because
they leave the buffer full or at a word's start, the last because it clears a buffer before
it ORs bytes into it; so `UpdateIs` says that an update appends, `PiecesIs` follows by
induction on the pieces, and `FinalIs` compares the last block with the RFC's. The carry
of the offset is `OffsetCounts`. For a long digest, `ExtendsIs`: after each round the first
half of each hash is in place and the whole of the last one, which is what the next is made
from. For Argon2, a digest determines the bytes hashed (`DigestsDiffer`, from the offset
of the last block and the blocks), and these the inputs, one after another, because each
is preceded by its length (`ParsedIs`).

**Filling.** The segments are numbered in the order of the loops (pass, slice, lane), and
each block of a lane has a number of its own over all passes (`Time`). `PlacesAre`: step
`Nth` computes a given block of a given segment, and `TimeOrders`: within a lane the steps
are in the order of these numbers, so that `PreviousThere` and "has been computed" become
comparisons of numbers. A place in memory is a lane and a number modulo the size of a lane
(`CurrentIs`), two numbers less than a round apart are two places (`SpotsApart`).
`WindowIs` shows that the set RFC 9106 describes is an interval that ends two blocks before
the current one, starts no more than three segments before the current segment and is never
empty; `WindowSizeIs` and `WindowStartIs` that the code's size, through `(u32)-1` and the
wrap at 2^32, and its start are that interval's; `ReferenceIs` that both then choose the
same member. The rest is reading off: it is there (`ReferenceThere`), it is neither the
current block nor the previous one (`ReferenceApart`), and one in the slice being filled is
an earlier one of the same segment (`ReferenceBack`). A word of indices determines segment
and block (`SeedsApart`).

Recursion over data is out of the prover's reach as long as it needs an induction theorem
with a predicate as parameter. `Numbers` states induction for sets instead (`Least`,
`InductionTo`, from the well-foundedness of `<`): the set of counterexamples has no least
element. That is how the proofs reason about recursive functions such as `Updated`.

Only model-checked: liveness (`BootSettles`, `AdvanceReachesKernel`, `TransferReturns`),
which needs fairness and is out of the prover's reach. Every safety property of the passing
runs, state or action, is the statement of a theorem above.

## 5. Findings

Disagreements between documentation and code met while modelling; each is a run that TLC
refutes, and a `findings` entry with the quotation.

1. `bootrom_dead_loop`: README section 5's failure mode says `mtvec` is the recovery entry
   before any verification begins; the code leaves `mtvec = _start` until `enter_recovery`
   or `lock_pmp`. A signed kernel that ends past DRAM makes the copy loop trap on every
   pass, for ever.
2. `bootrom_entry_point`: the README and a test's comment say `mepc` is the manifest's
   `entry_point`; the code passes the constant `0x80000000`. A release that loads elsewhere
   is verified there, and something else is entered.
3. `ed25519_unopened`: `Ed25519VerifierSim.sv` sets the error flag when it cannot open one
   of its files, and then goes on: the verdict of the external tool overwrites the flag, and
   that tool judges what the file held before, so the error is lost and the verdict is not
   about the words just streamed. It concerns the simulation model, the only verifier in
   the repository.

`docs/PROGRESS.md` also says that the SPI master hangs in the second or a later transfer
and that this bug is still in `spi_flash.scala`. In the state machine as it is written,
transfers follow each other without end (`TransferReturns`); whatever the cause of that
hang was, it is not there. What can go wrong is a transfer begun after a trap: it finds
left-over words in the FIFO (`TransfersStartClean` is about boots without traps).

README section 7 and the comment at `bootrom.c:505-508` say that the BootROM is not
accessible after the handoff; `lock_pmp` writes entry 0 as locked, readable and
executable (`0x9D`), so the ROM can still be read and executed by the kernel. What the
entry does prevent is writing. This follows from one constant and has no run.

Documented limits that hold by design and carry no property: the rollback counter is a
register and falls back to `resetValue` at reset, so anti-rollback does not extend across
resets; the `SPI_ERROR` branch of the driver is never taken by this controller; the
read-back failure branch of `check_rollback_counter` is unreachable with this register.

## 6. Not modelled

* MonoCypher: the rounds of ChaCha20, BLAKE2b and Argon2 and the contents of Argon2's
  blocks, which have no control to check; the limbs of field elements (`fe_*`): ten signed
  limbs with carries among all of them leave TLC too many values to be of use; constant time and
  wiping, which no state of these models shows.
* SHA-256: `sha256_block`, 32-bit arithmetic without control.
* `make_napot` and the PMP's address match: entries are taken to cover what their names
  say.
* The order of building, hashing, signing and staging in `tools/` and
  `integrate_to_chipyard.sh`: the scripts keep no state, and whether an artefact is stale
  depends on files outside the repository.
* The MSIP handshake with harts other than hart 0: `SecureBootConfig` has one core.
* Chipyard elaboration, UART text, the RTL test benches and the test scripts; the stub
  `ed25519.c`, which has no callers; micro-architectural side channels.
* Composition is by refinement and by words: `BootRom` takes the SPI controller in the
  form of `SpiPromise`, which `SpiFlash` implements, but counts blocks where `SpiPromise`
  counts words; and `StreamEd25519` is justified by `Ed25519Verifier`'s properties, not by
  an `INSTANCE` of it.
