------------------------------ MODULE MCBootRom ------------------------------
(* Small flash images for BootRom: the ones tests/ builds and some more.   *)
EXTENDS BootRom, TLC

CONSTANTS k1, k2, rec,     \* kernel code, recovery code
          other, junk      \* another key; bytes that are no signature or digest

MCBlocks  == {k1, k2, rec}
\* FESVR loads kernel.riscv always, the recovery image only with +payload.
MCPreloads == {<<k1, k1, rec, k1, k1>>, <<k1, k1, k1, k1, k1>>}

Manifest(version, size, load, entry, kernel) ==
  [magic |-> "MANIFEST_MAGIC", header_version |-> 1, version |-> version,
   payload_size |-> size, load_address |-> load, entry_point |-> entry,
   payload_hash |-> Sha256([j \in 1 .. size |-> kernel[j]])]

Signed(man, key, kernel) ==
  [manifest |-> man, signature |-> Sign(key, man), public_key |-> key, kernel |-> kernel]

Kernel1 == <<k1, k2>>
Kernel2 == <<k2, k2>>

Release(version, kernel) == Signed(Manifest(version, 2, 1, 1, kernel), DeveloperKey, kernel)

Old       == Release(0, Kernel2)
Good      == Release(1, Kernel1)
Newer     == Release(2, Kernel2)
Tampered  == [Newer EXCEPT !.kernel = Kernel1]
BadMagic  == [Good EXCEPT !.manifest.magic = "junk"]
BadHeader == [Good EXCEPT !.manifest.header_version = 2]
BadSig    == [Good EXCEPT !.signature = junk]
Edited    == [Good EXCEPT !.manifest.version = 3]
OtherKey  == Signed(Good.manifest, other, Kernel1)
Empty     == Signed(Manifest(1, 0, 1, 1, Kernel1), DeveloperKey, Kernel1)
Low       == Signed(Manifest(1, 2, 0, 1, Kernel1), DeveloperKey, Kernel1)
High      == Signed(Manifest(2, 2, 4, 4, Kernel2), DeveloperKey, Kernel2)
PastTop   == Signed(Manifest(1, 2, 5, 5, Kernel1), DeveloperKey, Kernel1)
Outside   == Signed(Manifest(1, 2, 6, 6, Kernel1), DeveloperKey, Kernel1)

\* Every image class of the test suite, and a release that loads elsewhere.
AllImages   == {Old, Good, Newer, Tampered, BadMagic, BadHeader, BadSig, Edited,
                OtherKey, Empty, Low, High, PastTop, Outside}
\* Rewriting the flash between these two yields every mix of their parts, a kernel
\* that is not the manifest's among them.
FaultImages == {Good, Newer}
FittingImages == {Good, Newer, Tampered, BadSig}
HighImages  == {Good, High}
PastTopImages == {Good, PastTop}
=============================================================================
