--------------------------- MODULE Ed25519Verifier ---------------------------
(***************************************************************************)
(* The Ed25519 verifier of hardware/ed25519 with its index, buffer, status *)
(* and the three files its simulation model hands to                       *)
(* tools/verify_ed25519_from_files.py, and check_manifest_signature, which *)
(* streams the boot parts into it word by word.  A step is one register    *)
(* access.  The hart may be thrown back to _start between any two of them, *)
(* with or without a reset of the chip; the files outlive both.            *)
(*                                                                         *)
(* BUSY is left out: it is overwritten in the cycle that sets it.  So is   *)
(* COUNT, which nobody reads.                                              *)
(***************************************************************************)
EXTENDS Integers

CONSTANTS
  ManifestWords, SignatureWords, PublicKeyWords,   \* sizes of the three parts
  Words,         \* values of a word
  Missing,       \* a word of a file that does not exist
  Images,        \* what the three boot buffers may hold
  Signed,        \* those whose signature is valid for their manifest and key
  FilesMayFail   \* may $fopen fail

Total == ManifestWords + SignatureWords + PublicKeyWords
Index == 0 .. (Total - 1)
Parts == {"manifest", "signature", "public_key"}

ASSUME WordsAssumption ==
  /\ ManifestWords \in Nat \ {0} /\ SignatureWords \in Nat \ {0} /\ PublicKeyWords \in Nat \ {0}
  /\ Missing \notin Words
ASSUME ImagesAssumption ==
  /\ Images \subseteq [Index -> Words] /\ Images # {}
  /\ Signed \subseteq [Index -> Words]
  /\ FilesMayFail \in BOOLEAN

VARIABLES
  idx, buffer, status,     \* the verifier; idx counts words
  files,                   \* the three files, end to end
  failed,                  \* the files the last START could not open
  dpc, sent, scratch       \* the driver, and the boot buffers it streams

verifier == <<idx, buffer, status, files, failed>>
vars     == <<verifier, dpc, sent, scratch>>

PartOf(k) == IF k < ManifestWords THEN "manifest"
             ELSE IF k < ManifestWords + SignatureWords THEN "signature"
             ELSE "public_key"

-----------------------------------------------------------------------------
(* The verifier.                                                           *)

Verdict(contents) == IF contents \in Signed THEN {"DONE", "PASS"} ELSE {"DONE", "ERROR"}

\* The files after write_file, if those in f cannot be opened; the key is forgotten.
Written_KeepsKey(f) ==
  [k \in Index |-> IF PartOf(k) \in f \cup {"public_key"} THEN files[k] ELSE buffer[k]]

\* The files after write_file, if those in f cannot be opened.
Written(f) == [k \in Index |-> IF PartOf(k) \in f THEN files[k] ELSE buffer[k]]

\* CLEAR that leaves the index where it is.
Clear_KeepsIndex ==
  /\ status' = {}
  /\ UNCHANGED <<idx, buffer, files, failed>>

Clear ==
  /\ idx' = 0 /\ status' = {}
  /\ UNCHANGED <<buffer, files, failed>>

Data(word) ==
  /\ IF idx < Total
     THEN buffer' = [buffer EXCEPT ![idx] = word] /\ idx' = idx + 1 /\ UNCHANGED status
     ELSE status' = {"ERROR"} /\ UNCHANGED <<buffer, idx>>
  /\ UNCHANGED <<files, failed>>

\* write_file's error is overwritten by the verdict on what the files then hold.
Start ==
  /\ IF idx # Total
     THEN status' = {"ERROR"} /\ UNCHANGED <<files, failed>>
     ELSE /\ failed' \in IF FilesMayFail THEN SUBSET Parts ELSE {{}}
          /\ files' = Written(failed')
          /\ status' = Verdict(files')
  /\ UNCHANGED <<idx, buffer>>

-----------------------------------------------------------------------------
(* check_manifest_signature.                                               *)

\* read_boot_parts has filled the buffers and stages 0 and 1 have passed.
Call ==
  /\ dpc = "boot"
  /\ scratch' \in Images
  /\ dpc' = "clear"
  /\ UNCHANGED <<verifier, sent>>

WriteClear ==
  /\ dpc = "clear"
  /\ Clear
  /\ sent' = 0 /\ dpc' = "data"
  /\ UNCHANGED scratch

\* One word too many.
WriteData_OneMore ==
  /\ dpc = "data"
  /\ Data(scratch[sent % Total])
  /\ sent' = sent + 1
  /\ dpc' = IF sent < Total THEN dpc ELSE "start"
  /\ UNCHANGED scratch

WriteData ==
  /\ dpc = "data"
  /\ Data(scratch[sent])
  /\ sent' = sent + 1
  /\ dpc' = IF sent' < Total THEN dpc ELSE "start"
  /\ UNCHANGED scratch

WriteStart ==
  /\ dpc = "start"
  /\ Start
  /\ dpc' = "poll"
  /\ UNCHANGED <<sent, scratch>>

\* Without DONE the poll is repeated, until MAX_SPIN is exceeded.
PollStatus ==
  /\ dpc = "poll"
  /\ dpc' \in IF "ERROR" \in status THEN {"recovery"}
              ELSE IF "DONE" \notin status THEN {"poll", "recovery"}
              ELSE IF "PASS" \in status THEN {"passed"} ELSE {"recovery"}
  /\ UNCHANGED <<verifier, sent, scratch>>

\* A trap to _start, or a reset of the chip.
Restart ==
  /\ dpc' = "boot"
  /\ \/ UNCHANGED <<idx, status>>
     \/ idx' = 0 /\ status' = {}
  /\ UNCHANGED <<buffer, files, failed, sent, scratch>>

Init ==
  /\ idx = 0 /\ status = {} /\ failed = {}
  /\ buffer \in [Index -> Words]   \* a memory without a reset value
  /\ files \in Images \cup {[k \in Index |-> Missing]}
  /\ dpc = "boot" /\ sent = 0 /\ scratch \in Images

Next == Call \/ WriteClear \/ WriteData \/ WriteStart \/ PollStatus \/ Restart

Spec == Init /\ [][Next]_vars

-----------------------------------------------------------------------------
(* Properties.                                                             *)

\* Types; the index stays within the 192 bytes, and the driver within its buffers.
TypeOK ==
  /\ idx \in 0 .. Total /\ buffer \in [Index -> Words]
  /\ status \in {{}, {"ERROR"}, {"DONE", "PASS"}, {"DONE", "ERROR"}}
  /\ files \in [Index -> Words \cup {Missing}]
  /\ failed \in SUBSET Parts
  /\ dpc \in {"boot", "clear", "data", "start", "poll", "passed", "recovery"}
  /\ sent \in 0 .. Total /\ scratch \in Images
  /\ dpc = "data" => sent < Total

\* check_manifest_signature returns only if the buffers of this boot are validly
\* signed, whatever an earlier boot streamed, judged or left in the files; provided
\* the files could be opened.
PassIsForScratch == dpc = "passed" /\ failed = {} => scratch \in Signed

\* And it diverts to recovery only if they are not: no earlier, cut off attempt makes
\* the verifier refuse a good image.
RejectIsForScratch == dpc = "recovery" /\ failed = {} => scratch \notin Signed

\* Ed25519VerifierSim.sv: a file that cannot be opened is an error.
UnopenedFileIsError == dpc = "poll" /\ failed # {} => "ERROR" \in status

\* What check_manifest_signature has achieved at each of its points: up to START the
\* verifier holds exactly the words sent, after it the verdict on the boot buffers.
StreamInv ==
  /\ dpc \in {"data", "start"} => /\ idx = sent
                                  /\ \A k \in 0 .. (sent - 1) : buffer[k] = scratch[k]
  /\ dpc = "start" => sent = Total
  /\ dpc = "poll" /\ failed = {} => status = Verdict(scratch)
=============================================================================
