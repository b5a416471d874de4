----------------------------- MODULE SecureBoot ------------------------------
(***************************************************************************)
(* What the boot chain promises, without its steps.  A release is a        *)
(* manifest the developer has signed; it is approved while its payload is  *)
(* the code in memory.  Only an approved release may advance the rollback  *)
(* counter or be run, and it runs with the counter at its version, so that *)
(* none older runs before the next reset.  Everything else ends in         *)
(* recovery, from which only a reset leads back.                           *)
(***************************************************************************)
EXTENDS Integers

CONSTANTS Releases,   \* the signed manifests
          ResetValue  \* the rollback counter after a reset

VARIABLES phase, approved, counter
vars == <<phase, approved, counter>>

Init ==
  /\ phase = "booting"
  /\ approved \in SUBSET Releases
  /\ counter = ResetValue

\* Memory changes while the boot code runs, and with it what is approved.
Transfer ==
  /\ phase = "booting"
  /\ approved' \in SUBSET Releases
  /\ UNCHANGED <<phase, counter>>

Advance ==
  /\ phase = "booting"
  /\ \E r \in approved : r.version > counter /\ counter' = r.version
  /\ UNCHANGED <<phase, approved>>

Handoff ==
  /\ phase = "booting"
  /\ \E r \in approved : r.version = counter
  /\ phase' = "running"
  /\ UNCHANGED <<approved, counter>>

Divert ==
  /\ phase \in {"booting", "running"}
  /\ phase' = "recovery"
  /\ UNCHANGED <<approved, counter>>

Reset ==
  /\ phase' = "booting"
  /\ counter' = ResetValue
  /\ UNCHANGED approved

Next == Transfer \/ Advance \/ Handoff \/ Divert \/ Reset

Spec == Init /\ [][Next]_vars

-----------------------------------------------------------------------------
TypeOK ==
  /\ phase \in {"booting", "running", "recovery"}
  /\ approved \in SUBSET Releases
  /\ counter \in Nat

\* Whatever runs is a signed release, in memory, and the counter shows its version.
RunsApprovedRelease ==
  phase = "running" => \E r \in approved : r.version = counter
=============================================================================
