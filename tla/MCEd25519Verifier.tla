------------------------- MODULE MCEd25519Verifier ---------------------------
(* Two releases signed with one key, and what can be made of their parts.   *)
EXTENDS Ed25519Verifier

CONSTANTS a1, a2, b1, sa, sb, k, k2   \* manifest words, signatures, keys

Image(m1, m2, s, key) == [i \in Index |-> CASE i = 0 -> m1 [] i = 1 -> m2 [] i = 2 -> s [] i = 3 -> key]

ReleaseA == Image(a1, a2, sa, k)
ReleaseB == Image(b1, a2, sb, k)

MCWords  == {a1, a2, b1, sa, sb, k, k2}
MCSigned == {ReleaseA, ReleaseB}
\* A manifest with another's signature; a release with a foreign key.
MCImages == MCSigned \cup {Image(b1, a2, sa, k), Image(a1, a2, sa, k2)}
=============================================================================
