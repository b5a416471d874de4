-------------------------------- MODULE MCAead --------------------------------
(* Short texts and counters for AeadSession: a block of key stream is 4 bytes, a
   counter word has 2 values, so that a text of two blocks carries and one of four
   wraps; a tag block is 4 bytes; limbs have 7 bits.                             *)
EXTENDS AeadSession

MCKey    == [o \in 1 .. KeyBytes |-> {<<"key", 1, o>>}]
MCNonces == [head : 0 .. (Word - 1), tail : {<<"n", 1>>}]

Text(n) == [i \in 1 .. n |-> {<<"text", i>>}]
\* No additional data, a zero byte (what the padding adds), a byte, more than a block.
MCADs    == {<<>>, <<Zero>>, Text(5)}
\* Nothing, a byte, three blocks with the last one cut: all but the block of the keys.
MCPlains == {<<>>, Text(1), Text(10)}

MCTexts == {<<Text(a), Text(b), Text(c)>> : a \in {0, 1, 3, 4, 5}, b \in {0, 1, 4, 8}, c \in {0, 3, 4}}

\* Limbs at the ends of their ranges.
Ends == {0, 1, Limb - 5, Limb - 1}
MCHashes == {<<a, b, b, c, d>> : a \in Ends, b \in {0, Limb - 1}, c \in Ends, d \in {0, 3, 4}}
MCRs     == {<<a, b, c, b>> : a \in {0, 3, 5, Limb - 1}, b \in {0, 4, Limb - 1}, c \in {4, Limb - 1}}
MCBlocks == {<<a, b, b, a>> : a \in {0, 1, Limb - 1}, b \in {0, Limb - 1}}
=============================================================================
