----------------------------- MODULE MCSpiFlash ------------------------------
(* Small transfers for SpiFlash: three-bit addresses, two-bit bytes, words of
   two bytes.                                                              *)
EXTENDS SpiFlash

MCReadCommand == <<FALSE, TRUE, TRUE>>
\* Less than a word, a word and a half, one that runs over the end of the flash and
\* fills the FIFO; the last has the high address bit set, which the memory ignores.
MCTransfers == {[addr |-> 0, len |-> 1], [addr |-> 1, len |-> 3], [addr |-> 3, len |-> 8],
                [addr |-> 6, len |-> 2]}
\* For the runs with traps.
MCTrapTransfers == {[addr |-> 1, len |-> 3], [addr |-> 2, len |-> 5]}
=============================================================================
