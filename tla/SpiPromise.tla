------------------------------ MODULE SpiPromise -----------------------------
(***************************************************************************)
(* What the SPI controller promises its driver, without wires: a started   *)
(* transfer puts each word of the flash range into the FIFO once and in    *)
(* order, waits while the FIFO is full, and is done only after the last.   *)
(* BootRom.tla uses the controller in this form, counted in blocks.        *)
(***************************************************************************)
EXTENDS Integers, Sequences

CONSTANTS Transfers,   \* the ranges the driver may ask for: records addr, len
          WordBytes,   \* bytes of a FIFO word
          FifoDepth,   \* words the FIFO holds
          Content(_)   \* the byte at an address

VARIABLES next,   \* address of the next byte to deliver
          left,   \* bytes still to deliver
          busy, done,
          fifo    \* words delivered and not yet read
vars == <<next, left, busy, done, fifo>>

Init == next = 0 /\ left = 0 /\ busy = FALSE /\ done = FALSE /\ fifo = <<>>

\* The bytes of the next word; the last one may be short.
WordSize == IF left < WordBytes THEN left ELSE WordBytes
NextWord == [i \in 1 .. WordSize |-> Content(next + i - 1)]

Start ==
  /\ ~busy
  /\ \E t \in Transfers : next' = t.addr /\ left' = t.len
  /\ busy' = TRUE /\ done' = FALSE
  /\ UNCHANGED fifo

ClearDone ==
  /\ ~busy
  /\ done' = FALSE
  /\ UNCHANGED <<next, left, busy, fifo>>

\* What remains of the FIFO when the driver reads a word in the same cycle, or not.
AfterPop(pop) == IF pop THEN Tail(fifo) ELSE fifo
Pops == {p \in BOOLEAN : p => fifo # <<>>}

Deliver(pop) ==
  /\ left > 0
  /\ Len(fifo) < FifoDepth
  /\ fifo' = Append(AfterPop(pop), NextWord)
  /\ next' = next + WordSize /\ left' = left - WordSize
  /\ UNCHANGED <<busy, done>>

Finish(pop) ==
  /\ busy /\ left = 0
  /\ busy' = FALSE /\ done' = TRUE
  /\ fifo' = AfterPop(pop)
  /\ UNCHANGED <<next, left>>

Read ==
  /\ fifo # <<>>
  /\ fifo' = Tail(fifo)
  /\ UNCHANGED <<next, left, busy, done>>

Next == Start \/ ClearDone \/ Read \/ \E pop \in Pops : Deliver(pop) \/ Finish(pop)

Spec == Init /\ [][Next]_vars
=============================================================================
