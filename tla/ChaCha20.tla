------------------------------- MODULE ChaCha20 -------------------------------
(***************************************************************************)
(* The stream cipher of software/crypto/src/monocypher.c: which block of   *)
(* key stream each byte meets, and the counter a call returns.  The twenty *)
(* rounds are left out: a byte of key stream is known by the input of its  *)
(* block and its offset there.  A byte is a set of atoms and XOR is the    *)
(* symmetric difference, so that the zero byte is {} and a key stream      *)
(* applied twice cancels.                                                  *)
(***************************************************************************)
EXTENDS Integers, Sequences

CONSTANTS Word,   \* the values of a u32 (2^32)
          Block   \* the bytes of a block of key stream (64), half of them a key

ASSUME ChaCha20Assumption ==
  /\ Word \in Nat \ {0}
  /\ Block \in Nat \ {0} /\ Block % 2 = 0

Xor(a, b) == (a \ b) \cup (b \ a)
Zero      == {}
Zeros(n)  == [i \in 1 .. n |-> Zero]
KeyBytes  == Block \div 2

\* One block of key stream: chacha20_rounds and the addition of the input.
KeyStream(input) == [o \in 1 .. Block |-> {<<"stream", input, o>>}]

\* The hash of a key and 16 bytes that gives the extended-nonce variants their key.
crypto_chacha20_h(key, in) == [o \in 1 .. KeyBytes |-> {<<"hash", <<key, in>>, o>>}]

\* The input block for a 64-bit counter: its two words are input[12] and input[13].
Input(key, nonce, ctr) ==
  [key |-> key, nonce |-> nonce, lo |-> ctr % Word, hi |-> (ctr \div Word) % Word]

\* The counter of the next block when the low word's overflow is not carried.
Increment_NoCarry(input) == [input EXCEPT !.lo = (@ + 1) % Word]

Increment(input) ==
  LET lo == (input.lo + 1) % Word
  IN [key |-> input.key, nonce |-> input.nonce, lo |-> lo,
      hi |-> IF lo = 0 THEN (input.hi + 1) % Word ELSE input.hi]

\* The counter returned when the last, incomplete block is not counted.
NextCounter_Whole(input, rest) == input.lo + input.hi * Word

\* The counter a call returns: that of the first block it has not touched.
NextCounter(input, rest) ==
  (input.lo + input.hi * Word + (IF rest > 0 THEN 1 ELSE 0)) % (Word * Word)

\* A text with no bytes of its own (plain_text = 0) is Zeros(n).
crypto_chacha20_djb(text, key, nonce, ctr) ==
  LET nb_blocks == Len(text) \div Block
      input[b \in 0 .. nb_blocks] ==
        IF b = 0 THEN Input(key, nonce, ctr) ELSE Increment(input[b - 1])
  IN [cipher |-> [i \in 1 .. Len(text) |->
                    Xor(text[i], KeyStream(input[(i - 1) \div Block])[((i - 1) % Block) + 1])],
      ctr    |-> NextCounter(input[nb_blocks], Len(text) % Block)]

\* The nonces of the other variants: the word or the 16 bytes in front of the 8 bytes
\* djb takes.
crypto_chacha20_ietf(text, key, nonce, ctr) ==
  LET done == crypto_chacha20_djb(text, key, nonce.tail, (ctr + nonce.head * Word) % (Word * Word))
  IN [done EXCEPT !.ctr = @ % Word]

crypto_chacha20_x(text, key, nonce, ctr) ==
  crypto_chacha20_djb(text, crypto_chacha20_h(key, nonce.head), nonce.tail, ctr)
=============================================================================
