----------------------------- MODULE AeadSession ------------------------------
(***************************************************************************)
(* Authenticated encryption of software/crypto/src/monocypher.c: a writer  *)
(* and a reader whose contexts are re-keyed by every message, and between  *)
(* them a channel that loses, repeats, reorders and damages records.  The  *)
(* cipher and the authenticator below it keep no state from one call to    *)
(* the next; `call` holds the last call of one of them with its result.    *)
(***************************************************************************)
EXTENDS ChaCha20, Poly1305, SequencesExt

CONSTANTS Key, Nonces,   \* the key, and nonces [head, tail] of the widest variant
          ADs, Plains,   \* additional data and texts
          MaxMessages,   \* bound of the messages of a session
          Texts,         \* texts in pieces, for the calls of the layers below
          Hashes, Rs, Blocks  \* limbs of h, of r and of a block, for poly_blocks

VARIABLES opened,          \* how the session was opened, or "no"
          writer, reader,  \* crypto_aead_ctx
          net,             \* the records written, in order
          sent, got,       \* the messages written, and those read
          mismatch,        \* the result of the last crypto_aead_read
          call             \* the last call of a layer below, or "none"
vars == <<opened, writer, reader, net, sent, got, mismatch, call>>

\* Sizes that fit into the bytes there are for one.
Sizes == 0 .. (16 ^ (PolyBlock \div 2) - 1)

Junk == [i \in 1 .. PolyBlock |-> {<<"junk", i>>}]

-----------------------------------------------------------------------------
(* The library's functions.                                                *)

\* A size as PolyBlock / 2 bytes, least significant first.
SizeBytes(n) ==
  [i \in 1 .. PolyBlock \div 2 |->
     LET d == (n \div 16 ^ (i - 1)) % 16 IN IF d = 0 THEN Zero ELSE {<<"digit", d>>}]

\* A text is a sequence of bytes; the atoms of key stream are none of a caller's.
IsBytes(bytes)   == bytes \in Seq(Range(bytes))
NotStream(bytes) == \A i \in DOMAIN bytes : \A atom \in bytes[i] : atom[1] # "stream"

\* No text has more blocks than the counter behind that of the keys, nor a size that does
\* not fit its bytes, not even with a byte more.
ASSUME SessionAssumption ==
  /\ MaxMessages \in Nat
  /\ IsBytes(Key) /\ Len(Key) = KeyBytes /\ NotStream(Key)
  /\ \A nonce \in Nonces : nonce.head \in 0 .. (Word - 1)
  /\ \A ad \in ADs : IsBytes(ad)
  /\ \A plain \in Plains :
       IsBytes(plain) /\ NotStream(plain) /\ Len(plain) <= Block * (Word * Word - 1)
  /\ \A ad \in ADs, plain \in Plains : Len(ad) + Len(plain) + 1 \in Sizes
  /\ \A pieces \in Texts :
       IsBytes(pieces) /\ \A k \in DOMAIN pieces : IsBytes(pieces[k])

\* The code holds h below 5 * 2^128 from one block to the next, the r and the blocks a
\* caller gives are any.
ASSUME LimbsAssumption ==
  /\ \A h \in Hashes : h \in [1 .. 5 -> 0 .. (Limb - 1)] /\ h[5] <= 4
  /\ \A t \in Rs \cup Blocks : t \in [1 .. 4 -> 0 .. (Limb - 1)]

ASSUME SizesAssumption == \A m, n \in Sizes : SizeBytes(m) = SizeBytes(n) => m = n

\* The tag when the sizes are left out.
lock_auth_NoSizes(auth_key, ad, cipher) ==
  crypto_poly1305_final(
    Updated(crypto_poly1305_init(SubSeq(auth_key, 1, KeyBytes), Junk),
            <<ad, Zeros(gap(Len(ad), PolyBlock)), cipher, Zeros(gap(Len(cipher), PolyBlock))>>))

lock_auth(auth_key, ad, cipher) ==
  crypto_poly1305_final(
    Updated(crypto_poly1305_init(SubSeq(auth_key, 1, KeyBytes), Junk),
            <<ad, Zeros(gap(Len(ad), PolyBlock)), cipher, Zeros(gap(Len(cipher), PolyBlock)),
              SizeBytes(Len(ad)) \o SizeBytes(Len(cipher))>>))

crypto_aead_init_x(key, nonce) ==
  [key |-> crypto_chacha20_h(key, nonce.head), nonce |-> nonce.tail, counter |-> 0]

crypto_aead_init_djb(key, nonce) == [key |-> key, nonce |-> nonce.tail, counter |-> 0]

crypto_aead_init_ietf(key, nonce) ==
  [key |-> key, nonce |-> nonce.tail, counter |-> nonce.head * Word]

\* The block of key stream at the context's counter: key of the tag and next key.
AuthKey(ctx) == crypto_chacha20_djb(Zeros(Block), ctx.key, ctx.nonce, ctx.counter).cipher

\* The text is met by the blocks behind that one.
Encrypted(ctx, text) ==
  crypto_chacha20_djb(text, ctx.key, ctx.nonce, (ctx.counter + 1) % (Word * Word)).cipher

\* The counter moves on with the key, and runs over.
Rekeyed_CountUp(ctx) ==
  [ctx EXCEPT !.key = SubSeq(AuthKey(ctx), KeyBytes + 1, Block), !.counter = @ + 1]

\* The next key; the counter stays.
Rekeyed(ctx) ==
  [key |-> SubSeq(AuthKey(ctx), KeyBytes + 1, Block), nonce |-> ctx.nonce, counter |-> ctx.counter]

crypto_aead_write(ctx, ad, plain) ==
  LET cipher == Encrypted(ctx, plain)
  IN [record |-> [ad |-> ad, cipher |-> cipher, mac |-> lock_auth(AuthKey(ctx), ad, cipher)],
      ctx    |-> Rekeyed(ctx)]

\* A read that takes the next key before it has compared the tags.
crypto_aead_read_RekeyFirst(ctx, record) ==
  IF record.mac = lock_auth(AuthKey(ctx), record.ad, record.cipher)
  THEN [mismatch |-> FALSE, plain |-> Encrypted(ctx, record.cipher), ctx |-> Rekeyed(ctx)]
  ELSE [mismatch |-> TRUE, plain |-> <<>>, ctx |-> Rekeyed(ctx)]

crypto_aead_read(ctx, record) ==
  IF record.mac = lock_auth(AuthKey(ctx), record.ad, record.cipher)
  THEN [mismatch |-> FALSE, plain |-> Encrypted(ctx, record.cipher), ctx |-> Rekeyed(ctx)]
  ELSE [mismatch |-> TRUE, plain |-> <<>>, ctx |-> ctx]

\* The one-shot that leaves out the key derived from the nonce.
crypto_aead_lock_Djb(key, nonce, ad, plain) ==
  crypto_aead_write(crypto_aead_init_djb(key, nonce), ad, plain).record

crypto_aead_lock(key, nonce, ad, plain) ==
  crypto_aead_write(crypto_aead_init_x(key, nonce), ad, plain).record

crypto_aead_unlock(key, nonce, record) ==
  crypto_aead_read(crypto_aead_init_x(key, nonce), record)

-----------------------------------------------------------------------------
(* A session.                                                              *)

NoCtx == [key |-> <<>>, nonce |-> <<>>, counter |-> 0]

Init ==
  /\ opened = [as |-> "no"] /\ writer = NoCtx /\ reader = NoCtx
  /\ net = <<>> /\ sent = <<>> /\ got = <<>>
  /\ mismatch = FALSE /\ call = [of |-> "none"]

\* Sessions and calls share no state: a behaviour is a session or one call.
Idle == opened.as = "no" /\ call.of = "none"

Open ==
  /\ Idle
  /\ \E nonce \in Nonces :
       \E as \in {"x", "djb", "ietf"} :
         /\ opened' = [as |-> as, nonce |-> nonce]
         /\ writer' = CASE as = "x"    -> crypto_aead_init_x(Key, nonce)
                        [] as = "djb"  -> crypto_aead_init_djb(Key, nonce)
                        [] as = "ietf" -> crypto_aead_init_ietf(Key, nonce)
  /\ reader' = writer'
  /\ UNCHANGED <<net, sent, got, mismatch, call>>

Write ==
  /\ opened.as # "no"
  /\ Len(sent) < MaxMessages
  /\ \E ad \in ADs, plain \in Plains :
       LET done == crypto_aead_write(writer, ad, plain) IN
         /\ net' = Append(net, done.record)
         /\ writer' = done.ctx
         /\ sent' = Append(sent, <<ad, plain>>)
  /\ UNCHANGED <<opened, reader, got, mismatch, call>>

\* What arrives: a record written earlier, with its own tag or another's, as it was
\* written, with its bytes cut elsewhere between additional data and text, with its
\* last bytes lost, with a zero byte more, or with one byte for another.
Splits(bytes) ==
  {[ad |-> SubSeq(bytes, 1, n), cipher |-> SubSeq(bytes, n + 1, Len(bytes))] : n \in 0 .. Len(bytes)}

Damaged(r) ==
  Splits(r.ad \o r.cipher)
    \cup {[ad |-> r.ad, cipher |-> SubSeq(r.cipher, 1, n)] : n \in 0 .. (Len(r.cipher) - 1)}
    \cup {[ad |-> Append(r.ad, Zero), cipher |-> r.cipher],
          [ad |-> r.ad, cipher |-> Append(r.cipher, Zero)]}
    \cup {[ad |-> r.ad, cipher |-> [r.cipher EXCEPT ![i] = One]] : i \in 1 .. Len(r.cipher)}

Arriving ==
  UNION {{[ad |-> d.ad, cipher |-> d.cipher, mac |-> net[k].mac] :
            d \in Damaged(net[i]), k \in 1 .. Len(net)} : i \in 1 .. Len(net)}

Read ==
  /\ \E record \in Arriving :
       LET done == crypto_aead_read(reader, record) IN
         /\ mismatch' = done.mismatch
         /\ reader' = done.ctx
         /\ got' = IF done.mismatch THEN got ELSE Append(got, <<record.ad, done.plain>>)
  /\ UNCHANGED <<opened, writer, net, sent, call>>

-----------------------------------------------------------------------------
(* A call of a layer below, its pieces one after the other.                *)

\* A text encrypted piece by piece, each from the counter the last call returned.
Streamed(f(_, _, _, _), pieces, nonce, ctr) ==
  LET done[k \in 0 .. Len(pieces)] ==
        IF k = 0 THEN [cipher |-> <<>>, ctr |-> ctr]
        ELSE LET last == f(pieces[k], Key, nonce, done[k - 1].ctr)
             IN [cipher |-> done[k - 1].cipher \o last.cipher, ctr |-> last.ctr]
  IN done[Len(pieces)]

CallChaCha20 ==
  /\ Idle
  /\ \E pieces \in Texts, nonce \in Nonces :
       \/ \E ctr \in 0 .. (Word * Word - 1) :
            \/ call' = [of |-> "djb", pieces |-> pieces, nonce |-> nonce, ctr |-> ctr,
                        result |-> Streamed(crypto_chacha20_djb, pieces, nonce.tail, ctr)]
            \/ call' = [of |-> "x", pieces |-> pieces, nonce |-> nonce, ctr |-> ctr,
                        result |-> Streamed(crypto_chacha20_x, pieces, nonce, ctr)]
       \/ \E ctr \in 0 .. (Word - 1) :
            call' = [of |-> "ietf", pieces |-> pieces, nonce |-> nonce, ctr |-> ctr,
                     result |-> Streamed(crypto_chacha20_ietf, pieces, nonce, ctr)]
  /\ UNCHANGED <<opened, writer, reader, net, sent, got, mismatch>>

CallPoly1305 ==
  /\ Idle
  /\ \E pieces \in Texts :
       call' = [of |-> "poly1305", pieces |-> pieces,
                result |-> crypto_poly1305_final(
                             Updated(crypto_poly1305_init(Key, Junk), pieces)),
                whole |-> crypto_poly1305(FlattenSeq(pieces), Key, Junk)]
  /\ UNCHANGED <<opened, writer, reader, net, sent, got, mismatch>>

\* Two blocks one after the other, from any h the code may hold, and the tag.
CallPolyBlocks ==
  /\ Idle
  /\ \E h \in Hashes, r \in Rs, c \in Blocks, end \in {0, 1} :
       LET cr == Clamped(r) IN
         call' = [of |-> "poly_blocks", h |-> h, r |-> cr, c |-> c, end |-> end,
                  result |-> AddBlock(h, cr, c, end), tag |-> TagLimbs(h, c)]
  /\ UNCHANGED <<opened, writer, reader, net, sent, got, mismatch>>

Next == Open \/ Write \/ Read \/ CallChaCha20 \/ CallPoly1305 \/ CallPolyBlocks

Spec == Init /\ [][Next]_vars

-----------------------------------------------------------------------------
(* What the calls should return.                                           *)

\* Every piece but the last is filled up to whole blocks, and block b of the whole
\* meets the key stream of counter ctr + b.
Filled(pieces) ==
  FlattenSeq([k \in DOMAIN pieces |-> pieces[k] \o Zeros(gap(Len(pieces[k]), Block))])

StreamBytes(pieces, key, nonce, ctr) ==
  LET text  == Filled(pieces)
      start == [k \in DOMAIN pieces |-> Len(Filled(SubSeq(pieces, 1, k - 1)))]
      counter(i) == (ctr + ((i - 1) \div Block)) % (Word * Word)
      byte(i) == Xor(text[i], KeyStream(Input(key, nonce, counter(i)))[((i - 1) % Block) + 1])
  IN FlattenSeq([k \in DOMAIN pieces |-> [i \in 1 .. Len(pieces[k]) |-> byte(start[k] + i)]])

\* The blocks of a message: full ones with the bit behind them, the rest with its final 1.
TagBlocks(message) ==
  LET full == Len(message) \div PolyBlock
      rest == Len(message) % PolyBlock
      byte(i) == IF i <= Len(message) THEN message[i]
                 ELSE IF i = Len(message) + 1 THEN One ELSE Zero
  IN [b \in 1 .. full + (IF rest > 0 THEN 1 ELSE 0) |->
        [bytes |-> [o \in 1 .. PolyBlock |-> byte(PolyBlock * (b - 1) + o)],
         end   |-> IF b <= full THEN 1 ELSE 0]]

\* Numbers modulo 2^130 - 5: the value of limbs, and a product by doubling.
Value(limbs) ==
  LET n == Len(limbs)
      last[i \in 0 .. n] == IF i = 0 THEN 0 ELSE limbs[n + 1 - i] + Limb * last[i - 1]
  IN last[n]
Prime == 4 * Limb ^ 4 - 5
Times(a, b) ==
  LET double(x) == (x + x) % Prime
      p[k \in Nat] == IF k = 0 THEN 0
                      ELSE (double(p[k \div 2]) + (IF k % 2 = 1 THEN a ELSE 0)) % Prime
  IN p[b]

-----------------------------------------------------------------------------
(* Properties.                                                             *)

TypeOK ==
  /\ opened.as \in {"no", "x", "djb", "ietf"}
  /\ writer.counter \in 0 .. (Word * Word - 1) /\ reader.counter = writer.counter
  /\ Len(sent) <= MaxMessages /\ Len(net) = Len(sent)
  /\ mismatch \in BOOLEAN

\* Whatever the channel did, what the reader took are the messages written, in their
\* order and without a gap.
OnlySentAccepted == IsPrefix(got, sent)

\* Nothing the reader refused has cost it its place: the next record written can be
\* read, and once all are read both ends hold the same context.
ReaderInStep ==
  IF Len(got) = Len(sent) THEN reader = writer
  ELSE LET next == crypto_aead_read(reader, net[Len(got) + 1])
       IN ~next.mismatch /\ next.plain = sent[Len(got) + 1][2]

\* No byte of key stream is met by two bytes of text, and none that is met by a text is
\* part of the key of a tag or of a next key.
KeyStreamOnce ==
  LET used(k, i) == {a \in net[k].cipher[i] : a[1] = "stream"}
      keys       == UNION (Range(writer.key) \cup UNION {Range(net[k].mac.key) : k \in DOMAIN net})
  IN \A k, l \in DOMAIN net :
       \A i \in DOMAIN net[k].cipher :
         /\ used(k, i) # {} /\ used(k, i) \cap keys = {}
         /\ \A j \in DOMAIN net[l].cipher :
              used(k, i) \cap used(l, j) # {} => k = l /\ i = j

\* The first message of a session with the wide nonce is what crypto_aead_lock makes of
\* it, and crypto_aead_unlock opens it.
OneShotAgrees ==
  opened.as = "x" /\ sent # <<>> =>
    LET record == crypto_aead_lock(Key, opened.nonce, sent[1][1], sent[1][2])
        back   == crypto_aead_unlock(Key, opened.nonce, net[1])
    IN record = net[1] /\ ~back.mismatch /\ back.plain = sent[1][2]

\* A text encrypted in pieces meets consecutive blocks of key stream, a new block for
\* each piece, across the carry from the low to the high word of the counter.
StreamExact ==
  LET key == IF call.of = "x" THEN crypto_chacha20_h(Key, call.nonce.head) ELSE Key
      ctr == IF call.of = "ietf" THEN call.ctr + call.nonce.head * Word ELSE call.ctr
      blocks == Len(Filled(call.pieces)) \div Block
  IN call.of \in {"djb", "x"} \/ (call.of = "ietf" /\ call.ctr + blocks <= Word) =>
       /\ call.result.cipher = StreamBytes(call.pieces, key, call.nonce.tail, ctr)
       /\ call.of # "ietf" => call.result.ctr = (ctr + blocks) % (Word * Word)

\* However the message was cut, the tag is that of its blocks.
TagExact ==
  call.of = "poly1305" =>
    /\ call.result = call.whole
    /\ call.result.h = TagBlocks(FlattenSeq(call.pieces))

\* One block multiplies modulo 2^130 - 5, leaves h where the next block may start (the
\* top limb at most 4), and the tag is h, reduced once and for all, plus the pad.
SumExact ==
  call.of = "poly_blocks" =>
    /\ Value(call.result) % Prime =
         Times((Value(call.h) + Value(call.c) + call.end * Limb ^ 4) % Prime, Value(call.r))
    /\ call.result[5] <= 4
    /\ Value(call.tag) = (((Value(call.h) % Prime) % Limb ^ 4) + Value(call.c)) % Limb ^ 4
=============================================================================
