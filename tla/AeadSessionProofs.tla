-------------------------- MODULE AeadSessionProofs ---------------------------
(***************************************************************************)
(* Proofs about AeadSession, for texts, keys, nonces, blocks and words of  *)
(* every size and sessions of every length.                                *)
(***************************************************************************)
EXTENDS AeadSession, Numbers

\* Bytes are texts, and so are those of SessionAssumption.
LEMMA Bytes == \A t : IsBytes(t) <=> IsText(t)
BY DEF IsBytes, IsText, Entries, Range

LEMMA SessionTexts ==
  /\ MaxMessages \in Nat
  /\ IsText(Key) /\ Len(Key) = KeyBytes /\ NotStream(Key)
  /\ \A nonce \in Nonces : nonce.head \in 0 .. (Word - 1)
  /\ \A ad \in ADs : IsText(ad)
  /\ \A plain \in Plains :
       IsText(plain) /\ NotStream(plain) /\ Len(plain) <= Block * (Word * Word - 1)
  /\ \A ad \in ADs, plain \in Plains : Len(ad) + Len(plain) + 1 \in Sizes
  /\ \A pieces \in Texts :
       IsText(pieces) /\ \A k \in DOMAIN pieces : IsText(pieces[k])
BY SessionAssumption, Bytes, Zenon

(* -------- the key stream -------- *)

\* The next input of the block function is that of the next counter.
LEMMA NextInput ==
  ASSUME NEW key, NEW nonce, NEW ctr \in Nat
  PROVE  Increment(Input(key, nonce, ctr)) = Input(key, nonce, ctr + 1)
<1> DEFINE q == ctr \div Word
<1>1. Word \in Nat \ {0} /\ q \in Nat
  BY ChaCha20Assumption
<1>2. /\ ((ctr % Word) + 1) % Word = (ctr + 1) % Word
      /\ (ctr + 1) \div Word = IF (ctr + 1) % Word = 0 THEN q + 1 ELSE q
  BY <1>1, Successor
<1>3. ((q % Word) + 1) % Word = (q + 1) % Word
  BY <1>1, Successor
<1>4. Increment(Input(key, nonce, ctr)) =
        [key |-> key, nonce |-> nonce, lo |-> ((ctr % Word) + 1) % Word,
         hi |-> IF ((ctr % Word) + 1) % Word = 0 THEN ((q % Word) + 1) % Word ELSE q % Word]
  <2>1. ASSUME NEW lo \in Nat, NEW hi \in Nat
        PROVE  Increment([key |-> key, nonce |-> nonce, lo |-> lo, hi |-> hi]) =
                 [key |-> key, nonce |-> nonce, lo |-> (lo + 1) % Word,
                  hi |-> IF (lo + 1) % Word = 0 THEN (hi + 1) % Word ELSE hi]
    BY DEF Increment
  <2>2. ctr % Word \in Nat /\ q % Word \in Nat
    BY <1>1
  <2>3. QED
    BY <2>1, <2>2 DEF Input
<1>5. ((ctr + 1) \div Word) % Word =
        IF (ctr + 1) % Word = 0 THEN ((q % Word) + 1) % Word ELSE q % Word
  BY <1>2, <1>3
<1> HIDE DEF q
<1>6. QED
  BY <1>2, <1>4, <1>5 DEF Input

\* The byte of key stream that meets byte i of a text.
StreamAt(key, nonce, ctr, i) ==
  {<<"stream", Input(key, nonce, ctr + ((i - 1) \div Block)), ((i - 1) % Block) + 1>>}

\* Encrypting meets every byte with the key stream at its place, and ends at the counter
\* behind it.
LEMMA Stream ==
  ASSUME NEW key, NEW nonce, NEW ctr \in Nat, NEW text, Len(text) \in Nat
  PROVE  LET done == crypto_chacha20_djb(text, key, nonce, ctr)
             n    == Len(text)
         IN /\ done.cipher = [i \in 1 .. n |-> Xor(text[i], StreamAt(key, nonce, ctr, i))]
            /\ done.ctr = NextCounter(Input(key, nonce, ctr + (n \div Block)), n % Block)
<1> DEFINE nb == Len(text) \div Block
           input == CHOOSE g : g = [b \in 0 .. nb |-> IF b = 0 THEN Input(key, nonce, ctr)
                                                      ELSE Increment(g[b - 1])]
<1>1. Block \in Nat \ {0} /\ nb \in Nat
  BY ChaCha20Assumption
<1>2. crypto_chacha20_djb(text, key, nonce, ctr) =
        [cipher |-> [i \in 1 .. Len(text) |->
                       Xor(text[i], KeyStream(input[(i - 1) \div Block])[((i - 1) % Block) + 1])],
         ctr    |-> NextCounter(input[nb], Len(text) % Block)]
  BY DEF crypto_chacha20_djb
<1>3. \A b \in 0 .. nb : input[b] = Input(key, nonce, ctr + b)
  <2> DEFINE step(g, b) == IF b = 0 THEN Input(key, nonce, ctr) ELSE Increment(g[b - 1])
             Good(g) == g = [b \in 0 .. nb |-> step(g, b)]
             h == [b \in 0 .. nb |-> Input(key, nonce, ctr + b)]
             T == {b \in 0 .. nb : input[b] = Input(key, nonce, ctr + b)}
  <2> HIDE DEF nb, step
  <2>1. ASSUME NEW b \in 0 .. nb
        PROVE  h[b] = step(h, b)
    <3>1. CASE b = 0
      BY <1>1, <3>1 DEF step
    <3>2. CASE b # 0
      <4>1. b - 1 \in 0 .. nb /\ ctr + (b - 1) \in Nat /\ (ctr + (b - 1)) + 1 = ctr + b
        BY <1>1, <3>2
      <4>2. h[b - 1] = Input(key, nonce, ctr + (b - 1)) /\ h[b] = Input(key, nonce, ctr + b)
        BY <4>1
      <4> HIDE DEF h
      <4>3. QED
        BY <3>2, <4>1, <4>2, NextInput DEF step
    <3>3. QED
      BY <3>1, <3>2
  <2>2. Good(h)
    BY <2>1
  <2> HIDE DEF h, Good
  <2>3. Good(input)
    <3>1. input = CHOOSE g : Good(g)
      BY Zenon DEF Good, step
    <3>2. QED
      BY <2>2, <3>1, Zenon
  <2>4. \A b \in 0 .. nb : input[b] = step(input, b)
    BY <2>3 DEF Good
  <2> HIDE DEF input
  <2>5. 0 \in T
    <3>1. 0 \in 0 .. nb /\ ctr + 0 = ctr
      BY <1>1
    <3>2. QED
      BY <2>4, <3>1 DEF step
  <2>6. ASSUME NEW b \in 0 .. (nb - 1), b \in T
        PROVE  b + 1 \in T
    <3>1. b + 1 \in 0 .. nb /\ b + 1 # 0 /\ (b + 1) - 1 = b
      BY <1>1
    <3>2. input[b + 1] = Increment(input[b])
      BY <2>4, <3>1 DEF step
    <3>3. ctr + b \in Nat /\ (ctr + b) + 1 = ctr + (b + 1)
      BY <1>1
    <3>4. QED
      BY <2>6, <3>1, <3>2, <3>3, NextInput
  <2>7. \A b \in 0 .. nb : b \in T
    <3> HIDE DEF T
    <3>1. QED
      BY <1>1, <2>5, <2>6, InductionTo
  <2>8. QED
    BY <2>7
<1>4. ASSUME NEW i \in 1 .. Len(text)
      PROVE  KeyStream(input[(i - 1) \div Block])[((i - 1) % Block) + 1] = StreamAt(key, nonce, ctr, i)
  <2>1. (i - 1) \div Block \in 0 .. nb
    BY <1>1, QuotientsGrow, SMTT(60)
  <2>2. ((i - 1) % Block) + 1 \in 1 .. Block
    BY <1>1
  <2> HIDE DEF input
  <2>3. QED
    BY <1>3, <2>1, <2>2 DEF KeyStream, StreamAt
<1>5. nb \in 0 .. nb
  BY <1>1
<1> HIDE DEF input
<1>6. QED
  BY <1>2, <1>3, <1>4, <1>5

(* -------- the keys of a context -------- *)

LEMMA BlockSizes ==
  /\ Block \in Nat /\ KeyBytes \in Nat /\ KeyBytes >= 1 /\ Block = KeyBytes + KeyBytes
  /\ Word \in Nat \ {0} /\ Word * Word \in Nat \ {0}
BY ChaCha20Assumption DEF KeyBytes

\* Byte o of the block at a context's counter.
KeyByte(ctx, o) == {<<"stream", Input(ctx.key, ctx.nonce, ctx.counter), o>>}

\* The block of keys is the key stream of the context at its counter.
LEMMA AuthKeyBytes ==
  ASSUME NEW ctx, ctx.counter \in Nat
  PROVE  AuthKey(ctx) = [o \in 1 .. Block |-> KeyByte(ctx, o)]
<1> DEFINE z == Zeros(Block)
           done == crypto_chacha20_djb(z, ctx.key, ctx.nonce, ctx.counter)
<1>1. z = [i \in 1 .. Block |-> z[i]] /\ \A i \in 1 .. Block : z[i] = {}
  BY DEF Zeros, Zero
<1> HIDE DEF z
<1>2. Len(z) = Block /\ Block \in Nat
  BY <1>1, BlockSizes, TextFrom
<1>3. done.cipher = [i \in 1 .. Block |->
                       Xor(z[i], StreamAt(ctx.key, ctx.nonce, ctx.counter, i))]
  BY <1>2, Stream
<1>4. ASSUME NEW i \in 1 .. Block
      PROVE  Xor(z[i], StreamAt(ctx.key, ctx.nonce, ctx.counter, i)) = KeyByte(ctx, i)
  <2>1. (i - 1) \div Block = 0 /\ ((i - 1) % Block) + 1 = i /\ ctx.counter + 0 = ctx.counter
    BY BlockSizes
  <2>2. z[i] = {}
    BY <1>1
  <2>3. QED
    BY <2>1, <2>2 DEF Xor, StreamAt, KeyByte
<1> HIDE DEF done
<1>5. done.cipher = [o \in 1 .. Block |-> KeyByte(ctx, o)]
  BY <1>3, <1>4
<1>6. QED
  BY <1>5 DEF AuthKey, done, z

\* The key of the tag, and the next key.
TagKey(ctx) == SubSeq(AuthKey(ctx), 1, KeyBytes)

LEMMA Keys ==
  ASSUME NEW ctx, ctx.counter \in Nat
  PROVE  /\ TagKey(ctx) = [o \in 1 .. KeyBytes |-> KeyByte(ctx, o)]
         /\ Rekeyed(ctx).key = [o \in 1 .. KeyBytes |-> KeyByte(ctx, KeyBytes + o)]
<1> DEFINE a == AuthKey(ctx)
           t == TagKey(ctx)
           r == Rekeyed(ctx).key
<1>1. a = [o \in 1 .. Block |-> KeyByte(ctx, o)]
  BY AuthKeyBytes
<1> HIDE DEF a
<1>2. IsText(a) /\ Len(a) = Block /\ \A o \in 1 .. Block : a[o] = KeyByte(ctx, o)
  <2>1. a = [o \in 1 .. Block |-> a[o]]
    BY <1>1
  <2>2. QED
    BY <1>1, <2>1, BlockSizes, TextFrom
<1>3. /\ IsText(t) /\ Len(t) = KeyBytes
      /\ \A o \in 1 .. KeyBytes : t[o] = KeyByte(ctx, o)
  <2>1. KeyBytes \in 0 .. Len(a) /\ \A i \in 1 .. KeyBytes : i \in 1 .. Block
    BY <1>2, BlockSizes
  <2>2. QED
    BY <1>2, <2>1, TextHead DEF TagKey, a
<1>4. /\ IsText(r) /\ Len(r) = KeyBytes
      /\ \A o \in 1 .. KeyBytes : r[o] = KeyByte(ctx, KeyBytes + o)
  <2>1. /\ KeyBytes \in 0 .. Len(a) /\ Len(a) - KeyBytes = KeyBytes
        /\ \A i \in 1 .. KeyBytes : KeyBytes + i \in 1 .. Block
    BY <1>2, BlockSizes
  <2>2. r = SubSeq(a, KeyBytes + 1, Len(a))
    BY <1>2 DEF Rekeyed, a
  <2> HIDE DEF r
  <2>3. QED
    BY <1>2, <2>1, <2>2, TextTail
<1> HIDE DEF t, r
<1>5. t = [o \in 1 .. KeyBytes |-> KeyByte(ctx, o)]
  BY <1>3, TextIs
<1>6. r = [o \in 1 .. KeyBytes |-> KeyByte(ctx, KeyBytes + o)]
  BY <1>4, TextIs
<1>7. QED
  BY <1>5, <1>6 DEF t, r

\* Contexts of a session differ in their keys: each key of a tag and each next key is
\* made from one key only.
LEMMA KeysSeparate ==
  ASSUME NEW c, c.counter \in Nat, NEW d, d.counter \in Nat,
         TagKey(c) = TagKey(d) \/ Rekeyed(c).key = Rekeyed(d).key
  PROVE  c.key = d.key
<1>1. 1 \in 1 .. KeyBytes
  BY BlockSizes
<1>2. ASSUME NEW o, KeyByte(c, o) = KeyByte(d, o)
      PROVE  c.key = d.key
  <2>1. <<"stream", Input(c.key, c.nonce, c.counter), o>>
          = <<"stream", Input(d.key, d.nonce, d.counter), o>>
    BY <1>2, Zenon DEF KeyByte
  <2>2. Input(c.key, c.nonce, c.counter) = Input(d.key, d.nonce, d.counter)
    BY <2>1
  <2>3. Input(c.key, c.nonce, c.counter).key = c.key /\ Input(d.key, d.nonce, d.counter).key = d.key
    BY DEF Input
  <2>4. QED
    BY <2>2, <2>3
<1>3. CASE TagKey(c) = TagKey(d)
  <2>1. /\ TagKey(c) = [o \in 1 .. KeyBytes |-> KeyByte(c, o)]
        /\ TagKey(d) = [o \in 1 .. KeyBytes |-> KeyByte(d, o)]
    BY Keys
  <2>2. KeyByte(c, 1) = KeyByte(d, 1)
    BY <1>1, <1>3, <2>1
  <2>3. QED
    BY <1>2, <2>2
<1>4. CASE Rekeyed(c).key = Rekeyed(d).key
  <2>1. /\ Rekeyed(c).key = [o \in 1 .. KeyBytes |-> KeyByte(c, KeyBytes + o)]
        /\ Rekeyed(d).key = [o \in 1 .. KeyBytes |-> KeyByte(d, KeyBytes + o)]
    BY Keys
  <2>2. KeyByte(c, KeyBytes + 1) = KeyByte(d, KeyBytes + 1)
    <3> DEFINE k(x) == [o \in 1 .. KeyBytes |-> KeyByte(x, KeyBytes + o)]
    <3>1. k(c) = k(d)
      BY <1>4, <2>1
    <3>2. k(c)[1] = KeyByte(c, KeyBytes + 1) /\ k(d)[1] = KeyByte(d, KeyBytes + 1)
      BY <1>1
    <3>3. QED
      BY <3>1, <3>2
  <2>3. QED
    BY <1>2, <2>2
<1>5. QED
  BY <1>3, <1>4

\* Reading undoes writing.
LEMMA Decrypted ==
  ASSUME NEW ctx, ctx.counter \in Nat, NEW text, IsText(text)
  PROVE  /\ IsText(Encrypted(ctx, text)) /\ Len(Encrypted(ctx, text)) = Len(text)
         /\ Encrypted(ctx, Encrypted(ctx, text)) = text
         /\ \A i \in 1 .. Len(text) : Encrypted(ctx, text)[i] =
              Xor(text[i], StreamAt(ctx.key, ctx.nonce, (ctx.counter + 1) % (Word * Word), i))
<1> DEFINE ctr == (ctx.counter + 1) % (Word * Word)
           at(i) == StreamAt(ctx.key, ctx.nonce, ctr, i)
           n == Len(text)
           e == Encrypted(ctx, text)
           b == Encrypted(ctx, e)
<1>1. ctr \in Nat /\ n \in Nat /\ text = [i \in 1 .. n |-> text[i]]
  BY BlockSizes, TextIs
<1> HIDE DEF ctr, at, n
<1>2. e = [i \in 1 .. n |-> Xor(text[i], at(i))]
  BY <1>1, Stream DEF Encrypted, ctr, at, n
<1> HIDE DEF e
<1>3. IsText(e) /\ Len(e) = n
  <2>1. e = [i \in 1 .. n |-> e[i]]
    BY <1>2
  <2>2. QED
    BY <1>1, <2>1, TextFrom
<1>4. b = [i \in 1 .. n |-> Xor(e[i], at(i))]
  BY <1>1, <1>3, Stream DEF Encrypted, ctr, at
<1>5. \A i \in 1 .. n : e[i] = Xor(text[i], at(i)) /\ Xor(e[i], at(i)) = text[i]
  <2>1. \A x, y : Xor(Xor(x, y), y) = x
    BY DEF Xor
  <2>2. QED
    BY <1>2, <2>1
<1> HIDE DEF b
<1>6. b = text
  BY <1>1, <1>4, <1>5
<1>7. QED
  BY <1>3, <1>5, <1>6 DEF b, e, at, ctr, n

(* -------- the blocks of a tag -------- *)

\* Block b of a message.
BlockOf(m, b) == [bytes |-> [o \in 1 .. PolyBlock |-> m[PolyBlock * (b - 1) + o]], end |-> 1]

\* A context that has been fed the message m, its buffer perhaps full.
Holds(ctx, key, m) ==
  LET full == PolyBlock * Len(ctx.h) IN
  /\ ctx = Ctx(key, ctx.h, ctx.c, ctx.c_idx)
  /\ IsText(ctx.h) /\ IsText(ctx.c) /\ Len(ctx.c) = PolyBlock
  /\ ctx.c_idx \in 0 .. PolyBlock
  /\ IsText(m) /\ Len(m) = full + ctx.c_idx
  /\ \A b \in 1 .. Len(ctx.h) : ctx.h[b] = BlockOf(m, b)
  /\ \A o \in 1 .. ctx.c_idx : ctx.c[o] = m[full + o]

\* More of a message leaves the blocks there are as they are.
LEMMA BlocksStay ==
  ASSUME NEW m, IsText(m), NEW x, IsText(x), NEW n \in Nat, PolyBlock * n <= Len(m), NEW b \in 1 .. n
  PROVE  BlockOf(m, b) = BlockOf(m \o x, b)
<1>1. PolyBlock \in Nat \ {0} /\ Len(m) \in Nat
  BY Poly1305Assumption, TextIs
<1>2. ASSUME NEW o \in 1 .. PolyBlock
      PROVE  m[PolyBlock * (b - 1) + o] = (m \o x)[PolyBlock * (b - 1) + o]
  <2> DEFINE i == PolyBlock * (b - 1) + o
  <2>1. i \in 1 .. PolyBlock * n /\ PolyBlock * n \in Nat
    BY <1>1, RowPlace
  <2> HIDE DEF i
  <2>2. i \in 1 .. Len(m)
    BY <1>1, <2>1
  <2>3. m[i] = (m \o x)[i]
    BY <2>2, TextConcat
  <2>4. QED
    BY <2>3 DEF i
<1>3. QED
  BY <1>2 DEF BlockOf

\* Bytes that fit the buffer are added to what was fed.
LEMMA BufferedHolds ==
  ASSUME NEW ctx, NEW key, NEW m, Holds(ctx, key, m), NEW x, IsText(x),
         ctx.c_idx + Len(x) <= PolyBlock
  PROVE  Holds(Buffered(ctx, x), key, m \o x) /\ Buffered(ctx, x).c_idx = ctx.c_idx + Len(x)
<1> DEFINE n   == Len(ctx.h)
           idx == ctx.c_idx
           end == idx + Len(x)
           head == SubSeq(ctx.c, 1, idx)
           tail == SubSeq(ctx.c, end + 1, PolyBlock)
           c   == head \o x \o tail
           new == Buffered(ctx, x)
           full == PolyBlock * n
<1>1. /\ PolyBlock \in Nat \ {0} /\ n \in Nat /\ Len(x) \in Nat /\ idx \in 0 .. PolyBlock
      /\ Len(ctx.c) = PolyBlock /\ full \in Nat /\ end \in 0 .. PolyBlock
      /\ IsText(ctx.h) /\ IsText(ctx.c) /\ IsText(m) /\ Len(m) = full + idx
      /\ \A o \in 1 .. idx : ctx.c[o] = m[full + o]
      /\ ctx.key = key
  BY Poly1305Assumption, TextIs DEF Holds, Ctx
<1>2. new = Ctx(key, ctx.h, c, end)
  BY <1>1 DEF Buffered
<1>3. IsText(head) /\ Len(head) = idx /\ \A o \in 1 .. idx : head[o] = ctx.c[o]
  BY <1>1, TextHead
<1>4. IsText(tail) /\ Len(tail) = PolyBlock - end
  <2>1. end \in 0 .. Len(ctx.c) /\ tail = SubSeq(ctx.c, end + 1, Len(ctx.c))
    BY <1>1
  <2> HIDE DEF tail, end
  <2>2. QED
    BY <1>1, <2>1, TextTail
<1> HIDE DEF head, tail, full, n, idx, end
<1>5. /\ IsText(c) /\ Len(c) = PolyBlock
      /\ \A o \in 1 .. idx : c[o] = ctx.c[o]
      /\ \A o \in 1 .. Len(x) : c[idx + o] = x[o]
  <2> DEFINE hx == head \o x
  <2>1. /\ IsText(hx) /\ Len(hx) = end
        /\ \A o \in 1 .. idx : hx[o] = ctx.c[o]
        /\ \A o \in 1 .. Len(x) : hx[idx + o] = x[o]
    <3>1. /\ IsText(hx) /\ Len(hx) = Len(head) + Len(x)
          /\ \A o \in 1 .. Len(head) : hx[o] = head[o]
          /\ \A o \in 1 .. Len(x) : hx[Len(head) + o] = x[o]
      <4>1. IsText(head)
        BY <1>3
      <4>2. QED
        BY <4>1, TextConcat
    <3> HIDE DEF hx
    <3>2. QED
      BY <1>3, <3>1 DEF end
  <2> HIDE DEF hx
  <2>2. /\ IsText(hx \o tail) /\ Len(hx \o tail) = end + (PolyBlock - end)
        /\ \A o \in 1 .. end : (hx \o tail)[o] = hx[o]
    BY <1>4, <2>1, TextConcat, ZenonT(60)
  <2>3. \A o \in 1 .. Len(x) : idx + o \in 1 .. end
    BY <1>1 DEF end
  <2>4. \A o \in 1 .. idx : o \in 1 .. end
    BY <1>1 DEF end
  <2>5. end + (PolyBlock - end) = PolyBlock
    BY <1>1
  <2>6. c = hx \o tail
    BY DEF hx
  <2> HIDE DEF c
  <2>7. QED
    BY <2>1, <2>2, <2>3, <2>4, <2>5, <2>6
<1>6. /\ IsText(m \o x) /\ Len(m \o x) = full + end
      /\ \A i \in 1 .. Len(m) : (m \o x)[i] = m[i]
      /\ \A i \in 1 .. Len(x) : (m \o x)[full + (idx + i)] = x[i]
  <2>1. /\ IsText(m \o x) /\ Len(m \o x) = Len(m) + Len(x)
        /\ \A i \in 1 .. Len(m) : (m \o x)[i] = m[i]
        /\ \A i \in 1 .. Len(x) : (m \o x)[Len(m) + i] = x[i]
    <3>1. IsText(m)
      BY <1>1
    <3>2. QED
      BY <3>1, TextConcat
  <2>2. \A i \in 1 .. Len(x) : Len(m) + i = full + (idx + i)
    BY <1>1
  <2>3. Len(m) + Len(x) = full + end
    BY <1>1 DEF end
  <2>4. QED
    BY <2>1, <2>2, <2>3
<1> HIDE DEF c
<1>7. \A o \in 1 .. end : c[o] = (m \o x)[full + o]
  <2>1. TAKE o \in 1 .. end
  <2>2. CASE o <= idx
    <3>1. o \in 1 .. idx /\ full + o \in 1 .. Len(m)
      BY <1>1, <2>2
    <3>2. QED
      BY <1>1, <1>5, <1>6, <3>1
  <2>3. CASE o > idx
    <3>1. o - idx \in 1 .. Len(x) /\ idx + (o - idx) = o
      BY <1>1, <2>3 DEF end
    <3>2. QED
      BY <1>5, <1>6, <3>1, ZenonT(60)
  <2>4. o <= idx \/ o > idx
    BY <1>1
  <2>5. QED
    BY <2>2, <2>3, <2>4
<1>8. ASSUME NEW b \in 1 .. n
      PROVE  ctx.h[b] = BlockOf(m \o x, b)
  <2>1. ctx.h[b] = BlockOf(m, b)
    BY DEF Holds, n
  <2>2. PolyBlock * n <= Len(m) /\ IsText(m) /\ n \in Nat
    BY <1>1 DEF full
  <2>3. BlockOf(m, b) = BlockOf(m \o x, b)
    BY <2>2, BlocksStay
  <2>4. QED
    BY <2>1, <2>3
<1> HIDE DEF new
<1>9. /\ new.h = ctx.h /\ new.c = c /\ new.c_idx = end
      /\ new = Ctx(key, new.h, new.c, new.c_idx)
  BY <1>2 DEF Ctx
<1>10. QED
  BY <1>1, <1>5, <1>6, <1>7, <1>8, <1>9 DEF Holds, new, n, full, end, idx

\* Emptying a full buffer loses nothing of what was fed.
LEMMA FlushHolds ==
  ASSUME NEW ctx, NEW key, NEW m, Holds(ctx, key, m)
  PROVE  /\ Holds(FlushFull(ctx), key, m)
         /\ FlushFull(ctx).c_idx = IF ctx.c_idx = PolyBlock THEN 0 ELSE ctx.c_idx
<1>1. CASE ctx.c_idx # PolyBlock
  BY <1>1 DEF FlushFull
<1>2. CASE ctx.c_idx = PolyBlock
  <2> DEFINE n == Len(ctx.h)
             block == [bytes |-> ctx.c, end |-> 1]
             h == Append(ctx.h, block)
             new == FlushFull(ctx)
  <2>1. /\ PolyBlock \in Nat \ {0} /\ n \in Nat /\ Len(ctx.c) = PolyBlock
        /\ IsText(ctx.h) /\ IsText(ctx.c) /\ IsText(m) /\ Len(m) = PolyBlock * n + PolyBlock
        /\ \A o \in 1 .. PolyBlock : ctx.c[o] = m[PolyBlock * n + o]
        /\ ctx.key = key
    BY <1>2, Poly1305Assumption, TextIs DEF Holds, Ctx
  <2>2. ctx.c = [o \in 1 .. PolyBlock |-> m[PolyBlock * n + o]]
    BY <2>1, TextIs
  <2>3. new = Ctx(key, h, ctx.c, 0)
    <3> DEFINE one == [b \in 1 .. Len(<<ctx.c>>) |-> [bytes |-> <<ctx.c>>[b], end |-> 1]]
    <3>1. one = <<block>>
      OBVIOUS
    <3>2. new = Ctx(key, ctx.h \o one, ctx.c, 0)
      BY <1>2, <2>1 DEF FlushFull, poly_blocks, Ctx
    <3>3. ctx.h \o <<block>> = Append(ctx.h, block)
      BY <2>1, TextOne
    <3>4. QED
      BY <3>1, <3>2, <3>3
  <2> HIDE DEF block
  <2>4. /\ IsText(h) /\ Len(h) = n + 1 /\ h[n + 1] = block
        /\ \A b \in 1 .. n : h[b] = ctx.h[b]
    BY <2>1, TextAppend
  <2> HIDE DEF h
  <2>5. ASSUME NEW b \in 1 .. n + 1
        PROVE  h[b] = BlockOf(m, b)
    <3>1. CASE b \in 1 .. n
      BY <2>4, <3>1 DEF Holds
    <3>2. CASE b = n + 1
      <4>1. b - 1 = n
        BY <2>1, <3>2
      <4>2. QED
        BY <2>2, <2>4, <3>2, <4>1 DEF block, BlockOf
    <3>3. n \in Nat
      BY <2>1
    <3>4. b \in 1 .. n \/ b = n + 1
      BY <2>5, <3>3
    <3>5. QED
      BY <3>1, <3>2, <3>4
  <2>6. PolyBlock * (n + 1) = PolyBlock * n + PolyBlock
    BY <2>1
  <2> HIDE DEF new
  <2>7. /\ new.h = h /\ new.c = ctx.c /\ new.c_idx = 0
        /\ new = Ctx(key, new.h, new.c, new.c_idx)
    BY <2>3 DEF Ctx
  <2> HIDE DEF n
  <2>8. PolyBlock * (n + 1) \in Nat /\ Len(m) = PolyBlock * Len(h) + 0
    BY <2>1, <2>4, <2>6
  <2>9. Len(new.h) = n + 1 /\ \A o \in 1 .. new.c_idx : FALSE
    BY <2>4, <2>7
  <2>10. Holds(new, key, m)
    <3>1. new.c_idx \in 0 .. PolyBlock /\ Len(m) = PolyBlock * Len(new.h) + new.c_idx
      BY <2>1, <2>7, <2>8
    <3>2. IsText(new.h) /\ IsText(new.c) /\ Len(new.c) = PolyBlock /\ IsText(m)
      BY <2>1, <2>4, <2>7
    <3>3. \A b \in 1 .. Len(new.h) : new.h[b] = BlockOf(m, b)
      BY <2>5, <2>7, <2>9
    <3>4. new = Ctx(key, new.h, new.c, new.c_idx)
      BY <2>7
    <3>5. QED
      BY <2>9, <3>1, <3>2, <3>3, <3>4 DEF Holds
  <2>11. QED
    BY <1>2, <2>7, <2>10 DEF new
<1>3. QED
  BY <1>1, <1>2

\* The blocks of x, up to n of them.
Whole(x, n) == [b \in 1 .. n |-> SubSeq(x, PolyBlock * (b - 1) + 1, PolyBlock * b)]

\* The whole blocks taken from a text are the blocks of its head.
LEMMA WholeBlocks ==
  ASSUME NEW x, IsText(x), NEW n \in Nat, PolyBlock * n <= Len(x), NEW b \in 1 .. n
  PROVE  [bytes |-> Whole(x, n)[b], end |-> 1] = BlockOf(SubSeq(x, 1, PolyBlock * n), b)
<1> DEFINE y == SubSeq(x, 1, PolyBlock * n)
           lo == PolyBlock * (b - 1)
           hi == PolyBlock * b
           w == SubSeq(x, lo + 1, hi)
<1>1. PolyBlock \in Nat \ {0} /\ Len(x) \in Nat
  BY Poly1305Assumption, TextIs
<1>2. lo \in Nat /\ hi \in Nat /\ PolyBlock * n \in Nat /\ hi = lo + PolyBlock /\ hi <= PolyBlock * n
  <2>1. 1 \in 1 .. PolyBlock
    BY <1>1
  <2>2. QED
    BY <1>1, <2>1, RowPlace
<1>3. \A i \in 1 .. PolyBlock * n : y[i] = x[i]
  <2>1. PolyBlock * n \in 0 .. Len(x)
    BY <1>1, <1>2
  <2>2. QED
    BY <2>1, TextHead
<1> HIDE DEF y, lo, hi
<1>4. IsText(w) /\ Len(w) = PolyBlock /\ \A o \in 1 .. PolyBlock : w[o] = x[lo + o]
  <2> DEFINE a == lo + 1
  <2>1. a \in 1 .. Len(x) + 1 /\ hi \in (a - 1) .. Len(x) /\ hi - a + 1 = PolyBlock
    BY <1>1, <1>2
  <2>2. \A o \in 1 .. PolyBlock : a + o - 1 = lo + o
    BY <1>2
  <2> HIDE DEF a
  <2>3. /\ IsText(SubSeq(x, a, hi)) /\ Len(SubSeq(x, a, hi)) = hi - a + 1
        /\ \A i \in 1 .. hi - a + 1 : SubSeq(x, a, hi)[i] = x[a + i - 1]
    BY <2>1, TextPart
  <2>4. QED
    BY <2>1, <2>2, <2>3 DEF a
<1> HIDE DEF w
<1>5. \A o \in 1 .. PolyBlock : w[o] = y[lo + o]
  <2>1. \A o \in 1 .. PolyBlock : lo + o \in 1 .. PolyBlock * n
    BY <1>1, <1>2
  <2>2. QED
    BY <1>3, <1>4, <2>1
<1>6. w = [o \in 1 .. PolyBlock |-> y[lo + o]]
  BY <1>4, <1>5, TextIs
<1>7. Whole(x, n)[b] = w
  BY DEF Whole, w, lo, hi
<1>8. QED
  BY <1>6, <1>7 DEF BlockOf, y, lo

\* Whole blocks may be summed past an empty buffer.
LEMMA BlocksHold ==
  ASSUME NEW ctx, NEW key, NEW m, Holds(ctx, key, m), NEW x, IsText(x), NEW n \in Nat,
         PolyBlock * n <= Len(x), ctx.c_idx = 0 \/ n = 0
  PROVE  LET new == poly_blocks(ctx, Whole(x, n), 1)
         IN Holds(new, key, m \o SubSeq(x, 1, PolyBlock * n)) /\ new.c_idx = ctx.c_idx
<1> DEFINE k == Len(ctx.h)
           idx == ctx.c_idx
           y == SubSeq(x, 1, PolyBlock * n)
           my == m \o y
           whole == Whole(x, n)
           blocks == [b \in 1 .. Len(whole) |-> [bytes |-> whole[b], end |-> 1]]
           h == ctx.h \o blocks
           new == poly_blocks(ctx, whole, 1)
<1>1. /\ PolyBlock \in Nat \ {0} /\ k \in Nat /\ Len(x) \in Nat /\ idx \in 0 .. PolyBlock
      /\ Len(ctx.c) = PolyBlock /\ IsText(ctx.h) /\ IsText(ctx.c)
      /\ IsText(m) /\ Len(m) = PolyBlock * k + idx
      /\ \A o \in 1 .. idx : ctx.c[o] = m[PolyBlock * k + o]
      /\ \A b \in 1 .. k : ctx.h[b] = BlockOf(m, b)
      /\ ctx.key = key
  BY Poly1305Assumption, TextIs DEF Holds, Ctx
<1>2. PolyBlock * k \in Nat /\ PolyBlock * n \in Nat /\ PolyBlock * (k + n) = PolyBlock * k + PolyBlock * n
  <2>1. PolyBlock \in Nat /\ k \in Nat
    BY <1>1
  <2> HIDE DEF k
  <2>2. QED
    BY <2>1, Distribute
<1>3. IsText(y) /\ Len(y) = PolyBlock * n
  <2>1. PolyBlock * n \in 0 .. Len(x)
    BY <1>1, <1>2
  <2>2. QED
    BY <2>1, TextHead
<1> HIDE DEF y
<1>4. /\ IsText(my) /\ Len(my) = Len(m) + Len(y)
      /\ \A i \in 1 .. Len(m) : my[i] = m[i]
      /\ \A i \in 1 .. Len(y) : my[Len(m) + i] = y[i]
  <2>1. IsText(m) /\ IsText(y)
    BY <1>1, <1>3
  <2>2. QED
    BY <2>1, TextConcat
<1>5. /\ IsText(blocks) /\ Len(blocks) = n
      /\ \A b \in 1 .. n : blocks[b] = BlockOf(y, b)
  <2>1. Len(whole) = n
    <3>1. whole = [b \in 1 .. n |-> whole[b]]
      BY DEF Whole
    <3> HIDE DEF whole
    <3>2. QED
      BY <3>1, TextFrom
  <2>2. blocks = [b \in 1 .. n |-> blocks[b]] /\ \A b \in 1 .. n : blocks[b] = [bytes |-> whole[b], end |-> 1]
    BY <2>1
  <2> HIDE DEF blocks
  <2>3. IsText(blocks) /\ Len(blocks) = n
    BY <2>2, TextFrom
  <2>4. \A b \in 1 .. n : [bytes |-> whole[b], end |-> 1] = BlockOf(y, b)
    BY WholeBlocks DEF y
  <2>5. QED
    BY <2>2, <2>3, <2>4
<1>6. new = Ctx(key, h, ctx.c, idx)
  BY <1>1 DEF poly_blocks
<1> HIDE DEF blocks, my, k, idx, whole
<1>7. /\ IsText(h) /\ Len(h) = k + n
      /\ \A b \in 1 .. k : h[b] = ctx.h[b]
      /\ \A b \in 1 .. n : h[k + b] = blocks[b]
  <2>1. Len(ctx.h) = k
    BY DEF k
  <2>2. /\ IsText(h) /\ Len(h) = Len(ctx.h) + Len(blocks)
        /\ \A b \in 1 .. Len(ctx.h) : h[b] = ctx.h[b]
        /\ \A b \in 1 .. Len(blocks) : h[Len(ctx.h) + b] = blocks[b]
    <3>1. IsText(ctx.h) /\ IsText(blocks)
      BY <1>1, <1>5
    <3>2. QED
      BY <3>1, TextConcat
  <2> HIDE DEF h
  <2>3. QED
    BY <1>5, <2>1, <2>2
<1> HIDE DEF h, new
<1>8. ASSUME NEW b \in 1 .. k
      PROVE  h[b] = BlockOf(my, b)
  <2>1. PolyBlock * k <= Len(m) /\ IsText(m) /\ IsText(y)
    BY <1>1, <1>2, <1>3
  <2>2. BlockOf(m, b) = BlockOf(m \o y, b)
    BY <1>1, <2>1, BlocksStay, ZenonT(60)
  <2>3. QED
    BY <1>1, <1>7, <2>2 DEF my
<1>9. ASSUME NEW b \in 1 .. n
      PROVE  h[k + b] = BlockOf(my, k + b)
  <2>1. idx = 0 /\ Len(m) = PolyBlock * k
    BY <1>1, <1>2 DEF idx
  <2>2. ASSUME NEW o \in 1 .. PolyBlock
        PROVE  my[PolyBlock * ((k + b) - 1) + o] = y[PolyBlock * (b - 1) + o]
    <3>1. PolyBlock * ((k + b) - 1) + o = PolyBlock * k + (PolyBlock * (b - 1) + o)
      BY <1>1
    <3>2. PolyBlock * (b - 1) + o \in 1 .. Len(y)
      BY <1>1, <1>3, RowPlace
    <3> HIDE DEF my
    <3>3. QED
      BY <1>4, <2>1, <3>1, <3>2
  <2>3. BlockOf(my, k + b) = BlockOf(y, b)
    BY <2>2 DEF BlockOf
  <2>4. QED
    BY <1>5, <1>7, <2>3
<1>10. \A b \in 1 .. k + n : h[b] = BlockOf(my, b)
  <2>1. TAKE b \in 1 .. k + n
  <2>2. CASE b <= k
    <3>1. b \in 1 .. k
      BY <1>1, <2>2
    <3>2. QED
      BY <1>8, <3>1
  <2>3. CASE b > k
    <3>1. b - k \in 1 .. n /\ k + (b - k) = b
      BY <1>1, <2>3
    <3>2. h[k + (b - k)] = BlockOf(my, k + (b - k))
      BY <1>9, <3>1
    <3>3. QED
      BY <3>1, <3>2
  <2>4. b <= k \/ b > k
    BY <1>1
  <2>5. QED
    BY <2>2, <2>3, <2>4
<1>11. ASSUME NEW o \in 1 .. idx
       PROVE  ctx.c[o] = my[PolyBlock * (k + n) + o]
  <2>1. n = 0 /\ PolyBlock * (k + n) + o = PolyBlock * k + o
    BY <1>1 DEF idx
  <2>2. PolyBlock * k + o \in 1 .. Len(m)
    BY <1>1, <1>2
  <2>3. QED
    BY <1>1, <1>4, <2>1, <2>2
<1>12. new.h = h /\ new.c = ctx.c /\ new.c_idx = idx /\ new = Ctx(key, new.h, new.c, new.c_idx)
  BY <1>6 DEF Ctx
<1>13. Len(my) = PolyBlock * (k + n) + idx
  BY <1>1, <1>2, <1>3, <1>4
<1>14. Holds(new, key, my)
  <2>1. new.c_idx \in 0 .. PolyBlock /\ Len(my) = PolyBlock * Len(new.h) + new.c_idx
    BY <1>1, <1>7, <1>12, <1>13
  <2>2. IsText(new.h) /\ IsText(new.c) /\ Len(new.c) = PolyBlock /\ IsText(my)
    BY <1>1, <1>4, <1>7, <1>12
  <2>3. \A b \in 1 .. Len(new.h) : new.h[b] = BlockOf(my, b)
    BY <1>7, <1>10, <1>12
  <2>4. \A o \in 1 .. new.c_idx : new.c[o] = my[PolyBlock * Len(new.h) + o]
    BY <1>7, <1>11, <1>12
  <2>5. new = Ctx(key, new.h, new.c, new.c_idx)
    BY <1>12
  <2>6. QED
    BY <2>1, <2>2, <2>3, <2>4, <2>5 DEF Holds
<1>15. QED
  BY <1>12, <1>14 DEF new, my, y, whole, idx

\* How much of a message fills the buffer.
LEMMA Alignment ==
  ASSUME NEW idx \in 0 .. PolyBlock - 1
  PROVE  gap(idx, PolyBlock) = IF idx = 0 THEN 0 ELSE PolyBlock - idx
<1>1. PolyBlock \in Nat \ {0}
  BY Poly1305Assumption
<1>2. idx % PolyBlock = idx
  BY <1>1, Remainders
<1>3. CASE idx = 0
  BY <1>1, <1>2, <1>3, Remainders DEF gap
<1>4. CASE idx # 0
  <2>1. PolyBlock - idx \in 0 .. PolyBlock - 1
    BY <1>1, <1>4
  <2>2. (PolyBlock - idx) % PolyBlock = PolyBlock - idx
    BY <1>1, <2>1, Remainders
  <2>3. QED
    BY <1>2, <1>4, <2>2 DEF gap
<1>5. QED
  BY <1>3, <1>4

\* crypto_poly1305_update adds its text to what was fed, whatever was in the buffer, and
\* leaves the buffer less than full.
LEMMA UpdateHolds ==
  ASSUME NEW ctx, NEW key, NEW m, Holds(ctx, key, m), ctx.c_idx < PolyBlock, NEW x, IsText(x)
  PROVE  /\ Holds(crypto_poly1305_update(ctx, x), key, m \o x)
         /\ crypto_poly1305_update(ctx, x).c_idx < PolyBlock
<1> DEFINE idx == ctx.c_idx
           room == gap(idx, PolyBlock)
           aligned == IF room < Len(x) THEN room ELSE Len(x)
           head == SubSeq(x, 1, aligned)
           rest == SubSeq(x, aligned + 1, Len(x))
           nb == Len(rest) \div PolyBlock
           mid == SubSeq(rest, 1, PolyBlock * nb)
           fed == m \o head
           last == SubSeq(rest, PolyBlock * nb + 1, Len(rest))
           first == Buffered(ctx, head)
           flushed == FlushFull(first)
           blocks == poly_blocks(flushed, Whole(rest, nb), 1)
           new == Buffered(blocks, last)
<1>1. crypto_poly1305_update(ctx, x) = new
  BY DEF crypto_poly1305_update, Whole
<1>2. /\ PolyBlock \in Nat \ {0} /\ Len(x) \in Nat /\ idx \in 0 .. PolyBlock - 1 /\ IsText(m)
      /\ room = IF idx = 0 THEN 0 ELSE PolyBlock - idx
  <2>1. PolyBlock \in Nat \ {0} /\ Len(x) \in Nat /\ idx \in 0 .. PolyBlock - 1 /\ IsText(m)
    BY Poly1305Assumption, TextIs DEF Holds
  <2>2. QED
    BY <2>1, Alignment
<1> HIDE DEF idx, room
<1>3. aligned \in 0 .. Len(x) /\ aligned <= room /\ (aligned = room \/ aligned = Len(x))
  BY <1>2
<1> HIDE DEF aligned
<1>4. IsText(head) /\ Len(head) = aligned
  BY <1>3, TextHead
<1>5. IsText(rest) /\ Len(rest) = Len(x) - aligned
  BY <1>3, TextTail
<1>6. x = head \o rest
  BY <1>3, TextSplit
<1> HIDE DEF head, rest
<1>7. /\ nb \in Nat /\ PolyBlock * nb \in 0 .. Len(rest)
      /\ Len(rest) - PolyBlock * nb \in 0 .. PolyBlock - 1
      /\ Len(rest) = 0 => nb = 0
  <2>1. Len(rest) \in Nat
    BY <1>2, <1>3, <1>5
  <2>2. /\ nb \in Nat /\ Len(rest) = PolyBlock * nb + (Len(rest) % PolyBlock)
        /\ Len(rest) % PolyBlock \in 0 .. PolyBlock - 1
    BY <1>2, <2>1
  <2>3. 0 \div PolyBlock = 0
    BY <1>2
  <2> DEFINE p == PolyBlock * nb
             r == Len(rest) % PolyBlock
  <2>4. p \in Nat
    BY <1>2, <2>2
  <2> HIDE DEF p, r
  <2>5. p \in 0 .. Len(rest) /\ Len(rest) - p \in 0 .. PolyBlock - 1
    BY <1>2, <2>1, <2>2, <2>4 DEF p, r
  <2>6. QED
    BY <2>2, <2>3, <2>5 DEF p
<1> HIDE DEF nb
<1>8. IsText(mid) /\ Len(mid) = PolyBlock * nb
  BY <1>5, <1>7, TextHead
<1>9. IsText(last) /\ Len(last) = Len(rest) - PolyBlock * nb
  BY <1>5, <1>7, TextTail
<1>10. rest = mid \o last
  BY <1>5, <1>7, TextSplit
<1> HIDE DEF last
<1>11. Holds(first, key, fed) /\ first.c_idx = idx + aligned
  <2>1. ctx.c_idx + Len(head) <= PolyBlock
    BY <1>2, <1>3, <1>4 DEF idx
  <2>2. QED
    BY <1>4, <2>1, BufferedHolds DEF idx
<1> HIDE DEF first, fed
<1>12. /\ Holds(flushed, key, fed) /\ flushed.c_idx \in 0 .. PolyBlock - 1
       /\ flushed.c_idx = 0 \/ (nb = 0 /\ Len(rest) = 0)
  <2>1. /\ Holds(flushed, key, fed)
        /\ flushed.c_idx = IF first.c_idx = PolyBlock THEN 0 ELSE first.c_idx
    BY <1>11, FlushHolds
  <2>2. CASE aligned = room
    <3>1. first.c_idx = IF idx = 0 THEN 0 ELSE PolyBlock
      BY <1>2, <1>11, <2>2
    <3>2. flushed.c_idx = 0
      BY <1>2, <2>1, <3>1
    <3>3. 0 \in 0 .. PolyBlock - 1 /\ Holds(flushed, key, fed)
      BY <1>2, <2>1
    <3> HIDE DEF flushed
    <3>4. QED
      BY <3>2, <3>3
  <2>3. CASE aligned = Len(x)
    <3>1. Len(rest) = 0 /\ nb = 0
      BY <1>2, <1>5, <1>7, <2>3
    <3>2. QED
      BY <1>2, <1>3, <1>11, <2>1, <3>1
  <2>4. QED
    BY <1>3, <2>2, <2>3
<1> HIDE DEF flushed
<1>13. Holds(blocks, key, fed \o mid) /\ blocks.c_idx = flushed.c_idx
  <2>1. PolyBlock * nb <= Len(rest) /\ nb \in Nat /\ (flushed.c_idx = 0 \/ nb = 0) /\ IsText(rest)
    BY <1>2, <1>5, <1>7, <1>12
  <2>2. Holds(flushed, key, fed)
    BY <1>12
  <2>3. QED
    BY <2>1, <2>2, BlocksHold
<1> HIDE DEF blocks, mid
<1>14. Holds(new, key, (fed \o mid) \o last) /\ new.c_idx < PolyBlock
  <2>1. /\ blocks.c_idx + Len(last) <= PolyBlock
        /\ blocks.c_idx + Len(last) < PolyBlock
    BY <1>2, <1>7, <1>9, <1>12, <1>13
  <2>2. /\ Holds(new, key, (fed \o mid) \o last)
        /\ new.c_idx = blocks.c_idx + Len(last)
    BY <1>9, <1>13, <2>1, BufferedHolds
  <2>3. QED
    BY <2>1, <2>2
<1>15. (fed \o mid) \o last = m \o x
  <2>1. IsText(m) /\ IsText(head) /\ IsText(mid) /\ IsText(last)
    BY <1>2, <1>4, <1>8, <1>9
  <2>2. ((m \o head) \o mid) \o last = m \o (head \o (mid \o last))
    <3> HIDE DEF new
    <3>1. Regroups(m, head, mid, last)
      BY <2>1, TextAssoc
    <3>2. QED
      BY <3>1, Zenon DEF Regroups
  <2>3. QED
    BY <1>6, <1>10, <2>2 DEF fed
<1>16. QED
  BY <1>1, <1>14, <1>15

\* The recursion over the pieces has a solution.
LEMMA UpdatedFunction ==
  ASSUME NEW ctx, NEW pieces, Len(pieces) \in Nat
  PROVE  \E g : /\ Updated(ctx, pieces) = g[Len(pieces)] /\ g[0] = ctx
                /\ \A k \in 1 .. Len(pieces) : g[k] = crypto_poly1305_update(g[k - 1], pieces[k])
<1> DEFINE n == Len(pieces)
           next(c, k) == crypto_poly1305_update(c, pieces[k])
           step(g, k) == IF k = 0 THEN ctx ELSE next(g[k - 1], k)
           Good(g, m) == g = [k \in 0 .. m |-> step(g, k)]
           T == {m \in 0 .. n : \E g : Good(g, m)}
           done == CHOOSE g : g = [k \in 0 .. n |-> IF k = 0 THEN ctx
                                                    ELSE crypto_poly1305_update(g[k - 1], pieces[k])]
<1>1. Updated(ctx, pieces) = done[n]
  BY DEF Updated
<1>2. n \in Nat
  OBVIOUS
<1> HIDE DEF n, next
<1>3. 0 \in T
  <2> DEFINE h == [k \in 0 .. 0 |-> ctx]
  <2>1. \A k \in 0 .. 0 : h[k] = step(h, k)
    OBVIOUS
  <2>2. Good(h, 0)
    BY <2>1
  <2>3. 0 \in 0 .. n
    BY <1>2
  <2> HIDE DEF Good
  <2>4. QED
    BY <2>2, <2>3
<1>4. ASSUME NEW m \in 0 .. (n - 1), m \in T
      PROVE  m + 1 \in T
  <2>1. PICK g : Good(g, m)
    BY <1>4, Zenon
  <2> DEFINE h == [k \in 0 .. m + 1 |-> IF k <= m THEN g[k] ELSE next(g[m], m + 1)]
  <2>2. \A k \in 0 .. m : g[k] = step(g, k)
    BY <2>1
  <2>3. ASSUME NEW k \in 0 .. m + 1
        PROVE  h[k] = step(h, k)
    <3>1. CASE k \in 0 .. m
      <4>1. h[k] = g[k] /\ (k # 0 => h[k - 1] = g[k - 1])
        BY <1>2, <3>1
      <4> HIDE DEF h
      <4>2. QED
        BY <2>2, <3>1, <4>1
    <3>2. CASE k = m + 1
      <4>1. h[k] = next(g[m], k) /\ h[m] = g[m] /\ k # 0 /\ k - 1 = m
        BY <1>2, <3>2
      <4> HIDE DEF h
      <4>2. QED
        BY <4>1
    <3>3. k \in 0 .. m \/ k = m + 1
      BY <1>2
    <3>4. QED
      BY <3>1, <3>2, <3>3
  <2>4. Good(h, m + 1)
    BY <2>3
  <2>5. m + 1 \in 0 .. n
    BY <1>2
  <2> HIDE DEF Good
  <2>6. QED
    BY <2>4, <2>5
<1>5. \E g : Good(g, n)
  <2>1. n \in T
    <3> HIDE DEF T
    <3>1. \A m \in 0 .. n : m \in T
      BY <1>2, <1>3, <1>4, InductionTo
    <3>2. QED
      BY <1>2, <3>1
  <2>2. QED
    BY <2>1, Zenon
<1> HIDE DEF Good
<1>6. Good(done, n)
  <2>1. done = CHOOSE g : Good(g, n)
    BY Zenon DEF Good, next
  <2> HIDE DEF done
  <2>2. QED
    BY <1>5, <2>1, Zenon
<1> HIDE DEF done
<1>7. \A k \in 0 .. n : done[k] = step(done, k)
  BY <1>6 DEF Good
<1>8. done[0] = ctx /\ \A k \in 1 .. n : done[k] = next(done[k - 1], k)
  BY <1>2, <1>7
<1>9. QED
  BY <1>1, <1>8 DEF next, n

\* A message fed in pieces, and what it is after each of them.
LEMMA UpdatedHolds ==
  ASSUME NEW ctx, NEW key, Holds(ctx, key, <<>>), ctx.c_idx < PolyBlock,
         NEW pieces, Len(pieces) \in Nat, NEW msg, msg[0] = <<>>,
         \A k \in 1 .. Len(pieces) : IsText(pieces[k]) /\ msg[k] = msg[k - 1] \o pieces[k]
  PROVE  /\ Holds(Updated(ctx, pieces), key, msg[Len(pieces)])
         /\ Updated(ctx, pieces).c_idx < PolyBlock
<1> DEFINE n == Len(pieces)
<1>1. PICK g : /\ Updated(ctx, pieces) = g[n] /\ g[0] = ctx
               /\ \A k \in 1 .. n : g[k] = crypto_poly1305_update(g[k - 1], pieces[k])
  <2>1. \A p : Len(p) \in Nat =>
          \E g : /\ Updated(ctx, p) = g[Len(p)] /\ g[0] = ctx
                 /\ \A k \in 1 .. Len(p) : g[k] = crypto_poly1305_update(g[k - 1], p[k])
    BY UpdatedFunction
  <2>2. QED
    BY <2>1
<1> DEFINE T == {k \in 0 .. n : Holds(g[k], key, msg[k]) /\ g[k].c_idx < PolyBlock}
<1>2. n \in Nat
  OBVIOUS
<1>3. 0 \in T
  BY <1>1, <1>2
<1>4. ASSUME NEW k \in 0 .. (n - 1), k \in T
      PROVE  k + 1 \in T
  <2>1. k + 1 \in 1 .. n /\ (k + 1) - 1 = k /\ k + 1 \in 0 .. n
    BY <1>2
  <2>2. /\ g[k + 1] = crypto_poly1305_update(g[k], pieces[k + 1])
        /\ msg[k + 1] = msg[k] \o pieces[k + 1] /\ IsText(pieces[k + 1])
    BY <1>1, <2>1
  <2>3. Holds(g[k], key, msg[k]) /\ g[k].c_idx < PolyBlock
    BY <1>4
  <2>4. Holds(g[k + 1], key, msg[k + 1]) /\ g[k + 1].c_idx < PolyBlock
    BY <2>2, <2>3, UpdateHolds
  <2>5. QED
    BY <2>1, <2>4
<1>5. n \in T
  <2> HIDE DEF T
  <2>1. \A k \in 0 .. n : k \in T
    BY <1>2, <1>3, <1>4, InductionTo
  <2>2. QED
    BY <1>2, <2>1
<1>6. QED
  BY <1>1, <1>5

\* The tag of a message that was fed in is that of its blocks.
LEMMA FinalIs ==
  ASSUME NEW ctx, NEW key, NEW m, Holds(ctx, key, m), ctx.c_idx < PolyBlock
  PROVE  crypto_poly1305_final(ctx) = [key |-> key, h |-> TagBlocks(m)]
<1> DEFINE k == Len(ctx.h)
           idx == ctx.c_idx
           byte(i) == IF i <= Len(m) THEN m[i] ELSE IF i = Len(m) + 1 THEN One ELSE Zero
           bytes(b) == [o \in 1 .. PolyBlock |-> byte(PolyBlock * (b - 1) + o)]
           tag(b) == [bytes |-> bytes(b), end |-> IF b <= k THEN 1 ELSE 0]
           more == IF idx > 0 THEN 1 ELSE 0
           final == crypto_poly1305_final(ctx)
<1>1. /\ PolyBlock \in Nat \ {0} /\ k \in Nat /\ idx \in 0 .. PolyBlock - 1
      /\ IsText(ctx.h) /\ IsText(m) /\ Len(m) = PolyBlock * k + idx /\ Len(m) \in Nat
      /\ \A o \in 1 .. idx : ctx.c[o] = m[PolyBlock * k + o]
      /\ \A b \in 1 .. k : ctx.h[b] = BlockOf(m, b)
      /\ ctx.key = key
  BY Poly1305Assumption, TextIs DEF Holds, Ctx
<1>2. /\ Len(m) \div PolyBlock = k /\ Len(m) % PolyBlock = idx
      /\ PolyBlock * k \in Nat
  <2>1. PolyBlock \in Nat \ {0} /\ k \in Int /\ idx \in 0 .. (PolyBlock - 1)
    BY <1>1
  <2> HIDE DEF k, idx
  <2>2. (PolyBlock * k + idx) \div PolyBlock = k /\ (PolyBlock * k + idx) % PolyBlock = idx
    BY <2>1, Division
  <2>3. QED
    BY <1>1, <2>2
<1>3. TagBlocks(m) = [b \in 1 .. k + more |-> tag(b)]
  BY <1>2 DEF TagBlocks
<1>4. ASSUME NEW b \in 1 .. k
      PROVE  ctx.h[b] = tag(b)
  <2>1. ASSUME NEW o \in 1 .. PolyBlock
        PROVE  byte(PolyBlock * (b - 1) + o) = m[PolyBlock * (b - 1) + o]
    <3>1. PolyBlock * (b - 1) + o \in 1 .. PolyBlock * k
      BY <1>1, RowPlace
    <3>2. PolyBlock * k <= Len(m)
      BY <1>1, <1>2
    <3> DEFINE i == PolyBlock * (b - 1) + o
               p == PolyBlock * k
    <3> HIDE DEF i, p
    <3>3. i <= Len(m)
      BY <1>1, <1>2, <3>1, <3>2 DEF i, p
    <3>4. QED
      BY <3>3 DEF i
  <2> HIDE DEF byte
  <2>2. bytes(b) = [o \in 1 .. PolyBlock |-> m[PolyBlock * (b - 1) + o]]
    BY <2>1
  <2>3. b <= k
    BY <1>1
  <2>4. QED
    BY <1>1, <2>2, <2>3 DEF BlockOf
<1>5. CASE idx = 0
  <2>1. final = [key |-> key, h |-> ctx.h]
    BY <1>1, <1>5 DEF crypto_poly1305_final
  <2>2. ctx.h = [b \in 1 .. k |-> ctx.h[b]] /\ k + more = k
    <3>1. IsText(ctx.h)
      BY <1>1
    <3>2. ctx.h = [b \in 1 .. k |-> ctx.h[b]]
      BY <3>1, TextIs
    <3>3. QED
      BY <1>1, <1>5, <3>2
  <2> HIDE DEF tag, final, k, more
  <2>3. ctx.h = [b \in 1 .. k + more |-> tag(b)]
    BY <1>4, <2>2
  <2>4. QED
    BY <1>3, <2>1, <2>3 DEF final
<1>6. CASE idx # 0
  <2> DEFINE block == [bytes |-> LastBlock(ctx), end |-> 0]
             h == Append(ctx.h, block)
  <2>1. final = [key |-> key, h |-> h]
    <3> DEFINE one == [b \in 1 .. Len(<<LastBlock(ctx)>>) |->
                         [bytes |-> <<LastBlock(ctx)>>[b], end |-> 0]]
    <3>1. one = <<block>>
      OBVIOUS
    <3>2. final = [key |-> key, h |-> ctx.h \o one]
      BY <1>1, <1>6 DEF crypto_poly1305_final, poly_blocks, Ctx
    <3> HIDE DEF one, block
    <3>3. ctx.h \o <<block>> = Append(ctx.h, block)
      BY <1>1, TextOne
    <3>4. QED
      BY <3>1, <3>2, <3>3
  <2> HIDE DEF final
  <2>2. block = tag(k + 1)
    <3>1. ASSUME NEW o \in 1 .. PolyBlock
          PROVE  LastBlock(ctx)[o] = byte(PolyBlock * k + o)
      <4> DEFINE p == PolyBlock * k
      <4>1. p \in Nat /\ Len(m) = p + idx
        BY <1>1, <1>2
      <4>2. LastBlock(ctx)[o] = IF o <= idx THEN ctx.c[o] ELSE IF o = idx + 1 THEN One ELSE {}
        BY DEF LastBlock
      <4> HIDE DEF p
      <4>3. (p + o <= Len(m) <=> o <= idx) /\ (p + o = Len(m) + 1 <=> o = idx + 1)
        BY <1>1, <4>1, SMTT(60)
      <4>4. o <= idx => ctx.c[o] = m[p + o]
        BY <1>1 DEF p
      <4>5. LastBlock(ctx)[o] = byte(p + o)
        BY <4>2, <4>3, <4>4 DEF Zero
      <4>6. QED
        BY <4>5 DEF p
    <3>2. (k + 1) - 1 = k /\ ~(k + 1 <= k)
      BY <1>1
    <3>3. LastBlock(ctx) = [o \in 1 .. PolyBlock |-> LastBlock(ctx)[o]]
      BY DEF LastBlock
    <3> HIDE DEF byte, k
    <3>4. bytes(k + 1) = [o \in 1 .. PolyBlock |-> LastBlock(ctx)[o]]
      BY <3>1, <3>2
    <3>5. QED
      BY <3>2, <3>3, <3>4
  <2> HIDE DEF block, tag
  <2>3. /\ IsText(h) /\ Len(h) = k + 1 /\ h[k + 1] = block
        /\ \A b \in 1 .. k : h[b] = ctx.h[b]
    BY <1>1, TextAppend
  <2> HIDE DEF h
  <2>4. h = [b \in 1 .. k + 1 |-> h[b]] /\ k + more = k + 1
    <3>1. IsText(h)
      BY <2>3
    <3>2. h = [b \in 1 .. k + 1 |-> h[b]]
      BY <2>3, <3>1, TextIs
    <3>3. idx > 0
      BY <1>1, <1>6
    <3> HIDE DEF idx
    <3>4. more = 1
      BY <3>3
    <3> HIDE DEF more
    <3>5. QED
      BY <3>2, <3>4
  <2> HIDE DEF k, more
  <2>5. ASSUME NEW b \in 1 .. k + 1
        PROVE  h[b] = tag(b)
    <3>1. b \in 1 .. k \/ b = k + 1
      BY <1>1
    <3>2. QED
      BY <1>4, <2>2, <2>3, <3>1
  <2>6. h = [b \in 1 .. k + more |-> tag(b)]
    BY <2>4, <2>5
  <2>7. QED
    BY <1>3, <2>1, <2>6 DEF final
<1>7. QED
  BY <1>5, <1>6

\* Messages of whole blocks with the same blocks are the same.
LEMMA BlocksSeparate ==
  ASSUME NEW c, NEW key, NEW m, Holds(c, key, m), c.c_idx = 0,
         NEW d, NEW other, NEW n, Holds(d, other, n), d.c_idx = 0,
         c.h = d.h
  PROVE  m = n
<1> DEFINE k == Len(c.h)
<1>1. /\ PolyBlock \in Nat \ {0} /\ k \in Nat
      /\ IsText(m) /\ IsText(n) /\ Len(m) = PolyBlock * k /\ Len(n) = PolyBlock * k
      /\ \A b \in 1 .. k : c.h[b] = BlockOf(m, b) /\ c.h[b] = BlockOf(n, b)
  <2>1. PolyBlock \in Nat \ {0} /\ k \in Nat /\ PolyBlock * k + 0 = PolyBlock * k
    BY Poly1305Assumption, TextIs DEF Holds
  <2>2. QED
    BY <2>1 DEF Holds
<1> HIDE DEF k
<1>2. ASSUME NEW i \in 1 .. Len(m)
      PROVE  m[i] = n[i]
  <2> DEFINE q == (i - 1) \div PolyBlock
             r == (i - 1) % PolyBlock
  <2>1. q \in Nat /\ r \in 0 .. PolyBlock - 1 /\ i = PolyBlock * q + (r + 1)
    BY <1>1
  <2>2. q + 1 \in 1 .. k
    <3> HIDE DEF q, r
    <3>1. q >= k => PolyBlock * q >= PolyBlock * k
      BY <1>1, <2>1
    <3>2. i <= PolyBlock * k /\ PolyBlock * k \in Nat /\ PolyBlock * q \in Nat
      BY <1>1, <2>1
    <3> DEFINE p == PolyBlock * k
               u == PolyBlock * q
    <3> HIDE DEF p, u
    <3>3. ~(u >= p)
      BY <2>1, <3>2 DEF p, u
    <3>4. QED
      BY <1>1, <2>1, <3>1, <3>3 DEF p, u
  <2> HIDE DEF q, r
  <2>3. r + 1 \in 1 .. PolyBlock /\ (q + 1) - 1 = q
    BY <1>1, <2>1
  <2>4. BlockOf(m, q + 1) = BlockOf(n, q + 1)
    BY <1>1, <2>2
  <2>5. BlockOf(m, q + 1).bytes[r + 1] = m[i] /\ BlockOf(n, q + 1).bytes[r + 1] = n[i]
    BY <2>1, <2>3 DEF BlockOf
  <2>6. QED
    BY <2>4, <2>5
<1>3. QED
  BY <1>1, <1>2, TextEqual

(* -------- messages in pieces -------- *)

\* A context begins with nothing fed, whatever the stack held.
LEMMA InitHolds ==
  ASSUME NEW key
  PROVE  /\ Holds(crypto_poly1305_init(key, Junk), key, <<>>)
         /\ crypto_poly1305_init(key, Junk).c_idx < PolyBlock
<1> DEFINE ctx == crypto_poly1305_init(key, Junk)
           e == <<>>
<1>1. PolyBlock \in Nat \ {0}
  BY Poly1305Assumption
<1>2. IsText(Junk) /\ Len(Junk) = PolyBlock
  <2>1. Junk = [i \in 1 .. PolyBlock |-> Junk[i]]
    BY DEF Junk
  <2>2. QED
    BY <1>1, <2>1, TextFrom
<1>3. /\ ctx.h = e /\ ctx.c = Junk /\ ctx.c_idx = 0
      /\ ctx = Ctx(key, ctx.h, ctx.c, ctx.c_idx)
  BY DEF crypto_poly1305_init, Ctx
<1>4. IsText(e) /\ Len(e) = 0
  BY EmptyText
<1> HIDE DEF ctx, e
<1>5. Len(e) = PolyBlock * Len(ctx.h) + ctx.c_idx
  BY <1>1, <1>3, <1>4
<1>6. Holds(ctx, key, e)
  BY <1>1, <1>2, <1>3, <1>4, <1>5 DEF Holds
<1>7. ctx.c_idx < PolyBlock
  BY <1>1, <1>3
<1>8. QED
  BY <1>6, <1>7 DEF ctx, e

\* What a message is after each of its pieces.
LEMMA Joined ==
  ASSUME NEW pieces, IsText(pieces), \A k \in 1 .. Len(pieces) : IsText(pieces[k])
  PROVE  \E msg : /\ msg[0] = <<>>
                  /\ \A k \in 1 .. Len(pieces) : msg[k] = msg[k - 1] \o pieces[k]
                  /\ msg[Len(pieces)] = FlattenSeq(pieces)
<1> DEFINE n == Len(pieces)
           step(g, k) == IF k = 1 THEN pieces[k] ELSE g[k - 1] \o pieces[k]
           Good(g, m) == g = [k \in 1 .. m |-> step(g, k)]
           T == {m \in 0 .. n : \E g : Good(g, m)}
           flat == CHOOSE g : g = [k \in 1 .. n |-> IF k = 1 THEN pieces[k]
                                                    ELSE g[k - 1] \o pieces[k]]
<1>1. n \in Nat
  BY TextIs
<1>2. CASE n = 0
  <2> DEFINE msg == [k \in 0 .. 0 |-> <<>>]
  <2>1. pieces = <<>>
    <3>1. pieces = [k \in 1 .. 0 |-> pieces[k]]
      BY <1>2, TextIs
    <3>2. pieces \in Seq(Range(pieces))
      BY DEF IsText, Entries, Range
    <3>3. QED
      BY <1>2, <3>2
  <2>2. FlattenSeq(pieces) = <<>>
    BY <1>2, <2>1 DEF FlattenSeq
  <2>3. msg[0] = <<>> /\ \A k \in 1 .. n : msg[k] = msg[k - 1] \o pieces[k]
    BY <1>2
  <2> HIDE DEF msg
  <2>4. QED
    BY <1>2, <2>2, <2>3
<1>3. CASE n # 0
  <2>1. FlattenSeq(pieces) = flat[n]
    BY <1>3 DEF FlattenSeq
  <2> HIDE DEF n
  <2>2. 0 \in T
    <3> DEFINE h == [k \in 1 .. 0 |-> <<>>]
    <3>1. Good(h, 0)
      OBVIOUS
    <3> HIDE DEF Good
    <3>2. QED
      BY <1>1, <3>1
  <2>3. ASSUME NEW m \in 0 .. (n - 1), m \in T
        PROVE  m + 1 \in T
    <3>1. PICK g : Good(g, m)
      BY <2>3, Zenon
    <3> DEFINE h == [k \in 1 .. m + 1 |-> IF k <= m THEN g[k] ELSE step(g, k)]
    <3>2. \A k \in 1 .. m : g[k] = step(g, k)
      BY <3>1
    <3>3. ASSUME NEW k \in 1 .. m + 1
          PROVE  h[k] = step(h, k)
      <4>1. h[k] = step(g, k)
        BY <1>1, <3>2
      <4>2. k # 1 => k - 1 \in 1 .. m /\ k - 1 \in 1 .. m + 1
        BY <1>1
      <4>3. k # 1 => h[k - 1] = g[k - 1]
        BY <1>1, <4>2
      <4> HIDE DEF h
      <4>4. QED
        BY <4>1, <4>3
    <3>4. Good(h, m + 1)
      BY <3>3
    <3>5. m + 1 \in 0 .. n
      BY <1>1
    <3> HIDE DEF Good
    <3>6. QED
      BY <3>4, <3>5
  <2>4. \E g : Good(g, n)
    <3>1. n \in T
      <4> HIDE DEF T
      <4>1. \A m \in 0 .. n : m \in T
        BY <1>1, <2>2, <2>3, InductionTo
      <4>2. QED
        BY <1>1, <4>1
    <3>2. QED
      BY <3>1, Zenon
  <2> HIDE DEF Good
  <2>5. Good(flat, n)
    <3>1. flat = CHOOSE g : Good(g, n)
      BY Zenon DEF Good
    <3> HIDE DEF flat
    <3>2. QED
      BY <2>4, <3>1, Zenon
  <2> HIDE DEF flat
  <2>6. \A k \in 1 .. n : flat[k] = step(flat, k)
    BY <2>5 DEF Good
  <2> DEFINE msg == [k \in 0 .. n |-> IF k = 0 THEN <<>> ELSE flat[k]]
  <2>7. ASSUME NEW k \in 1 .. n
        PROVE  msg[k] = msg[k - 1] \o pieces[k]
    <3>1. msg[k] = flat[k] /\ flat[k] = step(flat, k) /\ IsText(pieces[k])
      BY <1>1, <2>6 DEF n
    <3>2. CASE k = 1
      <4>1. <<>> \o pieces[k] = pieces[k]
        BY <3>1, EmptyText
      <4>2. msg[k - 1] = <<>>
        BY <1>1, <3>2
      <4> HIDE DEF msg
      <4>3. QED
        BY <3>1, <3>2, <4>1, <4>2
    <3>3. CASE k # 1
      <4>1. msg[k - 1] = flat[k - 1]
        BY <1>1, <3>3
      <4> HIDE DEF msg
      <4>2. QED
        BY <3>1, <3>3, <4>1
    <3>4. QED
      BY <3>2, <3>3
  <2>8. msg[0] = <<>> /\ msg[n] = flat[n]
    BY <1>1, <1>3
  <2> HIDE DEF msg
  <2>9. QED
    BY <2>1, <2>7, <2>8 DEF n
<1>4. QED
  BY <1>2, <1>3

\* However a message is cut, its tag is that of its blocks.
LEMMA PiecesTag ==
  ASSUME NEW key, NEW pieces, IsText(pieces), \A k \in 1 .. Len(pieces) : IsText(pieces[k])
  PROVE  LET init == crypto_poly1305_init(key, Junk)
             flat == FlattenSeq(pieces)
             tag  == [key |-> key, h |-> TagBlocks(flat)]
         IN /\ crypto_poly1305_final(Updated(init, pieces)) = tag
            /\ crypto_poly1305(flat, key, Junk) = tag
<1> DEFINE init == crypto_poly1305_init(key, Junk)
           flat == FlattenSeq(pieces)
           fed == Updated(init, pieces)
<1>1. Holds(init, key, <<>>) /\ init.c_idx < PolyBlock
  BY InitHolds
<1>2. PICK msg : /\ msg[0] = <<>>
                 /\ \A k \in 1 .. Len(pieces) : msg[k] = msg[k - 1] \o pieces[k]
                 /\ msg[Len(pieces)] = flat
  BY Joined
<1>3. Len(pieces) \in Nat
  BY TextIs
<1> HIDE DEF init, flat
<1>4. Holds(fed, key, flat) /\ fed.c_idx < PolyBlock
  <2>1. \A k \in 1 .. Len(pieces) : IsText(pieces[k]) /\ msg[k] = msg[k - 1] \o pieces[k]
    BY <1>2
  <2>2. Holds(fed, key, msg[Len(pieces)]) /\ fed.c_idx < PolyBlock
    BY <1>1, <1>2, <1>3, <2>1, UpdatedHolds
  <2>3. QED
    BY <1>2, <2>2
<1>5. crypto_poly1305_final(fed) = [key |-> key, h |-> TagBlocks(flat)]
  BY <1>4, FinalIs
<1> DEFINE once == crypto_poly1305_update(init, flat)
<1>6. Holds(once, key, <<>> \o flat) /\ once.c_idx < PolyBlock /\ IsText(flat)
  <2>1. IsText(flat)
    BY <1>4 DEF Holds
  <2>2. QED
    BY <1>1, <2>1, UpdateHolds
<1>7. <<>> \o flat = flat
  BY <1>6, EmptyText
<1> HIDE DEF once
<1>8. crypto_poly1305_final(once) = [key |-> key, h |-> TagBlocks(flat)]
  <2>1. Holds(once, key, flat)
    BY <1>6, <1>7
  <2>2. QED
    BY <1>6, <2>1, FinalIs
<1>9. QED
  BY <1>5, <1>8 DEF crypto_poly1305, once, init, flat

(* -------- the tag of a record -------- *)

\* The padding behind a text is shorter than a block and ends on one.
LEMMA Padded ==
  ASSUME NEW n \in Nat
  PROVE  /\ gap(n, PolyBlock) \in 0 .. PolyBlock - 1
         /\ IsText(Zeros(gap(n, PolyBlock))) /\ Len(Zeros(gap(n, PolyBlock))) = gap(n, PolyBlock)
         /\ \E q \in Nat : n + gap(n, PolyBlock) = PolyBlock * q
<1> DEFINE g == gap(n, PolyBlock)
           q == n \div PolyBlock
           r == n % PolyBlock
           z == Zeros(g)
<1>1. /\ PolyBlock \in Nat \ {0} /\ q \in Nat /\ r \in 0 .. PolyBlock - 1
      /\ n = PolyBlock * q + r
  BY Poly1305Assumption
<1>2. g = IF r = 0 THEN 0 ELSE PolyBlock - r
  <2> HIDE DEF r
  <2>1. gap(r, PolyBlock) = IF r = 0 THEN 0 ELSE PolyBlock - r
    BY <1>1, Alignment
  <2>2. r % PolyBlock = r
    BY <1>1, Remainders
  <2>3. QED
    BY <2>1, <2>2 DEF gap, r
<1> HIDE DEF q, r, g
<1>3. g \in 0 .. PolyBlock - 1 /\ g \in Nat
  BY <1>1, <1>2
<1>4. IsText(z) /\ Len(z) = g
  <2>1. z = [i \in 1 .. g |-> z[i]]
    BY DEF Zeros
  <2>2. QED
    BY <1>3, <2>1, TextFrom
<1>5. \E p \in Nat : n + g = PolyBlock * p
  <2>1. CASE r = 0
    <3>1. n + g = PolyBlock * q
      BY <1>1, <1>2, <2>1
    <3>2. QED
      BY <1>1, <3>1
  <2>2. CASE r # 0
    <3>1. n + g = PolyBlock * (q + 1) /\ q + 1 \in Nat
      BY <1>1, <1>2, <2>2
    <3>2. QED
      BY <3>1
  <2>3. QED
    BY <2>1, <2>2
<1>6. QED
  BY <1>3, <1>4, <1>5 DEF g

\* The two sizes at the end of what a tag is made of.
TwoSizes(a, b) == SizeBytes(a) \o SizeBytes(b)

\* t holds the sizes a and b, each in one half of a block.
SizesIn(t, a, b, half) ==
  /\ IsText(t) /\ Len(t) = PolyBlock /\ half \in Nat /\ PolyBlock = half + half
  /\ \A i \in 1 .. half : t[i] = SizeBytes(a)[i] /\ t[half + i] = SizeBytes(b)[i]

LEMMA SizesText ==
  ASSUME NEW a, NEW b, NEW half, half = PolyBlock \div 2
  PROVE  SizesIn(TwoSizes(a, b), a, b, half)
<1> DEFINE x == SizeBytes(a)
           y == SizeBytes(b)
<1>1. half \in Nat /\ PolyBlock = half + half
  BY Poly1305Assumption
<1>2. x = [i \in 1 .. half |-> x[i]] /\ y = [i \in 1 .. half |-> y[i]]
  BY DEF SizeBytes
<1> HIDE DEF x, y
<1>3. IsText(x) /\ Len(x) = half /\ IsText(y) /\ Len(y) = half
  BY <1>1, <1>2, TextFrom
<1>4. /\ IsText(x \o y) /\ Len(x \o y) = Len(x) + Len(y)
      /\ \A i \in 1 .. Len(x) : (x \o y)[i] = x[i]
      /\ \A i \in 1 .. Len(y) : (x \o y)[Len(x) + i] = y[i]
  <2>1. IsText(x) /\ IsText(y)
    BY <1>3
  <2>2. QED
    BY <2>1, TextConcat
<1>5. QED
  BY <1>1, <1>3, <1>4 DEF x, y, TwoSizes, SizesIn

\* Five texts one after the other; the places of the third and the last.
Five(a, b, c, d, e) == (((a \o b) \o c) \o d) \o e

Placed(m, a, start, c, end, e) ==
  /\ IsText(m) /\ Len(m) = end + Len(e)
  /\ \A i \in 1 .. Len(a) : m[i] = a[i]
  /\ \A i \in 1 .. Len(c) : m[start + i] = c[i]
  /\ \A i \in 1 .. Len(e) : m[end + i] = e[i]

LEMMA FiveParts ==
  ASSUME NEW a, IsText(a), NEW b, IsText(b), NEW c, IsText(c), NEW d, IsText(d), NEW e, IsText(e)
  PROVE  Placed(Five(a, b, c, d, e), a, Len(a) + Len(b), c, ((Len(a) + Len(b)) + Len(c)) + Len(d), e)
<1> DEFINE ab == a \o b
           abc == ab \o c
           abcd == abc \o d
           m == abcd \o e
<1>0. Len(a) \in Nat /\ Len(b) \in Nat /\ Len(c) \in Nat /\ Len(d) \in Nat /\ Len(e) \in Nat
  BY TextIs
<1>1. /\ IsText(ab) /\ Len(ab) = Len(a) + Len(b)
      /\ \A i \in 1 .. Len(a) : ab[i] = a[i]
  BY TextConcat
<1> HIDE DEF ab
<1>2. /\ IsText(abc) /\ Len(abc) = Len(ab) + Len(c)
      /\ \A i \in 1 .. Len(ab) : abc[i] = ab[i]
      /\ \A i \in 1 .. Len(c) : abc[Len(ab) + i] = c[i]
  <2>1. IsText(ab)
    BY <1>1
  <2>2. QED
    BY <2>1, TextConcat
<1> HIDE DEF abc
<1>3. /\ IsText(abcd) /\ Len(abcd) = Len(abc) + Len(d)
      /\ \A i \in 1 .. Len(abc) : abcd[i] = abc[i]
  <2>1. IsText(abc)
    BY <1>2
  <2>2. QED
    BY <2>1, TextConcat
<1> HIDE DEF abcd
<1>4. /\ IsText(m) /\ Len(m) = Len(abcd) + Len(e)
      /\ \A i \in 1 .. Len(abcd) : m[i] = abcd[i]
      /\ \A i \in 1 .. Len(e) : m[Len(abcd) + i] = e[i]
  <2>1. IsText(abcd)
    BY <1>3
  <2>2. QED
    BY <2>1, TextConcat
<1> HIDE DEF m
<1>5. ASSUME NEW i \in 1 .. Len(abc)
      PROVE  m[i] = abc[i]
  <2>1. i \in 1 .. Len(abcd)
    BY <1>0, <1>1, <1>2, <1>3
  <2>2. QED
    BY <1>3, <1>4, <2>1
<1>6. ASSUME NEW i \in 1 .. Len(a)
      PROVE  m[i] = a[i]
  <2>1. i \in 1 .. Len(ab) /\ i \in 1 .. Len(abc)
    BY <1>0, <1>1, <1>2
  <2>2. QED
    BY <1>1, <1>2, <1>5, <2>1
<1>7. ASSUME NEW i \in 1 .. Len(c)
      PROVE  m[Len(ab) + i] = c[i]
  <2>1. Len(ab) + i \in 1 .. Len(abc)
    BY <1>0, <1>1, <1>2
  <2>2. QED
    BY <1>2, <1>5, <2>1
<1>8. QED
  BY <1>1, <1>2, <1>3, <1>4, <1>6, <1>7 DEF Placed, Five, m, abcd, abc, ab

\* The message the tag of a record is made of.
Framed(m, ad, cipher) ==
  LET start == Len(ad) + gap(Len(ad), PolyBlock)
      sizes == (start + Len(cipher)) + gap(Len(cipher), PolyBlock)
      half  == PolyBlock \div 2
  IN /\ IsText(m) /\ Len(m) = sizes + PolyBlock
     /\ \A i \in 1 .. Len(ad) : m[i] = ad[i]
     /\ \A i \in 1 .. Len(cipher) : m[start + i] = cipher[i]
     /\ \A i \in 1 .. half : /\ m[sizes + i] = SizeBytes(Len(ad))[i]
                             /\ m[sizes + (half + i)] = SizeBytes(Len(cipher))[i]

\* It frames one record only.
LEMMA FramedSeparate ==
  ASSUME NEW m, NEW ad, IsText(ad), Len(ad) \in Sizes, NEW cipher, IsText(cipher), Len(cipher) \in Sizes,
         NEW bd, IsText(bd), Len(bd) \in Sizes, NEW dipher, IsText(dipher), Len(dipher) \in Sizes,
         Framed(m, ad, cipher), Framed(m, bd, dipher)
  PROVE  ad = bd /\ cipher = dipher
<1> DEFINE half == PolyBlock \div 2
           start(a) == Len(a) + gap(Len(a), PolyBlock)
           sizes(a, c) == (start(a) + Len(c)) + gap(Len(c), PolyBlock)
<1>1. /\ half \in Nat /\ PolyBlock = half + half
      /\ Len(ad) \in Nat /\ Len(cipher) \in Nat /\ Len(bd) \in Nat /\ Len(dipher) \in Nat
  BY Poly1305Assumption, TextIs
<1>2. ASSUME NEW n \in Nat
      PROVE  gap(n, PolyBlock) \in Nat
  <2>1. gap(n, PolyBlock) \in 0 .. PolyBlock - 1
    BY Padded
  <2>2. QED
    BY <2>1
<1>3. sizes(ad, cipher) \in Nat /\ sizes(bd, dipher) \in Nat
  <2>1. /\ gap(Len(ad), PolyBlock) \in Nat /\ gap(Len(cipher), PolyBlock) \in Nat
        /\ gap(Len(bd), PolyBlock) \in Nat /\ gap(Len(dipher), PolyBlock) \in Nat
    BY <1>1, <1>2
  <2>2. QED
    BY <1>1, <2>1, SMTT(60)
<1>4. sizes(ad, cipher) = sizes(bd, dipher)
  <2>1. Len(m) = sizes(ad, cipher) + PolyBlock /\ Len(m) = sizes(bd, dipher) + PolyBlock
    BY DEF Framed
  <2> HIDE DEF sizes
  <2>2. QED
    BY <1>1, <1>3, <2>1
<1>5. /\ \A i \in 1 .. half : /\ m[sizes(ad, cipher) + i] = SizeBytes(Len(ad))[i]
                              /\ m[sizes(ad, cipher) + (half + i)] = SizeBytes(Len(cipher))[i]
      /\ \A i \in 1 .. half : /\ m[sizes(bd, dipher) + i] = SizeBytes(Len(bd))[i]
                              /\ m[sizes(bd, dipher) + (half + i)] = SizeBytes(Len(dipher))[i]
  BY DEF Framed
<1>6. \A n : SizeBytes(n) = [i \in 1 .. half |-> SizeBytes(n)[i]]
  BY DEF SizeBytes
<1> HIDE DEF half, sizes
<1>7. \A i \in 1 .. half : /\ SizeBytes(Len(ad))[i] = SizeBytes(Len(bd))[i]
                           /\ SizeBytes(Len(cipher))[i] = SizeBytes(Len(dipher))[i]
  BY <1>4, <1>5
<1>8. SizeBytes(Len(ad)) = SizeBytes(Len(bd)) /\ SizeBytes(Len(cipher)) = SizeBytes(Len(dipher))
  BY <1>6, <1>7
<1>9. Len(ad) = Len(bd) /\ Len(cipher) = Len(dipher)
  BY <1>8, SizesAssumption
<1>10. /\ \A i \in 1 .. Len(ad) : m[i] = ad[i]
       /\ \A i \in 1 .. Len(bd) : m[i] = bd[i]
       /\ \A i \in 1 .. Len(cipher) : m[start(ad) + i] = cipher[i]
       /\ \A i \in 1 .. Len(dipher) : m[start(bd) + i] = dipher[i]
  BY DEF Framed
<1>11. start(ad) = start(bd)
  BY <1>9
<1> HIDE DEF start
<1>12. ad = bd
  <2>1. \A i \in 1 .. Len(ad) : ad[i] = bd[i]
    BY <1>9, <1>10
  <2>2. QED
    BY <1>9, <2>1, TextEqual
<1>13. cipher = dipher
  <2>1. \A i \in 1 .. Len(cipher) : cipher[i] = dipher[i]
    BY <1>9, <1>10, <1>11
  <2>2. QED
    BY <1>9, <2>1, TextEqual
<1>14. QED
  BY <1>12, <1>13

\* A tag is made of a framed message, under the first half of the block of keys.
LEMMA LockFrames ==
  ASSUME NEW ctx, NEW ad, IsText(ad), NEW cipher, IsText(cipher)
  PROVE  \E x, m : /\ lock_auth(AuthKey(ctx), ad, cipher) = [key |-> TagKey(ctx), h |-> x.h]
                   /\ Holds(x, TagKey(ctx), m) /\ x.c_idx = 0
                   /\ Framed(m, ad, cipher)
<1> DEFINE key == TagKey(ctx)
           init == crypto_poly1305_init(key, Junk)
           b == Zeros(gap(Len(ad), PolyBlock))
           d == Zeros(gap(Len(cipher), PolyBlock))
           e == TwoSizes(Len(ad), Len(cipher))
           pieces == <<ad, b, cipher, d, e>>
           x == Updated(init, pieces)
           m == Five(ad, b, cipher, d, e)
           half == PolyBlock \div 2
<1>1. Holds(init, key, <<>>) /\ init.c_idx < PolyBlock
  BY InitHolds
<1>2. Len(ad) \in Nat /\ Len(cipher) \in Nat
  BY TextIs
<1>3. /\ IsText(b) /\ Len(b) = gap(Len(ad), PolyBlock)
      /\ IsText(d) /\ Len(d) = gap(Len(cipher), PolyBlock)
  BY <1>2, Padded
<1>0. half = PolyBlock \div 2
  OBVIOUS
<1> HIDE DEF half
<1>4. /\ IsText(e) /\ Len(e) = PolyBlock /\ half \in Nat /\ PolyBlock = half + half
      /\ \A i \in 1 .. half : e[i] = SizeBytes(Len(ad))[i] /\ e[half + i] = SizeBytes(Len(cipher))[i]
  <2>1. SizesIn(TwoSizes(Len(ad), Len(cipher)), Len(ad), Len(cipher), half)
    BY <1>0, SizesText
  <2>2. QED
    BY <2>1, Zenon DEF SizesIn
<1>5. lock_auth(AuthKey(ctx), ad, cipher) = crypto_poly1305_final(x)
  BY DEF lock_auth, TwoSizes, TagKey
<1> HIDE DEF b, d, e, init, key
<1>6. Holds(x, key, m) /\ x.c_idx < PolyBlock
  <2> DEFINE msg == [k \in 0 .. 5 |->
                      CASE k = 0 -> <<>>
                        [] k = 1 -> ad
                        [] k = 2 -> ad \o b
                        [] k = 3 -> (ad \o b) \o cipher
                        [] k = 4 -> ((ad \o b) \o cipher) \o d
                        [] k = 5 -> m]
  <2>1. /\ msg[0] = <<>> /\ msg[1] = ad /\ msg[2] = ad \o b /\ msg[3] = (ad \o b) \o cipher
        /\ msg[4] = ((ad \o b) \o cipher) \o d /\ msg[5] = (((ad \o b) \o cipher) \o d) \o e
    BY SMTT(60) DEF Five
  <2>2. <<>> \o ad = ad
    BY EmptyText
  <2>3. /\ Len(pieces) = 5 /\ pieces[1] = ad /\ pieces[2] = b /\ pieces[3] = cipher
        /\ pieces[4] = d /\ pieces[5] = e
    OBVIOUS
  <2> HIDE DEF msg, pieces
  <2>4. ASSUME NEW k \in 1 .. 5
        PROVE  IsText(pieces[k]) /\ msg[k] = msg[k - 1] \o pieces[k]
    <3>1. k = 1 \/ k = 2 \/ k = 3 \/ k = 4 \/ k = 5
      OBVIOUS
    <3>2. /\ IsText(pieces[1]) /\ msg[1] = msg[0] \o pieces[1]
          /\ IsText(pieces[2]) /\ msg[2] = msg[1] \o pieces[2]
          /\ IsText(pieces[3]) /\ msg[3] = msg[2] \o pieces[3]
          /\ IsText(pieces[4]) /\ msg[4] = msg[3] \o pieces[4]
          /\ IsText(pieces[5]) /\ msg[5] = msg[4] \o pieces[5]
      BY <1>3, <1>4, <2>1, <2>2, <2>3, Zenon
    <3>3. 1 - 1 = 0 /\ 2 - 1 = 1 /\ 3 - 1 = 2 /\ 4 - 1 = 3 /\ 5 - 1 = 4
      OBVIOUS
    <3>4. QED
      BY <3>1, <3>2, <3>3, Zenon
  <2>5. Len(pieces) \in Nat /\ Len(pieces) = 5
    BY <2>3
  <2>6. Holds(Updated(init, pieces), key, msg[Len(pieces)]) /\ Updated(init, pieces).c_idx < PolyBlock
    BY <1>1, <2>1, <2>4, <2>5, UpdatedHolds
  <2>7. QED
    BY <2>1, <2>5, <2>6 DEF Five
<1> HIDE DEF x
<1> DEFINE start == Len(ad) + Len(b)
           sizes == (start + Len(cipher)) + Len(d)
<1>7. /\ IsText(m) /\ Len(m) = sizes + Len(e)
      /\ \A i \in 1 .. Len(ad) : m[i] = ad[i]
      /\ \A i \in 1 .. Len(cipher) : m[start + i] = cipher[i]
      /\ \A i \in 1 .. Len(e) : m[sizes + i] = e[i]
  <2>1. IsText(ad) /\ IsText(b) /\ IsText(cipher) /\ IsText(d) /\ IsText(e)
    BY <1>3, <1>4
  <2>2. QED
    <3>1. Placed(m, ad, start, cipher, sizes, e)
      BY <2>1, FiveParts
    <3>2. QED
      BY <3>1 DEF Placed
<1> HIDE DEF m
<1>8. Framed(m, ad, cipher)
  <2>1. ASSUME NEW i \in 1 .. half
        PROVE  m[sizes + i] = e[i] /\ m[sizes + (half + i)] = e[half + i]
    <3>1. i \in 1 .. Len(e) /\ half + i \in 1 .. Len(e)
      BY <1>4
    <3>2. QED
      BY <1>7, <3>1
  <2>2. QED
    BY <1>3, <1>4, <1>7, <2>1 DEF Framed, half
<1>9. x.c_idx = 0
  <2>1. /\ PolyBlock \in Nat \ {0} /\ Len(x.h) \in Nat /\ x.c_idx \in 0 .. PolyBlock - 1
        /\ Len(m) = PolyBlock * Len(x.h) + x.c_idx
    BY <1>6, Poly1305Assumption, TextIs, SMTT(60) DEF Holds
  <2>2. PICK p \in Nat : Len(ad) + gap(Len(ad), PolyBlock) = PolyBlock * p
    BY <1>2, Padded
  <2>3. PICK q \in Nat : Len(cipher) + gap(Len(cipher), PolyBlock) = PolyBlock * q
    BY <1>2, Padded
  <2>4. Len(m) = PolyBlock * ((p + q) + 1) + 0
    <3>1. Len(b) \in Nat /\ Len(d) \in Nat
      BY <1>3, TextIs
    <3>2. Len(m) = (Len(ad) + Len(b)) + (Len(cipher) + Len(d)) + PolyBlock
      BY <1>2, <1>4, <1>7, <3>1
    <3>3. PolyBlock * ((p + q) + 1) = PolyBlock * p + PolyBlock * q + PolyBlock
      BY <2>1
    <3>4. PolyBlock * p \in Nat /\ PolyBlock * q \in Nat
      BY <2>1
    <3>5. QED
      BY <1>3, <2>1, <2>2, <2>3, <3>2, <3>3, <3>4
  <2> DEFINE k == Len(x.h)
             r == x.c_idx
             s == (p + q) + 1
  <2>5. s \in Int /\ k \in Int /\ r \in 0 .. (PolyBlock - 1) /\ 0 \in 0 .. (PolyBlock - 1)
    BY <2>1
  <2>6. Len(m) = PolyBlock * k + r /\ Len(m) = PolyBlock * s + 0
    BY <2>1, <2>4
  <2> HIDE DEF k, r, s
  <2>7. (PolyBlock * k + r) % PolyBlock = r /\ (PolyBlock * s + 0) % PolyBlock = 0
    BY <2>1, <2>5, Division
  <2>8. r = 0
    BY <2>6, <2>7
  <2>9. QED
    BY <2>8 DEF r
<1>10. crypto_poly1305_final(x) = [key |-> key, h |-> x.h]
  BY <1>6, <1>9 DEF crypto_poly1305_final, Holds, Ctx
<1>11. QED
  BY <1>5, <1>6, <1>8, <1>9, <1>10 DEF key

\* Equal tags are of the same key and the same record.
LEMMA TagSeparate ==
  ASSUME NEW one, NEW other,
         NEW ad, IsText(ad), Len(ad) \in Sizes, NEW cipher, IsText(cipher), Len(cipher) \in Sizes,
         NEW bd, IsText(bd), Len(bd) \in Sizes, NEW dipher, IsText(dipher), Len(dipher) \in Sizes,
         lock_auth(AuthKey(one), ad, cipher) = lock_auth(AuthKey(other), bd, dipher)
  PROVE  TagKey(one) = TagKey(other) /\ ad = bd /\ cipher = dipher
<1>1. PICK x, m : /\ lock_auth(AuthKey(one), ad, cipher) = [key |-> TagKey(one), h |-> x.h]
                  /\ Holds(x, TagKey(one), m) /\ x.c_idx = 0
                  /\ Framed(m, ad, cipher)
  BY LockFrames
<1>2. PICK y, n : /\ lock_auth(AuthKey(other), bd, dipher) = [key |-> TagKey(other), h |-> y.h]
                  /\ Holds(y, TagKey(other), n) /\ y.c_idx = 0
                  /\ Framed(n, bd, dipher)
  BY LockFrames
<1>3. TagKey(one) = TagKey(other) /\ x.h = y.h
  <2>1. [key |-> TagKey(one), h |-> x.h] = [key |-> TagKey(other), h |-> y.h]
    BY <1>1, <1>2
  <2>2. QED
    BY <2>1
<1>4. m = n
  BY <1>1, <1>2, <1>3, BlocksSeparate
<1>5. ad = bd /\ cipher = dipher
  <2>1. Framed(m, ad, cipher) /\ Framed(m, bd, dipher)
    BY <1>1, <1>2, <1>4
  <2>2. QED
    BY <2>1, FramedSeparate
<1>6. QED
  BY <1>3, <1>5

(* -------- the contexts of a session -------- *)

\* Contexts for n messages and the one behind them: one counter, and keys that are all
\* different because each is made from the one before it.
Chain(ctxs, n) ==
  /\ ctxs[1].counter \in 0 .. (Word * Word - 1)
  /\ \A i \in 1 .. n + 1 : ctxs[i].counter = ctxs[1].counter
  /\ DOMAIN ctxs[1].key = 1 .. KeyBytes /\ NotStream(ctxs[1].key)
  /\ \A i \in 1 .. n : ctxs[i + 1] = Rekeyed(ctxs[i])
  /\ \A i, j \in 1 .. n + 1 : ctxs[i].key = ctxs[j].key => i = j

\* The bytes of the block of keys are key stream.
LEMMA StreamIsStream ==
  ASSUME NEW ctx, NEW o
  PROVE  \E atom \in KeyByte(ctx, o) : atom[1] = "stream"
<1> DEFINE atom == <<"stream", Input(ctx.key, ctx.nonce, ctx.counter), o>>
<1>1. atom \in KeyByte(ctx, o)
  BY DEF KeyByte
<1>2. atom[1] = "stream"
  OBVIOUS
<1> HIDE DEF atom
<1>3. QED
  BY <1>1, <1>2

\* The key the session was opened with is none of those made from it.
LEMMA NextKeyIsNew ==
  ASSUME NEW ctx, ctx.counter \in Nat, NEW key, NotStream(key), DOMAIN key = 1 .. KeyBytes
  PROVE  Rekeyed(ctx).key # key
<1>1. SUFFICES ASSUME Rekeyed(ctx).key = key
               PROVE  FALSE
  OBVIOUS
<1>2. 1 \in 1 .. KeyBytes
  BY BlockSizes
<1>3. key[1] = KeyByte(ctx, KeyBytes + 1)
  <2>1. key = [o \in 1 .. KeyBytes |-> KeyByte(ctx, KeyBytes + o)]
    BY <1>1, Keys
  <2>2. QED
    BY <1>2, <2>1
<1>4. PICK atom \in key[1] : atom[1] = "stream"
  BY <1>3, StreamIsStream
<1>5. QED
  BY <1>2, <1>4 DEF NotStream

\* One more message takes one more context.
LEMMA ChainGrows ==
  ASSUME NEW n \in Nat, NEW ctxs, Chain(ctxs, n)
  PROVE  \E new : /\ Chain(new, n + 1)
                  /\ \A i \in 1 .. n + 1 : new[i] = ctxs[i]
                  /\ new[n + 2] = Rekeyed(ctxs[n + 1])
<1> DEFINE next == Rekeyed(ctxs[n + 1])
           new == [i \in 1 .. n + 2 |-> IF i <= n + 1 THEN ctxs[i] ELSE next]
<1>1. (\A i \in 1 .. n + 1 : new[i] = ctxs[i]) /\ new[n + 2] = next /\ 1 \in 1 .. n + 1
  OBVIOUS
<1> HIDE DEF new
<1>2. /\ ctxs[1].counter \in Nat
      /\ \A i \in 1 .. n + 1 : ctxs[i].counter = ctxs[1].counter
  BY BlockSizes DEF Chain
<1>3. \A i \in 1 .. n + 1 : ctxs[i].counter \in Nat
  BY <1>2
<1>4. next.counter = ctxs[1].counter
  <2>1. next.counter = ctxs[n + 1].counter
    BY DEF Rekeyed
  <2>2. QED
    BY <1>2, <2>1
<1>5. ASSUME NEW j \in 1 .. n + 1
      PROVE  next.key # ctxs[j].key
  <2>1. ctxs[n + 1].counter \in Nat
    BY <1>3
  <2>2. CASE j = 1
    BY <2>1, <2>2, NextKeyIsNew DEF Chain
  <2>3. CASE j # 1
    <3>1. j - 1 \in 1 .. n /\ (j - 1) + 1 = j /\ j - 1 \in 1 .. n + 1 /\ n + 1 \in 1 .. n + 1
      BY <2>3
    <3>2. ctxs[j] = Rekeyed(ctxs[j - 1]) /\ ctxs[j - 1].counter \in Nat
      BY <1>3, <3>1 DEF Chain
    <3>3. ctxs[j - 1].key # ctxs[n + 1].key
      BY <3>1 DEF Chain
    <3>4. QED
      BY <2>1, <3>2, <3>3, KeysSeparate
  <2>4. QED
    BY <2>2, <2>3
<1> HIDE DEF next
<1>6. Chain(new, n + 1)
  <2>1. new[1] = ctxs[1]
    BY <1>1
  <2>2. ASSUME NEW i \in 1 .. (n + 1) + 1
        PROVE  i \in 1 .. n + 1 \/ i = n + 2
    OBVIOUS
  <2>3. \A i \in 1 .. (n + 1) + 1 : new[i].counter = new[1].counter
    BY <1>1, <1>2, <1>4, <2>1, <2>2
  <2>4. ASSUME NEW i \in 1 .. n + 1
        PROVE  new[i + 1] = Rekeyed(new[i])
    <3>1. CASE i \in 1 .. n
      <4>1. i + 1 \in 1 .. n + 1
        BY <3>1
      <4>2. QED
        BY <1>1, <3>1, <4>1 DEF Chain
    <3>2. CASE i = n + 1
      <4>1. i + 1 = n + 2
        BY <3>2
      <4>2. QED
        BY <1>1, <3>2, <4>1 DEF next
    <3>3. QED
      BY <3>1, <3>2
  <2>5. ASSUME NEW i \in 1 .. (n + 1) + 1, NEW j \in 1 .. (n + 1) + 1, new[i].key = new[j].key
        PROVE  i = j
    <3>1. CASE i \in 1 .. n + 1 /\ j \in 1 .. n + 1
      BY <1>1, <2>5, <3>1 DEF Chain
    <3>2. CASE i = n + 2 /\ j \in 1 .. n + 1
      BY <1>1, <1>5, <2>5, <3>2
    <3>3. CASE j = n + 2 /\ i \in 1 .. n + 1
      BY <1>1, <1>5, <2>5, <3>3
    <3>4. QED
      BY <2>2, <3>1, <3>2, <3>3
  <2>6. QED
    BY <2>1, <2>3, <2>4, <2>5 DEF Chain
<1>7. QED
  BY <1>1, <1>6 DEF next

\* What a session is opened with.
LEMMA OpeningContexts ==
  ASSUME NEW nonce \in Nonces,
         NEW ctx \in {crypto_aead_init_x(Key, nonce), crypto_aead_init_djb(Key, nonce),
                      crypto_aead_init_ietf(Key, nonce)}
  PROVE  /\ ctx.counter \in 0 .. (Word * Word - 1)
         /\ DOMAIN ctx.key = 1 .. KeyBytes /\ NotStream(ctx.key)
<1>1. Word \in Nat \ {0} /\ KeyBytes \in Nat /\ nonce.head \in 0 .. (Word - 1)
  BY BlockSizes, SessionTexts
<1>2. DOMAIN Key = 1 .. KeyBytes /\ NotStream(Key)
  <2>1. IsText(Key) /\ Len(Key) = KeyBytes /\ NotStream(Key)
    BY SessionTexts
  <2>2. QED
    BY <2>1, TextIs
<1>3. 0 \in 0 .. (Word * Word - 1)
  <2>1. Word * Word \in Nat \ {0}
    BY BlockSizes
  <2>2. QED
    BY <2>1
<1>4. CASE ctx = crypto_aead_init_x(Key, nonce)
  <2>1. DOMAIN crypto_chacha20_h(Key, nonce.head) = 1 .. KeyBytes
    BY DEF crypto_chacha20_h
  <2>2. NotStream(crypto_chacha20_h(Key, nonce.head))
    BY DEF crypto_chacha20_h, NotStream
  <2>3. ctx.key = crypto_chacha20_h(Key, nonce.head) /\ ctx.counter = 0
    BY <1>4 DEF crypto_aead_init_x
  <2>4. QED
    BY <1>3, <2>1, <2>2, <2>3
<1>5. CASE ctx = crypto_aead_init_djb(Key, nonce)
  BY <1>2, <1>3, <1>5 DEF crypto_aead_init_djb
<1>6. CASE ctx = crypto_aead_init_ietf(Key, nonce)
  <2>1. ctx.key = Key /\ ctx.counter = nonce.head * Word
    BY <1>6 DEF crypto_aead_init_ietf
  <2> DEFINE h == nonce.head
             rest == Word - (h + 1)
  <2>2. h \in Nat /\ rest \in Nat /\ Word = h + (rest + 1)
    BY <1>1
  <2> HIDE DEF h, rest
  <2>3. Word * Word = h * Word + (rest + 1) * Word
    BY <1>1, <2>2
  <2>4. h * Word \in Nat /\ (rest + 1) * Word = rest * Word + Word /\ rest * Word \in Nat
    BY <1>1, <2>2
  <2>5. h * Word \in 0 .. (Word * Word - 1)
    BY <1>1, <2>3, <2>4
  <2>6. QED
    BY <1>2, <2>1, <2>5 DEF h
<1>7. QED
  BY <1>4, <1>5, <1>6

(* -------- what arrives -------- *)

\* What is no longer than a size that fits its bytes fits them too.
LEMMA SmallerSize ==
  ASSUME NEW n \in Sizes, NEW m \in Nat, m <= n
  PROVE  m \in Sizes
<1> DEFINE top == 16 ^ (PolyBlock \div 2)
<1>1. PolyBlock \div 2 \in Nat
  BY Poly1305Assumption
<1>2. top \in Int
  BY <1>1
<1> HIDE DEF top
<1>3. n \in 0 .. (top - 1)
  BY DEF Sizes, top
<1>4. m \in 0 .. (top - 1)
  BY <1>2, <1>3
<1>5. QED
  BY <1>4 DEF Sizes, top

\* A record, its bytes cut elsewhere, fewer, changed or one more, is two texts whose sizes
\* fit their bytes.
LEMMA Arrived ==
  ASSUME NEW r, IsText(r.ad), IsText(r.cipher), Len(r.ad) + Len(r.cipher) + 1 \in Sizes,
         NEW d \in Damaged(r)
  PROVE  IsText(d.ad) /\ Len(d.ad) \in Sizes /\ IsText(d.cipher) /\ Len(d.cipher) \in Sizes
<1> DEFINE a == r.ad
           c == r.cipher
           m == a \o c
           Fits(t) == IsText(t) /\ Len(t) <= Len(a) + Len(c) + 1
<1>1. Len(a) \in Nat /\ Len(c) \in Nat
  BY TextIs
<1>2. IsText(m) /\ Len(m) = Len(a) + Len(c)
  BY TextConcat
<1>3. Fits(a) /\ Fits(c)
  <2>1. \A x, y \in Nat : x <= x + y + 1 /\ y <= x + y + 1
    OBVIOUS
  <2>2. Len(a) <= Len(a) + Len(c) + 1 /\ Len(c) <= Len(a) + Len(c) + 1
    BY <1>1, <2>1
  <2>3. IsText(a) /\ IsText(c)
    OBVIOUS
  <2>4. QED
    BY <2>2, <2>3
<1>4. SUFFICES Fits(d.ad) /\ Fits(d.cipher)
  <2>1. ASSUME NEW t, Fits(t)
        PROVE  IsText(t) /\ Len(t) \in Sizes
    <3>1. Len(t) \in Nat
      BY <2>1, TextIs
    <3>2. QED
      BY <2>1, <3>1, SmallerSize
  <2>2. QED
    BY <2>1
<1> DEFINE Changed(i) == [c EXCEPT ![i] = One]
<1>5. \/ \E n \in 0 .. Len(m) : d.ad = SubSeq(m, 1, n) /\ d.cipher = SubSeq(m, n + 1, Len(m))
      \/ \E n \in 0 .. (Len(c) - 1) : d.ad = a /\ d.cipher = SubSeq(c, 1, n)
      \/ d.ad = Append(a, Zero) /\ d.cipher = c
      \/ d.ad = a /\ d.cipher = Append(c, Zero)
      \/ \E i \in 1 .. Len(c) : d.ad = a /\ d.cipher = Changed(i)
  <2>1. \/ d \in Splits(m)
        \/ d \in {[ad |-> a, cipher |-> SubSeq(c, 1, n)] : n \in 0 .. (Len(c) - 1)}
        \/ d = [ad |-> Append(a, Zero), cipher |-> c]
        \/ d = [ad |-> a, cipher |-> Append(c, Zero)]
        \/ d \in {[ad |-> a, cipher |-> Changed(i)] : i \in 1 .. Len(c)}
    BY DEF Damaged
  <2> HIDE DEF m, a, c, Changed
  <2>2. CASE d \in Splits(m)
    <3>1. PICK n \in 0 .. Len(m) :
            d = [ad |-> SubSeq(m, 1, n), cipher |-> SubSeq(m, n + 1, Len(m))]
      BY <2>2 DEF Splits
    <3>2. d.ad = SubSeq(m, 1, n) /\ d.cipher = SubSeq(m, n + 1, Len(m))
      BY <3>1
    <3>3. QED
      BY <3>2
  <2>3. CASE d \in {[ad |-> a, cipher |-> SubSeq(c, 1, n)] : n \in 0 .. (Len(c) - 1)}
    BY <2>3
  <2>4. CASE d \in {[ad |-> a, cipher |-> Changed(i)] : i \in 1 .. Len(c)}
    BY <2>4
  <2>5. CASE d = [ad |-> Append(a, Zero), cipher |-> c]
    <3>1. d.ad = Append(a, Zero) /\ d.cipher = c
      BY <2>5
    <3>2. QED
      BY <3>1
  <2>6. CASE d = [ad |-> a, cipher |-> Append(c, Zero)]
    <3>1. d.ad = a /\ d.cipher = Append(c, Zero)
      BY <2>6
    <3>2. QED
      BY <3>1
  <2>7. QED
    BY <2>1, <2>2, <2>3, <2>4, <2>5, <2>6
<1> HIDE DEF m, a, c, Changed
<1>6. CASE \E n \in 0 .. Len(m) : d.ad = SubSeq(m, 1, n) /\ d.cipher = SubSeq(m, n + 1, Len(m))
  <2>1. PICK n \in 0 .. Len(m) : d.ad = SubSeq(m, 1, n) /\ d.cipher = SubSeq(m, n + 1, Len(m))
    BY <1>6
  <2>2. IsText(SubSeq(m, 1, n)) /\ Len(SubSeq(m, 1, n)) = n
    BY <1>2, TextHead
  <2>3. IsText(SubSeq(m, n + 1, Len(m))) /\ Len(SubSeq(m, n + 1, Len(m))) = Len(m) - n
    BY <1>2, TextTail
  <2>4. QED
    BY <1>1, <1>2, <2>1, <2>2, <2>3
<1>7. CASE \E n \in 0 .. (Len(c) - 1) : d.ad = a /\ d.cipher = SubSeq(c, 1, n)
  <2>1. PICK n \in 0 .. (Len(c) - 1) : d.ad = a /\ d.cipher = SubSeq(c, 1, n)
    BY <1>7
  <2>2. n \in 0 .. Len(c) /\ IsText(c)
    BY <1>1, <1>3
  <2>3. IsText(SubSeq(c, 1, n)) /\ Len(SubSeq(c, 1, n)) = n
    BY <2>2, TextHead
  <2>4. QED
    BY <1>1, <1>3, <2>1, <2>2, <2>3
<1>8. CASE d.ad = Append(a, Zero) /\ d.cipher = c
  <2>1. IsText(Append(a, Zero)) /\ Len(Append(a, Zero)) = Len(a) + 1
    BY <1>3, TextAppend
  <2>2. QED
    BY <1>1, <1>3, <1>8, <2>1
<1>9. CASE d.ad = a /\ d.cipher = Append(c, Zero)
  <2>1. IsText(Append(c, Zero)) /\ Len(Append(c, Zero)) = Len(c) + 1
    BY <1>3, TextAppend
  <2>2. QED
    BY <1>1, <1>3, <1>9, <2>1
<1>10. CASE \E i \in 1 .. Len(c) : d.ad = a /\ d.cipher = Changed(i)
  <2>1. PICK i \in 1 .. Len(c) : d.ad = a /\ d.cipher = Changed(i)
    BY <1>10
  <2>2. Changed(i) = [j \in 1 .. Len(c) |-> Changed(i)[j]]
    <3>1. DOMAIN c = 1 .. Len(c)
      BY <1>3, TextIs
    <3>2. QED
      BY <3>1 DEF Changed
  <2>3. IsText(Changed(i)) /\ Len(Changed(i)) = Len(c)
    BY <1>1, <2>2, TextFrom
  <2>4. QED
    BY <1>1, <1>3, <2>1, <2>3
<1>11. QED
  BY <1>5, <1>6, <1>7, <1>8, <1>9, <1>10

(* -------- a session -------- *)

\* The record the context of a message makes of it.
RecordOf(ctx, msg) == crypto_aead_write(ctx, msg[1], msg[2]).record

\* Every record was made by the context of its place, the writer holds the context behind
\* the last, and the reader the one behind the last record it took.
Session(ctxs) ==
  LET n == Len(sent)
      g == Len(got)
  IN /\ IsText(sent) /\ IsText(net) /\ IsText(got)
     /\ Len(net) = n /\ g \in 0 .. n /\ n <= MaxMessages
     /\ Chain(ctxs, n) /\ writer = ctxs[n + 1] /\ reader = ctxs[g + 1]
     /\ \A i \in 1 .. n : /\ sent[i] \in ADs \X Plains
                          /\ net[i] = RecordOf(ctxs[i], sent[i])
     /\ \A i \in 1 .. g : got[i] = sent[i]
     /\ opened.as = "x" => opened.nonce \in Nonces /\ ctxs[1] = crypto_aead_init_x(Key, opened.nonce)

\* Before a session is opened nothing has been written or read.
Unopened ==
  writer = NoCtx /\ reader = NoCtx /\ net = <<>> /\ sent = <<>> /\ got = <<>>

SessionInv ==
  /\ opened.as \in {"no", "x", "djb", "ietf"}
  /\ mismatch \in BOOLEAN
  /\ opened.as = "no" => Unopened
  /\ opened.as # "no" => \E ctxs : Session(ctxs)

\* What a written record is.
LEMMA Written ==
  ASSUME NEW ctx, ctx.counter \in Nat, NEW msg \in ADs \X Plains
  PROVE  LET r == RecordOf(ctx, msg) IN
         /\ r.ad = msg[1] /\ r.cipher = Encrypted(ctx, msg[2])
         /\ r.mac = lock_auth(AuthKey(ctx), r.ad, r.cipher)
         /\ IsText(r.ad) /\ IsText(r.cipher)
         /\ Len(r.ad) + Len(r.cipher) + 1 \in Sizes
         /\ Len(r.ad) \in Sizes /\ Len(r.cipher) \in Sizes
<1> DEFINE r == RecordOf(ctx, msg)
<1>1. msg[1] \in ADs /\ msg[2] \in Plains
  OBVIOUS
<1>2. /\ IsText(msg[1]) /\ IsText(msg[2])
      /\ Len(msg[1]) + Len(msg[2]) + 1 \in Sizes
  BY <1>1, SessionTexts
<1>3. /\ r.ad = msg[1] /\ r.cipher = Encrypted(ctx, msg[2])
      /\ r.mac = lock_auth(AuthKey(ctx), r.ad, r.cipher)
  BY DEF RecordOf, crypto_aead_write
<1> HIDE DEF r
<1>4. IsText(Encrypted(ctx, msg[2])) /\ Len(Encrypted(ctx, msg[2])) = Len(msg[2])
  BY <1>2, Decrypted
<1>5. Len(r.ad) + Len(r.cipher) + 1 \in Sizes /\ Len(r.ad) \in Nat /\ Len(r.cipher) \in Nat
  BY <1>2, <1>3, <1>4, TextIs
<1>6. Len(r.ad) \in Sizes /\ Len(r.cipher) \in Sizes
  <2>0. \A x, y \in Nat : x <= x + y + 1 /\ y <= x + y + 1
    OBVIOUS
  <2>1. Len(r.ad) <= Len(r.ad) + Len(r.cipher) + 1 /\ Len(r.cipher) <= Len(r.ad) + Len(r.cipher) + 1
    BY <1>5, <2>0
  <2>2. QED
    BY <1>5, <2>1, SmallerSize
<1>7. QED
  BY <1>2, <1>3, <1>4, <1>5, <1>6 DEF r

LEMMA InitSession == Init => SessionInv
<1> SUFFICES ASSUME Init
             PROVE  SessionInv
  OBVIOUS
<1>1. opened.as = "no" /\ mismatch = FALSE /\ Unopened
  BY DEF Init, Unopened
<1>2. QED
  BY <1>1 DEF SessionInv

LEMMA OpenSession ==
  ASSUME SessionInv, Open
  PROVE  SessionInv'
<1>1. PICK nonce \in Nonces, as \in {"x", "djb", "ietf"} :
        /\ opened' = [as |-> as, nonce |-> nonce]
        /\ writer' = CASE as = "x"    -> crypto_aead_init_x(Key, nonce)
                       [] as = "djb"  -> crypto_aead_init_djb(Key, nonce)
                       [] as = "ietf" -> crypto_aead_init_ietf(Key, nonce)
  BY DEF Open
<1>2. opened'.as = as /\ opened'.nonce = nonce /\ as # "no"
  BY <1>1
<1>3. writer' \in {crypto_aead_init_x(Key, nonce), crypto_aead_init_djb(Key, nonce),
                   crypto_aead_init_ietf(Key, nonce)}
  BY <1>1
<1>4. as = "x" => writer' = crypto_aead_init_x(Key, nonce)
  BY <1>1
<1>5. /\ reader' = writer' /\ mismatch' = mismatch
      /\ net' = <<>> /\ sent' = <<>> /\ got' = <<>>
  BY DEF Open, Idle, SessionInv, Unopened
<1>a. PICK ctx : ctx = writer'
  OBVIOUS
<1> DEFINE ctxs == [i \in 1 .. 1 |-> ctx]
<1>6. ctxs[1] = writer'
  BY <1>a
<1> HIDE DEF ctxs
<1>7. Chain(ctxs, 0)
  <2>1. /\ writer'.counter \in 0 .. (Word * Word - 1)
        /\ DOMAIN writer'.key = 1 .. KeyBytes /\ NotStream(writer'.key)
    BY <1>3, OpeningContexts
  <2>2. \A i \in 1 .. 0 + 1 : i = 1
    OBVIOUS
  <2>3. \A i \in 1 .. 0 : FALSE
    OBVIOUS
  <2>4. QED
    BY <1>6, <2>1, <2>2, <2>3 DEF Chain
<1>8. MaxMessages \in Nat
  BY SessionTexts
<1>9. IsText(<<>>) /\ Len(<<>>) = 0
  BY EmptyText
<1>10. Session(ctxs)'
  <2>1. Len(sent') = 0 /\ Len(got') = 0 /\ Len(net') = 0
    BY <1>5, <1>9
  <2>2. IsText(sent') /\ IsText(net') /\ IsText(got')
    BY <1>5, <1>9
  <2>3. writer' = ctxs[0 + 1] /\ reader' = ctxs[0 + 1]
    BY <1>5, <1>6
  <2>4. opened'.as = "x" => opened'.nonce \in Nonces /\ ctxs[1] = crypto_aead_init_x(Key, opened'.nonce)
    BY <1>2, <1>4, <1>6
  <2>5. \A i \in 1 .. 0 : FALSE
    OBVIOUS
  <2>6. QED
    BY <1>7, <1>8, <2>1, <2>2, <2>3, <2>4, <2>5 DEF Session
<1>11. QED
  BY <1>2, <1>5, <1>10 DEF SessionInv

LEMMA WriteSession ==
  ASSUME SessionInv, Write
  PROVE  SessionInv'
<1> DEFINE n == Len(sent)
           g == Len(got)
<1>1. opened.as # "no" /\ n < MaxMessages
  BY DEF Write
<1>2. PICK ctxs : Session(ctxs)
  BY <1>1 DEF SessionInv
<1>3. PICK ad \in ADs, plain \in Plains :
        /\ net' = Append(net, crypto_aead_write(writer, ad, plain).record)
        /\ writer' = crypto_aead_write(writer, ad, plain).ctx
        /\ sent' = Append(sent, <<ad, plain>>)
  BY DEF Write
<1> DEFINE msg == <<ad, plain>>
<1>4. /\ IsText(sent) /\ IsText(net) /\ IsText(got) /\ n \in Nat
      /\ Len(net) = n /\ g \in 0 .. n /\ MaxMessages \in Nat
      /\ Chain(ctxs, n) /\ writer = ctxs[n + 1] /\ reader = ctxs[g + 1]
      /\ \A i \in 1 .. n : /\ sent[i] \in ADs \X Plains
                           /\ net[i] = RecordOf(ctxs[i], sent[i])
      /\ \A i \in 1 .. g : got[i] = sent[i]
  BY <1>2, SessionTexts, TextIs DEF Session
<1>5. PICK new : /\ Chain(new, n + 1)
                 /\ \A i \in 1 .. n + 1 : new[i] = ctxs[i]
                 /\ new[n + 2] = Rekeyed(ctxs[n + 1])
  <2> HIDE DEF n
  <2>1. QED
    BY <1>4, ChainGrows
<1>6. net' = Append(net, RecordOf(writer, msg)) /\ writer' = Rekeyed(writer) /\ msg \in ADs \X Plains
  BY <1>3 DEF RecordOf, crypto_aead_write
<1>7. UNCHANGED <<opened, reader, got, mismatch>>
  BY DEF Write
<1> HIDE DEF msg, n
<1>8. /\ IsText(sent') /\ Len(sent') = n + 1 /\ sent'[n + 1] = msg
      /\ \A i \in 1 .. n : sent'[i] = sent[i]
  BY <1>3, <1>4, TextAppend DEF msg, n
<1>9. /\ IsText(net') /\ Len(net') = n + 1 /\ net'[n + 1] = RecordOf(writer, msg)
      /\ \A i \in 1 .. n : net'[i] = net[i]
  <2> DEFINE rec == RecordOf(writer, msg)
  <2>1. net' = Append(net, rec) /\ Len(net) = n /\ IsText(net)
    BY <1>4, <1>6
  <2> HIDE DEF rec
  <2>2. QED
    BY <2>1, TextAppend DEF rec
<1>10. Session(new)'
  <2>1. n + 1 \in 1 .. n + 1 /\ (n + 1) + 1 = n + 2 /\ g + 1 \in 1 .. n + 1 /\ 1 \in 1 .. n + 1
    BY <1>4
  <2>2. writer' = new[(n + 1) + 1] /\ reader' = new[g + 1]
    BY <1>4, <1>5, <1>6, <1>7, <2>1
  <2>3. ASSUME NEW i \in 1 .. n + 1
        PROVE  sent'[i] \in ADs \X Plains /\ net'[i] = RecordOf(new[i], sent'[i])
    <3>1. CASE i \in 1 .. n
      BY <1>4, <1>5, <1>8, <1>9, <3>1
    <3>2. CASE i = n + 1
      BY <1>4, <1>5, <1>6, <1>8, <1>9, <2>1, <3>2
    <3>3. i \in 1 .. n \/ i = n + 1
      BY <1>4
    <3>4. QED
      BY <3>1, <3>2, <3>3
  <2>4. \A i \in 1 .. g : i \in 1 .. n
    BY <1>4
  <2>5. \A i \in 1 .. g : got'[i] = sent'[i]
    BY <1>4, <1>7, <1>8, <2>4
  <2>6. opened'.as = "x" => opened'.nonce \in Nonces /\ new[1] = crypto_aead_init_x(Key, opened'.nonce)
    <3>1. opened.as = "x" => opened.nonce \in Nonces /\ ctxs[1] = crypto_aead_init_x(Key, opened.nonce)
      BY <1>2 DEF Session
    <3>2. QED
      BY <1>5, <1>7, <2>1, <3>1
  <2>7. Len(got') = g /\ g \in 0 .. n + 1 /\ n + 1 <= MaxMessages /\ IsText(got')
    BY <1>1, <1>4, <1>7 DEF n
  <2> HIDE DEF g
  <2>8. QED
    BY <1>5, <1>8, <1>9, <2>2, <2>3, <2>5, <2>6, <2>7 DEF Session
<1>11. opened' = opened /\ mismatch' = mismatch /\ opened.as \in {"no", "x", "djb", "ietf"} /\ mismatch \in BOOLEAN
  BY <1>7 DEF SessionInv
<1>12. QED
  BY <1>1, <1>10, <1>11 DEF SessionInv

\* A reader that does not refuse a record is at the place it was written for, and gets
\* what was written.
LEMMA Taken ==
  ASSUME NEW ctxs, Session(ctxs), NEW record \in Arriving, ~crypto_aead_read(reader, record).mismatch
  PROVE  LET k == Len(got) + 1 IN
         /\ k \in 1 .. Len(sent) /\ reader = ctxs[k]
         /\ crypto_aead_read(reader, record).ctx = ctxs[k + 1]
         /\ <<record.ad, crypto_aead_read(reader, record).plain>> = sent[k]
<1> DEFINE n == Len(sent)
           g == Len(got)
<1>1. /\ IsText(sent) /\ n \in Nat /\ g \in 0 .. n
      /\ Chain(ctxs, n) /\ reader = ctxs[g + 1] /\ Len(net) = n
      /\ \A i \in 1 .. n : /\ sent[i] \in ADs \X Plains
                           /\ net[i] = RecordOf(ctxs[i], sent[i])
  BY TextIs DEF Session
<1>2. PICK i \in 1 .. n, k \in 1 .. n : \E d \in Damaged(net[i]) :
        record = [ad |-> d.ad, cipher |-> d.cipher, mac |-> net[k].mac]
  BY <1>1 DEF Arriving
<1>3. PICK d \in Damaged(net[i]) : record = [ad |-> d.ad, cipher |-> d.cipher, mac |-> net[k].mac]
  BY <1>2
<1>4. \A j \in 1 .. n + 1 : ctxs[j].counter \in Nat
  <2> DEFINE w == Word * Word
  <2>1. w \in Nat
    BY BlockSizes
  <2>2. ctxs[1].counter \in 0 .. (w - 1)
    BY <1>1 DEF Chain
  <2>3. \A j \in 1 .. n + 1 : ctxs[j].counter = ctxs[1].counter
    BY <1>1 DEF Chain
  <2> HIDE DEF w
  <2>4. ctxs[1].counter \in Nat
    BY <2>1, <2>2
  <2>5. QED
    BY <2>3, <2>4
<1>5. i \in 1 .. n + 1 /\ k \in 1 .. n + 1 /\ g + 1 \in 1 .. n + 1
  BY <1>1
<1> HIDE DEF n, g
<1>6. /\ IsText(d.ad) /\ Len(d.ad) \in Sizes
      /\ IsText(d.cipher) /\ Len(d.cipher) \in Sizes
  <2>1. ctxs[i].counter \in Nat /\ sent[i] \in ADs \X Plains /\ net[i] = RecordOf(ctxs[i], sent[i])
    BY <1>1, <1>4, <1>5
  <2>2. /\ IsText(net[i].ad) /\ IsText(net[i].cipher)
        /\ Len(net[i].ad) + Len(net[i].cipher) + 1 \in Sizes
    BY <2>1, Written
  <2>3. QED
    BY <2>2, Arrived
<1> DEFINE r == net[k]
           text == sent[k][2]
<1>7. /\ ctxs[k].counter \in Nat /\ sent[k] \in ADs \X Plains /\ r = RecordOf(ctxs[k], sent[k])
  BY <1>1, <1>4, <1>5
<1>8. /\ r.ad = sent[k][1] /\ r.cipher = Encrypted(ctxs[k], text)
      /\ r.mac = lock_auth(AuthKey(ctxs[k]), r.ad, r.cipher)
      /\ IsText(r.ad) /\ IsText(r.cipher)
      /\ Len(r.ad) \in Sizes /\ Len(r.cipher) \in Sizes
  <2> DEFINE c == ctxs[k]
             msg == sent[k]
  <2>1. c.counter \in Nat /\ msg \in ADs \X Plains /\ r = RecordOf(c, msg)
    BY <1>7
  <2> HIDE DEF c, msg, r
  <2>2. r.ad = msg[1] /\ r.cipher = Encrypted(c, msg[2]) /\ r.mac = lock_auth(AuthKey(c), r.ad, r.cipher)
    BY <2>1, Written
  <2>3. IsText(r.ad) /\ IsText(r.cipher) /\ Len(r.ad) \in Sizes /\ Len(r.cipher) \in Sizes
    BY <2>1, Written
  <2>4. QED
    BY <2>2, <2>3 DEF c, msg
<1>9. /\ record.ad = d.ad /\ record.cipher = d.cipher /\ record.mac = r.mac
  BY <1>3
<1> HIDE DEF r, text
<1>10. record.mac = lock_auth(AuthKey(reader), record.ad, record.cipher)
  BY DEF crypto_aead_read
<1>11. /\ crypto_aead_read(reader, record).plain = Encrypted(reader, record.cipher)
       /\ crypto_aead_read(reader, record).ctx = Rekeyed(reader)
  BY <1>10 DEF crypto_aead_read
<1>12. TagKey(ctxs[k]) = TagKey(reader) /\ r.ad = d.ad /\ r.cipher = d.cipher
  <2>1. lock_auth(AuthKey(ctxs[k]), r.ad, r.cipher) = lock_auth(AuthKey(reader), d.ad, d.cipher)
    BY <1>8, <1>9, <1>10
  <2> DEFINE a == r.ad
             c == r.cipher
             b == d.ad
             e == d.cipher
  <2>2. /\ IsText(a) /\ Len(a) \in Sizes /\ IsText(c) /\ Len(c) \in Sizes
        /\ IsText(b) /\ Len(b) \in Sizes /\ IsText(e) /\ Len(e) \in Sizes
        /\ lock_auth(AuthKey(ctxs[k]), a, c) = lock_auth(AuthKey(reader), b, e)
    BY <1>6, <1>8, <2>1
  <2> HIDE DEF a, b, c, e
  <2>3. TagKey(ctxs[k]) = TagKey(reader) /\ a = b /\ c = e
    BY <2>2, TagSeparate
  <2>4. QED
    BY <2>3 DEF a, b, c, e
<1>13. k = g + 1
  <2>1. ctxs[k].counter \in Nat /\ reader.counter \in Nat
    BY <1>1, <1>4, <1>5
  <2>2. ctxs[k].key = reader.key
    BY <1>12, <2>1, KeysSeparate
  <2>3. QED
    BY <1>1, <1>5, <2>2 DEF Chain
<1>14. Rekeyed(reader) = ctxs[k + 1]
  BY <1>1, <1>13 DEF Chain
<1>15. Encrypted(reader, d.cipher) = text
  <2>1. IsText(text)
    BY <1>7, SessionTexts DEF text
  <2>2. Encrypted(ctxs[k], Encrypted(ctxs[k], text)) = text
    BY <1>7, <2>1, Decrypted
  <2>3. QED
    BY <1>1, <1>8, <1>12, <1>13, <2>2
<1>16. <<d.ad, text>> = sent[k]
  <2>1. sent[k] = <<sent[k][1], sent[k][2]>>
    BY <1>7
  <2>2. d.ad = sent[k][1]
    BY <1>8, <1>12
  <2>3. QED
    BY <2>1, <2>2 DEF text
<1>17. QED
  BY <1>1, <1>9, <1>11, <1>13, <1>14, <1>15, <1>16 DEF n, g

LEMMA ReadSession ==
  ASSUME SessionInv, Read
  PROVE  SessionInv'
<1> DEFINE n == Len(sent)
           g == Len(got)
<1>1. PICK record \in Arriving :
        /\ mismatch' = crypto_aead_read(reader, record).mismatch
        /\ reader' = crypto_aead_read(reader, record).ctx
        /\ got' = IF crypto_aead_read(reader, record).mismatch THEN got
                  ELSE Append(got, <<record.ad, crypto_aead_read(reader, record).plain>>)
  BY DEF Read
<1>2. UNCHANGED <<opened, writer, net, sent>>
  BY DEF Read
<1>3. opened.as # "no"
  <2>1. SUFFICES ASSUME opened.as = "no"
                 PROVE  FALSE
    OBVIOUS
  <2>2. net = <<>>
    BY <2>1 DEF SessionInv, Unopened
  <2>3. Len(net) = 0
    BY <2>2, EmptyText
  <2>4. QED
    BY <1>1, <2>3 DEF Arriving
<1>4. PICK ctxs : Session(ctxs)
  BY <1>3 DEF SessionInv
<1>5. /\ IsText(sent) /\ IsText(net) /\ IsText(got) /\ n \in Nat
      /\ Len(net) = n /\ g \in 0 .. n /\ n <= MaxMessages
      /\ Chain(ctxs, n) /\ writer = ctxs[n + 1] /\ reader = ctxs[g + 1]
      /\ \A i \in 1 .. n : /\ sent[i] \in ADs \X Plains
                           /\ net[i] = RecordOf(ctxs[i], sent[i])
      /\ \A i \in 1 .. g : got[i] = sent[i]
      /\ opened.as = "x" => opened.nonce \in Nonces /\ ctxs[1] = crypto_aead_init_x(Key, opened.nonce)
  BY <1>4, TextIs DEF Session
<1> DEFINE back == crypto_aead_read(reader, record)
<1>6. back.mismatch \in BOOLEAN
  BY DEF crypto_aead_read
<1>7. /\ IsText(got') /\ Len(got') \in 0 .. n /\ reader' = ctxs[Len(got') + 1]
      /\ \A i \in 1 .. Len(got') : got'[i] = sent[i]
  <2>1. CASE back.mismatch
    <3>1. got' = got /\ reader' = reader
      BY <1>1, <2>1 DEF crypto_aead_read
    <3>2. QED
      BY <1>5, <3>1
  <2>2. CASE ~back.mismatch
    <3> DEFINE msg == <<record.ad, back.plain>>
    <3>1. got' = Append(got, msg) /\ reader' = back.ctx
      BY <1>1, <2>2
    <3>2. /\ g + 1 \in 1 .. n /\ back.ctx = ctxs[(g + 1) + 1] /\ msg = sent[g + 1]
      BY <1>4, <2>2, Taken
    <3> HIDE DEF msg, g
    <3>3. /\ IsText(got') /\ Len(got') = g + 1 /\ got'[g + 1] = msg
          /\ \A i \in 1 .. g : got'[i] = got[i]
      BY <1>5, <3>1, TextAppend DEF g
    <3>4. ASSUME NEW i \in 1 .. g + 1
          PROVE  got'[i] = sent[i]
      <4>1. i \in 1 .. g \/ i = g + 1
        BY <1>5
      <4>2. QED
        BY <1>5, <3>2, <3>3, <4>1
    <3>5. QED
      BY <1>5, <3>1, <3>2, <3>3, <3>4
  <2>3. QED
    BY <1>6, <2>1, <2>2
<1>8. Session(ctxs)'
  <2> HIDE DEF n, g, back
  <2>1. Len(sent) = n
    BY DEF n
  <2>2. QED
    BY <1>2, <1>5, <1>7, <2>1 DEF Session
<1>9. opened' = opened /\ mismatch' \in BOOLEAN /\ opened.as \in {"no", "x", "djb", "ietf"}
  BY <1>1, <1>2, <1>6 DEF SessionInv
<1>10. QED
  BY <1>3, <1>8, <1>9 DEF SessionInv

LEMMA UnchangedSession ==
  ASSUME SessionInv, UNCHANGED <<opened, writer, reader, net, sent, got, mismatch>>
  PROVE  SessionInv'
BY DEF SessionInv, Session, Unopened

LEMMA NextSession ==
  ASSUME SessionInv, [Next]_vars
  PROVE  SessionInv'
<1>1. CASE Open
  BY <1>1, OpenSession
<1>2. CASE Write
  BY <1>2, WriteSession
<1>3. CASE Read
  BY <1>3, ReadSession
<1>4. CASE CallChaCha20
  BY <1>4, UnchangedSession DEF CallChaCha20
<1>5. CASE CallPoly1305
  BY <1>5, UnchangedSession DEF CallPoly1305
<1>6. CASE CallPolyBlocks
  BY <1>6, UnchangedSession DEF CallPolyBlocks
<1>7. CASE UNCHANGED vars
  BY <1>7, UnchangedSession DEF vars
<1>8. QED
  BY <1>1, <1>2, <1>3, <1>4, <1>5, <1>6, <1>7 DEF Next

\* The invariant of a session, in every state.
LEMMA SessionHolds == Spec => []SessionInv
BY InitSession, NextSession, PTL DEF Spec

\* A context reads what it has written.
LEMMA Readable ==
  ASSUME NEW ctx, ctx.counter \in Nat, NEW msg \in ADs \X Plains
  PROVE  LET back == crypto_aead_read(ctx, RecordOf(ctx, msg))
         IN ~back.mismatch /\ back.plain = msg[2]
<1> DEFINE r == RecordOf(ctx, msg)
           text == msg[2]
<1>1. r.cipher = Encrypted(ctx, text) /\ r.mac = lock_auth(AuthKey(ctx), r.ad, r.cipher)
  BY Written
<1>2. IsText(text)
  BY SessionTexts
<1> HIDE DEF r, text
<1>3. Encrypted(ctx, r.cipher) = text
  BY <1>1, <1>2, Decrypted
<1>4. crypto_aead_read(ctx, r) = [mismatch |-> FALSE, plain |-> Encrypted(ctx, r.cipher), ctx |-> Rekeyed(ctx)]
  BY <1>1 DEF crypto_aead_read
<1>5. QED
  BY <1>3, <1>4 DEF r, text

(* -------- the key stream of a session -------- *)

\* The place of byte i of a text in the key stream of its context.
Spot(ctx, i) == ((ctx.counter + 1) % (Word * Word)) + ((i - 1) \div Block)

\* The atom of key stream that meets byte i of the text of a context.
Met(ctx, i) == <<"stream", Input(ctx.key, ctx.nonce, Spot(ctx, i)), ((i - 1) % Block) + 1>>

\* Equal inputs of the block function have one key, and counters equal up to their wrap.
LEMMA SameInput ==
  ASSUME NEW k, NEW n, NEW x \in Nat, NEW l, NEW m, NEW y \in Nat, Input(k, n, x) = Input(l, m, y)
  PROVE  k = l /\ x % (Word * Word) = y % (Word * Word)
<1>1. k = l /\ x % Word = y % Word /\ (x \div Word) % Word = (y \div Word) % Word
  BY DEF Input
<1>2. QED
  BY <1>1, BlockSizes, TwoDigits

\* The texts of a session are shorter than the key stream behind the block of keys.
LEMMA Spots ==
  ASSUME NEW ctx, ctx.counter \in 0 .. (Word * Word - 1),
         NEW n \in Nat, n <= Block * (Word * Word - 1), NEW i \in 1 .. n
  PROVE  /\ (i - 1) \div Block \in 0 .. (Word * Word - 2)
         /\ (ctx.counter + 1) % (Word * Word) \in Nat
         /\ Spot(ctx, i) \in Nat
         /\ Spot(ctx, i) % (Word * Word) # ctx.counter % (Word * Word)
<1> DEFINE M == Word * Word
           c == ctx.counter
           p == (i - 1) \div Block
           r == (i - 1) % Block
           s == (c + 1) % M
<1>1. M \in Nat \ {0} /\ Block \in Nat \ {0} /\ c \in 0 .. (M - 1)
  BY BlockSizes
<1>2. p \in Nat /\ r \in 0 .. (Block - 1) /\ i - 1 = Block * p + r
  BY <1>1
<1> HIDE DEF p, r, c, M
<1>3. p <= M - 2
  <2>1. CASE p >= M - 1
    <3>1. Block * p >= Block * (M - 1) /\ Block * p \in Nat /\ Block * (M - 1) \in Nat
      BY <1>1, <1>2, <2>1
    <3>2. i <= Block * (M - 1)
      BY <1>1 DEF M
    <3>3. QED
      BY <1>1, <1>2, <3>1, <3>2
  <2>2. QED
    BY <1>1, <1>2, <2>1
<1>4. s = IF c = M - 1 THEN 0 ELSE c + 1
  <2>1. CASE c = M - 1
    BY <1>1, <2>1, Remainders
  <2>2. CASE c # M - 1
    <3>1. c + 1 \in 0 .. (M - 1)
      BY <1>1, <2>2
    <3>2. QED
      BY <1>1, <2>2, <3>1, Remainders
  <2>3. QED
    BY <2>1, <2>2
<1> HIDE DEF s
<1>5. s + p \in Nat /\ s \in Nat
  BY <1>1, <1>2, <1>4
<1>6. (s + p) % M # c % M
  <2>1. SUFFICES ASSUME (s + p) % M = c % M
                 PROVE  FALSE
    OBVIOUS
  <2>2. CASE c = M - 1
    <3>1. s + p <= c /\ c - (s + p) < M /\ s + p # c
      BY <1>1, <1>2, <1>3, <1>4, <2>2
    <3> DEFINE x == s + p
    <3> HIDE DEF x
    <3>2. x \in Nat /\ c \in Nat /\ x <= c /\ c - x < M /\ x # c /\ x % M = c % M
      BY <1>1, <1>5, <2>1, <3>1 DEF x
    <3>3. QED
      BY <1>1, <3>2, Apart
  <2>3. CASE c # M - 1
    <3>1. c <= s + p /\ (s + p) - c < M /\ s + p # c
      BY <1>1, <1>2, <1>3, <1>4, <2>3
    <3> DEFINE x == s + p
    <3> HIDE DEF x
    <3>2. x \in Nat /\ c \in Nat /\ c <= x /\ x - c < M /\ x # c /\ c % M = x % M
      BY <1>1, <1>5, <2>1, <3>1 DEF x
    <3>3. QED
      BY <1>1, <3>2, Apart
  <2>4. QED
    BY <2>2, <2>3
<1>7. p \in 0 .. (M - 2)
  BY <1>1, <1>2, <1>3
<1>8. QED
  BY <1>5, <1>6, <1>7 DEF Spot, s, p, c, M

\* What meets a text is not part of a key.
LEMMA MetIsNoKey ==
  ASSUME NEW ctx, ctx.counter \in 0 .. (Word * Word - 1),
         NEW n \in Nat, n <= Block * (Word * Word - 1), NEW i \in 1 .. n,
         NEW other, other.counter = ctx.counter, NEW o
  PROVE  Met(ctx, i) \notin KeyByte(other, o)
<1>1. SUFFICES ASSUME Met(ctx, i) \in KeyByte(other, o)
               PROVE  FALSE
  OBVIOUS
<1>2. Met(ctx, i) = <<"stream", Input(other.key, other.nonce, other.counter), o>>
  BY <1>1 DEF KeyByte
<1>3. Input(ctx.key, ctx.nonce, Spot(ctx, i)) = Input(other.key, other.nonce, other.counter)
  BY <1>2 DEF Met
<1>4. Spot(ctx, i) \in Nat /\ Spot(ctx, i) % (Word * Word) # ctx.counter % (Word * Word)
  BY Spots
<1>5. other.counter \in Nat
  BY BlockSizes
<1>6. Spot(ctx, i) % (Word * Word) = other.counter % (Word * Word)
  BY <1>3, <1>4, <1>5, SameInput
<1>7. QED
  BY <1>4, <1>6

\* No place of the key stream meets two bytes.
LEMMA MetOnce ==
  ASSUME NEW ctx, ctx.counter \in 0 .. (Word * Word - 1),
         NEW n \in Nat, n <= Block * (Word * Word - 1), NEW i \in 1 .. n,
         NEW other, other.counter = ctx.counter,
         NEW m \in Nat, m <= Block * (Word * Word - 1), NEW j \in 1 .. m,
         Met(ctx, i) = Met(other, j)
  PROVE  ctx.key = other.key /\ i = j
<1> DEFINE M == Word * Word
           s == (ctx.counter + 1) % M
           p == (i - 1) \div Block
           q == (j - 1) \div Block
           r == (i - 1) % Block
           t == (j - 1) % Block
<1>1. M \in Nat \ {0} /\ Block \in Nat \ {0}
  BY BlockSizes
<1>2. /\ Input(ctx.key, ctx.nonce, Spot(ctx, i)) = Input(other.key, other.nonce, Spot(other, j))
      /\ r + 1 = t + 1
  BY DEF Met
<1>3. /\ p \in 0 .. (M - 2) /\ s \in Nat /\ Spot(ctx, i) \in Nat
      /\ q \in 0 .. (M - 2) /\ Spot(other, j) \in Nat
  BY Spots
<1>4. ctx.key = other.key /\ Spot(ctx, i) % M = Spot(other, j) % M
  BY <1>2, <1>3, SameInput
<1>5. (s + p) % M = (s + q) % M
  BY <1>4 DEF Spot
<1>6. /\ r \in 0 .. (Block - 1) /\ t \in 0 .. (Block - 1)
      /\ i - 1 = Block * p + r /\ j - 1 = Block * q + t
  BY <1>1
<1> HIDE DEF M, s, p, q, r, t
<1>7. p = q
  <2> DEFINE x == s + p
             y == s + q
  <2>1. x \in Nat /\ y \in Nat /\ x % M = y % M /\ (x = y => p = q)
    BY <1>1, <1>3, <1>5
  <2>2. x - y < M /\ y - x < M /\ (x <= y \/ y <= x)
    BY <1>1, <1>3
  <2> HIDE DEF x, y
  <2>3. x = y
    <3>1. CASE x <= y
      BY <1>1, <2>1, <2>2, <3>1, Apart
    <3>2. CASE y <= x
      BY <1>1, <2>1, <2>2, <3>2, Apart
    <3>3. QED
      BY <2>2, <3>1, <3>2
  <2>4. QED
    BY <2>1, <2>3
<1>8. i = j
  <2>1. r = t
    BY <1>2, <1>6
  <2>2. i - 1 = j - 1
    BY <1>6, <1>7, <2>1
  <2>3. QED
    BY <2>2
<1>9. QED
  BY <1>4, <1>8

(* -------- the theorems -------- *)

\* Both ends keep the counter the session was opened with, one record is in the channel
\* for each message written, and no more are written than the bound allows: a context
\* that is re-keyed never comes back to a counter under the same key.
THEOREM TypeCorrect == Spec => []TypeOK
<1>1. SessionInv => TypeOK
  <2> SUFFICES ASSUME SessionInv
               PROVE  TypeOK
    OBVIOUS
  <2>1. Word * Word \in Nat \ {0} /\ MaxMessages \in Nat
    BY BlockSizes, SessionTexts
  <2>2. CASE opened.as = "no"
    <3>1. Unopened /\ mismatch \in BOOLEAN
      BY <2>2 DEF SessionInv
    <3>2. Len(sent) = 0 /\ Len(net) = 0
      BY <3>1, EmptyText DEF Unopened
    <3>3. writer.counter = 0 /\ reader.counter = 0
      BY <3>1 DEF Unopened, NoCtx
    <3>4. QED
      BY <2>1, <2>2, <3>1, <3>2, <3>3 DEF TypeOK
  <2>3. CASE opened.as # "no"
    <3>1. PICK ctxs : Session(ctxs)
      BY <2>3 DEF SessionInv
    <3>2. /\ Len(net) = Len(sent) /\ Len(sent) <= MaxMessages /\ Len(sent) \in Nat
          /\ Chain(ctxs, Len(sent)) /\ writer = ctxs[Len(sent) + 1]
          /\ Len(got) \in 0 .. Len(sent) /\ reader = ctxs[Len(got) + 1]
      BY <3>1, TextIs DEF Session
    <3>3. writer.counter = ctxs[1].counter /\ reader.counter = ctxs[1].counter
      <4>1. Len(sent) + 1 \in 1 .. Len(sent) + 1 /\ Len(got) + 1 \in 1 .. Len(sent) + 1
        BY <3>2
      <4>2. QED
        BY <3>2, <4>1 DEF Chain
    <3>4. ctxs[1].counter \in 0 .. (Word * Word - 1)
      BY <3>2 DEF Chain
    <3>5. opened.as \in {"no", "x", "djb", "ietf"} /\ mismatch \in BOOLEAN
      BY DEF SessionInv
    <3>6. QED
      BY <3>2, <3>3, <3>4, <3>5 DEF TypeOK
  <2>4. QED
    BY <2>2, <2>3
<1>2. QED
  BY SessionHolds, <1>1, PTL

\* Whatever the channel loses, repeats, reorders or damages, crypto_aead_read takes only
\* the messages crypto_aead_write was given, in their order and without a gap.
THEOREM OnlySentIsAccepted == Spec => []OnlySentAccepted
<1>1. SessionInv => OnlySentAccepted
  <2> SUFFICES ASSUME SessionInv
               PROVE  OnlySentAccepted
    OBVIOUS
  <2>1. IsText(sent) /\ IsText(got) /\ Len(got) \in 0 .. Len(sent)
        /\ \A i \in 1 .. Len(got) : got[i] = sent[i]
    <3>1. CASE opened.as = "no"
      <4>1. got = <<>> /\ sent = <<>>
        BY <3>1 DEF SessionInv, Unopened
      <4>2. Len(got) = 0 /\ Len(sent) = 0 /\ IsText(got) /\ IsText(sent)
        BY <4>1, EmptyText
      <4>3. QED
        BY <4>2
    <3>2. CASE opened.as # "no"
      <4>1. PICK ctxs : Session(ctxs)
        BY <3>2 DEF SessionInv
      <4>2. QED
        BY <4>1 DEF Session
    <3>3. QED
      BY <3>1, <3>2
  <2> DEFINE g == Len(got)
             a == SubSeq(got, 1, g)
             b == SubSeq(sent, 1, g)
  <2>2. g \in Nat /\ Len(sent) \in Nat /\ g <= Len(sent)
    BY <2>1, TextIs
  <2>3. IsText(a) /\ Len(a) = g /\ \A i \in 1 .. g : a[i] = got[i]
    <3>1. IsText(got) /\ g \in 0 .. Len(got)
      BY <2>1, <2>2
    <3> HIDE DEF g
    <3>2. QED
      BY <3>1, TextHead
  <2>4. IsText(b) /\ Len(b) = g /\ \A i \in 1 .. g : b[i] = sent[i]
    <3>1. IsText(sent) /\ g \in 0 .. Len(sent)
      BY <2>1, <2>2
    <3> HIDE DEF g
    <3>2. QED
      BY <3>1, TextHead
  <2> HIDE DEF a, b
  <2>5. a = b
    <3>1. \A i \in 1 .. Len(a) : a[i] = b[i]
      BY <2>1, <2>3, <2>4
    <3>2. QED
      BY <2>3, <2>4, <3>1, TextEqual
  <2>6. QED
    BY <2>2, <2>5 DEF OnlySentAccepted, IsPrefix, a, b
<1>2. QED
  BY SessionHolds, <1>1, PTL

\* A record that is refused leaves the reader where it was: the next record written can
\* always be read, and a reader that has read all holds the writer's context.
THEOREM ReaderStaysInStep == Spec => []ReaderInStep
<1>1. SessionInv => ReaderInStep
  <2> SUFFICES ASSUME SessionInv
               PROVE  ReaderInStep
    OBVIOUS
  <2>1. CASE opened.as = "no"
    <3>1. Unopened
      BY <2>1 DEF SessionInv
    <3>2. QED
      BY <3>1 DEF Unopened, ReaderInStep
  <2>2. CASE opened.as # "no"
    <3> DEFINE k == Len(got) + 1
    <3>1. PICK ctxs : Session(ctxs)
      BY <2>2 DEF SessionInv
    <3>2. /\ Len(sent) \in Nat /\ Len(got) \in 0 .. Len(sent)
          /\ Chain(ctxs, Len(sent)) /\ writer = ctxs[Len(sent) + 1] /\ reader = ctxs[k]
          /\ \A i \in 1 .. Len(sent) : sent[i] \in ADs \X Plains /\ net[i] = RecordOf(ctxs[i], sent[i])
      BY <3>1, TextIs DEF Session
    <3>3. CASE Len(got) = Len(sent)
      BY <3>2, <3>3 DEF ReaderInStep
    <3>4. CASE Len(got) # Len(sent)
      <4>1. k \in 1 .. Len(sent) /\ k \in 1 .. Len(sent) + 1
        BY <3>2, <3>4
      <4>2. ctxs[k].counter \in Nat
        <5>1. Word * Word \in Nat \ {0}
          BY BlockSizes
        <5>2. QED
          BY <3>2, <4>1, <5>1 DEF Chain
      <4> HIDE DEF k
      <4>3. sent[k] \in ADs \X Plains /\ net[k] = RecordOf(reader, sent[k]) /\ reader.counter \in Nat
        BY <3>2, <4>1, <4>2
      <4>4. /\ ~crypto_aead_read(reader, net[k]).mismatch
            /\ crypto_aead_read(reader, net[k]).plain = sent[k][2]
        BY <4>3, Readable
      <4>5. QED
        BY <3>4, <4>4 DEF ReaderInStep, k
    <3>5. QED
      BY <3>3, <3>4
  <2>3. QED
    BY <2>1, <2>2
<1>2. QED
  BY SessionHolds, <1>1, PTL

\* crypto_aead_lock and crypto_aead_unlock are a session of one message.
THEOREM OneShotsAgree == Spec => []OneShotAgrees
<1>1. SessionInv => OneShotAgrees
  <2> SUFFICES ASSUME SessionInv, opened.as = "x", sent # <<>>
               PROVE  LET record == crypto_aead_lock(Key, opened.nonce, sent[1][1], sent[1][2])
                          back   == crypto_aead_unlock(Key, opened.nonce, net[1])
                      IN record = net[1] /\ ~back.mismatch /\ back.plain = sent[1][2]
    BY DEF OneShotAgrees
  <2>1. PICK ctxs : Session(ctxs)
    BY DEF SessionInv
  <2>2. Len(sent) \in Nat /\ 1 \in 1 .. Len(sent)
    <3>1. IsText(sent)
      BY <2>1 DEF Session
    <3>2. Len(sent) \in Nat /\ sent \in Seq(Range(sent))
      BY <3>1, TextIs DEF IsText, Entries, Range
    <3> DEFINE S == Range(sent)
    <3> HIDE DEF S
    <3>3. sent \in Seq(S)
      BY <3>2 DEF S
    <3>4. Len(sent) # 0
      BY <3>3
    <3>5. QED
      BY <3>2, <3>4
  <2> DEFINE ctx == crypto_aead_init_x(Key, opened.nonce)
  <2>3. /\ ctxs[1] = ctx /\ opened.nonce \in Nonces
        /\ sent[1] \in ADs \X Plains /\ net[1] = RecordOf(ctxs[1], sent[1])
    BY <2>1, <2>2 DEF Session
  <2>4. ctx.counter \in Nat
    BY DEF crypto_aead_init_x
  <2>5. crypto_aead_lock(Key, opened.nonce, sent[1][1], sent[1][2]) = RecordOf(ctx, sent[1])
    BY DEF crypto_aead_lock, RecordOf
  <2>6. crypto_aead_unlock(Key, opened.nonce, net[1]) = crypto_aead_read(ctx, net[1])
    BY DEF crypto_aead_unlock
  <2> HIDE DEF ctx
  <2>7. /\ ~crypto_aead_read(ctx, net[1]).mismatch
        /\ crypto_aead_read(ctx, net[1]).plain = sent[1][2]
    BY <2>3, <2>4, Readable
  <2>8. QED
    BY <2>3, <2>5, <2>6, <2>7
<1>2. QED
  BY SessionHolds, <1>1, PTL

\* The last call of the authenticator is one of the texts.
TagCall ==
  call.of = "poly1305" =>
    /\ call.pieces \in Texts
    /\ call.result = crypto_poly1305_final(Updated(crypto_poly1305_init(Key, Junk), call.pieces))
    /\ call.whole = crypto_poly1305(FlattenSeq(call.pieces), Key, Junk)

\* However a message is cut into pieces for crypto_poly1305_update, its tag is that of the
\* message fed at once, and the blocks summed are the message's own: nothing of an
\* earlier buffer, nothing of the stack.
THEOREM TagsAreExact == Spec => []TagExact
<1>1. Init => TagCall
  BY DEF Init, TagCall
<1>2. TagCall /\ [Next]_vars => TagCall'
  <2> SUFFICES ASSUME TagCall, [Next]_vars
               PROVE  TagCall'
    OBVIOUS
  <2>1. CASE Open
    BY <2>1 DEF Open, TagCall
  <2>2. CASE Write
    BY <2>2 DEF Write, TagCall
  <2>3. CASE Read
    BY <2>3 DEF Read, TagCall
  <2>4. CASE CallChaCha20
    <3>1. call'.of \in {"djb", "x", "ietf"}
      BY <2>4 DEF CallChaCha20
    <3>2. QED
      BY <3>1 DEF TagCall
  <2>5. CASE CallPoly1305
    BY <2>5 DEF CallPoly1305, TagCall
  <2>6. CASE CallPolyBlocks
    <3>1. call'.of = "poly_blocks"
      BY <2>6 DEF CallPolyBlocks
    <3>2. QED
      BY <3>1 DEF TagCall
  <2>7. CASE UNCHANGED vars
    BY <2>7 DEF vars, TagCall
  <2>8. QED
    BY <2>1, <2>2, <2>3, <2>4, <2>5, <2>6, <2>7 DEF Next
<1>3. TagCall => TagExact
  <2> SUFFICES ASSUME TagCall, call.of = "poly1305"
               PROVE  call.result = call.whole /\ call.result.h = TagBlocks(FlattenSeq(call.pieces))
    BY DEF TagExact
  <2> DEFINE pieces == call.pieces
             tag == [key |-> Key, h |-> TagBlocks(FlattenSeq(pieces))]
  <2>1. /\ pieces \in Texts
        /\ call.result = crypto_poly1305_final(Updated(crypto_poly1305_init(Key, Junk), pieces))
        /\ call.whole = crypto_poly1305(FlattenSeq(pieces), Key, Junk)
    BY DEF TagCall
  <2> HIDE DEF pieces
  <2>2. IsText(pieces) /\ \A k \in 1 .. Len(pieces) : IsText(pieces[k])
    <3>1. IsText(pieces) /\ \A k \in DOMAIN pieces : IsText(pieces[k])
      BY <2>1, SessionTexts
    <3>2. QED
      BY <3>1, TextIs
  <2>3. /\ crypto_poly1305_final(Updated(crypto_poly1305_init(Key, Junk), pieces)) = tag
        /\ crypto_poly1305(FlattenSeq(pieces), Key, Junk) = tag
    BY <2>2, PiecesTag
  <2>4. QED
    BY <2>1, <2>3 DEF pieces
<1>4. QED
  BY <1>1, <1>2, <1>3, PTL DEF Spec

\* The atoms of key stream in byte i of a record.
LEMMA UsedIsMet ==
  ASSUME NEW ctx, ctx.counter \in Nat, NEW msg \in ADs \X Plains, NEW i \in 1 .. Len(msg[2])
  PROVE  {a \in RecordOf(ctx, msg).cipher[i] : a[1] = "stream"} = {Met(ctx, i)}
<1> DEFINE text == msg[2]
           met == Met(ctx, i)
<1>1. IsText(text) /\ NotStream(text)
  BY SessionTexts
<1>2. i \in DOMAIN text
  BY <1>1, TextIs
<1>3. RecordOf(ctx, msg).cipher = Encrypted(ctx, text)
  BY Written
<1> HIDE DEF text
<1>4. Encrypted(ctx, text)[i] =
        Xor(text[i], StreamAt(ctx.key, ctx.nonce, (ctx.counter + 1) % (Word * Word), i))
  BY <1>1, Decrypted DEF text
<1>5. StreamAt(ctx.key, ctx.nonce, (ctx.counter + 1) % (Word * Word), i) = {met}
  BY DEF StreamAt, Met, Spot
<1>6. met[1] = "stream"
  BY DEF Met
<1> HIDE DEF met
<1>7. \A a \in text[i] : a[1] # "stream"
  BY <1>1, <1>2 DEF NotStream
<1>8. {a \in Xor(text[i], {met}) : a[1] = "stream"} = {met}
  BY <1>6, <1>7 DEF Xor
<1>9. QED
  BY <1>3, <1>4, <1>5, <1>8 DEF met, text

\* The keys of a session's tags, and the writer's key once a message has been written.
LEMMA KeysOfSession ==
  ASSUME NEW ctxs, Session(ctxs), NEW byte,
         byte \in Range(writer.key) \/ \E k \in DOMAIN net : byte \in Range(net[k].mac.key),
         Len(sent) # 0
  PROVE  \E k \in 1 .. Len(sent), o \in Nat : byte = KeyByte(ctxs[k], o)
<1> DEFINE n == Len(sent)
<1>1. /\ n \in Nat /\ n # 0 /\ IsText(net) /\ Len(net) = n /\ Chain(ctxs, n) /\ writer = ctxs[n + 1]
      /\ \A i \in 1 .. n : sent[i] \in ADs \X Plains /\ net[i] = RecordOf(ctxs[i], sent[i])
      /\ KeyBytes \in Nat
  BY TextIs, BlockSizes DEF Session
<1> HIDE DEF n
<1>2. \A i \in 1 .. n + 1 : ctxs[i].counter \in Nat
  BY <1>1, BlockSizes DEF Chain
<1>3. CASE byte \in Range(writer.key)
  <2>1. n \in 1 .. n /\ n \in 1 .. n + 1
    BY <1>1
  <2>2. writer.key = [o \in 1 .. KeyBytes |-> KeyByte(ctxs[n], KeyBytes + o)]
    <3>1. writer = Rekeyed(ctxs[n]) /\ ctxs[n].counter \in Nat
      BY <1>1, <1>2, <2>1 DEF Chain
    <3>2. QED
      BY <3>1, Keys
  <2>3. PICK o \in 1 .. KeyBytes : byte = KeyByte(ctxs[n], KeyBytes + o)
    BY <1>3, <2>2 DEF Range
  <2>4. KeyBytes + o \in Nat
    BY <1>1
  <2>5. QED
    BY <2>1, <2>3, <2>4 DEF n
<1>4. CASE \E k \in DOMAIN net : byte \in Range(net[k].mac.key)
  <2>1. PICK k \in 1 .. n : byte \in Range(net[k].mac.key)
    BY <1>1, <1>4, TextIs
  <2>2. net[k].mac.key = TagKey(ctxs[k])
    <3> DEFINE c == ctxs[k]
               msg == sent[k]
    <3>1. c.counter \in Nat /\ msg \in ADs \X Plains /\ net[k] = RecordOf(c, msg)
      BY <1>1, <1>2
    <3> HIDE DEF c, msg
    <3>2. /\ net[k].mac = lock_auth(AuthKey(c), net[k].ad, net[k].cipher)
          /\ IsText(net[k].ad) /\ IsText(net[k].cipher)
      BY <3>1, Written
    <3>3. PICK x : lock_auth(AuthKey(c), net[k].ad, net[k].cipher) = [key |-> TagKey(c), h |-> x.h]
      BY <3>2, LockFrames
    <3>4. QED
      BY <3>2, <3>3 DEF c
  <2>3. TagKey(ctxs[k]) = [o \in 1 .. KeyBytes |-> KeyByte(ctxs[k], o)]
    <3>1. ctxs[k].counter \in Nat
      BY <1>1, <1>2
    <3>2. QED
      BY <3>1, Keys
  <2>4. PICK o \in 1 .. KeyBytes : byte = KeyByte(ctxs[k], o)
    BY <2>1, <2>2, <2>3 DEF Range
  <2>5. QED
    BY <2>4 DEF n
<1>5. QED
  BY <1>3, <1>4

\* No byte of key stream meets two bytes of text, in one message or in two, and none that
\* meets a text is part of the key of a tag or of a next key: crypto_aead_write keeps the
\* counter and takes a new key, and the text begins a block behind the keys.
THEOREM KeyStreamMeetsOnce == Spec => []KeyStreamOnce
<1>1. SessionInv => KeyStreamOnce
  <2> SUFFICES ASSUME SessionInv
               PROVE  KeyStreamOnce
    OBVIOUS
  <2> DEFINE used(k, i) == {a \in net[k].cipher[i] : a[1] = "stream"}
             bytes == Range(writer.key) \cup UNION {Range(net[k].mac.key) : k \in DOMAIN net}
  <2>1. SUFFICES ASSUME NEW k \in DOMAIN net, NEW l \in DOMAIN net, NEW i \in DOMAIN net[k].cipher
                 PROVE  /\ used(k, i) # {} /\ used(k, i) \cap UNION bytes = {}
                        /\ \A j \in DOMAIN net[l].cipher :
                             used(k, i) \cap used(l, j) # {} => k = l /\ i = j
    BY DEF KeyStreamOnce
  <2>2. opened.as # "no"
    <3>1. SUFFICES ASSUME opened.as = "no"
                   PROVE  FALSE
      OBVIOUS
    <3>2. net = <<>>
      BY <3>1 DEF SessionInv, Unopened
    <3>3. IsText(net) /\ Len(net) = 0
      BY <3>2, EmptyText
    <3>4. QED
      BY <3>3, TextIs
  <2>3. PICK ctxs : Session(ctxs)
    BY <2>2 DEF SessionInv
  <2> DEFINE n == Len(sent)
  <2>4. /\ n \in Nat /\ IsText(net) /\ Len(net) = n /\ Chain(ctxs, n)
        /\ \A m \in 1 .. n : sent[m] \in ADs \X Plains /\ net[m] = RecordOf(ctxs[m], sent[m])
    BY <2>3, TextIs DEF Session
  <2>5. DOMAIN net = 1 .. n /\ n # 0
    <3>1. DOMAIN net = 1 .. n
      BY <2>4, TextIs
    <3>2. k \in 1 .. n
      BY <3>1
    <3>3. QED
      BY <2>4, <3>1, <3>2
  <2>6. ASSUME NEW m \in 1 .. n
        PROVE  /\ ctxs[m].counter \in 0 .. (Word * Word - 1) /\ ctxs[m].counter = ctxs[1].counter
               /\ ctxs[m].counter \in Nat
    <3>1. m \in 1 .. n + 1
      BY <2>4
    <3>2. QED
      BY <2>4, <3>1, BlockSizes DEF Chain
  <2>7. ASSUME NEW m \in 1 .. n
        PROVE  /\ Len(sent[m][2]) \in Nat /\ Len(sent[m][2]) <= Block * (Word * Word - 1)
               /\ DOMAIN net[m].cipher = 1 .. Len(sent[m][2])
    <3> DEFINE c == ctxs[m]
               msg == sent[m]
    <3>1. c.counter \in Nat /\ msg \in ADs \X Plains /\ net[m] = RecordOf(c, msg)
      BY <2>4, <2>6
    <3> HIDE DEF c, msg
    <3>2. IsText(msg[2]) /\ Len(msg[2]) <= Block * (Word * Word - 1) /\ Len(msg[2]) \in Nat
      <4>1. msg[2] \in Plains
        BY <3>1
      <4>2. IsText(msg[2]) /\ Len(msg[2]) <= Block * (Word * Word - 1)
        BY <4>1, SessionTexts
      <4>3. QED
        BY <4>2, TextIs
    <3>3. net[m].cipher = Encrypted(c, msg[2]) /\ IsText(net[m].cipher)
      BY <3>1, Written
    <3>4. Len(Encrypted(c, msg[2])) = Len(msg[2])
      BY <3>1, <3>2, Decrypted
    <3>5. QED
      BY <3>2, <3>3, <3>4, TextIs DEF msg
  <2>8. ASSUME NEW m \in 1 .. n, NEW j \in 1 .. Len(sent[m][2])
        PROVE  used(m, j) = {Met(ctxs[m], j)}
    <3> DEFINE c == ctxs[m]
               msg == sent[m]
    <3>1. c.counter \in Nat /\ msg \in ADs \X Plains /\ net[m] = RecordOf(c, msg) /\ j \in 1 .. Len(msg[2])
      BY <2>4, <2>6
    <3> HIDE DEF c, msg
    <3>2. {a \in RecordOf(c, msg).cipher[j] : a[1] = "stream"} = {Met(c, j)}
      BY <3>1, UsedIsMet
    <3>3. QED
      BY <3>1, <3>2 DEF c
  <2>9. k \in 1 .. n /\ l \in 1 .. n /\ i \in 1 .. Len(sent[k][2])
    BY <2>5, <2>7
  <2>10. used(k, i) = {Met(ctxs[k], i)}
    BY <2>8, <2>9
  <2>11. used(k, i) # {}
    BY <2>10
  <2>12. used(k, i) \cap UNION bytes = {}
    <3>1. SUFFICES ASSUME Met(ctxs[k], i) \in UNION bytes
                   PROVE  FALSE
      BY <2>10
    <3>2. PICK byte \in bytes : Met(ctxs[k], i) \in byte
      BY <3>1
    <3>3. byte \in Range(writer.key) \/ \E m \in DOMAIN net : byte \in Range(net[m].mac.key)
      BY <3>2
    <3>4. PICK m \in 1 .. n, o \in Nat : byte = KeyByte(ctxs[m], o)
      BY <2>3, <2>5, <3>3, KeysOfSession
    <3> DEFINE c == ctxs[k]
               other == ctxs[m]
               len == Len(sent[k][2])
    <3>5. /\ c.counter \in 0 .. (Word * Word - 1) /\ other.counter = c.counter
          /\ len \in Nat /\ len <= Block * (Word * Word - 1) /\ i \in 1 .. len
          /\ Met(c, i) \in KeyByte(other, o)
      BY <2>6, <2>7, <2>9, <3>2, <3>4
    <3> HIDE DEF c, other, len
    <3>6. QED
      BY <3>5, MetIsNoKey
  <2>13. ASSUME NEW j \in DOMAIN net[l].cipher, used(k, i) \cap used(l, j) # {}
         PROVE  k = l /\ i = j
    <3>1. j \in 1 .. Len(sent[l][2])
      BY <2>7, <2>9
    <3>2. Met(ctxs[k], i) = Met(ctxs[l], j)
      BY <2>8, <2>9, <2>10, <2>13, <3>1
    <3> DEFINE c == ctxs[k]
               other == ctxs[l]
               p == Len(sent[k][2])
               q == Len(sent[l][2])
    <3>3. /\ c.counter \in 0 .. (Word * Word - 1) /\ other.counter = c.counter
          /\ p \in Nat /\ p <= Block * (Word * Word - 1) /\ i \in 1 .. p
          /\ q \in Nat /\ q <= Block * (Word * Word - 1) /\ j \in 1 .. q
          /\ Met(c, i) = Met(other, j)
      BY <2>6, <2>7, <2>9, <3>1, <3>2
    <3> HIDE DEF c, other, p, q
    <3>4. c.key = other.key /\ i = j
      BY <3>3, MetOnce
    <3>5. k \in 1 .. n + 1 /\ l \in 1 .. n + 1
      BY <2>4, <2>9
    <3>6. QED
      BY <2>4, <3>4, <3>5 DEF Chain, c, other
  <2>14. QED
    BY <2>11, <2>12, <2>13
<1>2. QED
  BY SessionHolds, <1>1, PTL

(* -------- the sum -------- *)

\* A limb has five bits and more.
LEMMA LimbSize ==
  /\ Limb \in Nat /\ \E b \in Nat : Limb = 16 * b /\ b >= 2
  /\ Limb ^ 4 = Four(Limb)
<1> DEFINE T == {k \in 0 .. (LimbBits - 5) : \E j \in Nat : j >= 1 /\ 2 ^ (k + 5) = 32 * j}
<1>1. LimbBits \in Nat /\ LimbBits >= 5 /\ LimbBits - 5 \in Nat
  BY Poly1305Assumption
<1>2. 0 \in T
  <2>1. 2 ^ 1 = 2 /\ 2 ^ 2 = 4 /\ 2 ^ 3 = 8 /\ 2 ^ 4 = 16 /\ 2 ^ 5 = 32
    <3>1. \A i \in 0 .. 4 : 2 ^ (i + 1) = 2 * 2 ^ i
      BY <1>1, LimbAssumption
    <3>2. 2 ^ (0 + 1) = 2 * 2 ^ 0 /\ 2 ^ (1 + 1) = 2 * 2 ^ 1 /\ 2 ^ (2 + 1) = 2 * 2 ^ 2
          /\ 2 ^ (3 + 1) = 2 * 2 ^ 3 /\ 2 ^ (4 + 1) = 2 * 2 ^ 4 /\ 2 ^ 0 = 1
      BY <3>1, LimbAssumption
    <3>3. QED
      BY <3>2
  <2>2. 2 ^ (0 + 5) = 32 * 1
    BY <2>1
  <2>3. QED
    BY <1>1, <2>2
<1>3. ASSUME NEW k \in 0 .. ((LimbBits - 5) - 1), k \in T
      PROVE  k + 1 \in T
  <2>1. PICK j \in Nat : j >= 1 /\ 2 ^ (k + 5) = 32 * j
    BY <1>3
  <2>2. k + 5 \in 0 .. (LimbBits - 1) /\ (k + 5) + 1 = (k + 1) + 5 /\ k + 1 \in 0 .. (LimbBits - 5)
    BY <1>1
  <2>3. 2 ^ ((k + 1) + 5) = 2 * (32 * j)
    BY <2>1, <2>2, LimbAssumption
  <2>4. 2 * (32 * j) = 32 * (2 * j) /\ 2 * j \in Nat /\ 2 * j >= 1
    BY <2>1
  <2>5. QED
    BY <2>2, <2>3, <2>4
<1>4. \A k \in 0 .. (LimbBits - 5) : k \in T
  <2> HIDE DEF T
  <2>1. QED
    BY <1>1, <1>2, <1>3, InductionTo
<1>5. PICK j \in Nat : j >= 1 /\ 2 ^ ((LimbBits - 5) + 5) = 32 * j
  BY <1>1, <1>4
<1>6. Limb = 32 * j
  <2>1. (LimbBits - 5) + 5 = LimbBits
    BY <1>1
  <2>2. QED
    BY <1>5, <2>1 DEF Limb
<1>7. Limb \in Nat /\ Limb = 16 * (2 * j) /\ 2 * j \in Nat /\ 2 * j >= 2
  BY <1>5, <1>6
<1>8. Limb ^ 4 = Four(Limb)
  <2> DEFINE B == Limb
  <2>1. B ^ 0 = 1 /\ \A i \in 0 .. 3 : B ^ (i + 1) = B * B ^ i
    BY LimbAssumption
  <2>2. B \in Nat
    BY <1>7
  <2> HIDE DEF B
  <2>3. B ^ (0 + 1) = B * B ^ 0 /\ B ^ (1 + 1) = B * B ^ 1 /\ B ^ (2 + 1) = B * B ^ 2 /\ B ^ (3 + 1) = B * B ^ 3
    BY <2>1
  <2>4. B ^ 1 = B /\ B ^ 2 = B * B ^ 1 /\ B ^ 3 = B * B ^ 2 /\ B ^ 4 = B * B ^ 3
    BY <2>1, <2>2, <2>3
  <2>5. QED
    BY <2>4 DEF B, Four
<1>9. QED
  BY <1>7, <1>8

\* The low and the high part of a number.
LEMMA Parts ==
  ASSUME NEW x \in Nat
  PROVE  /\ x = Limb * High(x) + u32(x) /\ High(x) \in Nat /\ u32(x) \in 0 .. (Limb - 1)
         /\ \A y \in Nat : x < Limb * y => High(x) < y
         /\ x < Limb => u32(x) = x
         /\ x < Limb * Limb => u64(x) = x
<1> DEFINE B == Limb
           D == B * B
<1>1. B \in Nat \ {0}
  BY LimbSize
<1> HIDE DEF B
<1>2. D \in Nat \ {0}
  BY <1>1
<1> HIDE DEF D
<1>3. /\ x = B * (x \div B) + (x % B) /\ x \div B \in Nat /\ x % B \in 0 .. (B - 1)
      /\ \A y \in Nat : x < B * y => x \div B < y
      /\ x < B => x % B = x
  BY <1>1, LowAndHigh
<1>4. x < D => x % D = x
  BY <1>2, LowAndHigh
<1>5. High(x) = x \div B /\ u32(x) = x % B /\ u64(x) = x % D
  BY DEF B, D, High, u32, u64
<1>6. x < Limb * Limb => x < D
  BY DEF D, B
<1>7. QED
  BY <1>3, <1>4, <1>5, <1>6 DEF B

\* The value of limbs, written out.
IsValue(v, t, n) ==
  v = [i \in 0 .. n |-> IF i = 0 THEN 0 ELSE t[n + 1 - i] + Limb * v[i - 1]]

NaturalLimbs(t, n) == Len(t) = n /\ \A i \in 1 .. n : t[i] \in Nat

LEMMA ValueSteps ==
  ASSUME NEW n \in Nat, NEW t, NaturalLimbs(t, n)
  PROVE  \E v : /\ Value(t) = v[n] /\ v[0] = 0
                /\ \A i \in 1 .. n : v[i] = t[n + 1 - i] + Limb * v[i - 1]
<1> DEFINE F == [k \in 1 .. n |-> [s \in Nat |-> t[n + 1 - k] + Limb * s]]
           v == CHOOSE v : IsValue(v, t, n)
<1>1. Limb \in Nat /\ Len(t) = n /\ \A i \in 1 .. n : t[i] \in Nat
  BY LimbSize DEF NaturalLimbs
<1>2. \A k \in 1 .. n, s \in Nat : F[k][s] = t[n + 1 - k] + Limb * s /\ F[k][s] \in Nat
  <2>1. ASSUME NEW k \in 1 .. n, NEW s \in Nat
        PROVE  t[n + 1 - k] + Limb * s \in Nat
    <3>1. n + 1 - k \in 1 .. n
      OBVIOUS
    <3>2. t[n + 1 - k] \in Nat /\ Limb * s \in Nat
      BY <1>1, <3>1
    <3>3. QED
      BY <3>2
  <2>2. QED
    BY <2>1
<1> HIDE DEF F
<1>3. PICK g : Follows(g, Nat, 0, F, n)
  <2>1. StaysIn(Nat, F, n)
    BY <1>2 DEF StaysIn
  <2>2. QED
    BY <2>1, Recursion
<1>4. IsValue(g, t, n)
  <2>1. g = [i \in 0 .. n |-> g[i]] /\ g[0] = 0
    BY <1>3 DEF Follows
  <2>2. ASSUME NEW i \in 1 .. n
        PROVE  g[i] = t[n + 1 - i] + Limb * g[i - 1]
    <3>1. i - 1 \in 0 .. n
      OBVIOUS
    <3>2. g[i - 1] \in Nat /\ g[i] = F[i][g[i - 1]]
      BY <1>3, <3>1 DEF Follows
    <3>3. QED
      BY <1>2, <3>2
  <2>3. \A i \in 0 .. n : g[i] = IF i = 0 THEN 0 ELSE t[n + 1 - i] + Limb * g[i - 1]
    <3>1. \A i \in 0 .. n : i = 0 \/ i \in 1 .. n
      OBVIOUS
    <3>2. QED
      BY <2>1, <2>2, <3>1, Zenon
  <2>4. QED
    BY <2>1, <2>3 DEF IsValue
<1>5. IsValue(v, t, n)
  BY <1>4, Zenon
<1>6. Value(t) = v[n]
  BY <1>1 DEF Value, IsValue
<1> HIDE DEF v
<1>7. QED
  BY <1>5, <1>6 DEF IsValue

LEMMA ValueOf4 ==
  ASSUME NEW t, NaturalLimbs(t, 4)
  PROVE  Value(t) = Horner4(Limb, t[1], t[2], t[3], t[4])
<1> DEFINE n == 4
<1>0. n \in Nat /\ n = 4
  OBVIOUS
<1> HIDE DEF n
<1>1. PICK v : Value(t) = v[n] /\ v[0] = 0 /\ \A i \in 1 .. n : v[i] = t[n + 1 - i] + Limb * v[i - 1]
  BY <1>0, ValueSteps
<1>2. v[1] = t[4] + Limb * 0 /\ v[2] = t[3] + Limb * v[1] /\ v[3] = t[2] + Limb * v[2] /\ v[4] = t[1] + Limb * v[3]
  BY <1>0, <1>1
<1>3. v[1] = t[4]
  BY <1>0, <1>2, LimbSize DEF NaturalLimbs
<1>4. QED
  BY <1>0, <1>1, <1>2, <1>3 DEF Horner4

LEMMA ValueOf5 ==
  ASSUME NEW t, NaturalLimbs(t, 5)
  PROVE  Value(t) = Horner5(Limb, t[1], t[2], t[3], t[4], t[5])
<1> DEFINE n == 5
<1>0. n \in Nat /\ n = 5
  OBVIOUS
<1> HIDE DEF n
<1>1. PICK v : Value(t) = v[n] /\ v[0] = 0 /\ \A i \in 1 .. n : v[i] = t[n + 1 - i] + Limb * v[i - 1]
  BY <1>0, ValueSteps
<1>2. /\ v[1] = t[5] + Limb * 0 /\ v[2] = t[4] + Limb * v[1] /\ v[3] = t[3] + Limb * v[2]
      /\ v[4] = t[2] + Limb * v[3] /\ v[5] = t[1] + Limb * v[4]
  BY <1>0, <1>1
<1>3. v[1] = t[5]
  BY <1>0, <1>2, LimbSize DEF NaturalLimbs
<1>4. QED
  BY <1>0, <1>1, <1>2, <1>3 DEF Horner5

\* The limbs of h, of r and of a block.
IsHash(h)   == h \in [1 .. 5 -> 0 .. (Limb - 1)] /\ h[5] <= 4
IsFour(t)   == t \in [1 .. 4 -> 0 .. (Limb - 1)]

LEMMA HashLimbs ==
  ASSUME NEW h, IsHash(h)
  PROVE  /\ NaturalLimbs(h, 5) /\ h[5] \in 0 .. 4
         /\ h[1] \in 0 .. (Limb - 1) /\ h[2] \in 0 .. (Limb - 1) /\ h[3] \in 0 .. (Limb - 1) /\ h[4] \in 0 .. (Limb - 1)
<1>1. \A i \in 1 .. 5 : h[i] \in 0 .. (Limb - 1)
  BY DEF IsHash
<1>2. h = [i \in 1 .. 5 |-> h[i]]
  BY DEF IsHash
<1>3. Len(h) = 5
  BY <1>2, TextFrom
<1>4. QED
  BY <1>1, <1>3 DEF NaturalLimbs, IsHash

LEMMA FourLimbs ==
  ASSUME NEW t, IsFour(t)
  PROVE  /\ NaturalLimbs(t, 4)
         /\ t[1] \in 0 .. (Limb - 1) /\ t[2] \in 0 .. (Limb - 1) /\ t[3] \in 0 .. (Limb - 1) /\ t[4] \in 0 .. (Limb - 1)
<1>1. \A i \in 1 .. 4 : t[i] \in 0 .. (Limb - 1)
  BY DEF IsFour
<1>2. t = [i \in 1 .. 4 |-> t[i]]
  BY DEF IsFour
<1>3. Len(t) = 4
  BY <1>2, TextFrom
<1>4. QED
  BY <1>1, <1>3 DEF NaturalLimbs

\* r without the bits the code clears: a multiple of four in each limb but the first.
IsClamped(t, q1, q2, q3, q4, m) ==
  /\ NaturalLimbs(t, 4)
  /\ Quarters(Limb, q1, q2, q3, q4, m)
  /\ t[1] = 4 * q1 + m /\ t[2] = 4 * q2 /\ t[3] = 4 * q3 /\ t[4] = 4 * q4

LEMMA ClampedIs ==
  ASSUME NEW r, IsFour(r)
  PROVE  \E q1, q2, q3, q4, m : IsClamped(Clamped(r), q1, q2, q3, q4, m)
<1> DEFINE t == Clamped(r)
           c == Limb \div 16
           q(i) == (r[i] % c) \div 4
           m == (r[1] % c) % 4
<1>1. PICK b \in Nat : Limb = 16 * b /\ b >= 2
  BY LimbSize
<1>2. c = b
  BY <1>1
<1>3. \A i \in 1 .. 4 : r[i] \in Nat
  BY DEF IsFour
<1>4. /\ t = [i \in 1 .. 4 |-> t[i]] /\ t[1] = r[1] % c
      /\ \A i \in 2 .. 4 : t[i] = 4 * q(i)
  BY DEF Clamped
<1> HIDE DEF t, c
<1>5. \A i \in 1 .. 4 : /\ q(i) \in Nat /\ 4 * q(i) <= r[i] % c /\ r[i] % c \in 0 .. (b - 1)
                        /\ r[i] % c = 4 * q(i) + ((r[i] % c) % 4) /\ (r[i] % c) % 4 \in 0 .. 3
  <2>1. ASSUME NEW i \in 1 .. 4
        PROVE  r[i] % c \in 0 .. (b - 1)
    BY <1>1, <1>2, <1>3
  <2>2. ASSUME NEW x \in 0 .. (b - 1)
        PROVE  /\ x \div 4 \in Nat /\ 4 * (x \div 4) <= x /\ x % 4 \in 0 .. 3
               /\ x = 4 * (x \div 4) + (x % 4)
    BY <1>1
  <2>3. ASSUME NEW i \in 1 .. 4
        PROVE  /\ q(i) \in Nat /\ 4 * q(i) <= r[i] % c
               /\ r[i] % c = 4 * q(i) + ((r[i] % c) % 4) /\ (r[i] % c) % 4 \in 0 .. 3
    <3> DEFINE x == r[i] % c
    <3>1. x \in 0 .. (b - 1) /\ q(i) = x \div 4
      BY <2>1
    <3> HIDE DEF x, q
    <3>2. /\ x \div 4 \in Nat /\ 4 * (x \div 4) <= x /\ x % 4 \in 0 .. 3
          /\ x = 4 * (x \div 4) + (x % 4)
      BY <2>2, <3>1
    <3>3. QED
      BY <3>1, <3>2, Zenon DEF x
  <2> HIDE DEF q
  <2>4. QED
    BY <2>1, <2>3
<1>6. /\ t[1] = 4 * q(1) + m /\ t[2] = 4 * q(2) /\ t[3] = 4 * q(3) /\ t[4] = 4 * q(4)
      /\ m \in 0 .. 3 /\ 4 * q(1) + m <= b - 1
      /\ q(1) \in Nat /\ q(2) \in Nat /\ q(3) \in Nat /\ q(4) \in Nat
      /\ 4 * q(2) <= b - 1 /\ 4 * q(3) <= b - 1 /\ 4 * q(4) <= b - 1
  <2> HIDE DEF q
  <2>1. t[1] = 4 * q(1) + m /\ t[1] \in 0 .. (b - 1) /\ m \in 0 .. 3
    BY <1>4, <1>5
  <2>2. \A i \in 1 .. 4 : q(i) \in Nat /\ 4 * q(i) <= b - 1
    <3>1. ASSUME NEW i \in 1 .. 4
          PROVE  q(i) \in Nat /\ 4 * q(i) <= b - 1
      <4> DEFINE x == r[i] % c
      <4>1. q(i) \in Nat /\ 4 * q(i) <= x /\ x \in 0 .. (b - 1)
        BY <1>5
      <4> HIDE DEF x
      <4>2. QED
        BY <1>1, <4>1
    <3>2. QED
      BY <3>1
  <2>3. QED
    BY <1>1, <1>4, <2>1, <2>2
<1> DEFINE q1 == q(1)
           q2 == q(2)
           q3 == q(3)
           q4 == q(4)
<1>7. /\ t[1] = 4 * q1 + m /\ t[2] = 4 * q2 /\ t[3] = 4 * q3 /\ t[4] = 4 * q4
      /\ m \in 0 .. 3 /\ 4 * q1 + m <= b - 1
      /\ q1 \in Nat /\ q2 \in Nat /\ q3 \in Nat /\ q4 \in Nat
      /\ 4 * q2 <= b - 1 /\ 4 * q3 <= b - 1 /\ 4 * q4 <= b - 1
  BY <1>6
<1> HIDE DEF q1, q2, q3, q4, m
<1>8. Quarters(Limb, q1, q2, q3, q4, m)
  BY <1>1, <1>7 DEF Quarters
<1>9. Len(t) = 4
  BY <1>4, TextFrom
<1>10. \A i \in 1 .. 4 : t[i] \in Nat
  <2>1. \A i \in 1 .. 4 : i = 1 \/ i = 2 \/ i = 3 \/ i = 4
    OBVIOUS
  <2>2. t[1] \in Nat /\ t[2] \in Nat /\ t[3] \in Nat /\ t[4] \in Nat
    BY <1>7
  <2>3. QED
    BY <2>1, <2>2
<1>11. IsClamped(t, q1, q2, q3, q4, m)
  BY <1>7, <1>8, <1>9, <1>10 DEF IsClamped, NaturalLimbs
<1>12. QED
  BY <1>11 DEF t

\* The reduction of five columns.
Columns(x1, x2, x3, x4, x5) ==
  /\ Column(Limb, x1) /\ Column(Limb, x2) /\ Column(Limb, x3) /\ LowColumn(Limb, x4) /\ x5 \in 0 .. 15

SameValue(h, X) == \E k \in Nat : X = Value(h) + (4 * Four(Limb) - 5) * k

LEMMA ReducedIs ==
  ASSUME NEW x1, NEW x2, NEW x3, NEW x4, NEW x5, Columns(x1, x2, x3, x4, x5),
         NEW h, h = Reduced(<<x1, x2, x3, x4, x5>>)
  PROVE  IsHash(h) /\ SameValue(h, Horner5(Limb, x1, x2, x3, x4, x5))
<1> DEFINE B == Limb
           w == x5 + High(x4)
           u5 == u32(w)
           q == u5 \div 4
           e == u5 % 4
           u0 == q * 5 + u32(x1)
           u1 == High(u0) + u32(x2) + High(x1)
           u2 == High(u1) + u32(x3) + High(x2)
           u3 == High(u2) + u32(x4) + High(x3)
<1>1. PICK b \in Nat : B = 16 * b /\ b >= 2
  BY LimbSize
<1>2. B \in Nat /\ B >= 32 /\ B - 9 \in Nat /\ 8 * b - 8 \in Nat
  BY <1>1
<1>3. /\ x1 \in Nat /\ x2 \in Nat /\ x3 \in Nat /\ x4 \in Nat /\ x5 \in 0 .. 15
      /\ x1 < B * (B - 9) /\ x2 < B * (B - 9) /\ x3 < B * (B - 9) /\ x4 < B * (8 * b - 8)
  <2>1. \A a \in Nat : B = 16 * a => a = b
    BY <1>1
  <2>2. Column(B, x1) /\ Column(B, x2) /\ Column(B, x3) /\ Column(B, x4) /\ x5 \in 0 .. 15
    BY DEF Columns, LowColumn
  <2>3. PICK a \in Nat : B = 16 * a /\ x4 < B * (8 * a - 8)
    BY DEF Columns, LowColumn
  <2> HIDE DEF B
  <2>4. x4 < B * (8 * b - 8)
    BY <2>1, <2>3
  <2>5. QED
    BY <2>2, <2>4 DEF Column
<1>4. /\ High(x1) \in 0 .. (B - 10) /\ High(x2) \in 0 .. (B - 10) /\ High(x3) \in 0 .. (B - 10)
      /\ High(x4) \in 0 .. (8 * b - 9)
      /\ u32(x1) \in 0 .. (B - 1) /\ u32(x2) \in 0 .. (B - 1) /\ u32(x3) \in 0 .. (B - 1) /\ u32(x4) \in 0 .. (B - 1)
      /\ x1 = B * High(x1) + u32(x1) /\ x2 = B * High(x2) + u32(x2)
      /\ x3 = B * High(x3) + u32(x3) /\ x4 = B * High(x4) + u32(x4)
  <2>1. ASSUME NEW x \in Nat, NEW y \in Nat, x < B * y
        PROVE  High(x) \in 0 .. (y - 1)
    BY <2>1, Parts
  <2>2. ASSUME NEW x \in Nat
        PROVE  u32(x) \in 0 .. (B - 1) /\ x = B * High(x) + u32(x)
    BY Parts
  <2> DEFINE y == B - 9
             z == 8 * b - 8
  <2>3. y \in Nat /\ z \in Nat /\ y - 1 = B - 10 /\ z - 1 = 8 * b - 9
        /\ x1 < B * y /\ x2 < B * y /\ x3 < B * y /\ x4 < B * z
    BY <1>2, <1>3
  <2> HIDE DEF y, z, B
  <2>4. High(x1) \in 0 .. (y - 1) /\ High(x2) \in 0 .. (y - 1) /\ High(x3) \in 0 .. (y - 1) /\ High(x4) \in 0 .. (z - 1)
    BY <1>3, <2>1, <2>3
  <2>5. QED
    BY <1>3, <2>2, <2>3, <2>4
<1> HIDE DEF B
<1>5. u5 = w /\ q \in Nat /\ e \in 0 .. 3 /\ w = 4 * q + e /\ 4 * q < B /\ w \in Nat
  <2>1. w \in Nat /\ w < B
    BY <1>1, <1>3, <1>4
  <2>2. u5 = w
    BY <2>1, Parts DEF B
  <2>3. ASSUME NEW x \in Nat
        PROVE  /\ x \div 4 \in Nat /\ (x % 4) \in 0 .. 3 /\ x = 4 * (x \div 4) + (x % 4)
               /\ 4 * (x \div 4) <= x
    OBVIOUS
  <2>4. q \in Nat /\ e \in 0 .. 3 /\ u5 = 4 * q + e /\ 4 * q <= u5
    <3> HIDE DEF w
    <3>1. u5 \in Nat
      BY <2>1, <2>2
    <3> HIDE DEF u5
    <3>2. QED
      BY <2>3, <3>1
  <2> HIDE DEF u5, q, e, w
  <2>5. QED
    BY <1>2, <2>1, <2>2, <2>4
<1> HIDE DEF u5, q, e, w
<1>6. ASSUME NEW u \in Nat, u < 3 * B
      PROVE  /\ u64(u) = u /\ High(u) \in 0 .. 2 /\ u32(u) \in 0 .. (B - 1) /\ u = B * High(u) + u32(u)
             /\ u < 2 * B => High(u) \in 0 .. 1
  <2>1. u < B * 3 /\ u < B * B /\ (u < 2 * B => u < B * 2)
    <3>1. B * B = 3 * B + B * (B - 3) /\ B * (B - 3) \in Nat
      BY <1>2
    <3>2. QED
      BY <1>2, <1>6, <3>1
  <2> DEFINE three == 3
             two == 2
  <2>2. three \in Nat /\ two \in Nat /\ u < B * three /\ (u < 2 * B => u < B * two) /\ three = 3 /\ two = 2
    BY <2>1
  <2> HIDE DEF three, two
  <2>3. /\ u64(u) = u /\ High(u) < three /\ u32(u) \in 0 .. (B - 1) /\ u = B * High(u) + u32(u) /\ High(u) \in Nat
        /\ u < 2 * B => High(u) < two
    BY <2>1, <2>2, Parts DEF B
  <2>4. QED
    BY <2>2, <2>3
<1>7. u0 \in Nat /\ u0 < 3 * B
  BY <1>2, <1>4, <1>5
<1>8. u64(u0) = u0 /\ High(u0) \in 0 .. 2 /\ u32(u0) \in 0 .. (B - 1) /\ u0 = B * High(u0) + u32(u0)
  BY <1>6, <1>7
<1> HIDE DEF u0
<1>9. u1 \in Nat /\ u1 < 2 * B /\ u1 < 3 * B
  BY <1>2, <1>4, <1>8
<1>10. u64(u1) = u1 /\ High(u1) \in 0 .. 1 /\ u32(u1) \in 0 .. (B - 1) /\ u1 = B * High(u1) + u32(u1)
  BY <1>6, <1>9
<1> HIDE DEF u1
<1>11. u2 \in Nat /\ u2 < 2 * B /\ u2 < 3 * B
  BY <1>2, <1>4, <1>10
<1>12. u64(u2) = u2 /\ High(u2) \in 0 .. 1 /\ u32(u2) \in 0 .. (B - 1) /\ u2 = B * High(u2) + u32(u2)
  BY <1>6, <1>11
<1> HIDE DEF u2
<1>13. u3 \in Nat /\ u3 < 2 * B /\ u3 < 3 * B
  BY <1>2, <1>4, <1>12
<1>14. u64(u3) = u3 /\ High(u3) \in 0 .. 1 /\ u32(u3) \in 0 .. (B - 1) /\ u3 = B * High(u3) + u32(u3)
  BY <1>6, <1>13
<1> HIDE DEF u3
<1> DEFINE top == High(u3) + e
<1>15. top \in 0 .. 4 /\ u32(top) = top
  <2>1. top \in 0 .. 4
    BY <1>5, <1>14
  <2>2. top \in Nat /\ top < Limb
    BY <1>2, <2>1 DEF B
  <2>3. QED
    BY <2>1, <2>2, Parts
<1>16. h = <<u32(u0), u32(u1), u32(u2), u32(u3), top>>
  <2>1. Reduced(<<x1, x2, x3, x4, x5>>) =
          <<u32(u64(q * 5 + u32(x1))),
            u32(u64(High(u64(q * 5 + u32(x1))) + u32(x2) + High(x1))),
            u32(u64(High(u64(High(u64(q * 5 + u32(x1))) + u32(x2) + High(x1))) + u32(x3) + High(x2))),
            u32(u64(High(u64(High(u64(High(u64(q * 5 + u32(x1))) + u32(x2) + High(x1))) + u32(x3) + High(x2)))
                    + u32(x4) + High(x3))),
            u32(High(u64(High(u64(High(u64(High(u64(q * 5 + u32(x1))) + u32(x2) + High(x1))) + u32(x3) + High(x2)))
                    + u32(x4) + High(x3))) + e)>>
    BY Zenon DEF Reduced, q, e, u5, w
  <2>2. q * 5 + u32(x1) = u0 /\ High(u0) + u32(x2) + High(x1) = u1 /\ High(u1) + u32(x3) + High(x2) = u2
        /\ High(u2) + u32(x4) + High(x3) = u3
    BY DEF u0, u1, u2, u3
  <2>3. QED
    BY <1>8, <1>10, <1>12, <1>14, <1>15, <2>1, <2>2, ZenonT(60)
<1> HIDE DEF top
<1>17. IsHash(h) /\ NaturalLimbs(h, 5)
  <2>1. h \in [1 .. 5 -> 0 .. (B - 1)]
    <3>1. top \in 0 .. (B - 1)
      BY <1>2, <1>15
    <3>2. QED
      BY <1>8, <1>10, <1>12, <1>14, <1>16, <3>1
  <2>2. h[5] = top
    BY <1>16
  <2>3. IsHash(h)
    BY <1>15, <2>1, <2>2 DEF IsHash, B
  <2>4. QED
    BY <2>3, HashLimbs
<1>18. Value(h) = Horner5(Limb, u32(u0), u32(u1), u32(u2), u32(u3), top)
  BY <1>16, <1>17, ValueOf5
<1> DEFINE l1 == u32(x1)
           l2 == u32(x2)
           l3 == u32(x3)
           l4 == u32(x4)
           h1 == High(x1)
           h2 == High(x2)
           h3 == High(x3)
           h4 == High(x4)
           c1 == High(u0)
           c2 == High(u1)
           c3 == High(u2)
           c4 == High(u3)
           k1 == u32(u0)
           k2 == u32(u1)
           k3 == u32(u2)
           k4 == u32(u3)
           y1 == 5 * q + l1
           y2 == l2 + h1
           y3 == l3 + h2
           y4 == l4 + h3
           F  == Four(B)
<1>19. /\ l1 \in Nat /\ l2 \in Nat /\ l3 \in Nat /\ l4 \in Nat
       /\ h1 \in Nat /\ h2 \in Nat /\ h3 \in Nat /\ h4 \in Nat
       /\ x5 + h4 = 4 * q + e /\ x5 \in Nat
       /\ x1 = B * h1 + l1 /\ x2 = B * h2 + l2 /\ x3 = B * h3 + l3 /\ x4 = B * h4 + l4
  BY <1>3, <1>4, <1>5 DEF w
<1>20. /\ u0 = y1 /\ u1 = c1 + y2 /\ u2 = c2 + y3 /\ u3 = c3 + y4 /\ top = c4 + e
  BY <1>4, <1>5, <1>8, <1>10, <1>12 DEF u0, u1, u2, u3, top
<1>21. Carrying(B, y1, y2, y3, y4, c1, c2, c3, c4, k1, k2, k3, k4)
  <2>1. /\ u0 = B * c1 + k1 /\ u1 = B * c2 + k2 /\ u2 = B * c3 + k3 /\ u3 = B * c4 + k4
        /\ c1 \in Nat /\ c2 \in Nat /\ c3 \in Nat /\ c4 \in Nat
        /\ k1 \in 0 .. (B - 1) /\ k2 \in 0 .. (B - 1) /\ k3 \in 0 .. (B - 1) /\ k4 \in 0 .. (B - 1)
    BY <1>8, <1>10, <1>12, <1>14
  <2>2. y1 \in Nat /\ y2 \in Nat /\ y3 \in Nat /\ y4 \in Nat
    BY <1>5, <1>19
  <2> HIDE DEF c1, c2, c3, c4, k1, k2, k3, k4, y1, y2, y3, y4
  <2>3. QED
    BY <1>20, <2>1, <2>2 DEF Carrying
<1>22. /\ c4 \in Int /\ k1 \in Int /\ k2 \in Int /\ k3 \in Int /\ k4 \in Int /\ e \in Int /\ q \in Nat
       /\ y1 \in Int /\ y2 \in Int /\ y3 \in Int /\ y4 \in Int /\ B \in Nat \ {0} /\ top \in Int
  <2>1. /\ c4 \in Int /\ k1 \in Int /\ k2 \in Int /\ k3 \in Int /\ k4 \in Int /\ e \in Int /\ q \in Nat
        /\ B \in Nat \ {0} /\ top \in Int
    BY <1>2, <1>5, <1>8, <1>10, <1>12, <1>14, <1>15
  <2>2. y1 \in Int /\ y2 \in Int /\ y3 \in Int /\ y4 \in Int
    <3> HIDE DEF l1, l2, l3, l4, h1, h2, h3, h4
    <3>1. QED
      BY <1>5, <1>19
  <2> HIDE DEF c4, k1, k2, k3, k4, y1, y2, y3, y4
  <2>3. QED
    BY <2>1, <2>2
<1>23. Horner5(B, y1, y2, y3, y4, e) + (4 * F - 5) * q = Horner5(B, x1, x2, x3, x4, x5)
  <2> HIDE DEF l1, l2, l3, l4, h1, h2, h3, h4
  <2>1. B \in Int /\ IsBack(B, l1, l2, l3, l4, h1, h2, h3, h4, x5, q, e)
    BY <1>19, <1>22 DEF IsBack
  <2>2. Horner5(B, 5 * q + l1, l2 + h1, l3 + h2, l4 + h3, e) + (4 * Four(B) - 5) * q
           = Horner5(B, B * h1 + l1, B * h2 + l2, B * h3 + l3, B * h4 + l4, x5)
    BY <2>1, ColumnsCarried
  <2>3. QED
    BY <1>19, <2>2, Zenon
<1> HIDE DEF y1, y2, y3, y4, c1, c2, c3, c4, k1, k2, k3, k4
<1>24. Horner4(B, y1, y2, y3, y4) = Four(B) * c4 + Horner4(B, k1, k2, k3, k4)
  BY <1>21, <1>22, FourCarries
<1>25. /\ Horner5(B, y1, y2, y3, y4, e) = Horner4(B, y1, y2, y3, y4) + Four(B) * e
       /\ Horner5(B, k1, k2, k3, k4, top) = Horner4(B, k1, k2, k3, k4) + Four(B) * top
       /\ Horner4(B, k1, k2, k3, k4) \in Int /\ Four(B) \in Int
  <2>1. B \in Int /\ FiveInts(B, y1, y2, y3, y4, e) /\ FiveInts(B, k1, k2, k3, k4, top)
    BY <1>22 DEF FiveInts
  <2>2. QED
    BY <2>1, FifthLimb
<1>26. Horner5(B, y1, y2, y3, y4, e) = Horner5(B, k1, k2, k3, k4, top)
  <2>1. F * top = F * c4 + F * e /\ F * c4 \in Int /\ F * e \in Int
    BY <1>20, <1>22, <1>25
  <2> DEFINE a == F * c4
             d == F * e
             g == F * top
             z == Horner4(B, k1, k2, k3, k4)
  <2>2. /\ Horner5(B, y1, y2, y3, y4, e) = a + z + d /\ Horner5(B, k1, k2, k3, k4, top) = z + g /\ g = a + d
        /\ a \in Int /\ d \in Int /\ z \in Int
    BY <1>24, <1>25, <2>1
  <2> HIDE DEF a, d, g, z
  <2>3. QED
    BY <2>2
<1>27. Value(h) = Horner5(B, k1, k2, k3, k4, top)
  BY <1>18 DEF B, k1, k2, k3, k4
<1>28. Horner5(B, x1, x2, x3, x4, x5) = Value(h) + (4 * F - 5) * q
  BY <1>23, <1>26, <1>27
<1>29. SameValue(h, Horner5(B, x1, x2, x3, x4, x5))
  BY <1>22, <1>28, Zenon DEF B, F, SameValue
<1>30. QED
  BY <1>17, <1>29 DEF B

\* The sum of h and a block, which fits its limbs.
LEMMA SumOf ==
  ASSUME NEW h, IsHash(h), NEW c, IsFour(c), NEW end \in {0, 1}
  PROVE  /\ u64(h[1] + c[1]) = h[1] + c[1] /\ u64(h[2] + c[2]) = h[2] + c[2]
         /\ u64(h[3] + c[3]) = h[3] + c[3] /\ u64(h[4] + c[4]) = h[4] + c[4]
         /\ u32(h[5] + end) = h[5] + end
         /\ Factors5(Limb, h[1] + c[1], h[2] + c[2], h[3] + c[3], h[4] + c[4], h[5] + end)
<1> DEFINE B == Limb
<1>1. B \in Nat /\ B >= 32
  BY LimbSize
<1>2. /\ h[1] \in 0 .. (B - 1) /\ h[2] \in 0 .. (B - 1) /\ h[3] \in 0 .. (B - 1) /\ h[4] \in 0 .. (B - 1)
      /\ c[1] \in 0 .. (B - 1) /\ c[2] \in 0 .. (B - 1) /\ c[3] \in 0 .. (B - 1) /\ c[4] \in 0 .. (B - 1)
      /\ h[5] \in 0 .. 4
  BY HashLimbs, FourLimbs
<1>3. ASSUME NEW x \in Nat, x < B
      PROVE  u32(x) = x
  BY <1>3, Parts
<1>4. ASSUME NEW x \in Nat, x < B * B
      PROVE  u64(x) = x
  BY <1>4, Parts
<1> HIDE DEF B
<1>5. ASSUME NEW x \in 0 .. (B - 1), NEW y \in 0 .. (B - 1)
      PROVE  x + y \in 0 .. (2 * B - 2) /\ u64(x + y) = x + y
  <2>1. x + y \in 0 .. (2 * B - 2)
    BY <1>1
  <2>2. B * B = 2 * B + B * (B - 2) /\ B * (B - 2) \in Nat
    BY <1>1
  <2>3. x + y < B * B /\ x + y \in Nat
    BY <1>1, <2>1, <2>2
  <2>4. QED
    BY <1>4, <2>1, <2>3
<1>6. h[5] + end \in 0 .. 5 /\ u32(h[5] + end) = h[5] + end
  <2> DEFINE x == h[5] + end
  <2>1. x \in 0 .. 5
    BY <1>2
  <2> HIDE DEF x
  <2>2. x \in Nat /\ x < B
    BY <1>1, <2>1
  <2>3. QED
    BY <1>3, <2>1, <2>2 DEF x
<1>7. QED
  BY <1>2, <1>5, <1>6 DEF Factors5, B

\* The multiples of r that stand for what comes back from above.
LEMMA BackOf ==
  ASSUME NEW t, NEW q1, NEW q2, NEW q3, NEW q4, NEW m, IsClamped(t, q1, q2, q3, q4, m)
  PROVE  /\ u32(t[1] \div 4 + 4 * (t[1] \div 4)) = 5 * q1
         /\ u32(t[2] \div 4 + t[2]) = 5 * q2 /\ u32(t[3] \div 4 + t[3]) = 5 * q3
         /\ u32(t[4] \div 4 + t[4]) = 5 * q4
         /\ t[1] % 4 = m
<1> DEFINE B == Limb
<1>1. PICK b \in Nat : /\ B = 16 * b /\ b >= 2
                       /\ 4 * q1 + m <= b - 1 /\ 4 * q2 <= b - 1 /\ 4 * q3 <= b - 1 /\ 4 * q4 <= b - 1
  BY DEF IsClamped, Quarters
<1>2. /\ q1 \in Nat /\ q2 \in Nat /\ q3 \in Nat /\ q4 \in Nat /\ m \in 0 .. 3
      /\ t[1] = 4 * q1 + m /\ t[2] = 4 * q2 /\ t[3] = 4 * q3 /\ t[4] = 4 * q4
  BY DEF IsClamped, Quarters
<1>3. ASSUME NEW x \in Nat, x < B
      PROVE  u32(x) = x
  BY <1>3, Parts
<1> HIDE DEF B
<1>4. ASSUME NEW q \in Nat, NEW n \in 0 .. 3
      PROVE  (4 * q + n) \div 4 = q /\ ((4 * q + n) % 4) = n
  OBVIOUS
<1>5. ASSUME NEW q \in Nat, 4 * q <= b - 1
      PROVE  u32(q + 4 * q) = 5 * q
  <2>1. q + 4 * q = 5 * q /\ 5 * q \in Nat /\ 5 * q < B
    BY <1>1, <1>5
  <2>2. QED
    BY <1>3, <2>1
<1>6. t[1] \div 4 = q1 /\ t[1] % 4 = m
  BY <1>2, <1>4
<1>7. ASSUME NEW q \in Nat
      PROVE  (4 * q) \div 4 = q
  OBVIOUS
<1>8. t[2] \div 4 = q2 /\ t[3] \div 4 = q3 /\ t[4] \div 4 = q4
  BY <1>2, <1>7
<1>9. u32(q1 + 4 * q1) = 5 * q1 /\ u32(q2 + 4 * q2) = 5 * q2 /\ u32(q3 + 4 * q3) = 5 * q3 /\ u32(q4 + 4 * q4) = 5 * q4
  BY <1>1, <1>2, <1>5
<1>10. QED
  BY <1>2, <1>6, <1>8, <1>9, Zenon

\* What is left of a product is a number below 5 * 2^128 with the product's value.
SameSum(g, h, t, c, end) ==
  \E k \in Int : (Value(h) + Value(c) + end * Limb ^ 4) * Value(t) = Value(g) + Prime * k

LEMMA AddBlockOf ==
  ASSUME NEW h, IsHash(h), NEW c, IsFour(c), NEW end \in {0, 1},
         NEW t, NEW q1, NEW q2, NEW q3, NEW q4, NEW m, IsClamped(t, q1, q2, q3, q4, m),
         NEW g, g = AddBlock(h, t, c, end)
  PROVE  IsHash(g) /\ SameSum(g, h, t, c, end)
<1> DEFINE B  == Limb
           s1 == h[1] + c[1]
           s2 == h[2] + c[2]
           s3 == h[3] + c[3]
           s4 == h[4] + c[4]
           s5 == h[5] + end
           x1 == s1*(4*q1 + m) + s2*(5*q4) + s3*(5*q3) + s4*(5*q2) + s5*(5*q1)
           x2 == s1*(4*q2) + s2*(4*q1 + m) + s3*(5*q4) + s4*(5*q3) + s5*(5*q2)
           x3 == s1*(4*q3) + s2*(4*q2) + s3*(4*q1 + m) + s4*(5*q4) + s5*(5*q3)
           x4 == s1*(4*q4) + s2*(4*q3) + s3*(4*q2) + s4*(4*q1 + m) + s5*(5*q4)
           x5 == s5*m
           S  == Horner5(B, s1, s2, s3, s4, s5)
           R  == Horner4(B, 4 * q1 + m, 4 * q2, 4 * q3, 4 * q4)
           X  == Horner5(B, x1, x2, x3, x4, x5)
<1>1. /\ u64(s1) = s1 /\ u64(s2) = s2 /\ u64(s3) = s3 /\ u64(s4) = s4 /\ u32(s5) = s5
      /\ Factors5(B, s1, s2, s3, s4, s5)
  BY SumOf, Zenon
<1>2. /\ u32(t[1] \div 4 + 4 * (t[1] \div 4)) = 5 * q1
      /\ u32(t[2] \div 4 + t[2]) = 5 * q2 /\ u32(t[3] \div 4 + t[3]) = 5 * q3
      /\ u32(t[4] \div 4 + t[4]) = 5 * q4
      /\ t[1] % 4 = m
  BY BackOf, Zenon
<1>3. /\ t[1] = 4 * q1 + m /\ t[2] = 4 * q2 /\ t[3] = 4 * q3 /\ t[4] = 4 * q4
      /\ Quarters(B, q1, q2, q3, q4, m) /\ NaturalLimbs(t, 4)
  BY Zenon DEF IsClamped
<1> HIDE DEF B, s1, s2, s3, s4, s5
<1>4. IsProduct(B, x1, x2, x3, x4, x5, s1, s2, s3, s4, s5, q1, q2, q3, q4, m)
  BY <1>1, <1>3, Zenon DEF IsProduct
<1>5. FiveColumns(B, x1, x2, x3, x4, x5) /\ ProductSame(B, X, S, R)
  BY <1>4, ProductOf, ZenonT(60)
<1>6. /\ u64(x1) = x1 /\ u64(x2) = x2 /\ u64(x3) = x3 /\ u64(x4) = x4 /\ u32(x5) = x5
      /\ Columns(x1, x2, x3, x4, x5)
  <2> HIDE DEF x1, x2, x3, x4, x5
  <2>1. ASSUME NEW x, Column(B, x)
        PROVE  u64(x) = x
    <3>1. x \in Nat /\ x < B * B
      BY <2>1 DEF Column
    <3>2. QED
      BY <3>1, Parts DEF B
  <2>2. Column(B, x1) /\ Column(B, x2) /\ Column(B, x3) /\ Column(B, x4)
    BY <1>5 DEF FiveColumns, LowColumn
  <2>3. x5 \in Nat /\ x5 < B
    BY <1>5, LimbSize DEF FiveColumns, B
  <2>4. u32(x5) = x5
    BY <2>3, Parts DEF B
  <2>5. Columns(x1, x2, x3, x4, x5)
    BY <1>5 DEF Columns, FiveColumns, B
  <2>6. QED
    BY <2>1, <2>2, <2>4, <2>5, Zenon
<1>7. g = Reduced(<<x1, x2, x3, x4, x5>>)
  <2> DEFINE s   == [i \in 1 .. 5 |-> IF i = 5 THEN u32(h[5] + end) ELSE u64(h[i] + c[i])]
             rr  == [i \in 1 .. 4 |-> u32(t[i] \div 4 + (IF i = 1 THEN 4 * (t[i] \div 4) ELSE t[i]))]
             rr4 == t[1] % 4
  <2>1. g = Reduced(<<
          u64(s[1]*t[1] + s[2]*rr[4] + s[3]*rr[3] + s[4]*rr[2] + s[5]*rr[1]),
          u64(s[1]*t[2] + s[2]*t[1]  + s[3]*rr[4] + s[4]*rr[3] + s[5]*rr[2]),
          u64(s[1]*t[3] + s[2]*t[2]  + s[3]*t[1]  + s[4]*rr[4] + s[5]*rr[3]),
          u64(s[1]*t[4] + s[2]*t[3]  + s[3]*t[2]  + s[4]*t[1]  + s[5]*rr[4]),
          u32(s[5]*rr4) >>)
    BY Zenon DEF AddBlock
  <2>2. s[1] = s1 /\ s[2] = s2 /\ s[3] = s3 /\ s[4] = s4 /\ s[5] = s5
    BY <1>1 DEF s1, s2, s3, s4, s5
  <2>3. rr[1] = 5 * q1 /\ rr[2] = 5 * q2 /\ rr[3] = 5 * q3 /\ rr[4] = 5 * q4 /\ rr4 = m
    BY <1>2
  <2> HIDE DEF s, rr, rr4
  <2>4. QED
    BY <1>3, <1>6, <2>1, <2>2, <2>3, ZenonT(60)
<1>8. IsHash(g) /\ SameValue(g, X)
  <2> HIDE DEF x1, x2, x3, x4, x5
  <2>1. QED
    BY <1>6, <1>7, ReducedIs, Zenon DEF B
<1>9. R = Value(t)
  BY <1>3, ValueOf4, Zenon DEF B
<1>10. S = Value(h) + Value(c) + end * Limb ^ 4
  <2>1. /\ Value(h) = Horner5(B, h[1], h[2], h[3], h[4], h[5])
        /\ Value(c) = Horner4(B, c[1], c[2], c[3], c[4])
    BY HashLimbs, FourLimbs, ValueOf4, ValueOf5, Zenon DEF B
  <2>2. /\ h[1] \in Int /\ h[2] \in Int /\ h[3] \in Int /\ h[4] \in Int /\ h[5] \in Int
        /\ c[1] \in Int /\ c[2] \in Int /\ c[3] \in Int /\ c[4] \in Int /\ end \in Int /\ B \in Int
    BY HashLimbs, FourLimbs, LimbSize DEF B
  <2>3. Limb ^ 4 = Four(B)
    BY LimbSize DEF B
  <2>4. Horner5(B, h[1], h[2], h[3], h[4], h[5]) + Horner4(B, c[1], c[2], c[3], c[4]) + end * Four(B)
          = Horner5(B, h[1] + c[1], h[2] + c[2], h[3] + c[3], h[4] + c[4], h[5] + end)
    <3> DEFINE a1 == h[1]
               a2 == h[2]
               a3 == h[3]
               a4 == h[4]
               a5 == h[5]
               b1 == c[1]
               b2 == c[2]
               b3 == c[3]
               b4 == c[4]
    <3>1. /\ a1 \in Int /\ a2 \in Int /\ a3 \in Int /\ a4 \in Int /\ a5 \in Int
          /\ b1 \in Int /\ b2 \in Int /\ b3 \in Int /\ b4 \in Int
      BY <2>2
    <3> HIDE DEF a1, a2, a3, a4, a5, b1, b2, b3, b4
    <3>2. Horner5(B, a1, a2, a3, a4, a5) + Horner4(B, b1, b2, b3, b4) + end * Four(B)
            = Horner5(B, a1 + b1, a2 + b2, a3 + b3, a4 + b4, a5 + end)
      BY <2>2, <3>1 DEF Horner5, Horner4, Four
    <3>3. QED
      BY <3>2 DEF a1, a2, a3, a4, a5, b1, b2, b3, b4
  <2>5. QED
    BY <2>1, <2>3, <2>4, Zenon DEF s1, s2, s3, s4, s5
<1>11. Prime = 4 * Four(B) - 5 /\ Prime \in Int
  BY LimbSize DEF Prime, Four, B
<1>12. PICK k1 \in Int : S * R = X + (4 * Four(B) - 5) * k1
  BY <1>5, Zenon DEF ProductSame
<1>13. PICK k2 \in Nat : X = Value(g) + (4 * Four(B) - 5) * k2
  BY <1>8, Zenon DEF B, SameValue
<1>14. S * R = Value(g) + Prime * (k1 + k2) /\ k1 + k2 \in Int
  <2> DEFINE V == Value(g)
             P == Prime
             SR == S * R
  <2>1. SR = X + P * k1 /\ X = V + P * k2 /\ P \in Int /\ V \in Int
    <3>1. V = Horner5(B, g[1], g[2], g[3], g[4], g[5])
      BY <1>8, HashLimbs, ValueOf5, Zenon DEF B
    <3>2. g[1] \in Int /\ g[2] \in Int /\ g[3] \in Int /\ g[4] \in Int /\ g[5] \in Int /\ B \in Int
      BY <1>8, HashLimbs, LimbSize DEF B
    <3>3. V \in Int
      BY <3>1, <3>2 DEF Horner5
    <3>4. QED
      BY <1>11, <1>12, <1>13, <3>3, Zenon
  <2> HIDE DEF V, P, SR, X
  <2>2. SR = V + P * (k1 + k2)
    BY <2>1
  <2>3. QED
    BY <2>2 DEF SR, P, V
<1>15. SameSum(g, h, t, c, end)
  BY <1>9, <1>10, <1>14, Zenon DEF SameSum
<1>16. QED
  BY <1>8, <1>15

\* Values are natural numbers.
FiveNaturals(x1, x2, x3, x4, x5) == x1 \in Nat /\ x2 \in Nat /\ x3 \in Nat /\ x4 \in Nat /\ x5 \in Nat

LEMMA ValuesNatural ==
  /\ \A h : IsHash(h) => Value(h) \in Nat
  /\ \A t : NaturalLimbs(t, 4) => Value(t) \in Nat
  /\ Prime = 4 * Four(Limb) - 5 /\ Prime \in Nat \ {0} /\ Four(Limb) \in Nat /\ Four(Limb) >= 5
  /\ Limb ^ 4 = Four(Limb)
<1> DEFINE B == Limb
<1>1. B \in Nat /\ B >= 32 /\ B ^ 4 = Four(B)
  BY LimbSize
<1> HIDE DEF B
<1>2. ASSUME NEW x1, NEW x2, NEW x3, NEW x4, NEW x5, FiveNaturals(x1, x2, x3, x4, x5)
      PROVE  Horner5(B, x1, x2, x3, x4, x5) \in Nat /\ Horner4(B, x1, x2, x3, x4) \in Nat
  <2>1. x1 \in Nat /\ x2 \in Nat /\ x3 \in Nat /\ x4 \in Nat /\ x5 \in Nat
    BY <1>2 DEF FiveNaturals
  <2>2. QED
    BY <1>1, <2>1 DEF Horner5, Horner4
<1>3. ASSUME NEW h, IsHash(h)
      PROVE  Value(h) \in Nat
  <2>1. Value(h) = Horner5(B, h[1], h[2], h[3], h[4], h[5])
    BY <1>3, HashLimbs, ValueOf5, Zenon DEF B
  <2>2. FiveNaturals(h[1], h[2], h[3], h[4], h[5])
    BY <1>1, <1>3, HashLimbs DEF B, FiveNaturals
  <2>3. QED
    BY <1>2, <2>1, <2>2
<1>4. ASSUME NEW t, NaturalLimbs(t, 4)
      PROVE  Value(t) \in Nat
  <2>1. Value(t) = Horner4(B, t[1], t[2], t[3], t[4])
    BY <1>4, ValueOf4, Zenon DEF B
  <2>2. FiveNaturals(t[1], t[2], t[3], t[4], 0)
    BY <1>4 DEF NaturalLimbs, FiveNaturals
  <2>3. QED
    BY <1>2, <2>1, <2>2
<1>5. Four(B) \in Nat /\ Four(B) >= 5
  <2>1. B * B \in Nat /\ B * B >= 32
    <3>1. B * B = 32 + (B - 32) + B * (B - 1) /\ B * (B - 1) \in Nat
      BY <1>1
    <3>2. QED
      BY <1>1, <3>1
  <2> DEFINE C == B * B
  <2>2. Four(B) = C * C
    BY <1>1 DEF Four
  <2>3. C \in Nat /\ C >= 32
    BY <2>1
  <2> HIDE DEF C
  <2>4. C * C = 32 + (C - 32) + C * (C - 1) /\ C * (C - 1) \in Nat
    BY <2>3
  <2>5. QED
    BY <2>2, <2>3, <2>4
<1>6. Prime = 4 * Four(B) - 5 /\ Prime \in Nat \ {0}
  BY <1>1, <1>5 DEF Prime, B
<1>7. QED
  BY <1>1, <1>3, <1>4, <1>5, <1>6 DEF B

\* The product of the properties is a product.
LEMMA TimesIs ==
  ASSUME NEW a \in Nat, NEW b \in Nat
  PROVE  Times(a, b) = (a * b) % Prime
<1> DEFINE p == CHOOSE f : Doubles(f, Prime, a)
<1>1. Times(a, b) = p[b]
  BY Zenon DEF Times, Doubles, Twice
<1> HIDE DEF p
<1>2. Prime \in Nat \ {0}
  BY ValuesNatural
<1>3. QED
  BY <1>1, <1>2, Doubling DEF p

LEMMA AddBlockIs ==
  ASSUME NEW g, IsHash(g), NEW h, IsHash(h), NEW c, IsFour(c), NEW end \in {0, 1},
         NEW t, NaturalLimbs(t, 4), SameSum(g, h, t, c, end)
  PROVE  Value(g) % Prime = Times((Value(h) + Value(c) + end * Limb ^ 4) % Prime, Value(t))
<1> DEFINE P == Prime
           S == Value(h) + Value(c) + end * Limb ^ 4
           R == Value(t)
           V == Value(g)
<1>1. P \in Nat \ {0} /\ R \in Nat /\ V \in Int /\ S \in Nat
  <2>1. Value(h) \in Nat /\ Value(c) \in Nat /\ Value(t) \in Nat /\ Value(g) \in Nat
        /\ Limb ^ 4 \in Nat /\ P \in Nat \ {0}
    BY ValuesNatural, FourLimbs
  <2> DEFINE f == Limb ^ 4
             v == Value(h)
             w == Value(c)
  <2>2. v \in Nat /\ w \in Nat /\ f \in Nat
    BY <2>1
  <2> HIDE DEF f, v, w
  <2>3. v + w + end * f \in Nat
    BY <2>2
  <2>4. QED
    BY <2>1, <2>3 DEF f, v, w
<1>2. PICK k \in Int : S * R = V + P * k
  BY Zenon DEF SameSum
<1> HIDE DEF P, S, R, V
<1>3. S * R = P * k + V
  <2> DEFINE x == P * k
             y == S * R
  <2>1. x \in Int /\ y = V + x
    BY <1>1, <1>2
  <2> HIDE DEF x, y
  <2>2. y = x + V
    BY <1>1, <2>1
  <2>3. QED
    BY <2>2 DEF x, y
<1>4. V % P = (S * R) % P
  BY <1>1, <1>3, Shifted
<1>5. ((S % P) * R) % P = (S * R) % P
  BY <1>1, ModProduct
<1>6. S % P \in Nat
  BY <1>1
<1>7. Times(S % P, R) = ((S % P) * R) % P
  BY <1>1, <1>6, TimesIs DEF P
<1>8. QED
  BY <1>4, <1>5, <1>7 DEF V, P, S, R

\* The carries of h + 5, and those of the tag.
IsTop(f, h) == f = [i \in 0 .. 4 |-> IF i = 0 THEN 5 ELSE High(f[i - 1] + h[i])]
IsCarry(f, h, pad, shift) ==
  f = [i \in 1 .. 4 |-> (IF i = 1 THEN shift ELSE High(f[i - 1])) + h[i] + pad[i]]

LEMMA TopIs ==
  ASSUME NEW h
  PROVE  \E f : IsTop(f, h)
<1> DEFINE t1 == High(5 + h[1])
           t2 == High(t1 + h[2])
           t3 == High(t2 + h[3])
           t4 == High(t3 + h[4])
           f  == [i \in 0 .. 4 |-> IF i = 0 THEN 5 ELSE IF i = 1 THEN t1 ELSE IF i = 2 THEN t2
                                   ELSE IF i = 3 THEN t3 ELSE t4]
<1>1. f[0] = 5 /\ f[1] = t1 /\ f[2] = t2 /\ f[3] = t3 /\ f[4] = t4
  BY SMT
<1>2. f = [i \in 0 .. 4 |-> f[i]]
  OBVIOUS
<1> HIDE DEF f
<1>3. f[1] = High(f[0] + h[1]) /\ f[2] = High(f[1] + h[2]) /\ f[3] = High(f[2] + h[3]) /\ f[4] = High(f[3] + h[4])
  BY <1>1, Zenon
<1>4. ASSUME NEW i \in 0 .. 4
      PROVE  f[i] = IF i = 0 THEN 5 ELSE High(f[i - 1] + h[i])
  <2>1. i = 0 \/ i = 1 \/ i = 2 \/ i = 3 \/ i = 4
    OBVIOUS
  <2>2. 1 - 1 = 0 /\ 2 - 1 = 1 /\ 3 - 1 = 2 /\ 4 - 1 = 3 /\ 1 # 0 /\ 2 # 0 /\ 3 # 0 /\ 4 # 0
    OBVIOUS
  <2>3. QED
    BY <1>1, <1>3, <2>1, <2>2, Zenon
<1>5. IsTop(f, h)
  BY <1>2, <1>4, Zenon DEF IsTop
<1>6. QED
  BY <1>5

LEMMA CarryIs ==
  ASSUME NEW h, NEW pad, NEW shift
  PROVE  \E f : IsCarry(f, h, pad, shift)
<1> DEFINE c1 == shift + h[1] + pad[1]
           c2 == High(c1) + h[2] + pad[2]
           c3 == High(c2) + h[3] + pad[3]
           c4 == High(c3) + h[4] + pad[4]
           f  == [i \in 1 .. 4 |-> IF i = 1 THEN c1 ELSE IF i = 2 THEN c2 ELSE IF i = 3 THEN c3 ELSE c4]
<1>1. f[1] = c1 /\ f[2] = c2 /\ f[3] = c3 /\ f[4] = c4
  BY SMT
<1>2. f = [i \in 1 .. 4 |-> f[i]]
  OBVIOUS
<1> HIDE DEF f
<1>3. /\ f[1] = shift + h[1] + pad[1] /\ f[2] = High(f[1]) + h[2] + pad[2]
      /\ f[3] = High(f[2]) + h[3] + pad[3] /\ f[4] = High(f[3]) + h[4] + pad[4]
  BY <1>1, Zenon
<1>4. ASSUME NEW i \in 1 .. 4
      PROVE  f[i] = (IF i = 1 THEN shift ELSE High(f[i - 1])) + h[i] + pad[i]
  <2>1. i = 1 \/ i = 2 \/ i = 3 \/ i = 4
    OBVIOUS
  <2>2. 2 - 1 = 1 /\ 3 - 1 = 2 /\ 4 - 1 = 3 /\ 2 # 1 /\ 3 # 1 /\ 4 # 1
    OBVIOUS
  <2>3. QED
    BY <1>3, <2>1, <2>2, Zenon
<1>5. IsCarry(f, h, pad, shift)
  BY <1>2, <1>4, Zenon DEF IsCarry
<1>6. QED
  BY <1>5

\* The limbs of the tag, one after the other.
TagSteps(tag, h, pad, t1, t2, t3, t4, shift, c1, c2, c3, c4) ==
  /\ t1 = High(5 + h[1]) /\ t2 = High(t1 + h[2]) /\ t3 = High(t2 + h[3]) /\ t4 = High(t3 + h[4])
  /\ shift = ((t4 + h[5]) \div 4) * 5
  /\ c1 = shift + h[1] + pad[1] /\ c2 = High(c1) + h[2] + pad[2]
  /\ c3 = High(c2) + h[3] + pad[3] /\ c4 = High(c3) + h[4] + pad[4]
  /\ tag = [i \in 1 .. 4 |-> tag[i]]
  /\ tag[1] = u32(c1) /\ tag[2] = u32(c2) /\ tag[3] = u32(c3) /\ tag[4] = u32(c4)

LEMMA TagLimbsAre ==
  ASSUME NEW h, NEW pad
  PROVE  \E t1, t2, t3, t4, shift, c1, c2, c3, c4 :
           TagSteps(TagLimbs(h, pad), h, pad, t1, t2, t3, t4, shift, c1, c2, c3, c4)
<1> DEFINE top   == CHOOSE f : IsTop(f, h)
           shift == ((top[4] + h[5]) \div 4) * 5
           c     == CHOOSE f : IsCarry(f, h, pad, shift)
           tag   == [i \in 1 .. 4 |-> u32(c[i])]
<1>1. TagLimbs(h, pad) = tag
  BY Zenon DEF TagLimbs, IsTop, IsCarry
<1>2. IsTop(top, h)
  BY TopIs, Zenon
<1>3. IsCarry(c, h, pad, shift)
  BY CarryIs, Zenon
<1>4. /\ tag = [i \in 1 .. 4 |-> tag[i]]
      /\ tag[1] = u32(c[1]) /\ tag[2] = u32(c[2]) /\ tag[3] = u32(c[3]) /\ tag[4] = u32(c[4])
  <2> HIDE DEF c
  <2>1. QED
    OBVIOUS
<1> HIDE DEF tag, c, top
<1>5. /\ top[1] = High(5 + h[1]) /\ top[2] = High(top[1] + h[2]) /\ top[3] = High(top[2] + h[3])
      /\ top[4] = High(top[3] + h[4])
  <2>1. \A i \in 0 .. 4 : top[i] = IF i = 0 THEN 5 ELSE High(top[i - 1] + h[i])
    BY <1>2, Zenon DEF IsTop
  <2>2. QED
    BY <2>1
<1>6. /\ c[1] = shift + h[1] + pad[1] /\ c[2] = High(c[1]) + h[2] + pad[2]
      /\ c[3] = High(c[2]) + h[3] + pad[3] /\ c[4] = High(c[3]) + h[4] + pad[4]
  <2> HIDE DEF shift
  <2>1. \A i \in 1 .. 4 : c[i] = (IF i = 1 THEN shift ELSE High(c[i - 1])) + h[i] + pad[i]
    BY <1>3, Zenon DEF IsCarry
  <2>2. QED
    BY <2>1
<1>7. TagSteps(tag, h, pad, top[1], top[2], top[3], top[4], shift, c[1], c[2], c[3], c[4])
  BY <1>4, <1>5, <1>6, Zenon DEF TagSteps
<1>8. QED
  BY <1>1, <1>7, Zenon

LEMMA TagIs ==
  ASSUME NEW h, IsHash(h), NEW pad, IsFour(pad)
  PROVE  Value(TagLimbs(h, pad)) = (((Value(h) % Prime) % Limb ^ 4) + Value(pad)) % Limb ^ 4
<1> DEFINE B   == Limb
           F   == Four(B)
           tag == TagLimbs(h, pad)
           h1 == h[1]
           h2 == h[2]
           h3 == h[3]
           h4 == h[4]
           h5 == h[5]
           p1 == pad[1]
           p2 == pad[2]
           p3 == pad[3]
           p4 == pad[4]
           x  == Horner4(B, h1, h2, h3, h4)
           y  == Horner4(B, p1, p2, p3, p4)
<1>1. PICK t1, t2, t3, t4, shift, c1, c2, c3, c4 :
        TagSteps(tag, h, pad, t1, t2, t3, t4, shift, c1, c2, c3, c4)
  BY TagLimbsAre, Zenon
<1>2. /\ t1 = High(5 + h1) /\ t2 = High(t1 + h2) /\ t3 = High(t2 + h3) /\ t4 = High(t3 + h4)
      /\ shift = ((t4 + h5) \div 4) * 5
      /\ c1 = shift + h1 + p1 /\ c2 = High(c1) + h2 + p2
      /\ c3 = High(c2) + h3 + p3 /\ c4 = High(c3) + h4 + p4
      /\ tag = [i \in 1 .. 4 |-> tag[i]]
      /\ tag[1] = u32(c1) /\ tag[2] = u32(c2) /\ tag[3] = u32(c3) /\ tag[4] = u32(c4)
  BY <1>1, Zenon DEF TagSteps
<1>3. /\ h1 \in 0 .. (B - 1) /\ h2 \in 0 .. (B - 1) /\ h3 \in 0 .. (B - 1) /\ h4 \in 0 .. (B - 1)
      /\ p1 \in 0 .. (B - 1) /\ p2 \in 0 .. (B - 1) /\ p3 \in 0 .. (B - 1) /\ p4 \in 0 .. (B - 1)
      /\ h5 \in 0 .. 4 /\ B \in Nat \ {0}
  BY HashLimbs, FourLimbs, LimbSize
<1>4. /\ Value(h) = Horner5(B, h1, h2, h3, h4, h5) /\ Value(pad) = y
      /\ Limb ^ 4 = F /\ Prime = 4 * F - 5 /\ F \in Nat /\ F >= 5
      /\ Value(pad) \in Nat
  BY HashLimbs, FourLimbs, ValueOf4, ValueOf5, ValuesNatural, Zenon
<1>5. ASSUME NEW n \in Nat
      PROVE  High(n) \in Nat /\ u32(n) \in 0 .. (B - 1) /\ n = B * High(n) + u32(n)
  BY Parts
<1> HIDE DEF tag, h1, h2, h3, h4, h5, p1, p2, p3, p4, B
<1>6. /\ 5 + h1 \in Nat /\ t1 \in Nat /\ t1 + h2 \in Nat /\ t2 \in Nat /\ t2 + h3 \in Nat /\ t3 \in Nat
      /\ t3 + h4 \in Nat /\ t4 \in Nat
      /\ h1 \in Nat /\ h2 \in Nat /\ h3 \in Nat /\ h4 \in Nat
      /\ p1 \in Nat /\ p2 \in Nat /\ p3 \in Nat /\ p4 \in Nat
  <2>1. /\ h1 \in Nat /\ h2 \in Nat /\ h3 \in Nat /\ h4 \in Nat
        /\ p1 \in Nat /\ p2 \in Nat /\ p3 \in Nat /\ p4 \in Nat
    BY <1>3
  <2>2. 5 + h1 \in Nat
    BY <2>1
  <2>3. t1 \in Nat /\ t1 + h2 \in Nat
    BY <1>2, <1>5, <2>1, <2>2
  <2>4. t2 \in Nat /\ t2 + h3 \in Nat
    BY <1>2, <1>5, <2>1, <2>3
  <2>5. t3 \in Nat /\ t3 + h4 \in Nat
    BY <1>2, <1>5, <2>1, <2>4
  <2>6. t4 \in Nat
    BY <1>2, <1>5, <2>5
  <2>7. QED
    BY <2>1, <2>2, <2>3, <2>4, <2>5, <2>6
<1> DEFINE k == (t4 + h5) \div 4
<1>7. k \in Nat /\ shift = 5 * k /\ shift \in Nat
  <2>1. t4 + h5 \in Nat
    BY <1>3, <1>6
  <2>2. k \in Nat
    BY <2>1
  <2> HIDE DEF k
  <2>3. shift = k * 5
    BY <1>2 DEF k
  <2>4. QED
    BY <2>2, <2>3
<1> HIDE DEF k
<1>8. /\ c1 \in Nat /\ c2 \in Nat /\ c3 \in Nat /\ c4 \in Nat
  <2>1. c1 \in Nat
    BY <1>2, <1>6, <1>7
  <2>2. c2 \in Nat
    BY <1>2, <1>5, <1>6, <2>1
  <2>3. c3 \in Nat
    BY <1>2, <1>5, <1>6, <2>2
  <2>4. c4 \in Nat
    BY <1>2, <1>5, <1>6, <2>3
  <2>5. QED
    BY <2>1, <2>2, <2>3, <2>4
\* h is below B^4 but for its top limb.
<1>9. x \in 0 .. (F - 1)
  <2>1. Carrying(B, h1, h2, h3, h4, 0, 0, 0, 0, h1, h2, h3, h4)
    BY <1>3, <1>6 DEF Carrying
  <2>2. QED
    BY <1>3, <2>1, FourCarries, Zenon
\* The carries of h + 5.
<1> DEFINE l1 == u32(5 + h1)
           l2 == u32(t1 + h2)
           l3 == u32(t2 + h3)
           l4 == u32(t3 + h4)
           l  == Horner4(B, l1, l2, l3, l4)
<1>10. 5 + x = F * t4 + l /\ l \in 0 .. (F - 1)
  <2>1. /\ 5 + h1 = B * t1 + l1 /\ t1 + h2 = B * t2 + l2 /\ t2 + h3 = B * t3 + l3 /\ t3 + h4 = B * t4 + l4
        /\ l1 \in 0 .. (B - 1) /\ l2 \in 0 .. (B - 1) /\ l3 \in 0 .. (B - 1) /\ l4 \in 0 .. (B - 1)
    <3>1. /\ 5 + h1 = B * High(5 + h1) + l1 /\ t1 + h2 = B * High(t1 + h2) + l2
          /\ t2 + h3 = B * High(t2 + h3) + l3 /\ t3 + h4 = B * High(t3 + h4) + l4
          /\ l1 \in 0 .. (B - 1) /\ l2 \in 0 .. (B - 1) /\ l3 \in 0 .. (B - 1) /\ l4 \in 0 .. (B - 1)
      BY <1>5, <1>6, Zenon
    <3>2. QED
      BY <1>2, <3>1, Zenon
  <2> HIDE DEF l1, l2, l3, l4
  <2>2. Carrying(B, 5 + h1, h2, h3, h4, t1, t2, t3, t4, l1, l2, l3, l4)
    BY <1>6, <2>1 DEF Carrying
  <2>3. /\ Horner4(B, 5 + h1, h2, h3, h4) = F * t4 + l
        /\ l \in 0 .. (F - 1)
    BY <1>3, <2>2, FourCarries, Zenon
  <2>4. Horner4(B, 5 + h1, h2, h3, h4) = 5 + x
    BY <1>3, <1>6 DEF Horner4
  <2>5. QED
    BY <2>3, <2>4, Zenon
<1> HIDE DEF l
\* The carries of the tag.
<1> DEFINE k1 == High(c1)
           k2 == High(c2)
           k3 == High(c3)
           k4 == High(c4)
           v  == Horner4(B, tag[1], tag[2], tag[3], tag[4])
           z1 == shift + h1 + p1
           z2 == h2 + p2
           z3 == h3 + p3
           z4 == h4 + p4
<1>11. shift + x + y = F * k4 + v /\ v \in 0 .. (F - 1) /\ k4 \in Nat
  <2>1. /\ c1 = B * k1 + tag[1] /\ c2 = B * k2 + tag[2] /\ c3 = B * k3 + tag[3] /\ c4 = B * k4 + tag[4]
        /\ tag[1] \in 0 .. (B - 1) /\ tag[2] \in 0 .. (B - 1) /\ tag[3] \in 0 .. (B - 1) /\ tag[4] \in 0 .. (B - 1)
        /\ k1 \in Nat /\ k2 \in Nat /\ k3 \in Nat /\ k4 \in Nat
    <3>1. /\ c1 = B * k1 + u32(c1) /\ c2 = B * k2 + u32(c2) /\ c3 = B * k3 + u32(c3) /\ c4 = B * k4 + u32(c4)
          /\ u32(c1) \in 0 .. (B - 1) /\ u32(c2) \in 0 .. (B - 1) /\ u32(c3) \in 0 .. (B - 1) /\ u32(c4) \in 0 .. (B - 1)
          /\ k1 \in Nat /\ k2 \in Nat /\ k3 \in Nat /\ k4 \in Nat
      BY <1>5, <1>8, Zenon
    <3>2. /\ tag[1] = u32(c1) /\ tag[2] = u32(c2) /\ tag[3] = u32(c3) /\ tag[4] = u32(c4)
      BY <1>2
    <3> HIDE DEF k1, k2, k3, k4
    <3>3. QED
      BY <3>1, <3>2, Zenon
  <2> DEFINE g1 == tag[1]
             g2 == tag[2]
             g3 == tag[3]
             g4 == tag[4]
  <2>2. /\ c1 = B * k1 + g1 /\ c2 = B * k2 + g2 /\ c3 = B * k3 + g3 /\ c4 = B * k4 + g4
        /\ g1 \in 0 .. (B - 1) /\ g2 \in 0 .. (B - 1) /\ g3 \in 0 .. (B - 1) /\ g4 \in 0 .. (B - 1)
        /\ k1 \in Nat /\ k2 \in Nat /\ k3 \in Nat /\ k4 \in Nat
    BY <2>1
  <2>3. c1 = z1 /\ c2 = k1 + z2 /\ c3 = k2 + z3 /\ c4 = k3 + z4
    <3>1. /\ c1 = shift + h1 + p1 /\ c2 = k1 + h2 + p2 /\ c3 = k2 + h3 + p3 /\ c4 = k3 + h4 + p4
      BY <1>2, Zenon
    <3> HIDE DEF k1, k2, k3, k4
    <3>2. QED
      BY <1>6, <2>2, <3>1
  <2>4. z1 \in Nat /\ z2 \in Nat /\ z3 \in Nat /\ z4 \in Nat
    BY <1>6, <1>7
  <2>5. Horner4(B, z1, z2, z3, z4) = shift + x + y
    BY <1>3, <1>6, <1>7 DEF Horner4
  <2> HIDE DEF g1, g2, g3, g4, k1, k2, k3, k4, z1, z2, z3, z4
  <2>6. Carrying(B, z1, z2, z3, z4, k1, k2, k3, k4, g1, g2, g3, g4)
    BY <2>2, <2>3, <2>4 DEF Carrying
  <2>7. /\ Horner4(B, z1, z2, z3, z4) = F * k4 + Horner4(B, g1, g2, g3, g4)
        /\ Horner4(B, g1, g2, g3, g4) \in 0 .. (F - 1)
    BY <1>3, <2>6, FourCarries, Zenon
  <2>8. QED
    BY <2>2, <2>5, <2>7, Zenon DEF g1, g2, g3, g4
<1>12. Value(tag) = v
  <2>1. Len(tag) = 4
    BY <1>2, TextFrom
  <2>2. \A i \in 1 .. 4 : tag[i] \in Nat
    <3>1. tag[1] \in Nat /\ tag[2] \in Nat /\ tag[3] \in Nat /\ tag[4] \in Nat
      <4>1. /\ tag[1] \in 0 .. (B - 1) /\ tag[2] \in 0 .. (B - 1) /\ tag[3] \in 0 .. (B - 1) /\ tag[4] \in 0 .. (B - 1)
        <5>1. u32(c1) \in 0 .. (B - 1) /\ u32(c2) \in 0 .. (B - 1) /\ u32(c3) \in 0 .. (B - 1) /\ u32(c4) \in 0 .. (B - 1)
          BY <1>5, <1>8, Zenon
        <5>2. QED
          BY <1>2, <5>1, Zenon
      <4>2. QED
        BY <4>1
    <3>2. \A i \in 1 .. 4 : i = 1 \/ i = 2 \/ i = 3 \/ i = 4
      OBVIOUS
    <3>3. QED
      BY <3>1, <3>2, Zenon
  <2>3. NaturalLimbs(tag, 4)
    BY <2>1, <2>2 DEF NaturalLimbs
  <2>4. QED
    BY <2>3, ValueOf4, Zenon DEF B
<1>13. Value(h) = x + F * h5 /\ y \in Nat
  <2>1. FiveInts(B, h1, h2, h3, h4, h5)
    BY <1>3 DEF FiveInts
  <2>2. Horner5(B, h1, h2, h3, h4, h5) = x + F * h5
    BY <2>1, FifthLimb
  <2>3. y \in Nat
    BY <1>4
  <2>4. QED
    BY <1>4, <2>2, <2>3, Zenon
<1> HIDE DEF v, x, y, F, k4
<1>14. (5 * k + x + y) % F = ((((x + F * h5) % (4 * F - 5)) % F) + y) % F
  <2>1. LastCarry(F, x, h5, y, t4, l, k)
    BY <1>3, <1>4, <1>6, <1>9, <1>10, <1>13 DEF LastCarry, k
  <2>2. LastSame(F, x, h5, y, k)
    BY <2>1, LastReduction
  <2>3. QED
    BY <2>2 DEF LastSame
<1>15. v = (5 * k + x + y) % F
  <2> DEFINE s == 5 * k + x + y
  <2>1. s = F * k4 + v
    BY <1>7, <1>11
  <2>2. v % F = v
    BY <1>4, <1>11
  <2>3. (F * k4 + v) % F = v % F
    <3>1. F \in Nat \ {0} /\ k4 \in Int /\ v \in Int
      BY <1>4, <1>11
    <3>2. QED
      BY <3>1, Shifted, Zenon
  <2> HIDE DEF s
  <2>4. s % F = v
    BY <2>1, <2>2, <2>3, Zenon
  <2>5. QED
    BY <2>4 DEF s
<1>16. QED
  BY <1>4, <1>12, <1>13, <1>14, <1>15, Zenon DEF tag

\* The last call of poly_blocks, and of the last reduction.
SumCall ==
  call.of = "poly_blocks" =>
    /\ IsHash(call.h) /\ IsFour(call.c) /\ call.end \in {0, 1}
    /\ \E r : IsFour(r) /\ call.r = Clamped(r)
    /\ call.result = AddBlock(call.h, call.r, call.c, call.end)
    /\ call.tag = TagLimbs(call.h, call.c)

\* With every limb size the code's 32 bits stand for, one block multiplies h by r modulo
\* 2^130 - 5 with no product wider than 64 bits, h is left below 5 * 2^128, and the tag
\* is h, fully reduced, plus the pad modulo 2^128.
THEOREM SumsAreExact == Spec => []SumExact
<1>1. Init => SumCall
  BY DEF Init, SumCall
<1>2. SumCall /\ [Next]_vars => SumCall'
  <2> SUFFICES ASSUME SumCall, [Next]_vars
               PROVE  SumCall'
    OBVIOUS
  <2>1. CASE Open
    BY <2>1 DEF Open, SumCall
  <2>2. CASE Write
    BY <2>2 DEF Write, SumCall
  <2>3. CASE Read
    BY <2>3 DEF Read, SumCall
  <2>4. CASE CallChaCha20
    <3>1. call'.of \in {"djb", "x", "ietf"}
      BY <2>4 DEF CallChaCha20
    <3>2. QED
      BY <3>1 DEF SumCall
  <2>5. CASE CallPoly1305
    <3>1. call'.of = "poly1305"
      BY <2>5 DEF CallPoly1305
    <3>2. QED
      BY <3>1 DEF SumCall
  <2>6. CASE CallPolyBlocks
    <3>1. PICK h \in Hashes, r \in Rs, c \in Blocks, end \in {0, 1} :
            call' = [of |-> "poly_blocks", h |-> h, r |-> Clamped(r), c |-> c, end |-> end,
                     result |-> AddBlock(h, Clamped(r), c, end), tag |-> TagLimbs(h, c)]
      BY <2>6 DEF CallPolyBlocks
    <3>2. IsHash(h) /\ IsFour(r) /\ IsFour(c)
      BY LimbsAssumption DEF IsHash, IsFour
    <3>3. /\ call'.h = h /\ call'.r = Clamped(r) /\ call'.c = c /\ call'.end = end
          /\ call'.result = AddBlock(h, Clamped(r), c, end) /\ call'.tag = TagLimbs(h, c)
      BY <3>1
    <3>4. QED
      BY <3>2, <3>3, Zenon DEF SumCall
  <2>7. CASE UNCHANGED vars
    BY <2>7 DEF vars, SumCall
  <2>8. QED
    BY <2>1, <2>2, <2>3, <2>4, <2>5, <2>6, <2>7 DEF Next
<1>3. SumCall => SumExact
  <2> SUFFICES ASSUME SumCall, call.of = "poly_blocks"
               PROVE  /\ Value(call.result) % Prime =
                           Times((Value(call.h) + Value(call.c) + call.end * Limb ^ 4) % Prime, Value(call.r))
                      /\ call.result[5] <= 4
                      /\ Value(call.tag) =
                           (((Value(call.h) % Prime) % Limb ^ 4) + Value(call.c)) % Limb ^ 4
    BY DEF SumExact
  <2> DEFINE h   == call.h
             c   == call.c
             end == call.end
             t   == call.r
             g   == call.result
  <2>1. PICK r : IsFour(r) /\ t = Clamped(r)
    BY Zenon DEF SumCall
  <2>2. IsHash(h) /\ IsFour(c) /\ end \in {0, 1} /\ g = AddBlock(h, t, c, end) /\ call.tag = TagLimbs(h, c)
    BY Zenon DEF SumCall
  <2> HIDE DEF h, c, end, t, g
  <2>3. PICK q1, q2, q3, q4, m : IsClamped(t, q1, q2, q3, q4, m)
    BY <2>1, ClampedIs, Zenon
  <2>4. IsHash(g) /\ SameSum(g, h, t, c, end)
    BY <2>2, <2>3, AddBlockOf, Zenon
  <2>5. NaturalLimbs(t, 4)
    BY <2>3 DEF IsClamped
  <2>6. Value(g) % Prime = Times((Value(h) + Value(c) + end * Limb ^ 4) % Prime, Value(t))
    BY <2>2, <2>4, <2>5, AddBlockIs
  <2>7. g[5] <= 4
    BY <2>4 DEF IsHash
  <2>8. Value(TagLimbs(h, c)) = (((Value(h) % Prime) % Limb ^ 4) + Value(c)) % Limb ^ 4
    BY <2>2, TagIs, Zenon
  <2>9. QED
    BY <2>2, <2>6, <2>7, <2>8, Zenon DEF h, c, end, t, g
<1>4. QED
  BY <1>1, <1>2, <1>3, PTL DEF Spec

(* -------- the stream in pieces -------- *)

\* Two counters the same modulo Word^2 are one input of the block function, and the counter
\* a call returns is such a remainder.
LEMMA CounterWords ==
  ASSUME NEW c \in Nat
  PROVE  /\ Word \in Nat \ {0} /\ Word * Word \in Nat \ {0}
         /\ c % (Word * Word) = (c % Word) + Word * ((c \div Word) % Word)
         /\ (c % (Word * Word)) % Word = c % Word
<1>1. Word \in Nat \ {0}
  BY ChaCha20Assumption
<1> DEFINE D == Word
           E == Word
<1>2. D \in Nat \ {0} /\ E \in Nat \ {0} /\ D = Word /\ E = Word
  BY <1>1
<1> HIDE DEF D, E
<1>3. D * E \in Nat \ {0} /\ c % (D * E) = (c % D) + D * ((c \div D) % E)
  BY <1>2, DigitStep, Zenon
<1>4. (c % (D * E)) % D = c % D
  BY <1>2, ModOfMod, Zenon
<1>5. QED
  BY <1>1, <1>2, <1>3, <1>4, Zenon

LEMMA InputMod ==
  ASSUME NEW key, NEW nonce, NEW c \in Nat, NEW d \in Nat,
         c % (Word * Word) = d % (Word * Word)
  PROVE  Input(key, nonce, c) = Input(key, nonce, d)
<1> DEFINE W == Word
           a == (c \div W) % W
           b == (d \div W) % W
           r == c % W
           s == d % W
<1>1. /\ c % (W * W) = r + W * a /\ d % (W * W) = s + W * b
      /\ (c % (W * W)) % W = r /\ (d % (W * W)) % W = s
  BY CounterWords, Zenon
<1>2. W \in Nat \ {0} /\ a \in Nat /\ b \in Nat /\ r \in Nat
  <2>1. W \in Nat \ {0}
    BY ChaCha20Assumption
  <2> HIDE DEF W
  <2>2. \A x \in Nat : x \div W \in Nat /\ x % W \in Nat
    BY <2>1
  <2>3. QED
    BY <2>1, <2>2, Zenon
<1>3. r = s /\ r + W * a = r + W * b
  BY <1>1, Zenon
<1> HIDE DEF W, a, b, r, s
<1>4. W * a + 0 = W * b + 0
  <2> DEFINE u == W * a
             v == W * b
  <2>1. u \in Int /\ v \in Int /\ r + u = r + v
    BY <1>2, <1>3
  <2> HIDE DEF u, v
  <2>2. u + 0 = v + 0
    BY <1>2, <2>1
  <2>3. QED
    BY <2>2 DEF u, v
<1>5. (W * a + 0) \div W = a /\ (W * b + 0) \div W = b
  <2>1. 0 \in 0 .. (W - 1) /\ a \in Int /\ b \in Int
    BY <1>2
  <2>2. QED
    BY <1>2, <2>1, Division
<1>6. a = b
  BY <1>4, <1>5, Zenon
<1>7. QED
  BY <1>3, <1>6, Zenon DEF Input, a, b, r, s, W

LEMMA CounterNext ==
  ASSUME NEW key, NEW nonce, NEW c \in Nat, NEW rest
  PROVE  NextCounter(Input(key, nonce, c), rest) = (c + (IF rest > 0 THEN 1 ELSE 0)) % (Word * Word)
<1> DEFINE W == Word
           D == Word * Word
           e == IF rest > 0 THEN 1 ELSE 0
           hi == (c \div W) % W
           lo == c % W
<1>1. W \in Nat \ {0} /\ D \in Nat \ {0} /\ c % D = lo + W * hi
  BY CounterWords, Zenon
<1>2. hi \in Nat /\ lo \in Nat
  <2> HIDE DEF W
  <2>1. \A x \in Nat : x \div W \in Nat /\ x % W \in Nat
    BY <1>1
  <2>2. QED
    BY <2>1, Zenon
<1>3. NextCounter(Input(key, nonce, c), rest) = (lo + hi * W + e) % D
  BY Zenon DEF NextCounter, Input
<1> HIDE DEF W, hi, lo, D
<1>4. lo + hi * W = c % D
  BY <1>1, <1>2
<1>5. ((c % D) + e) % D = (c + e) % D
  <2>1. e \in Nat
    OBVIOUS
  <2> HIDE DEF e
  <2>2. QED
    BY <1>1, <2>1, ModSum, Zenon
<1>6. QED
  BY <1>3, <1>4, <1>5, Zenon DEF D

\* The byte of key stream at a place, whatever the counter is counted from.
LEMMA StreamSame ==
  ASSUME NEW key, NEW nonce, NEW c \in Nat, NEW d \in Nat,
         c % (Word * Word) = d % (Word * Word), NEW i \in Nat \ {0}
  PROVE  StreamAt(key, nonce, c, i) = StreamAt(key, nonce, d, i)
<1> DEFINE D == Word * Word
           q == (i - 1) \div Block
<1>1. D \in Nat \ {0}
  BY CounterWords, Zenon
<1>2. q \in Nat
  BY ChaCha20Assumption
<1>3. c % D = d % D
  BY Zenon
<1> HIDE DEF D, q
<1>4. ((c % D) + q) % D = (c + q) % D /\ ((d % D) + q) % D = (d + q) % D
  BY <1>1, <1>2, ModSum, Zenon
<1>5. (c + q) % D = (d + q) % D /\ c + q \in Nat /\ d + q \in Nat
  BY <1>2, <1>3, <1>4, Zenon, SMT
<1>6. Input(key, nonce, c + q) = Input(key, nonce, d + q)
  BY <1>5, InputMod, Zenon DEF D
<1>7. QED
  BY <1>6, Zenon DEF StreamAt, q

LEMMA StreamBehind ==
  ASSUME NEW key, NEW nonce, NEW c \in Nat, NEW d \in Nat, NEW j \in Nat \ {0}
  PROVE  StreamAt(key, nonce, c, Block * d + j) = StreamAt(key, nonce, c + d, j)
<1> DEFINE B == Block
           k == j - 1
           q == k \div B
<1>1. B \in Nat \ {0} /\ k \in Nat
  BY ChaCha20Assumption
<1> HIDE DEF B, k
<1>2. (B * d + k) \div B = d + q /\ (B * d + k) % B = k % B
  BY <1>1, BehindRows, Zenon
<1>3. (B * d + j) - 1 = B * d + k
  <2> DEFINE x == B * d
  <2>1. x \in Int
    BY <1>1
  <2> HIDE DEF x
  <2>2. (x + j) - 1 = x + k
    BY <2>1 DEF k
  <2>3. QED
    BY <2>2 DEF x
<1>4. c + (d + q) = (c + d) + q
  <2>1. q \in Int
    BY <1>1
  <2> HIDE DEF q
  <2>2. QED
    BY <2>1
<1>5. QED
  BY <1>2, <1>3, <1>4, Zenon DEF StreamAt, B, k

\* What the properties say of that byte.
LEMMA StreamOf ==
  ASSUME NEW key, NEW nonce, NEW c \in Nat, NEW i \in Nat \ {0}
  PROVE  KeyStream(Input(key, nonce, (c + ((i - 1) \div Block)) % (Word * Word)))[((i - 1) % Block) + 1]
           = StreamAt(key, nonce, c, i)
<1> DEFINE D == Word * Word
           x == c + ((i - 1) \div Block)
           o == ((i - 1) % Block) + 1
<1>1. D \in Nat \ {0}
  BY CounterWords, Zenon
<1>2. x \in Nat /\ o \in 1 .. Block
  BY ChaCha20Assumption
<1> HIDE DEF D, x, o
<1>3. x % D \in Nat /\ (x % D) % D = x % D
  <2> DEFINE y == x % D
  <2>1. y \in 0 .. (D - 1)
    BY <1>1, <1>2
  <2> HIDE DEF y
  <2>2. y \in Nat /\ y % D = y
    BY <1>1, <2>1, Remainders
  <2>3. QED
    BY <2>2, Zenon DEF y
<1>4. Input(key, nonce, x % D) = Input(key, nonce, x)
  BY <1>2, <1>3, InputMod, Zenon DEF D
<1>5. KeyStream(Input(key, nonce, x))[o] = {<<"stream", Input(key, nonce, x), o>>}
  BY <1>2 DEF KeyStream
<1>6. QED
  BY <1>4, <1>5, Zenon DEF StreamAt, x, o, D

\* The three variants of one call, the key they use, the counter they add to the
\* caller's and the width of the one they return.
Call(v, text, nonce, c) ==
  IF v = "djb" THEN crypto_chacha20_djb(text, Key, nonce.tail, c)
  ELSE IF v = "x" THEN crypto_chacha20_x(text, Key, nonce, c)
  ELSE crypto_chacha20_ietf(text, Key, nonce, c)
CallKey(v, nonce) == IF v = "x" THEN crypto_chacha20_h(Key, nonce.head) ELSE Key
CallBase(v, nonce) == IF v = "ietf" THEN nonce.head * Word ELSE 0
CallModulus(v) == IF v = "ietf" THEN Word ELSE Word * Word

\* The bytes a text meets.
MetBy(text, key, nonce, c) == [i \in 1 .. Len(text) |-> Xor(text[i], StreamAt(key, nonce, c, i))]

LEMMA DjbIs ==
  ASSUME NEW key, NEW nonce, NEW c \in Nat, NEW text, IsText(text)
  PROVE  LET done == crypto_chacha20_djb(text, key, nonce, c)
         IN /\ done = [cipher |-> MetBy(text, key, nonce, c),
                       ctr |-> (c + BlocksOf(Block, Len(text))) % (Word * Word)]
<1> DEFINE done == crypto_chacha20_djb(text, key, nonce, c)
           n == Len(text)
           q == n \div Block
           r == n % Block
           e == IF r > 0 THEN 1 ELSE 0
<1>1. n \in Nat /\ Block \in Nat \ {0}
  BY TextIs, ChaCha20Assumption
<1>2. /\ done.cipher = [i \in 1 .. n |-> Xor(text[i], StreamAt(key, nonce, c, i))]
      /\ done.ctr = NextCounter(Input(key, nonce, c + q), r)
  <2>1. Len(text) \in Nat
    BY <1>1
  <2>2. QED
    BY <2>1, Stream, SMTT(60)
<1>3. done = [cipher |-> done.cipher, ctr |-> done.ctr]
  BY DEF crypto_chacha20_djb
<1>4. q \in Nat
  BY <1>1
<1> HIDE DEF done, q, r
<1>5. NextCounter(Input(key, nonce, c + q), r) = ((c + q) + e) % (Word * Word)
  <2> DEFINE d == c + q
  <2>1. d \in Nat
    BY <1>4
  <2> HIDE DEF d
  <2>2. NextCounter(Input(key, nonce, d), r) = (d + e) % (Word * Word)
    BY <2>1, CounterNext, Zenon
  <2>3. QED
    BY <2>2, Zenon DEF d
<1>6. (c + q) + e = c + (q + e)
  BY <1>4
<1>7. QED
  BY <1>2, <1>3, <1>5, <1>6, Zenon DEF MetBy, BlocksOf, done, q, r

LEMMA IetfCounter ==
  ASSUME NEW c \in Nat, NEW head \in Nat, NEW b \in Nat
  PROVE  /\ (c + head * Word) % (Word * Word) \in Nat
         /\ ((c + head * Word) % (Word * Word)) % (Word * Word) = (c + head * Word) % (Word * Word)
         /\ ((((c + head * Word) % (Word * Word)) + b) % (Word * Word)) % Word = (c + b) % Word
<1> DEFINE W == Word
           D == Word * Word
           x == c + head * W
           y == x % D
<1>1. W \in Nat \ {0} /\ D \in Nat \ {0}
  BY CounterWords, Zenon
<1>2. x \in Nat /\ W * head \in Nat /\ x = W * head + c
  <2> HIDE DEF W
  <2>1. QED
    BY <1>1
<1>3. x % W = c % W
  <2>1. (W * head + c) % W = c % W
    <3> HIDE DEF W
    <3>1. head \in Int /\ c \in Int
      OBVIOUS
    <3>2. QED
      BY <1>1, <3>1, Shifted
  <2>2. QED
    BY <1>2, <2>1, Zenon
<1> HIDE DEF x
<1>4. y \in Nat /\ y % D = y /\ y % W = x % W
  <2>1. (x % D) % W = x % W
    BY <1>2, CounterWords, Zenon
  <2> HIDE DEF D, W
  <2>2. x % D \in 0 .. (D - 1)
    BY <1>1, <1>2
  <2>3. y \in 0 .. (D - 1)
    BY <2>2
  <2>4. y % W = x % W
    BY <2>1
  <2> HIDE DEF y
  <2>5. y % D = y
    BY <1>1, <2>3, Remainders
  <2>6. QED
    BY <2>3, <2>4, <2>5
<1> HIDE DEF y
<1>5. ((y + b) % D) % W = (y + b) % W
  <2> DEFINE z == y + b
  <2>1. z \in Nat
    BY <1>4
  <2> HIDE DEF z
  <2>2. (z % D) % W = z % W
    BY <2>1, CounterWords, Zenon
  <2>3. QED
    BY <2>2, Zenon DEF z
<1> HIDE DEF D, W
<1>6. ((y % W) + b) % W = (y + b) % W /\ ((c % W) + b) % W = (c + b) % W
  BY <1>1, <1>4, ModSum, Zenon
<1>7. QED
  BY <1>3, <1>4, <1>5, <1>6, Zenon DEF y, x, W, D

Variants == {"djb", "x", "ietf"}

LEMMA CallIs ==
  ASSUME NEW v \in Variants, NEW nonce, nonce.head \in Nat, NEW c \in Nat, NEW text, IsText(text)
  PROVE  LET done == Call(v, text, nonce, c)
         IN /\ done.cipher = MetBy(text, CallKey(v, nonce), nonce.tail, c + CallBase(v, nonce))
            /\ done.ctr = (c + BlocksOf(Block, Len(text))) % CallModulus(v)
<1> DEFINE done == Call(v, text, nonce, c)
           b == BlocksOf(Block, Len(text))
<1>0. b \in Nat
  BY TextIs, ChaCha20Assumption, BlocksFilled
<1>1. CASE v = "djb"
  <2>1. done = crypto_chacha20_djb(text, Key, nonce.tail, c)
    BY <1>1 DEF Call
  <2>2. done = [cipher |-> MetBy(text, Key, nonce.tail, c), ctr |-> (c + b) % (Word * Word)]
    BY <2>1, DjbIs, Zenon
  <2>3. CallKey(v, nonce) = Key /\ CallBase(v, nonce) = 0 /\ CallModulus(v) = Word * Word
    BY <1>1 DEF CallKey, CallBase, CallModulus
  <2>4. c + 0 = c
    OBVIOUS
  <2> HIDE DEF done, b
  <2>5. done.cipher = MetBy(text, Key, nonce.tail, c) /\ done.ctr = (c + b) % (Word * Word)
    BY <2>2, Zenon
  <2>6. QED
    BY <2>3, <2>4, <2>5, Zenon DEF done, b
<1>2. CASE v = "x"
  <2> DEFINE key == crypto_chacha20_h(Key, nonce.head)
  <2>1. done = crypto_chacha20_djb(text, key, nonce.tail, c)
    BY <1>2 DEF Call, crypto_chacha20_x
  <2>2. done = [cipher |-> MetBy(text, key, nonce.tail, c), ctr |-> (c + b) % (Word * Word)]
    BY <2>1, DjbIs, Zenon
  <2>3. CallKey(v, nonce) = key /\ CallBase(v, nonce) = 0 /\ CallModulus(v) = Word * Word
    BY <1>2 DEF CallKey, CallBase, CallModulus
  <2>4. c + 0 = c
    OBVIOUS
  <2> HIDE DEF done, b, key
  <2>5. done.cipher = MetBy(text, key, nonce.tail, c) /\ done.ctr = (c + b) % (Word * Word)
    BY <2>2, Zenon
  <2>6. QED
    BY <2>3, <2>4, <2>5, Zenon DEF done, b
<1>3. CASE v = "ietf"
  <2> DEFINE x == c + nonce.head * Word
             d == x % (Word * Word)
             once == crypto_chacha20_djb(text, Key, nonce.tail, d)
  <2>1. done = [once EXCEPT !.ctr = @ % Word]
    BY <1>3 DEF Call, crypto_chacha20_ietf
  <2>2. d \in Nat /\ d % (Word * Word) = d /\ ((d + b) % (Word * Word)) % Word = (c + b) % Word
    BY <1>0, IetfCounter, Zenon
  <2>3. x \in Nat
    <3>1. Word \in Nat
      BY ChaCha20Assumption
    <3>2. QED
      BY <3>1
  <2>4. once = [cipher |-> MetBy(text, Key, nonce.tail, d), ctr |-> (d + b) % (Word * Word)]
    <3> HIDE DEF d
    <3>1. QED
      BY <2>2, DjbIs, Zenon
  <2>5. CallKey(v, nonce) = Key /\ CallBase(v, nonce) = nonce.head * Word /\ CallModulus(v) = Word
    BY <1>3 DEF CallKey, CallBase, CallModulus
  <2>6. d % (Word * Word) = x % (Word * Word)
    BY <2>2
  <2> HIDE DEF done, b, d, once
  <2>7. /\ done.cipher = MetBy(text, Key, nonce.tail, d)
        /\ done.ctr = ((d + b) % (Word * Word)) % Word
    BY <2>1, <2>4
  <2>8. MetBy(text, Key, nonce.tail, d) = MetBy(text, Key, nonce.tail, x)
    <3> HIDE DEF x
    <3>1. ASSUME NEW i \in 1 .. Len(text)
          PROVE  StreamAt(Key, nonce.tail, d, i) = StreamAt(Key, nonce.tail, x, i)
      <4>1. i \in Nat \ {0}
        BY TextIs
      <4>2. QED
        BY <2>2, <2>3, <2>6, <4>1, StreamSame
    <3>2. QED
      BY <3>1, Zenon DEF MetBy
  <2>9. QED
    BY <2>2, <2>5, <2>7, <2>8, Zenon DEF done, b
<1>4. QED
  BY <1>1, <1>2, <1>3 DEF Variants

LEMMA JoinsHead ==
  ASSUME NEW q, IsTexts(q), NEW msg, Joins(msg, q), NEW k \in 0 .. Len(q)
  PROVE  FlattenSeq(SubSeq(q, 1, k)) = msg[k]
<1> DEFINE p == SubSeq(q, 1, k)
<1>1. IsText(q) /\ Len(q) \in Nat
  BY TextIs DEF IsTexts
<1>2. IsText(p) /\ Len(p) = k /\ \A i \in 1 .. k : p[i] = q[i]
  BY <1>1, TextHead
<1>3. \A i \in 1 .. k : i \in 1 .. Len(q)
  BY <1>1
<1>4. \A i \in 1 .. Len(p) : IsText(p[i])
  BY <1>2, <1>3 DEF IsTexts
<1> HIDE DEF p
<1>5. PICK m : m[0] = <<>> /\ (\A i \in 1 .. Len(p) : m[i] = m[i - 1] \o p[i]) /\ m[Len(p)] = FlattenSeq(p)
  BY <1>2, <1>4, Joined, Zenon
<1> DEFINE T == {i \in 0 .. k : m[i] = msg[i]}
<1>6. k \in Nat
  BY <1>1
<1>7. 0 \in T
  BY <1>5, <1>6 DEF Joins
<1>8. ASSUME NEW i \in 0 .. (k - 1), i \in T
      PROVE  i + 1 \in T
  <2>1. i + 1 \in 1 .. k /\ (i + 1) - 1 = i /\ i + 1 \in 0 .. k /\ i + 1 \in 1 .. Len(q)
    BY <1>1, <1>6
  <2>2. m[i + 1] = m[i] \o p[i + 1]
    BY <1>2, <1>5, <2>1
  <2>3. msg[i + 1] = msg[i] \o q[i + 1]
    BY <2>1 DEF Joins
  <2>4. m[i] = msg[i] /\ p[i + 1] = q[i + 1]
    BY <1>2, <1>8, <2>1
  <2>5. QED
    BY <2>1, <2>2, <2>3, <2>4
<1>9. k \in T
  <2> HIDE DEF T
  <2>1. \A i \in 0 .. k : i \in T
    BY <1>6, <1>7, <1>8, InductionTo
  <2>2. QED
    BY <1>6, <2>1
<1>10. QED
  BY <1>2, <1>5, <1>9 DEF p

\* The recursion over the pieces of a text has a solution.
CallStep(v, last, piece, nonce) ==
  LET done == Call(v, piece, nonce, last.ctr)
  IN [cipher |-> last.cipher \o done.cipher, ctr |-> done.ctr]
Streams(g, v, pieces, nonce, c, m) ==
  g = [k \in 0 .. m |-> IF k = 0 THEN [cipher |-> <<>>, ctr |-> c]
                        ELSE CallStep(v, g[k - 1], pieces[k], nonce)]

LEMMA StreamedFunction ==
  ASSUME NEW v, NEW pieces, Len(pieces) \in Nat, NEW nonce, NEW c
  PROVE  \E g : Streams(g, v, pieces, nonce, c, Len(pieces))
<1> DEFINE n == Len(pieces)
           first == [cipher |-> <<>>, ctr |-> c]
           next(l, k) == CallStep(v, l, pieces[k], nonce)
           step(g, k) == IF k = 0 THEN first ELSE next(g[k - 1], k)
           Good(g, m) == g = [k \in 0 .. m |-> step(g, k)]
           T == {m \in 0 .. n : \E g : Good(g, m)}
<1>2. n \in Nat
  OBVIOUS
<1> HIDE DEF n, next, first
<1>3. 0 \in T
  <2> DEFINE h == [k \in 0 .. 0 |-> first]
  <2>1. \A k \in 0 .. 0 : h[k] = step(h, k)
    OBVIOUS
  <2>2. Good(h, 0)
    BY <2>1
  <2>3. 0 \in 0 .. n
    BY <1>2
  <2> HIDE DEF Good
  <2>4. QED
    BY <2>2, <2>3
<1>4. ASSUME NEW m \in 0 .. (n - 1), m \in T
      PROVE  m + 1 \in T
  <2>1. PICK g : Good(g, m)
    BY <1>4, Zenon
  <2> DEFINE h == [k \in 0 .. m + 1 |-> IF k <= m THEN g[k] ELSE next(g[m], m + 1)]
  <2>2. \A k \in 0 .. m : g[k] = step(g, k)
    BY <2>1
  <2>3. ASSUME NEW k \in 0 .. m + 1
        PROVE  h[k] = step(h, k)
    <3>1. CASE k \in 0 .. m
      <4>1. h[k] = g[k] /\ (k # 0 => h[k - 1] = g[k - 1])
        BY <1>2, <3>1
      <4> HIDE DEF h
      <4>2. QED
        BY <2>2, <3>1, <4>1
    <3>2. CASE k = m + 1
      <4>1. h[k] = next(g[m], k) /\ h[m] = g[m] /\ k # 0 /\ k - 1 = m
        BY <1>2, <3>2
      <4> HIDE DEF h
      <4>2. QED
        BY <4>1
    <3>3. k \in 0 .. m \/ k = m + 1
      BY <1>2
    <3>4. QED
      BY <3>1, <3>2, <3>3
  <2>4. Good(h, m + 1)
    BY <2>3
  <2>5. m + 1 \in 0 .. n
    BY <1>2
  <2> HIDE DEF Good
  <2>6. QED
    BY <2>4, <2>5
<1>5. \E g : Good(g, n)
  <2>1. n \in T
    <3> HIDE DEF T
    <3>1. \A m \in 0 .. n : m \in T
      BY <1>2, <1>3, <1>4, InductionTo
    <3>2. QED
      BY <1>2, <3>1
  <2>2. QED
    BY <2>1, Zenon
<1>6. QED
  BY <1>5, Zenon DEF Streams, next, first, n

\* The calls of the model are those of the three variants.
LEMMA StreamedIs ==
  ASSUME NEW pieces, Len(pieces) \in Nat, NEW nonce, NEW c
  PROVE  /\ \E g : /\ Streams(g, "djb", pieces, nonce, c, Len(pieces))
                   /\ Streamed(crypto_chacha20_djb, pieces, nonce.tail, c) = g[Len(pieces)]
         /\ \E g : /\ Streams(g, "x", pieces, nonce, c, Len(pieces))
                   /\ Streamed(crypto_chacha20_x, pieces, nonce, c) = g[Len(pieces)]
         /\ \E g : /\ Streams(g, "ietf", pieces, nonce, c, Len(pieces))
                   /\ Streamed(crypto_chacha20_ietf, pieces, nonce, c) = g[Len(pieces)]
<1> DEFINE n == Len(pieces)
           first == [cipher |-> <<>>, ctr |-> c]
           djb(l, k)  == LET last == crypto_chacha20_djb(pieces[k], Key, nonce.tail, l.ctr)
                         IN [cipher |-> l.cipher \o last.cipher, ctr |-> last.ctr]
           x(l, k)    == LET last == crypto_chacha20_x(pieces[k], Key, nonce, l.ctr)
                         IN [cipher |-> l.cipher \o last.cipher, ctr |-> last.ctr]
           ietf(l, k) == LET last == crypto_chacha20_ietf(pieces[k], Key, nonce, l.ctr)
                         IN [cipher |-> l.cipher \o last.cipher, ctr |-> last.ctr]
           IsDjb(g)  == g = [k \in 0 .. n |-> IF k = 0 THEN first ELSE djb(g[k - 1], k)]
           IsX(g)    == g = [k \in 0 .. n |-> IF k = 0 THEN first ELSE x(g[k - 1], k)]
           IsIetf(g) == g = [k \in 0 .. n |-> IF k = 0 THEN first ELSE ietf(g[k - 1], k)]
<1>1. /\ Streamed(crypto_chacha20_djb, pieces, nonce.tail, c) = (CHOOSE g : IsDjb(g))[n]
      /\ Streamed(crypto_chacha20_x, pieces, nonce, c) = (CHOOSE g : IsX(g))[n]
      /\ Streamed(crypto_chacha20_ietf, pieces, nonce, c) = (CHOOSE g : IsIetf(g))[n]
  BY Zenon DEF Streamed
<1>2. \A l, k : CallStep("djb", l, pieces[k], nonce) = djb(l, k)
  BY DEF CallStep, Call
<1>3. \A l, k : CallStep("x", l, pieces[k], nonce) = x(l, k)
  BY DEF CallStep, Call
<1>4. \A l, k : CallStep("ietf", l, pieces[k], nonce) = ietf(l, k)
  BY DEF CallStep, Call
<1> HIDE DEF djb, x, ietf
<1>5. \A g : Streams(g, "djb", pieces, nonce, c, n) <=> IsDjb(g)
  BY <1>2 DEF Streams
<1>6. \A g : Streams(g, "x", pieces, nonce, c, n) <=> IsX(g)
  BY <1>3 DEF Streams
<1>7. \A g : Streams(g, "ietf", pieces, nonce, c, n) <=> IsIetf(g)
  BY <1>4 DEF Streams
<1>8. (\E g : IsDjb(g)) /\ (\E g : IsX(g)) /\ (\E g : IsIetf(g))
  <2> HIDE DEF IsDjb, IsX, IsIetf
  <2>1. QED
    BY <1>5, <1>6, <1>7, StreamedFunction, Zenon
<1> HIDE DEF IsDjb, IsX, IsIetf
<1>9. IsDjb(CHOOSE g : IsDjb(g)) /\ IsX(CHOOSE g : IsX(g)) /\ IsIetf(CHOOSE g : IsIetf(g))
  BY <1>8, Zenon
<1>10. QED
  BY <1>1, <1>5, <1>6, <1>7, <1>9, Zenon

\* Each piece filled up: d[k] blocks for the first k of them.
FilledAs(d, pieces) ==
  /\ d[0] = 0
  /\ \A k \in 0 .. Len(pieces) : d[k] \in Nat /\ d[k] <= d[Len(pieces)]
  /\ \A k \in 1 .. Len(pieces) : d[k] = d[k - 1] + BlocksOf(Block, Len(pieces[k]))
  /\ \A k \in 1 .. Len(pieces) : Len(Filled(SubSeq(pieces, 1, k - 1))) = Block * d[k - 1]
  /\ Len(Filled(pieces)) = Block * d[Len(pieces)]
  /\ \A k \in 1 .. Len(pieces) : \A j \in 1 .. Len(pieces[k]) :
       Filled(pieces)[Block * d[k - 1] + j] = pieces[k][j]

\* One piece filled up to whole blocks.
FilledUp(piece) == piece \o Zeros(gap(Len(piece), Block))

LEMMA FilledUpIs ==
  ASSUME NEW p, IsText(p)
  PROVE  /\ IsText(FilledUp(p)) /\ Len(FilledUp(p)) = Block * BlocksOf(Block, Len(p))
         /\ BlocksOf(Block, Len(p)) \in Nat
         /\ \A j \in 1 .. Len(p) : FilledUp(p)[j] = p[j] /\ j \in 1 .. Len(FilledUp(p))
<1> DEFINE n == Len(p)
           g == gap(n, Block)
           z == Zeros(g)
<1>1. n \in Nat /\ Block \in Nat \ {0}
  BY TextIs, ChaCha20Assumption
<1>2. g \in Nat /\ n + g = Block * BlocksOf(Block, n) /\ BlocksOf(Block, n) \in Nat
  <2> HIDE DEF n
  <2>1. QED
    BY <1>1, BlocksFilled DEF gap
<1> HIDE DEF g
<1>3. IsText(z) /\ Len(z) = g
  <2>1. z = [i \in 1 .. g |-> z[i]]
    BY DEF Zeros
  <2>2. QED
    BY <1>2, <2>1, TextFrom
<1> HIDE DEF z
<1>4. /\ IsText(p \o z) /\ Len(p \o z) = n + g
      /\ \A j \in 1 .. n : (p \o z)[j] = p[j]
  BY <1>3, TextConcat
<1>5. \A j \in 1 .. n : j \in 1 .. n + g
  BY <1>1, <1>2
<1>6. QED
  BY <1>2, <1>4, <1>5, Zenon DEF FilledUp, z, g, n

LEMMA FilledIs ==
  ASSUME NEW pieces, IsTexts(pieces)
  PROVE  \E d : FilledAs(d, pieces)
<1> DEFINE n == Len(pieces)
           q == [k \in 1 .. n |-> FilledUp(pieces[k])]
           b(k) == BlocksOf(Block, Len(pieces[k]))
<1>1. n \in Nat /\ DOMAIN pieces = 1 .. n /\ IsText(pieces) /\ \A k \in 1 .. n : IsText(pieces[k])
  BY TextIs DEF IsTexts
<1>2. Block \in Nat \ {0}
  BY ChaCha20Assumption
<1>3. IsText(q) /\ Len(q) = n /\ \A k \in 1 .. n : q[k] = FilledUp(pieces[k])
  <2> HIDE DEF n
  <2>1. q = [k \in 1 .. n |-> q[k]]
    OBVIOUS
  <2>2. QED
    BY <1>1, <2>1, TextFrom
<1>4. Filled(pieces) = FlattenSeq(q)
  BY <1>1 DEF Filled, FilledUp
<1> HIDE DEF n, q
<1>5. \A k \in 1 .. n : /\ IsText(q[k]) /\ Len(q[k]) = Block * b(k) /\ b(k) \in Nat
                        /\ \A j \in 1 .. Len(pieces[k]) : q[k][j] = pieces[k][j] /\ j \in 1 .. Len(q[k])
  <2>1. ASSUME NEW k \in 1 .. n
        PROVE  /\ IsText(q[k]) /\ Len(q[k]) = Block * b(k) /\ b(k) \in Nat
               /\ \A j \in 1 .. Len(pieces[k]) : q[k][j] = pieces[k][j] /\ j \in 1 .. Len(q[k])
    <3> DEFINE p == pieces[k]
    <3>1. IsText(p) /\ q[k] = FilledUp(p)
      BY <1>1, <1>3
    <3> HIDE DEF p
    <3>2. /\ IsText(FilledUp(p)) /\ Len(FilledUp(p)) = Block * BlocksOf(Block, Len(p))
          /\ BlocksOf(Block, Len(p)) \in Nat
          /\ \A j \in 1 .. Len(p) : FilledUp(p)[j] = p[j] /\ j \in 1 .. Len(FilledUp(p))
      BY <3>1, FilledUpIs, Zenon
    <3>3. QED
      BY <3>1, <3>2, Zenon DEF p
  <2>2. QED
    BY <2>1
<1>6. IsTexts(q)
  BY <1>3, <1>5 DEF IsTexts
<1>7. PICK m : Joins(m, q) /\ m[n] = FlattenSeq(q)
  <2>1. PICK m : m[0] = <<>> /\ (\A k \in 1 .. Len(q) : m[k] = m[k - 1] \o q[k]) /\ m[Len(q)] = FlattenSeq(q)
    BY <1>6, Joined, Zenon DEF IsTexts
  <2>2. QED
    BY <1>3, <2>1, Zenon DEF Joins
<1>8. ASSUME NEW k \in 0 .. n
      PROVE  Filled(SubSeq(pieces, 1, k)) = m[k]
  <2> DEFINE p == SubSeq(pieces, 1, k)
             s == SubSeq(q, 1, k)
             f == [i \in 1 .. k |-> FilledUp(p[i])]
  <2>1. IsText(p) /\ Len(p) = k /\ (\A i \in 1 .. k : p[i] = pieces[i]) /\ k \in Nat
    <3>1. k \in 0 .. Len(pieces)
      BY DEF n
    <3>2. QED
      BY <1>1, <3>1, TextHead
  <2>2. IsText(s) /\ Len(s) = k /\ \A i \in 1 .. k : s[i] = q[i]
    <3>1. k \in 0 .. Len(q)
      BY <1>3
    <3>2. QED
      BY <1>3, <3>1, TextHead
  <2> HIDE DEF p, s
  <2>3. DOMAIN p = 1 .. k
    BY <2>1, TextIs
  <2>4. Filled(p) = FlattenSeq(f)
    BY <2>3 DEF Filled, FilledUp
  <2>5. \A i \in 1 .. k : f[i] = s[i]
    BY <1>1, <1>3, <2>1, <2>2
  <2>6. IsText(f) /\ Len(f) = k
    <3>1. f = [i \in 1 .. k |-> f[i]]
      OBVIOUS
    <3> HIDE DEF f
    <3>2. QED
      BY <2>1, <3>1, TextFrom
  <2> HIDE DEF f
  <2>7. f = s
    BY <2>2, <2>5, <2>6, TextEqual
  <2>8. FlattenSeq(s) = m[k]
    <3>1. k \in 0 .. Len(q)
      BY <1>3
    <3>2. QED
      BY <1>6, <1>7, <3>1, JoinsHead, Zenon DEF s
  <2>9. QED
    BY <2>4, <2>7, <2>8, Zenon DEF p
<1> DEFINE d == [k \in 0 .. n |-> Len(m[k]) \div Block]
           T == {k \in 0 .. n : Len(m[k]) = Block * d[k] /\ d[k] \in Nat}
<1>9. /\ \A k \in 0 .. n : IsText(m[k])
      /\ \A k \in 1 .. n : Longer(m, q, k)
  BY <1>3, <1>6, <1>7, JoinsLengths
<1>10. \A y \in Nat : (Block * y) \div Block = y
  <2>1. ASSUME NEW y \in Nat
        PROVE  (Block * y) \div Block = y
    <3>1. 0 \in 0 .. (Block - 1) /\ y \in Int
      BY <1>2
    <3>2. (Block * y + 0) \div Block = y
      BY <1>2, <3>1, Division
    <3>3. Block * y + 0 = Block * y
      BY <1>2
    <3>4. QED
      BY <3>2, <3>3, Zenon
  <2>2. QED
    BY <2>1
<1>11. 0 \in T /\ d[0] = 0
  <2>1. Len(m[0]) = 0 /\ 0 \in 0 .. n
    BY <1>1, <1>7, EmptyText DEF Joins
  <2>2. d[0] = Len(m[0]) \div Block
    BY <2>1
  <2> HIDE DEF d
  <2>3. Block * 0 = 0 /\ 0 \in Nat
    BY <1>2
  <2>4. d[0] = 0
    BY <1>10, <2>1, <2>2, <2>3, Zenon
  <2>5. QED
    BY <2>1, <2>3, <2>4, Zenon
<1>12. ASSUME NEW k \in 0 .. (n - 1), k \in T
       PROVE  k + 1 \in T /\ d[k + 1] = d[k] + b(k + 1)
  <2>1. k + 1 \in 1 .. n /\ (k + 1) - 1 = k /\ k + 1 \in 0 .. n
    BY <1>1
  <2>2. Len(m[k + 1]) = Len(m[k]) + Len(q[k + 1])
    BY <1>9, <2>1, Zenon DEF Longer
  <2>3. Len(m[k]) = Block * d[k] /\ d[k] \in Nat
    BY <1>12
  <2>4. d[k + 1] = Len(m[k + 1]) \div Block
    BY <2>1
  <2> HIDE DEF d
  <2>5. Len(q[k + 1]) = Block * b(k + 1) /\ b(k + 1) \in Nat
    BY <1>5, <2>1
  <2> HIDE DEF b
  <2>6. Block * (d[k] + b(k + 1)) = Block * d[k] + Block * b(k + 1) /\ d[k] + b(k + 1) \in Nat
    <3> DEFINE u == d[k]
               w == b(k + 1)
    <3>1. u \in Nat /\ w \in Nat
      BY <2>3, <2>5
    <3> HIDE DEF u, w
    <3>2. Block * (u + w) = Block * u + Block * w /\ u + w \in Nat
      BY <1>2, <3>1
    <3>3. QED
      BY <3>2, Zenon DEF u, w
  <2>7. Len(m[k + 1]) = Block * (d[k] + b(k + 1))
    BY <2>2, <2>3, <2>5, <2>6, Zenon
  <2>8. d[k + 1] = d[k] + b(k + 1)
    BY <1>10, <2>4, <2>6, <2>7, Zenon
  <2>9. QED
    BY <2>1, <2>6, <2>7, <2>8, Zenon
<1>13. \A k \in 0 .. n : k \in T
  <2>1. \A k \in 0 .. (n - 1) : k \in T => k + 1 \in T
    BY <1>12
  <2> HIDE DEF T, d
  <2>2. QED
    BY <1>1, <1>11, <2>1, InductionTo
<1>14. \A k \in 0 .. n : Len(m[k]) = Block * d[k] /\ d[k] \in Nat
  BY <1>13
<1>15. ASSUME NEW k \in 1 .. n
       PROVE  d[k] = d[k - 1] + b(k)
  <2>1. k - 1 \in 0 .. (n - 1) /\ (k - 1) + 1 = k /\ k - 1 \in 0 .. n
    BY <1>1
  <2> HIDE DEF T, d, b
  <2>2. QED
    BY <1>12, <1>13, <2>1
<1>16. ASSUME NEW k \in 0 .. n
       PROVE  d[k] <= d[n]
  <2>1. CASE k = 0
    <3>1. d[n] \in Nat
      BY <1>1, <1>14
    <3> HIDE DEF d
    <3>2. QED
      BY <1>11, <2>1, <3>1
  <2>2. CASE k # 0
    <3>1. k \in 1 .. Len(q)
      BY <1>1, <1>3, <2>2
    <3>2. Len(m[k]) <= Len(m[n])
      BY <1>3, <1>6, <1>7, <3>1, JoinsPlaces
    <3>3. d[k] = Len(m[k]) \div Block /\ d[n] = Len(m[n]) \div Block
      BY <1>1
    <3> HIDE DEF d
    <3>4. Len(m[k]) \in Nat /\ Len(m[n]) \in Nat /\ d[k] \in Nat /\ d[n] \in Nat
      BY <1>1, <1>9, <1>14, TextIs
    <3>5. d[k] \in 0 .. d[n]
      BY <1>2, <3>2, <3>3, <3>4, QuotientsGrow
    <3>6. QED
      BY <3>4, <3>5
  <2>3. QED
    BY <2>1, <2>2
<1>17. ASSUME NEW k \in 1 .. n
       PROVE  Len(Filled(SubSeq(pieces, 1, k - 1))) = Block * d[k - 1]
  <2>1. k - 1 \in 0 .. n
    BY <1>1
  <2> HIDE DEF d
  <2>2. QED
    BY <1>8, <1>14, <2>1
<1>18. ASSUME NEW k \in 1 .. n, NEW j \in 1 .. Len(pieces[k])
       PROVE  Filled(pieces)[Block * d[k - 1] + j] = pieces[k][j]
  <2>1. k - 1 \in 0 .. n /\ k \in 1 .. Len(q)
    BY <1>1, <1>3
  <2>2. q[k][j] = pieces[k][j] /\ j \in 1 .. Len(q[k])
    BY <1>5
  <2>3. m[Len(q)][Len(m[k - 1]) + j] = q[k][j]
    BY <1>6, <1>7, <2>1, <2>2, JoinsPlaces
  <2> HIDE DEF d
  <2>4. QED
    BY <1>3, <1>4, <1>7, <1>14, <2>1, <2>2, <2>3, Zenon
<1>19. Len(Filled(pieces)) = Block * d[n]
  <2> HIDE DEF d
  <2>1. n \in 0 .. n
    BY <1>1
  <2>2. QED
    BY <1>4, <1>7, <1>14, <2>1, Zenon
<1> HIDE DEF d
<1>20. FilledAs(d, pieces)
  BY <1>11, <1>14, <1>15, <1>16, <1>17, <1>18, <1>19 DEF FilledAs, n
<1>21. QED
  BY <1>20

\* The pieces each meet the blocks behind those of the pieces before.
MetPieces(pieces, key, nonce, c, d) ==
  [k \in 1 .. Len(pieces) |-> MetBy(pieces[k], key, nonce, c + d[k - 1])]

LEMMA MetIsText ==
  ASSUME NEW text, IsText(text), NEW key, NEW nonce, NEW c
  PROVE  IsText(MetBy(text, key, nonce, c)) /\ Len(MetBy(text, key, nonce, c)) = Len(text)
<1> DEFINE f == MetBy(text, key, nonce, c)
<1>1. Len(text) \in Nat
  BY TextIs
<1>2. f = [i \in 1 .. Len(text) |-> f[i]]
  BY DEF MetBy
<1> HIDE DEF f
<1>3. IsText(f) /\ Len(f) = Len(text)
  BY <1>1, <1>2, TextFrom, Zenon
<1>4. QED
  BY <1>3 DEF f

LEMMA StreamBytesIs ==
  ASSUME NEW pieces, IsTexts(pieces), NEW d, FilledAs(d, pieces), NEW key, NEW nonce, NEW c \in Nat
  PROVE  StreamBytes(pieces, key, nonce, c) = FlattenSeq(MetPieces(pieces, key, nonce, c, d))
<1> DEFINE n == Len(pieces)
           text  == Filled(pieces)
           start == [k \in DOMAIN pieces |-> Len(Filled(SubSeq(pieces, 1, k - 1)))]
           counter(i) == (c + ((i - 1) \div Block)) % (Word * Word)
           byte(i) == Xor(text[i], KeyStream(Input(key, nonce, counter(i)))[((i - 1) % Block) + 1])
           f == [k \in DOMAIN pieces |-> [i \in 1 .. Len(pieces[k]) |-> byte(start[k] + i)]]
<1>1. n \in Nat /\ DOMAIN pieces = 1 .. n /\ \A k \in 1 .. n : Len(pieces[k]) \in Nat
  BY TextIs DEF IsTexts
<1>2. Block \in Nat \ {0}
  BY ChaCha20Assumption
<1>3. ASSUME NEW k \in 1 .. n, NEW i \in 1 .. Len(pieces[k])
      PROVE  byte(start[k] + i) = Xor(pieces[k][i], StreamAt(key, nonce, c + d[k - 1], i))
  <2> DEFINE e == d[k - 1]
             x == Block * e
             y == x + i
  <2>1. e \in Nat /\ start[k] = x /\ i \in Nat \ {0}
    <3>1. k - 1 \in 0 .. n
      BY <1>1
    <3>2. d[k - 1] \in Nat /\ Len(Filled(SubSeq(pieces, 1, k - 1))) = Block * d[k - 1]
      BY <3>1 DEF FilledAs
    <3>3. start[k] = Len(Filled(SubSeq(pieces, 1, k - 1))) /\ i \in Nat \ {0}
      BY <1>1
    <3> HIDE DEF start
    <3>4. QED
      BY <3>2, <3>3
  <2>2. text[y] = pieces[k][i]
    <3> HIDE DEF text
    <3>1. \A l \in 1 .. n : \A j \in 1 .. Len(pieces[l]) : text[Block * d[l - 1] + j] = pieces[l][j]
      BY Zenon DEF FilledAs, text
    <3>2. QED
      BY <3>1, Zenon
  <2> HIDE DEF e, start, text
  <2>3. x \in Nat
    BY <1>2, <2>1
  <2> HIDE DEF x
  <2>4. y \in Nat \ {0}
    BY <2>1, <2>3
  <2> HIDE DEF y
  <2>5. KeyStream(Input(key, nonce, counter(y)))[((y - 1) % Block) + 1] = StreamAt(key, nonce, c, y)
    BY <2>4, StreamOf, Zenon
  <2>6. StreamAt(key, nonce, c, Block * e + i) = StreamAt(key, nonce, c + e, i)
    <3>1. e \in Nat /\ i \in Nat \ {0}
      BY <2>1, Zenon
    <3>2. QED
      BY <3>1, StreamBehind
  <2>7. byte(y) = Xor(pieces[k][i], StreamAt(key, nonce, c + e, i))
    BY <2>2, <2>5, <2>6, Zenon DEF x, y
  <2>8. QED
    BY <2>1, <2>7, Zenon DEF y, e
<1>4. StreamBytes(pieces, key, nonce, c) = FlattenSeq(f)
  BY Zenon DEF StreamBytes
<1> HIDE DEF byte, start
<1>5. \A k \in 1 .. n : f[k] = MetBy(pieces[k], key, nonce, c + d[k - 1])
  BY <1>1, <1>3 DEF MetBy
<1>6. f = [k \in 1 .. n |-> f[k]]
  BY <1>1
<1> HIDE DEF f
<1>7. f = MetPieces(pieces, key, nonce, c, d)
  BY <1>5, <1>6 DEF MetPieces, n
<1>8. QED
  BY <1>4, <1>7, Zenon

\* What one call does at the place where its text stands.
CallAt(v, piece, nonce, c, ctr, e) ==
  /\ Call(v, piece, nonce, ctr).cipher
       = MetBy(piece, CallKey(v, nonce), nonce.tail, (c + CallBase(v, nonce)) + e)
  /\ Call(v, piece, nonce, ctr).ctr = (c + (e + BlocksOf(Block, Len(piece)))) % CallModulus(v)

LEMMA CallContinues ==
  ASSUME NEW v \in Variants, NEW nonce, nonce.head \in Nat, NEW c \in Nat, NEW e \in Nat,
         NEW piece, IsText(piece),
         v = "ietf" => c + (e + BlocksOf(Block, Len(piece))) <= Word
  PROVE  CallAt(v, piece, nonce, c, (c + e) % CallModulus(v), e)
<1> DEFINE M == CallModulus(v)
           K == CallKey(v, nonce)
           B == CallBase(v, nonce)
           n == Len(piece)
           b == BlocksOf(Block, n)
           y == c + e
           ctr == y % M
           x == ctr + B
           z == (c + B) + e
<1>1. Word \in Nat \ {0} /\ M \in Nat \ {0} /\ n \in Nat /\ Block \in Nat \ {0}
  BY CounterWords, TextIs, ChaCha20Assumption DEF CallModulus
<1>2. B \in Nat
  BY <1>1 DEF CallBase
<1>3. b \in Nat /\ \A i \in 1 .. n : (i - 1) \div Block \in 0 .. (b - 1)
  <2> HIDE DEF n
  <2>1. QED
    BY <1>1, BlocksFilled
<1>4. y \in Nat
  OBVIOUS
<1>5. ctr \in Nat
  <2> HIDE DEF M, y
  <2>1. QED
    BY <1>1, <1>4
<1>6. /\ Call(v, piece, nonce, ctr).cipher = MetBy(piece, K, nonce.tail, ctr + B)
      /\ Call(v, piece, nonce, ctr).ctr = (ctr + b) % M
  <2> HIDE DEF ctr
  <2>1. QED
    BY <1>5, CallIs, Zenon
<1>7. ((y % M) + b) % M = (y + b) % M /\ y + b = c + (e + b)
  <2>1. ((y % M) + b) % M = (y + b) % M
    <3> HIDE DEF M, b, y
    <3>1. QED
      BY <1>1, <1>3, <1>4, ModSum, Zenon
  <2> HIDE DEF b
  <2>2. y + b = c + (e + b)
    BY <1>3
  <2>3. QED
    BY <2>1, <2>2
<1>8. x \in Nat /\ z \in Nat
  <2> HIDE DEF ctr, B
  <2>1. QED
    BY <1>2, <1>5
<1>9. n # 0 => x % (Word * Word) = z % (Word * Word)
  <2>1. CASE v = "ietf"
    <3>1. ASSUME n # 0
          PROVE  ctr = y
      <4> HIDE DEF b, n
      <4>1. 1 \in 1 .. n
        BY <1>1, <3>1
      <4>2. (1 - 1) \div Block \in 0 .. (b - 1)
        BY <1>3, <4>1
      <4>3. b >= 1
        BY <1>3, <4>2
      <4>4. y \in 0 .. (M - 1)
        <5>1. M = Word /\ c + (e + b) <= Word
          BY <2>1 DEF CallModulus, b, n
        <5> HIDE DEF M
        <5>2. QED
          BY <1>1, <1>3, <4>3, <5>1
      <4> HIDE DEF y, M
      <4>5. QED
        BY <1>1, <4>4, Remainders
    <3> HIDE DEF ctr, B
    <3>2. n # 0 => x = z
      BY <1>2, <3>1
    <3>3. QED
      BY <3>2, Zenon
  <2>2. CASE v # "ietf"
    <3>1. B = 0 /\ M = Word * Word
      BY <2>2 DEF CallBase, CallModulus
    <3> HIDE DEF B, M
    <3>2. x = ctr /\ z = y
      <4> HIDE DEF ctr
      <4>1. QED
        BY <1>5, <3>1
    <3>3. ctr \in 0 .. (M - 1)
      <4> HIDE DEF y
      <4>1. QED
        BY <1>1, <1>4
    <3> HIDE DEF x, z
    <3>4. ctr % M = ctr
      <4> HIDE DEF ctr
      <4>1. QED
        BY <1>1, <3>3, Remainders
    <3>5. QED
      BY <3>1, <3>2, <3>4, Zenon DEF ctr
  <2>3. QED
    BY <2>1, <2>2
<1> HIDE DEF x, z, B, ctr, M, K, b, n
<1>10. MetBy(piece, K, nonce.tail, x) = MetBy(piece, K, nonce.tail, z)
  <2>1. ASSUME NEW i \in 1 .. n
        PROVE  StreamAt(K, nonce.tail, x, i) = StreamAt(K, nonce.tail, z, i)
    <3>1. i \in Nat \ {0} /\ n # 0
      BY <1>1
    <3>2. QED
      BY <1>8, <1>9, <3>1, StreamSame
  <2>2. QED
    BY <2>1, Zenon DEF MetBy, n
<1>11. QED
  BY <1>6, <1>7, <1>10, Zenon DEF CallAt, x, z, B, ctr, y, M, K, b, n

\* All the calls together: the text of every piece, and the counter behind the last.
LEMMA StreamPieces ==
  ASSUME NEW v \in Variants, NEW nonce, nonce.head \in Nat, NEW c \in 0 .. (CallModulus(v) - 1),
         NEW pieces, IsTexts(pieces), NEW d, FilledAs(d, pieces),
         v = "ietf" => c + d[Len(pieces)] <= Word,
         NEW g, Streams(g, v, pieces, nonce, c, Len(pieces))
  PROVE  /\ g[Len(pieces)].cipher
              = StreamBytes(pieces, CallKey(v, nonce), nonce.tail, c + CallBase(v, nonce))
         /\ g[Len(pieces)].ctr = (c + d[Len(pieces)]) % CallModulus(v)
<1> DEFINE n == Len(pieces)
           M == CallModulus(v)
           key == CallKey(v, nonce)
           from == c + CallBase(v, nonce)
           q == MetPieces(pieces, key, nonce.tail, from, d)
<1>1. /\ n \in Nat /\ \A k \in 1 .. n : IsText(pieces[k])
      /\ Word \in Nat \ {0} /\ M \in Nat \ {0}
  BY TextIs, CounterWords DEF IsTexts, CallModulus
<1>2. c \in Nat /\ from \in Nat
  <2>1. CallBase(v, nonce) \in Nat
    BY <1>1 DEF CallBase
  <2> HIDE DEF M
  <2>2. c \in Nat
    BY <1>1
  <2>3. QED
    BY <2>1, <2>2
<1>3. StreamBytes(pieces, key, nonce.tail, from) = FlattenSeq(q)
  <2> HIDE DEF from
  <2>1. QED
    BY <1>2, StreamBytesIs, Zenon
<1>4. \A k \in 1 .. n : q[k] = MetBy(pieces[k], key, nonce.tail, from + d[k - 1])
  BY DEF MetPieces
<1>5. IsText(q) /\ Len(q) = n
  <2>1. q = [k \in 1 .. n |-> q[k]]
    BY DEF MetPieces
  <2> HIDE DEF q, n
  <2>2. QED
    BY <1>1, <2>1, TextFrom
<1> HIDE DEF q, from
<1>6. \A k \in 1 .. Len(q) : IsText(q[k])
  BY <1>1, <1>4, <1>5, MetIsText
<1>7. PICK m : m[0] = <<>> /\ (\A k \in 1 .. Len(q) : m[k] = m[k - 1] \o q[k]) /\ m[Len(q)] = FlattenSeq(q)
  BY <1>5, <1>6, Joined, Zenon
<1>8. /\ \A k \in 0 .. n : d[k] \in Nat /\ d[k] <= d[n]
      /\ \A k \in 1 .. n : d[k] = d[k - 1] + BlocksOf(Block, Len(pieces[k]))
      /\ d[0] = 0
  BY Zenon DEF FilledAs
<1>9. /\ g[0] = [cipher |-> <<>>, ctr |-> c]
      /\ \A k \in 1 .. n : g[k] = CallStep(v, g[k - 1], pieces[k], nonce)
  <2>1. g = [k \in 0 .. n |-> IF k = 0 THEN [cipher |-> <<>>, ctr |-> c]
                              ELSE CallStep(v, g[k - 1], pieces[k], nonce)]
    BY Zenon DEF Streams
  <2>2. \A k \in 1 .. n : k \in 0 .. n /\ k # 0
    BY <1>1
  <2>3. 0 \in 0 .. n
    BY <1>1
  <2> HIDE DEF n
  <2>4. QED
    BY <2>1, <2>2, <2>3
<1>10. v = "ietf" => c + d[n] <= Word
  OBVIOUS
<1> HIDE DEF n, key
<1> DEFINE T == {k \in 0 .. n : g[k].cipher = m[k] /\ g[k].ctr = (c + d[k]) % M}
<1>11. 0 \in T
  <2>1. 0 \in 0 .. n
    BY <1>1
  <2>2. c % M = c
    <3>1. c \in 0 .. (M - 1)
      OBVIOUS
    <3> HIDE DEF M
    <3>2. QED
      BY <1>1, <3>1, Remainders
  <2>3. c + d[0] = c
    BY <1>2, <1>8
  <2>4. g[0].cipher = m[0] /\ g[0].ctr = c
    BY <1>7, <1>9
  <2>5. QED
    BY <2>1, <2>2, <2>3, <2>4
<1>12. ASSUME NEW k \in 0 .. (n - 1), k \in T
       PROVE  k + 1 \in T
  <2> DEFINE p == pieces[k + 1]
             e == d[k]
             done == Call(v, p, nonce, g[k].ctr)
             b == BlocksOf(Block, Len(p))
  <2>1. k + 1 \in 1 .. n /\ (k + 1) - 1 = k /\ k + 1 \in 0 .. n /\ k \in 0 .. n
    BY <1>1
  <2>2. IsText(p) /\ e \in Nat /\ d[k + 1] = e + b /\ d[k + 1] \in Nat /\ d[k + 1] <= d[n] /\ d[n] \in Nat
    <3>1. n \in 0 .. n
      BY <1>1
    <3> HIDE DEF b
    <3>2. d[k + 1] = d[(k + 1) - 1] + b
      BY <1>8, <2>1, Zenon DEF b
    <3>3. QED
      BY <1>1, <1>8, <2>1, <3>1, <3>2
  <2>3. g[k].cipher = m[k] /\ g[k].ctr = (c + e) % M
    BY <1>12
  <2>4. g[k + 1] = [cipher |-> g[k].cipher \o done.cipher, ctr |-> done.ctr]
    BY <1>9, <2>1 DEF CallStep
  <2>5. m[k + 1] = m[k] \o q[k + 1] /\ q[k + 1] = MetBy(p, key, nonce.tail, from + e)
    BY <1>4, <1>5, <1>7, <2>1
  <2> HIDE DEF b, e, p, T
  <2>6. v = "ietf" => c + (e + b) <= Word
    BY <1>1, <1>2, <1>10, <2>2
  <2>7. CallAt(v, p, nonce, c, (c + e) % M, e)
    BY <1>2, <2>2, <2>6, CallContinues, Zenon DEF b
  <2>8. done.cipher = MetBy(p, key, nonce.tail, from + e) /\ done.ctr = (c + (e + b)) % M
    BY <2>3, <2>7, Zenon DEF CallAt, key, from, b
  <2> HIDE DEF done, M
  <2>9. g[k + 1].cipher = m[k + 1] /\ g[k + 1].ctr = (c + d[k + 1]) % M
    <3>1. g[k + 1].cipher = g[k].cipher \o done.cipher /\ g[k + 1].ctr = done.ctr
      <4> DEFINE x == g[k].cipher \o done.cipher
                 y == done.ctr
                 h == g[k + 1]
      <4>1. h = [cipher |-> x, ctr |-> y]
        BY <2>4
      <4> HIDE DEF x, y, h
      <4>2. h.cipher = x /\ h.ctr = y
        BY <4>1
      <4>3. QED
        BY <4>2 DEF x, y, h
    <3>2. QED
      BY <2>2, <2>3, <2>5, <2>8, <3>1, Zenon
  <2>10. QED
    BY <2>1, <2>9 DEF T
<1>13. n \in T
  <2> HIDE DEF T
  <2>1. \A k \in 0 .. n : k \in T
    BY <1>1, <1>11, <1>12, InductionTo
  <2>2. QED
    BY <1>1, <2>1
<1>14. g[n].cipher = FlattenSeq(q) /\ g[n].ctr = (c + d[n]) % M
  BY <1>5, <1>7, <1>13
<1>15. QED
  BY <1>3, <1>14, Zenon DEF n, M, key, from

\* The last call of a cipher is one of the texts, one piece after the other.
StreamCall ==
  call.of \in Variants =>
    /\ call.pieces \in Texts /\ call.nonce \in Nonces
    /\ call.ctr \in 0 .. (CallModulus(call.of) - 1)
    /\ \E g : /\ Streams(g, call.of, call.pieces, call.nonce, call.ctr, Len(call.pieces))
              /\ call.result = g[Len(call.pieces)]

\* However a text is cut into pieces, each variant meets consecutive blocks of key stream
\* with it, a new one for each piece, and returns the counter behind the last, across the
\* carry between the two words of the counter.
THEOREM StreamsAreExact == Spec => []StreamExact
<1>1. Init => StreamCall
  BY DEF Init, StreamCall, Variants
<1>2. StreamCall /\ [Next]_vars => StreamCall'
  <2> SUFFICES ASSUME StreamCall, [Next]_vars
               PROVE  StreamCall'
    OBVIOUS
  <2>1. CASE Open
    BY <2>1 DEF Open, StreamCall
  <2>2. CASE Write
    BY <2>2 DEF Write, StreamCall
  <2>3. CASE Read
    BY <2>3 DEF Read, StreamCall
  <2>4. CASE CallChaCha20
    <3> DEFINE Made(v, c, pieces, nonce, result) ==
                 call' = [of |-> v, pieces |-> pieces, nonce |-> nonce, ctr |-> c, result |-> result]
    <3>1. PICK pieces \in Texts, nonce \in Nonces :
            \/ \E c \in 0 .. (Word * Word - 1) :
                 \/ Made("djb", c, pieces, nonce, Streamed(crypto_chacha20_djb, pieces, nonce.tail, c))
                 \/ Made("x", c, pieces, nonce, Streamed(crypto_chacha20_x, pieces, nonce, c))
            \/ \E c \in 0 .. (Word - 1) :
                 Made("ietf", c, pieces, nonce, Streamed(crypto_chacha20_ietf, pieces, nonce, c))
      BY <2>4, Zenon DEF CallChaCha20
    <3>2. Len(pieces) \in Nat
      BY SessionTexts, TextIs
    <3>3. ASSUME NEW v \in Variants, NEW c \in 0 .. (CallModulus(v) - 1), NEW result,
                 Made(v, c, pieces, nonce, result),
                 \E g : Streams(g, v, pieces, nonce, c, Len(pieces)) /\ result = g[Len(pieces)]
          PROVE  StreamCall'
      <4>1. /\ call'.of = v /\ call'.pieces = pieces /\ call'.nonce = nonce /\ call'.ctr = c
            /\ call'.result = result
        BY <3>3
      <4>2. QED
        BY <3>3, <4>1, Zenon DEF StreamCall
    <3> HIDE DEF Made
    <3>4. ASSUME NEW c \in 0 .. (Word * Word - 1),
                 Made("djb", c, pieces, nonce, Streamed(crypto_chacha20_djb, pieces, nonce.tail, c))
          PROVE  StreamCall'
      <4>1. "djb" \in Variants /\ CallModulus("djb") = Word * Word
        BY DEF Variants, CallModulus
      <4>2. QED
        BY <3>2, <3>3, <3>4, <4>1, StreamedIs, ZenonT(60)
    <3>5. ASSUME NEW c \in 0 .. (Word * Word - 1),
                 Made("x", c, pieces, nonce, Streamed(crypto_chacha20_x, pieces, nonce, c))
          PROVE  StreamCall'
      <4>1. "x" \in Variants /\ CallModulus("x") = Word * Word
        BY DEF Variants, CallModulus
      <4>2. QED
        BY <3>2, <3>3, <3>5, <4>1, StreamedIs, ZenonT(60)
    <3>6. ASSUME NEW c \in 0 .. (Word - 1),
                 Made("ietf", c, pieces, nonce, Streamed(crypto_chacha20_ietf, pieces, nonce, c))
          PROVE  StreamCall'
      <4>1. "ietf" \in Variants /\ CallModulus("ietf") = Word
        BY DEF Variants, CallModulus
      <4>2. QED
        BY <3>2, <3>3, <3>6, <4>1, StreamedIs, ZenonT(60)
    <3>7. QED
      BY <3>1, <3>4, <3>5, <3>6, Zenon
  <2>5. CASE CallPoly1305
    <3>1. call'.of = "poly1305"
      BY <2>5 DEF CallPoly1305
    <3>2. QED
      BY <3>1 DEF StreamCall, Variants
  <2>6. CASE CallPolyBlocks
    <3>1. call'.of = "poly_blocks"
      BY <2>6 DEF CallPolyBlocks
    <3>2. QED
      BY <3>1 DEF StreamCall, Variants
  <2>7. CASE UNCHANGED vars
    BY <2>7 DEF vars, StreamCall
  <2>8. QED
    BY <2>1, <2>2, <2>3, <2>4, <2>5, <2>6, <2>7 DEF Next
<1>3. StreamCall => StreamExact
  <2> DEFINE v == call.of
             c == call.ctr
             nonce == call.nonce
             pieces == call.pieces
             n == Len(pieces)
             key == IF v = "x" THEN crypto_chacha20_h(Key, nonce.head) ELSE Key
             ctr == IF v = "ietf" THEN c + nonce.head * Word ELSE c
             blocks == Len(Filled(pieces)) \div Block
  <2> SUFFICES ASSUME StreamCall, v \in Variants, v = "ietf" => c + blocks <= Word
               PROVE  /\ call.result.cipher = StreamBytes(pieces, key, nonce.tail, ctr)
                      /\ v # "ietf" => call.result.ctr = (ctr + blocks) % (Word * Word)
    BY DEF StreamExact, Variants
  <2>1. /\ pieces \in Texts /\ nonce \in Nonces /\ c \in 0 .. (CallModulus(v) - 1)
        /\ \E g : Streams(g, v, pieces, nonce, c, n) /\ call.result = g[n]
    BY Zenon DEF StreamCall
  <2>2. PICK g : Streams(g, v, pieces, nonce, c, n) /\ call.result = g[n]
    BY <2>1, Zenon
  <2>3. Word \in Nat \ {0} /\ CallModulus(v) \in Nat \ {0} /\ Block \in Nat \ {0}
    BY CounterWords, ChaCha20Assumption DEF CallModulus
  <2> HIDE DEF v, c, nonce, pieces
  <2>4. nonce.head \in Nat
    <3>1. nonce.head \in 0 .. (Word - 1)
      BY <2>1, SessionTexts
    <3>2. QED
      BY <2>3, <3>1
  <2>5. IsTexts(pieces) /\ n \in Nat
    BY <2>1, SessionTexts, TextIs DEF IsTexts
  <2>6. PICK d : FilledAs(d, pieces)
    BY <2>5, FilledIs
  <2>7. d[n] \in Nat /\ blocks = d[n]
    <3> DEFINE y == d[n]
    <3>1. y \in Nat /\ Len(Filled(pieces)) = Block * y
      <4>1. n \in 0 .. n
        BY <2>5
      <4>2. QED
        BY <2>6, <4>1, Zenon DEF FilledAs
    <3> HIDE DEF y
    <3>2. 0 \in 0 .. (Block - 1) /\ y \in Int /\ Block * y + 0 = Block * y
      BY <2>3, <3>1
    <3>3. (Block * y + 0) \div Block = y
      BY <2>3, <3>2, Division
    <3>4. (Block * y) \div Block = y
      BY <3>2, <3>3, Zenon
    <3>5. QED
      BY <3>1, <3>4, Zenon DEF y
  <2>8. v = "ietf" => c + d[n] <= Word
    BY <2>7, Zenon
  <2>9. /\ g[n].cipher = StreamBytes(pieces, CallKey(v, nonce), nonce.tail, c + CallBase(v, nonce))
        /\ g[n].ctr = (c + d[n]) % CallModulus(v)
    <3> HIDE DEF blocks, key, ctr
    <3>1. QED
      BY <2>1, <2>2, <2>4, <2>5, <2>6, <2>8, StreamPieces
  <2>10. CallKey(v, nonce) = key /\ c + CallBase(v, nonce) = ctr
    <3>1. c \in Nat
      BY <2>1, <2>3
    <3>2. c + 0 = c
      BY <3>1
    <3>3. QED
      BY <3>2, Zenon DEF CallKey, CallBase
  <2>11. v # "ietf" => CallModulus(v) = Word * Word /\ ctr = c
    BY Zenon DEF CallModulus
  <2> HIDE DEF key, ctr, blocks
  <2>12. QED
    BY <2>2, <2>7, <2>9, <2>10, <2>11, Zenon
<1>4. QED
  BY <1>1, <1>2, <1>3, PTL DEF Spec
=============================================================================
