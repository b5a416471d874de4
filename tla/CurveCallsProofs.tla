-------------------------- MODULE CurveCallsProofs --------------------------
(***************************************************************************)
(* Proofs about CurveCalls.  For words, blocks and digests of every size and *)
(* texts of every length BLAKE2b and Argon2 hash what the RFCs hash, and   *)
(* Argon2 fills its blocks, however many, in the order and from the blocks of *)
(* RFC 9106.  With the lemmas of CurveProofs and ScalarMultProofs, what every *)
(* call returns is what the curve says.                                    *)
(***************************************************************************)
EXTENDS CurveCalls, ScalarMultProofs, FiniteSetTheorems

(* -------- BLAKE2b: what is compressed -------- *)

\* Block number b of the first x bytes of a text, filled up with zeros.
BlockAt(w, x, b) ==
  [i \in 1 .. HashBlock |-> IF HashBlock * (b - 1) + i <= x THEN w[HashBlock * (b - 1) + i] ELSE {}]

\* What is compressed of a full block, and the context of a text of which x bytes are in
\* and c blocks compressed.
FullBlock(w, b) ==
  [block |-> BlockAt(w, HashBlock * b, b), x0 |-> (HashBlock * b) % OffsetWord,
   x1 |-> ((HashBlock * b) \div OffsetWord) % OffsetWord, last |-> FALSE]

Context(p, w, x, c) ==
  [params |-> p, hash |-> [b \in 1 .. c |-> FullBlock(w, b)],
   x0 |-> (HashBlock * c) % OffsetWord, x1 |-> ((HashBlock * c) \div OffsetWord) % OffsetWord,
   input |-> BlockAt(w, x, c + 1), input_idx |-> x - HashBlock * c]

\* The bytes not compressed yet fit into the buffer.
Buffered(w, x, c) ==
  /\ IsText(w) /\ x \in 0 .. Len(w) /\ c \in Nat
  /\ HashBlock * c <= x /\ x <= HashBlock * c + HashBlock

\* The offset, when i more bytes are counted.
Counted(y, i) ==
  LET x0 == ((y % OffsetWord) + i) % OffsetWord
      x1 == (((y \div OffsetWord) % OffsetWord) + (IF x0 < i THEN 1 ELSE 0)) % OffsetWord
  IN x0 = (y + i) % OffsetWord /\ x1 = ((y + i) \div OffsetWord) % OffsetWord

LEMMA HashSizes ==
  /\ HashBlock \in Nat \ {0} /\ WordBytes \in Nat \ {0} /\ OffsetWord \in Nat \ {0}
  /\ HashBlock < OffsetWord /\ HashBlock % WordBytes = 0
BY Blake2bAssumption

LEMMA OffsetCounts ==
  ASSUME NEW y \in Nat, NEW i \in 0 .. HashBlock
  PROVE  Counted(y, i)
<1> DEFINE D == OffsetWord
           q == y \div D
           r == y % D
           x0 == (r + i) % D
           e == IF x0 < i THEN 1 ELSE 0
<1>1. D \in Nat \ {0} /\ i < D /\ i \in Nat
  BY HashSizes
<1>2. q \in Nat /\ r \in 0 .. (D - 1) /\ y = D * q + r
  BY <1>1
<1> HIDE DEF D, q, r
<1>3. x0 = r + i - D * e /\ x0 \in 0 .. (D - 1)
  <2>1. CASE r + i < D
    <3>1. x0 = r + i
      BY <1>1, <1>2, <2>1, Remainders
    <3>2. e = 0
      BY <1>1, <1>2, <3>1
    <3>3. QED
      BY <1>1, <1>2, <2>1, <3>1, <3>2
  <2>2. CASE r + i >= D
    <3>1. r + i - D \in 0 .. (D - 1) /\ r + i = D * 1 + (r + i - D)
      BY <1>1, <1>2, <2>2
    <3> DEFINE s == r + i - D
    <3>2. s \in 0 .. (D - 1) /\ r + i = D * 1 + s /\ s < i
      BY <1>1, <1>2, <3>1
    <3> HIDE DEF s
    <3>3. (D * 1 + s) % D = s
      BY <1>1, <3>2, Division
    <3>4. x0 = s
      BY <3>2, <3>3
    <3>5. e = 1
      BY <3>2, <3>4
    <3>6. QED
      BY <1>1, <3>1, <3>4, <3>5 DEF s
  <2>3. QED
    BY <1>1, <1>2, <2>1, <2>2
<1>4. e \in {0, 1}
  OBVIOUS
<1> HIDE DEF x0, e
<1>5. y + i = D * (q + e) + x0
  <2>1. D * (q + e) = D * q + D * e /\ D * e \in Int /\ D * q \in Int
    BY <1>1, <1>2, <1>4, Distribute
  <2>2. QED
    BY <1>1, <1>2, <1>3, <2>1
<1>6. (y + i) \div D = q + e /\ (y + i) % D = x0
  <2> DEFINE k == q + e
  <2>1. k \in Int /\ y + i = D * k + x0
    BY <1>2, <1>4, <1>5
  <2> HIDE DEF k
  <2>2. (D * k + x0) \div D = k /\ (D * k + x0) % D = x0
    BY <1>1, <1>3, <2>1, Division
  <2>3. QED
    BY <2>1, <2>2 DEF k
<1>7. ((q % D) + e) % D = (q + e) % D
  BY <1>1, <1>2, <1>4, ModSum
<1>8. QED
  BY <1>6, <1>7, Zenon DEF Counted, D, q, r, x0, e

\* A context with its parts named, and the two things done to it.
Ctx(p, h, u, v, i, n) ==
  [params |-> p, hash |-> h, x0 |-> u, x1 |-> v, input |-> i, input_idx |-> n]

Hashed(w, c) == [b \in 1 .. c |-> FullBlock(w, b)]

Entry(i, u, v, last) == [block |-> i, x0 |-> u, x1 |-> v, last |-> last]

LEMMA ContextIs ==
  ASSUME NEW p, NEW w, NEW x, NEW c
  PROVE  Context(p, w, x, c) =
           Ctx(p, Hashed(w, c), (HashBlock * c) % OffsetWord, ((HashBlock * c) \div OffsetWord) % OffsetWord,
               BlockAt(w, x, c + 1), x - HashBlock * c)
BY Zenon DEF Context, Ctx, Hashed

LEMMA CtxParts ==
  ASSUME NEW p, NEW h, NEW u, NEW v, NEW i, NEW n
  PROVE  LET ctx == Ctx(p, h, u, v, i, n)
         IN /\ ctx.params = p /\ ctx.hash = h /\ ctx.x0 = u /\ ctx.x1 = v
            /\ ctx.input = i /\ ctx.input_idx = n
BY DEF Ctx

Refilled(c, j, m) == [c EXCEPT !.input = j, !.input_idx = m]
Emptied(c, m)     == [c EXCEPT !.input_idx = m]
Cleared(c, j)     == [c EXCEPT !.input = j]

LEMMA CtxReloaded ==
  ASSUME NEW p, NEW h, NEW u, NEW v, NEW i, NEW n, NEW j, NEW m
  PROVE  /\ Refilled(Ctx(p, h, u, v, i, n), j, m) = Ctx(p, h, u, v, j, m)
         /\ Emptied(Ctx(p, h, u, v, i, n), m) = Ctx(p, h, u, v, i, m)
         /\ Cleared(Ctx(p, h, u, v, i, n), j) = Ctx(p, h, u, v, j, n)
<1>1. \A c : [c EXCEPT !.input = j, !.input_idx = m] = [[c EXCEPT !.input = j] EXCEPT !.input_idx = m]
  BY Zenon
<1>2. [Ctx(p, h, u, v, i, n) EXCEPT !.input = j] = Ctx(p, h, u, v, j, n)
  BY DEF Ctx
<1>3. [Ctx(p, h, u, v, j, n) EXCEPT !.input_idx = m] = Ctx(p, h, u, v, j, m)
  BY DEF Ctx
<1>4. [Ctx(p, h, u, v, i, n) EXCEPT !.input_idx = m] = Ctx(p, h, u, v, i, m)
  BY DEF Ctx
<1>5. QED
  BY <1>1, <1>2, <1>3, <1>4, Zenon DEF Refilled, Emptied, Cleared

LEMMA CompressCtx ==
  ASSUME NEW p, NEW h, NEW u, NEW v, NEW i, NEW n, NEW last,
         NEW x0, x0 = (u + n) % OffsetWord,
         NEW x1, x1 = (v + (IF x0 < n THEN 1 ELSE 0)) % OffsetWord
  PROVE  blake2b_compress(Ctx(p, h, u, v, i, n), last) =
           Ctx(p, Append(h, Entry(i, x0, x1, last)), x0, x1, i, n)
<1> DEFINE e == Entry(i, x0, x1, last)
           g == Append(h, e)
           c == Ctx(p, h, u, v, i, n)
<1>1. c.x0 = u /\ c.x1 = v /\ c.input = i /\ c.input_idx = n /\ c.hash = h
  BY DEF Ctx
<1>2. blake2b_compress(c, last) = [c EXCEPT !.x0 = x0, !.x1 = x1, !.hash = g]
  BY <1>1 DEF blake2b_compress, Entry
<1> HIDE DEF g, c
<1>3. [c EXCEPT !.x0 = x0, !.x1 = x1, !.hash = g] =
        [[[c EXCEPT !.x0 = x0] EXCEPT !.x1 = x1] EXCEPT !.hash = g]
  BY Zenon
<1>4. [Ctx(p, h, u, v, i, n) EXCEPT !.x0 = x0] = Ctx(p, h, x0, v, i, n)
  BY DEF Ctx
<1>5. [Ctx(p, h, x0, v, i, n) EXCEPT !.x1 = x1] = Ctx(p, h, x0, x1, i, n)
  BY DEF Ctx
<1>6. [Ctx(p, h, x0, x1, i, n) EXCEPT !.hash = g] = Ctx(p, g, x0, x1, i, n)
  BY DEF Ctx
<1>7. QED
  BY <1>2, <1>3, <1>4, <1>5, <1>6, ZenonT(60) DEF c, g

\* A compression counts the bytes in the buffer.
LEMMA CompressIs ==
  ASSUME NEW p, NEW w, NEW x, NEW c, Buffered(w, x, c), NEW last
  PROVE  blake2b_compress(Context(p, w, x, c), last) =
           Ctx(p, Append(Hashed(w, c), Entry(BlockAt(w, x, c + 1), x % OffsetWord,
                                             (x \div OffsetWord) % OffsetWord, last)),
               x % OffsetWord, (x \div OffsetWord) % OffsetWord, BlockAt(w, x, c + 1), x - HashBlock * c)
<1> DEFINE y == HashBlock * c
           n == x - y
           u == y % OffsetWord
           v == (y \div OffsetWord) % OffsetWord
           i == BlockAt(w, x, c + 1)
           x0 == (u + n) % OffsetWord
           x1 == (v + (IF x0 < n THEN 1 ELSE 0)) % OffsetWord
<1>1. y \in Nat /\ n \in 0 .. HashBlock /\ y + n = x
  <2>1. y \in Nat
    BY HashSizes DEF Buffered
  <2> HIDE DEF y
  <2>2. x \in Int /\ y <= x /\ x <= y + HashBlock
    BY DEF Buffered, y
  <2>3. QED
    BY <2>1, <2>2, HashSizes
<1>2. Context(p, w, x, c) = Ctx(p, Hashed(w, c), u, v, i, n)
  BY ContextIs, Zenon
<1> HIDE DEF y, n, i
<1>3. Counted(y, n)
  BY <1>1, OffsetCounts
<1>4. x0 = x % OffsetWord /\ x1 = (x \div OffsetWord) % OffsetWord
  BY <1>1, <1>3, Zenon DEF Counted
<1>5. blake2b_compress(Ctx(p, Hashed(w, c), u, v, i, n), last) =
        Ctx(p, Append(Hashed(w, c), Entry(i, x0, x1, last)), x0, x1, i, n)
  <2> DEFINE h == Hashed(w, c)
  <2> HIDE DEF h, u, v
  <2>1. \A a, b : a = x0 /\ b = x1 =>
          blake2b_compress(Ctx(p, h, u, v, i, n), last) = Ctx(p, Append(h, Entry(i, a, b, last)), a, b, i, n)
    BY CompressCtx
  <2>2. QED
    BY <2>1, Zenon DEF h
<1> HIDE DEF u, v, x0, x1
<1>6. QED
  BY <1>2, <1>4, <1>5, Zenon DEF n, i, y

\* A block's bytes behind those that are in do not matter.
LEMMA BlockFull ==
  ASSUME NEW w, NEW x \in Nat, NEW b \in Nat \ {0}, HashBlock * b <= x
  PROVE  BlockAt(w, x, b) = BlockAt(w, HashBlock * b, b)
<1> DEFINE z == HashBlock * (b - 1)
<1>1. z \in Nat /\ HashBlock * b = z + HashBlock
  BY HashSizes
<1> HIDE DEF z
<1>2. \A i \in 1 .. HashBlock : z + i <= x /\ z + i <= HashBlock * b
  BY <1>1, HashSizes
<1>3. QED
  BY <1>2 DEF BlockAt, z

LEMMA HashedMore ==
  ASSUME NEW w, NEW c \in Nat
  PROVE  Append(Hashed(w, c), FullBlock(w, c + 1)) = Hashed(w, c + 1)
<1> DEFINE s == Hashed(w, c)
           t == Hashed(w, c + 1)
<1>1. IsText(s) /\ Len(s) = c /\ \A i \in 1 .. c : s[i] = FullBlock(w, i)
  <2>1. s = [i \in 1 .. c |-> s[i]] /\ \A i \in 1 .. c : s[i] = FullBlock(w, i)
    BY DEF Hashed
  <2> HIDE DEF s
  <2>2. QED
    BY <2>1, TextFrom
<1>2. IsText(t) /\ Len(t) = c + 1 /\ \A i \in 1 .. c + 1 : t[i] = FullBlock(w, i)
  <2>1. t = [i \in 1 .. c + 1 |-> t[i]] /\ c + 1 \in Nat /\ \A i \in 1 .. c + 1 : t[i] = FullBlock(w, i)
    BY DEF Hashed
  <2> HIDE DEF t
  <2>2. QED
    BY <2>1, TextFrom
<1> HIDE DEF s, t
<1> DEFINE a == Append(s, FullBlock(w, c + 1))
<1>3. /\ IsText(a) /\ Len(a) = Len(s) + 1
      /\ \A i \in 1 .. Len(s) : a[i] = s[i]
      /\ a[Len(s) + 1] = FullBlock(w, c + 1)
  BY <1>1, TextAppend, Zenon
<1> HIDE DEF a
<1>4. \A i \in 1 .. c + 1 : a[i] = t[i]
  BY <1>1, <1>2, <1>3
<1>5. a = t
  BY <1>1, <1>2, <1>3, <1>4, TextEqual
<1>6. QED
  BY <1>5 DEF a, s, t

\* A full buffer compressed and emptied: what was in it is one block more.
Compresses(p, w, x, c, i, n) ==
  LET after == blake2b_compress(Context(p, w, x, c), FALSE)
  IN /\ Refilled(after, i, n) = Refilled(Context(p, w, x, c + 1), i, n)
     /\ Cleared(Emptied(after, n), i) = Refilled(Context(p, w, x, c + 1), i, n)

LEMMA CompressFull ==
  ASSUME NEW p, NEW w, NEW x, NEW c, Buffered(w, x, c), x = HashBlock * c + HashBlock, NEW i, NEW n
  PROVE  Compresses(p, w, x, c, i, n)
<1> DEFINE u == x % OffsetWord
           v == (x \div OffsetWord) % OffsetWord
           j == BlockAt(w, x, c + 1)
           m == x - HashBlock * c
           h == Hashed(w, c + 1)
           k == BlockAt(w, x, c + 1 + 1)
           e == x - HashBlock * (c + 1)
<1>1. c \in Nat /\ x \in Nat /\ HashBlock * (c + 1) = x
  BY HashSizes, TextIs DEF Buffered
<1>2. Append(Hashed(w, c), Entry(j, u, v, FALSE)) = h
  <2>1. j = BlockAt(w, HashBlock * (c + 1), c + 1)
    BY <1>1
  <2>2. Entry(j, u, v, FALSE) = FullBlock(w, c + 1)
    BY <1>1, <2>1, Zenon DEF Entry, FullBlock
  <2>3. QED
    BY <1>1, <2>2, HashedMore, Zenon
<1>3. blake2b_compress(Context(p, w, x, c), FALSE) = Ctx(p, h, u, v, j, m)
  <2>1. \A last : blake2b_compress(Context(p, w, x, c), last) =
                    Ctx(p, Append(Hashed(w, c), Entry(j, u, v, last)), u, v, j, m)
    BY CompressIs
  <2>2. QED
    BY <1>2, <2>1, Zenon
<1>4. Context(p, w, x, c + 1) = Ctx(p, h, u, v, k, e)
  <2>1. Context(p, w, x, c + 1) =
          Ctx(p, h, (HashBlock * (c + 1)) % OffsetWord, ((HashBlock * (c + 1)) \div OffsetWord) % OffsetWord, k, e)
    BY ContextIs, Zenon
  <2>2. QED
    BY <1>1, <2>1, Zenon
<1> HIDE DEF u, v, j, m, h, k, e
<1>5. /\ Refilled(Ctx(p, h, u, v, j, m), i, n) = Ctx(p, h, u, v, i, n)
      /\ Emptied(Ctx(p, h, u, v, j, m), n) = Ctx(p, h, u, v, j, n)
      /\ Cleared(Ctx(p, h, u, v, j, n), i) = Ctx(p, h, u, v, i, n)
      /\ Refilled(Ctx(p, h, u, v, k, e), i, n) = Ctx(p, h, u, v, i, n)
  BY CtxReloaded
<1>6. QED
  BY <1>3, <1>4, <1>5, Zenon DEF Compresses

\* What is written into the buffer, and the bytes OR-ed into zeros.
Spliced(i, at, bytes) ==
  SubSeq(i, 1, at) \o bytes \o SubSeq(i, at + Len(bytes) + 1, HashBlock)

LEMMA LoadedCtx ==
  ASSUME NEW p, NEW h, NEW u, NEW v, NEW i, NEW n, NEW at, NEW bytes
  PROVE  Loaded(Ctx(p, h, u, v, i, n), at, bytes) =
           Ctx(p, h, u, v, Spliced(i, at, bytes), n + Len(bytes))
<1> DEFINE c == Ctx(p, h, u, v, i, n)
           s == Spliced(i, at, bytes)
           m == n + Len(bytes)
<1>1. c.input = i /\ c.input_idx = n
  BY DEF Ctx
<1>2. Loaded(c, at, bytes) = [c EXCEPT !.input = s, !.input_idx = m]
  BY <1>1 DEF Loaded, Spliced
<1> HIDE DEF c, s, m
<1>3. Loaded(c, at, bytes) = Refilled(c, s, m)
  BY <1>2, Zenon DEF Refilled
<1>4. Refilled(Ctx(p, h, u, v, i, n), s, m) = Ctx(p, h, u, v, s, m)
  BY CtxReloaded
<1>5. QED
  BY <1>3, <1>4, Zenon DEF c, s, m

LEMMA BlockIs ==
  ASSUME NEW w, NEW x, NEW b
  PROVE  IsText(BlockAt(w, x, b)) /\ Len(BlockAt(w, x, b)) = HashBlock
<1> DEFINE t == BlockAt(w, x, b)
<1>1. t = [i \in 1 .. HashBlock |-> t[i]] /\ HashBlock \in Nat
  BY HashSizes DEF BlockAt
<1> HIDE DEF t
<1>2. QED
  BY <1>1, TextFrom DEF t

\* The buffer of a context, byte by byte.
LEMMA BufferIs ==
  ASSUME NEW w, NEW x, NEW c, NEW at, Buffered(w, x, c), at = x - HashBlock * c
  PROVE  /\ at \in 0 .. HashBlock /\ HashBlock * c \in Nat /\ x = HashBlock * c + at
         /\ \A j \in 1 .. HashBlock :
              BlockAt(w, x, c + 1)[j] = IF j <= at THEN w[HashBlock * c + j] ELSE {}
<1> DEFINE y == HashBlock * c
<1>1. y \in Nat /\ HashBlock * ((c + 1) - 1) = y
  BY HashSizes DEF Buffered
<1> HIDE DEF y
<1>2. x \in Int /\ y <= x /\ x <= y + HashBlock
  BY DEF Buffered, y
<1>3. at \in 0 .. HashBlock /\ x = y + at
  BY <1>1, <1>2, HashSizes DEF y
<1>4. ASSUME NEW j \in 1 .. HashBlock
      PROVE  BlockAt(w, x, c + 1)[j] = IF j <= at THEN w[y + j] ELSE {}
  <2>1. BlockAt(w, x, c + 1)[j] = IF y + j <= x THEN w[y + j] ELSE {}
    BY <1>1 DEF BlockAt
  <2>2. y + j <= x <=> j <= at
    BY <1>1, <1>3, HashSizes
  <2>3. QED
    BY <2>1, <2>2
<1>5. QED
  BY <1>1, <1>3, <1>4, Zenon DEF y

LEMMA SplicedIs ==
  ASSUME NEW w, NEW x, NEW c, NEW n \in Nat, NEW at, Buffered(w, x, c), Buffered(w, x + n, c),
         at = x - HashBlock * c
  PROVE  Spliced(BlockAt(w, x, c + 1), at, SubSeq(w, x + 1, x + n)) = BlockAt(w, x + n, c + 1)
<1> DEFINE y == HashBlock * c
           i == BlockAt(w, x, c + 1)
           k == BlockAt(w, x + n, c + 1)
           bytes == SubSeq(w, x + 1, x + n)
           head == SubSeq(i, 1, at)
           tail == SubSeq(i, at + n + 1, HashBlock)
<1>0. x \in Nat /\ x + n <= Len(w) /\ Len(w) \in Nat /\ IsText(w) /\ HashBlock \in Nat
  BY TextIs, HashSizes DEF Buffered
<1>1. /\ at \in 0 .. HashBlock /\ y \in Nat /\ x = y + at
      /\ \A j \in 1 .. HashBlock : i[j] = IF j <= at THEN w[y + j] ELSE {}
  BY BufferIs
<1>2. IsText(i) /\ Len(i) = HashBlock /\ IsText(k) /\ Len(k) = HashBlock
  BY BlockIs
<1>3. /\ at + n \in 0 .. HashBlock
      /\ \A j \in 1 .. HashBlock : k[j] = IF j <= at + n THEN w[y + j] ELSE {}
  <2> DEFINE z == x + n
             e == z - y
  <2>1. e = at + n
    BY <1>0, <1>1
  <2>2. Buffered(w, z, c)
    OBVIOUS
  <2> HIDE DEF z
  <2>3. /\ e \in 0 .. HashBlock
        /\ \A j \in 1 .. HashBlock : BlockAt(w, z, c + 1)[j] = IF j <= e THEN w[HashBlock * c + j] ELSE {}
    BY <2>2, BufferIs
  <2> HIDE DEF e
  <2>4. QED
    BY <2>1, <2>3, Zenon DEF z
<1> HIDE DEF i, k, y
<1>4. IsText(bytes) /\ Len(bytes) = n /\ \A j \in 1 .. n : bytes[j] = w[x + j]
  <2> DEFINE a == x + 1
             b == x + n
  <2>1. a \in 1 .. Len(w) + 1 /\ b \in (a - 1) .. Len(w) /\ b - a + 1 = n
    BY <1>0
  <2>2. \A j \in 1 .. n : a + j - 1 = x + j
    BY <1>0
  <2> HIDE DEF a, b
  <2>3. IsText(SubSeq(w, a, b)) /\ Len(SubSeq(w, a, b)) = b - a + 1
        /\ \A j \in 1 .. b - a + 1 : SubSeq(w, a, b)[j] = w[a + j - 1]
    BY <1>0, <2>1, TextPart
  <2>4. QED
    BY <2>1, <2>2, <2>3 DEF a, b
<1> HIDE DEF bytes
<1>5. IsText(head) /\ Len(head) = at /\ \A j \in 1 .. at : head[j] = i[j]
  BY <1>1, <1>2, TextHead
<1>6. IsText(tail) /\ Len(tail) = HashBlock - (at + n)
      /\ \A j \in 1 .. HashBlock - (at + n) : tail[j] = i[at + n + j]
  <2> DEFINE m == at + n
  <2>1. m \in 0 .. Len(i)
    BY <1>2, <1>3
  <2> HIDE DEF m
  <2>2. /\ IsText(SubSeq(i, m + 1, Len(i))) /\ Len(SubSeq(i, m + 1, Len(i))) = Len(i) - m
        /\ \A j \in 1 .. Len(i) - m : SubSeq(i, m + 1, Len(i))[j] = i[m + j]
    BY <1>2, <2>1, TextTail
  <2>3. QED
    BY <1>2, <2>2 DEF m
<1> HIDE DEF head, tail
<1> DEFINE f == head \o bytes
           g == f \o tail
<1>7. /\ IsText(f) /\ Len(f) = at + n
      /\ \A j \in 1 .. at : f[j] = head[j]
      /\ \A j \in 1 .. n : f[at + j] = bytes[j]
  <2>1. /\ IsText(f) /\ Len(f) = Len(head) + Len(bytes)
        /\ \A j \in 1 .. Len(head) : f[j] = head[j]
        /\ \A j \in 1 .. Len(bytes) : f[Len(head) + j] = bytes[j]
    <3>1. IsText(head) /\ IsText(bytes)
      BY <1>4, <1>5
    <3>2. QED
      BY <3>1, TextConcat
  <2> HIDE DEF f
  <2>2. QED
    BY <1>4, <1>5, <2>1
<1> HIDE DEF f
<1>8. /\ IsText(g) /\ Len(g) = at + n + Len(tail)
      /\ \A j \in 1 .. at + n : g[j] = f[j]
      /\ \A j \in 1 .. Len(tail) : g[at + n + j] = tail[j]
  <2>1. /\ IsText(g) /\ Len(g) = Len(f) + Len(tail)
        /\ \A j \in 1 .. Len(f) : g[j] = f[j]
        /\ \A j \in 1 .. Len(tail) : g[Len(f) + j] = tail[j]
    <3>1. IsText(f) /\ IsText(tail)
      BY <1>6, <1>7
    <3>2. QED
      BY <3>1, TextConcat
  <2> HIDE DEF g
  <2>2. QED
    BY <1>7, <2>1
<1> HIDE DEF g
<1>9. Len(g) = HashBlock
  <2>1. Len(g) = at + n + Len(tail) /\ Len(tail) = HashBlock - (at + n)
    BY <1>6, <1>8
  <2>2. at \in Int /\ HashBlock \in Int
    BY <1>0, <1>1
  <2>3. QED
    BY <2>1, <2>2
<1>10. ASSUME NEW j \in 1 .. HashBlock
       PROVE  g[j] = k[j]
  <2>1. CASE j <= at
    <3>1. j \in 1 .. at /\ j \in 1 .. at + n
      BY <1>1, <2>1
    <3>2. g[j] = w[y + j]
      BY <1>1, <1>5, <1>7, <1>8, <2>1, <3>1
    <3>3. k[j] = w[y + j]
      BY <1>3, <3>1
    <3>4. QED
      BY <3>2, <3>3
  <2>2. CASE j > at /\ j <= at + n
    <3> DEFINE e == j - at
    <3>1. e \in 1 .. n /\ at + e = j /\ x + e = y + j /\ j \in 1 .. at + n
      BY <1>1, <2>2
    <3> HIDE DEF e
    <3>2. f[at + e] = bytes[e] /\ bytes[e] = w[x + e] /\ g[j] = f[j]
      BY <1>4, <1>7, <1>8, <3>1
    <3>3. k[j] = w[y + j]
      BY <1>3, <2>2
    <3>4. QED
      BY <3>1, <3>2, <3>3, Zenon
  <2>3. CASE j > at + n
    <3> DEFINE e == j - (at + n)
    <3>1. e \in 1 .. Len(tail) /\ e \in 1 .. HashBlock - (at + n) /\ at + n + e = j /\ ~(j <= at) /\ ~(j <= at + n)
      <4>1. Len(tail) = HashBlock - (at + n)
        BY <1>6
      <4>2. HashBlock \in Nat /\ at \in Nat
        BY <1>0, <1>1
      <4>3. QED
        BY <2>3, <4>1, <4>2, SMTT(60)
    <3> HIDE DEF e
    <3>2. g[at + n + e] = tail[e] /\ tail[e] = i[at + n + e]
      BY <1>6, <1>8, <3>1, Zenon
    <3>3. i[j] = {} /\ k[j] = {}
      BY <1>1, <1>3, <3>1, Zenon
    <3>4. QED
      BY <3>1, <3>2, <3>3, Zenon
  <2>4. QED
    BY <1>1, <2>1, <2>2, <2>3
<1>11. g = k
  BY <1>2, <1>8, <1>9, <1>10, TextEqual
<1>12. Spliced(i, at, bytes) = g
  BY <1>4, Zenon DEF Spliced, g, f, head, tail
<1>13. QED
  BY <1>11, <1>12, Zenon DEF i, k, bytes

\* The next n bytes of a text.
LEMMA PieceIs ==
  ASSUME NEW w, IsText(w), NEW x \in Nat, NEW n \in Nat, x + n <= Len(w)
  PROVE  /\ IsText(SubSeq(w, x + 1, x + n)) /\ Len(SubSeq(w, x + 1, x + n)) = n
         /\ \A j \in 1 .. n : SubSeq(w, x + 1, x + n)[j] = w[x + j]
<1> DEFINE a == x + 1
           b == x + n
<1>0. Len(w) \in Nat
  BY TextIs
<1>1. a \in 1 .. Len(w) + 1 /\ b \in (a - 1) .. Len(w) /\ b - a + 1 = n
  BY <1>0
<1>2. \A j \in 1 .. n : a + j - 1 = x + j
  BY <1>0
<1> HIDE DEF a, b
<1>3. IsText(SubSeq(w, a, b)) /\ Len(SubSeq(w, a, b)) = b - a + 1
      /\ \A j \in 1 .. b - a + 1 : SubSeq(w, a, b)[j] = w[a + j - 1]
  BY <1>1, TextPart
<1>4. QED
  BY <1>1, <1>2, <1>3 DEF a, b

\* More bytes in the buffer, written behind those that are there.
Loads(p, w, x, n, c) ==
  Loaded(Context(p, w, x, c), x - HashBlock * c, SubSeq(w, x + 1, x + n)) = Context(p, w, x + n, c)

LEMMA LoadedIs ==
  ASSUME NEW p, NEW w, NEW x, NEW c, NEW n \in Nat, Buffered(w, x, c), Buffered(w, x + n, c)
  PROVE  Loads(p, w, x, n, c)
<1> DEFINE y == HashBlock * c
           u == y % OffsetWord
           v == (y \div OffsetWord) % OffsetWord
           h == Hashed(w, c)
           i == BlockAt(w, x, c + 1)
           k == BlockAt(w, x + n, c + 1)
           bytes == SubSeq(w, x + 1, x + n)
           at == x - y
<1>0. x \in Nat /\ x + n <= Len(w) /\ IsText(w)
  BY TextIs DEF Buffered
<1>1. Len(bytes) = n
  BY <1>0, PieceIs
<1>2. at \in Int /\ y \in Int /\ at + n = (x + n) - y
  <2>1. y \in Int
    BY HashSizes DEF Buffered
  <2>2. QED
    BY <1>0, <2>1
<1>3. Context(p, w, x, c) = Ctx(p, h, u, v, i, at)
  <2>1. Context(p, w, x, c) = Ctx(p, h, u, v, i, x - y)
    BY ContextIs, Zenon
  <2>2. QED
    BY <2>1, Zenon
<1>4. Context(p, w, x + n, c) = Ctx(p, h, u, v, k, (x + n) - y)
  BY ContextIs, Zenon
<1>5. Spliced(i, at, bytes) = k
  BY SplicedIs
<1> HIDE DEF y, u, v, h, i, k, bytes, at
<1>6. Loaded(Ctx(p, h, u, v, i, at), at, bytes) = Ctx(p, h, u, v, Spliced(i, at, bytes), at + Len(bytes))
  BY LoadedCtx
<1>7. Loaded(Context(p, w, x, c), at, bytes) = Context(p, w, x + n, c)
  BY <1>1, <1>2, <1>3, <1>4, <1>5, <1>6, Zenon
<1>8. QED
  BY <1>7, Zenon DEF bytes, at, y, Loads

Ors(p, w, x, n, c) ==
  Ored(Context(p, w, x, c), SubSeq(w, x + 1, x + n)) = Context(p, w, x + n, c)

LEMMA OredIs ==
  ASSUME NEW p, NEW w, NEW x, NEW c, NEW n \in Nat, Buffered(w, x, c), Buffered(w, x + n, c)
  PROVE  Ors(p, w, x, n, c)
<1> DEFINE at == x - HashBlock * c
           i == BlockAt(w, x, c + 1)
           bytes == SubSeq(w, x + 1, x + n)
           ctx == Context(p, w, x, c)
           t == [j \in DOMAIN bytes |-> i[at + j] \cup bytes[j]]
<1>0. x \in Nat /\ x + n <= Len(w) /\ IsText(w)
  BY TextIs DEF Buffered
<1>1. IsText(bytes) /\ Len(bytes) = n
  BY <1>0, PieceIs
<1>2. ctx.input = i /\ ctx.input_idx = at
  BY DEF Context
<1>3. \A j \in 1 .. n : i[at + j] = {}
  <2>1. /\ at \in 0 .. HashBlock /\ HashBlock * c \in Nat /\ x = HashBlock * c + at
        /\ \A j \in 1 .. HashBlock : i[j] = IF j <= at THEN w[HashBlock * c + j] ELSE {}
    BY BufferIs
  <2> DEFINE y == HashBlock * c
  <2>2. x + n <= y + HashBlock
    BY DEF Buffered
  <2>3. y \in Nat /\ x = y + at /\ at \in 0 .. HashBlock
    BY <2>1
  <2> HIDE DEF y, at, i
  <2>4. \A j \in 1 .. n : at + j \in 1 .. HashBlock /\ ~(at + j <= at)
    BY <2>2, <2>3, HashSizes
  <2>5. QED
    BY <2>1, <2>4
<1>4. t = bytes
  <2>1. DOMAIN bytes = 1 .. n /\ bytes = [j \in 1 .. n |-> bytes[j]]
    BY <1>1, TextIs
  <2> HIDE DEF bytes, i, at
  <2>2. \A j \in 1 .. n : i[at + j] \cup bytes[j] = bytes[j]
    BY <1>3
  <2>3. QED
    BY <2>1, <2>2
<1>5. Ored(ctx, bytes) = Loaded(ctx, at, t)
  <2> HIDE DEF ctx, bytes, i, at
  <2>1. QED
    BY <1>2, Zenon DEF Ored
<1>6. Loaded(ctx, at, bytes) = Context(p, w, x + n, c)
  <2>1. Loads(p, w, x, n, c)
    BY LoadedIs
  <2>2. QED
    BY <2>1, Zenon DEF Loads
<1>7. QED
  <2> HIDE DEF ctx, bytes, t, at
  <2>1. Ored(ctx, bytes) = Context(p, w, x + n, c)
    BY <1>4, <1>5, <1>6, Zenon
  <2>2. QED
    BY <2>1, Zenon DEF Ors, ctx, bytes

\* What is left of a text behind its first x bytes.
Rest(w, x) == SubSeq(w, x + 1, Len(w))

LEMMA RestIs ==
  ASSUME NEW w, IsText(w), NEW x \in 0 .. Len(w)
  PROVE  /\ IsText(Rest(w, x)) /\ Len(Rest(w, x)) = Len(w) - x
         /\ \A j \in 1 .. Len(w) - x : Rest(w, x)[j] = w[x + j]
BY TextTail DEF Rest

Part(w, x, a, n) ==
  SubSeq(Rest(w, x), a + 1, a + n) = SubSeq(w, (x + a) + 1, (x + a) + n)

LEMMA PartOfRest ==
  ASSUME NEW w, IsText(w), NEW x \in Nat, NEW a \in Nat, NEW n \in Nat, (x + a) + n <= Len(w)
  PROVE  Part(w, x, a, n)
<1> DEFINE r == Rest(w, x)
           s == SubSeq(r, a + 1, a + n)
           y == x + a
           t == SubSeq(w, y + 1, y + n)
<1>0. Len(w) \in Nat
  BY TextIs
<1>1. IsText(r) /\ Len(r) = Len(w) - x /\ \A j \in 1 .. Len(w) - x : r[j] = w[x + j]
  <2>1. x \in 0 .. Len(w)
    BY <1>0
  <2>2. QED
    BY <2>1, RestIs
<1> HIDE DEF r
<1>2. IsText(s) /\ Len(s) = n /\ \A j \in 1 .. n : s[j] = r[a + j]
  <2>1. a + n <= Len(r)
    BY <1>0, <1>1
  <2>2. QED
    BY <1>1, <2>1, PieceIs, ZenonT(60)
<1>3. y \in Nat /\ y + n <= Len(w)
  OBVIOUS
<1> HIDE DEF s
<1>4. \A j \in 1 .. n : s[j] = w[y + j]
  <2>1. ASSUME NEW j \in 1 .. n
        PROVE  s[j] = w[y + j]
    <3> DEFINE k == a + j
    <3>1. k \in 1 .. Len(w) - x /\ x + k = y + j
      BY <1>0
    <3>2. s[j] = r[k]
      BY <1>2
    <3> HIDE DEF k, y
    <3>3. r[k] = w[x + k]
      BY <1>1, <3>1
    <3>4. QED
      BY <3>1, <3>2, <3>3, Zenon
  <2>2. QED
    BY <2>1
<1> HIDE DEF y
<1>5. IsText(t) /\ Len(t) = n /\ \A j \in 1 .. n : t[j] = w[y + j]
  BY <1>3, PieceIs
<1> HIDE DEF t
<1>6. s = t
  BY <1>2, <1>4, <1>5, TextEqual
<1>7. QED
  BY <1>6, Zenon DEF Part, s, t, y, r

LEMMA RestOfRest ==
  ASSUME NEW w, IsText(w), NEW x \in Nat, NEW n \in Nat, x + n <= Len(w)
  PROVE  /\ SubSeq(Rest(w, x), 1, n) = SubSeq(w, x + 1, x + n)
         /\ SubSeq(Rest(w, x), n + 1, Len(Rest(w, x))) = Rest(w, x + n)
<1>0. Len(w) \in Nat
  BY TextIs
<1>1. SubSeq(Rest(w, x), 1, n) = SubSeq(w, x + 1, x + n)
  <2>1. 0 \in Nat /\ (x + 0) + n <= Len(w)
    OBVIOUS
  <2>2. Part(w, x, 0, n)
    BY <2>1, PartOfRest
  <2>3. 0 + 1 = 1 /\ 0 + n = n /\ x + 0 = x
    OBVIOUS
  <2>4. QED
    BY <2>2, <2>3, Zenon DEF Part
<1>2. SubSeq(Rest(w, x), n + 1, Len(Rest(w, x))) = Rest(w, x + n)
  <2> DEFINE m == Len(w) - (x + n)
             y == x + n
  <2>1. m \in Nat /\ y + m = Len(w) /\ n + m = Len(w) - x
    BY <1>0, SMTT(60)
  <2>2. Len(Rest(w, x)) = n + m
    <3>1. x \in 0 .. Len(w)
      BY <1>0
    <3>2. QED
      BY ZenonT(60), <2>1, <3>1, RestIs
  <2> HIDE DEF m
  <2>3. SubSeq(Rest(w, x), n + 1, n + m) = SubSeq(w, y + 1, y + m)
    <3>1. (x + n) + m <= Len(w)
      BY <1>0, <2>1
    <3>2. Part(w, x, n, m)
      BY <2>1, <3>1, PartOfRest
    <3>3. QED
      BY <3>2, Zenon DEF Part, y
  <2> HIDE DEF y
  <2>4. SubSeq(Rest(w, x), n + 1, Len(Rest(w, x))) = Rest(w, y)
    BY <2>1, <2>2, <2>3, Zenon DEF Rest
  <2>5. QED
    BY SMTT(60), <2>4 DEF y
<1>3. QED
  BY <1>1, <1>2

\* A message behind the first x bytes of a text, and one of the four parts of an update.
At(p, w, x, c) == [ctx |-> Context(p, w, x, c), message |-> Rest(w, x)]

\* The last block stays in the buffer until there are more bytes.
Current(w, x, c) ==
  /\ Buffered(w, x, c)
  /\ x = 0 => c = 0
  /\ x > 0 => x > HashBlock * c

Takes(p, w, x, n, c) == Took(Context(p, w, x + n, c), Rest(w, x), n) = At(p, w, x + n, c)

LEMMA TookIs ==
  ASSUME NEW p, NEW w, IsText(w), NEW x \in Nat, NEW n \in Nat, x + n <= Len(w), NEW c
  PROVE  Takes(p, w, x, n, c)
<1>1. SubSeq(Rest(w, x), n + 1, Len(Rest(w, x))) = Rest(w, x + n)
  BY RestOfRest
<1>2. QED
  BY <1>1, Zenon DEF Takes, Took, At

\* What is missing to a whole number of words and to a whole block.
LEMMA WordGap ==
  ASSUME NEW i \in 0 .. HashBlock
  PROVE  /\ Missing(i, WordBytes) \in Nat /\ i + Missing(i, WordBytes) <= HashBlock
         /\ (i + Missing(i, WordBytes)) % WordBytes = 0
<1> DEFINE D == WordBytes
           q == BlocksOf(D, i)
           g == (D - (i % D)) % D
           m == HashBlock \div D
<1>1. D \in Nat \ {0} /\ m \in Nat /\ HashBlock = D * m /\ i \in Nat
  BY HashSizes
<1> HIDE DEF D, m
<1>2. q \in Nat /\ g \in Nat /\ i + g = D * q
  BY <1>1, BlocksFilled
<1>3. g < D
  <2>1. D - (i % D) \in Int
    BY <1>1
  <2> DEFINE z == D - (i % D)
  <2> HIDE DEF z
  <2>2. z % D < D
    BY <1>1, <2>1 DEF z
  <2>3. QED
    BY <2>2 DEF z
<1> HIDE DEF q, g
<1>4. q <= m
  <2>1. SUFFICES ASSUME q >= m + 1 PROVE FALSE
    BY <1>1, <1>2
  <2>2. D * q = D * (q - (m + 1)) + (D * m + D) /\ D * (q - (m + 1)) \in Nat
    BY <1>1, <1>2, <2>1
  <2> DEFINE u == D * q
             v == D * m
             z == D * (q - (m + 1))
  <2>3. u = z + (v + D) /\ z \in Nat /\ v = HashBlock /\ i + g = u /\ v \in Nat
    BY <1>1, <1>2, <2>2
  <2> HIDE DEF u, v, z
  <2>4. g \in Nat /\ i <= HashBlock /\ HashBlock \in Nat /\ g < D
    BY <1>1, <1>2, <1>3, HashSizes
  <2>5. QED
    BY <1>1, <2>3, <2>4
<1>5. D * q <= D * m
  BY <1>1, <1>2, <1>4
<1>6. (D * q) % D = 0
  <2>1. (D * q + 0) % D = 0
    <3>1. 0 \in 0 .. (D - 1) /\ q \in Int
      BY <1>1, <1>2
    <3>2. QED
      BY <1>1, <3>1, Division
  <2>2. D * q \in Int
    BY <1>1, <1>2
  <2>3. QED
    BY <2>1, <2>2
<1>7. i + g <= HashBlock /\ (i + g) % D = 0
  BY <1>1, <1>2, <1>5, <1>6
<1>8. Missing(i, WordBytes) = g
  BY DEF Missing, g, D
<1>9. QED
  BY <1>2, <1>7, <1>8, Zenon DEF D

LEMMA BlockGap ==
  ASSUME NEW i \in 0 .. HashBlock
  PROVE  Missing(i, HashBlock) = IF i = 0 \/ i = HashBlock THEN 0 ELSE HashBlock - i
<1> DEFINE D == HashBlock
<1>1. D \in Nat \ {0}
  BY HashSizes
<1>2. Missing(i, D) = (D - (i % D)) % D
  BY DEF Missing
<1>3. i \in 0 .. D
  OBVIOUS
<1> HIDE DEF D
<1>4. D % D = 0 /\ 0 % D = 0 /\ \A j \in 0 .. (D - 1) : j % D = j
  BY <1>1, Remainders
<1>5. CASE i = 0
  <2>1. D - (i % D) = D
    BY <1>1, <1>4, <1>5
  <2>2. QED
    BY <1>2, <1>4, <1>5, <2>1 DEF D
<1>6. CASE i = D
  <2>1. D - (i % D) = D
    BY <1>1, <1>4, <1>6
  <2>2. QED
    BY <1>2, <1>4, <1>6, <2>1 DEF D
<1>7. CASE i # 0 /\ i # D
  <2>1. i \in 0 .. (D - 1) /\ D - i \in 0 .. (D - 1)
    BY <1>1, <1>3, <1>7
  <2>2. (D - (i % D)) % D = D - i
    BY <1>4, <2>1
  <2>3. QED
    BY <1>2, <1>7, <2>2 DEF D
<1>8. QED
  BY <1>5, <1>6, <1>7

LEMMA CurrentMore ==
  ASSUME NEW w, NEW x, NEW c, Current(w, x, c), NEW n \in Nat, x + n <= Len(w),
         NEW at, at = x - HashBlock * c, at + n <= HashBlock
  PROVE  Current(w, x + n, c)
<1> DEFINE y == HashBlock * c
<1>1. y \in Nat /\ x \in Nat /\ Len(w) \in Nat /\ x = y + at /\ at \in 0 .. HashBlock /\ HashBlock \in Nat
  <2>1. Buffered(w, x, c)
    BY DEF Current
  <2>2. at \in 0 .. HashBlock /\ y \in Nat /\ x = y + at
    BY <2>1, BufferIs
  <2>3. x \in Nat /\ Len(w) \in Nat /\ HashBlock \in Nat
    BY <2>1, TextIs, HashSizes DEF Buffered
  <2>4. QED
    BY <2>2, <2>3
<1>2. IsText(w) /\ c \in Nat /\ (x = 0 => c = 0) /\ (x > 0 => x > y)
  BY DEF Current, Buffered
<1>3. c = 0 => y = 0
  BY <1>1
<1> HIDE DEF y
<1>4. /\ x + n \in 0 .. Len(w) /\ y <= x + n /\ x + n <= y + HashBlock
      /\ (x + n = 0 => c = 0) /\ (x + n > 0 => x + n > y)
  BY <1>1, <1>2, <1>3
<1>5. QED
  BY <1>2, <1>4 DEF Current, Buffered, y

\* The bytes on their way to a whole number of words, or none.
Aligned(w, x, c) == x = Len(w) \/ (x - HashBlock * c) % WordBytes = 0

LEMMA AlignWordIs ==
  ASSUME NEW p, NEW w, NEW x, NEW c, Current(w, x, c)
  PROVE  \E y \in Nat : AlignWord(At(p, w, x, c)) = At(p, w, y, c) /\ Current(w, y, c) /\ Aligned(w, y, c)
<1> DEFINE at == x - HashBlock * c
           gap == Missing(at, WordBytes)
           r == Rest(w, x)
           n == Smaller(gap, Len(r))
           ctx == Context(p, w, x, c)
<1>1. Buffered(w, x, c) /\ IsText(w) /\ x \in 0 .. Len(w) /\ Len(w) \in Nat /\ x \in Nat
  BY TextIs DEF Current, Buffered
<1>2. at \in 0 .. HashBlock /\ HashBlock * c \in Nat /\ x = HashBlock * c + at
  BY <1>1, BufferIs
<1>3. gap \in Nat /\ at + gap <= HashBlock /\ (at + gap) % WordBytes = 0
  BY <1>2, WordGap
<1>4. Len(r) = Len(w) - x
  BY <1>1, RestIs
<1>5. n \in Nat /\ x + n <= Len(w) /\ n <= gap /\ (n = gap \/ x + n = Len(w))
  <2> HIDE DEF gap, r
  <2>1. QED
    BY <1>1, <1>3, <1>4 DEF Smaller
<1>6. AlignWord(At(p, w, x, c)) = Took(Ored(ctx, SubSeq(r, 1, n)), r, n)
  <2> DEFINE s == At(p, w, x, c)
  <2>1. s.ctx = ctx /\ s.message = r
    BY DEF At
  <2>2. ctx.input_idx = at
    BY DEF Context
  <2> HIDE DEF s, ctx, r, at
  <2>3. AlignWord(s) = Took(Ored(ctx, SubSeq(r, 1, n)), r, n)
    BY <2>1, <2>2 DEF AlignWord
  <2>4. QED
    BY <2>3 DEF s
<1> HIDE DEF at, gap, n
<1>7. at + n <= HashBlock
  BY <1>2, <1>3, <1>5, HashSizes
<1>8. Current(w, x + n, c)
  BY <1>5, <1>7, CurrentMore DEF at
<1>9. Buffered(w, x + n, c)
  BY <1>8 DEF Current
<1>10. Ored(ctx, SubSeq(r, 1, n)) = Context(p, w, x + n, c)
  <2>1. SubSeq(r, 1, n) = SubSeq(w, x + 1, x + n)
    BY <1>1, <1>5, RestOfRest
  <2>2. Ors(p, w, x, n, c)
    BY <1>1, <1>5, <1>9, OredIs
  <2>3. QED
    BY <2>1, <2>2, Zenon DEF Ors
<1>11. Took(Context(p, w, x + n, c), r, n) = At(p, w, x + n, c)
  <2>1. Takes(p, w, x, n, c)
    BY <1>1, <1>5, TookIs
  <2>2. QED
    BY <2>1, Zenon DEF Takes
<1>12. AlignWord(At(p, w, x, c)) = At(p, w, x + n, c)
  BY <1>6, <1>10, <1>11, Zenon
<1>13. Aligned(w, x + n, c)
  <2>1. (x + n) - HashBlock * c = at + n
    BY <1>2, <1>5
  <2>2. n = gap => (at + n) % WordBytes = 0
    BY <1>3
  <2>3. QED
    BY <1>5, <2>1, <2>2, Zenon DEF Aligned
<1>14. x + n \in Nat
  BY <1>1, <1>5
<1>15. QED
  BY <1>8, <1>12, <1>13, <1>14, Zenon

\* The buffer is empty or full, or too little is left for a word and to fill it.
Level(w, x, c) ==
  \/ x = HashBlock * c \/ x = HashBlock * c + HashBlock
  \/ Len(w) - x < WordBytes /\ Len(w) <= HashBlock * c + HashBlock

LEMMA AlignBlockIs ==
  ASSUME NEW p, NEW w, NEW x, NEW c, Current(w, x, c), Aligned(w, x, c)
  PROVE  \E y \in Nat : AlignBlock(At(p, w, x, c)) = At(p, w, y, c) /\ Current(w, y, c) /\ Level(w, y, c)
<1> DEFINE at == x - HashBlock * c
           gap == Missing(at, HashBlock)
           r == Rest(w, x)
           m == Smaller(gap, Len(r))
           n == WordBytes * (m \div WordBytes)
           ctx == Context(p, w, x, c)
<1>1. Buffered(w, x, c) /\ IsText(w) /\ x \in 0 .. Len(w) /\ Len(w) \in Nat /\ x \in Nat
  BY TextIs DEF Current, Buffered
<1>2. at \in 0 .. HashBlock /\ HashBlock * c \in Nat /\ x = HashBlock * c + at
  BY <1>1, BufferIs
<1>3. gap = IF at = 0 \/ at = HashBlock THEN 0 ELSE HashBlock - at
  BY <1>2, BlockGap
<1>4. Len(r) = Len(w) - x
  BY <1>1, RestIs
<1>5. gap \in Nat /\ at + gap <= HashBlock /\ (gap = 0 \/ at + gap = HashBlock)
  <2> HIDE DEF gap, at
  <2>1. QED
    BY <1>2, <1>3, HashSizes
<1>6. m \in Nat /\ m <= gap /\ m <= Len(w) - x /\ (m = gap \/ m = Len(w) - x)
  <2> HIDE DEF gap, r
  <2>1. QED
    BY <1>1, <1>4, <1>5 DEF Smaller
<1> HIDE DEF m
<1>7. n \in Nat /\ n <= m /\ m - n < WordBytes
  <2> DEFINE q == m \div WordBytes
             s == m % WordBytes
             D == WordBytes
  <2>1. D \in Nat \ {0}
    BY HashSizes
  <2>2. q \in Nat /\ s \in 0 .. (D - 1) /\ m = D * q + s /\ n = D * q
    BY <1>6, <2>1
  <2>3. D * q \in Nat
    BY <2>1, <2>2
  <2> HIDE DEF q, s, n, D
  <2>4. QED
    BY <2>1, <2>2, <2>3 DEF D
<1>8. AlignBlock(At(p, w, x, c)) = Took(Loaded(ctx, at, SubSeq(r, 1, n)), r, n)
  <2> DEFINE s == At(p, w, x, c)
  <2>1. s.ctx = ctx /\ s.message = r
    BY DEF At
  <2>2. ctx.input_idx = at
    BY DEF Context
  <2> HIDE DEF s, ctx, r, at
  <2>3. AlignBlock(s) = Took(Loaded(ctx, at, SubSeq(r, 1, n)), r, n)
    BY <2>1, <2>2 DEF AlignBlock, m
  <2>4. QED
    BY <2>3 DEF s
<1>9. x = Len(w) \/ at % WordBytes = 0
  BY DEF Aligned
<1>10. at % WordBytes = 0 /\ m = gap => n = gap
  <2> SUFFICES ASSUME at % WordBytes = 0, m = gap PROVE n = gap
    OBVIOUS
  <2> DEFINE D == WordBytes
             q == m \div D
             a == at \div D
             e == HashBlock \div D
  <2>1. D \in Nat \ {0} /\ HashBlock \in Nat /\ HashBlock % D = 0
    BY HashSizes
  <2>2. a \in Nat /\ at = D * a /\ e \in Nat /\ HashBlock = D * e
    <3> HIDE DEF D, at
    <3>1. at = D * (at \div D) + (at % D) /\ HashBlock = D * (HashBlock \div D) + (HashBlock % D)
          /\ at \div D \in Nat /\ HashBlock \div D \in Nat
      BY <1>2, <2>1
    <3>2. at % D = 0
      BY DEF D
    <3>3. QED
      BY <1>2, <2>1, <3>1, <3>2
  <2> HIDE DEF D, q, a, e, at, gap, n
  <2>3. CASE gap = 0
    <3>1. n \in Nat /\ n <= gap
      BY <1>7
    <3>2. QED
      BY <2>3, <3>1
  <2>4. CASE at + gap = HashBlock
    <3>1. m = D * (e - a) + 0 /\ e - a \in Int /\ 0 \in 0 .. (D - 1)
      BY <1>6, <2>1, <2>2, <2>4
    <3> DEFINE k == e - a
    <3>2. m = D * k + 0 /\ k \in Int
      BY <3>1
    <3> HIDE DEF k
    <3>3. (D * k + 0) \div D = k
      BY <2>1, <3>1, <3>2, Division
    <3>4. q = k
      BY <3>2, <3>3, Zenon DEF q
    <3>5. n = D * k
      BY <3>4, Zenon DEF n, q, D
    <3>6. D * k \in Int
      BY <2>1, <3>2
    <3>7. QED
      BY <3>2, <3>5, <3>6
  <2>5. QED
    BY <1>5, <2>3, <2>4
<1> HIDE DEF at, gap, n
<1>11. x + n <= Len(w) /\ at + n <= HashBlock
  BY <1>1, <1>2, <1>5, <1>6, <1>7, HashSizes
<1>12. Current(w, x + n, c)
  BY <1>7, <1>11, CurrentMore DEF at
<1>13. Buffered(w, x + n, c)
  BY <1>12 DEF Current
<1>14. Loaded(ctx, at, SubSeq(r, 1, n)) = Context(p, w, x + n, c)
  <2>1. SubSeq(r, 1, n) = SubSeq(w, x + 1, x + n)
    BY <1>1, <1>7, <1>11, RestOfRest
  <2>2. Loads(p, w, x, n, c)
    BY <1>1, <1>7, <1>13, LoadedIs
  <2>3. QED
    BY <2>1, <2>2, Zenon DEF Loads, at
<1>15. Took(Context(p, w, x + n, c), r, n) = At(p, w, x + n, c)
  <2>1. Takes(p, w, x, n, c)
    BY <1>1, <1>7, <1>11, TookIs
  <2>2. QED
    BY <2>1, Zenon DEF Takes
<1>16. AlignBlock(At(p, w, x, c)) = At(p, w, x + n, c)
  BY <1>8, <1>14, <1>15, Zenon
<1>17. Level(w, x + n, c)
  <2> DEFINE y == HashBlock * c
  <2>1. y \in Nat /\ x = y + at /\ at \in Nat /\ WordBytes \in Nat \ {0} /\ HashBlock \in Nat
    BY <1>2, HashSizes
  <2> HIDE DEF y
  <2>2. CASE x = Len(w)
    <3>1. n = 0
      BY <1>1, <1>6, <1>7, <2>2
    <3>2. Len(w) - (x + n) < WordBytes /\ Len(w) <= y + HashBlock
      BY <1>1, <1>2, <2>1, <2>2, <3>1
    <3>3. QED
      BY <3>2 DEF Level, y
  <2>3. CASE at % WordBytes = 0 /\ m = gap
    <3>1. n = gap
      BY <1>10, <2>3
    <3>2. CASE at = 0 \/ at = HashBlock
      <4>1. gap = 0
        BY <1>3, <3>2
      <4>2. x + n = y \/ x + n = y + HashBlock
        BY <1>1, <2>1, <3>1, <3>2, <4>1
      <4>3. QED
        BY <4>2 DEF Level, y
    <3>3. CASE at # 0 /\ at # HashBlock
      <4>1. gap = HashBlock - at
        BY <1>3, <3>3
      <4>2. x + n = y + HashBlock
        BY <1>1, <2>1, <3>1, <4>1
      <4>3. QED
        BY <4>2 DEF Level, y
    <3>4. QED
      BY <3>2, <3>3
  <2>4. CASE m = Len(w) - x
    <3>1. Len(w) - (x + n) < WordBytes /\ Len(w) <= y + HashBlock
      BY <1>1, <1>2, <1>5, <1>6, <1>7, <2>1, <2>4, SMTT(60)
    <3>2. QED
      BY <3>1 DEF Level, y
  <2>5. QED
    BY <1>6, <1>9, <2>2, <2>3, <2>4
<1>18. x + n \in Nat
  BY <1>1, <1>7
<1>19. QED
  BY <1>12, <1>16, <1>17, <1>18, Zenon

(* -------- whole blocks -------- *)

\* A context with another buffer is that of more bytes.
LEMMA RefilledIs ==
  ASSUME NEW p, NEW w, NEW x, NEW c, NEW y, NEW i, i = BlockAt(w, y, c + 1),
         NEW n, n = y - HashBlock * c
  PROVE  Refilled(Context(p, w, x, c), i, n) = Context(p, w, y, c)
<1> DEFINE u == (HashBlock * c) % OffsetWord
           v == ((HashBlock * c) \div OffsetWord) % OffsetWord
           h == Hashed(w, c)
           j == BlockAt(w, x, c + 1)
           m == x - HashBlock * c
<1>1. Context(p, w, x, c) = Ctx(p, h, u, v, j, m)
  BY ContextIs, Zenon
<1>2. Context(p, w, y, c) = Ctx(p, h, u, v, i, n)
  <2>1. Context(p, w, y, c) = Ctx(p, h, u, v, BlockAt(w, y, c + 1), y - HashBlock * c)
    BY ContextIs, Zenon
  <2>2. QED
    BY <2>1, Zenon
<1> HIDE DEF u, v, h, j, m
<1>3. Refilled(Ctx(p, h, u, v, j, m), i, n) = Ctx(p, h, u, v, i, n)
  BY CtxReloaded
<1>4. QED
  BY <1>1, <1>2, <1>3, Zenon

\* A full buffer is compressed before anything else is put into it.
Flushed(ctx) == IF ctx.input_idx = HashBlock THEN blake2b_compress(ctx, FALSE) ELSE ctx

\* A buffer that is empty or full takes a whole block, which is block e + 1 of the text.
Whole(w, x, c, e) ==
  /\ Buffered(w, x, c) /\ (x = HashBlock * c \/ x = HashBlock * c + HashBlock)
  /\ e \in Nat /\ x = HashBlock * e

LEMMA WholeIs ==
  ASSUME NEW w, NEW x, NEW c, NEW e, Whole(w, x, c, e)
  PROVE  (x = HashBlock * c /\ e = c) \/ (x = HashBlock * c + HashBlock /\ e = c + 1)
<1>1. c \in Nat /\ e \in Nat /\ HashBlock \in Nat \ {0} /\ x = HashBlock * e
      /\ (x = HashBlock * c \/ x = HashBlock * c + HashBlock)
  BY HashSizes DEF Whole, Buffered
<1>2. \A a, b \in Nat : HashBlock * a = HashBlock * b => a = b
  <2> SUFFICES ASSUME NEW a \in Nat, NEW b \in Nat, HashBlock * a = HashBlock * b PROVE a = b
    OBVIOUS
  <2>1. (HashBlock * a + 0) \div HashBlock = a /\ (HashBlock * b + 0) \div HashBlock = b
    <3>1. 0 \in 0 .. (HashBlock - 1) /\ a \in Int /\ b \in Int
      BY <1>1
    <3>2. QED
      BY <1>1, <3>1, Division
  <2>2. QED
    BY <2>1
<1>3. CASE x = HashBlock * c
  BY <1>1, <1>2, <1>3
<1>4. CASE x = HashBlock * c + HashBlock
  <2>1. HashBlock * (c + 1) = x /\ c + 1 \in Nat
    BY <1>1, <1>4
  <2>2. QED
    BY <1>1, <1>2, <1>4, <2>1
<1>5. QED
  BY <1>1, <1>3, <1>4

\* The next block of a text, as it is cut off.
LEMMA NextBlockIs ==
  ASSUME NEW w, IsText(w), NEW x \in Nat, NEW e \in Nat, x = HashBlock * e, x + HashBlock <= Len(w)
  PROVE  SubSeq(w, x + 1, x + HashBlock) = BlockAt(w, x + HashBlock, e + 1)
<1> DEFINE s == SubSeq(w, x + 1, x + HashBlock)
           t == BlockAt(w, x + HashBlock, e + 1)
<1>0. HashBlock \in Nat /\ HashBlock * ((e + 1) - 1) = x
  BY HashSizes
<1>1. IsText(s) /\ Len(s) = HashBlock /\ \A j \in 1 .. HashBlock : s[j] = w[x + j]
  BY <1>0, PieceIs
<1>2. IsText(t) /\ Len(t) = HashBlock
  BY BlockIs
<1>3. \A j \in 1 .. HashBlock : t[j] = w[x + j]
  <2> SUFFICES ASSUME NEW j \in 1 .. HashBlock PROVE t[j] = w[x + j]
    OBVIOUS
  <2>1. x + j <= x + HashBlock
    BY <1>0
  <2>2. QED
    BY <1>0, <2>1 DEF BlockAt
<1> HIDE DEF s, t
<1>4. s = t
  BY <1>1, <1>2, <1>3, TextEqual
<1>5. QED
  BY <1>4 DEF s, t

TakesBlock(p, w, x, c, e) ==
  Refilled(Flushed(Context(p, w, x, c)), SubSeq(w, x + 1, x + HashBlock), HashBlock) =
    Context(p, w, x + HashBlock, e)

LEMMA TakesBlockIs ==
  ASSUME NEW p, NEW w, NEW x, NEW c, NEW e, Whole(w, x, c, e), x + HashBlock <= Len(w)
  PROVE  TakesBlock(p, w, x, c, e)
<1> DEFINE i == SubSeq(w, x + 1, x + HashBlock)
           y == x + HashBlock
           ctx == Context(p, w, x, c)
<1>0. /\ HashBlock \in Nat \ {0} /\ x \in Nat /\ e \in Nat /\ c \in Nat /\ x = HashBlock * e /\ IsText(w)
      /\ Buffered(w, x, c) /\ HashBlock * c \in Nat
  BY HashSizes, TextIs DEF Whole, Buffered
<1>1. i = BlockAt(w, y, e + 1)
  BY <1>0, NextBlockIs
<1>2. HashBlock = y - HashBlock * e
  BY <1>0
<1>3. ctx.input_idx = x - HashBlock * c
  BY DEF Context
<1>4. Refilled(Context(p, w, x, e), i, HashBlock) = Context(p, w, y, e)
  <2> HIDE DEF i, y
  <2>1. QED
    BY <1>1, <1>2, RefilledIs
<1>5. CASE x = HashBlock * c /\ e = c
  <2>1. ctx.input_idx # HashBlock
    BY <1>0, <1>3, <1>5
  <2>2. Flushed(ctx) = ctx
    BY <2>1, Zenon DEF Flushed
  <2>3. QED
    BY <1>4, <1>5, <2>2, Zenon DEF TakesBlock
<1>6. CASE x = HashBlock * c + HashBlock /\ e = c + 1
  <2>1. ctx.input_idx = HashBlock
    BY <1>0, <1>3, <1>6
  <2>2. Flushed(ctx) = blake2b_compress(ctx, FALSE)
    BY <2>1, Zenon DEF Flushed
  <2> HIDE DEF i
  <2>3. Refilled(blake2b_compress(ctx, FALSE), i, HashBlock) = Refilled(Context(p, w, x, c + 1), i, HashBlock)
    <3>1. Compresses(p, w, x, c, i, HashBlock)
      BY <1>0, <1>6, CompressFull
    <3>2. QED
      BY <3>1, Zenon DEF Compresses
  <2>4. QED
    BY <1>4, <1>6, <2>2, <2>3, Zenon DEF TakesBlock, i
<1>7. QED
  BY <1>5, <1>6, WholeIs

\* The contexts between the blocks of a message.
Filling(g, ctx, message, n) ==
  g = [b \in 0 .. n |->
         IF b = 0 THEN ctx
         ELSE Refilled(Flushed(g[b - 1]), SubSeq(message, HashBlock * (b - 1) + 1, HashBlock * b), HashBlock)]

\* The context behind b blocks of a message that begins behind x bytes of a text.
Reached(p, w, x, c, e, b) ==
  IF b = 0 THEN Context(p, w, x, c) ELSE Context(p, w, x + HashBlock * b, (e + b) - 1)

FillsTo(p, w, x, c, e, b) ==
  Refilled(Flushed(Reached(p, w, x, c, e, b - 1)),
           SubSeq(Rest(w, x), HashBlock * (b - 1) + 1, HashBlock * b), HashBlock) =
    Reached(p, w, x, c, e, b)

LEMMA FillsToIs ==
  ASSUME NEW p, NEW w, NEW x, NEW c, NEW e, Whole(w, x, c, e), NEW n \in Nat \ {0},
         x + HashBlock * n <= Len(w), NEW k \in 1 .. n
  PROVE  FillsTo(p, w, x, c, e, k)
<1> DEFINE b == k - 1
           y == x + HashBlock * b
           count == IF b = 0 THEN c ELSE (e + b) - 1
           m == HashBlock * b
<1>0. /\ HashBlock \in Nat \ {0} /\ x \in Nat /\ e \in Nat /\ x = HashBlock * e /\ IsText(w)
      /\ Len(w) \in Nat /\ Buffered(w, x, c)
  BY HashSizes, TextIs DEF Whole, Buffered
<1>1. b \in Nat /\ m \in Nat /\ HashBlock * k = m + HashBlock /\ k # 0 /\ b \in 0 .. (n - 1) /\ k = b + 1
  BY <1>0
<1>2. m + HashBlock <= HashBlock * n
  <2>1. HashBlock * n = (m + HashBlock) + HashBlock * ((n - b) - 1) /\ HashBlock * ((n - b) - 1) \in Nat
    BY <1>0, <1>1
  <2> DEFINE j == HashBlock * ((n - b) - 1)
             s == HashBlock * n
  <2>2. s = (m + HashBlock) + j /\ j \in Nat
    BY <2>1
  <2> HIDE DEF j, s, m
  <2>3. m + HashBlock <= s
    BY <1>0, <1>1, <2>2
  <2>4. QED
    BY <2>3 DEF s
<1>3. y \in Nat /\ y + HashBlock <= Len(w)
  <2> DEFINE s == HashBlock * n
  <2>1. x + s <= Len(w) /\ m + HashBlock <= s /\ s \in Nat
    BY <1>0, <1>2
  <2> HIDE DEF s, m
  <2>2. x + m \in Nat /\ (x + m) + HashBlock <= Len(w)
    BY <1>0, <1>1, <2>1
  <2>3. QED
    BY <2>2 DEF m
<1>4. Whole(w, y, count, e + b)
  <2>1. y = HashBlock * (e + b) /\ e + b \in Nat
    BY <1>0, <1>1
  <2>2. CASE b = 0
    <3>1. y = x /\ count = c /\ e + b = e
      BY <1>0, <2>2
    <3>2. QED
      BY <3>1
  <2>3. CASE b # 0
    <3>1. count \in Nat /\ count = (e + b) - 1
      BY <1>0, <1>1, <2>3
    <3>2. HashBlock * count + HashBlock = y /\ HashBlock * count \in Nat
      BY <1>0, <2>1, <3>1
    <3> HIDE DEF y, count
    <3>3. HashBlock * count <= y /\ y <= HashBlock * count + HashBlock /\ y \in 0 .. Len(w)
      BY <1>0, <1>3, <3>2
    <3>4. QED
      BY <1>0, <2>1, <3>1, <3>2, <3>3 DEF Whole, Buffered
  <2>4. QED
    BY <2>2, <2>3
<1>5. TakesBlock(p, w, y, count, e + b)
  <2> HIDE DEF y, count
  <2>1. QED
    BY <1>3, <1>4, TakesBlockIs
<1>6. SubSeq(Rest(w, x), m + 1, m + HashBlock) = SubSeq(w, y + 1, y + HashBlock)
  <2>1. Part(w, x, m, HashBlock)
    <3>1. (x + m) + HashBlock <= Len(w)
      BY <1>3
    <3> HIDE DEF m
    <3>2. QED
      BY <1>0, <1>1, <3>1, PartOfRest
  <2>2. QED
    BY <2>1, Zenon DEF Part
<1>7. Reached(p, w, x, c, e, b) = Context(p, w, y, count)
  <2>1. CASE b = 0
    <3>1. y = x /\ count = c
      BY <1>0, <2>1
    <3>2. QED
      BY <2>1, <3>1, Zenon DEF Reached
  <2>2. CASE b # 0
    BY <2>2, Zenon DEF Reached
  <2>3. QED
    BY <2>1, <2>2
<1>8. y + HashBlock = x + HashBlock * k /\ e + b = (e + k) - 1
  BY <1>0, <1>1
<1>9. Reached(p, w, x, c, e, k) = Context(p, w, y + HashBlock, e + b)
  BY <1>1, <1>8, Zenon DEF Reached
<1> HIDE DEF y, count
<1>10. Refilled(Flushed(Reached(p, w, x, c, e, b)), SubSeq(Rest(w, x), m + 1, m + HashBlock), HashBlock) =
         Reached(p, w, x, c, e, k)
  BY <1>5, <1>6, <1>7, <1>9, Zenon DEF TakesBlock
<1>11. QED
  BY <1>1, <1>10, Zenon DEF FillsTo, m, b

\* The recursion has this one solution.
LEMMA FillingIs ==
  ASSUME NEW p, NEW w, NEW x, NEW c, NEW e, Whole(w, x, c, e), NEW n \in Nat \ {0},
         x + HashBlock * n <= Len(w), NEW g,
         g = CHOOSE f : Filling(f, Context(p, w, x, c), Rest(w, x), n)
  PROVE  g[n] = Reached(p, w, x, c, e, n)
<1> DEFINE R(b) == Reached(p, w, x, c, e, b)
           r == Rest(w, x)
           ctx == Context(p, w, x, c)
           F(f, b) == Refilled(Flushed(f[b - 1]), SubSeq(r, HashBlock * (b - 1) + 1, HashBlock * b), HashBlock)
           h == [b \in 0 .. n |-> R(b)]
           T == {b \in 0 .. n : g[b] = h[b]}
<1>1. \A f : Filling(f, ctx, r, n) <=> f = [b \in 0 .. n |-> IF b = 0 THEN ctx ELSE F(f, b)]
  BY Zenon DEF Filling
<1>2. \A b \in 1 .. n : F(h, b) = R(b)
  <2> SUFFICES ASSUME NEW b \in 1 .. n PROVE F(h, b) = R(b)
    OBVIOUS
  <2>1. FillsTo(p, w, x, c, e, b)
    BY FillsToIs
  <2>2. b - 1 \in 0 .. n
    OBVIOUS
  <2> HIDE DEF R
  <2>3. h[b - 1] = R(b - 1)
    BY <2>2
  <2> HIDE DEF h
  <2>4. QED
    BY <2>1, <2>3, Zenon DEF R, FillsTo
<1>3. R(0) = ctx
  BY Zenon DEF Reached
<1>4. h[0] = ctx /\ h = [b \in 0 .. n |-> h[b]] /\ \A b \in 1 .. n : h[b] = R(b)
  <2> HIDE DEF R
  <2>1. QED
    BY <1>3
<1> HIDE DEF R, F, ctx, r, h
<1>5. h = [b \in 0 .. n |-> IF b = 0 THEN ctx ELSE F(h, b)]
  <2>1. \A b \in 0 .. n : h[b] = IF b = 0 THEN ctx ELSE F(h, b)
    <3>1. \A b \in 0 .. n : b = 0 \/ b \in 1 .. n
      OBVIOUS
    <3>2. QED
      BY <1>2, <1>4, <3>1
  <2>2. QED
    BY <1>4, <2>1
<1>6. Filling(g, ctx, r, n)
  <2>1. Filling(h, ctx, r, n)
    BY <1>1, <1>5, Zenon
  <2>2. g = CHOOSE f : Filling(f, ctx, r, n)
    BY Zenon DEF ctx, r
  <2>3. QED
    BY <2>1, <2>2, Zenon
<1>7. g = [b \in 0 .. n |-> IF b = 0 THEN ctx ELSE F(g, b)]
  BY <1>6, Zenon DEF Filling, F
<1>8. g[0] = ctx /\ \A b \in 1 .. n : g[b] = F(g, b)
  <2> DEFINE G(b) == F(g, b)
  <2>1. g = [b \in 0 .. n |-> IF b = 0 THEN ctx ELSE G(b)]
    BY <1>7
  <2> HIDE DEF G
  <2>2. g[0] = ctx /\ \A b \in 1 .. n : g[b] = G(b)
    <3>1. 0 \in 0 .. n /\ \A b \in 1 .. n : b \in 0 .. n /\ b # 0
      OBVIOUS
    <3>2. \A b \in 0 .. n : g[b] = IF b = 0 THEN ctx ELSE G(b)
      BY <2>1, Zenon
    <3>3. QED
      BY <3>1, <3>2
  <2>3. QED
    BY <2>2 DEF G
<1>9. 0 \in T
  BY <1>4, <1>8
<1>10. ASSUME NEW b \in 0 .. (n - 1), b \in T
       PROVE  b + 1 \in T
  <2> DEFINE k == b + 1
  <2>1. k \in 1 .. n /\ k \in 0 .. n /\ k - 1 = b
    OBVIOUS
  <2>2. g[k - 1] = h[k - 1]
    BY <1>10, <2>1
  <2> HIDE DEF k
  <2>3. F(g, k) = F(h, k)
    BY <2>2, Zenon DEF F
  <2>4. g[k] = h[k]
    BY <1>2, <1>4, <1>8, <2>1, <2>3
  <2>5. k \in T
    BY <2>1, <2>4
  <2>6. QED
    BY <2>5 DEF k
<1>11. n \in T
  <2> HIDE DEF T
  <2>1. \A b \in 0 .. n : b \in T
    BY <1>9, <1>10, InductionTo
  <2>2. QED
    BY <2>1
<1>12. g[n] = h[n] /\ n \in 1 .. n
  BY <1>11
<1>13. QED
  BY <1>4, <1>12, Zenon DEF R

\* The blocks of a message are in, and less than one is left.
TextSettled(p, w, s, y, e) ==
  s = At(p, w, y, e) /\ Current(w, y, e) /\ Level(w, y, e) /\ y \in Nat /\ Len(w) - y < HashBlock

LEMMA WholeBlocksUnfold ==
  ASSUME NEW s, NEW n, n = Len(s.message) \div HashBlock,
         NEW g, g = CHOOSE f : Filling(f, s.ctx, s.message, n)
  PROVE  WholeBlocks(s) = Took(g[n], s.message, HashBlock * n)
BY Zenon DEF WholeBlocks, Filling, Refilled, Flushed

LEMMA NoBlock ==
  ASSUME NEW ctx, NEW r, NEW g, g = CHOOSE f : Filling(f, ctx, r, 0)
  PROVE  g[0] = ctx
<1> DEFINE F(f, b) == Refilled(Flushed(f[b - 1]), SubSeq(r, HashBlock * (b - 1) + 1, HashBlock * b), HashBlock)
           h == [b \in 0 .. 0 |-> ctx]
<1>1. \A f : Filling(f, ctx, r, 0) <=> f = [b \in 0 .. 0 |-> IF b = 0 THEN ctx ELSE F(f, b)]
  BY Zenon DEF Filling
<1> HIDE DEF F
<1>2. \A b \in 0 .. 0 : b = 0
  OBVIOUS
<1>3. h = [b \in 0 .. 0 |-> IF b = 0 THEN ctx ELSE F(h, b)]
  BY <1>2
<1> HIDE DEF h
<1>4. Filling(g, ctx, r, 0)
  BY <1>1, <1>3, Zenon
<1>5. g = [b \in 0 .. 0 |-> IF b = 0 THEN ctx ELSE F(g, b)] /\ 0 \in 0 .. 0
  BY <1>1, <1>4
<1>6. QED
  BY <1>5

LEMMA WholeBlocksIs ==
  ASSUME NEW p, NEW w, NEW x, NEW c, Current(w, x, c), Level(w, x, c)
  PROVE  \E y, e : TextSettled(p, w, WholeBlocks(At(p, w, x, c)), y, e)
<1> DEFINE s == At(p, w, x, c)
           r == Rest(w, x)
           ctx == Context(p, w, x, c)
           n == Len(r) \div HashBlock
           g == CHOOSE f : Filling(f, ctx, r, n)
<1>1. Buffered(w, x, c) /\ IsText(w) /\ x \in 0 .. Len(w) /\ Len(w) \in Nat /\ x \in Nat
      /\ HashBlock \in Nat \ {0} /\ HashBlock * c \in Nat /\ c \in Nat
  <2>1. Buffered(w, x, c)
    BY DEF Current
  <2>2. IsText(w) /\ x \in 0 .. Len(w) /\ c \in Nat
    BY <2>1 DEF Buffered
  <2>3. QED
    BY <2>1, <2>2, TextIs, HashSizes
<1>2. IsText(r) /\ Len(r) = Len(w) - x /\ Len(r) \in Nat
  BY <1>1, RestIs
<1>3. n \in Nat /\ HashBlock * n \in Nat /\ HashBlock * n <= Len(r) /\ Len(r) - HashBlock * n < HashBlock
  <2>1. Len(r) = HashBlock * n + (Len(r) % HashBlock) /\ n \in Nat /\ Len(r) % HashBlock \in 0 .. (HashBlock - 1)
    BY <1>1, <1>2, LowAndHigh
  <2> DEFINE m == HashBlock * n
             o == Len(r) % HashBlock
             l == Len(r)
  <2>2. m \in Nat /\ l = m + o /\ o \in 0 .. (HashBlock - 1)
    BY <1>1, <2>1
  <2> HIDE DEF m, o, l
  <2>3. m <= l /\ l - m < HashBlock
    BY <1>1, <2>2
  <2>4. QED
    BY <2>1, <2>2, <2>3 DEF m, l
<1>4. WholeBlocks(s) = Took(g[n], r, HashBlock * n)
  <2>1. s.ctx = ctx /\ s.message = r
    BY DEF At
  <2> HIDE DEF s, ctx, r
  <2>2. QED
    BY <2>1, WholeBlocksUnfold
<1>5. CASE n = 0
  <2>1. g[n] = ctx /\ HashBlock * n = 0
    <3>1. g = CHOOSE f : Filling(f, ctx, r, 0)
      BY <1>5
    <3> HIDE DEF g, ctx, r
    <3>2. g[0] = ctx
      BY <3>1, NoBlock
    <3>3. QED
      BY <1>1, <1>5, <3>2
  <2>2. Took(ctx, r, 0) = s
    <3>1. 0 \in Nat /\ x + 0 <= Len(w) /\ x + 0 = x
      BY <1>1
    <3>2. Takes(p, w, x, 0, c)
      BY <1>1, <3>1, TookIs
    <3>3. QED
      BY <3>1, <3>2, Zenon DEF Takes
  <2>3. WholeBlocks(s) = s
    BY <1>4, <2>1, <2>2
  <2>4. Len(w) - x < HashBlock
    BY <1>2, <1>3, <2>1
  <2>5. TextSettled(p, w, WholeBlocks(s), x, c)
    BY <1>1, <2>3, <2>4, Zenon DEF TextSettled
  <2>6. QED
    BY <2>5
<1>6. CASE n # 0
  <2> DEFINE y == x + HashBlock * n
  <2>1. n \in Nat \ {0} /\ y \in Nat /\ y <= Len(w) /\ Len(w) - y < HashBlock /\ HashBlock * n = HashBlock + HashBlock * (n - 1)
        /\ HashBlock * (n - 1) \in Nat
    <3>1. n - 1 \in Nat /\ HashBlock * n = HashBlock + HashBlock * (n - 1) /\ HashBlock * (n - 1) \in Nat
      BY <1>1, <1>3, <1>6
    <3> DEFINE m == HashBlock * n
    <3>2. m \in Nat /\ m <= Len(w) - x /\ (Len(w) - x) - m < HashBlock
      BY <1>2, <1>3
    <3> HIDE DEF m
    <3>3. x + m \in Nat /\ x + m <= Len(w) /\ Len(w) - (x + m) < HashBlock
      BY <1>1, <3>2
    <3>4. QED
      BY <1>3, <1>6, <3>1, <3>3 DEF m
  <2>2. x = HashBlock * c \/ x = HashBlock * c + HashBlock
    <3>1. Len(w) - x >= HashBlock /\ HashBlock >= WordBytes
      <4>1. HashBlock <= HashBlock * n
        BY <1>1, <2>1
      <4>2. Len(w) - x >= HashBlock
        BY <1>1, <1>2, <1>3, <4>1
      <4>3. HashBlock >= WordBytes
        <5>1. WordBytes \in Nat \ {0} /\ HashBlock % WordBytes = 0
          BY HashSizes
        <5>2. HashBlock < WordBytes => HashBlock % WordBytes = HashBlock
          BY <1>1, <5>1, LowAndHigh
        <5>3. QED
          BY <1>1, <5>1, <5>2
      <4>4. QED
        BY <4>2, <4>3
    <3>2. WordBytes \in Nat
      BY HashSizes
    <3>3. ~(Len(w) - x < WordBytes)
      BY <1>1, <3>1, <3>2
    <3>4. QED
      BY <3>3 DEF Level
  <2>3. PICK e : Whole(w, x, c, e)
    <3>1. CASE x = HashBlock * c
      BY <1>1, <3>1 DEF Whole
    <3>2. CASE x = HashBlock * c + HashBlock
      <4>1. c + 1 \in Nat /\ x = HashBlock * (c + 1)
        BY <1>1, <3>2
      <4>2. QED
        BY <1>1, <3>2, <4>1 DEF Whole
    <3>3. QED
      BY <2>2, <3>1, <3>2
  <2>4. g[n] = Reached(p, w, x, c, e, n)
    <3>1. x + HashBlock * n <= Len(w)
      BY <2>1
    <3> DEFINE k == n
    <3>2. k \in Nat \ {0} /\ x + HashBlock * k <= Len(w) /\ g = CHOOSE f : Filling(f, ctx, r, k)
      BY <2>1, <3>1
    <3> HIDE DEF k
    <3> HIDE DEF g
    <3>3. g[k] = Reached(p, w, x, c, e, k)
      BY <2>3, <3>2, FillingIs
    <3>4. QED
      BY <3>3, Zenon DEF k
  <2> DEFINE count == (e + n) - 1
  <2>5. Reached(p, w, x, c, e, n) = Context(p, w, y, count)
    BY <1>6, Zenon DEF Reached
  <2>6. WholeBlocks(s) = At(p, w, y, count)
    <3> DEFINE m == HashBlock * n
    <3>1. m \in Nat /\ x + m <= Len(w)
      BY <1>3, <2>1
    <3> HIDE DEF m, count
    <3>2. Takes(p, w, x, m, count)
      BY <1>1, <3>1, TookIs
    <3>3. WholeBlocks(s) = Took(Context(p, w, x + m, count), r, m)
      BY <1>4, <2>4, <2>5, Zenon DEF m
    <3>4. WholeBlocks(s) = At(p, w, x + m, count)
      BY <3>2, <3>3, Zenon DEF Takes
    <3>5. QED
      BY <3>4, Zenon DEF m
  <2>7. e \in Nat /\ x = HashBlock * e
    BY <2>3 DEF Whole
  <2>8. count \in Nat /\ y = HashBlock * count + HashBlock /\ HashBlock * count \in Nat
    <3>1. count = e + (n - 1) /\ n - 1 \in Nat
      BY <1>3, <1>6, <2>7
    <3>2. HashBlock * count = HashBlock * e + HashBlock * (n - 1)
      BY <1>1, <2>7, <3>1
    <3>3. count \in Nat
      BY <2>7, <3>1
    <3> DEFINE j == HashBlock * count
               k == HashBlock * (n - 1)
               m == HashBlock * n
    <3>4. j = x + k /\ m = HashBlock + k /\ k \in Nat
      BY <2>1, <2>7, <3>2
    <3> HIDE DEF j, k, m
    <3>5. x + m = j + HashBlock /\ j \in Nat
      BY <1>1, <3>4
    <3>6. QED
      BY <3>3, <3>5 DEF j, m
  <2> HIDE DEF y, count
  <2>9. Current(w, y, count) /\ Level(w, y, count)
    <3> DEFINE j == HashBlock * count
    <3>1. j \in Nat /\ y = j + HashBlock
      BY <2>8
    <3> HIDE DEF j
    <3>2. y > 0 /\ y > j /\ j <= y /\ y <= j + HashBlock /\ y \in 0 .. Len(w)
      BY <1>1, <2>1, <3>1
    <3>3. QED
      BY <1>1, <2>1, <2>8, <3>1, <3>2 DEF j, Current, Level, Buffered
  <2>10. TextSettled(p, w, WholeBlocks(s), y, count)
    BY <2>1, <2>6, <2>9, Zenon DEF TextSettled
  <2>11. QED
    BY <2>10
<1>7. QED
  BY <1>5, <1>6, Zenon

\* The buffer of the remainder: emptied if it was full, zeros if it is empty.
Fresh(ctx) ==
  LET flushed == IF ctx.input_idx = HashBlock THEN Emptied(blake2b_compress(ctx, FALSE), 0) ELSE ctx
  IN IF flushed.input_idx = 0 THEN Cleared(flushed, ZeroBlock) ELSE flushed

LEMMA RemainderUnfold ==
  ASSUME NEW s, NEW n, n = WordBytes * (Len(s.message) \div WordBytes)
  PROVE  Remainder(s) =
           IF s.message = <<>> THEN s.ctx
           ELSE Ored(Loaded(Fresh(s.ctx), 0, SubSeq(s.message, 1, n)),
                     SubSeq(s.message, n + 1, Len(s.message)))
BY Zenon DEF Remainder, Fresh, Emptied, Cleared

LEMMA EmptyBlock ==
  ASSUME NEW w, NEW x, NEW c, c \in Nat, x = HashBlock * c
  PROVE  BlockAt(w, x, c + 1) = ZeroBlock
<1> DEFINE z == HashBlock * ((c + 1) - 1)
<1>1. z = x /\ z \in Nat /\ HashBlock \in Nat
  BY HashSizes
<1> HIDE DEF z
<1>2. \A i \in 1 .. HashBlock : ~(z + i <= x)
  BY <1>1
<1>3. QED
  BY <1>2 DEF BlockAt, ZeroBlock, z

\* Words or, behind them, bytes are only left when the buffer is empty, or there is no word.
Freshened(w, x, e) ==
  /\ Buffered(w, x, e)
  /\ x = HashBlock * e \/ (Len(w) - x < WordBytes /\ Len(w) <= HashBlock * e + HashBlock)

LEMMA FreshIs ==
  ASSUME NEW p, NEW w, NEW x, NEW c, Current(w, x, c), Level(w, x, c), x # Len(w)
  PROVE  \E e : Fresh(Context(p, w, x, c)) = Context(p, w, x, e) /\ Freshened(w, x, e)
<1> DEFINE ctx == Context(p, w, x, c)
           at == x - HashBlock * c
           count == c + 1
<1>1. Buffered(w, x, c) /\ IsText(w) /\ x \in 0 .. Len(w) /\ c \in Nat /\ x \in Nat
  BY TextIs DEF Current, Buffered
<1>2. at \in 0 .. HashBlock /\ HashBlock * c \in Nat /\ x = HashBlock * c + at /\ HashBlock \in Nat \ {0}
  <2>1. at \in 0 .. HashBlock /\ HashBlock * c \in Nat /\ x = HashBlock * c + at
    BY <1>1, BufferIs
  <2>2. QED
    BY <2>1, HashSizes
<1>3. ctx.input_idx = at
  BY DEF Context
<1>4. CASE at = HashBlock
  <2>1. count \in Nat /\ HashBlock * count = x /\ 0 = x - HashBlock * count /\ x = HashBlock * c + HashBlock
    BY <1>1, <1>2, <1>4
  <2> DEFINE a == blake2b_compress(ctx, FALSE)
             f == Emptied(a, 0)
  <2>2. Compresses(p, w, x, c, ZeroBlock, 0)
    BY <1>1, <2>1, CompressFull
  <2>3. Cleared(f, ZeroBlock) = Refilled(Context(p, w, x, count), ZeroBlock, 0)
    BY <2>2, Zenon DEF Compresses
  <2>4. BlockAt(w, x, count + 1) = ZeroBlock
    <3> HIDE DEF count
    <3>1. QED
      BY <2>1, EmptyBlock
  <2> HIDE DEF count
  <2>5. Refilled(Context(p, w, x, count), ZeroBlock, 0) = Context(p, w, x, count)
    <3>1. ZeroBlock = BlockAt(w, x, count + 1) /\ 0 = x - HashBlock * count
      BY <2>1, <2>4
    <3>2. QED
      BY <3>1, RefilledIs
  <2>6. f.input_idx = 0
    <3>1. PICK h, u, v, i, n : a = Ctx(p, h, u, v, i, n)
      <4> DEFINE y == x % OffsetWord
                 z == (x \div OffsetWord) % OffsetWord
                 k == BlockAt(w, x, c + 1)
                 t == Append(Hashed(w, c), Entry(k, y, z, FALSE))
      <4>1. a = Ctx(p, t, y, z, k, at)
        <5>1. \A last : blake2b_compress(Context(p, w, x, c), last) =
                Ctx(p, Append(Hashed(w, c), Entry(k, y, z, last)), y, z, k, at)
          BY <1>1, CompressIs
        <5>2. QED
          BY <5>1, Zenon
      <4> HIDE DEF a, y, z, k, t, at
      <4>2. QED
        BY <4>1, Zenon
    <3> HIDE DEF a
    <3>2. f = Ctx(p, h, u, v, i, 0)
      BY <3>1, CtxReloaded
    <3> HIDE DEF f
    <3>3. QED
      BY <3>2 DEF Ctx
  <2>7. Fresh(ctx) = Cleared(f, ZeroBlock)
    <3>1. ctx.input_idx = HashBlock
      BY <1>3, <1>4
    <3> HIDE DEF ctx
    <3>2. QED
      BY <2>6, <3>1, Zenon DEF Fresh
  <2>8. Freshened(w, x, count)
    BY <1>1, <1>2, <2>1 DEF Freshened, Buffered
  <2>9. QED
    BY <2>3, <2>5, <2>7, <2>8
<1>5. CASE at = 0
  <2>1. ctx.input_idx # HashBlock /\ ctx.input_idx = 0
    BY <1>2, <1>3, <1>5
  <2>2. Fresh(ctx) = Cleared(ctx, ZeroBlock)
    BY <2>1, Zenon DEF Fresh
  <2>3. BlockAt(w, x, c + 1) = ZeroBlock
    <3>1. x = HashBlock * c
      BY <1>2, <1>5
    <3>2. QED
      BY <1>1, <3>1, EmptyBlock
  <2>4. Cleared(ctx, ZeroBlock) = ctx
    <3> DEFINE u == (HashBlock * c) % OffsetWord
               v == ((HashBlock * c) \div OffsetWord) % OffsetWord
    <3>1. ctx = Ctx(p, Hashed(w, c), u, v, BlockAt(w, x, c + 1), at)
      BY ContextIs, Zenon
    <3> HIDE DEF u, v, at
    <3>2. Cleared(Ctx(p, Hashed(w, c), u, v, ZeroBlock, at), ZeroBlock) = Ctx(p, Hashed(w, c), u, v, ZeroBlock, at)
      BY CtxReloaded
    <3>3. QED
      BY <2>3, <3>1, <3>2
  <2>5. Freshened(w, x, c)
    BY <1>1, <1>2, <1>5 DEF Freshened
  <2>6. QED
    BY <2>2, <2>4, <2>5
<1>6. CASE at # 0 /\ at # HashBlock
  <2>1. Fresh(ctx) = ctx
    BY <1>3, <1>6, Zenon DEF Fresh
  <2>2. x # HashBlock * c /\ x # HashBlock * c + HashBlock
    BY <1>2, <1>6
  <2>3. Freshened(w, x, c)
    BY <1>1, <2>2 DEF Freshened, Level
  <2>4. QED
    BY <2>1, <2>3
<1>7. QED
  BY <1>4, <1>5, <1>6

\* Nothing written leaves the buffer as it is.
LEMMA LoadedNothing ==
  ASSUME NEW p, NEW w, NEW x, NEW c, Buffered(w, x, c)
  PROVE  Loaded(Context(p, w, x, c), 0, SubSeq(w, x + 1, x + 0)) = Context(p, w, x, c)
<1> DEFINE at == x - HashBlock * c
           u == (HashBlock * c) % OffsetWord
           v == ((HashBlock * c) \div OffsetWord) % OffsetWord
           i == BlockAt(w, x, c + 1)
           bytes == SubSeq(w, x + 1, x + 0)
<1>1. IsText(w) /\ x \in Nat /\ x + 0 <= Len(w) /\ 0 \in Nat
  BY TextIs DEF Buffered
<1>2. IsText(bytes) /\ Len(bytes) = 0
  <2>1. \A n \in Nat : x + n <= Len(w) => IsText(SubSeq(w, x + 1, x + n)) /\ Len(SubSeq(w, x + 1, x + n)) = n
    BY <1>1, PieceIs
  <2>2. QED
    BY <1>1, <2>1
<1>3. IsText(i) /\ Len(i) = HashBlock /\ HashBlock \in Nat
  BY BlockIs, HashSizes
<1>4. at \in 0 .. HashBlock
  BY BufferIs
<1>5. Context(p, w, x, c) = Ctx(p, Hashed(w, c), u, v, i, at)
  BY ContextIs, Zenon
<1> HIDE DEF i, bytes, at, u, v
<1>6. SubSeq(i, 1, 0) = <<>> /\ SubSeq(i, 0 + 0 + 1, HashBlock) = i /\ bytes = <<>>
  <2>1. IsText(SubSeq(i, 1, 0)) /\ Len(SubSeq(i, 1, 0)) = 0
    <3>1. 0 \in 0 .. Len(i)
      BY <1>3
    <3>2. QED
      BY <1>3, <3>1, TextHead
  <2>2. \A t : IsText(t) /\ Len(t) = 0 => t = <<>>
    <3> SUFFICES ASSUME NEW t, IsText(t), Len(t) = 0 PROVE t = <<>>
      OBVIOUS
    <3>1. IsText(<<>>) /\ Len(<<>>) = 0
      BY EmptyText
    <3>2. \A k \in 1 .. Len(t) : t[k] = <<>>[k]
      BY SMT
    <3>3. QED
      BY <3>1, <3>2, TextEqual
  <2>3. SubSeq(i, 1, HashBlock) = i
    <3> DEFINE s == SubSeq(i, 1, HashBlock)
    <3>1. HashBlock \in 0 .. Len(i)
      BY <1>3
    <3>2. IsText(s) /\ Len(s) = HashBlock /\ \A k \in 1 .. HashBlock : s[k] = i[k]
      BY <1>3, <3>1, TextHead
    <3> HIDE DEF s
    <3>3. s = i
      BY <1>3, <3>2, TextEqual
    <3>4. QED
      BY <3>3 DEF s
  <2>4. 0 + 0 + 1 = 1
    OBVIOUS
  <2>5. QED
    BY <1>2, <2>1, <2>2, <2>3, <2>4
<1>7. Spliced(i, 0, bytes) = i
  <2>1. Spliced(i, 0, bytes) = (<<>> \o <<>>) \o i
    <3>1. Spliced(i, 0, bytes) = (SubSeq(i, 1, 0) \o bytes) \o SubSeq(i, 0 + Len(bytes) + 1, HashBlock)
      BY Zenon DEF Spliced
    <3>2. QED
      BY <1>2, <1>6, <3>1
  <2>2. QED
    BY <1>3, <2>1, EmptyText
<1>8. Loaded(Ctx(p, Hashed(w, c), u, v, i, at), 0, bytes) = Ctx(p, Hashed(w, c), u, v, Spliced(i, 0, bytes), at + Len(bytes))
  BY LoadedCtx
<1>9. at + Len(bytes) = at
  BY <1>2, <1>4
<1>10. QED
  BY <1>5, <1>7, <1>8, <1>9 DEF bytes

LEMMA RemainderIs ==
  ASSUME NEW p, NEW w, NEW s, NEW x, NEW c, TextSettled(p, w, s, x, c)
  PROVE  \E e : Remainder(s) = Context(p, w, Len(w), e) /\ Current(w, Len(w), e)
<1> DEFINE r == Rest(w, x)
           l == Len(r)
           n == WordBytes * (l \div WordBytes)
           ctx == Context(p, w, x, c)
<1>1. /\ s = At(p, w, x, c) /\ Current(w, x, c) /\ Level(w, x, c)
      /\ x \in Nat /\ Len(w) - x < HashBlock
  BY DEF TextSettled
<1>2. Buffered(w, x, c) /\ IsText(w) /\ x \in 0 .. Len(w) /\ Len(w) \in Nat /\ c \in Nat
  BY <1>1, TextIs DEF Current, Buffered
<1>3. s.ctx = ctx /\ s.message = r
  BY <1>1 DEF At
<1>4. IsText(r) /\ l = Len(w) - x /\ l \in Nat
  BY <1>2, RestIs
<1>5. Remainder(s) = IF r = <<>> THEN ctx ELSE Ored(Loaded(Fresh(ctx), 0, SubSeq(r, 1, n)), SubSeq(r, n + 1, l))
  <2> HIDE DEF r, ctx
  <2>1. QED
    BY <1>3, RemainderUnfold, Zenon
<1>6. CASE x = Len(w)
  <2>1. r = <<>>
    <3>1. l = 0
      BY <1>2, <1>4, <1>6
    <3> HIDE DEF r
    <3>2. IsText(<<>>) /\ Len(<<>>) = 0
      BY EmptyText
    <3>3. \A k \in 1 .. l : r[k] = <<>>[k]
      BY <3>1, SMT
    <3>4. QED
      BY <1>4, <3>1, <3>2, <3>3, TextEqual
  <2>2. Remainder(s) = Context(p, w, Len(w), c) /\ Current(w, Len(w), c)
    BY <1>1, <1>5, <1>6, <2>1
  <2>3. QED
    BY <2>2
<1>7. CASE x # Len(w)
  <2>1. PICK e : Fresh(ctx) = Context(p, w, x, e) /\ Freshened(w, x, e)
    BY <1>1, <1>7, FreshIs
  <2>2. Buffered(w, x, e) /\ e \in Nat /\ HashBlock * e \in Nat /\ HashBlock * e <= x /\ x <= HashBlock * e + HashBlock
    <3>1. Buffered(w, x, e)
      BY <2>1 DEF Freshened
    <3>2. e \in Nat
      BY <3>1 DEF Buffered
    <3>3. HashBlock * e \in Nat
      BY <3>2, HashSizes
    <3>4. HashBlock * e <= x /\ x <= HashBlock * e + HashBlock
      BY <3>1 DEF Buffered
    <3>5. QED
      BY <3>1, <3>2, <3>3, <3>4
  <2>3. l # 0 /\ r # <<>>
    <3>1. l # 0
      BY <1>2, <1>4, <1>7
    <3>2. QED
      BY <3>1, EmptyText
  <2>4. n \in Nat /\ n <= l /\ (l < WordBytes => n = 0)
    <3>1. WordBytes \in Nat \ {0}
      BY HashSizes
    <3> HIDE DEF l
    <3> DEFINE q == l \div WordBytes
               o == l % WordBytes
    <3>2. l = WordBytes * q + o /\ q \in Nat /\ o \in Nat
      <4>1. l \in Nat
        BY <1>4
      <4>2. l = WordBytes * q + o /\ q \in Nat /\ o \in 0 .. (WordBytes - 1)
        BY <3>1, <4>1, LowAndHigh
      <4> HIDE DEF q, o
      <4>3. QED
        BY <3>1, <4>2
    <3>3. l < WordBytes => q = 0
      <4>1. l < WordBytes * 1 => q < 1
        <5>1. \A z \in Nat : l < WordBytes * z => l \div WordBytes < z
          BY <1>4, <3>1, LowAndHigh
        <5>2. QED
          BY <5>1
      <4> HIDE DEF q
      <4>2. QED
        BY <3>1, <3>2, <4>1
    <3> HIDE DEF q, o
    <3>4. WordBytes * q \in Nat /\ WordBytes * q <= l /\ (l < WordBytes => WordBytes * q = 0)
      <4> DEFINE j == WordBytes * q
      <4>1. j \in Nat /\ l = j + o /\ (q = 0 => j = 0)
        BY <3>1, <3>2
      <4> HIDE DEF j
      <4>2. j <= l
        BY <3>2, <4>1
      <4>3. QED
        BY <3>3, <4>1, <4>2 DEF j
    <3>5. QED
      BY <3>4 DEF q
  <2> HIDE DEF n
  <2> DEFINE y == x + n
             m == Len(w) - y
  <2>5. /\ y \in Nat /\ y <= Len(w) /\ m \in Nat /\ y + m = Len(w) /\ HashBlock * e <= y
        /\ HashBlock \in Nat
    BY <1>1, <1>2, <1>4, <2>2, <2>4, HashSizes
  <2>6. Len(w) <= HashBlock * e + HashBlock /\ HashBlock * e < Len(w)
    <3> DEFINE z == HashBlock * e
    <3>1. z \in Nat /\ z <= x /\ x < Len(w) /\ Len(w) - x < HashBlock /\ HashBlock \in Nat
      BY <1>1, <1>2, <1>7, <2>2, <2>5
    <3>2. x = z \/ Len(w) <= z + HashBlock
      BY <2>1 DEF Freshened
    <3> HIDE DEF z
    <3>3. Len(w) <= z + HashBlock /\ z < Len(w)
      BY <1>2, <3>1, <3>2
    <3>4. QED
      BY <3>3 DEF z
  <2>7. Buffered(w, y, e) /\ Buffered(w, Len(w), e)
    <3>1. y \in 0 .. Len(w) /\ Len(w) \in 0 .. Len(w) /\ HashBlock * e <= Len(w) /\ y <= HashBlock * e + HashBlock
      BY <1>2, <2>2, <2>5, <2>6
    <3> HIDE DEF y
    <3>2. QED
      BY <1>2, <2>2, <2>5, <2>6, <3>1 DEF Buffered
  <2>8. SubSeq(r, 1, n) = SubSeq(w, x + 1, x + n) /\ SubSeq(r, n + 1, l) = Rest(w, y)
    BY <1>1, <1>2, <2>4, <2>5, RestOfRest
  <2>9. Rest(w, y) = SubSeq(w, y + 1, y + m)
    BY <2>5, Zenon DEF Rest
  <2>10. Loaded(Context(p, w, x, e), 0, SubSeq(w, x + 1, x + n)) = Context(p, w, y, e)
    <3>1. CASE x = HashBlock * e
      <4>1. 0 = x - HashBlock * e
        BY <1>1, <3>1
      <4>2. Loads(p, w, x, n, e)
        BY <2>2, <2>4, <2>7, LoadedIs
      <4>3. QED
        BY <4>1, <4>2, Zenon DEF Loads
    <3>2. CASE x # HashBlock * e
      <4>1. Len(w) - x < WordBytes
        BY <2>1, <3>2 DEF Freshened
      <4>2. n = 0
        BY <1>4, <2>4, <4>1
      <4>3. Loaded(Context(p, w, x, e), 0, SubSeq(w, x + 1, x + 0)) = Context(p, w, x, e)
        BY <2>2, LoadedNothing
      <4>4. y = x
        BY <1>1, <4>2
      <4>5. QED
        BY <4>2, <4>3, <4>4
    <3>3. QED
      BY <3>1, <3>2
  <2>11. Remainder(s) = Ored(Context(p, w, y, e), SubSeq(w, y + 1, y + m))
    <3> HIDE DEF r, l, y, m, ctx
    <3>1. QED
      BY <1>5, <2>1, <2>3, <2>8, <2>9, <2>10
  <2>12. Remainder(s) = Context(p, w, Len(w), e)
    <3>1. Len(w) = y + m
      BY <2>5
    <3> HIDE DEF y, m
    <3>2. Ors(p, w, y, m, e)
      BY <2>5, <2>7, <3>1, OredIs
    <3>3. QED
      BY <2>11, <3>1, <3>2, Zenon DEF Ors
  <2>13. Current(w, Len(w), e)
    <3>1. Len(w) # 0
      BY <1>1, <1>2, <1>7
    <3>2. QED
      BY <2>6, <2>7, <3>1 DEF Current
  <2>14. QED
    BY <2>12, <2>13
<1>8. QED
  BY <1>6, <1>7

(* -------- an update puts the message behind what is in -------- *)

LEMMA TextPrefixIs ==
  ASSUME NEW p, NEW data, NEW w, NEW x, NEW c, Buffered(data, x, c), \A j \in 1 .. x : w[j] = data[j]
  PROVE  Context(p, data, x, c) = Context(p, w, x, c)
<1> DEFINE u == (HashBlock * c) % OffsetWord
           v == ((HashBlock * c) \div OffsetWord) % OffsetWord
           at == x - HashBlock * c
<1>1. x \in Nat /\ c \in Nat /\ HashBlock \in Nat \ {0} /\ HashBlock * c <= x
  BY HashSizes, TextIs DEF Buffered
<1>2. ASSUME NEW b \in Nat \ {0}, NEW z \in Nat, z <= x
      PROVE  BlockAt(data, z, b) = BlockAt(w, z, b)
  <2> DEFINE y == HashBlock * (b - 1)
  <2>1. y \in Nat
    BY <1>1
  <2> HIDE DEF y
  <2>2. \A i \in 1 .. HashBlock : y + i <= z => y + i \in 1 .. x
    BY <1>1, <1>2, <2>1
  <2>3. \A i \in 1 .. HashBlock :
          (IF y + i <= z THEN data[y + i] ELSE {}) = (IF y + i <= z THEN w[y + i] ELSE {})
    BY <2>2
  <2>4. [i \in 1 .. HashBlock |-> IF y + i <= z THEN data[y + i] ELSE {}]
          = [i \in 1 .. HashBlock |-> IF y + i <= z THEN w[y + i] ELSE {}]
    BY <2>3
  <2>5. QED
    BY <2>4, Zenon DEF BlockAt, y
<1>3. BlockAt(data, x, c + 1) = BlockAt(w, x, c + 1)
  <2>1. c + 1 \in Nat \ {0} /\ x <= x
    BY <1>1
  <2>2. QED
    BY <1>1, <1>2, <2>1
<1>4. \A b \in 1 .. c : FullBlock(data, b) = FullBlock(w, b)
  <2> SUFFICES ASSUME NEW b \in 1 .. c PROVE FullBlock(data, b) = FullBlock(w, b)
    OBVIOUS
  <2> DEFINE z == HashBlock * b
  <2>1. b \in Nat \ {0} /\ z \in Nat /\ z <= HashBlock * c
    <3>1. HashBlock * c = z + HashBlock * (c - b) /\ HashBlock * (c - b) \in Nat /\ z \in Nat
      BY <1>1
    <3> HIDE DEF z
    <3>2. z <= HashBlock * c
      BY <3>1
    <3>3. QED
      BY <1>1, <3>1, <3>2
  <2>2. HashBlock * c \in Nat
    BY <1>1
  <2> HIDE DEF z
  <2>3. z <= x
    BY <1>1, <2>1, <2>2
  <2>4. BlockAt(data, z, b) = BlockAt(w, z, b)
    BY <1>2, <2>1, <2>3
  <2>5. QED
    BY <2>4, Zenon DEF FullBlock, z
<1>5. Hashed(data, c) = Hashed(w, c)
  BY <1>4, Zenon DEF Hashed
<1>6. Context(p, data, x, c) = Ctx(p, Hashed(data, c), u, v, BlockAt(data, x, c + 1), at)
      /\ Context(p, w, x, c) = Ctx(p, Hashed(w, c), u, v, BlockAt(w, x, c + 1), at)
  BY ContextIs, Zenon
<1> HIDE DEF u, v, at
<1>7. QED
  BY <1>3, <1>5, <1>6

\* A context that holds exactly a text.
Stored(p, w, ctx) ==
  IsText(w) /\ \E c : ctx = Context(p, w, Len(w), c) /\ Current(w, Len(w), c)

LEMMA NoMore ==
  ASSUME NEW t, IsText(t)
  PROVE  t \o <<>> = t
<1>1. IsText(<<>>) /\ Len(<<>>) = 0 /\ Len(t) \in Nat
  BY EmptyText, TextIs
<1> DEFINE s == t \o <<>>
<1>2. IsText(s) /\ Len(s) = Len(t) + Len(<<>>) /\ \A i \in 1 .. Len(t) : s[i] = t[i]
  BY <1>1, TextConcat
<1> HIDE DEF s
<1>3. s = t
  BY <1>1, <1>2, TextEqual
<1>4. QED
  BY <1>3 DEF s

LEMMA RestOfConcat ==
  ASSUME NEW data, IsText(data), NEW m, IsText(m)
  PROVE  Rest(data \o m, Len(data)) = m
<1> DEFINE w == data \o m
           x == Len(data)
           r == Rest(w, x)
<1>1. IsText(w) /\ Len(w) = x + Len(m) /\ \A i \in 1 .. Len(m) : w[x + i] = m[i]
  BY TextConcat
<1>2. x \in Nat /\ Len(m) \in Nat
  BY TextIs
<1> HIDE DEF w, x
<1>3. x \in 0 .. Len(w) /\ Len(w) - x = Len(m)
  BY <1>1, <1>2
<1>4. IsText(r) /\ Len(r) = Len(w) - x /\ \A j \in 1 .. Len(w) - x : r[j] = w[x + j]
  BY <1>1, <1>3, RestIs
<1> HIDE DEF r
<1>5. r = m
  BY <1>1, <1>3, <1>4, TextEqual
<1>6. QED
  BY <1>5 DEF r, w, x

LEMMA UpdateIs ==
  ASSUME NEW p, NEW data, NEW ctx, Stored(p, data, ctx), NEW m, IsText(m)
  PROVE  Stored(p, data \o m, crypto_blake2b_update(ctx, m))
<1> DEFINE w == data \o m
           x == Len(data)
<1>1. IsText(data) /\ x \in Nat /\ Len(m) \in Nat
  BY TextIs DEF Stored
<1>2. PICK c : ctx = Context(p, data, x, c) /\ Current(data, x, c)
  BY DEF Stored
<1>3. CASE m = <<>>
  <2>1. crypto_blake2b_update(ctx, m) = ctx
    BY <1>3, Zenon DEF crypto_blake2b_update
  <2>2. w = data
    BY <1>1, <1>3, NoMore
  <2>3. QED
    BY <2>1, <2>2
<1>4. CASE m # <<>>
  <2>1. IsText(w) /\ Len(w) = x + Len(m) /\ \A j \in 1 .. x : w[j] = data[j]
    BY <1>1, TextConcat
  <2>2. Rest(w, x) = m
    BY <1>1, RestOfConcat
  <2> HIDE DEF w
  <2>3. Buffered(data, x, c)
    BY <1>2 DEF Current
  <2>4. ctx = Context(p, w, x, c)
    BY <1>2, <2>1, <2>3, TextPrefixIs
  <2>5. Current(w, x, c)
    <3>1. x \in 0 .. Len(w)
      BY <1>1, <2>1
    <3>2. QED
      BY <1>2, <2>1, <3>1 DEF Current, Buffered
  <2> DEFINE s == At(p, w, x, c)
  <2>6. [ctx |-> ctx, message |-> m] = s
    BY <2>2, <2>4, Zenon DEF At
  <2>7. crypto_blake2b_update(ctx, m) = Remainder(WholeBlocks(AlignBlock(AlignWord(s))))
    BY <1>4, <2>6, Zenon DEF crypto_blake2b_update
  <2> HIDE DEF x
  <2>8. PICK y : AlignWord(s) = At(p, w, y, c) /\ Current(w, y, c) /\ Aligned(w, y, c)
    BY <2>5, AlignWordIs, Zenon
  <2>9. PICK z : AlignBlock(AlignWord(s)) = At(p, w, z, c) /\ Current(w, z, c) /\ Level(w, z, c)
    BY <2>8, AlignBlockIs, Zenon
  <2>10. PICK a, b : TextSettled(p, w, WholeBlocks(AlignBlock(AlignWord(s))), a, b)
    BY <2>9, WholeBlocksIs, Zenon
  <2>11. PICK e : Remainder(WholeBlocks(AlignBlock(AlignWord(s)))) = Context(p, w, Len(w), e) /\ Current(w, Len(w), e)
    BY <2>10, RemainderIs, Zenon
  <2>12. QED
    BY <2>1, <2>7, <2>11, Zenon DEF Stored, w
<1>5. QED
  BY <1>3, <1>4

(* -------- a whole hash -------- *)

\* A text filled up with zeros to whole blocks, and what its hash is made from.
PaddedBlock(bytes) == bytes \o [i \in 1 .. Missing(Len(bytes), HashBlock) |-> {}]

Blocks(data) ==
  LET whole  == IF data = <<>> THEN ZeroBlock ELSE PaddedBlock(data)
      number == Len(whole) \div HashBlock
      offset(b) == Smaller(HashBlock * b, Len(data))
  IN [b \in 1 .. number |->
        [block |-> SubSeq(whole, HashBlock * (b - 1) + 1, HashBlock * b),
         x0 |-> offset(b) % OffsetWord, x1 |-> (offset(b) \div OffsetWord) % OffsetWord,
         last |-> b = number]]

Digest(p, data) ==
  [params |-> p, blocks |-> Blocks(data), bytes |-> Smaller(p.hash_size, MaxHash)]

Params(hash_size, secret) == [key_size |-> Len(secret), hash_size |-> hash_size]

LEMMA RfcIs ==
  ASSUME NEW hash_size, NEW secret, NEW message
  PROVE  Rfc7693(hash_size, secret, message) = Digest(Params(hash_size, secret), PaddedBlock(secret) \o message)
<1>1. Params(hash_size, secret).hash_size = hash_size
  BY DEF Params
<1>2. QED
  BY <1>1, Zenon DEF Rfc7693, Digest, Blocks, PaddedBlock, Params

LEMMA PaddedIs ==
  ASSUME NEW t, IsText(t)
  PROVE  /\ IsText(PaddedBlock(t)) /\ Len(PaddedBlock(t)) = HashBlock * BlocksOf(HashBlock, Len(t))
         /\ BlocksOf(HashBlock, Len(t)) \in Nat /\ Len(t) <= Len(PaddedBlock(t))
         /\ \A i \in 1 .. Len(PaddedBlock(t)) : PaddedBlock(t)[i] = IF i <= Len(t) THEN t[i] ELSE {}
<1> DEFINE l == Len(t)
           g == Missing(l, HashBlock)
           z == [i \in 1 .. g |-> {}]
           s == t \o z
<1>0. l \in Nat /\ HashBlock \in Nat \ {0}
  BY TextIs, HashSizes
<1>1. g \in Nat /\ l + g = HashBlock * BlocksOf(HashBlock, l) /\ BlocksOf(HashBlock, l) \in Nat
  <2>1. g = (HashBlock - (l % HashBlock)) % HashBlock
    BY DEF Missing
  <2> HIDE DEF l, g
  <2>2. QED
    BY <1>0, <2>1, BlocksFilled
<1> HIDE DEF g
<1>2. IsText(z) /\ Len(z) = g /\ \A i \in 1 .. g : z[i] = {}
  <2>1. z = [i \in 1 .. g |-> z[i]] /\ \A i \in 1 .. g : z[i] = {}
    OBVIOUS
  <2> HIDE DEF z
  <2>2. QED
    BY <1>1, <2>1, TextFrom
<1> HIDE DEF z
<1>3. /\ IsText(s) /\ Len(s) = l + g /\ \A i \in 1 .. l : s[i] = t[i]
      /\ \A i \in 1 .. g : s[l + i] = z[i]
  BY <1>2, TextConcat
<1>4. PaddedBlock(t) = s
  BY Zenon DEF PaddedBlock, z, g
<1> HIDE DEF s, l
<1>5. \A i \in 1 .. Len(s) : s[i] = IF i <= l THEN t[i] ELSE {}
  <2> SUFFICES ASSUME NEW i \in 1 .. Len(s) PROVE s[i] = IF i <= l THEN t[i] ELSE {}
    OBVIOUS
  <2>1. CASE i <= l
    BY <1>0, <1>3, <2>1
  <2>2. CASE ~(i <= l)
    <3> DEFINE j == i - l
    <3>1. j \in 1 .. g /\ i = l + j
      BY <1>0, <1>1, <1>3, <2>2
    <3> HIDE DEF j
    <3>2. s[i] = {}
      BY <1>2, <1>3, <3>1
    <3>3. QED
      BY <2>2, <3>2
  <2>3. QED
    BY <2>1, <2>2
<1>6. l <= Len(s)
  BY <1>0, <1>1, <1>3
<1>7. QED
  BY <1>1, <1>3, <1>4, <1>5, <1>6 DEF l

LEMMA NoText ==
  ASSUME NEW t, IsText(t), Len(t) = 0
  PROVE  t = <<>>
<1>1. IsText(<<>>) /\ Len(<<>>) = 0
  BY EmptyText
<1>2. \A k \in 1 .. Len(t) : t[k] = <<>>[k]
  BY SMT
<1>3. QED
  BY <1>1, <1>2, TextEqual

\* A secret: no more than a block.
IsKey(secret) == IsText(secret) /\ Len(secret) <= HashBlock

LEMMA InitIs ==
  ASSUME NEW hash_size, NEW secret, IsKey(secret)
  PROVE  Stored(Params(hash_size, secret), PaddedBlock(secret), crypto_blake2b_keyed_init(hash_size, secret))
<1> DEFINE p == Params(hash_size, secret)
           w == PaddedBlock(secret)
           i == [j \in 1 .. HashBlock |-> IF j <= Len(secret) THEN secret[j] ELSE {}]
           a == Ctx(p, <<>>, 0, 0, ZeroBlock, 0)
<1>0. IsText(secret) /\ Len(secret) <= HashBlock /\ Len(secret) \in Nat /\ HashBlock \in Nat \ {0} /\ OffsetWord \in Nat \ {0}
  BY TextIs, HashSizes DEF IsKey
<1>1. /\ IsText(w) /\ Len(w) = HashBlock * BlocksOf(HashBlock, Len(secret))
      /\ \A j \in 1 .. Len(w) : w[j] = IF j <= Len(secret) THEN secret[j] ELSE {}
  BY <1>0, PaddedIs
<1>2. crypto_blake2b_keyed_init(hash_size, secret) = IF secret = <<>> THEN a ELSE Refilled(a, i, HashBlock)
  BY Zenon DEF crypto_blake2b_keyed_init, Ctx, Refilled, Params
<1>3. Refilled(a, i, HashBlock) = Ctx(p, <<>>, 0, 0, i, HashBlock)
  <2> HIDE DEF i, p
  <2>1. QED
    BY CtxReloaded
<1>4. ASSUME NEW x, x = 0 \/ x = HashBlock
      PROVE  Context(p, w, x, 0) = Ctx(p, <<>>, 0, 0, BlockAt(w, x, 1), x)
  <2>1. HashBlock * 0 = 0 /\ 0 % OffsetWord = 0 /\ 0 \div OffsetWord = 0 /\ x - 0 = x /\ 0 + 1 = 1
    <3>1. 0 % OffsetWord = 0
      BY <1>0, Remainders
    <3>2. (OffsetWord * 0 + 0) \div OffsetWord = 0
      <4>1. 0 \in Int /\ 0 \in 0 .. (OffsetWord - 1)
        BY <1>0
      <4>2. QED
        BY <1>0, <4>1, Division
    <3>3. OffsetWord * 0 + 0 = 0
      BY <1>0
    <3>4. QED
      BY <1>0, <1>4, <3>1, <3>2, <3>3
  <2>2. Hashed(w, 0) = <<>>
    <3> DEFINE h == Hashed(w, 0)
    <3>1. h = [b \in 1 .. 0 |-> h[b]] /\ 0 \in Nat
      BY DEF Hashed
    <3> HIDE DEF h
    <3>2. IsText(h) /\ Len(h) = 0
      BY <3>1, TextFrom
    <3>3. QED
      BY <3>2, NoText DEF h
  <2> HIDE DEF p, w
  <2>3. Context(p, w, x, 0) = Ctx(p, Hashed(w, 0), (HashBlock * 0) % OffsetWord,
          ((HashBlock * 0) \div OffsetWord) % OffsetWord, BlockAt(w, x, 0 + 1), x - HashBlock * 0)
    BY ContextIs, Zenon
  <2>4. QED
    BY <2>1, <2>2, <2>3
<1>5. CASE secret = <<>>
  <2>1. Len(w) = 0
    <3>1. Len(secret) = 0
      BY <1>5, EmptyText
    <3>2. Missing(0, HashBlock) = 0
      <4>1. 0 \in 0 .. HashBlock
        BY <1>0
      <4>2. QED
        BY <4>1, BlockGap
    <3>3. w = secret \o [j \in 1 .. 0 |-> {}]
      BY <3>1, <3>2 DEF PaddedBlock
    <3> DEFINE z == [j \in 1 .. 0 |-> {}]
    <3>4. IsText(z) /\ Len(z) = 0
      <4>1. z = [j \in 1 .. 0 |-> z[j]] /\ 0 \in Nat
        OBVIOUS
      <4> HIDE DEF z
      <4>2. QED
        BY <4>1, TextFrom
    <3> HIDE DEF z
    <3>5. Len(secret \o z) = Len(secret) + Len(z)
      BY <1>0, <3>4, TextConcat
    <3>6. QED
      BY <3>1, <3>3, <3>4, <3>5 DEF z
  <2>2. BlockAt(w, 0, 1) = ZeroBlock
    <3> HIDE DEF w
    <3>1. BlockAt(w, 0, 0 + 1) = ZeroBlock
      <4>1. 0 \in Nat /\ 0 = HashBlock * 0
        BY <1>0
      <4>2. QED
        BY <4>1, EmptyBlock
    <3>2. 0 + 1 = 1
      OBVIOUS
    <3>3. QED
      BY <3>1, <3>2
  <2>3. crypto_blake2b_keyed_init(hash_size, secret) = Context(p, w, Len(w), 0)
    <3>1. Context(p, w, 0, 0) = Ctx(p, <<>>, 0, 0, BlockAt(w, 0, 1), 0)
      BY <1>4
    <3> HIDE DEF p, w
    <3>2. QED
      BY <1>2, <1>5, <2>1, <2>2, <3>1
  <2>4. Current(w, Len(w), 0)
    <3> HIDE DEF w
    <3>1. QED
      BY <1>0, <1>1, <2>1 DEF Current, Buffered
  <2>5. QED
    BY <1>1, <2>3, <2>4 DEF Stored
<1>6. CASE secret # <<>>
  <2>1. Len(w) = HashBlock
    <3>1. Len(secret) # 0
      BY <1>0, <1>6, NoText
    <3>2. BlocksOf(HashBlock, Len(secret)) = 1
      <4> DEFINE k == BlocksOf(HashBlock, Len(secret))
                 g == Missing(Len(secret), HashBlock)
      <4>1. Len(secret) \in 0 .. HashBlock
        BY <1>0
      <4>2. g = IF Len(secret) = 0 \/ Len(secret) = HashBlock THEN 0 ELSE HashBlock - Len(secret)
        BY <4>1, BlockGap
      <4>3. k \in Nat /\ Len(secret) + g = HashBlock * k
        <5>1. g = (HashBlock - (Len(secret) % HashBlock)) % HashBlock
          BY DEF Missing
        <5>2. QED
          BY <1>0, <5>1, BlocksFilled
      <4> HIDE DEF k, g
      <4>4. HashBlock * k = HashBlock
        BY <1>0, <3>1, <4>2, <4>3
      <4>5. k = 1
        <5>1. k = 0 \/ k = 1 \/ k >= 2
          BY <4>3
        <5>2. k >= 2 => HashBlock * k = HashBlock + HashBlock + HashBlock * (k - 2) /\ HashBlock * (k - 2) \in Nat
          BY <1>0, <4>3
        <5>3. k # 0
          BY <1>0, <4>4
        <5>4. QED
          BY <1>0, <4>4, <5>1, <5>2, <5>3
      <4>6. QED
        BY <4>5 DEF k
    <3>3. QED
      BY <1>0, <1>1, <3>2
  <2>2. BlockAt(w, HashBlock, 1) = i
    <3> HIDE DEF w
    <3> DEFINE z == HashBlock * (1 - 1)
    <3>1. z = 0
      BY <1>0
    <3> HIDE DEF z
    <3>2. \A j \in 1 .. HashBlock : z + j = j /\ j <= HashBlock /\ w[j] = IF j <= Len(secret) THEN secret[j] ELSE {}
      <4>1. \A j \in 1 .. HashBlock : w[j] = IF j <= Len(secret) THEN secret[j] ELSE {}
        BY <1>1, <2>1, Zenon
      <4>2. \A j \in 1 .. HashBlock : z + j = j /\ j <= HashBlock
        BY <1>0, <3>1
      <4>3. QED
        BY <4>1, <4>2, Zenon
    <3>3. \A j \in 1 .. HashBlock :
            (IF z + j <= HashBlock THEN w[z + j] ELSE {}) = IF j <= Len(secret) THEN secret[j] ELSE {}
      BY <3>2, Zenon
    <3>4. [j \in 1 .. HashBlock |-> IF z + j <= HashBlock THEN w[z + j] ELSE {}] = i
      BY <3>3
    <3>5. QED
      BY <3>4, Zenon DEF BlockAt, z
  <2>3. crypto_blake2b_keyed_init(hash_size, secret) = Context(p, w, Len(w), 0)
    <3>1. Context(p, w, HashBlock, 0) = Ctx(p, <<>>, 0, 0, BlockAt(w, HashBlock, 1), HashBlock)
      BY <1>4
    <3> HIDE DEF p, w, i, a
    <3>2. QED
      BY <1>2, <1>3, <1>6, <2>1, <2>2, <3>1
  <2>4. Current(w, Len(w), 0)
    <3> HIDE DEF w
    <3>1. HashBlock * 0 = 0
      BY <1>0
    <3>2. QED
      BY <1>0, <1>1, <2>1, <3>1 DEF Current, Buffered
  <2>5. QED
    BY <1>1, <2>3, <2>4 DEF Stored
<1>7. QED
  BY <1>5, <1>6

\* The blocks of a text and how many there are.
Filled(whole, data, n) ==
  /\ IsText(whole) /\ n \in Nat \ {0} /\ Len(whole) = HashBlock * n
  /\ \A i \in 1 .. Len(whole) : whole[i] = IF i <= Len(data) THEN data[i] ELSE {}

LEMMA FilledIs ==
  ASSUME NEW data, NEW c, Current(data, Len(data), c)
  PROVE  Filled(IF data = <<>> THEN ZeroBlock ELSE PaddedBlock(data), data, c + 1)
<1> DEFINE l == Len(data)
           n == c + 1
           whole == IF data = <<>> THEN ZeroBlock ELSE PaddedBlock(data)
<1>1. IsText(data) /\ l \in Nat /\ c \in Nat /\ HashBlock \in Nat \ {0} /\ HashBlock * c \in Nat
      /\ l <= HashBlock * c + HashBlock /\ (l = 0 => c = 0) /\ (l > 0 => l > HashBlock * c)
  <2>1. Buffered(data, l, c) /\ (l = 0 => c = 0) /\ (l > 0 => l > HashBlock * c)
    BY DEF Current
  <2>2. IsText(data) /\ c \in Nat /\ l <= HashBlock * c + HashBlock
    BY <2>1 DEF Buffered
  <2>3. QED
    BY <2>1, <2>2, TextIs, HashSizes
<1>2. CASE data = <<>>
  <2>1. l = 0 /\ n = 1 /\ HashBlock * n = HashBlock
    BY <1>1, <1>2, EmptyText
  <2>2. IsText(ZeroBlock) /\ Len(ZeroBlock) = HashBlock
    <3>1. ZeroBlock = [i \in 1 .. HashBlock |-> ZeroBlock[i]]
      BY DEF ZeroBlock
    <3>2. QED
      BY <1>1, <3>1, TextFrom
  <2>3. \A i \in 1 .. HashBlock : ZeroBlock[i] = {}
    BY DEF ZeroBlock
  <2>4. \A i \in 1 .. HashBlock : ~(i <= l)
    BY <1>1, <2>1
  <2> HIDE DEF l, n
  <2>5. Filled(ZeroBlock, data, n)
    <3>1. \A i \in 1 .. Len(ZeroBlock) : ZeroBlock[i] = IF i <= l THEN data[i] ELSE {}
      BY <2>2, <2>3, <2>4
    <3>2. n \in Nat \ {0} /\ Len(ZeroBlock) = HashBlock * n
      BY <2>1, <2>2
    <3>3. QED
      BY <2>2, <3>1, <3>2, Zenon DEF Filled, l
  <2>6. QED
    BY <1>2, <2>5 DEF n
<1>3. CASE data # <<>>
  <2> DEFINE k == BlocksOf(HashBlock, l)
             g == Missing(l, HashBlock)
             s == PaddedBlock(data)
  <2>1. IsText(s) /\ Len(s) = HashBlock * k /\ k \in Nat /\ \A i \in 1 .. Len(s) : s[i] = IF i <= l THEN data[i] ELSE {}
    BY <1>1, PaddedIs
  <2>2. g = (HashBlock - (l % HashBlock)) % HashBlock /\ l + g = HashBlock * k
    <3>1. g = (HashBlock - (l % HashBlock)) % HashBlock
      BY DEF Missing
    <3> HIDE DEF l, g
    <3>2. QED
      BY <1>1, <3>1, BlocksFilled
  <2>3. g \in 0 .. (HashBlock - 1)
    <3>1. l % HashBlock \in Int
      BY <1>1
    <3> DEFINE r == l % HashBlock
    <3> HIDE DEF r
    <3>2. HashBlock - r \in Int
      BY <1>1, <3>1 DEF r
    <3>3. QED
      BY <1>1, <2>2, <3>2 DEF r
  <2>4. l > 0
    BY <1>1, <1>3, NoText
  <2>5. k = n
    <3> DEFINE x == HashBlock * k
               y == HashBlock * c
    <3> HIDE DEF l, g, k
    <3>1. x = l + g /\ y < l /\ l <= y + HashBlock /\ y \in Nat
      BY <1>1, <2>2, <2>4
    <3> HIDE DEF x, y
    <3>2. y < x /\ x < y + HashBlock + HashBlock
      BY <1>1, <2>3, <3>1
    <3>3. k > c
      <4>1. k <= c => HashBlock * c = HashBlock * k + HashBlock * (c - k) /\ HashBlock * (c - k) \in Nat
        <5>1. k \in Nat /\ c \in Nat /\ HashBlock \in Nat
          BY <1>1, <2>1, HashSizes
        <5>2. QED
          BY <5>1, Further
      <4>2. x \in Nat
        BY <1>1, <2>1 DEF x
      <4>3. k <= c => x <= y
        <5> DEFINE z == HashBlock * (c - k)
        <5>1. k <= c => y = x + z /\ z \in Nat
          BY <4>1 DEF x, y
        <5> HIDE DEF z
        <5>2. QED
          BY <3>1, <4>2, <5>1
      <4>4. QED
        BY <1>1, <2>1, <3>1, <3>2, <4>2, <4>3
    <3>4. k < c + 2
      <4>1. k >= c + 2 => HashBlock * k = HashBlock * c + HashBlock + HashBlock + HashBlock * ((k - c) - 2)
                          /\ HashBlock * ((k - c) - 2) \in Nat
        <5> DEFINE m == c + 2
        <5>1. k \in Nat /\ c \in Nat /\ HashBlock \in Nat /\ m \in Nat /\ 2 \in Nat
          BY <1>1, <2>1, HashSizes
        <5>2. k >= m => HashBlock * k = HashBlock * m + HashBlock * (k - m) /\ HashBlock * (k - m) \in Nat
          <6> HIDE DEF m
          <6>1. QED
            BY <5>1, Further
        <5>3. HashBlock * m = HashBlock * c + HashBlock * 2
          BY <5>1, Distribute
        <5>4. HashBlock * 2 = HashBlock + HashBlock
          BY <5>1
        <5>5. k - m = (k - c) - 2
          BY <5>1
        <5>6. m = c + 2
          OBVIOUS
        <5> HIDE DEF m
        <5>7. HashBlock * m = HashBlock * c + (HashBlock + HashBlock)
          BY <5>3, <5>4
        <5>8. QED
          BY <5>1, <5>2, <5>5, <5>6, <5>7
      <4>2. x \in Nat
        BY <1>1, <2>1 DEF x
      <4>3. k >= c + 2 => x >= y + HashBlock + HashBlock
        <5> DEFINE z == HashBlock * ((k - c) - 2)
        <5>1. k >= c + 2 => x = y + HashBlock + HashBlock + z /\ z \in Nat
          BY <4>1 DEF x, y
        <5> HIDE DEF z
        <5>2. QED
          BY <1>1, <3>1, <4>2, <5>1
      <4>4. QED
        BY <1>1, <2>1, <3>1, <3>2, <4>2, <4>3
    <3>5. QED
      BY <1>1, <2>1, <3>3, <3>4
  <2>6. Filled(s, data, n)
    <3>1. n \in Nat \ {0}
      BY <1>1
    <3> HIDE DEF s, n, k
    <3>2. QED
      BY <2>1, <2>5, <3>1, Zenon DEF Filled
  <2>7. QED
    BY <1>3, <2>6
<1>4. QED
  BY <1>2, <1>3

LEMMA FilledBlock ==
  ASSUME NEW whole, NEW data, IsText(data), NEW n, Filled(whole, data, n), NEW b \in 1 .. n
  PROVE  SubSeq(whole, HashBlock * (b - 1) + 1, HashBlock * b) = BlockAt(data, Len(data), b)
<1> DEFINE z == HashBlock * (b - 1)
           s == SubSeq(whole, z + 1, z + HashBlock)
           t == BlockAt(data, Len(data), b)
<1>1. IsText(whole) /\ n \in Nat \ {0} /\ Len(whole) = HashBlock * n /\ HashBlock \in Nat \ {0}
      /\ \A i \in 1 .. Len(whole) : whole[i] = IF i <= Len(data) THEN data[i] ELSE {}
  BY HashSizes DEF Filled
<1>2. z \in Nat /\ HashBlock * b = z + HashBlock /\ z + HashBlock <= Len(whole) /\ Len(whole) \in Nat
  <2>1. z \in Nat /\ HashBlock * b = z + HashBlock /\ HashBlock * b <= HashBlock * n /\ HashBlock * n \in Nat
    BY <1>1, RowPlace
  <2>2. QED
    BY <1>1, <2>1
<1> HIDE DEF z
<1>3. IsText(s) /\ Len(s) = HashBlock /\ \A i \in 1 .. HashBlock : s[i] = whole[z + i]
  BY <1>1, <1>2, PieceIs, ZenonT(60)
<1>4. IsText(t) /\ Len(t) = HashBlock
  BY BlockIs
<1>5. \A i \in 1 .. HashBlock : t[i] = IF z + i <= Len(data) THEN data[z + i] ELSE {}
  BY DEF BlockAt, z
<1>6. \A i \in 1 .. HashBlock : z + i \in 1 .. Len(whole)
  BY <1>1, <1>2
<1> HIDE DEF s, t
<1>7. \A i \in 1 .. HashBlock : s[i] = t[i]
  BY <1>1, <1>3, <1>5, <1>6, Zenon
<1>8. s = t
  BY <1>3, <1>4, <1>7, TextEqual
<1>9. QED
  BY <1>2, <1>8 DEF s, t, z

\* The blocks of a text, one by one.
NthBlock(data, n, b) ==
  Entry(BlockAt(data, Len(data), b), Smaller(HashBlock * b, Len(data)) % OffsetWord,
        (Smaller(HashBlock * b, Len(data)) \div OffsetWord) % OffsetWord, b = n)

LEMMA BlocksAre ==
  ASSUME NEW data, NEW c, Current(data, Len(data), c)
  PROVE  /\ IsText(Blocks(data)) /\ Len(Blocks(data)) = c + 1
         /\ \A b \in 1 .. c + 1 : Blocks(data)[b] = NthBlock(data, c + 1, b)
<1> DEFINE whole == IF data = <<>> THEN ZeroBlock ELSE PaddedBlock(data)
           n == Len(whole) \div HashBlock
           m == c + 1
           s == [b \in 1 .. m |-> NthBlock(data, m, b)]
<1>1. IsText(data) /\ Filled(whole, data, m)
  BY FilledIs DEF Current, Buffered
<1> HIDE DEF whole
<1>2. n = m /\ m \in Nat
  <2>1. Len(whole) = HashBlock * m /\ m \in Nat \ {0} /\ HashBlock \in Nat \ {0}
    BY <1>1, HashSizes DEF Filled
  <2> HIDE DEF m
  <2>2. (HashBlock * m + 0) \div HashBlock = m
    <3>1. 0 \in 0 .. (HashBlock - 1) /\ m \in Int
      BY <2>1
    <3>2. QED
      BY <2>1, <3>1, Division
  <2>3. HashBlock * m + 0 = HashBlock * m
    BY <2>1
  <2>4. QED
    BY <2>1, <2>2, <2>3
<1> HIDE DEF m
<1>3. \A b \in 1 .. m : SubSeq(whole, HashBlock * (b - 1) + 1, HashBlock * b) = BlockAt(data, Len(data), b)
  BY <1>1, FilledBlock
<1>4. Blocks(data) = [b \in 1 .. n |->
         Entry(SubSeq(whole, HashBlock * (b - 1) + 1, HashBlock * b), Smaller(HashBlock * b, Len(data)) % OffsetWord,
               (Smaller(HashBlock * b, Len(data)) \div OffsetWord) % OffsetWord, b = n)]
  BY Zenon DEF Blocks, Entry, whole
<1> HIDE DEF n
<1>5. Blocks(data) = s
  BY <1>2, <1>3, <1>4, Zenon DEF NthBlock
<1>6. s = [b \in 1 .. m |-> s[b]] /\ \A b \in 1 .. m : s[b] = NthBlock(data, m, b)
  OBVIOUS
<1> HIDE DEF s
<1>7. IsText(s) /\ Len(s) = m
  BY <1>2, <1>6, TextFrom
<1>8. QED
  BY <1>5, <1>6, <1>7 DEF m

LEMMA FinalIs ==
  ASSUME NEW p, NEW data, NEW ctx, Stored(p, data, ctx)
  PROVE  crypto_blake2b_final(ctx) = Digest(p, data)
<1> DEFINE l == Len(data)
<1>1. IsText(data) /\ l \in Nat
  BY TextIs DEF Stored
<1>2. PICK c : ctx = Context(p, data, l, c) /\ Current(data, l, c)
  BY DEF Stored
<1>3. Buffered(data, l, c) /\ c \in Nat /\ HashBlock \in Nat \ {0} /\ HashBlock * c <= l /\ l <= HashBlock * c + HashBlock
  BY <1>2, HashSizes DEF Current, Buffered
<1> DEFINE u == l % OffsetWord
           v == (l \div OffsetWord) % OffsetWord
           j == BlockAt(data, l, c + 1)
           h == Hashed(data, c)
           E(last) == Entry(j, u, v, last)
           s == Blocks(data)
           t == Append(h, E(TRUE))
           n == c + 1
<1>4. blake2b_compress(ctx, TRUE).hash = t
  <2>1. \A last : blake2b_compress(ctx, last) = Ctx(p, Append(h, E(last)), u, v, j, l - HashBlock * c)
    BY <1>2, <1>3, CompressIs
  <2>2. \A last : blake2b_compress(ctx, last).hash = Append(h, E(last))
    <3> HIDE DEF E, h, u, v, j
    <3>1. QED
      BY <2>1 DEF Ctx
  <2>3. QED
    BY <2>2, Zenon
<1>5. ctx.params = p
  BY <1>2 DEF Context
<1>6. IsText(s) /\ Len(s) = n /\ \A b \in 1 .. n : s[b] = NthBlock(data, n, b)
  BY <1>2, BlocksAre
<1>7. IsText(h) /\ Len(h) = c /\ \A b \in 1 .. c : h[b] = FullBlock(data, b)
  <2>1. h = [b \in 1 .. c |-> h[b]] /\ \A b \in 1 .. c : h[b] = FullBlock(data, b)
    BY DEF Hashed
  <2> HIDE DEF h
  <2>2. QED
    BY <1>3, <2>1, TextFrom
<1> HIDE DEF h, E, s
<1>8. IsText(t) /\ Len(t) = n /\ t[n] = E(TRUE) /\ \A b \in 1 .. c : t[b] = h[b]
  BY <1>7, TextAppend, ZenonT(60)
<1> HIDE DEF t
<1>9. ASSUME NEW b \in 1 .. c
      PROVE  NthBlock(data, n, b) = FullBlock(data, b)
  <2>1. b # n /\ b \in Nat \ {0} /\ HashBlock * b \in Nat
    BY <1>3
  <2>2. HashBlock * b <= l
    <3>1. HashBlock * b <= HashBlock * c /\ HashBlock * c \in Nat
      BY <1>3, RowPlace
    <3>2. QED
      BY <1>1, <1>3, <2>1, <3>1
  <2>3. Smaller(HashBlock * b, l) = HashBlock * b
    BY <2>2 DEF Smaller
  <2>4. BlockAt(data, l, b) = BlockAt(data, HashBlock * b, b)
    BY <1>1, <2>1, <2>2, BlockFull
  <2>5. (b = n) = FALSE
    BY <2>1
  <2> HIDE DEF n, l
  <2>6. QED
    BY <2>3, <2>4, <2>5, Zenon DEF NthBlock, FullBlock, Entry, l
<1>10. NthBlock(data, n, n) = E(TRUE)
  <2>1. Smaller(HashBlock * n, l) = l
    <3>1. HashBlock * n = HashBlock * c + HashBlock /\ HashBlock * n \in Nat
      BY <1>3
    <3> DEFINE z == HashBlock * n
    <3>2. z >= l /\ z \in Nat
      BY <1>1, <1>3, <3>1
    <3> HIDE DEF z
    <3>3. Smaller(z, l) = l
      BY <1>1, <3>2 DEF Smaller
    <3>4. QED
      BY <3>3 DEF z
  <2>2. (n = n) = TRUE
    OBVIOUS
  <2> HIDE DEF l
  <2>3. NthBlock(data, n, n) = Entry(BlockAt(data, l, n), u, v, n = n)
    BY <2>1, Zenon DEF NthBlock, l
  <2>4. QED
    BY <2>2, <2>3, Zenon DEF E
<1>11. s = t
  <2>1. \A b \in 1 .. n : b = n \/ b \in 1 .. c
    BY <1>3
  <2> HIDE DEF n
  <2>2. \A b \in 1 .. n : s[b] = t[b]
    BY <1>6, <1>7, <1>8, <1>9, <1>10, <2>1, Zenon
  <2>3. QED
    BY <1>6, <1>8, <2>2, TextEqual
<1>12. QED
  BY <1>4, <1>5, <1>11, Zenon DEF crypto_blake2b_final, Digest, s

(* -------- a message in pieces -------- *)

\* Two updates with every piece, and what they put together.
Feeds(g, ctx, a, b, n) ==
  g = [k \in 0 .. n |-> IF k = 0 THEN ctx
                        ELSE crypto_blake2b_update(crypto_blake2b_update(g[k - 1], a[k]), b[k])]

Joining(g, q, n) == g = [k \in 0 .. n |-> IF k = 0 THEN <<>> ELSE g[k - 1] \o q[k]]

LEMMA FeedsFunction ==
  ASSUME NEW ctx, NEW a, NEW b, NEW n \in Nat
  PROVE  \E g : Feeds(g, ctx, a, b, n)
<1> DEFINE first == ctx
           next(l, k) == crypto_blake2b_update(crypto_blake2b_update(l, a[k]), b[k])
           step(g, k) == IF k = 0 THEN first ELSE next(g[k - 1], k)
           Good(g, m) == g = [k \in 0 .. m |-> step(g, k)]
           T == {m \in 0 .. n : \E g : Good(g, m)}
<1> HIDE DEF next, first
<1>1. 0 \in T
  <2> DEFINE h == [k \in 0 .. 0 |-> first]
  <2>1. \A k \in 0 .. 0 : h[k] = step(h, k)
    OBVIOUS
  <2>2. Good(h, 0)
    BY <2>1
  <2>3. 0 \in 0 .. n
    OBVIOUS
  <2> HIDE DEF Good
  <2>4. QED
    BY <2>2, <2>3
<1>2. ASSUME NEW m \in 0 .. (n - 1), m \in T
      PROVE  m + 1 \in T
  <2>1. PICK g : Good(g, m)
    BY <1>2, Zenon
  <2> DEFINE h == [k \in 0 .. m + 1 |-> IF k <= m THEN g[k] ELSE next(g[m], m + 1)]
  <2>2. \A k \in 0 .. m : g[k] = step(g, k)
    BY <2>1
  <2>3. ASSUME NEW k \in 0 .. m + 1
        PROVE  h[k] = step(h, k)
    <3>1. CASE k \in 0 .. m
      <4>1. h[k] = g[k] /\ (k # 0 => h[k - 1] = g[k - 1])
        BY <3>1
      <4> HIDE DEF h
      <4>2. QED
        BY <2>2, <3>1, <4>1
    <3>2. CASE k = m + 1
      <4>1. h[k] = next(g[m], k) /\ h[m] = g[m] /\ k # 0 /\ k - 1 = m
        BY <3>2
      <4> HIDE DEF h
      <4>2. QED
        BY <4>1
    <3>3. k \in 0 .. m \/ k = m + 1
      OBVIOUS
    <3>4. QED
      BY <3>1, <3>2, <3>3
  <2>4. Good(h, m + 1)
    BY <2>3
  <2>5. m + 1 \in 0 .. n
    OBVIOUS
  <2> HIDE DEF Good
  <2>6. QED
    BY <2>4, <2>5
<1>3. \E g : Good(g, n)
  <2>1. n \in T
    <3> HIDE DEF T
    <3>1. \A m \in 0 .. n : m \in T
      BY <1>1, <1>2, InductionTo
    <3>2. QED
      BY <3>1
  <2>2. QED
    BY <2>1, Zenon
<1>4. QED
  BY <1>3, Zenon DEF Feeds, next, first

LEMMA JoiningFunction ==
  ASSUME NEW q, NEW n \in Nat
  PROVE  \E g : Joining(g, q, n)
<1> DEFINE first == <<>>
           next(l, k) == l \o q[k]
           step(g, k) == IF k = 0 THEN first ELSE next(g[k - 1], k)
           Good(g, m) == g = [k \in 0 .. m |-> step(g, k)]
           T == {m \in 0 .. n : \E g : Good(g, m)}
<1> HIDE DEF next, first
<1>1. 0 \in T
  <2> DEFINE h == [k \in 0 .. 0 |-> first]
  <2>1. \A k \in 0 .. 0 : h[k] = step(h, k)
    OBVIOUS
  <2>2. Good(h, 0)
    BY <2>1
  <2>3. 0 \in 0 .. n
    OBVIOUS
  <2> HIDE DEF Good
  <2>4. QED
    BY <2>2, <2>3
<1>2. ASSUME NEW m \in 0 .. (n - 1), m \in T
      PROVE  m + 1 \in T
  <2>1. PICK g : Good(g, m)
    BY <1>2, Zenon
  <2> DEFINE h == [k \in 0 .. m + 1 |-> IF k <= m THEN g[k] ELSE next(g[m], m + 1)]
  <2>2. \A k \in 0 .. m : g[k] = step(g, k)
    BY <2>1
  <2>3. ASSUME NEW k \in 0 .. m + 1
        PROVE  h[k] = step(h, k)
    <3>1. CASE k \in 0 .. m
      <4>1. h[k] = g[k] /\ (k # 0 => h[k - 1] = g[k - 1])
        BY <3>1
      <4> HIDE DEF h
      <4>2. QED
        BY <2>2, <3>1, <4>1
    <3>2. CASE k = m + 1
      <4>1. h[k] = next(g[m], k) /\ h[m] = g[m] /\ k # 0 /\ k - 1 = m
        BY <3>2
      <4> HIDE DEF h
      <4>2. QED
        BY <4>1
    <3>3. k \in 0 .. m \/ k = m + 1
      OBVIOUS
    <3>4. QED
      BY <3>1, <3>2, <3>3
  <2>4. Good(h, m + 1)
    BY <2>3
  <2>5. m + 1 \in 0 .. n
    OBVIOUS
  <2> HIDE DEF Good
  <2>6. QED
    BY <2>4, <2>5
<1>3. \E g : Good(g, n)
  <2>1. n \in T
    <3> HIDE DEF T
    <3>1. \A m \in 0 .. n : m \in T
      BY <1>1, <1>2, InductionTo
    <3>2. QED
      BY <3>1
  <2>2. QED
    BY <2>1, Zenon
<1>4. QED
  BY <1>3, Zenon DEF Joining, next, first

LEMMA JoiningIs ==
  ASSUME NEW q, IsTexts(q), NEW msg, msg = CHOOSE g : Joining(g, q, Len(q))
  PROVE  Joins(msg, q) /\ \A k \in 0 .. Len(q) : IsText(msg[k])
<1> DEFINE n == Len(q)
<1>1. n \in Nat
  BY TextIs DEF IsTexts
<1>2. Joining(msg, q, n)
  <2>1. \E g : Joining(g, q, n)
    BY <1>1, JoiningFunction
  <2>2. QED
    BY <2>1, Zenon
<1> DEFINE next(k) == msg[k - 1] \o q[k]
<1>3. msg = [k \in 0 .. n |-> IF k = 0 THEN <<>> ELSE next(k)]
  BY <1>2, Zenon DEF Joining
<1> HIDE DEF next, n
<1>4. msg[0] = <<>> /\ \A k \in 1 .. n : msg[k] = next(k)
  <2>1. 0 \in 0 .. n /\ \A k \in 1 .. n : k \in 0 .. n /\ k # 0
    BY <1>1
  <2>2. \A k \in 0 .. n : msg[k] = IF k = 0 THEN <<>> ELSE next(k)
    BY <1>3, Zenon
  <2>3. QED
    BY <2>1, <2>2
<1>5. Joins(msg, q)
  BY <1>4, Zenon DEF Joins, next, n
<1>6. QED
  BY <1>5, JoinsLengths

LEMMA TextThree ==
  ASSUME NEW a, IsText(a), NEW b, IsText(b), NEW c, IsText(c)
  PROVE  (a \o b) \o c = a \o (b \o c)
<1>1. IsText(<<>>) /\ IsText(c \o <<>>) /\ c \o <<>> = c
  BY EmptyText, NoMore
<1>2. ((a \o b) \o c) \o <<>> = a \o (b \o (c \o <<>>))
  <2>1. Regroups(a, b, c, <<>>)
    BY <1>1, TextAssoc
  <2>2. QED
    BY <2>1, Zenon DEF Regroups
<1>3. IsText((a \o b) \o c)
  <2>1. IsText(a \o b)
    BY TextConcat
  <2>2. QED
    BY <2>1, TextConcat
<1>4. ((a \o b) \o c) \o <<>> = (a \o b) \o c
  BY <1>3, NoMore
<1>5. QED
  BY <1>1, <1>2, <1>4

LEMMA BothUpdated ==
  ASSUME NEW p, NEW data, NEW ctx, Stored(p, data, ctx), NEW a, IsText(a), NEW b, IsText(b)
  PROVE  Stored(p, data \o (a \o b), crypto_blake2b_update(crypto_blake2b_update(ctx, a), b))
<1>1. Stored(p, data \o a, crypto_blake2b_update(ctx, a))
  BY UpdateIs
<1>2. Stored(p, (data \o a) \o b, crypto_blake2b_update(crypto_blake2b_update(ctx, a), b))
  BY <1>1, UpdateIs
<1>3. (data \o a) \o b = data \o (a \o b)
  BY TextThree DEF Stored
<1>4. QED
  BY <1>2, <1>3

\* Each piece made of two.
Pairs(q, a, b) ==
  IsTexts(q) /\ \A k \in 1 .. Len(q) : IsText(a[k]) /\ IsText(b[k]) /\ q[k] = a[k] \o b[k]

LEMMA FedIs ==
  ASSUME NEW p, NEW base, NEW ctx, Stored(p, base, ctx), NEW q, NEW a, NEW b, Pairs(q, a, b),
         NEW fed, fed = CHOOSE g : Feeds(g, ctx, a, b, Len(q)), NEW msg, Joins(msg, q)
  PROVE  Stored(p, base \o msg[Len(q)], fed[Len(q)])
<1> DEFINE n == Len(q)
           next(k) == crypto_blake2b_update(crypto_blake2b_update(fed[k - 1], a[k]), b[k])
           T == {k \in 0 .. n : Stored(p, base \o msg[k], fed[k])}
<1>1. /\ n \in Nat /\ IsTexts(q) /\ IsText(base)
      /\ \A k \in 1 .. n : IsText(a[k]) /\ IsText(b[k]) /\ q[k] = a[k] \o b[k]
  BY TextIs DEF Pairs, IsTexts, Stored
<1>2. Feeds(fed, ctx, a, b, n)
  <2>1. \E g : Feeds(g, ctx, a, b, n)
    BY <1>1, FeedsFunction
  <2>2. QED
    BY <2>1, Zenon
<1>3. fed = [k \in 0 .. n |-> IF k = 0 THEN ctx ELSE next(k)]
  BY <1>2, Zenon DEF Feeds
<1> HIDE DEF next, n
<1>4. fed[0] = ctx /\ \A k \in 1 .. n : fed[k] = next(k)
  <2>1. 0 \in 0 .. n /\ \A k \in 1 .. n : k \in 0 .. n /\ k # 0
    BY <1>1
  <2>2. \A k \in 0 .. n : fed[k] = IF k = 0 THEN ctx ELSE next(k)
    BY <1>3, Zenon
  <2>3. QED
    BY <2>1, <2>2
<1>5. msg[0] = <<>> /\ \A k \in 1 .. n : msg[k] = msg[k - 1] \o q[k]
  BY DEF Joins, n
<1>6. \A k \in 0 .. n : IsText(msg[k])
  BY <1>1, JoinsLengths DEF n
<1>7. 0 \in T
  <2>1. Stored(p, base \o msg[0], fed[0])
    <3>1. base \o <<>> = base
      BY <1>1, NoMore
    <3>2. QED
      BY <1>4, <1>5, <3>1
  <2>2. QED
    BY <1>1, <2>1
<1>8. ASSUME NEW m \in 0 .. (n - 1), m \in T
      PROVE  m + 1 \in T
  <2> DEFINE k == m + 1
             count == base \o msg[m]
  <2>1. k \in 1 .. n /\ k \in 0 .. n /\ k - 1 = m /\ m \in 0 .. n
    BY <1>1
  <2> HIDE DEF k
  <2>2. Stored(p, count, fed[m]) /\ IsText(a[k]) /\ IsText(b[k])
    BY <1>1, <1>8, <2>1
  <2>3. Stored(p, count \o (a[k] \o b[k]), crypto_blake2b_update(crypto_blake2b_update(fed[m], a[k]), b[k]))
    <3> HIDE DEF count
    <3>1. QED
      BY <2>2, BothUpdated, Zenon
  <2>4. fed[k] = crypto_blake2b_update(crypto_blake2b_update(fed[m], a[k]), b[k])
    BY <1>4, <2>1 DEF next
  <2>5. count \o (a[k] \o b[k]) = base \o msg[k]
    <3>1. q[k] = a[k] \o b[k] /\ msg[k] = msg[m] \o q[k]
      BY <1>1, <1>5, <2>1
    <3>2. IsText(q[k])
      BY <1>1, <2>1 DEF IsTexts, n
    <3>3. IsText(msg[m])
      BY <1>6, <2>1
    <3>4. (base \o msg[m]) \o q[k] = base \o (msg[m] \o q[k])
      <4>1. IsText(base)
        BY <1>1
      <4> DEFINE x == msg[m]
                 y == q[k]
      <4>2. IsText(x) /\ IsText(y)
        BY <3>2, <3>3
      <4> HIDE DEF x, y
      <4>3. (base \o x) \o y = base \o (x \o y)
        BY <4>1, <4>2, TextThree
      <4>4. QED
        BY <4>3 DEF x, y
    <3>5. QED
      BY <3>1, <3>4
  <2>6. Stored(p, base \o msg[k], fed[k])
    BY <2>3, <2>4, <2>5, Zenon
  <2>7. QED
    BY <2>1, <2>6 DEF k
<1>9. n \in T
  <2> HIDE DEF T
  <2>1. \A k \in 0 .. n : k \in T
    BY <1>1, <1>7, <1>8, InductionTo
  <2>2. QED
    BY <1>1, <2>1
<1>10. QED
  BY <1>9 DEF n

\* The pieces as they are fed to crypto_blake2b_update, and as they are put together.
FedPieces(hash_size, secret, pieces) ==
  LET fed[k \in 0 .. Len(pieces)] ==
        IF k = 0 THEN crypto_blake2b_keyed_init(hash_size, secret)
        ELSE crypto_blake2b_update(fed[k - 1], pieces[k])
  IN crypto_blake2b_final(fed[Len(pieces)])

AllPieces(pieces) ==
  LET all[k \in 0 .. Len(pieces)] == IF k = 0 THEN <<>> ELSE all[k - 1] \o pieces[k]
  IN all[Len(pieces)]

LEMMA PiecesIs ==
  ASSUME NEW hash_size, NEW secret, IsKey(secret), NEW pieces, IsTexts(pieces)
  PROVE  FedPieces(hash_size, secret, pieces) = Rfc7693(hash_size, secret, AllPieces(pieces))
<1> DEFINE n == Len(pieces)
           p == Params(hash_size, secret)
           base == PaddedBlock(secret)
           ctx == crypto_blake2b_keyed_init(hash_size, secret)
           a == [k \in 1 .. n |-> <<>>]
           fed == CHOOSE g : Feeds(g, ctx, a, pieces, n)
           one == CHOOSE g : g = [k \in 0 .. n |-> IF k = 0 THEN ctx
                                                   ELSE crypto_blake2b_update(g[k - 1], pieces[k])]
           all == CHOOSE g : Joining(g, pieces, n)
<1>1. FedPieces(hash_size, secret, pieces) = crypto_blake2b_final(one[n])
  BY Zenon DEF FedPieces
<1>2. AllPieces(pieces) = all[n]
  BY Zenon DEF AllPieces, Joining
<1>3. \A x : crypto_blake2b_update(x, <<>>) = x
  BY Zenon DEF crypto_blake2b_update
<1>4. \A k \in 1 .. n : IsText(pieces[k]) /\ IsText(a[k]) /\ a[k] = <<>> /\ pieces[k] = a[k] \o pieces[k]
  BY EmptyText DEF IsTexts
<1>5. Pairs(pieces, a, pieces)
  BY <1>4 DEF Pairs
<1>6. one = fed
  <2>1. n \in Nat
    BY TextIs DEF IsTexts
  <2> HIDE DEF n, ctx, a
  <2> DEFINE G(g, k) == crypto_blake2b_update(g[k - 1], pieces[k])
             H(g, k) == crypto_blake2b_update(crypto_blake2b_update(g[k - 1], a[k]), pieces[k])
  <2>2. \A g : \A k \in 1 .. n : G(g, k) = H(g, k)
    BY <1>3, <1>4, Zenon
  <2> HIDE DEF G, H
  <2>3. \A k \in 0 .. n : k # 0 => k \in 1 .. n
    BY <2>1
  <2>4. \A g : [k \in 0 .. n |-> IF k = 0 THEN ctx ELSE G(g, k)] = [k \in 0 .. n |-> IF k = 0 THEN ctx ELSE H(g, k)]
    BY <2>2, <2>3
  <2>5. \A g : (g = [k \in 0 .. n |-> IF k = 0 THEN ctx ELSE G(g, k)]) <=> Feeds(g, ctx, a, pieces, n)
    BY <2>4, Zenon DEF Feeds, H
  <2>6. QED
    BY <2>5, Zenon DEF G
<1>7. Stored(p, base, ctx)
  BY InitIs
<1> HIDE DEF n, a, ctx, p, base, one
<1>8. Joins(all, pieces)
  BY JoiningIs DEF n
<1> HIDE DEF all
<1>9. Stored(p, base \o all[n], fed[n])
  <2>1. fed = CHOOSE g : Feeds(g, ctx, a, pieces, Len(pieces))
    BY Zenon DEF n
  <2> HIDE DEF fed
  <2>2. QED
    BY <1>5, <1>7, <1>8, <2>1, FedIs, Zenon DEF n
<1> HIDE DEF fed
<1>10. crypto_blake2b_final(fed[n]) = Digest(p, base \o all[n])
  BY <1>9, FinalIs, Zenon
<1>11. Rfc7693(hash_size, secret, all[n]) = Digest(p, base \o all[n])
  BY RfcIs, Zenon DEF p, base
<1>12. QED
  BY <1>1, <1>2, <1>6, <1>10, <1>11, Zenon

(* -------- a hash of any length -------- *)

LEMMA WordIs ==
  ASSUME NEW n
  PROVE  /\ IsText(Word32(n)) /\ Len(Word32(n)) = WordBytes \div 2 /\ WordBytes \div 2 \in Nat \ {0}
         /\ Word32(n)[1] = {<<"u32", n, 1>>}
<1> DEFINE m == WordBytes \div 2
           t == Word32(n)
<1>1. m \in Nat \ {0}
  BY HashSizes, Argon2Assumption
<1>2. t = [i \in 1 .. m |-> t[i]] /\ \A i \in 1 .. m : t[i] = {<<"u32", n, i>>}
  BY DEF Word32
<1> HIDE DEF t, m
<1>3. IsText(t) /\ Len(t) = m
  BY <1>1, <1>2, TextFrom
<1>4. 1 \in 1 .. m
  BY <1>1
<1>5. QED
  BY <1>1, <1>2, <1>3, <1>4 DEF t, m

LEMMA HashBytesIs ==
  ASSUME NEW hash, NEW n \in Nat
  PROVE  IsText(HashBytes(hash, n)) /\ Len(HashBytes(hash, n)) = n
<1> DEFINE t == HashBytes(hash, n)
<1>1. t = [i \in 1 .. n |-> t[i]]
  BY DEF HashBytes
<1> HIDE DEF t
<1>2. QED
  BY <1>1, TextFrom DEF t

LEMMA NoKey ==
  ASSUME NEW hash_size
  PROVE  Stored(Params(hash_size, <<>>), PaddedBlock(<<>>), crypto_blake2b_keyed_init(hash_size, <<>>))
<1>1. IsKey(<<>>)
  BY EmptyText, HashSizes DEF IsKey
<1>2. QED
  BY <1>1, InitIs

\* The size and the message hashed one after the other, or as one message.
LEMMA FirstIs ==
  ASSUME NEW hash_size, NEW size, NEW message, IsText(message)
  PROVE  crypto_blake2b_final(crypto_blake2b_update(
           blake_update_32(crypto_blake2b_keyed_init(hash_size, <<>>), size), message))
           = crypto_blake2b(hash_size, Word32(size) \o message)
<1> DEFINE p == Params(hash_size, <<>>)
           base == PaddedBlock(<<>>)
           ctx == crypto_blake2b_keyed_init(hash_size, <<>>)
           word == Word32(size)
           both == word \o message
<1>1. Stored(p, base, ctx) /\ IsText(word)
  BY NoKey, WordIs
<1>2. IsText(both)
  BY <1>1, TextConcat
<1>3. crypto_blake2b(hash_size, both) = crypto_blake2b_final(crypto_blake2b_update(ctx, both))
  BY Zenon DEF crypto_blake2b, crypto_blake2b_keyed
<1>4. blake_update_32(ctx, size) = crypto_blake2b_update(ctx, word)
  BY Zenon DEF blake_update_32
<1> HIDE DEF p, base, ctx, word
<1>5. Stored(p, base \o both, crypto_blake2b_update(crypto_blake2b_update(ctx, word), message))
  BY <1>1, BothUpdated
<1> HIDE DEF both
<1>6. Stored(p, base \o both, crypto_blake2b_update(ctx, both))
  BY <1>1, <1>2, UpdateIs
<1>7. crypto_blake2b_final(crypto_blake2b_update(crypto_blake2b_update(ctx, word), message)) = Digest(p, base \o both)
      /\ crypto_blake2b_final(crypto_blake2b_update(ctx, both)) = Digest(p, base \o both)
  BY <1>5, <1>6, FinalIs, Zenon
<1>8. QED
  BY <1>3, <1>4, <1>7, Zenon DEF ctx, both, word

\* Half hashes that a digest is made of, rounded up.
LEMMA RoundsAre ==
  ASSUME NEW size \in Nat, size > MaxHash
  PROVE  /\ rounds(size) = -((-size) \div HalfHash) - 2 /\ rounds(size) \in Nat \ {0}
         /\ HalfHash \in Nat \ {0} /\ MaxHash = HalfHash + HalfHash
         /\ size - HalfHash * rounds(size) \in (HalfHash + 1) .. MaxHash
<1> DEFINE H == HalfHash
           q == (size + H - 1) \div H
           s == (size + H - 1) % H
           r == q - 2
           e == H - 1 - s
<1>1. H \in Nat \ {0} /\ MaxHash = H + H
  <2>1. MaxHash \in Nat /\ MaxHash % 2 = 0 /\ MaxHash > 0
    BY Argon2Assumption, Blake2bAssumption
  <2>2. QED
    BY <2>1 DEF HalfHash
<1> HIDE DEF H
<1>2. size + H - 1 \in Nat
  BY <1>1
<1>3. size + H - 1 = H * q + s /\ q \in Nat /\ s \in 0 .. (H - 1)
  BY <1>1, <1>2, LowAndHigh
<1> HIDE DEF q, s
<1>4. e \in 0 .. (H - 1) /\ size = H * q - e /\ -size = H * (-q) + e
  <2>1. H * q \in Nat /\ H * (-q) = -(H * q)
    BY <1>1, <1>3
  <2> DEFINE x == H * q
             y == H * (-q)
  <2>2. x \in Nat /\ y = -x /\ size + H - 1 = x + s
    BY <1>3, <2>1
  <2> HIDE DEF x, y
  <2>3. e \in 0 .. (H - 1) /\ size = x - e /\ -size = y + e
    BY <1>1, <1>3, <2>2
  <2>4. QED
    BY <2>3 DEF x, y
<1> HIDE DEF e
<1>5. (-size) \div H = -q
  <2>1. -q \in Int
    BY <1>3
  <2>2. (H * (-q) + e) \div H = -q
    BY <1>1, <1>4, <2>1, Division
  <2>3. QED
    BY <1>4, <2>2
<1>6. H * q > H + H
  <2> DEFINE x == H * q
  <2>1. x \in Nat /\ size = x - e /\ size > H + H
    BY <1>1, <1>3, <1>4
  <2> HIDE DEF x
  <2>2. x > H + H
    BY <1>1, <1>4, <2>1
  <2>3. QED
    BY <2>2 DEF x
<1>7. q > 2
  <2>1. q <= 2 => H * q + H * (2 - q) = H + H /\ H * (2 - q) \in Nat /\ H * q \in Nat
    BY <1>1, <1>3
  <2> DEFINE x == H * q
             y == H * (2 - q)
  <2>2. q <= 2 => x + y = H + H /\ y \in Nat /\ x \in Nat
    BY <2>1
  <2>3. x > H + H /\ x \in Nat
    BY <1>1, <1>3, <1>6
  <2> HIDE DEF x, y
  <2>4. QED
    BY <1>1, <1>3, <2>2, <2>3
<1>8. H * r = H * q - (H + H) /\ H * q \in Nat /\ r \in Nat \ {0}
  BY <1>1, <1>3, <1>7
<1>9. size - H * r = (H + H) - e
  <2> DEFINE x == H * q
             y == H * r
  <2>1. y = x - (H + H) /\ x \in Nat /\ size = x - e
    BY <1>4, <1>8
  <2> HIDE DEF x, y
  <2>2. size - y = (H + H) - e
    BY <1>1, <1>4, <2>1
  <2>3. QED
    BY <2>2 DEF y
<1>10. (H + H) - e \in (H + 1) .. (H + H)
  BY <1>1, <1>4
<1>11. rounds(size) = r /\ -((-size) \div H) - 2 = r
  <2>1. rounds(size) = r
    BY DEF rounds, q, H
  <2>2. -(-q) - 2 = r
    BY <1>3
  <2>3. QED
    BY <1>5, <2>1, <2>2
<1>12. QED
  BY <1>1, <1>8, <1>9, <1>10, <1>11 DEF H

\* The hashes of a long digest, each the hash of the one before.
Hashes(g, size, start, n) ==
  g = [i \in 1 .. n |-> IF i = 1 THEN start
                        ELSE HashBytes(crypto_blake2b(size[i], g[i - 1]), size[i])]

LEMMA HashesFunction ==
  ASSUME NEW size, NEW start, NEW n \in Nat
  PROVE  \E g : Hashes(g, size, start, n)
<1> DEFINE next(l, i) == HashBytes(crypto_blake2b(size[i], l), size[i])
           step(g, i) == IF i = 1 THEN start ELSE next(g[i - 1], i)
           Good(g, m) == g = [i \in 1 .. m |-> step(g, i)]
           T == {m \in 0 .. n : \E g : Good(g, m)}
<1> HIDE DEF next
<1>1. 0 \in T
  <2> DEFINE h == [i \in 1 .. 0 |-> start]
  <2>1. Good(h, 0)
    OBVIOUS
  <2>2. 0 \in 0 .. n
    OBVIOUS
  <2> HIDE DEF Good
  <2>3. QED
    BY <2>1, <2>2
<1>2. ASSUME NEW m \in 0 .. (n - 1), m \in T
      PROVE  m + 1 \in T
  <2>1. PICK g : Good(g, m)
    BY <1>2, Zenon
  <2> DEFINE h == [i \in 1 .. m + 1 |-> IF i <= m THEN g[i] ELSE step(g, i)]
  <2>2. \A i \in 1 .. m : g[i] = step(g, i)
    BY <2>1
  <2>3. ASSUME NEW i \in 1 .. m + 1
        PROVE  h[i] = step(h, i)
    <3>1. h[i] = step(g, i)
      BY <2>2
    <3>2. i # 1 => i - 1 \in 1 .. m /\ i - 1 \in 1 .. m + 1
      OBVIOUS
    <3>3. i # 1 => h[i - 1] = g[i - 1]
      BY <3>2
    <3> HIDE DEF h
    <3>4. QED
      BY <3>1, <3>3
  <2>4. Good(h, m + 1)
    BY <2>3
  <2>5. m + 1 \in 0 .. n
    OBVIOUS
  <2> HIDE DEF Good
  <2>6. QED
    BY <2>4, <2>5
<1>3. \E g : Good(g, n)
  <2>1. n \in T
    <3> HIDE DEF T
    <3>1. \A m \in 0 .. n : m \in T
      BY <1>1, <1>2, InductionTo
    <3>2. QED
      BY <3>1
  <2>2. QED
    BY <2>1, Zenon
<1>4. QED
  BY <1>3, Zenon DEF Hashes, next

\* The hashes with their lengths: all of them long but the last.
Hashed64(v, size, n) ==
  /\ n \in Nat \ {0}
  /\ \A i \in 1 .. n : size[i] \in Nat /\ IsText(v[i]) /\ Len(v[i]) = size[i]
  /\ \A i \in 1 .. n - 1 : size[i] = MaxHash
  /\ \A i \in 2 .. n : v[i] = HashBytes(crypto_blake2b(size[i], v[i - 1]), size[i])

\* Half of each hash, and all of the last of k + 1.
HashHalves(v, size, k) ==
  [o \in 1 .. HalfHash * k + size[k + 1] |->
     LET i == Smaller((o - 1) \div HalfHash + 1, k + 1) IN v[i][o - HalfHash * (i - 1)]]

LEMMA HalvesAre ==
  ASSUME NEW v, NEW size, NEW n, Hashed64(v, size, n), HalfHash \in Nat \ {0}, MaxHash = HalfHash + HalfHash,
         NEW k \in 0 .. (n - 1)
  PROVE  /\ IsText(HashHalves(v, size, k)) /\ Len(HashHalves(v, size, k)) = HalfHash * k + size[k + 1]
         /\ \A o \in 1 .. HalfHash * k : HashHalves(v, size, k)[o] =
              v[(o - 1) \div HalfHash + 1][o - HalfHash * ((o - 1) \div HalfHash)]
         /\ \A j \in 1 .. size[k + 1] : HashHalves(v, size, k)[HalfHash * k + j] = v[k + 1][j]
<1> DEFINE H == HalfHash
           y == H * k
           l == y + size[k + 1]
           t == HashHalves(v, size, k)
           I(o) == Smaller((o - 1) \div H + 1, k + 1)
<1>1. H \in Nat \ {0} /\ k \in Nat /\ size[k + 1] \in Nat /\ y \in Nat /\ l \in Nat
  <2>1. n \in Nat \ {0}
    BY DEF Hashed64
  <2>2. k + 1 \in 1 .. n
    BY <2>1
  <2>3. size[k + 1] \in Nat
    BY <2>2 DEF Hashed64
  <2>4. QED
    BY <2>1, <2>3
<1>2. t = [o \in 1 .. l |-> v[I(o)][o - H * (I(o) - 1)]]
  BY Zenon DEF HashHalves
<1>3. IsText(t) /\ Len(t) = l /\ \A o \in 1 .. l : t[o] = v[I(o)][o - H * (I(o) - 1)]
  <2> HIDE DEF t, l, I
  <2>1. t = [o \in 1 .. l |-> t[o]] /\ \A o \in 1 .. l : t[o] = v[I(o)][o - H * (I(o) - 1)]
    BY <1>2
  <2>2. QED
    BY <1>1, <2>1, TextFrom
<1> HIDE DEF t
<1>4. ASSUME NEW o \in 1 .. y
      PROVE  t[o] = v[(o - 1) \div H + 1][o - H * ((o - 1) \div H)]
  <2> DEFINE q == (o - 1) \div H
  <2>1. o - 1 \in Nat /\ o - 1 < H * k /\ o \in 1 .. l
    BY <1>1
  <2>2. q \in Nat /\ q < k
    BY <1>1, <2>1, LowAndHigh
  <2> HIDE DEF q, y, l
  <2>3. Smaller(q + 1, k + 1) = q + 1 /\ (q + 1) - 1 = q
    BY <1>1, <2>2 DEF Smaller
  <2>4. I(o) = q + 1
    BY <2>3 DEF q
  <2> HIDE DEF I
  <2>5. t[o] = v[q + 1][o - H * ((q + 1) - 1)]
    BY <1>3, <2>1, <2>4
  <2>6. QED
    BY <2>3, <2>5 DEF q
<1>5. ASSUME NEW j \in 1 .. size[k + 1]
      PROVE  t[y + j] = v[k + 1][j]
  <2> DEFINE o == y + j
             q == (o - 1) \div H
  <2>1. o \in 1 .. l /\ o - 1 = H * k + (j - 1) /\ j - 1 \in Nat
    BY <1>1
  <2>2. q \in Nat /\ q >= k
    <3>1. (H * k + (j - 1)) \div H = k + ((j - 1) \div H)
      BY <1>1, <2>1, BehindRows
    <3>2. (j - 1) \div H \in Nat
      BY <1>1, <2>1, LowAndHigh
    <3> DEFINE z == (j - 1) \div H
    <3>3. q = k + z /\ z \in Nat
      BY <2>1, <3>1, <3>2
    <3> HIDE DEF z, q
    <3>4. QED
      BY <1>1, <3>3
  <2> HIDE DEF q, l
  <2>3. Smaller(q + 1, k + 1) = k + 1 /\ (k + 1) - 1 = k
    BY <1>1, <2>2 DEF Smaller
  <2>4. I(o) = k + 1
    BY <2>3 DEF q
  <2>5. o - H * k = j
    BY <1>1
  <2> HIDE DEF I, o
  <2>6. t[o] = v[k + 1][o - H * ((k + 1) - 1)]
    BY <1>3, <2>1, <2>4
  <2>7. QED
    BY <2>3, <2>5, <2>6 DEF o
<1>6. QED
  BY <1>3, <1>4, <1>5 DEF t, y, l

\* One hash more, made of the last one where it stands.
Extends(v, size, k) ==
  SubSeq(HashHalves(v, size, k - 1), 1, HalfHash * k) \o
    HashAt(HashHalves(v, size, k - 1), HalfHash * (k - 1), size[k + 1]) = HashHalves(v, size, k)

LEMMA ExtendsIs ==
  ASSUME NEW v, NEW size, NEW n, Hashed64(v, size, n), HalfHash \in Nat \ {0}, MaxHash = HalfHash + HalfHash,
         NEW k \in 1 .. (n - 1)
  PROVE  Extends(v, size, k)
<1> DEFINE H == HalfHash
           m == k - 1
           a == HashHalves(v, size, m)
           b == HashHalves(v, size, k)
           z == H * m
           y == H * k
           hash == HashBytes(crypto_blake2b(size[k + 1], v[k]), size[k + 1])
           s == SubSeq(a, 1, y)
           c == s \o hash
<1>1. /\ n \in Nat \ {0} /\ k \in Nat \ {0} /\ m \in 0 .. (n - 1) /\ k \in 0 .. (n - 1) /\ m + 1 = k
      /\ H \in Nat \ {0} /\ k + 1 \in 2 .. n /\ k + 1 \in 1 .. n /\ (k + 1) - 1 = k /\ k \in 1 .. n
  BY DEF Hashed64
<1>2. /\ size[k] = MaxHash /\ size[k + 1] \in Nat
      /\ v[k + 1] = HashBytes(crypto_blake2b(size[k + 1], v[k]), size[k + 1])
      /\ IsText(v[k]) /\ Len(v[k]) = size[k] /\ IsText(v[k + 1]) /\ Len(v[k + 1]) = size[k + 1]
  <2>1. size[k] = MaxHash
    BY DEF Hashed64
  <2>2. \A i \in 1 .. n : size[i] \in Nat /\ IsText(v[i]) /\ Len(v[i]) = size[i]
    BY DEF Hashed64
  <2>3. \A i \in 2 .. n : v[i] = HashBytes(crypto_blake2b(size[i], v[i - 1]), size[i])
    BY DEF Hashed64
  <2>4. v[k + 1] = HashBytes(crypto_blake2b(size[k + 1], v[k]), size[k + 1])
    <3>1. v[k + 1] = HashBytes(crypto_blake2b(size[k + 1], v[(k + 1) - 1]), size[k + 1])
      BY <1>1, <2>3, Zenon
    <3>2. QED
      BY <1>1, <3>1, Zenon
  <2>5. QED
    BY <1>1, <2>1, <2>2, <2>4
<1>3. z \in Nat /\ y = z + H /\ y \in Nat
  BY <1>1
<1>4. /\ IsText(a) /\ Len(a) = z + MaxHash
      /\ \A o \in 1 .. z : a[o] = v[(o - 1) \div H + 1][o - H * ((o - 1) \div H)]
      /\ \A j \in 1 .. MaxHash : a[z + j] = v[k][j]
  <2> HIDE DEF a
  <2>1. /\ IsText(HashHalves(v, size, m)) /\ Len(HashHalves(v, size, m)) = H * m + size[m + 1]
        /\ \A o \in 1 .. H * m : HashHalves(v, size, m)[o] =
             v[(o - 1) \div H + 1][o - H * ((o - 1) \div H)]
        /\ \A j \in 1 .. size[m + 1] : HashHalves(v, size, m)[H * m + j] = v[m + 1][j]
    <3> HIDE DEF m
    <3>1. QED
      BY <1>1, HalvesAre
  <2>2. size[m + 1] = MaxHash /\ v[m + 1] = v[k]
    BY <1>1, <1>2
  <2> HIDE DEF m
  <2>3. QED
    BY <2>1, <2>2, Zenon DEF a, z
<1>5. /\ IsText(b) /\ Len(b) = y + size[k + 1]
      /\ \A o \in 1 .. y : b[o] = v[(o - 1) \div H + 1][o - H * ((o - 1) \div H)]
      /\ \A j \in 1 .. size[k + 1] : b[y + j] = v[k + 1][j]
  BY <1>1, HalvesAre
<1> HIDE DEF a, b, z, y
<1>6. SubSeq(a, z + 1, z + MaxHash) = v[k]
  <2> DEFINE w == SubSeq(a, z + 1, z + MaxHash)
             x == v[k]
  <2>1. MaxHash \in Nat /\ z + MaxHash <= Len(a) /\ IsText(a) /\ z \in Nat
    BY <1>1, <1>3, <1>4
  <2>2. IsText(w) /\ Len(w) = MaxHash /\ \A j \in 1 .. MaxHash : w[j] = a[z + j]
    BY <2>1, PieceIs, ZenonT(60)
  <2>3. IsText(x) /\ Len(x) = MaxHash /\ \A j \in 1 .. MaxHash : a[z + j] = x[j]
    BY <1>2, <1>4
  <2> HIDE DEF w, x
  <2>4. w = x
    BY <2>2, <2>3, TextEqual
  <2>5. QED
    BY <2>4 DEF w, x
<1>7. HashAt(a, z, size[k + 1]) = hash
  BY <1>6, Zenon DEF HashAt
<1>8. hash = v[k + 1]
  BY <1>2
<1> HIDE DEF hash
<1>9. IsText(s) /\ Len(s) = y /\ \A o \in 1 .. y : s[o] = a[o]
  <2>1. y \in 0 .. Len(a)
    BY <1>1, <1>3, <1>4
  <2>2. QED
    BY <1>4, <2>1, TextHead
<1> HIDE DEF s
<1>10. IsText(hash) /\ Len(hash) = size[k + 1] /\ \A j \in 1 .. size[k + 1] : hash[j] = v[k + 1][j]
  BY <1>2, <1>8
<1>11. /\ IsText(c) /\ Len(c) = y + size[k + 1] /\ \A o \in 1 .. y : c[o] = s[o]
       /\ \A j \in 1 .. size[k + 1] : c[y + j] = hash[j]
  <2>1. /\ IsText(c) /\ Len(c) = Len(s) + Len(hash) /\ \A o \in 1 .. Len(s) : c[o] = s[o]
        /\ \A j \in 1 .. Len(hash) : c[Len(s) + j] = hash[j]
    <3>1. IsText(s) /\ IsText(hash)
      BY <1>9, <1>10
    <3>2. QED
      BY <3>1, TextConcat
  <2> HIDE DEF c
  <2>2. QED
    BY <1>9, <1>10, <2>1, Zenon
<1> HIDE DEF c
<1>12. ASSUME NEW o \in 1 .. y
       PROVE  a[o] = b[o]
  <2>1. CASE o <= z
    <3>1. o \in 1 .. z
      BY <1>3, <2>1
    <3>2. QED
      BY <1>4, <1>5, <3>1
  <2>2. CASE ~(o <= z)
    <3> DEFINE j == o - z
    <3>1. j \in 1 .. H /\ o = z + j /\ j \in 1 .. MaxHash
      BY <1>1, <1>3, <2>2
    <3>2. a[o] = v[k][j]
      <4> HIDE DEF j
      <4>1. QED
        BY <1>4, <3>1
    <3>3. (o - 1) \div H = m
      <4>1. o - 1 = H * m + (j - 1) /\ j - 1 \in 0 .. (H - 1) /\ m \in Int
        BY <1>1, <3>1 DEF z
      <4> HIDE DEF m, j
      <4>2. (H * m + (j - 1)) \div H = m
        BY <1>1, <4>1, Division
      <4>3. QED
        BY <4>1, <4>2
    <3>4. b[o] = v[m + 1][o - H * m]
      <4> HIDE DEF m
      <4>1. b[o] = v[(o - 1) \div H + 1][o - H * ((o - 1) \div H)]
        BY <1>5
      <4>2. QED
        BY <3>3, <4>1
    <3>5. o - H * m = j
      BY DEF z
    <3> HIDE DEF m, j
    <3>6. QED
      BY <1>1, <3>2, <3>4, <3>5
  <2>3. QED
    BY <2>1, <2>2
<1>13. \A o \in 1 .. Len(c) : c[o] = b[o]
  <2> SUFFICES ASSUME NEW o \in 1 .. Len(c) PROVE c[o] = b[o]
    OBVIOUS
  <2>1. CASE o <= y
    <3>1. o \in 1 .. y
      BY <1>3, <2>1
    <3>2. QED
      BY <1>9, <1>11, <1>12, <3>1
  <2>2. CASE ~(o <= y)
    <3> DEFINE j == o - y
    <3>1. j \in 1 .. size[k + 1] /\ o = y + j
      BY <1>2, <1>3, <1>11, <2>2
    <3> HIDE DEF j
    <3>2. c[o] = hash[j] /\ hash[j] = v[k + 1][j] /\ b[o] = v[k + 1][j]
      BY <1>5, <1>10, <1>11, <3>1
    <3>3. QED
      BY <3>2
  <2>3. QED
    BY <2>1, <2>2
<1>14. c = b
  BY <1>5, <1>11, <1>13, TextEqual
<1>15. QED
  BY <1>7, <1>14, Zenon DEF Extends, c, s, a, b, y, z, m, H

\* The lengths of the hashes, and the digest after each of them.
Lengths(size, r) == [i \in 1 .. r + 1 |-> IF i <= r THEN MaxHash ELSE size - HalfHash * r]

Digests(g, first, size, r) ==
  g = [i \in 0 .. r |->
         IF i = 0 THEN first
         ELSE SubSeq(g[i - 1], 1, HalfHash * i) \o
                HashAt(g[i - 1], HalfHash * (i - 1), IF i < r THEN MaxHash ELSE size - HalfHash * r)]

First(size, input) ==
  HashBytes(crypto_blake2b_final(crypto_blake2b_update(
    blake_update_32(crypto_blake2b_keyed_init(Smaller(size, MaxHash), <<>>), size), input)),
    Smaller(size, MaxHash))

LEMMA ExtendedUnfold ==
  ASSUME NEW size, NEW input
  PROVE  extended_hash(size, input) =
           IF size > MaxHash
           THEN (CHOOSE g : Digests(g, First(size, input), size, rounds(size)))[rounds(size)]
           ELSE First(size, input)
BY Zenon DEF extended_hash, Digests, First

\* The digest is that of the halves.
LEMMA DigestsAre ==
  ASSUME NEW v, NEW size, NEW r, NEW n, n = r + 1, r \in Nat,
         Hashed64(v, Lengths(size, r), n), HalfHash \in Nat \ {0}, MaxHash = HalfHash + HalfHash,
         NEW g, g = CHOOSE f : Digests(f, v[1], size, r)
  PROVE  g[r] = HashHalves(v, Lengths(size, r), r)
<1> DEFINE len == Lengths(size, r)
           R(i) == HashHalves(v, len, i)
           e(i) == IF i < r THEN MaxHash ELSE size - HalfHash * r
           F(f, i) == SubSeq(f[i - 1], 1, HalfHash * i) \o HashAt(f[i - 1], HalfHash * (i - 1), e(i))
           h == [i \in 0 .. r |-> R(i)]
           T == {i \in 0 .. r : g[i] = h[i]}
<1>1. \A f : Digests(f, v[1], size, r) <=> f = [i \in 0 .. r |-> IF i = 0 THEN v[1] ELSE F(f, i)]
  BY Zenon DEF Digests
<1>2. \A i \in 1 .. r : len[i + 1] = e(i)
  BY DEF Lengths
<1> HIDE DEF len, e
<1>3. \A i \in 1 .. r : F(h, i) = R(i)
  <2> SUFFICES ASSUME NEW i \in 1 .. r PROVE F(h, i) = R(i)
    OBVIOUS
  <2>1. Extends(v, len, i)
    <3>1. i \in 1 .. (n - 1) /\ Hashed64(v, len, n)
      BY DEF len
    <3>2. QED
      BY <3>1, ExtendsIs
  <2>2. i - 1 \in 0 .. r
    OBVIOUS
  <2> HIDE DEF R
  <2>3. h[i - 1] = R(i - 1)
    BY <2>2
  <2> HIDE DEF h
  <2>4. len[i + 1] = e(i)
    BY <1>2
  <2>5. QED
    BY <2>1, <2>3, <2>4, Zenon DEF R, Extends
<1>4. R(0) = v[1]
  <2> DEFINE t == R(0)
             w == v[1]
  <2>1. 1 \in 1 .. n /\ 0 \in 0 .. (n - 1) /\ 0 + 1 = 1 /\ Hashed64(v, len, n)
    BY DEF len
  <2>2. IsText(w) /\ Len(w) = len[1] /\ len[1] \in Nat
    <3>1. \A i \in 1 .. n : len[i] \in Nat /\ IsText(v[i]) /\ Len(v[i]) = len[i]
      BY <2>1, Zenon DEF Hashed64
    <3>2. QED
      BY <2>1, <3>1
  <2>3. /\ IsText(t) /\ Len(t) = HalfHash * 0 + len[0 + 1]
        /\ \A j \in 1 .. len[0 + 1] : t[HalfHash * 0 + j] = v[0 + 1][j]
    BY <2>1, HalvesAre
  <2> HIDE DEF t, w
  <2>4. Len(t) = len[1]
    <3>1. HalfHash * 0 = 0 /\ len[0 + 1] = len[1]
      BY <2>1
    <3>2. QED
      BY <2>2, <2>3, <3>1
  <2>5. \A j \in 1 .. Len(t) : t[j] = w[j]
    <3> SUFFICES ASSUME NEW j \in 1 .. Len(t) PROVE t[j] = w[j]
      OBVIOUS
    <3>1. j \in 1 .. len[0 + 1] /\ HalfHash * 0 + j = j
      BY <2>1, <2>4
    <3>2. t[HalfHash * 0 + j] = v[0 + 1][j]
      BY <2>3, <3>1
    <3>3. QED
      BY <2>1, <3>1, <3>2 DEF w
  <2>6. t = w
    BY <2>2, <2>3, <2>4, <2>5, TextEqual
  <2>7. QED
    BY <2>6 DEF t, w
<1>5. h[0] = v[1] /\ h = [i \in 0 .. r |-> h[i]] /\ \A i \in 1 .. r : h[i] = R(i)
  <2> HIDE DEF R
  <2>1. QED
    BY <1>4
<1> HIDE DEF R, F, h
<1>6. h = [i \in 0 .. r |-> IF i = 0 THEN v[1] ELSE F(h, i)]
  <2>1. \A i \in 0 .. r : h[i] = IF i = 0 THEN v[1] ELSE F(h, i)
    <3>1. \A i \in 0 .. r : i = 0 \/ i \in 1 .. r
      OBVIOUS
    <3>2. QED
      BY <1>3, <1>5, <3>1
  <2>2. QED
    BY <1>5, <2>1
<1>7. g = [i \in 0 .. r |-> IF i = 0 THEN v[1] ELSE F(g, i)]
  <2>1. Digests(h, v[1], size, r)
    BY <1>1, <1>6, Zenon
  <2>2. Digests(g, v[1], size, r)
    BY <2>1, Zenon
  <2>3. QED
    BY <1>1, <2>2, Zenon
<1>8. g[0] = v[1] /\ \A i \in 1 .. r : g[i] = F(g, i)
  <2> DEFINE G(i) == F(g, i)
  <2>1. g = [i \in 0 .. r |-> IF i = 0 THEN v[1] ELSE G(i)]
    BY <1>7
  <2> HIDE DEF G
  <2>2. g[0] = v[1] /\ \A i \in 1 .. r : g[i] = G(i)
    <3>1. 0 \in 0 .. r /\ \A i \in 1 .. r : i \in 0 .. r /\ i # 0
      OBVIOUS
    <3>2. \A i \in 0 .. r : g[i] = IF i = 0 THEN v[1] ELSE G(i)
      BY <2>1, Zenon
    <3>3. QED
      BY <3>1, <3>2
  <2>3. QED
    BY <2>2 DEF G
<1>9. 0 \in T
  BY <1>5, <1>8
<1>10. ASSUME NEW i \in 0 .. (r - 1), i \in T
       PROVE  i + 1 \in T
  <2> DEFINE k == i + 1
  <2>1. k \in 1 .. r /\ k \in 0 .. r /\ k - 1 = i
    OBVIOUS
  <2>2. g[k - 1] = h[k - 1]
    BY <1>10, <2>1
  <2> HIDE DEF k
  <2>3. F(g, k) = F(h, k)
    BY <2>2, Zenon DEF F
  <2>4. g[k] = h[k]
    BY <1>3, <1>5, <1>8, <2>1, <2>3
  <2>5. k \in T
    BY <2>1, <2>4
  <2>6. QED
    BY <2>5 DEF k
<1>11. g[r] = h[r]
  <2>1. r \in T
    <3> HIDE DEF T
    <3>1. \A i \in 0 .. r : i \in T
      BY <1>9, <1>10, InductionTo
    <3>2. QED
      BY <3>1
  <2>2. QED
    BY <2>1
<1>12. h[r] = R(r)
  BY DEF h
<1>13. QED
  BY <1>11, <1>12, Zenon DEF R, len

LEMMA HashesAre ==
  ASSUME NEW size \in Nat, size > MaxHash, NEW r, r = rounds(size), NEW start, IsText(start),
         Len(start) = MaxHash, NEW v, v = CHOOSE g : Hashes(g, Lengths(size, r), start, r + 1)
  PROVE  v[1] = start /\ Hashed64(v, Lengths(size, r), r + 1)
<1> DEFINE len == Lengths(size, r)
           n == r + 1
           next(i) == HashBytes(crypto_blake2b(len[i], v[i - 1]), len[i])
<1>1. r \in Nat \ {0} /\ n \in Nat \ {0} /\ size - HalfHash * r \in Nat /\ MaxHash \in Nat /\ n - 1 = r
  BY RoundsAre, SMTT(60)
<1>2. \A i \in 1 .. n : len[i] \in Nat /\ (i <= r => len[i] = MaxHash)
  BY <1>1 DEF Lengths
<1> HIDE DEF len
<1>3. Hashes(v, len, start, n)
  <2>1. \E g : Hashes(g, len, start, n)
    BY <1>1, HashesFunction
  <2>2. v = CHOOSE g : Hashes(g, len, start, n)
    BY Zenon DEF len
  <2>3. QED
    BY <2>1, <2>2, Zenon
<1>4. v = [i \in 1 .. n |-> IF i = 1 THEN start ELSE next(i)]
  BY <1>3, Zenon DEF Hashes
<1>5. v[1] = start /\ \A i \in 2 .. n : v[i] = next(i)
  <2> HIDE DEF next
  <2>1. 1 \in 1 .. n /\ \A i \in 2 .. n : i \in 1 .. n /\ i # 1
    BY <1>1
  <2>2. \A i \in 1 .. n : v[i] = IF i = 1 THEN start ELSE next(i)
    BY <1>4, Zenon
  <2>3. QED
    BY <2>1, <2>2
<1>6. \A i \in 1 .. n : IsText(v[i]) /\ Len(v[i]) = len[i]
  <2> SUFFICES ASSUME NEW i \in 1 .. n PROVE IsText(v[i]) /\ Len(v[i]) = len[i]
    OBVIOUS
  <2>1. CASE i = 1
    BY <1>1, <1>2, <1>5, <2>1
  <2>2. CASE i # 1
    <3>1. i \in 2 .. n
      BY <1>1, <2>2
    <3>2. v[i] = next(i)
      BY <1>5, <3>1
    <3>3. len[i] \in Nat
      BY <1>2
    <3>4. QED
      BY <3>2, <3>3, HashBytesIs
  <2>3. QED
    BY <2>1, <2>2
<1>7. \A i \in 1 .. n - 1 : len[i] = MaxHash
  BY <1>1, <1>2
<1> HIDE DEF n
<1>8. Hashed64(v, len, n)
  BY <1>1, <1>2, <1>5, <1>6, <1>7, Zenon DEF Hashed64, next
<1>9. QED
  BY <1>5, <1>8 DEF len, n

\* The two ways to round up.
Ceiling(size) == -((-size) \div HalfHash) - 2

Short(size, message) ==
  HashBytes(crypto_blake2b(Smaller(size, MaxHash), Word32(size) \o message), Smaller(size, MaxHash))

LEMMA HPrimeUnfold ==
  ASSUME NEW size, NEW message
  PROVE  HPrime(size, message) =
           IF size <= MaxHash THEN Short(size, message)
           ELSE [o \in 1 .. size |->
                   LET i == Smaller((o - 1) \div HalfHash + 1, Ceiling(size) + 1)
                   IN (CHOOSE g : Hashes(g, Lengths(size, Ceiling(size)), Short(size, message), Ceiling(size) + 1))
                        [i][o - HalfHash * (i - 1)]]
<1> DEFINE r == Ceiling(size)
           short == Short(size, message)
           len == Lengths(size, r)
           length(i) == IF i <= r THEN MaxHash ELSE size - HalfHash * r
           G(g, i) == IF i = 1 THEN short ELSE HashBytes(crypto_blake2b(length(i), g[i - 1]), length(i))
           H(g, i) == IF i = 1 THEN short ELSE HashBytes(crypto_blake2b(len[i], g[i - 1]), len[i])
           V == CHOOSE g : g = [i \in 1 .. r + 1 |-> G(g, i)]
           W == CHOOSE g : Hashes(g, len, short, r + 1)
<1>1. HPrime(size, message) =
        IF size <= MaxHash THEN short
        ELSE [o \in 1 .. size |->
                LET i == Smaller((o - 1) \div HalfHash + 1, r + 1) IN V[i][o - HalfHash * (i - 1)]]
  BY Zenon DEF HPrime, Short, Ceiling
<1>2. \A i \in 1 .. r + 1 : length(i) = len[i]
  BY Zenon DEF Lengths
<1> HIDE DEF length, len
<1>3. \A g : \A i \in 1 .. r + 1 : G(g, i) = H(g, i)
  BY <1>2, Zenon
<1> HIDE DEF G, H
<1>4. \A g : [i \in 1 .. r + 1 |-> G(g, i)] = [i \in 1 .. r + 1 |-> H(g, i)]
  BY <1>3, Zenon
<1>5. \A g : (g = [i \in 1 .. r + 1 |-> G(g, i)]) <=> Hashes(g, len, short, r + 1)
  BY <1>4, Zenon DEF Hashes, H
<1>6. V = W
  BY <1>5, Zenon
<1> HIDE DEF V, W
<1>7. QED
  BY <1>1, <1>6, Zenon DEF W, len

LEMMA ExtendedIs ==
  ASSUME NEW size \in Nat, NEW message, IsText(message)
  PROVE  extended_hash(size, message) = HPrime(size, message)
<1> DEFINE small == Smaller(size, MaxHash)
           short == Short(size, message)
           r == rounds(size)
           len == Lengths(size, r)
<1>0. MaxHash \in Nat
  BY Blake2bAssumption
<1>1. First(size, message) = short
  BY FirstIs, Zenon DEF First, Short
<1>2. extended_hash(size, message) = IF size > MaxHash THEN (CHOOSE g : Digests(g, short, size, r))[r] ELSE short
  <2> HIDE DEF short, r
  <2>1. extended_hash(size, message) =
           IF size > MaxHash
           THEN (CHOOSE g : Digests(g, First(size, message), size, rounds(size)))[rounds(size)]
           ELSE First(size, message)
    BY ExtendedUnfold
  <2>2. QED
    BY <1>1, <2>1 DEF r
<1>3. CASE size <= MaxHash
  <2>1. ~(size > MaxHash)
    BY <1>0, <1>3
  <2>2. extended_hash(size, message) = short
    BY <1>2, <2>1, Zenon
  <2>3. HPrime(size, message) = short
    BY <1>3, HPrimeUnfold, Zenon
  <2>4. QED
    BY <2>2, <2>3, Zenon
<1>4. CASE size > MaxHash
  <2>1. /\ r = Ceiling(size) /\ r \in Nat \ {0} /\ HalfHash \in Nat \ {0}
        /\ MaxHash = HalfHash + HalfHash /\ size - HalfHash * r \in Nat
    <3>1. /\ r = Ceiling(size) /\ r \in Nat \ {0} /\ HalfHash \in Nat \ {0} /\ MaxHash = HalfHash + HalfHash
      BY <1>4, RoundsAre DEF Ceiling
    <3>2. size - HalfHash * r \in (HalfHash + 1) .. MaxHash
      BY <1>4, RoundsAre
    <3> HIDE DEF r
    <3>3. QED
      BY <3>1, <3>2
  <2> DEFINE V(k) == CHOOSE g : Hashes(g, Lengths(size, k), short, k + 1)
             Full(k) == [o \in 1 .. size |->
                        LET i == Smaller((o - 1) \div HalfHash + 1, k + 1)
                        IN V(k)[i][o - HalfHash * (i - 1)]]
             v == V(r)
             full == Full(r)
  <2>2. HPrime(size, message) = full
    <3>1. HPrime(size, message) = IF size <= MaxHash THEN short ELSE Full(Ceiling(size))
      BY HPrimeUnfold, Zenon
    <3>2. ~(size <= MaxHash)
      BY <1>0, <1>4
    <3> HIDE DEF Full, r
    <3>3. QED
      BY <2>1, <3>1, <3>2, Zenon
  <2>3. small = MaxHash /\ IsText(short) /\ Len(short) = MaxHash
    <3>1. small = MaxHash
      BY <1>0, <1>4 DEF Smaller
    <3>2. QED
      BY <1>0, <3>1, HashBytesIs DEF Short
  <2> HIDE DEF short, r
  <2>4. v[1] = short /\ Hashed64(v, len, r + 1)
    BY <1>4, <2>3, HashesAre, Zenon DEF r
  <2>5. extended_hash(size, message) = (CHOOSE g : Digests(g, short, size, r))[r]
    BY <1>2, <1>4, Zenon
  <2> HIDE DEF V
  <2>6. (CHOOSE g : Digests(g, v[1], size, r))[r] = HashHalves(v, len, r)
    <3> DEFINE g == CHOOSE f : Digests(f, v[1], size, r)
               n == r + 1
    <3>1. n = r + 1 /\ r \in Nat /\ Hashed64(v, Lengths(size, r), n)
      BY <2>1, <2>4
    <3>2. g = CHOOSE f : Digests(f, v[1], size, r)
      OBVIOUS
    <3> HIDE DEF g, n, v
    <3>3. g[r] = HashHalves(v, Lengths(size, r), r)
      BY <2>1, <3>1, <3>2, DigestsAre
    <3>4. QED
      BY <3>3 DEF g
  <2>7. HashHalves(v, len, r) = full
    <3>1. len[r + 1] = size - HalfHash * r
      BY <2>1 DEF Lengths
    <3>2. HalfHash * r + len[r + 1] = size
      <4> DEFINE x == HalfHash * r
      <4>1. x \in Int /\ len[r + 1] = size - x
        BY <2>1, <3>1
      <4> HIDE DEF x, len
      <4>2. x + len[r + 1] = size
        BY <4>1
      <4>3. QED
        BY <4>2 DEF x
    <3> HIDE DEF len
    <3>3. QED
      BY <3>2, Zenon DEF HashHalves
  <2>8. QED
    BY <2>2, <2>4, <2>5, <2>6, <2>7, Zenon
<1>5. QED
  BY <1>0, <1>3, <1>4

(* -------- what begins Argon2 -------- *)

\* Texts with the same blocks are the same.
LEMMA DigestsDiffer ==
  ASSUME NEW p, NEW s, NEW c, Current(s, Len(s), c), NEW t, NEW e, Current(t, Len(t), e),
         Digest(p, s) = Digest(p, t)
  PROVE  s = t
<1> DEFINE m == Len(s)
           n == Len(t)
           x(l) == Smaller(HashBlock * (c + 1), l)
<1>1. HashBlock \in Nat \ {0} /\ OffsetWord \in Nat \ {0} /\ HashBlock < OffsetWord
  BY HashSizes
<1>2. ASSUME NEW w, NEW count, Current(w, Len(w), count)
      PROVE  /\ IsText(w) /\ count \in Nat /\ Len(w) \in Nat /\ Len(w) <= HashBlock * (count + 1)
             /\ (Len(w) > HashBlock * count \/ (Len(w) = 0 /\ count = 0)) /\ HashBlock * count \in Nat
             /\ HashBlock * (count + 1) = HashBlock * count + HashBlock
  <2>1. Buffered(w, Len(w), count) /\ (Len(w) = 0 => count = 0) /\ (Len(w) > 0 => Len(w) > HashBlock * count)
    BY <1>2 DEF Current
  <2>2. IsText(w) /\ count \in Nat /\ Len(w) <= HashBlock * count + HashBlock
    BY <2>1 DEF Buffered
  <2>3. Len(w) \in Nat
    BY <2>2, TextIs
  <2>4. HashBlock * count \in Nat /\ HashBlock * (count + 1) = HashBlock * count + HashBlock
    BY <1>1, <2>2
  <2>5. QED
    BY <2>1, <2>2, <2>3, <2>4
<1>3. Blocks(s) = Blocks(t)
  BY DEF Digest
<1>4. /\ Len(Blocks(s)) = c + 1 /\ \A b \in 1 .. c + 1 : Blocks(s)[b] = NthBlock(s, c + 1, b)
  BY BlocksAre
<1>5. /\ Len(Blocks(t)) = e + 1 /\ \A b \in 1 .. e + 1 : Blocks(t)[b] = NthBlock(t, e + 1, b)
  BY BlocksAre
<1>6. c = e
  <2>1. c \in Nat /\ e \in Nat /\ c + 1 = e + 1
    <3>1. c \in Nat /\ e \in Nat
      BY <1>2
    <3>2. QED
      BY <1>3, <1>4, <1>5, <3>1
  <2>2. QED
    BY <2>1
<1>7. ASSUME NEW b \in 1 .. c + 1
      PROVE  NthBlock(s, c + 1, b) = NthBlock(t, c + 1, b)
  BY <1>3, <1>4, <1>5, <1>6
<1>8. ASSUME NEW b \in 1 .. c + 1
      PROVE  /\ BlockAt(s, m, b) = BlockAt(t, n, b)
             /\ Smaller(HashBlock * b, m) % OffsetWord = Smaller(HashBlock * b, n) % OffsetWord
  <2>1. NthBlock(s, c + 1, b) = NthBlock(t, c + 1, b)
    BY <1>7
  <2>2. \A w : NthBlock(w, c + 1, b).block = BlockAt(w, Len(w), b)
               /\ NthBlock(w, c + 1, b).x0 = Smaller(HashBlock * b, Len(w)) % OffsetWord
    BY DEF NthBlock, Entry
  <2>3. QED
    BY <2>1, <2>2
<1>9. m = n
  <2> DEFINE y == HashBlock * c
             z == HashBlock * (c + 1)
  <2>1. /\ IsText(s) /\ m \in Nat /\ m <= z /\ (m > y \/ (m = 0 /\ c = 0)) /\ y \in Nat /\ z = y + HashBlock
        /\ c \in Nat
    BY <1>2
  <2>2. n \in Nat /\ n <= z /\ (n > y \/ (n = 0 /\ c = 0))
    BY <1>2, <1>6
  <2>3. c + 1 \in 1 .. c + 1 /\ (c = 0 => y = 0)
    BY <1>1, <2>1
  <2> HIDE DEF m, n
  <2>4. Smaller(z, m) % OffsetWord = Smaller(z, n) % OffsetWord
    BY <1>8, <2>3 DEF m, n
  <2> HIDE DEF y, z
  <2>5. Smaller(z, m) = m /\ Smaller(z, n) = n
    BY <1>1, <2>1, <2>2 DEF Smaller
  <2>6. m % OffsetWord = n % OffsetWord
    BY <2>4, <2>5
  <2>7. m <= n => n - m < OffsetWord
    BY <1>1, <2>1, <2>2, <2>3
  <2>8. n <= m => m - n < OffsetWord
    BY <1>1, <2>1, <2>2, <2>3
  <2>9. CASE m <= n
    BY <1>1, <2>1, <2>2, <2>6, <2>7, <2>9, Apart
  <2>10. CASE n <= m
    <3>1. n = m
      BY <1>1, <2>1, <2>2, <2>6, <2>8, <2>10, Apart
    <3>2. QED
      BY <3>1
  <2>11. QED
    BY <2>1, <2>2, <2>9, <2>10
<1>10. \A i \in 1 .. m : s[i] = t[i]
  <2> SUFFICES ASSUME NEW i \in 1 .. m PROVE s[i] = t[i]
    OBVIOUS
  <2> DEFINE count == (i - 1) \div HashBlock
             o == ((i - 1) % HashBlock) + 1
             y == HashBlock * count
  <2>0. m \in Nat /\ c \in Nat /\ m <= HashBlock * (c + 1)
    BY <1>2
  <2>1. i - 1 \in Nat /\ i - 1 < HashBlock * (c + 1) /\ c + 1 \in Nat
    <3> DEFINE z == HashBlock * (c + 1)
    <3>1. z \in Nat /\ m <= z
      BY <1>1, <2>0
    <3> HIDE DEF z, m
    <3>2. i - 1 \in Nat /\ i - 1 < z /\ c + 1 \in Nat
      BY <2>0, <3>1
    <3>3. QED
      BY <3>2 DEF z
  <2>2. i - 1 = y + ((i - 1) % HashBlock) /\ count \in Nat /\ (i - 1) % HashBlock \in 0 .. (HashBlock - 1)
        /\ count < c + 1
    BY <1>1, <2>1, LowAndHigh
  <2>3. o \in 1 .. HashBlock /\ i = y + o /\ count + 1 \in 1 .. c + 1
    <3> DEFINE r == (i - 1) % HashBlock
    <3>1. r \in 0 .. (HashBlock - 1) /\ i - 1 = y + r /\ y \in Nat
      BY <1>1, <2>2
    <3> HIDE DEF r, y, count
    <3>2. r + 1 \in 1 .. HashBlock /\ i = y + (r + 1) /\ count + 1 \in 1 .. c + 1
      BY <1>1, <2>0, <2>2, <3>1
    <3>3. QED
      BY <3>2 DEF r
  <2>4. BlockAt(s, m, count + 1) = BlockAt(t, m, count + 1)
    <3> HIDE DEF count
    <3>1. BlockAt(s, m, count + 1) = BlockAt(t, n, count + 1)
      BY <1>8, <2>3
    <3>2. QED
      BY <1>9, <3>1
  <2>5. HashBlock * ((count + 1) - 1) = y
    <3>1. (count + 1) - 1 = count
      BY <2>2
    <3>2. QED
      BY <3>1
  <2> HIDE DEF o, y, count
  <2>6. \A w : BlockAt(w, m, count + 1)[o] = w[i]
    <3> SUFFICES ASSUME NEW w PROVE BlockAt(w, m, count + 1)[o] = w[i]
      OBVIOUS
    <3>1. BlockAt(w, m, count + 1) = [j \in 1 .. HashBlock |-> IF y + j <= m THEN w[y + j] ELSE {}]
      BY <2>5, Zenon DEF BlockAt
    <3>2. y + o <= m /\ w[y + o] = w[i]
      BY <2>3
    <3>3. QED
      BY <2>3, <3>1, <3>2
  <2>7. QED
    BY <2>4, <2>6
<1>11. IsText(s) /\ IsText(t)
  BY <1>2
<1>12. QED
  BY <1>9, <1>10, <1>11, TextEqual

\* The parameters are hashed first.
Begun(config, hash_size) ==
  LET words == <<config.nb_lanes, hash_size, config.nb_blocks, config.nb_passes, 19,
                 config.algorithm>>
      begun[k \in 0 .. Len(words)] ==
        IF k = 0 THEN crypto_blake2b_keyed_init(MaxHash, <<>>)
        ELSE blake_update_32(begun[k - 1], words[k])
  IN begun[Len(words)]

\* The inputs as they are hashed, each behind its length.
Serial(inputs) == [k \in 1 .. Len(inputs) |-> Word32(Len(inputs[k])) \o inputs[k]]

LEMMA BegunIs ==
  ASSUME NEW config, NEW hash_size
  PROVE  \E base : Stored(Params(MaxHash, <<>>), base, Begun(config, hash_size))
<1> DEFINE p == Params(MaxHash, <<>>)
           base == PaddedBlock(<<>>)
           ctx == crypto_blake2b_keyed_init(MaxHash, <<>>)
           words == <<config.nb_lanes, hash_size, config.nb_blocks, config.nb_passes, 19, config.algorithm>>
           n == Len(words)
           a == [k \in 1 .. n |-> <<>>]
           q == [k \in 1 .. n |-> Word32(words[k])]
           G(g, k) == blake_update_32(g[k - 1], words[k])
           H(g, k) == crypto_blake2b_update(crypto_blake2b_update(g[k - 1], a[k]), q[k])
           one == CHOOSE g : g = [k \in 0 .. n |-> IF k = 0 THEN ctx ELSE G(g, k)]
           fed == CHOOSE g : Feeds(g, ctx, a, q, n)
           msg == CHOOSE g : Joining(g, q, n)
<1>1. Begun(config, hash_size) = one[n]
  BY Zenon DEF Begun
<1>2. n = 6 /\ n \in Nat
  OBVIOUS
<1>3. \A x : crypto_blake2b_update(x, <<>>) = x
  BY Zenon DEF crypto_blake2b_update
<1> HIDE DEF words, n
<1>4. \A k \in 1 .. n : q[k] = Word32(words[k]) /\ a[k] = <<>>
  OBVIOUS
<1>5. IsTexts(q) /\ Len(q) = n /\ Pairs(q, a, q)
  <2>1. q = [k \in 1 .. n |-> q[k]]
    OBVIOUS
  <2> HIDE DEF q, a
  <2>2. IsText(q) /\ Len(q) = n
    BY <1>2, <2>1, TextFrom
  <2>3. \A k \in 1 .. n : IsText(q[k]) /\ IsText(a[k]) /\ q[k] = a[k] \o q[k]
    <3> SUFFICES ASSUME NEW k \in 1 .. n PROVE IsText(q[k]) /\ IsText(a[k]) /\ q[k] = a[k] \o q[k]
      OBVIOUS
    <3>1. \A x : IsText(Word32(x))
      BY WordIs
    <3>2. IsText(q[k]) /\ a[k] = <<>>
      BY <1>4, <3>1
    <3>3. QED
      BY <3>2, EmptyText
  <2>4. QED
    BY <2>2, <2>3 DEF IsTexts, Pairs
<1>6. one = fed
  <2>1. \A g : \A k \in 1 .. n : G(g, k) = H(g, k)
    <3> HIDE DEF q, a
    <3>1. QED
      BY <1>3, <1>4, Zenon DEF blake_update_32
  <2> HIDE DEF G, H, ctx, q, a
  <2>2. \A k \in 0 .. n : k # 0 => k \in 1 .. n
    BY <1>2
  <2>3. \A g : [k \in 0 .. n |-> IF k = 0 THEN ctx ELSE G(g, k)] = [k \in 0 .. n |-> IF k = 0 THEN ctx ELSE H(g, k)]
    BY <2>1, <2>2
  <2>4. \A g : (g = [k \in 0 .. n |-> IF k = 0 THEN ctx ELSE G(g, k)]) <=> Feeds(g, ctx, a, q, n)
    BY <2>3, Zenon DEF Feeds, H
  <2>5. QED
    BY <2>4, Zenon
<1>7. Stored(p, base, ctx)
  BY NoKey
<1> HIDE DEF ctx, a, q, p, base, one
<1>8. Joins(msg, q)
  <2>1. msg = CHOOSE g : Joining(g, q, Len(q))
    BY <1>5
  <2> HIDE DEF msg
  <2>2. QED
    BY <1>5, <2>1, JoiningIs
<1>9. Stored(p, base \o msg[n], fed[n])
  <2>1. fed = CHOOSE g : Feeds(g, ctx, a, q, Len(q))
    BY <1>5
  <2> HIDE DEF fed, msg
  <2>2. Stored(p, base \o msg[Len(q)], fed[Len(q)])
    BY <1>5, <1>7, <1>8, <2>1, FedIs, Zenon
  <2>3. QED
    BY <1>5, <2>2
<1> HIDE DEF fed, msg
<1>10. QED
  BY <1>1, <1>6, <1>9, Zenon DEF p

LEMMA SerialIs ==
  ASSUME NEW inputs, IsTexts(inputs)
  PROVE  /\ IsTexts(Serial(inputs)) /\ Len(Serial(inputs)) = Len(inputs)
         /\ \A k \in 1 .. Len(inputs) : Serial(inputs)[k] = Word32(Len(inputs[k])) \o inputs[k]
<1> DEFINE n == Len(inputs)
           q == Serial(inputs)
<1>1. n \in Nat /\ \A k \in 1 .. n : IsText(inputs[k])
  BY TextIs DEF IsTexts
<1> HIDE DEF n
<1>2. q = [k \in 1 .. n |-> q[k]] /\ \A k \in 1 .. n : q[k] = Word32(Len(inputs[k])) \o inputs[k]
  BY DEF Serial, n
<1> HIDE DEF q
<1>3. IsText(q) /\ Len(q) = n
  BY <1>1, <1>2, TextFrom
<1>4. \A k \in 1 .. n : IsText(q[k])
  <2> SUFFICES ASSUME NEW k \in 1 .. n PROVE IsText(q[k])
    OBVIOUS
  <2> DEFINE x == Word32(Len(inputs[k]))
             y == inputs[k]
  <2>1. IsText(x) /\ IsText(y)
    BY <1>1, WordIs
  <2> HIDE DEF x, y
  <2>2. IsText(x \o y)
    BY <2>1, TextConcat
  <2>3. QED
    BY <1>2, <2>2 DEF x, y
<1>5. QED
  BY <1>2, <1>3, <1>4 DEF IsTexts, q, n

LEMMA InitialIs ==
  ASSUME NEW config, NEW hash_size, NEW p, NEW base, Stored(p, base, Begun(config, hash_size)),
         NEW inputs, IsTexts(inputs), NEW msg, Joins(msg, Serial(inputs))
  PROVE  \E ctx : /\ Stored(p, base \o msg[Len(inputs)], ctx)
                  /\ initial_hash(config, hash_size, inputs) = Digest(p, base \o msg[Len(inputs)])
<1> DEFINE begun == Begun(config, hash_size)
           n == Len(inputs)
           q == Serial(inputs)
           a == [k \in 1 .. n |-> Word32(Len(inputs[k]))]
           G(g, k) == blake_update_32_buf(g[k - 1], inputs[k])
           H(g, k) == crypto_blake2b_update(crypto_blake2b_update(g[k - 1], a[k]), inputs[k])
           one == CHOOSE g : g = [k \in 0 .. n |-> IF k = 0 THEN begun ELSE G(g, k)]
           fed == CHOOSE g : Feeds(g, begun, a, inputs, n)
<1>1. initial_hash(config, hash_size, inputs) = crypto_blake2b_final(one[n])
  BY Zenon DEF initial_hash, Begun
<1>2. n \in Nat /\ \A k \in 1 .. n : IsText(inputs[k]) /\ a[k] = Word32(Len(inputs[k]))
  BY TextIs DEF IsTexts
<1>3. IsTexts(q) /\ Len(q) = n /\ \A k \in 1 .. n : q[k] = Word32(Len(inputs[k])) \o inputs[k]
  BY SerialIs
<1> HIDE DEF begun, n, a, q
<1>4. Pairs(q, a, inputs)
  <2>1. \A k \in 1 .. n : IsText(a[k]) /\ IsText(inputs[k]) /\ q[k] = a[k] \o inputs[k]
    BY <1>2, <1>3, WordIs
  <2>2. QED
    BY <1>3, <2>1 DEF Pairs
<1>5. one = fed
  <2>1. \A g : \A k \in 1 .. n : G(g, k) = H(g, k)
    BY <1>2, Zenon DEF blake_update_32, blake_update_32_buf
  <2> HIDE DEF G, H
  <2>2. \A k \in 0 .. n : k # 0 => k \in 1 .. n
    BY <1>2
  <2>3. \A g : [k \in 0 .. n |-> IF k = 0 THEN begun ELSE G(g, k)] = [k \in 0 .. n |-> IF k = 0 THEN begun ELSE H(g, k)]
    BY <2>1, <2>2
  <2>4. \A g : (g = [k \in 0 .. n |-> IF k = 0 THEN begun ELSE G(g, k)]) <=> Feeds(g, begun, a, inputs, n)
    BY <2>3, Zenon DEF Feeds, H
  <2>5. QED
    BY <2>4, Zenon
<1> HIDE DEF one
<1>6. Stored(p, base \o msg[n], fed[n])
  <2>1. fed = CHOOSE g : Feeds(g, begun, a, inputs, Len(q))
    BY <1>3
  <2>2. Stored(p, base, begun) /\ Joins(msg, q)
    BY DEF begun, q
  <2> HIDE DEF fed
  <2>3. Stored(p, base \o msg[Len(q)], fed[Len(q)])
    BY <1>4, <2>1, <2>2, FedIs, Zenon
  <2>4. QED
    BY <1>3, <2>3
<1> HIDE DEF fed
<1>7. crypto_blake2b_final(fed[n]) = Digest(p, base \o msg[n])
  BY <1>6, FinalIs, Zenon
<1>8. QED
  BY <1>1, <1>5, <1>6, <1>7, Zenon DEF n

\* Behind the same text the rest is the same.
LEMMA CancelFirst ==
  ASSUME NEW s, IsText(s), NEW a, IsText(a), NEW b, IsText(b), s \o a = s \o b
  PROVE  a = b
<1>1. Rest(s \o a, Len(s)) = a /\ Rest(s \o b, Len(s)) = b
  BY RestOfConcat
<1>2. QED
  BY <1>1

\* Where the inputs begin, and that they are as long, can be read from the serial text.
SameUpTo(m, l, a, b, k) ==
  Len(m[k]) = Len(l[k]) /\ \A j \in 1 .. k : a[j] = b[j]

Placed(q, msg, k) == \A j \in 1 .. Len(q[k]) : msg[Len(q)][Len(msg[k - 1]) + j] = q[k][j]

LEMMA JoinsPlaced ==
  ASSUME NEW q, IsTexts(q), NEW msg, Joins(msg, q), NEW k \in 1 .. Len(q)
  PROVE  Placed(q, msg, k)
  BY JoinsPlaces, ZenonT(60) DEF Placed

LEMMA ParsedNext ==
  ASSUME NEW a, IsTexts(a), NEW b, IsTexts(b), Len(a) = Len(b),
         NEW m, Joins(m, Serial(a)), NEW l, Joins(l, Serial(b)), m[Len(a)] = l[Len(b)],
         NEW k \in 1 .. Len(a), Len(m[k - 1]) = Len(l[k - 1])
  PROVE  a[k] = b[k] /\ Len(m[k]) = Len(l[k])
<1> DEFINE n == Len(a)
           q == Serial(a)
           r == Serial(b)
           s == m[n]
           x == a[k]
           y == b[k]
           u == Word32(Len(x))
           v == Word32(Len(y))
           z == Len(m[k - 1])
           w == WordBytes \div 2
<1>1. /\ IsTexts(q) /\ Len(q) = n /\ q[k] = u \o x
      /\ IsTexts(r) /\ Len(r) = n /\ r[k] = v \o y
  BY SerialIs
<1>2. /\ IsText(x) /\ Len(x) \in Nat /\ IsText(y) /\ Len(y) \in Nat /\ n \in Nat /\ k - 1 \in 0 .. n
      /\ k \in 1 .. n
  <2>1. IsText(x) /\ IsText(y)
    BY DEF IsTexts
  <2>2. n \in Nat
    BY TextIs DEF IsTexts
  <2>3. QED
    BY <2>1, <2>2, TextIs
<1>3. /\ IsText(u) /\ Len(u) = w /\ u[1] = {<<"u32", Len(x), 1>>} /\ w \in Nat \ {0}
      /\ IsText(v) /\ Len(v) = w /\ v[1] = {<<"u32", Len(y), 1>>}
  BY WordIs
<1>4. /\ Len(u \o x) = w + Len(x) /\ \A j \in 1 .. Len(u \o x) : s[z + j] = (u \o x)[j]
      /\ Len(m[k]) = z + Len(u \o x)
  <2>1. \A j \in 1 .. Len(q[k]) : m[Len(q)][Len(m[k - 1]) + j] = q[k][j]
    <3>1. k \in 1 .. Len(q) /\ Joins(m, q)
      BY <1>1, <1>2
    <3>2. IsTexts(q)
      BY <1>1
    <3> HIDE DEF q
    <3>3. Placed(q, m, k)
      BY <3>1, <3>2, JoinsPlaced
    <3>4. QED
      BY <3>3, Zenon DEF Placed
  <2>2. Len(m[k]) = Len(m[k - 1]) + Len(q[k])
    <3>1. Longer(m, q, k)
      <4>1. k \in 1 .. Len(q) /\ Joins(m, q)
        BY <1>1, <1>2
      <4> HIDE DEF q
      <4>2. QED
        BY <1>1, <4>1, JoinsLengths
    <3>2. QED
      BY <3>1, Zenon DEF Longer
  <2>3. Len(u \o x) = w + Len(x)
    <3> HIDE DEF u, x, w
    <3>1. Len(u \o x) = Len(u) + Len(x)
      BY <1>2, <1>3, TextConcat
    <3>2. QED
      BY <1>3, <3>1
  <2> HIDE DEF q, u, x, w, z, n
  <2>4. QED
    BY <1>1, <2>1, <2>2, <2>3, Zenon DEF s, z
<1>5. /\ Len(v \o y) = w + Len(y) /\ \A j \in 1 .. Len(v \o y) : s[z + j] = (v \o y)[j]
      /\ Len(l[k]) = z + Len(v \o y)
  <2>0. l[n] = s /\ Len(l[k - 1]) = z
    OBVIOUS
  <2>1. \A j \in 1 .. Len(r[k]) : l[Len(r)][Len(l[k - 1]) + j] = r[k][j]
    <3>1. k \in 1 .. Len(r) /\ Joins(l, r)
      BY <1>1, <1>2
    <3>2. IsTexts(r)
      BY <1>1
    <3> HIDE DEF r
    <3>3. Placed(r, l, k)
      BY <3>1, <3>2, JoinsPlaced
    <3>4. QED
      BY <3>3, Zenon DEF Placed
  <2>2. Len(l[k]) = Len(l[k - 1]) + Len(r[k])
    <3>1. Longer(l, r, k)
      <4>1. k \in 1 .. Len(r) /\ Joins(l, r)
        BY <1>1, <1>2
      <4> HIDE DEF r
      <4>2. QED
        BY <1>1, <4>1, JoinsLengths
    <3>2. QED
      BY <3>1, Zenon DEF Longer
  <2>3. Len(v \o y) = w + Len(y)
    <3> HIDE DEF v, y, w
    <3>1. Len(v \o y) = Len(v) + Len(y)
      BY <1>2, <1>3, TextConcat
    <3>2. QED
      BY <1>3, <3>1
  <2> HIDE DEF r, v, y, w, z, n, s
  <2>4. QED
    BY <1>1, <2>0, <2>1, <2>2, <2>3, Zenon
<1> HIDE DEF q, r, u, v, w, z, x, y, n, s
<1>6. Len(x) = Len(y)
  <2>1. 1 \in 1 .. Len(u \o x) /\ 1 \in 1 .. Len(v \o y) /\ 1 \in 1 .. w
    BY <1>2, <1>3, <1>4, <1>5
  <2>2. (u \o x)[1] = u[1] /\ (v \o y)[1] = v[1]
    <3>1. \A j \in 1 .. w : (u \o x)[j] = u[j]
      <4>1. \A j \in 1 .. Len(u) : (u \o x)[j] = u[j]
        BY <1>2, <1>3, TextConcat
      <4>2. QED
        BY <1>3, <4>1
    <3>2. \A j \in 1 .. w : (v \o y)[j] = v[j]
      <4>1. \A j \in 1 .. Len(v) : (v \o y)[j] = v[j]
        BY <1>2, <1>3, TextConcat
      <4>2. QED
        BY <1>3, <4>1
    <3>3. QED
      BY <2>1, <3>1, <3>2
  <2>3. (u \o x)[1] = (v \o y)[1]
    <3>1. s[z + 1] = (u \o x)[1] /\ s[z + 1] = (v \o y)[1]
      BY <1>4, <1>5, <2>1
    <3>2. QED
      BY <3>1
  <2>4. u[1] = v[1]
    BY <2>2, <2>3
  <2>5. <<"u32", Len(x), 1>> \in v[1]
    <3>1. <<"u32", Len(x), 1>> \in u[1]
      BY <1>3
    <3>2. QED
      BY <2>4, <3>1
  <2>6. <<"u32", Len(x), 1>> = <<"u32", Len(y), 1>>
    BY <1>3, <2>5
  <2>7. QED
    BY <2>6
<1>7. u = v
  BY <1>6 DEF u, v
<1>8. u \o x = v \o y
  <2>1. IsText(u \o x) /\ IsText(v \o y)
    BY <1>2, <1>3, TextConcat
  <2>2. Len(u \o x) = Len(v \o y)
    BY <1>4, <1>5, <1>6
  <2>3. \A j \in 1 .. Len(u \o x) : (u \o x)[j] = (v \o y)[j]
    <3>1. \A j \in 1 .. Len(u \o x) : s[z + j] = (u \o x)[j] /\ s[z + j] = (v \o y)[j]
      BY <1>4, <1>5, <2>2
    <3>2. QED
      BY <3>1
  <2>4. QED
    BY <2>1, <2>2, <2>3, TextEqual
<1>9. x = y
  <2>1. u \o x = u \o y
    BY <1>7, <1>8
  <2>2. QED
    BY <1>2, <1>3, <2>1, CancelFirst
<1>10. Len(m[k]) = Len(l[k])
  BY <1>4, <1>5, <1>8
<1>11. QED
  BY <1>9, <1>10 DEF x, y

LEMMA ParsedIs ==
  ASSUME NEW a, IsTexts(a), NEW b, IsTexts(b), Len(a) = Len(b),
         NEW m, Joins(m, Serial(a)), NEW l, Joins(l, Serial(b)), m[Len(a)] = l[Len(b)]
  PROVE  a = b
<1> DEFINE n == Len(a)
           T == {k \in 0 .. n : SameUpTo(m, l, a, b, k)}
<1>1. n \in Nat /\ IsText(a) /\ IsText(b)
  BY TextIs DEF IsTexts
<1>2. 0 \in T
  <2>1. m[0] = l[0]
    BY DEF Joins
  <2>2. QED
    BY <1>1, <2>1 DEF SameUpTo
<1>3. ASSUME NEW i \in 0 .. (n - 1), i \in T
      PROVE  i + 1 \in T
  <2> DEFINE k == i + 1
  <2>1. k \in 1 .. n /\ k - 1 = i /\ k \in 0 .. n /\ \A j \in 1 .. k : j \in 1 .. i \/ j = k
    BY <1>1
  <2>2. Len(m[i]) = Len(l[i]) /\ \A j \in 1 .. i : a[j] = b[j]
    BY <1>3 DEF SameUpTo
  <2> HIDE DEF k
  <2>3. a[k] = b[k] /\ Len(m[k]) = Len(l[k])
    <3>1. Len(m[k - 1]) = Len(l[k - 1])
      BY <2>1, <2>2
    <3>2. QED
      BY <2>1, <3>1, ParsedNext, SMTT(60)
  <2>4. SameUpTo(m, l, a, b, k)
    BY <2>1, <2>2, <2>3 DEF SameUpTo
  <2>5. QED
    BY <2>1, <2>4 DEF k
<1>4. SameUpTo(m, l, a, b, n)
  <2>1. n \in T
    <3> HIDE DEF T
    <3>1. \A i \in 0 .. n : i \in T
      BY <1>1, <1>2, <1>3, InductionTo
    <3>2. QED
      BY <1>1, <3>1
  <2>2. QED
    BY <2>1
<1>5. QED
  BY <1>1, <1>4, TextEqual DEF SameUpTo

LEMMA SeparatedIs ==
  ASSUME NEW config, NEW hash_size, NEW a, IsTexts(a), NEW b, IsTexts(b), Len(a) = Len(b),
         initial_hash(config, hash_size, a) = initial_hash(config, hash_size, b)
  PROVE  a = b
<1> DEFINE p == Params(MaxHash, <<>>)
           m == CHOOSE g : Joining(g, Serial(a), Len(Serial(a)))
           l == CHOOSE g : Joining(g, Serial(b), Len(Serial(b)))
           n == Len(a)
<1>1. PICK base : Stored(p, base, Begun(config, hash_size))
  BY BegunIs
<1>2. IsText(base)
  BY <1>1 DEF Stored
<1>3. /\ IsTexts(Serial(a)) /\ Len(Serial(a)) = n /\ IsTexts(Serial(b)) /\ Len(Serial(b)) = n /\ n \in Nat
      /\ n = Len(b)
  BY SerialIs, TextIs DEF IsTexts
<1>4. Joins(m, Serial(a)) /\ \A k \in 0 .. Len(Serial(a)) : IsText(m[k])
  BY <1>3, JoiningIs
<1>5. Joins(l, Serial(b)) /\ \A k \in 0 .. Len(Serial(b)) : IsText(l[k])
  BY <1>3, JoiningIs
<1> HIDE DEF p, m, l
<1>6. IsText(m[n]) /\ IsText(l[n])
  BY <1>3, <1>4, <1>5
<1> DEFINE s == base \o m[n]
           t == base \o l[n]
<1>7. (\E x : Stored(p, s, x)) /\ initial_hash(config, hash_size, a) = Digest(p, s)
  <2>1. \E x : Stored(p, base \o m[Len(a)], x)
               /\ initial_hash(config, hash_size, a) = Digest(p, base \o m[Len(a)])
    BY <1>1, <1>4, InitialIs, SMTT(30)
  <2>2. QED
    BY <2>1, Zenon
<1>8. (\E x : Stored(p, t, x)) /\ initial_hash(config, hash_size, b) = Digest(p, t)
  <2>1. \E x : Stored(p, base \o l[Len(b)], x)
               /\ initial_hash(config, hash_size, b) = Digest(p, base \o l[Len(b)])
    BY <1>1, <1>5, InitialIs, SMTT(30)
  <2>2. base \o l[Len(b)] = t
    BY <1>3
  <2> HIDE DEF t
  <2>3. QED
    BY <2>1, <2>2
<1> HIDE DEF s, t
<1>9. (\E c : Current(s, Len(s), c)) /\ (\E c : Current(t, Len(t), c))
  BY <1>7, <1>8, Zenon DEF Stored
<1>10. Digest(p, s) = Digest(p, t)
  BY <1>7, <1>8
<1>11. s = t
  BY <1>9, <1>10, DigestsDiffer
<1>12. m[n] = l[n]
  <2> DEFINE x == m[n]
             y == l[n]
  <2>1. IsText(x) /\ IsText(y) /\ base \o x = base \o y
    BY <1>6, <1>11 DEF s, t
  <2> HIDE DEF x, y
  <2>2. x = y
    BY <1>2, <2>1, CancelFirst
  <2>3. QED
    BY <2>2 DEF x, y
<1>13. m[Len(a)] = l[Len(b)]
  BY <1>3, <1>12
<1>14. QED
  BY <1>4, <1>5, <1>13, ParsedIs

(* -------- Argon2: the order of the blocks -------- *)

LEMMA Divided ==
  ASSUME NEW D \in Nat \ {0}, NEW x \in Nat
  PROVE  x \div D \in Nat /\ x % D \in 0 .. (D - 1) /\ x = D * (x \div D) + (x % D)
OBVIOUS

\* Blocks 0 and 1 of a lane are skipped: the segments, numbered from 0 in the order in
\* which they are filled, begin at Skip; Until counts the blocks before a segment, and
\* Nth is the step that computes a block.  Segments have n blocks, there are m lanes.
Skip(m, r)      == IF r < m THEN 2 ELSE 0
Until(n, m, r)  == n * r - 2 * Smaller(r, m)
Nth(n, m, r, b) == Until(n, m, r) + (b - Skip(m, r)) + 1

\* The block's number in its lane, over all passes.
Time(n, m, r, b) == n * (r \div m) + b

LEMMA UntilGrows ==
  ASSUME NEW n \in Nat, n >= 2, NEW m \in Nat \ {0}, NEW r \in Nat, NEW k \in Nat, r <= k
  PROVE  Until(n, m, r) \in Nat /\ Until(n, m, k) \in Nat /\ Until(n, m, r) <= Until(n, m, k)
<1> DEFINE x == n * r
           y == n * k
           z == n * (k - r)
<1>1. x \in Nat /\ y \in Nat /\ z \in Nat /\ y = x + z
  BY Further
<1>2. x >= 2 * r /\ z >= 2 * (k - r)
  <2>1. ASSUME NEW i \in Nat
        PROVE  n * i >= 2 * i
    <3>1. (n - 2) * i \in Nat /\ n * i = 2 * i + (n - 2) * i
      OBVIOUS
    <3>2. QED
      BY <3>1
  <2>2. k - r \in Nat
    OBVIOUS
  <2>3. QED
    BY <2>1, <2>2
<1> DEFINE u == Smaller(r, m)
           v == Smaller(k, m)
<1>3. u \in Nat /\ v \in Nat /\ u <= r /\ v <= k /\ v - u <= k - r
  BY DEF Smaller
<1>4. Until(n, m, r) = x - 2 * u /\ Until(n, m, k) = y - 2 * v
  BY DEF Until
<1> HIDE DEF x, y, z, u, v
<1>5. QED
  BY <1>1, <1>2, <1>3, <1>4

LEMMA UntilNext ==
  ASSUME NEW n \in Nat, n >= 2, NEW m \in Nat \ {0}, NEW r \in Nat
  PROVE  /\ Until(n, m, 0) = 0 /\ Until(n, m, r) \in Nat
         /\ Until(n, m, r + 1) = Until(n, m, r) + (n - Skip(m, r))
         /\ Skip(m, r) \in {0, 2} /\ n - Skip(m, r) \in Nat
<1>1. Until(n, m, r) \in Nat /\ Until(n, m, 0) = 0
  <2>1. Until(n, m, 0) = 0
    BY DEF Until, Smaller
  <2>2. QED
    BY <2>1, UntilGrows
<1>2. Smaller(r + 1, m) = Smaller(r, m) + (IF r < m THEN 1 ELSE 0) /\ Smaller(r, m) \in Nat
  BY DEF Smaller
<1>3. n * (r + 1) = n * r + n /\ n * r \in Nat
  OBVIOUS
<1>4. QED
  BY <1>1, <1>2, <1>3 DEF Until, Skip

\* The steps of a segment come after those of all segments before it.
InOrder(n, m, r, b) ==
  /\ Nth(n, m, r, b) \in (Until(n, m, r) + 1) .. Until(n, m, r + 1)
  /\ Until(n, m, r) \in Nat /\ Until(n, m, r + 1) \in Nat

LEMMA NthInOrder ==
  ASSUME NEW n \in Nat, n >= 2, NEW m \in Nat \ {0}, NEW r \in Nat, NEW b \in Skip(m, r) .. (n - 1)
  PROVE  InOrder(n, m, r, b)
<1> DEFINE x == Until(n, m, r)
           y == Until(n, m, r + 1)
           e == Skip(m, r)
<1>1. x \in Nat /\ y = x + (n - e) /\ e \in {0, 2} /\ n - e \in Nat
  BY UntilNext
<1>2. Nth(n, m, r, b) = x + (b - e) + 1
  BY DEF Nth
<1> HIDE DEF x, y
<1>3. Nth(n, m, r, b) \in (x + 1) .. y /\ y \in Nat
  <2>1. b \in e .. (n - 1)
    OBVIOUS
  <2> HIDE DEF e
  <2>2. QED
    BY <1>1, <1>2, <2>1
<1>4. QED
  BY <1>1, <1>3 DEF InOrder, x, y

LEMMA NthGrows ==
  ASSUME NEW n \in Nat, n >= 2, NEW m \in Nat \ {0},
         NEW r \in Nat, NEW b \in Skip(m, r) .. (n - 1),
         NEW k \in Nat, NEW c \in Skip(m, k) .. (n - 1),
         r < k \/ (r = k /\ b < c)
  PROVE  Nth(n, m, r, b) < Nth(n, m, k, c)
<1>1. CASE r < k
  <2> DEFINE x == Nth(n, m, r, b)
             y == Nth(n, m, k, c)
             u == Until(n, m, r + 1)
             v == Until(n, m, k)
  <2>1. x <= u /\ x \in Nat /\ v + 1 <= y /\ v \in Nat /\ u \in Nat /\ y \in Nat
    BY NthInOrder DEF InOrder
  <2>2. u <= v
    <3>1. r + 1 \in Nat /\ r + 1 <= k
      BY <1>1
    <3> HIDE DEF u, v
    <3>2. QED
      BY <3>1, UntilGrows DEF u, v
  <2> HIDE DEF x, y, u, v
  <2>3. x < y
    BY <2>1, <2>2
  <2>4. QED
    BY <2>3 DEF x, y
<1>2. CASE r = k /\ b < c
  <2> DEFINE x == Until(n, m, r)
             e == Skip(m, r)
  <2>1. x \in Nat /\ e \in {0, 2}
    BY UntilNext
  <2>2. Nth(n, m, r, b) = x + (b - e) + 1 /\ Nth(n, m, k, c) = x + (c - e) + 1
    BY <1>2 DEF Nth
  <2>3. b \in Int /\ c \in Int
    BY <2>1
  <2> HIDE DEF x, e
  <2>4. QED
    BY <1>2, <2>1, <2>2, <2>3
<1>3. QED
  BY <1>1, <1>2

\* Every step computes a block.
LEMMA NthEvery ==
  ASSUME NEW n \in Nat, n >= 2, NEW m \in Nat \ {0}, NEW last \in Nat, NEW i \in 1 .. Until(n, m, last)
  PROVE  \E r \in 0 .. (last - 1) : \E b \in Skip(m, r) .. (n - 1) : i = Nth(n, m, r, b)
<1> DEFINE T == {k \in 0 .. last : i <= Until(n, m, k) =>
                   \E r \in 0 .. (k - 1) : \E b \in Skip(m, r) .. (n - 1) : i = Nth(n, m, r, b)}
<1>1. 0 \in T
  <2>1. Until(n, m, 0) = 0
    BY UntilNext
  <2>2. ~(i <= Until(n, m, 0))
    BY <2>1
  <2>3. QED
    BY <2>2
<1>2. ASSUME NEW k \in 0 .. (last - 1), k \in T
      PROVE  k + 1 \in T
  <2> DEFINE x == Until(n, m, k)
             y == Until(n, m, k + 1)
             e == Skip(m, k)
  <2>0. k \in Nat
    OBVIOUS
  <2>1. x \in Nat /\ y = x + (n - e) /\ e \in {0, 2} /\ n - e \in Nat
    BY <2>0, UntilNext
  <2>2. i \in Nat
    BY UntilGrows
  <2>3. CASE i <= x
    <3>1. PICK r \in 0 .. (k - 1) : \E b \in Skip(m, r) .. (n - 1) : i = Nth(n, m, r, b)
      BY <1>2, <2>3
    <3>2. r \in 0 .. ((k + 1) - 1) /\ k + 1 \in 0 .. last
      OBVIOUS
    <3>3. QED
      BY <3>1, <3>2
  <2>4. CASE i > x /\ i <= y
    <3> DEFINE b == (i - x) - 1 + e
    <3>0. b \in e .. (n - 1) /\ i = x + (b - e) + 1
      <4> HIDE DEF x, y, e
      <4>1. QED
        BY <2>1, <2>2, <2>4 DEF b
    <3>1. i = Nth(n, m, k, b)
      <4> HIDE DEF b
      <4>1. QED
        BY <3>0 DEF Nth
    <3>2. k \in 0 .. ((k + 1) - 1) /\ k + 1 \in 0 .. last
      OBVIOUS
    <3> HIDE DEF b
    <3>3. QED
      BY <3>0, <3>1, <3>2
  <2>5. CASE i > y
    <3>1. ~(i <= y) /\ k + 1 \in 0 .. last
      BY <2>1, <2>2, <2>5
    <3>2. QED
      BY <3>1
  <2>6. i <= x \/ (i > x /\ i <= y) \/ i > y
    <3> HIDE DEF x, y, e
    <3>1. QED
      BY <2>1, <2>2
  <2>7. QED
    BY <2>3, <2>4, <2>5, <2>6
<1>3. last \in T
  <2> HIDE DEF T
  <2>1. \A k \in 0 .. last : k \in T
    BY <1>1, <1>2, InductionTo
  <2>2. QED
    BY <2>1
<1>4. i <= Until(n, m, last)
  BY UntilGrows
<1>5. QED
  BY <1>3, <1>4

\* In a lane the segments, and the blocks of a segment, are filled in the order of their
\* numbers; and a slice is filled before the next.
LEMMA LaneInOrder ==
  ASSUME NEW n \in Nat \ {0}, NEW m \in Nat \ {0}, NEW r \in Nat, NEW k \in Nat,
         NEW b \in 0 .. (n - 1), NEW c \in 0 .. (n - 1)
  PROVE  /\ r \div m < k \div m => r < k
         /\ r % m = k % m /\ Time(n, m, r, b) < Time(n, m, k, c) => r < k \/ (r = k /\ b < c)
<1> DEFINE s == r \div m
           t == k \div m
           x == n * s
           y == n * t
<1>1. /\ s \in Nat /\ t \in Nat /\ r % m \in 0 .. (m - 1) /\ k % m \in 0 .. (m - 1)
      /\ r = m * s + (r % m) /\ k = m * t + (k % m)
  BY Divided
<1>2. Time(n, m, r, b) = x + b /\ Time(n, m, k, c) = y + c
  BY DEF Time
<1> HIDE DEF s, t
<1>3. s < t => r < k
  <2>1. s < t => m * t = m * s + m * (t - s) /\ m * (t - s) >= m /\ m * s \in Nat
    <3>1. s < t => m * s \in Nat /\ m * t = m * s + m * (t - s)
      BY <1>1, Further
    <3>2. s < t => m * (t - s) = m + m * ((t - s) - 1) /\ m * ((t - s) - 1) \in Nat
      BY <1>1
    <3>3. QED
      BY <1>1, <3>1, <3>2
  <2> DEFINE u == m * s
             v == m * t
             e == m * (t - s)
  <2>2. s < t => v = u + e /\ e >= m /\ u \in Nat
    BY <2>1
  <2>3. r = u + (r % m) /\ k = v + (k % m)
    BY <1>1
  <2> HIDE DEF u, v, e
  <2>4. QED
    BY <1>1, <2>2, <2>3
<1>4. x + b < y + c => s <= t
  <2>1. t < s => x = y + n * (s - t) /\ n * (s - t) >= n /\ y \in Nat
    <3>1. t < s => y \in Nat /\ x = y + n * (s - t)
      BY <1>1, Further
    <3>2. t < s => n * (s - t) = n + n * ((s - t) - 1) /\ n * ((s - t) - 1) \in Nat
      BY <1>1
    <3>3. QED
      BY <1>1, <3>1, <3>2
  <2> DEFINE z == n * (s - t)
  <2>2. t < s => x = y + z /\ z >= n /\ y \in Nat /\ z \in Int
    BY <1>1, <2>1
  <2> HIDE DEF x, y, z
  <2>3. QED
    BY <1>1, <2>2
<1>5. s = t => x = y /\ y \in Nat
  BY <1>1
<1>6. s = t /\ r % m = k % m => r = k
  BY <1>1
<1> HIDE DEF x, y
<1>7. QED
  BY <1>1, <1>2, <1>3, <1>4, <1>5, <1>6 DEF s, t

\* Configurations as crypto_argon2 asks for them.
IsConfig(config) ==
  /\ config.nb_lanes \in Nat \ {0} /\ config.nb_passes \in Nat \ {0}
  /\ config.nb_blocks \in Nat /\ config.nb_blocks >= 8 * config.nb_lanes
  /\ lane_size(config) <= Seed32

Sizes(config, n, m, D) ==
  /\ n = segment_size(config) /\ m = config.nb_lanes /\ D = lane_size(config)
  /\ n \in Nat /\ n >= 2 /\ m \in Nat \ {0} /\ D \in Nat \ {0} /\ D = 4 * n /\ D <= Seed32

LEMMA SizesAre ==
  ASSUME NEW config, IsConfig(config)
  PROVE  Sizes(config, segment_size(config), config.nb_lanes, lane_size(config))
<1> DEFINE m == config.nb_lanes
           x == config.nb_blocks
           y == x \div m
           n == y \div 4
<1>1. m \in Nat \ {0} /\ x \in Nat /\ x >= 8 * m /\ lane_size(config) <= Seed32
  BY DEF IsConfig
<1> HIDE DEF m, x
<1>2. y \in Nat /\ y >= 8
  <2>1. (m * 8 + 0) \div m = 8
    <3>1. 8 \in Int /\ 0 \in 0 .. (m - 1)
      BY <1>1
    <3>2. QED
      BY <1>1, <3>1, Division
  <2>2. m * 8 + 0 \in Nat /\ m * 8 + 0 <= x
    BY <1>1
  <2> DEFINE z == m * 8 + 0
  <2>3. z \div m = 8 /\ z \in Nat /\ z <= x
    BY <2>1, <2>2
  <2> HIDE DEF z
  <2>4. z \div m \in 0 .. (x \div m)
    BY <1>1, <2>3, QuotientsGrow
  <2>5. x \div m \in Nat
    BY <1>1, Divided
  <2>6. QED
    BY <2>3, <2>4, <2>5
<1> HIDE DEF y
<1>3. n \in Nat /\ n >= 2
  BY <1>2
<1>4. segment_size(config) = n /\ lane_size(config) = n * 4
  BY DEF segment_size, lane_size, n, y, m, x
<1> HIDE DEF n
<1>5. QED
  BY <1>1, <1>3, <1>4 DEF Sizes, m

\* Block b of segment r.
PlaceOf(m, r, b) ==
  [pass |-> r \div (4 * m), slice |-> (r \div m) % 4, segment |-> r % m, block |-> b]

\* What is known of it.
IsPlaceOf(m, r, at) ==
  /\ at.pass \in Nat /\ at.slice \in 0 .. 3 /\ at.segment = r % m /\ at.segment \in 0 .. (m - 1)
  /\ r \div m \in Nat /\ r \div m = 4 * at.pass + at.slice
  /\ pass_offset(at) = Skip(m, r) /\ (r < m <=> at.pass = 0 /\ at.slice = 0)

LEMMA BlockPlaceIs ==
  ASSUME NEW m \in Nat \ {0}, NEW r \in Nat, NEW b
  PROVE  IsPlaceOf(m, r, PlaceOf(m, r, b)) /\ PlaceOf(m, r, b).block = b
<1> DEFINE s == r \div m
           l == r % m
           p == s \div 4
           e == s % 4
           at == PlaceOf(m, r, b)
<1>1. s \in Nat /\ l \in 0 .. (m - 1) /\ r = m * s + l
  BY Divided
<1> HIDE DEF s, l
<1>2. p \in Nat /\ e \in 0 .. 3 /\ s = 4 * p + e
  BY <1>1
<1> HIDE DEF p, e
<1>3. r \div (4 * m) = p
  <2> DEFINE D == 4 * m
             x == m * e + l
  <2>1. x \in 0 .. (D - 1)
    <3>1. m * e \in Nat /\ m * e <= m * 3
      <4>1. m * 3 = m * e + m * (3 - e) /\ m * e \in Nat /\ m * (3 - e) \in Nat
        <5>1. e \in Nat /\ e <= 3 /\ 3 \in Nat /\ m \in Nat
          BY <1>2
        <5>2. QED
          BY <5>1, Further
      <4> DEFINE u == m * e
                 v == m * (3 - e)
      <4>2. m * 3 = u + v /\ u \in Nat /\ v \in Nat
        BY <4>1
      <4> HIDE DEF u, v
      <4>3. u \in Nat /\ u <= m * 3
        BY <4>2
      <4>4. QED
        BY <4>3 DEF u
    <3> DEFINE u == m * e
    <3>2. u \in Nat /\ u <= m * 3
      BY <3>1
    <3> HIDE DEF u
    <3>3. u + l \in 0 .. (4 * m - 1)
      BY <1>1, <3>2
    <3>4. QED
      BY <3>3 DEF u
  <2>2. r = D * p + x
    <3>1. m * s = m * (4 * p) + m * e
      <4>1. 4 * p \in Nat /\ e \in Nat /\ m \in Nat
        BY <1>2
      <4>2. m * (4 * p + e) = m * (4 * p) + m * e
        BY <4>1, Distribute
      <4>3. QED
        BY <1>2, <4>2
    <3>2. m * (4 * p) = (4 * m) * p
      BY <1>2
    <3>3. m * e \in Int /\ (4 * m) * p \in Int
      BY <1>2
    <3> DEFINE u == m * s
               v == m * (4 * p)
               w == m * e
               y == (4 * m) * p
    <3>4. u = v + w /\ v = y /\ w \in Int /\ y \in Int /\ r = u + l
      BY <1>1, <3>1, <3>2, <3>3
    <3> HIDE DEF u, v, w, y
    <3>5. r = y + (w + l)
      BY <1>1, <3>4
    <3>6. QED
      BY <3>5 DEF y, w
  <2>3. D \in Nat \ {0} /\ p \in Int
    BY <1>2
  <2> HIDE DEF D, x
  <2>4. r \div D = p
    BY <2>1, <2>2, <2>3, Division
  <2>5. QED
    BY <2>4 DEF D
<1>4. /\ at.pass = p /\ at.slice = e /\ at.segment = l /\ at.block = b
  <2>1. at = [pass |-> p, slice |-> e, segment |-> l, block |-> b]
    BY <1>3, Zenon DEF PlaceOf, e, l, s
  <2> HIDE DEF at
  <2>2. QED
    BY <2>1
<1> HIDE DEF at
<1>5. r < m <=> s = 0
  <2>1. s = 0 => m * s = 0
    BY <1>1
  <2>2. s # 0 => m * s >= m
    <3>1. s # 0 => m * s = m + m * (s - 1) /\ m * (s - 1) \in Nat
      BY <1>1
    <3> DEFINE u == m * (s - 1)
    <3>2. s # 0 => m * s = m + u /\ u \in Nat
      BY <3>1
    <3> HIDE DEF u
    <3>3. QED
      BY <3>2
  <2> DEFINE u == m * s
  <2>3. u \in Nat /\ r = u + l
    BY <1>1
  <2> HIDE DEF u
  <2>4. (s = 0 => u = 0) /\ (s # 0 => u >= m)
    BY <2>1, <2>2 DEF u
  <2>5. QED
    BY <1>1, <2>3, <2>4
<1>6. s = 0 <=> p = 0 /\ e = 0
  BY <1>2
<1>7. pass_offset(at) = Skip(m, r)
  BY <1>4, <1>5, <1>6 DEF pass_offset, Skip
<1>8. IsPlaceOf(m, r, at) /\ at.block = b
  BY <1>1, <1>2, <1>4, <1>5, <1>6, <1>7 DEF IsPlaceOf, s, l
<1>9. QED
  BY <1>8 DEF at

\* The places of a segment.
SegmentHas(config, n, m, r, k) ==
  /\ IsText(SegmentPlaces(config, k)) /\ Len(SegmentPlaces(config, k)) = n - Skip(m, r)
  /\ \A j \in 1 .. n - Skip(m, r) : SegmentPlaces(config, k)[j] = PlaceOf(m, r, Skip(m, r) + j - 1)

LEMMA SegmentPlacesAre ==
  ASSUME NEW config, NEW n, NEW m, NEW D, Sizes(config, n, m, D), NEW r \in Nat, NEW k, k = r + 1
  PROVE  SegmentHas(config, n, m, r, k)
<1> DEFINE e == Skip(m, r)
           x == n - e
           f == [j \in 1 .. x |-> PlaceOf(m, r, e + j - 1)]
<1>1. k - 1 = r /\ m = config.nb_lanes /\ n = segment_size(config) /\ n \in Nat /\ n >= 2 /\ m \in Nat \ {0}
  BY DEF Sizes
<1>2. pass_offset(PlaceOf(m, r, 0)) = e
  BY <1>1, BlockPlaceIs DEF IsPlaceOf
<1>3. SegmentPlaces(config, k) = f
  <2>1. SegmentPlaces(config, k) =
          [j \in 1 .. n - pass_offset(PlaceOf(m, r, 0)) |-> PlaceOf(m, r, pass_offset(PlaceOf(m, r, 0)) + j - 1)]
    BY <1>1, Zenon DEF SegmentPlaces, PlaceOf
  <2> HIDE DEF e
  <2>2. QED
    BY <1>2, <2>1
<1>4. x \in Nat
  BY <1>1, UntilNext
<1> HIDE DEF x
<1>5. IsText(f) /\ Len(f) = x
  <2>1. f = [j \in 1 .. x |-> f[j]] /\ \A j \in 1 .. x : f[j] = PlaceOf(m, r, e + j - 1)
    OBVIOUS
  <2> HIDE DEF f
  <2>2. QED
    BY <1>4, <2>1, TextFrom
<1>6. \A j \in 1 .. x : f[j] = PlaceOf(m, r, e + j - 1)
  BY Zenon
<1> HIDE DEF f, e
<1>7. QED
  BY <1>3, <1>5, <1>6 DEF SegmentHas, x, e

\* How many segments there are.
Segments(config) == 4 * config.nb_lanes * config.nb_passes

\* The segments' places, and the places as they are put together.
Queued(config)  == [k \in 1 .. Segments(config) |-> SegmentPlaces(config, k)]
Visited(config) == CHOOSE g : Joining(g, Queued(config), Segments(config))

LEMMA PlacesUnfold ==
  ASSUME NEW config, Segments(config) \in Nat
  PROVE  Places(config) = Visited(config)[Segments(config)]
<1> DEFINE n == Segments(config)
           q == Queued(config)
           all == CHOOSE g : g = [k \in 0 .. n |-> IF k = 0 THEN <<>> ELSE g[k - 1] \o SegmentPlaces(config, k)]
<1>1. Places(config) = all[n]
  BY Zenon DEF Places, Segments
<1>2. n \in Nat /\ \A k \in 1 .. n : q[k] = SegmentPlaces(config, k)
  BY DEF Queued
<1> DEFINE G(g, k) == g[k - 1] \o SegmentPlaces(config, k)
           H(g, k) == g[k - 1] \o q[k]
<1> HIDE DEF n, q
<1>3. all = CHOOSE g : Joining(g, q, n)
  <2>1. \A g : \A k \in 1 .. n : G(g, k) = H(g, k)
    BY <1>2, Zenon
  <2> HIDE DEF G, H
  <2>2. \A k \in 0 .. n : k # 0 => k \in 1 .. n
    BY <1>2
  <2>3. \A g : [k \in 0 .. n |-> IF k = 0 THEN <<>> ELSE G(g, k)] = [k \in 0 .. n |-> IF k = 0 THEN <<>> ELSE H(g, k)]
    BY <2>1, <2>2
  <2>4. \A g : (g = [k \in 0 .. n |-> IF k = 0 THEN <<>> ELSE G(g, k)]) <=> Joining(g, q, n)
    BY <2>3, Zenon DEF Joining, H
  <2>5. QED
    BY <2>4, Zenon DEF G
<1> HIDE DEF all
<1>4. QED
  BY <1>1, <1>3 DEF Visited, n, q

\* Places(config) computes the blocks in the order of Nth.
Numbered(config, n, m) ==
  /\ IsText(Places(config)) /\ Segments(config) \in Nat
  /\ Len(Places(config)) = Until(n, m, Segments(config))
  /\ \A r \in 0 .. (Segments(config) - 1) : \A b \in Skip(m, r) .. (n - 1) :
       Places(config)[Nth(n, m, r, b)] = PlaceOf(m, r, b)

LEMMA PlacesAre ==
  ASSUME NEW config, IsConfig(config), NEW n, NEW m, NEW D, Sizes(config, n, m, D)
  PROVE  Numbered(config, n, m)
<1> DEFINE R == Segments(config)
           q == Queued(config)
           g == Visited(config)
<1>1. n \in Nat /\ n >= 2 /\ m \in Nat \ {0} /\ R \in Nat
  <2>1. n \in Nat /\ n >= 2 /\ m \in Nat \ {0} /\ m = config.nb_lanes /\ config.nb_passes \in Nat
    BY DEF Sizes, IsConfig
  <2>2. R \in Nat
    BY <2>1 DEF Segments
  <2>3. QED
    BY <2>1, <2>2
<1>2. ASSUME NEW k \in 1 .. R
      PROVE  /\ IsText(q[k]) /\ Len(q[k]) = n - Skip(m, k - 1) /\ q[k] = SegmentPlaces(config, k)
             /\ \A j \in 1 .. n - Skip(m, k - 1) : q[k][j] = PlaceOf(m, k - 1, Skip(m, k - 1) + j - 1)
  <2>1. q[k] = SegmentPlaces(config, k)
    BY DEF Queued
  <2> DEFINE r == k - 1
  <2>2. r \in Nat /\ k = r + 1
    BY <1>1
  <2> HIDE DEF r, q
  <2>3. SegmentHas(config, n, m, r, k)
    BY <2>2, SegmentPlacesAre
  <2>4. QED
    BY <2>1, <2>3, Zenon DEF r, SegmentHas
<1>3. IsTexts(q) /\ Len(q) = R
  <2>1. q = [k \in 1 .. R |-> q[k]]
    BY DEF Queued
  <2> HIDE DEF q, R
  <2>2. IsText(q) /\ Len(q) = R
    BY <1>1, <2>1, TextFrom
  <2>3. QED
    BY <1>2, <2>2 DEF IsTexts
<1> HIDE DEF R, q
<1>4. Joins(g, q) /\ \A k \in 0 .. Len(q) : IsText(g[k])
  <2>1. g = CHOOSE f : Joining(f, q, Len(q))
    BY <1>3, Zenon DEF Visited, R, q
  <2> HIDE DEF g
  <2>2. QED
    BY <1>3, <2>1, JoiningIs
<1>5. Places(config) = g[R]
  BY <1>1, PlacesUnfold DEF R
<1> HIDE DEF g
<1>6. \A k \in 1 .. R : Longer(g, q, k)
  BY <1>3, <1>4, JoinsLengths
<1>7. \A k \in 0 .. R : Len(g[k]) = Until(n, m, k)
  <2> DEFINE T == {k \in 0 .. R : Len(g[k]) = Until(n, m, k)}
  <2>1. 0 \in T
    <3>1. Len(g[0]) = 0
      BY <1>4, EmptyText DEF Joins
    <3>2. Until(n, m, 0) = 0
      BY <1>1, UntilNext
    <3>3. QED
      BY <1>1, <3>1, <3>2
  <2>2. ASSUME NEW i \in 0 .. (R - 1), i \in T
        PROVE  i + 1 \in T
    <3> DEFINE k == i + 1
    <3>1. k \in 1 .. R /\ k - 1 = i /\ i \in Nat /\ k \in 0 .. R
      BY <1>1
    <3> HIDE DEF k
    <3>2. Len(g[k]) = Len(g[k - 1]) + Len(q[k])
      BY <1>6, <3>1, Zenon DEF Longer
    <3>3. Len(q[k]) = n - Skip(m, i) /\ Len(g[i]) = Until(n, m, i)
      BY <1>2, <2>2, <3>1
    <3>4. Until(n, m, i + 1) = Until(n, m, i) + (n - Skip(m, i))
      BY <1>1, <3>1, UntilNext
    <3>5. Len(g[k]) = Until(n, m, k)
      BY <3>1, <3>2, <3>3, <3>4 DEF k
    <3>6. QED
      BY <3>1, <3>5 DEF k
  <2>3. QED
    <3> HIDE DEF T
    <3>1. \A k \in 0 .. R : k \in T
      BY <1>1, <2>1, <2>2, InductionTo
    <3>2. QED
      BY <3>1 DEF T
<1>8. ASSUME NEW r \in 0 .. (R - 1), NEW b \in Skip(m, r) .. (n - 1)
      PROVE  g[R][Nth(n, m, r, b)] = PlaceOf(m, r, b)
  <2> DEFINE k == r + 1
             e == Skip(m, r)
             j == (b - e) + 1
  <2>1. k \in 1 .. R /\ k - 1 = r /\ r \in 0 .. R /\ r \in Nat
    BY <1>1
  <2>2. e \in {0, 2} /\ Until(n, m, r) \in Nat
    BY <1>1, <2>1, UntilNext
  <2>3. j \in 1 .. n - e /\ e + j - 1 = b /\ Nth(n, m, r, b) = Until(n, m, r) + j
    <3>1. b \in e .. (n - 1)
      OBVIOUS
    <3> HIDE DEF e
    <3>2. j \in 1 .. n - e /\ e + j - 1 = b
      BY <1>1, <2>2, <3>1
    <3>3. Nth(n, m, r, b) = Until(n, m, r) + j
      BY <2>2, <3>1 DEF Nth, e
    <3>4. QED
      BY <3>2, <3>3
  <2> HIDE DEF k, j
  <2>4. q[k][j] = PlaceOf(m, r, b) /\ Len(q[k]) = n - e
    <3>1. /\ Len(q[k]) = n - Skip(m, k - 1)
          /\ \A x \in 1 .. n - Skip(m, k - 1) : q[k][x] = PlaceOf(m, k - 1, Skip(m, k - 1) + x - 1)
      BY <1>2, <2>1, Zenon
    <3>2. q[k][j] = PlaceOf(m, r, e + j - 1)
      BY <2>1, <2>3, <3>1
    <3>3. QED
      BY <2>1, <2>3, <3>1, <3>2
  <2> HIDE DEF e
  <2>5. g[R][Len(g[k - 1]) + j] = q[k][j]
    <3>1. k \in 1 .. Len(q)
      BY <1>3, <2>1
    <3>2. Placed(q, g, k)
      BY <1>3, <1>4, <3>1, JoinsPlaced
    <3>3. QED
      BY <1>3, <2>3, <2>4, <3>2 DEF Placed
  <2>6. Len(g[k - 1]) = Until(n, m, r)
    BY <1>7, <2>1
  <2>7. QED
    BY <2>3, <2>4, <2>5, <2>6
<1>9. IsText(g[R]) /\ Len(g[R]) = Until(n, m, R)
  BY <1>1, <1>3, <1>4, <1>7
<1>10. QED
  BY <1>1, <1>5, <1>8, <1>9, Zenon DEF Numbered, R

\* The counter of index blocks: one more at the first block and at every multiple.
Ticks(e, b) == IF b = e \/ b % IndexWords = 0 THEN 1 ELSE 0
Counts(g, e, n) == g = [b \in e - 1 .. n |-> IF b < e THEN 0 ELSE g[b - 1] + Ticks(e, b)]

LEMMA Ticked ==
  ASSUME NEW e \in {0, 2}, NEW b \in Nat, b >= e
  PROVE  (b \div IndexWords) + 1 = (IF b = e THEN 0 ELSE ((b - 1) \div IndexWords) + 1) + Ticks(e, b)
<1>1. IndexWords \in Nat \ {0} /\ IndexWords > 2
  BY Argon2Assumption
<1>2. CASE b = e
  <2>1. b \div IndexWords = 0
    <3>1. (IndexWords * 0 + e) \div IndexWords = 0
      BY <1>1, Division
    <3>2. IndexWords * 0 + e = e
      BY <1>1
    <3>3. QED
      BY <1>2, <3>1, <3>2
  <2>2. QED
    BY <1>2, <2>1 DEF Ticks
<1>3. CASE b # e
  <2> DEFINE x == b - 1
  <2>1. x \in Nat /\ b = x + 1
    BY <1>3
  <2> HIDE DEF x
  <2>2. (x + 1) \div IndexWords = IF (x + 1) % IndexWords = 0 THEN (x \div IndexWords) + 1 ELSE x \div IndexWords
    BY <1>1, <2>1, Successor
  <2>3. b \div IndexWords = IF b % IndexWords = 0 THEN (x \div IndexWords) + 1 ELSE x \div IndexWords
    BY <2>1, <2>2
  <2>4. x \div IndexWords \in Nat /\ b \div IndexWords \in Nat
    BY <1>1, <2>1, Divided
  <2> DEFINE p == x \div IndexWords
             q == b \div IndexWords
  <2>5. q = IF b % IndexWords = 0 THEN p + 1 ELSE p
    BY <2>3
  <2>6. p \in Nat /\ q \in Nat
    BY <2>4
  <2> HIDE DEF p, q
  <2>7. q + 1 = (p + 1) + Ticks(e, b)
    BY <1>3, <2>5, <2>6 DEF Ticks
  <2>8. QED
    BY <1>3, <2>7 DEF p, q, x
<1>4. QED
  BY <1>2, <1>3

LEMMA CtrIs ==
  ASSUME NEW at, NEW e \in {0, 2}, pass_offset(at) = e, at.block \in Nat, at.block >= e
  PROVE  index_ctr(at) = (at.block \div IndexWords) + 1
<1> DEFINE n == at.block
           ctr == CHOOSE g : Counts(g, e, n)
           v(b) == (b \div IndexWords) + 1
           f == [b \in e - 1 .. n |-> IF b < e THEN 0 ELSE v(b)]
<1>1. index_ctr(at) = ctr[n]
  <2>1. index_ctr(at) = (CHOOSE g : Counts(g, pass_offset(at), n))[n]
    BY Zenon DEF index_ctr, Counts, Ticks
  <2>2. QED
    BY <2>1, Zenon
<1> HIDE DEF n
<1>2. n \in Nat /\ n >= e
  BY DEF n
<1>3. \A b \in e .. n : v(b) = (IF b = e THEN 0 ELSE v(b - 1)) + Ticks(e, b)
  BY <1>2, Ticked
<1> HIDE DEF v
<1>4. Counts(f, e, n)
  <2>1. ASSUME NEW b \in e - 1 .. n
        PROVE  f[b] = IF b < e THEN 0 ELSE f[b - 1] + Ticks(e, b)
    <3>1. CASE b < e
      BY <3>1
    <3>2. CASE b >= e
      <4>1. b \in e .. n /\ b - 1 \in e - 1 .. n /\ (b - 1 < e <=> b = e) /\ ~(b < e)
        BY <1>2, <3>2
      <4>2. f[b] = v(b) /\ f[b - 1] = IF b = e THEN 0 ELSE v(b - 1)
        BY <4>1
      <4> HIDE DEF f
      <4>3. v(b) = (IF b = e THEN 0 ELSE v(b - 1)) + Ticks(e, b)
        BY <1>3, <4>1, Zenon
      <4>4. QED
        BY <4>1, <4>2, <4>3
    <3>3. QED
      BY <3>1, <3>2
  <2>2. f = [b \in e - 1 .. n |-> f[b]]
    OBVIOUS
  <2> HIDE DEF f
  <2>3. QED
    BY <2>1, <2>2 DEF Counts
<1>5. Counts(ctr, e, n)
  BY <1>4, Zenon
<1> HIDE DEF ctr, f
<1>6. \A b \in e .. n : ctr[b] = (IF b = e THEN 0 ELSE ctr[b - 1]) + Ticks(e, b)
  <2>1. \A b \in e - 1 .. n : ctr[b] = IF b < e THEN 0 ELSE ctr[b - 1] + Ticks(e, b)
    <3> DEFINE w(b) == IF b < e THEN 0 ELSE ctr[b - 1] + Ticks(e, b)
    <3>1. ctr = [b \in e - 1 .. n |-> w(b)]
      BY <1>5, Zenon DEF Counts
    <3> HIDE DEF w
    <3>2. \A b \in e - 1 .. n : ctr[b] = w(b)
      BY <3>1, Zenon
    <3>3. QED
      BY <3>2, Zenon DEF w
  <2>2. e - 1 \in e - 1 .. n /\ e - 1 < e
    BY <1>2
  <2>3. ctr[e - 1] = 0
    BY <2>1, <2>2
  <2>4. \A b \in e .. n : b \in e - 1 .. n /\ ~(b < e)
    BY <1>2
  <2>5. QED
    BY <2>1, <2>3, <2>4
<1>7. ctr[n] = v(n)
  <2> DEFINE T == {i \in 0 .. n - e : ctr[e + i] = v(e + i)}
  <2>1. 0 \in T
    <3>1. e \in e .. n /\ e + 0 = e
      BY <1>2
    <3>2. ctr[e] = v(e)
      BY <1>3, <1>6, <3>1
    <3>3. QED
      BY <1>2, <3>1, <3>2
  <2>2. ASSUME NEW i \in 0 .. ((n - e) - 1), i \in T
        PROVE  i + 1 \in T
    <3> DEFINE b == e + (i + 1)
    <3>1. b \in e .. n /\ b # e /\ b - 1 = e + i /\ i + 1 \in 0 .. n - e
      BY <1>2
    <3> HIDE DEF b
    <3>2. ctr[b - 1] = v(b - 1)
      BY <2>2, <3>1
    <3>3. ctr[b] = v(b)
      BY <1>3, <1>6, <3>1, <3>2
    <3>4. QED
      BY <3>1, <3>3 DEF b
  <2>3. n - e \in T
    <3>1. n - e \in Nat
      BY <1>2
    <3> HIDE DEF T
    <3>2. \A i \in 0 .. n - e : i \in T
      BY <2>1, <2>2, <3>1, InductionTo
    <3>3. QED
      BY <3>1, <3>2
  <2>4. e + (n - e) = n
    BY <1>2
  <2>5. QED
    BY <2>3, <2>4
<1>8. QED
  BY <1>1, <1>7 DEF v, n

\* The last blocks of the first lanes.
Ends(D, l) == {D * (i + 1) - 1 : i \in 0 .. l}
Lasts(g, D, n) == g = [l \in 0 .. n |-> IF l = 0 THEN {D - 1} ELSE g[l - 1] \cup {D * (l + 1) - 1}]

LEMMA LastBlocksAre ==
  ASSUME NEW config, IsConfig(config), NEW n, NEW m, NEW D, Sizes(config, n, m, D)
  PROVE  LastBlocks(config) = {i \in 0 .. D * m - 1 : (i + 1) % D = 0}
<1> DEFINE k == m - 1
           last == CHOOSE g : Lasts(g, D, k)
           f == [l \in 0 .. k |-> Ends(D, l)]
<1>1. D \in Nat \ {0} /\ m \in Nat \ {0} /\ m = config.nb_lanes /\ D = lane_size(config) /\ k \in Nat
  BY DEF Sizes
<1>2. LastBlocks(config) = last[k]
  BY <1>1, Zenon DEF LastBlocks, Lasts
<1>3. Ends(D, 0) = {D - 1} /\ \A l \in 1 .. k : Ends(D, l) = Ends(D, l - 1) \cup {D * (l + 1) - 1}
  <2>1. Ends(D, 0) = {D - 1}
    <3>1. 0 .. 0 = {0} /\ D * (0 + 1) - 1 = D - 1
      BY <1>1
    <3>2. QED
      BY <3>1 DEF Ends
  <2>2. ASSUME NEW l \in 1 .. k
        PROVE  Ends(D, l) = Ends(D, l - 1) \cup {D * (l + 1) - 1}
    <3>1. 0 .. l = (0 .. (l - 1)) \cup {l}
      BY <1>1
    <3> DEFINE E(i) == D * (i + 1) - 1
    <3>2. Ends(D, l) = {E(i) : i \in 0 .. l} /\ Ends(D, l - 1) = {E(i) : i \in 0 .. (l - 1)}
      BY DEF Ends
    <3> HIDE DEF E
    <3>3. Ends(D, l) = Ends(D, l - 1) \cup {E(l)}
      BY <3>1, <3>2
    <3>4. QED
      BY <3>3 DEF E
  <2>3. QED
    BY <2>1, <2>2
<1> HIDE DEF k
<1>4. Lasts(f, D, k)
  <2>1. ASSUME NEW l \in 0 .. k
        PROVE  f[l] = IF l = 0 THEN {D - 1} ELSE f[l - 1] \cup {D * (l + 1) - 1}
    <3>1. f[l] = Ends(D, l) /\ (l # 0 => l \in 1 .. k /\ f[l - 1] = Ends(D, l - 1))
      BY <1>1
    <3> HIDE DEF f
    <3>2. CASE l = 0
      BY <1>3, <3>1, <3>2
    <3>3. CASE l # 0
      <4>1. Ends(D, l) = Ends(D, l - 1) \cup {D * (l + 1) - 1}
        BY <1>3, <3>1, <3>3
      <4>2. QED
        BY <3>1, <3>3, <4>1
    <3>4. QED
      BY <3>2, <3>3
  <2>2. f = [l \in 0 .. k |-> f[l]]
    OBVIOUS
  <2> HIDE DEF f
  <2>3. QED
    BY <2>1, <2>2 DEF Lasts
<1>5. Lasts(last, D, k)
  BY <1>4, Zenon
<1> HIDE DEF last, f
<1>6. \A l \in 0 .. k : last[l] = IF l = 0 THEN {D - 1} ELSE last[l - 1] \cup {D * (l + 1) - 1}
  <2> DEFINE w(l) == IF l = 0 THEN {D - 1} ELSE last[l - 1] \cup {D * (l + 1) - 1}
  <2>1. last = [l \in 0 .. k |-> w(l)]
    BY <1>5, Zenon DEF Lasts
  <2> HIDE DEF w
  <2>2. \A l \in 0 .. k : last[l] = w(l)
    BY <2>1, Zenon
  <2>3. QED
    BY <2>2, Zenon DEF w
<1>7. last[k] = Ends(D, k)
  <2> DEFINE T == {l \in 0 .. k : last[l] = Ends(D, l)}
  <2>1. 0 \in T
    <3>1. 0 \in 0 .. k
      BY <1>1
    <3>2. last[0] = {D - 1}
      BY <1>6, <3>1, Zenon
    <3>3. last[0] = Ends(D, 0)
      BY <1>3, <3>2, Zenon
    <3>4. QED
      BY <3>1, <3>3, Zenon
  <2>2. ASSUME NEW i \in 0 .. (k - 1), i \in T
        PROVE  i + 1 \in T
    <3> DEFINE l == i + 1
    <3>1. l \in 1 .. k /\ l \in 0 .. k /\ l # 0 /\ l - 1 = i
      BY <1>1
    <3> HIDE DEF l
    <3>2. last[l] = last[l - 1] \cup {D * (l + 1) - 1}
      BY <1>6, <3>1, Zenon
    <3>3. last[l - 1] = Ends(D, l - 1)
      BY <2>2, <3>1
    <3>4. last[l] = Ends(D, l)
      BY <1>3, <3>1, <3>2, <3>3, Zenon
    <3>5. QED
      BY <3>1, <3>4 DEF l
  <2>3. QED
    <3> HIDE DEF T
    <3>1. \A l \in 0 .. k : l \in T
      BY <1>1, <2>1, <2>2, InductionTo
    <3>2. k \in T
      BY <1>1, <3>1
    <3>3. QED
      BY <3>2 DEF T
<1>8. Ends(D, k) = {i \in 0 .. D * m - 1 : (i + 1) % D = 0}
  <2>1. ASSUME NEW i \in 0 .. k
        PROVE  D * (i + 1) - 1 \in {j \in 0 .. D * m - 1 : (j + 1) % D = 0}
    <3> DEFINE x == D * (i + 1)
               y == D * m
    <3>1. x \in Nat /\ x >= 1 /\ x <= y /\ y \in Nat
      <4>1. i + 1 \in Nat /\ m \in Nat /\ D \in Nat /\ i + 1 <= m
        BY <1>1 DEF k
      <4> DEFINE z == D * (m - (i + 1))
      <4>2. x \in Nat /\ z \in Nat /\ y = x + z
        BY <4>1, Further
      <4>3. x = D + D * i /\ D * i \in Nat
        BY <1>1
      <4> DEFINE u == D * i
      <4>4. x = D + u /\ u \in Nat
        BY <4>3
      <4> HIDE DEF x, y, z, u
      <4>5. QED
        BY <1>1, <4>2, <4>4
    <3>2. (D * (i + 1) + 0) % D = 0
      <4>1. i + 1 \in Int /\ 0 \in 0 .. (D - 1)
        BY <1>1
      <4>2. QED
        BY <1>1, <4>1, Division
    <3>3. x % D = 0
      <4>1. D * (i + 1) + 0 = x
        BY <3>1
      <4>2. QED
        BY <3>2, <4>1
    <3> HIDE DEF x, y
    <3>4. x - 1 \in 0 .. y - 1 /\ (x - 1) + 1 = x
      BY <3>1
    <3>5. QED
      BY <3>3, <3>4 DEF x, y
  <2>2. ASSUME NEW j \in 0 .. D * m - 1, (j + 1) % D = 0
        PROVE  \E i \in 0 .. k : j = D * (i + 1) - 1
    <3> DEFINE y == D * m
               x == j + 1
               q == x \div D
    <3>0. y \in Nat
      BY <1>1
    <3>1. j \in Nat /\ x \in Nat /\ x >= 1 /\ x <= y /\ x % D = 0
      <4> HIDE DEF y
      <4>1. j \in 0 .. y - 1
        BY DEF y
      <4>2. QED
        BY <2>2, <3>0, <4>1
    <3> HIDE DEF x
    <3>2. q \in Nat /\ x = D * q + 0
      <4>1. q \in Nat /\ x = D * q + (x % D)
        BY <1>1, <3>1, Divided
      <4>2. QED
        BY <3>1, <4>1
    <3> HIDE DEF q
    <3>3. q >= 1
      <4>1. q = 0 => D * q = 0
        BY <1>1
      <4>2. QED
        BY <3>1, <3>2, <4>1
    <3>4. q <= m
      <4>1. q > m => D * q >= D * m + D
        <5>1. q > m => D * m \in Nat /\ D * q = D * m + D * (q - m)
          BY <1>1, <3>2, Further
        <5>2. q > m => D * (q - m) = D + D * ((q - m) - 1) /\ D * ((q - m) - 1) \in Nat
          BY <1>1, <3>2
        <5> DEFINE u == D * m
                   v == D * (q - m)
                   w == D * ((q - m) - 1)
                   z == D * q
        <5>3. q > m => u \in Nat /\ z = u + v /\ v = D + w /\ w \in Nat
          BY <5>1, <5>2
        <5> HIDE DEF u, v, w, z
        <5>4. q > m => z >= u + D
          BY <1>1, <5>3
        <5>5. QED
          BY <5>4 DEF z, u
      <4> DEFINE z == D * q
      <4>2. (q > m => z >= y + D) /\ x = z + 0 /\ z \in Int
        BY <1>1, <3>2, <4>1
      <4> HIDE DEF z, y
      <4>3. QED
        BY <1>1, <3>0, <3>1, <3>2, <4>2
    <3>5. q - 1 \in 0 .. k /\ (q - 1) + 1 = q
      BY <1>1, <3>2, <3>3, <3>4 DEF k
    <3>6. j = D * ((q - 1) + 1) - 1
      <4> DEFINE z == D * q
      <4>1. x = z + 0 /\ z \in Int
        BY <1>1, <3>2
      <4>2. j = x - 1
        BY <3>1 DEF x
      <4> HIDE DEF z
      <4>3. j = z - 1
        BY <4>1, <4>2
      <4>4. QED
        BY <3>5, <4>3 DEF z
    <3>7. QED
      BY <3>5, <3>6
  <2>3. QED
    BY <2>1, <2>2 DEF Ends
<1>9. QED
  BY <1>2, <1>7, <1>8

\* Where the block with number t of lane l is.
Spot(D, l, t) == l * D + (t % D)

\* Block b of segment r is computed at place `at`.
IsBlock(n, m, r, b, at) ==
  r \in Nat /\ b \in Skip(m, r) .. (n - 1) /\ b \in Nat /\ IsPlaceOf(m, r, at) /\ at.block = b

Timed(n, m, D, r, b, at) ==
  LET p == at.pass
      x == n * at.slice
      t == Time(n, m, r, b)
  IN /\ x \in Nat /\ x <= 3 * n /\ D * p \in Nat /\ n * (r \div m) = D * p + x
     /\ t = D * p + (x + b) /\ x + b \in 0 .. (D - 1) /\ t % D = x + b
     /\ t \in Nat /\ t >= 2 /\ (b = 0 /\ at.slice = 0 <=> t % D = 0)

LEMMA TimeIs ==
  ASSUME NEW config, NEW n, NEW m, NEW D, Sizes(config, n, m, D),
         NEW r, NEW b, NEW at, IsBlock(n, m, r, b, at)
  PROVE  Timed(n, m, D, r, b, at)
<1> DEFINE p == at.pass
           e == at.slice
           s == r \div m
           x == n * e
           y == D * p
           t == Time(n, m, r, b)
<1>1. n \in Nat /\ n >= 2 /\ m \in Nat \ {0} /\ D \in Nat \ {0} /\ D = 4 * n
  BY DEF Sizes
<1>2. /\ p \in Nat /\ e \in 0 .. 3 /\ s \in Nat /\ s = 4 * p + e /\ (r < m <=> p = 0 /\ e = 0)
      /\ b \in Nat /\ b <= n - 1 /\ (r < m => b >= 2)
  <2>1. p \in Nat /\ e \in 0 .. 3 /\ s \in Nat /\ s = 4 * p + e /\ (r < m <=> p = 0 /\ e = 0)
    BY DEF IsBlock, IsPlaceOf
  <2>2. b \in Nat /\ b \in Skip(m, r) .. (n - 1) /\ r \in Nat
    BY DEF IsBlock
  <2>3. b <= n - 1 /\ (r < m => b >= 2)
    BY <1>1, <2>2 DEF Skip
  <2>4. QED
    BY <2>1, <2>2, <2>3
<1> HIDE DEF p, e, s
<1>3. x \in Nat /\ x <= 3 * n /\ (e = 0 => x = 0) /\ (e # 0 => x >= n)
  <2>1. n * 3 = n * e + n * (3 - e) /\ n * e \in Nat /\ n * (3 - e) \in Nat
    BY <1>1, <1>2, Further
  <2>2. e # 0 => n * e = n + n * (e - 1) /\ n * (e - 1) \in Nat
    BY <1>1, <1>2
  <2>3. e = 0 => n * e = 0
    BY <1>1
  <2> DEFINE u == n * (3 - e)
             v == n * (e - 1)
  <2>4. n * 3 = x + u /\ x \in Nat /\ u \in Nat /\ (e # 0 => x = n + v /\ v \in Nat) /\ (e = 0 => x = 0)
    BY <2>1, <2>2, <2>3
  <2> HIDE DEF x, u, v
  <2>5. QED
    BY <1>1, <2>4
<1>4. y \in Nat /\ (p # 0 => y >= D)
  <2>1. p # 0 => D * p = D + D * (p - 1) /\ D * (p - 1) \in Nat
    BY <1>1, <1>2
  <2> DEFINE u == D * (p - 1)
  <2>2. y \in Nat /\ (p # 0 => y = D + u /\ u \in Nat)
    BY <1>1, <1>2, <2>1
  <2> HIDE DEF y, u
  <2>3. QED
    BY <1>1, <2>2
<1>5. n * s = y + x
  <2>1. n * (4 * p + e) = n * (4 * p) + n * e
    BY <1>1, <1>2, Distribute
  <2>2. n * (4 * p) = (4 * n) * p
    BY <1>1, <1>2
  <2>3. QED
    BY <1>1, <1>2, <2>1, <2>2
<1>6. t = n * s + b
  BY DEF Time, s
<1>7. (x + b) \in 0 .. (D - 1) /\ t = y + (x + b)
  <2> DEFINE z == n * s
  <2>1. z = y + x /\ t = z + b
    BY <1>5, <1>6
  <2> HIDE DEF x, y, z, t
  <2>2. QED
    BY <1>1, <1>2, <1>3, <1>4, <2>1
<1>8. t % D = x + b
  <2> DEFINE z == x + b
  <2>1. z \in 0 .. (D - 1) /\ t = D * p + z
    BY <1>7
  <2> HIDE DEF z, t
  <2>2. (D * p + z) % D = z
    <3>1. p \in Int /\ D \in Nat \ {0} /\ z \in 0 .. (D - 1)
      BY <1>1, <1>2, <2>1
    <3>2. QED
      BY <3>1, Division
  <2>3. t % D = z
    BY <2>1, <2>2
  <2>4. QED
    BY <2>3 DEF z
<1>9. t \in Nat /\ t >= 2 /\ (b = 0 /\ e = 0 <=> x + b = 0)
  <2> HIDE DEF x, y, t
  <2>1. CASE r < m
    BY <1>1, <1>2, <1>3, <1>4, <1>7, <2>1
  <2>2. CASE ~(r < m)
    BY <1>1, <1>2, <1>3, <1>4, <1>7, <2>2
  <2>3. QED
    BY <2>1, <2>2
<1> HIDE DEF x, y, t
<1>10. QED
  BY <1>3, <1>4, <1>5, <1>7, <1>8, <1>9 DEF Timed, x, y, t, p, e, s

LEMMA CurrentIs ==
  ASSUME NEW config, NEW n, NEW m, NEW D, Sizes(config, n, m, D),
         NEW r, NEW b, NEW at, IsBlock(n, m, r, b, at)
  PROVE  /\ current(config, at) = Spot(D, r % m, Time(n, m, r, b))
         /\ previous(config, at) = Spot(D, r % m, Time(n, m, r, b) - 1)
<1> DEFINE t == Time(n, m, r, b)
           x == n * at.slice
           l == r % m
           z == l * D
<1>1. n = segment_size(config) /\ n \in Nat /\ m \in Nat \ {0} /\ D = lane_size(config) /\ D \in Nat \ {0}
  BY DEF Sizes
<1>2. at.segment = l /\ at.block = b /\ l \in Nat /\ b \in Nat /\ at.slice \in Nat
  BY <1>1 DEF IsBlock, IsPlaceOf
<1>3. x \in Nat /\ t % D = x + b /\ t \in Nat /\ t >= 2 /\ (b = 0 /\ at.slice = 0 <=> t % D = 0)
  BY TimeIs DEF Timed
<1>4. z \in Nat
  BY <1>1, <1>2
<1>5. current(config, at) = z + x + b
  <2>1. current(config, at) = at.segment * lane_size(config) + at.slice * segment_size(config) + at.block
    BY DEF current
  <2>2. at.slice * n = x
    BY <1>1, <1>2
  <2> HIDE DEF x, z, l
  <2>3. QED
    BY <1>1, <1>2, <2>1, <2>2 DEF z
<1> HIDE DEF t, x, l
<1>6. Spot(D, l, t) = z + (t % D) /\ Spot(D, l, t - 1) = z + ((t - 1) % D)
  BY DEF Spot
<1> HIDE DEF z
<1>7. current(config, at) = Spot(D, l, t)
  BY <1>2, <1>3, <1>4, <1>5, <1>6
<1>8. (t - 1) % D = IF t % D = 0 THEN D - 1 ELSE (t % D) - 1
  <2> DEFINE u == t - 1
  <2>1. u \in Int /\ u + 1 = t
    BY <1>3
  <2> HIDE DEF u
  <2>2. u % D \in 0 .. (D - 1) /\ (u + 1) % D = IF u % D = D - 1 THEN 0 ELSE (u % D) + 1
    BY <1>1, <2>1, ModStep
  <2> DEFINE v == u % D
             w == t % D
  <2>3. v \in 0 .. (D - 1) /\ w = IF v = D - 1 THEN 0 ELSE v + 1
    BY <2>1, <2>2
  <2> HIDE DEF v, w
  <2>4. v = IF w = 0 THEN D - 1 ELSE w - 1
    BY <1>1, <2>3
  <2>5. QED
    BY <2>4 DEF v, w, u
<1>9. previous(config, at) = Spot(D, l, t - 1)
  <2>1. previous(config, at) = IF b = 0 /\ at.slice = 0 THEN current(config, at) + D - 1
                               ELSE current(config, at) - 1
    BY <1>1, <1>2 DEF previous
  <2> DEFINE v == (t - 1) % D
             w == t % D
             c == current(config, at)
  <2>2. /\ v = IF w = 0 THEN D - 1 ELSE w - 1
        /\ w \in Nat /\ c = z + w /\ (b = 0 /\ at.slice = 0 <=> w = 0)
    BY <1>2, <1>3, <1>6, <1>7, <1>8
  <2>3. previous(config, at) = IF b = 0 /\ at.slice = 0 THEN c + D - 1 ELSE c - 1
    BY <2>1
  <2>4. Spot(D, l, t - 1) = z + v
    BY <1>6
  <2> HIDE DEF v, w, c
  <2>5. QED
    BY <1>1, <1>4, <2>2, <2>3, <2>4
<1>10. QED
  BY <1>7, <1>9 DEF l, t

\* Two spots are the same when the lanes are and the numbers differ by whole rounds; and
\* what slice and block a spot is in.
LEMMA SpotIs ==
  ASSUME NEW D \in Nat \ {0}, NEW l \in Nat, NEW t \in Nat
  PROVE  Spot(D, l, t) \in Nat /\ Spot(D, l, t) \div D = l /\ Spot(D, l, t) % D = t % D
<1> DEFINE w == t % D
<1>1. w \in 0 .. (D - 1)
  OBVIOUS
<1> HIDE DEF w
<1>2. (D * l + w) \div D = l /\ (D * l + w) % D = w
  BY <1>1, Division
<1>3. D * l + w = Spot(D, l, t)
  <2>1. D * l = l * D /\ l * D \in Nat
    OBVIOUS
  <2>2. QED
    BY <2>1 DEF Spot, w
<1>4. D * l + w \in Nat
  BY <1>1
<1>5. QED
  BY <1>2, <1>3, <1>4 DEF w

LEMMA SpotsApart ==
  ASSUME NEW D \in Nat \ {0}, NEW l \in Nat, NEW k \in Nat, NEW t \in Nat, NEW u \in Nat,
         u < t, t - u < D
  PROVE  Spot(D, l, u) # Spot(D, k, t)
<1>1. Spot(D, l, u) % D = u % D /\ Spot(D, k, t) % D = t % D
  BY SpotIs
<1>2. u % D # t % D
  <2>1. ASSUME u % D = t % D
        PROVE  u = t
    <3>1. u <= t
      OBVIOUS
    <3>2. QED
      BY <2>1, <3>1, Apart
  <2>2. QED
    BY <2>1
<1>3. QED
  BY <1>1, <1>2

LEMMA SpotPlace ==
  ASSUME NEW n \in Nat \ {0}, NEW s \in Nat, NEW b \in 0 .. (n - 1)
  PROVE  ((n * s + b) % (4 * n)) \div n = s % 4 /\ ((n * s + b) % (4 * n)) % n = b
<1> DEFINE p == s \div 4
           e == s % 4
           x == n * e + b
           D == 4 * n
           t == n * s + b
<1>1. p \in Nat /\ e \in 0 .. 3 /\ s = 4 * p + e
  OBVIOUS
<1> HIDE DEF p, e
<1>2. x \in 0 .. (D - 1)
  <2>1. n * 3 = n * e + n * (3 - e) /\ n * e \in Nat /\ n * (3 - e) \in Nat
    BY <1>1, Further
  <2> DEFINE u == n * e
             v == n * (3 - e)
  <2>2. n * 3 = u + v /\ u \in Nat /\ v \in Nat
    BY <2>1
  <2> HIDE DEF u, v
  <2>3. u + b \in 0 .. (4 * n - 1)
    BY <2>2
  <2>4. QED
    BY <2>3 DEF u
<1>3. t = D * p + x
  <2>1. n * (4 * p + e) = n * (4 * p) + n * e
    BY <1>1, Distribute
  <2>2. n * (4 * p) = (4 * n) * p /\ n * e \in Nat /\ n * (4 * p) \in Nat
    BY <1>1
  <2> DEFINE u == n * (4 * p)
             v == n * e
             w == n * s
             y == (4 * n) * p
  <2>3. w = u + v /\ u = y /\ v \in Nat /\ u \in Nat
    BY <1>1, <2>1, <2>2
  <2> HIDE DEF u, v, w, y
  <2>4. w + b = y + (v + b)
    BY <2>3
  <2>5. QED
    BY <2>4 DEF w, y, v
<1>4. D \in Nat \ {0}
  OBVIOUS
<1>5. t % D = x
  <2> HIDE DEF D, x, t
  <2>1. QED
    BY <1>1, <1>2, <1>3, <1>4, Division
<1>6. x \div n = e /\ x % n = b
  BY <1>1, Division
<1> HIDE DEF x, t, D
<1>7. (t % D) \div n = e /\ (t % D) % n = b
  BY <1>5, <1>6
<1>8. QED
  BY <1>7 DEF t, D, e

\* A number times a fraction of S is smaller.
LEMMA Fraction ==
  ASSUME NEW S \in Nat \ {0}, NEW a \in Nat, NEW b \in 0 .. (S - 1)
  PROVE  /\ (a * b) \div S \in Nat
         /\ a >= 1 => (a * b) \div S <= a - 1
         /\ a = 0 => (a * b) \div S = 0
<1> DEFINE x == a * b
           q == x \div S
<1>1. x \in Nat
  OBVIOUS
<1>2. q \in Nat /\ x % S \in 0 .. (S - 1) /\ x = S * q + (x % S)
  <2> HIDE DEF x
  <2>1. QED
    BY <1>1, Divided
<1>3. a >= 1 => q <= a - 1
  <2>1. SUFFICES ASSUME a >= 1, q >= a
                 PROVE  FALSE
    BY <1>2
  <2>2. S * q = S * a + S * (q - a) /\ S * a \in Nat /\ S * (q - a) \in Nat
    <3> HIDE DEF q
    <3>1. QED
      BY <1>2, <2>1, Further
  <2>3. a * S = a * b + a * (S - b) /\ a * (S - b) \in Nat /\ S * a = a * S
    <3>1. S \in Nat /\ b \in Nat /\ b <= S
      OBVIOUS
    <3>2. a * S = a * b + a * (S - b) /\ a * (S - b) \in Nat
      BY <3>1, Further
    <3>3. QED
      BY <3>2
  <2>4. a * (S - b) >= 1
    <3> DEFINE u == S - b
    <3>1. u \in Nat /\ u >= 1
      OBVIOUS
    <3> HIDE DEF u
    <3>2. a * u >= 1
      <4>1. a * u = a + a * (u - 1) /\ a * (u - 1) \in Nat
        BY <3>1
      <4>2. QED
        BY <2>1, <4>1
    <3>3. QED
      BY <3>2 DEF u
  <2> DEFINE g == S * q
             h == S * a
             i == S * (q - a)
             j == a * (S - b)
             k == x % S
  <2>5. g = h + i /\ h = x + j /\ j >= 1 /\ i \in Nat /\ j \in Nat /\ x = g + k /\ k \in Nat
    BY <1>2, <2>2, <2>3, <2>4
  <2> HIDE DEF g, h, i, j, k, x
  <2>6. QED
    BY <1>1, <2>5
<1>4. a = 0 => q = 0
  <2>1. a = 0 => x = 0
    OBVIOUS
  <2>2. 0 \div S = 0
    <3>1. (S * 0 + 0) \div S = 0
      BY Division
    <3>2. S * 0 + 0 = 0
      OBVIOUS
    <3>3. QED
      BY <3>1, <3>2
  <2> HIDE DEF x
  <2>3. QED
    BY <2>1, <2>2
<1>5. QED
  BY <1>2, <1>3, <1>4

\* The members of an interval can be counted.
IntervalHas(f, n, z, W) ==
  /\ Cardinality(W) = n
  /\ (CHOOSE t \in W : Cardinality({u \in W : u < t}) = z) = f + z

LEMMA ChosenIs ==
  ASSUME NEW f \in Int, NEW n \in Nat, NEW z \in 0 .. (n - 1), NEW W, W = f .. (f + n - 1)
  PROVE  IntervalHas(f, n, z, W)
<1>1. Cardinality(W) = n
  <2> DEFINE g == f + n - 1
  <2>1. g \in Int /\ (f > g <=> n = 0) /\ g - f + 1 = n
    OBVIOUS
  <2>2. Cardinality(f .. g) = IF f > g THEN 0 ELSE g - f + 1
    <3> HIDE DEF g
    <3>1. QED
      BY <2>1, FS_Interval
  <2>3. QED
    BY <2>1, <2>2
<1>2. ASSUME NEW t \in W
      PROVE  Cardinality({u \in W : u < t}) = t - f
  <2>1. {u \in W : u < t} = f .. (t - 1)
    OBVIOUS
  <2> DEFINE g == t - 1
  <2>2. g \in Int /\ (f > g <=> t = f) /\ g - f + 1 = t - f /\ t \in Int
    OBVIOUS
  <2>3. Cardinality(f .. g) = IF f > g THEN 0 ELSE g - f + 1
    <3> HIDE DEF g
    <3>1. QED
      BY <2>2, FS_Interval
  <2> HIDE DEF g
  <2>4. Cardinality(f .. g) = t - f
    BY <2>2, <2>3
  <2>5. QED
    BY <2>1, <2>4 DEF g
<1>3. f + z \in W
  OBVIOUS
<1>4. \A t \in W : (Cardinality({u \in W : u < t}) = z) <=> t = f + z
  <2>1. \A t \in W : t \in Int /\ (t - f = z <=> t = f + z)
    OBVIOUS
  <2>2. QED
    BY <1>2, <2>1
<1>5. (CHOOSE t \in W : Cardinality({u \in W : u < t}) = z) = f + z
  BY <1>3, <1>4
<1>6. QED
  BY Zenon, <1>1, <1>5 DEF IntervalHas

\* Seeds as words hold them.
IsSeed(seed) == seed.low \in 0 .. (Seed32 - 1) /\ seed.high \in Nat

LEMMA LaneIs ==
  ASSUME NEW config, NEW n, NEW m, NEW D, Sizes(config, n, m, D),
         NEW r, NEW b, NEW at, IsBlock(n, m, r, b, at), NEW seed, IsSeed(seed)
  PROVE  /\ lane(config, at, seed) \in 0 .. (m - 1)
         /\ r < m => lane(config, at, seed) = at.segment
<1>1. m = config.nb_lanes /\ m \in Nat \ {0} /\ seed.high \in Nat
  BY DEF Sizes, IsSeed
<1>2. at.segment \in 0 .. (m - 1) /\ (r < m <=> at.pass = 0 /\ at.slice = 0)
  BY DEF IsBlock, IsPlaceOf
<1>3. seed.high % m \in 0 .. (m - 1)
  BY <1>1, Divided
<1>4. QED
  BY <1>1, <1>2, <1>3 DEF lane

\* The blocks a block may refer to: a window of the last slices and of its own segment.
FullSlices(n, at) == IF at.pass = 0 THEN n * at.slice ELSE 3 * n
Partly(at, own) == IF own THEN at.block - 1 ELSE IF at.block = 0 THEN -1 ELSE 0
Start(n, at) == 4 * n * at.pass + n * at.slice
WindowAt(n, at, own) ==
  {t \in (Start(n, at) - 3 * n) .. (Start(n, at) + at.block - 2) :
     t >= 0 /\ (~own => t < Start(n, at) - (IF at.block = 0 THEN 1 ELSE 0))}

Windowed(n, m, D, r, b, at, own) ==
  LET start == Start(n, at)
      from  == start - FullSlices(n, at)
      size  == FullSlices(n, at) + Partly(at, own)
  IN /\ start = n * (r \div m) /\ start \in Nat /\ from \in Nat /\ size \in 1 .. (D - 1)
     /\ WindowAt(n, at, own) = from .. (from + size - 1)
     /\ Time(n, m, r, b) = start + b /\ from + size - 1 <= start + b - 2
     /\ (start + b) - from < D /\ (~own => from + size - 1 < start)

LEMMA RunWindowIs ==
  ASSUME NEW config, NEW n, NEW m, NEW D, Sizes(config, n, m, D),
         NEW r, NEW b, NEW at, IsBlock(n, m, r, b, at), NEW own \in BOOLEAN, r < m => own
  PROVE  Windowed(n, m, D, r, b, at, own)
<1> DEFINE start == Start(n, at)
           k == FullSlices(n, at)
           e == Partly(at, own)
           p == at.pass
           x == n * at.slice
           y == D * p
<1>1. n \in Nat /\ n >= 2 /\ D = 4 * n /\ m \in Nat \ {0}
  BY DEF Sizes
<1>2. /\ x \in Nat /\ x <= 3 * n /\ y \in Nat /\ n * (r \div m) = y + x
      /\ Time(n, m, r, b) = y + (x + b)
  BY TimeIs DEF Timed
<1>3. /\ at.block = b /\ b \in Nat /\ b <= n - 1 /\ p \in Nat /\ at.slice \in 0 .. 3
      /\ (p = 0 /\ at.slice = 0 => own /\ b >= 2)
  <2>1. /\ at.block = b /\ b \in Nat /\ b \in Skip(m, r) .. (n - 1) /\ r \in Nat
        /\ p \in Nat /\ at.slice \in 0 .. 3 /\ (r < m <=> p = 0 /\ at.slice = 0)
    BY DEF IsBlock, IsPlaceOf
  <2>2. b <= n - 1 /\ (r < m => b >= 2)
    BY <1>1, <2>1 DEF Skip
  <2>3. QED
    BY <2>1, <2>2
<1>4. start = y + x
  BY <1>1, <1>3 DEF Start
<1>5. k = (IF p = 0 THEN x ELSE 3 * n) /\ e = IF own THEN b - 1 ELSE IF b = 0 THEN -1 ELSE 0
  BY <1>3 DEF FullSlices, Partly
<1>6. (p = 0 => y = 0) /\ (p # 0 => y >= D)
  <2>1. p # 0 => D * p = D + D * (p - 1) /\ D * (p - 1) \in Nat
    BY <1>1, <1>3
  <2>2. p = 0 => D * p = 0
    BY <1>1
  <2> DEFINE u == D * (p - 1)
  <2>3. p # 0 => y = D + u /\ u \in Nat
    BY <2>1
  <2> HIDE DEF u, y
  <2>4. QED
    BY <1>1, <2>2, <2>3 DEF y
<1>7. at.slice # 0 => x >= n
  <2>1. at.slice # 0 => n * at.slice = n + n * (at.slice - 1) /\ n * (at.slice - 1) \in Nat
    <3> DEFINE i == at.slice
    <3>1. i \in 0 .. 3
      BY <1>3
    <3> HIDE DEF i
    <3>2. i # 0 => n * i = n + n * (i - 1) /\ n * (i - 1) \in Nat
      BY <1>1, <3>1
    <3>3. QED
      BY <3>2 DEF i
  <2> DEFINE u == n * (at.slice - 1)
  <2>2. at.slice # 0 => x = n + u /\ u \in Nat
    BY <2>1
  <2> HIDE DEF u, x
  <2>3. QED
    BY <1>1, <2>2
<1>8. WindowAt(n, at, own) = {t \in (start - 3 * n) .. (start + b - 2) :
                              t >= 0 /\ (~own => t < start - (IF b = 0 THEN 1 ELSE 0))}
  BY <1>3 DEF WindowAt
<1> HIDE DEF start, k, e, x, y, p
<1> DEFINE from == start - k
           size == k + e
<1>9. from \in Nat /\ start \in Nat /\ k \in Nat /\ k <= 3 * n /\ e \in Int /\ e <= b - 1 /\ (~own => e <= 0)
  <2>1. CASE p = 0
    BY <1>1, <1>2, <1>3, <1>4, <1>5, <1>6, <1>7, <2>1
  <2>2. CASE p # 0
    BY <1>1, <1>2, <1>3, <1>4, <1>5, <1>6, <2>2
  <2>3. QED
    BY <2>1, <2>2
<1>10. size >= 1
  <2>1. CASE p = 0 /\ at.slice = 0
    BY <1>1, <1>2, <1>3, <1>5, <1>9, <2>1
  <2>2. CASE p = 0 /\ at.slice # 0
    BY <1>1, <1>2, <1>3, <1>5, <1>7, <1>9, <2>2
  <2>3. CASE p # 0
    BY <1>1, <1>2, <1>3, <1>5, <1>9, <2>3
  <2>4. QED
    BY <2>1, <2>2, <2>3
<1>11. size \in 1 .. (D - 1)
  BY <1>1, <1>3, <1>9, <1>10
<1>12. from + size - 1 = start + e - 1
  BY <1>9
<1>13. WindowAt(n, at, own) = from .. (from + size - 1)
  <2>1. from = IF start - 3 * n >= 0 THEN start - 3 * n ELSE 0
    <3>1. CASE p = 0
      BY <1>1, <1>2, <1>4, <1>5, <1>6, <3>1
    <3>2. CASE p # 0
      BY <1>1, <1>2, <1>4, <1>5, <1>6, <3>2
    <3>3. QED
      BY <3>1, <3>2
  <2>2. ASSUME NEW t \in Int
        PROVE  t \in WindowAt(n, at, own) <=> t \in from .. (start + e - 1)
    <3> HIDE DEF from
    <3>1. CASE own
      BY <1>1, <1>3, <1>5, <1>8, <1>9, <2>1, <3>1
    <3>2. CASE ~own
      BY <1>1, <1>3, <1>5, <1>8, <1>9, <2>1, <3>2
    <3>3. QED
      BY <3>1, <3>2
  <2>3. (\A t \in WindowAt(n, at, own) : t \in Int) /\ \A t \in from .. (start + e - 1) : t \in Int
    BY <1>8, <1>9
  <2> HIDE DEF from, size
  <2>4. QED
    BY <1>12, <2>2, <2>3
<1>14. (start + b) - from < D
  BY <1>1, <1>3, <1>9
<1>15. Time(n, m, r, b) = start + b /\ start = n * (r \div m)
  BY <1>2, <1>3, <1>4
<1>16. from + size - 1 <= start + b - 2 /\ (~own => from + size - 1 < start)
  BY <1>3, <1>9, <1>12
<1> HIDE DEF from, size
<1>17. QED
  BY <1>9, <1>11, <1>13, <1>14, <1>15, <1>16 DEF Windowed, from, size, start, k, e

\* window_size is the window's size, and the window starts where the code says, give or
\* take whole rounds of the lane.
LEMMA WindowSizeIs ==
  ASSUME NEW config, NEW n, NEW m, NEW D, Sizes(config, n, m, D),
         NEW r, NEW b, NEW at, IsBlock(n, m, r, b, at), NEW seed, IsSeed(seed),
         NEW own, own = (lane(config, at, seed) = at.segment)
  PROVE  window_size(config, at, seed) = FullSlices(n, at) + Partly(at, own)
<1> DEFINE k == FullSlices(n, at)
           e == Partly(at, own)
           size == k + e
<1>1. n = segment_size(config) /\ n \in Nat /\ D <= Seed32 /\ D \in Nat \ {0} /\ Seed32 \in Nat \ {0}
  BY Argon2Assumption DEF Sizes
<1>2. own \in BOOLEAN /\ (r < m => own)
  BY LaneIs
<1>3. size \in 1 .. (D - 1)
  BY <1>2, RunWindowIs DEF Windowed
<1>4. at.pass \in Nat /\ at.slice \in 0 .. 3 /\ at.block \in Nat
  BY DEF IsBlock, IsPlaceOf
<1>5. k = (IF at.pass = 0 THEN at.slice ELSE 3) * n
  <2>1. n * at.slice = at.slice * n
    BY <1>1, <1>4
  <2>2. QED
    BY <2>1 DEF FullSlices
<1>6. window_size(config, at, seed) =
        (k + (IF own THEN at.block - 1 ELSE IF at.block = 0 THEN Seed32 - 1 ELSE 0)) % Seed32
  BY <1>1, <1>5 DEF window_size
<1>7. e = (IF own THEN at.block - 1 ELSE IF at.block = 0 THEN -1 ELSE 0) /\ k \in Int
  <2>1. n * at.slice \in Int /\ 3 * n \in Int
    BY <1>1, <1>4
  <2>2. QED
    BY <2>1 DEF Partly, FullSlices
<1> HIDE DEF k, e
<1>8. CASE own \/ at.block # 0
  <2>1. window_size(config, at, seed) = size % Seed32
    BY <1>6, <1>7, <1>8
  <2>2. size \in 0 .. (Seed32 - 1)
    BY <1>1, <1>3
  <2> HIDE DEF size
  <2>3. size % Seed32 = size
    BY <1>1, <2>2, Remainders
  <2>4. QED
    BY <2>1, <2>3 DEF size, k, e
<1>9. CASE ~own /\ at.block = 0
  <2>1. k + (Seed32 - 1) = Seed32 * 1 + size
    BY <1>1, <1>7, <1>9
  <2>2. window_size(config, at, seed) = (k + (Seed32 - 1)) % Seed32
    BY <1>6, <1>9
  <2>3. size \in 0 .. (Seed32 - 1) /\ 1 \in Int
    BY <1>1, <1>3
  <2> HIDE DEF size
  <2>4. (Seed32 * 1 + size) % Seed32 = size
    BY <1>1, <2>3, Division
  <2>5. QED
    BY <2>1, <2>2, <2>4 DEF size, k, e
<1>10. QED
  BY <1>2, <1>8, <1>9

\* Where the code's window starts in its lane.
window_start(n, at) == IF at.pass = 0 THEN 0 ELSE ((at.slice + 1) % 4) * n

LEMMA WindowStartIs ==
  ASSUME NEW config, NEW n, NEW m, NEW D, Sizes(config, n, m, D),
         NEW r, NEW b, NEW at, IsBlock(n, m, r, b, at)
  PROVE  window_start(n, at) \in Int /\ \E k \in Int : Start(n, at) - FullSlices(n, at) = D * k + window_start(n, at)
<1> DEFINE p == at.pass
           e == at.slice
           x == n * e
           y == D * p
           from == Start(n, at) - FullSlices(n, at)
           w == window_start(n, at)
<1>1. n \in Nat /\ n >= 2 /\ D = 4 * n /\ D \in Nat \ {0}
  BY DEF Sizes
<1>2. p \in Nat /\ e \in 0 .. 3
  BY DEF IsBlock, IsPlaceOf
<1>3. x \in Nat /\ y \in Nat /\ 4 * n * p = y
  BY <1>1, <1>2
<1>4. from = (y + x) - (IF p = 0 THEN x ELSE 3 * n) /\ w = (IF p = 0 THEN 0 ELSE ((e + 1) % 4) * n)
  <2>1. Start(n, at) = 4 * n * p + x
    BY Zenon DEF Start
  <2>2. FullSlices(n, at) = IF p = 0 THEN x ELSE 3 * n
    BY Zenon DEF FullSlices
  <2>3. w = IF p = 0 THEN 0 ELSE ((e + 1) % 4) * n
    BY Zenon DEF window_start
  <2> HIDE DEF x, y, p, w
  <2>4. Start(n, at) = y + x
    BY <1>3, <2>1
  <2>5. Start(n, at) - FullSlices(n, at) = (y + x) - (IF p = 0 THEN x ELSE 3 * n)
    BY <2>2, <2>4
  <2>6. QED
    BY <2>3, <2>5
<1> HIDE DEF p, e, from, w
<1>5. CASE p = 0
  <2>1. y = 0
    BY <1>1, <1>5
  <2>2. from = 0 /\ w = 0
    BY <1>3, <1>4, <1>5, <2>1
  <2>3. D * 0 = 0
    BY <1>1
  <2>4. w \in Int /\ 0 \in Int /\ from = D * 0 + w
    BY <2>2, <2>3
  <2>5. QED
    BY <2>4 DEF from, w
<1>6. CASE p # 0 /\ e = 3
  <2>1. x = 3 * n /\ (e + 1) % 4 = 0
    BY <1>1, <1>6
  <2>2. from = y /\ w = 0
    BY <1>1, <1>3, <1>4, <1>6, <2>1
  <2>3. from = D * p + w /\ p \in Int /\ w \in Int
    BY <1>2, <1>3, <2>2
  <2>4. QED
    BY <2>3 DEF from, w
<1>7. CASE p # 0 /\ e # 3
  <2>1. (e + 1) % 4 = e + 1
    <3>1. e + 1 \in 0 .. (4 - 1) /\ 4 \in Nat \ {0}
      BY <1>2, <1>7
    <3>2. QED
      BY <3>1, Remainders
  <2>2. (e + 1) * n = x + n
    BY <1>1, <1>2
  <2>3. y = D * (p - 1) + D /\ D * (p - 1) \in Int
    BY <1>1, <1>2
  <2> DEFINE u == D * (p - 1)
  <2>4. y = u + D /\ u \in Int /\ w = x + n
    BY <1>4, <1>7, <2>1, <2>2, <2>3
  <2> HIDE DEF x, y, u
  <2>5. from = u + w /\ w \in Int
    BY <1>1, <1>3, <1>4, <1>7, <2>4
  <2>6. p - 1 \in Int
    BY <1>2
  <2>7. QED
    BY <2>5, <2>6 DEF u, from, w
<1>8. QED
  BY <1>5, <1>6, <1>7

\* The block referred to: number c of lane l, for the code and for the RFC, at least two
\* before the one computed, less than a round of the lane before it, and in another lane
\* not of the slice being filled.
RefersTo(config, n, m, D, r, b, at, seed, l, c) ==
  /\ l \in 0 .. (m - 1) /\ c \in Nat
  /\ reference(config, at, seed) = Spot(D, l, c) /\ ReferenceOf(config, at, seed) = Spot(D, l, c)
  /\ c + 2 <= Time(n, m, r, b) /\ Time(n, m, r, b) - c < D
  /\ (l # at.segment => c < n * (r \div m)) /\ n * (r \div m) <= c + 3 * n

\* How far from the end of the window.
Back(size, seed) == (size * ((seed.low * seed.low) \div Seed32)) \div Seed32

LEMMA BackIs ==
  ASSUME NEW size \in Nat, size >= 1, NEW seed, IsSeed(seed)
  PROVE  (size - 1) - Back(size, seed) \in 0 .. (size - 1)
<1> DEFINE a == seed.low
           S == Seed32
           x == (a * a) \div S
           y == (size * x) \div S
<1>1. S \in Nat \ {0} /\ a \in 0 .. (S - 1) /\ a \in Nat
  BY Argon2Assumption DEF IsSeed
<1> HIDE DEF S, a
<1>2. x \in Nat /\ (a >= 1 => x <= a - 1) /\ (a = 0 => x = 0)
  BY <1>1, Fraction
<1>3. x \in 0 .. (S - 1)
  BY <1>1, <1>2
<1> HIDE DEF x
<1>4. y \in Nat /\ y <= size - 1
  BY <1>1, <1>3, Fraction
<1>5. Back(size, seed) = y
  BY DEF Back, y, x, S, a
<1> HIDE DEF y
<1>6. QED
  BY <1>4, <1>5

LEMMA ReferenceIs ==
  ASSUME NEW config, NEW n, NEW m, NEW D, Sizes(config, n, m, D),
         NEW r, NEW b, NEW at, IsBlock(n, m, r, b, at), NEW seed, IsSeed(seed)
  PROVE  \E l, c : RefersTo(config, n, m, D, r, b, at, seed, l, c)
<1> DEFINE l == lane(config, at, seed)
           own == (l = at.segment)
           t == Time(n, m, r, b)
           start == Start(n, at)
           from == start - FullSlices(n, at)
           size == FullSlices(n, at) + Partly(at, own)
           z == (size - 1) - Back(size, seed)
           W == WindowAt(n, at, own)
           c == from + z
           chosen == CHOOSE x \in W : Cardinality({u \in W : u < x}) = z
<1>1. n = segment_size(config) /\ n \in Nat /\ D = 4 * n /\ D \in Nat \ {0} /\ D = lane_size(config) /\ m \in Nat \ {0}
  BY DEF Sizes
<1>2. l \in 0 .. (m - 1) /\ own \in BOOLEAN /\ (r < m => own)
  BY LaneIs
<1>3. Windowed(n, m, D, r, b, at, own)
  BY <1>2, RunWindowIs
<1>4. /\ start = n * (r \div m) /\ start \in Nat /\ from \in Nat /\ size \in 1 .. (D - 1)
      /\ W = from .. (from + size - 1)
      /\ t = start + b /\ from + size - 1 <= start + b - 2
      /\ (start + b) - from < D /\ (~own => from + size - 1 < start)
  BY <1>3 DEF Windowed
<1>5. window_size(config, at, seed) = size
  BY WindowSizeIs
<1>6. z \in 0 .. (size - 1)
  <2>1. size \in Nat /\ size >= 1
    BY <1>1, <1>4
  <2> HIDE DEF size
  <2>2. QED
    BY <2>1, BackIs
<1>7. reference(config, at, seed) = l * D + ((window_start(n, at) + z) % D)
  <2>1. reference(config, at, seed) =
          l * lane_size(config) +
            ((window_start(segment_size(config), at) +
               ((window_size(config, at, seed) - 1) - Back(window_size(config, at, seed), seed)))
             % lane_size(config))
    BY Zenon DEF reference, window_start, Back
  <2> HIDE DEF size, l
  <2>2. QED
    BY <1>1, <1>5, <2>1
<1>8. ReferenceOf(config, at, seed) =
        LET X == WindowAt(segment_size(config), at, l = at.segment)
            g == Cardinality(X) - 1 - Back(Cardinality(X), seed)
        IN 4 * segment_size(config) * l
             + ((CHOOSE u \in X : Cardinality({v \in X : v < u}) = g) % (4 * segment_size(config)))
  BY Zenon DEF ReferenceOf, WindowAt, Start, Back, lane
<1>18. start <= from + 3 * n
  <2>1. at.pass # 0 => FullSlices(n, at) = 3 * n
    BY DEF FullSlices
  <2>2. at.pass = 0 => FullSlices(n, at) = n * at.slice
    BY DEF FullSlices
  <2>3. n * at.slice \in Nat /\ n * at.slice <= 3 * n
    BY TimeIs DEF Timed
  <2> DEFINE w == FullSlices(n, at)
             y == n * at.slice
  <2>4. w \in Nat /\ w <= 3 * n
    <3> HIDE DEF w, y
    <3>1. (w = 3 * n \/ w = y) /\ y \in Nat /\ y <= 3 * n
      BY <2>1, <2>2, <2>3 DEF w, y
    <3>2. QED
      BY <1>1, <3>1
  <2>5. from = start - w
    OBVIOUS
  <2> HIDE DEF w, start, from
  <2>6. QED
    BY SMTT(60), <1>1, <1>4, <2>4, <2>5
<1> HIDE DEF start, size, W, from, z
<1>9. IntervalHas(from, size, z, W)
  <2>1. from \in Int /\ size \in Nat
    BY <1>1, <1>4
  <2>2. z \in 0 .. (size - 1) /\ W = from .. (from + size - 1)
    BY <1>4, <1>6
  <2>3. QED
    BY <2>1, <2>2, ChosenIs
<1>10. Cardinality(W) = size /\ chosen = c
  BY Zenon, <1>9 DEF IntervalHas, chosen, c
<1>11. ReferenceOf(config, at, seed) = 4 * n * l + (chosen % (4 * n))
  <2>1. W = WindowAt(segment_size(config), at, l = at.segment)
    BY <1>1 DEF W
  <2> HIDE DEF l
  <2>2. ReferenceOf(config, at, seed) =
          4 * n * l
            + ((CHOOSE u \in W : Cardinality({v \in W : v < u}) = Cardinality(W) - 1 - Back(Cardinality(W), seed))
               % (4 * n))
    BY <1>1, <1>8, <2>1
  <2>3. Cardinality(W) - 1 - Back(Cardinality(W), seed) = z
    BY <1>10 DEF z
  <2>4. QED
    BY <2>2, <2>3
<1> HIDE DEF chosen
<1>12. c \in Nat /\ c <= from + size - 1 /\ c >= from
  BY <1>1, <1>4, <1>6
<1>13. ReferenceOf(config, at, seed) = Spot(D, l, c)
  <2> HIDE DEF c, l
  <2>1. l \in Int /\ 4 * n * l = l * D
    BY <1>1, <1>2
  <2>2. QED
    BY <1>1, <1>10, <1>11, <2>1 DEF Spot
<1>14. reference(config, at, seed) = Spot(D, l, c)
  <2>1. PICK k \in Int : from = D * k + window_start(n, at)
    BY WindowStartIs DEF from, start
  <2> DEFINE x == window_start(n, at) + z
             u == D * k
  <2> HIDE DEF z
  <2>5. window_start(n, at) \in Int
    BY WindowStartIs
  <2>6. z \in Int
    BY <1>4, <1>6
  <2>7. u \in Int
    BY <1>1, <2>1
  <2>2. window_start(n, at) \in Int /\ x \in Int /\ u \in Int
    <3>1. \A i, j \in Int : i + j \in Int
      OBVIOUS
    <3>2. QED
      BY <2>5, <2>6, <2>7, <3>1
  <2>3. c = u + x
    <3> HIDE DEF u
    <3>1. z \in Int /\ from = u + window_start(n, at)
      BY <1>1, <1>4, <1>6, <2>1 DEF u
    <3>2. QED
      BY <2>2, <3>1
  <2> HIDE DEF x, c
  <2>4. c % D = x % D
    BY <1>1, <2>2, <2>3, Shifted
  <2>8. QED
    BY <1>7, <2>4 DEF Spot, x
<1>15. /\ c + 2 <= t /\ t - c < D /\ (l # at.segment => c < n * (r \div m))
       /\ n * (r \div m) <= c + 3 * n
  <2>1. own <=> l = at.segment
    OBVIOUS
  <2>2. b \in Nat
    BY DEF IsBlock
  <2> DEFINE x == n * (r \div m)
  <2>3. start = x
    BY <1>4
  <2> HIDE DEF own, c, t, l, x
  <2>4. c + 2 <= t /\ t - c < D
    <3>1. t = start + b /\ start \in Nat /\ from \in Nat /\ size \in Nat /\ D \in Nat
      BY <1>1, <1>4
    <3>2. from + size - 1 <= start + b - 2 /\ (start + b) - from < D
      BY <1>4
    <3>3. QED
      BY <1>12, <2>2, <3>1, <3>2
  <2>5. l # at.segment => c < x
    BY SMTT(60), <1>1, <1>4, <1>12, <2>1, <2>3
  <2>6. x <= c + 3 * n
    <3>1. start \in Nat /\ from \in Nat /\ n \in Nat
      BY <1>1, <1>4
    <3>2. start = x /\ start <= from + 3 * n /\ c \in Nat /\ c >= from
      BY <1>12, <1>18, <2>3
    <3> HIDE DEF start, from
    <3>3. QED
      BY <3>1, <3>2
  <2>7. QED
    BY <2>4, <2>5, <2>6 DEF x
<1> HIDE DEF l, c, t
<1>16. RefersTo(config, n, m, D, r, b, at, seed, l, c)
  BY <1>2, <1>12, <1>13, <1>14, <1>15 DEF RefersTo, t
<1>17. QED
  BY <1>16

\* The block referred to is neither the one computed nor the one before.
LEMMA ReferenceApart ==
  ASSUME NEW config, NEW n, NEW m, NEW D, Sizes(config, n, m, D),
         NEW r, NEW b, NEW at, IsBlock(n, m, r, b, at), NEW seed,
         NEW l, NEW c, RefersTo(config, n, m, D, r, b, at, seed, l, c)
  PROVE  reference(config, at, seed) \notin {current(config, at), previous(config, at)}
<1> DEFINE t == Time(n, m, r, b)
           k == r % m
<1>1. D \in Nat \ {0} /\ m \in Nat \ {0} /\ r \in Nat
  BY DEF Sizes, IsBlock
<1>2. k \in Nat
  BY <1>1, Divided
<1>3. t \in Nat
  BY TimeIs DEF Timed
<1>4. l \in Nat /\ c \in Nat /\ c + 2 <= t /\ t - c < D /\ reference(config, at, seed) = Spot(D, l, c)
  BY <1>1 DEF RefersTo
<1>5. current(config, at) = Spot(D, k, t) /\ previous(config, at) = Spot(D, k, t - 1)
  BY CurrentIs
<1> HIDE DEF t, k
<1>6. Spot(D, l, c) # Spot(D, k, t)
  <2>1. c < t
    BY <1>3, <1>4
  <2>2. QED
    BY <1>1, <1>2, <1>3, <1>4, <2>1, SpotsApart
<1>7. Spot(D, l, c) # Spot(D, k, t - 1)
  <2> DEFINE u == t - 1
  <2>1. u \in Nat /\ c < u /\ u - c < D
    BY <1>1, <1>3, <1>4
  <2> HIDE DEF u
  <2>2. Spot(D, l, c) # Spot(D, k, u)
    BY <1>1, <1>2, <1>4, <2>1, SpotsApart
  <2>3. QED
    BY <2>2 DEF u
<1>8. QED
  BY <1>4, <1>5, <1>6, <1>7

LEMMA TimesGrows ==
  ASSUME NEW n \in Nat, NEW s \in Nat, NEW q \in Nat, NEW k \in Nat, s + k <= q
  PROVE  n * s \in Nat /\ n * q \in Nat /\ n * k \in Nat /\ n * s + n * k <= n * q
<1> DEFINE x == n * s
           y == n * k
           z == n * ((q - s) - k)
           w == n * q
<1>1. (q - s) - k \in Nat
  OBVIOUS
<1>2. x \in Nat /\ y \in Nat /\ z \in Nat /\ w \in Nat
  BY <1>1
<1>3. w = x + n * (q - s)
  BY Further
<1>4. n * (q - s) = y + z
  <2>1. q - s \in Nat /\ k <= q - s
    OBVIOUS
  <2>2. QED
    BY <2>1, Further
<1> HIDE DEF x, y, z, w
<1>5. x + y <= w
  BY <1>2, <1>3, <1>4
<1>6. QED
  BY <1>2, <1>5 DEF x, y, w

\* Within the last three slices, what is in the same slice is in this one.
LEMMA SameSlice ==
  ASSUME NEW n \in Nat \ {0}, NEW q \in Nat, NEW s \in Nat, NEW b \in 0 .. (n - 1), NEW a \in 0 .. (n - 1),
         q % 4 = s % 4, (n * s + a) + 2 <= n * q + b, n * q <= (n * s + a) + 3 * n
  PROVE  s = q /\ a < b
<1> DEFINE x == n * s
           y == n * q
<1>1. x \in Nat /\ y \in Nat /\ (x + a) + 2 <= y + b /\ y <= (x + a) + 3 * n
  OBVIOUS
<1>2. ~ q < s
  <2>1. q < s => y + n * 1 <= x
    BY TimesGrows
  <2> HIDE DEF x, y
  <2>2. QED
    BY <1>1, <2>1
<1>3. ~ s < q
  <2>1. s < q => s + 4 <= q
    OBVIOUS
  <2>2. s + 4 <= q => x + n * 4 <= y
    BY TimesGrows
  <2> HIDE DEF x, y
  <2>3. QED
    BY <1>1, <2>1, <2>2
<1>4. s = q
  BY <1>2, <1>3
<1>5. x = y
  BY <1>4
<1> HIDE DEF x, y
<1>6. QED
  BY <1>1, <1>4, <1>5

LEMMA SpotPlaced ==
  ASSUME NEW config, NEW n, NEW m, NEW D, Sizes(config, n, m, D),
         NEW l \in Nat, NEW s \in Nat, NEW b \in 0 .. (n - 1), NEW c, c = n * s + b
  PROVE  Place(config, Spot(D, l, c)) = [lane |-> l, slice |-> s % 4, block |-> b]
<1> DEFINE y == c % D
<1>1. n \in Nat \ {0} /\ D = 4 * n /\ D \in Nat \ {0} /\ D = lane_size(config) /\ n = segment_size(config)
  BY DEF Sizes
<1>2. c \in Nat
  BY <1>1
<1>3. Spot(D, l, c) \div D = l /\ Spot(D, l, c) % D = y
  BY <1>1, <1>2, SpotIs, ZenonT(60)
<1>4. y \div n = s % 4 /\ y % n = b
  <2>1. y = (n * s + b) % (4 * n)
    BY <1>1
  <2>2. ((n * s + b) % (4 * n)) \div n = s % 4 /\ ((n * s + b) % (4 * n)) % n = b
    BY <1>1, SpotPlace, ZenonT(60)
  <2> HIDE DEF y
  <2>3. QED
    BY <2>1, <2>2
<1>5. Spot(D, l, c) % n = b
  <2>1. y \in Int /\ 4 * l \in Int
    BY <1>1, <1>2, Divided
  <2> HIDE DEF y
  <2>2. (n * (4 * l) + y) % n = y % n
    BY <1>1, <2>1, Shifted
  <2>3. l * D = n * (4 * l)
    BY <1>1
  <2>4. Spot(D, l, c) = l * D + y
    BY DEF Spot, y
  <2>5. QED
    BY <1>4, <2>2, <2>3, <2>4
<1> HIDE DEF y
<1>6. Place(config, Spot(D, l, c)) =
        [lane |-> Spot(D, l, c) \div lane_size(config),
         slice |-> (Spot(D, l, c) % lane_size(config)) \div segment_size(config),
         block |-> Spot(D, l, c) % segment_size(config)]
  BY Zenon DEF Place
<1>7. QED
  BY <1>1, <1>3, <1>4, <1>5, <1>6

\* A reference into the slice being filled is to the own lane, and back.
LEMMA ReferenceBack ==
  ASSUME NEW config, NEW n, NEW m, NEW D, Sizes(config, n, m, D),
         NEW r, NEW b, NEW at, IsBlock(n, m, r, b, at), NEW seed,
         NEW l, NEW c, RefersTo(config, n, m, D, r, b, at, seed, l, c),
         Place(config, reference(config, at, seed)).slice = at.slice
  PROVE  /\ Place(config, reference(config, at, seed)).lane = at.segment
         /\ Place(config, reference(config, at, seed)).block < at.block
<1> DEFINE s == c \div n
           a == c % n
           q == r \div m
           x == n * q
           place == Place(config, reference(config, at, seed))
<1>1. n \in Nat \ {0} /\ m \in Nat \ {0} /\ r \in Nat /\ at.block = b /\ b \in 0 .. (n - 1)
  BY DEF Sizes, IsBlock
<1>2. /\ l \in Nat /\ c \in Nat /\ c + 2 <= Time(n, m, r, b) /\ reference(config, at, seed) = Spot(D, l, c)
      /\ (l # at.segment => c < x) /\ x <= c + 3 * n
  BY <1>1 DEF RefersTo
<1>3. s \in Nat /\ a \in 0 .. (n - 1) /\ c = n * s + a
  BY <1>1, <1>2, Divided
<1>4. q \in Nat /\ q % 4 = at.slice
  <2>1. q \in Nat /\ q = 4 * at.pass + at.slice /\ at.pass \in Nat /\ at.slice \in 0 .. 3
    BY DEF IsBlock, IsPlaceOf
  <2> HIDE DEF q
  <2>2. QED
    BY <2>1
<1>5. Time(n, m, r, b) = x + b
  BY DEF Time
<1> HIDE DEF s, a, q
<1>6. place = [lane |-> l, slice |-> s % 4, block |-> a]
  <2>1. l \in Nat /\ s \in Nat /\ a \in 0 .. (n - 1) /\ c = n * s + a
    BY <1>2, <1>3
  <2>2. Place(config, Spot(D, l, c)) = [lane |-> l, slice |-> s % 4, block |-> a]
    BY SMTT(60), <2>1, SpotPlaced
  <2>3. QED
    BY <1>2, <2>2
<1>7. q % 4 = s % 4
  BY <1>4, <1>6
<1>8. (n * s + a) + 2 <= n * q + b /\ n * q <= (n * s + a) + 3 * n
  BY <1>2, <1>3, <1>5
<1>9. s = q /\ a < b
  BY <1>1, <1>3, <1>4, <1>7, <1>8, SameSlice
<1>10. ~ c < x
  <2>1. c = x + a /\ x \in Nat
    BY <1>1, <1>3, <1>4, <1>9
  <2> HIDE DEF x
  <2>2. QED
    BY <1>3, <2>1
<1>11. QED
  BY <1>1, <1>2, <1>6, <1>9, <1>10

\* In a lane the steps are in the order of the blocks' numbers.
LEMMA TimeOrders ==
  ASSUME NEW n \in Nat, n >= 2, NEW m \in Nat \ {0},
         NEW r, NEW b, NEW at, IsBlock(n, m, r, b, at),
         NEW k, NEW c, NEW there, IsBlock(n, m, k, c, there), r % m = k % m
  PROVE  /\ Time(n, m, r, b) < Time(n, m, k, c) => Nth(n, m, r, b) < Nth(n, m, k, c)
         /\ Time(n, m, r, b) = Time(n, m, k, c) => r = k /\ b = c
<1>1. /\ r \in Nat /\ b \in Skip(m, r) .. (n - 1) /\ b \in 0 .. (n - 1)
      /\ k \in Nat /\ c \in Skip(m, k) .. (n - 1) /\ c \in 0 .. (n - 1)
  BY DEF IsBlock
<1>2. n \in Nat \ {0}
  OBVIOUS
<1>3. Time(n, m, r, b) < Time(n, m, k, c) => r < k \/ (r = k /\ b < c)
  BY <1>1, <1>2, LaneInOrder
<1>4. r < k \/ (r = k /\ b < c) => Nth(n, m, r, b) < Nth(n, m, k, c)
  BY <1>1, NthGrows
<1>5. ASSUME Time(n, m, r, b) = Time(n, m, k, c)
      PROVE  r = k /\ b = c
  <2> DEFINE s == r \div m
             u == k \div m
  <2>1. s \in Nat /\ u \in Nat /\ r = m * s + (r % m) /\ k = m * u + (k % m)
    BY <1>1, Divided
  <2>2. n * s + b = n * u + c
    BY <1>5 DEF Time
  <2> HIDE DEF s, u
  <2>3. s \in Int /\ u \in Int
    BY <2>1
  <2>4. (n * s + b) \div n = s /\ (n * s + b) % n = b
    BY <1>1, <1>2, <2>3, Division
  <2>5. (n * u + c) \div n = u /\ (n * u + c) % n = c
    BY <1>1, <1>2, <2>3, Division
  <2>6. s = u /\ b = c
    BY <2>2, <2>4, <2>5
  <2>7. QED
    BY <2>1, <2>6
<1>6. QED
  BY <1>3, <1>4, <1>5

\* Which step computes the block with number c of lane l.
BlockOf(n, m, l, c, k, a) ==
  /\ IsBlock(n, m, k, a, PlaceOf(m, k, a))
  /\ k % m = l /\ k \div m = c \div n /\ Time(n, m, k, a) = c

LEMMA BlockFor ==
  ASSUME NEW n \in Nat, n >= 2, NEW m \in Nat \ {0}, NEW l \in 0 .. (m - 1), NEW c \in Nat, c >= 2
  PROVE  \E k, a : BlockOf(n, m, l, c, k, a)
<1> DEFINE s == c \div n
           a == c % n
           k == m * s + l
<1>1. n \in Nat \ {0}
  OBVIOUS
<1>2. s \in Nat /\ a \in 0 .. (n - 1) /\ c = n * s + a
  BY <1>1, Divided
<1> HIDE DEF s, a
<1>3. s \in Int
  BY <1>2
<1>4. k \div m = s /\ k % m = l
  BY <1>3, Division
<1>5. k \in Nat
  BY <1>2
<1>6. s = 0 => a >= 2
  BY <1>2
<1>7. k < m => s = 0
  <2>1. s >= 1 => m * 0 + m * 1 <= m * s
    BY <1>2, TimesGrows
  <2> DEFINE x == m * s
  <2>2. s >= 1 => m <= x
    BY <2>1
  <2>3. x \in Nat
    BY <1>2
  <2> HIDE DEF x
  <2>4. x + l < m => ~ s >= 1
    BY <2>2, <2>3
  <2>5. QED
    BY <1>2, <2>4 DEF x
<1>8. a \in Skip(m, k) .. (n - 1) /\ a \in Nat
  <2> HIDE DEF k
  <2>1. QED
    BY <1>2, <1>6, <1>7 DEF Skip
<1> HIDE DEF k
<1>9. IsPlaceOf(m, k, PlaceOf(m, k, a)) /\ PlaceOf(m, k, a).block = a
  BY <1>5, BlockPlaceIs
<1>10. Time(n, m, k, a) = c
  BY <1>2, <1>4 DEF Time
<1>11. IsBlock(n, m, k, a, PlaceOf(m, k, a))
  BY <1>5, <1>8, <1>9 DEF IsBlock
<1>12. BlockOf(n, m, l, c, k, a)
  BY <1>4, <1>10, <1>11 DEF BlockOf, s
<1>13. QED
  BY <1>12

\* Step i computes block b of segment r.
IsStep(config, n, m, r, b, i) ==
  /\ r \in 0 .. (Segments(config) - 1) /\ i = Nth(n, m, r, b) /\ i \in 1 .. Len(Places(config))
  /\ Places(config)[i] = PlaceOf(m, r, b) /\ IsBlock(n, m, r, b, PlaceOf(m, r, b))

LEMMA StepFor ==
  ASSUME NEW config, NEW n \in Nat, n >= 2, NEW m \in Nat \ {0}, Numbered(config, n, m),
         NEW k \in 0 .. (Segments(config) - 1), NEW a, IsBlock(n, m, k, a, PlaceOf(m, k, a))
  PROVE  IsStep(config, n, m, k, a, Nth(n, m, k, a))
<1> DEFINE g == Segments(config)
           i == Nth(n, m, k, a)
<1>1. g \in Nat /\ Len(Places(config)) = Until(n, m, g)
  BY DEF Numbered
<1>2. a \in Skip(m, k) .. (n - 1) /\ k \in Nat
  BY DEF IsBlock
<1>3. Places(config)[i] = PlaceOf(m, k, a)
  BY <1>2 DEF Numbered
<1>4. i \in 1 .. Until(n, m, g)
  <2>1. InOrder(n, m, k, a)
    BY <1>2, NthInOrder
  <2>2. k + 1 \in Nat /\ k + 1 <= g
    BY <1>1, <1>2
  <2>3. Until(n, m, g) \in Nat /\ Until(n, m, k + 1) <= Until(n, m, g)
    BY <1>1, <2>2, UntilGrows
  <2> HIDE DEF g, i
  <2>4. i \in (Until(n, m, k) + 1) .. Until(n, m, k + 1) /\ Until(n, m, k) \in Nat /\ Until(n, m, k + 1) \in Nat
    BY <2>1 DEF InOrder, i
  <2>5. QED
    BY <2>3, <2>4
<1>5. QED
  BY <1>1, <1>3, <1>4 DEF IsStep

LEMMA StepAt ==
  ASSUME NEW config, NEW n \in Nat, n >= 2, NEW m \in Nat \ {0}, Numbered(config, n, m),
         NEW i \in 1 .. Len(Places(config))
  PROVE  \E r, b : IsStep(config, n, m, r, b, i)
<1> DEFINE g == Segments(config)
<1>1. g \in Nat /\ i \in 1 .. Until(n, m, g)
  BY DEF Numbered
<1>2. PICK r \in 0 .. (g - 1) : \E b \in Skip(m, r) .. (n - 1) : i = Nth(n, m, r, b)
  <2> HIDE DEF g
  <2>1. QED
    BY <1>1, NthEvery
<1>3. PICK b \in Skip(m, r) .. (n - 1) : i = Nth(n, m, r, b)
  BY <1>2
<1>4. r \in Nat /\ b \in Nat
  BY <1>1 DEF Skip
<1>5. IsPlaceOf(m, r, PlaceOf(m, r, b)) /\ PlaceOf(m, r, b).block = b
  BY <1>4, BlockPlaceIs
<1>6. IsBlock(n, m, r, b, PlaceOf(m, r, b))
  BY <1>4, <1>5 DEF IsBlock
<1>7. IsStep(config, n, m, r, b, i)
  BY <1>3, <1>6, StepFor
<1>8. QED
  BY <1>7

\* The block referred to is there: one of the first two of its lane, or computed before.
LEMMA ReferenceThere ==
  ASSUME NEW config, NEW n, NEW m, NEW D, Sizes(config, n, m, D), Numbered(config, n, m),
         NEW i, NEW r, NEW b, IsStep(config, n, m, r, b, i), NEW at, at = PlaceOf(m, r, b),
         NEW seed, NEW l, NEW c, RefersTo(config, n, m, D, r, b, at, seed, l, c)
  PROVE  \/ l \in 0 .. (m - 1) /\ c \in 0 .. 1 /\ reference(config, at, seed) = l * D + c
         \/ \E j \in 1 .. (i - 1) : reference(config, at, seed) = current(config, Places(config)[j])
<1> DEFINE q == r \div m
           s == c \div n
<1>1. n \in Nat \ {0} /\ n \in Nat /\ n >= 2 /\ m \in Nat \ {0} /\ D \in Nat \ {0} /\ D = 4 * n
  BY DEF Sizes
<1>2. IsBlock(n, m, r, b, at) /\ i = Nth(n, m, r, b) /\ i \in Nat
  BY DEF IsStep
<1>3. r \in Nat /\ b \in Skip(m, r) .. (n - 1) /\ b \in 0 .. (n - 1) /\ at.segment = r % m
  BY <1>2 DEF IsBlock, IsPlaceOf
<1>4. /\ l \in 0 .. (m - 1) /\ c \in Nat /\ reference(config, at, seed) = Spot(D, l, c)
      /\ c + 2 <= Time(n, m, r, b) /\ (l # r % m => c < n * q)
  BY <1>3 DEF RefersTo
<1>5. CASE c < 2
  <2>1. c \in 0 .. (D - 1)
    BY <1>1, <1>4, <1>5
  <2>2. c % D = c
    BY <1>1, <2>1, Remainders
  <2>3. QED
    BY <1>4, <1>5, <2>2 DEF Spot
<1>6. CASE c >= 2
  <2>1. PICK k, a : BlockOf(n, m, l, c, k, a)
    BY <1>1, <1>4, <1>6, BlockFor
  <2> DEFINE there == PlaceOf(m, k, a)
             j == Nth(n, m, k, a)
  <2>2. IsBlock(n, m, k, a, there) /\ k % m = l /\ k \div m = s /\ Time(n, m, k, a) = c
    BY <2>1 DEF BlockOf
  <2>3. k \in Nat /\ a \in Skip(m, k) .. (n - 1)
    BY <2>2 DEF IsBlock
  <2> HIDE DEF there
  <2>4. j < i
    <3>1. CASE l = r % m
      <4>1. Time(n, m, k, a) < Time(n, m, r, b)
        <5>1. Time(n, m, r, b) \in Nat
          BY <1>2, TimeIs DEF Timed
        <5>2. QED
          BY <1>4, <2>2, <5>1
      <4>2. k % m = r % m
        BY <2>2, <3>1
      <4>3. QED
        BY <1>1, <1>2, <2>2, <4>1, <4>2, TimeOrders
    <3>2. CASE l # r % m
      <4>1. s \in Nat /\ q \in Nat /\ c = n * s + (c % n) /\ c % n \in Nat
        <5>1. q \in Nat
          BY <1>1, <1>3, Divided
        <5>2. s \in Nat /\ c % n \in 0 .. (n - 1) /\ c = n * s + (c % n)
          BY <1>1, <1>4, Divided
        <5>3. c % n \in Nat
          BY <1>1, <5>2
        <5>4. QED
          BY <5>1, <5>2, <5>3
      <4>2. s < q
        <5> HIDE DEF s, q
        <5>1. q <= s => n * q <= n * s /\ n * s \in Nat
          <6>1. q <= s => n * q + n * 0 <= n * s
            BY <1>1, <4>1, TimesGrows
          <6>2. n * q \in Nat /\ n * s \in Nat /\ n * 0 = 0
            BY <1>1, <4>1
          <6> DEFINE x == n * q
                     y == n * s
          <6> HIDE DEF x, y
          <6>3. q <= s => x + 0 <= y /\ x \in Nat /\ y \in Nat
            BY <6>1, <6>2 DEF x, y
          <6>4. q <= s => x <= y /\ y \in Nat
            BY <6>3
          <6>5. QED
            BY <6>4 DEF x, y
        <5> DEFINE x == n * q
                   y == n * s
        <5>2. c < x /\ c = y + (c % n) /\ x \in Nat /\ y \in Nat
          BY <1>1, <1>4, <3>2, <4>1
        <5>3. q <= s => x <= y
          BY <5>1
        <5> HIDE DEF x, y
        <5>4. QED
          BY <4>1, <5>2, <5>3
      <4>3. k \div m < r \div m
        BY <2>2, <4>2
      <4>4. k < r
        <5>1. a \in 0 .. (n - 1)
          BY <2>2 DEF IsBlock
        <5>2. QED
          BY <1>1, <1>3, <2>3, <4>3, <5>1, LaneInOrder
      <4>5. QED
        BY <1>1, <1>2, <1>3, <2>3, <4>4, NthGrows
    <3>3. QED
      BY <3>1, <3>2
  <2>5. k \in 0 .. (Segments(config) - 1)
    <3>1. r \in 0 .. (Segments(config) - 1) /\ Segments(config) \in Nat
      BY DEF IsStep, Numbered
    <3>2. ~ r < k
      <4>1. r < k => i < j
        BY <1>1, <1>2, <1>3, <2>3, NthGrows
      <4>2. j \in Nat
        <5>1. InOrder(n, m, k, a)
          BY <1>1, <2>3, NthInOrder
        <5>2. QED
          BY <5>1 DEF InOrder
      <4> HIDE DEF j
      <4>3. QED
        BY <1>2, <2>4, <4>1, <4>2
    <3>3. QED
      BY <1>3, <2>3, <3>1, <3>2
  <2>6. IsStep(config, n, m, k, a, j)
    BY <1>1, <2>2, <2>5, StepFor DEF there
  <2>7. Places(config)[j] = there /\ j \in 1 .. Len(Places(config))
    BY <2>6 DEF IsStep, there
  <2>8. current(config, there) = Spot(D, l, c)
    BY <2>2, CurrentIs
  <2>9. j \in 1 .. (i - 1)
    BY <1>2, <2>4, <2>7
  <2>10. QED
    BY <1>4, <2>7, <2>8, <2>9
<1>7. QED
  BY <1>4, <1>5, <1>6

\* What the lane computed before.
Before(config, at, i) == {j \in 1 .. (i - 1) : Places(config)[j].segment = at.segment}

Latest(S) == CHOOSE j \in S : \A i \in S : i <= j

\* `previous` is what the lane computed last.
LEMMA PreviousThere ==
  ASSUME NEW config, NEW n, NEW m, NEW D, Sizes(config, n, m, D), Numbered(config, n, m),
         NEW i, NEW r, NEW b, IsStep(config, n, m, r, b, i), NEW at, at = PlaceOf(m, r, b)
  PROVE  /\ previous(config, at) =
              IF Before(config, at, i) = {} THEN at.segment * D + 1
              ELSE current(config, Places(config)[Latest(Before(config, at, i))])
         /\ Before(config, at, i) # {} => Latest(Before(config, at, i)) \in Before(config, at, i)
<1> DEFINE l == r % m
           t == Time(n, m, r, b)
           before == Before(config, at, i)
<1>1. n \in Nat /\ n >= 2 /\ m \in Nat \ {0} /\ D \in Nat \ {0} /\ D = 4 * n
  BY DEF Sizes
<1>2. IsBlock(n, m, r, b, at) /\ i = Nth(n, m, r, b) /\ i \in Nat /\ i \in 1 .. Len(Places(config))
  BY DEF IsStep
<1>3. r \in Nat /\ b \in Skip(m, r) .. (n - 1) /\ at.segment = l /\ l \in 0 .. (m - 1)
  BY <1>2 DEF IsBlock, IsPlaceOf
<1>4. t \in Nat /\ t >= 2
  BY <1>2, TimeIs DEF Timed
<1>5. previous(config, at) = Spot(D, l, t - 1)
  BY <1>2, CurrentIs
<1>14. Len(Places(config)) \in Nat
  BY DEF Numbered
<1> HIDE DEF before
\* The steps of the lane before this one.
<1>6. ASSUME NEW j \in before
      PROVE  j \in 1 .. (i - 1) /\ \E k, a : /\ IsStep(config, n, m, k, a, j) /\ k % m = l
                                             /\ Time(n, m, k, a) \in Nat /\ Time(n, m, k, a) >= 2
                                             /\ Time(n, m, k, a) < t
  <2>1. j \in 1 .. (i - 1) /\ Places(config)[j].segment = l
    BY <1>3 DEF before, Before
  <2>2. j \in 1 .. Len(Places(config))
    BY <1>2, <1>14, <2>1
  <2>3. PICK k, a : IsStep(config, n, m, k, a, j)
    BY <1>1, <2>2, StepAt
  <2> DEFINE there == PlaceOf(m, k, a)
             u == Time(n, m, k, a)
  <2>4. IsBlock(n, m, k, a, there) /\ j = Nth(n, m, k, a) /\ Places(config)[j] = there
    BY <2>3 DEF IsStep
  <2> HIDE DEF there
  <2>5. k % m = l
    BY <2>1, <2>4 DEF IsBlock, IsPlaceOf
  <2>6. u \in Nat /\ u >= 2
    BY <2>4, TimeIs DEF Timed
  <2>7. t < u => i < j
    BY <1>1, <1>2, <2>4, <2>5, TimeOrders
  <2>8. t = u => i = j
    <3>1. t = u => r = k /\ b = a
      BY <1>1, <1>2, <2>4, <2>5, TimeOrders
    <3>2. QED
      BY <1>2, <2>4, <3>1
  <2> HIDE DEF u, t
  <2>9. u < t
    BY <1>2, <1>4, <2>1, <2>6, <2>7, <2>8
  <2>10. QED
    BY <2>1, <2>3, <2>5, <2>6, <2>9 DEF u
<1>7. CASE t = 2
  <2>1. \A x \in Nat : ~ (x >= 2 /\ x < 2)
    OBVIOUS
  <2> HIDE DEF t
  <2>2. before = {}
    BY <1>6, <1>7, <2>1
  <2>3. t - 1 = 1 /\ 1 \in 0 .. (D - 1)
    BY <1>1, <1>7
  <2>4. 1 % D = 1
    BY <1>1, <2>3, Remainders
  <2>5. Spot(D, l, t - 1) = l * D + 1
    BY <2>3, <2>4 DEF Spot
  <2>6. QED
    BY <1>3, <1>5, <2>2, <2>5 DEF before
<1>8. CASE t > 2
  <2> DEFINE c == t - 1
  <2>1. c \in Nat /\ c >= 2 /\ c < t
    BY <1>4, <1>8
  <2> HIDE DEF c
  <2>2. PICK k, a : BlockOf(n, m, l, c, k, a)
    BY <1>1, <1>3, <2>1, BlockFor
  <2> DEFINE there == PlaceOf(m, k, a)
             j == Nth(n, m, k, a)
  <2>3. IsBlock(n, m, k, a, there) /\ k % m = l /\ Time(n, m, k, a) = c
    BY <2>2 DEF BlockOf
  <2>4. k \in Nat /\ a \in Skip(m, k) .. (n - 1) /\ there.segment = l
    BY <2>3 DEF IsBlock, IsPlaceOf
  <2> HIDE DEF there
  <2>5. j < i
    BY <1>1, <1>2, <2>1, <2>3, TimeOrders
  <2>6. k \in 0 .. (Segments(config) - 1)
    <3>1. r \in 0 .. (Segments(config) - 1) /\ Segments(config) \in Nat
      BY DEF IsStep, Numbered
    <3>2. ~ r < k
      <4>1. r < k => i < j
        BY <1>1, <1>2, <1>3, <2>4, NthGrows
      <4>2. j \in Nat
        <5>1. InOrder(n, m, k, a)
          BY <1>1, <2>4, NthInOrder
        <5>2. QED
          BY <5>1 DEF InOrder
      <4> HIDE DEF j
      <4>3. QED
        BY <1>2, <2>5, <4>1, <4>2
    <3>3. QED
      BY <1>3, <2>4, <3>1, <3>2
  <2>7. IsStep(config, n, m, k, a, j)
    BY <1>1, <2>3, <2>6, StepFor DEF there
  <2>8. Places(config)[j] = there /\ j \in 1 .. Len(Places(config))
    BY <2>7 DEF IsStep, there
  <2>9. j \in before
    <3>1. j \in 1 .. (i - 1)
      BY <1>2, <2>5, <2>8
    <3>2. QED
      BY <1>3, <2>4, <2>8, <3>1 DEF before, Before
  <2>10. current(config, there) = Spot(D, l, c)
    BY <2>3, CurrentIs
  <2>11. ASSUME NEW u \in before
         PROVE  u <= j
    <3>1. PICK x, y : /\ IsStep(config, n, m, x, y, u) /\ x % m = l
                      /\ Time(n, m, x, y) \in Nat /\ Time(n, m, x, y) < t
      BY <1>6
    <3>2. IsBlock(n, m, x, y, PlaceOf(m, x, y)) /\ u = Nth(n, m, x, y) /\ u \in Nat
      BY <3>1 DEF IsStep
    <3>3. Time(n, m, x, y) < Time(n, m, k, a) => u < j
      BY <1>1, <2>3, <3>1, <3>2, TimeOrders
    <3>4. Time(n, m, x, y) = Time(n, m, k, a) => u = j
      <4>1. Time(n, m, x, y) = Time(n, m, k, a) => x = k /\ y = a
        BY <1>1, <2>3, <3>1, <3>2, TimeOrders
      <4>2. QED
        BY <3>2, <4>1
    <3> DEFINE z == Time(n, m, x, y)
    <3>5. z < c \/ z = c
      <4>1. z \in Nat /\ z < t
        BY <3>1
      <4> HIDE DEF z, t
      <4>2. QED
        BY <1>4, <4>1 DEF c
    <3>6. j \in Nat
      BY <1>14, <2>8
    <3> HIDE DEF j
    <3>7. QED
      BY <2>3, <3>2, <3>3, <3>4, <3>5, <3>6
  <2>12. Latest(before) = j
    <3>1. before \subseteq Nat
      BY <1>6
    <3> HIDE DEF j
    <3>2. \A v \in before : (\A u \in before : u <= v) => v = j
      BY <2>9, <2>11, <3>1
    <3>3. (CHOOSE v \in before : \A u \in before : u <= v) = j
      BY <2>9, <2>11, <3>2
    <3>4. QED
      BY Zenon, <3>3 DEF Latest
  <2>13. before # {}
    BY <2>9
  <2>14. previous(config, at) = current(config, Places(config)[Latest(before)])
    BY <1>5, <2>8, <2>10, <2>12 DEF c
  <2>15. QED
    BY Zenon, <2>9, <2>12, <2>13, <2>14 DEF before
<1>9. QED
  BY <1>4, <1>7, <1>8

\* Every word of a block of indices is used once.
LEMMA SeedsApart ==
  ASSUME NEW config, NEW n, NEW m, NEW D, Sizes(config, n, m, D),
         NEW r, NEW b, NEW at, IsBlock(n, m, r, b, at),
         NEW k, NEW c, NEW there, IsBlock(n, m, k, c, there),
         index_seed(config, at).from = "indices", index_seed(config, at) = index_seed(config, there)
  PROVE  r = k /\ b = c
<1>1. m \in Nat \ {0} /\ IndexWords \in Nat \ {0}
  BY Argon2Assumption DEF Sizes
<1>2. /\ r \in Nat /\ r \div m = 4 * at.pass + at.slice /\ at.segment = r % m
      /\ at.block = b /\ b \in Nat /\ b >= Skip(m, r) /\ pass_offset(at) = Skip(m, r)
  BY DEF IsBlock, IsPlaceOf, Skip
<1>3. /\ k \in Nat /\ k \div m = 4 * there.pass + there.slice /\ there.segment = k % m
      /\ there.block = c /\ c \in Nat /\ c >= Skip(m, k) /\ pass_offset(there) = Skip(m, k)
  BY DEF IsBlock, IsPlaceOf, Skip
<1>4. Skip(m, r) \in {0, 2} /\ Skip(m, k) \in {0, 2}
  BY DEF Skip
<1>5. ASSUME NEW x, index_seed(config, x).from = "indices"
      PROVE  index_seed(config, x) =
               [from |-> "indices", pass |-> x.pass, segment |-> x.segment, slice |-> x.slice,
                ctr |-> index_ctr(x), word |-> x.block % IndexWords]
  BY <1>5 DEF index_seed
<1>6. index_ctr(at) = (b \div IndexWords) + 1
  BY <1>2, <1>4, CtrIs
<1>7. index_ctr(there) = (c \div IndexWords) + 1
  BY <1>3, <1>4, CtrIs
<1> DEFINE seed(x) == [from |-> "indices", pass |-> x.pass, segment |-> x.segment, slice |-> x.slice,
                       ctr |-> index_ctr(x), word |-> x.block % IndexWords]
<1>8. seed(at) = seed(there)
  BY <1>5
<1>9. seed(at).pass = seed(there).pass /\ seed(at).segment = seed(there).segment
      /\ seed(at).slice = seed(there).slice /\ seed(at).ctr = seed(there).ctr
      /\ seed(at).word = seed(there).word
  BY <1>8
<1>10. at.pass = there.pass /\ at.segment = there.segment /\ at.slice = there.slice
       /\ index_ctr(at) = index_ctr(there) /\ b % IndexWords = c % IndexWords
  BY <1>2, <1>3, <1>9
<1>11. r = k
  <2>1. r = m * (r \div m) + (r % m) /\ k = m * (k \div m) + (k % m)
    BY <1>1, <1>2, <1>3, Divided
  <2>2. r \div m = k \div m /\ r % m = k % m
    BY <1>2, <1>3, <1>10
  <2>3. QED
    BY <2>1, <2>2
<1>12. b = c
  <2> DEFINE x == b \div IndexWords
             y == c \div IndexWords
  <2>1. x \in Nat /\ b = IndexWords * x + (b % IndexWords)
    BY <1>1, <1>2, Divided
  <2>2. y \in Nat /\ c = IndexWords * y + (c % IndexWords)
    BY <1>1, <1>3, Divided
  <2> HIDE DEF x, y
  <2>3. x = y
    BY <1>6, <1>7, <1>10, <2>1, <2>2 DEF x, y
  <2>4. QED
    BY <1>10, <2>1, <2>2, <2>3
<1>13. QED
  BY <1>11, <1>12

\* How many steps there are.
LEMMA StepsAre ==
  ASSUME NEW config, IsConfig(config), NEW n, NEW m, NEW D, Sizes(config, n, m, D), Numbered(config, n, m)
  PROVE  Len(Places(config)) + 2 * config.nb_lanes = lane_size(config) * config.nb_lanes * config.nb_passes
<1> DEFINE Q == config.nb_passes
           g == Segments(config)
           z == m * Q
<1>1. /\ n \in Nat /\ m \in Nat \ {0} /\ D \in Nat /\ D = 4 * n /\ m = config.nb_lanes
      /\ D = lane_size(config) /\ Q \in Nat \ {0}
  BY DEF Sizes, IsConfig
<1>2. g = 4 * m * Q
  BY <1>1 DEF Segments
<1> HIDE DEF Q, g
<1>3. z \in Nat /\ z >= m /\ 4 * m * Q = 4 * z
  <2>1. m * 0 + m * 1 <= m * Q
    BY <1>1, TimesGrows
  <2>2. m * 0 = 0 /\ m * 1 = m /\ z \in Nat /\ 4 * m * Q = 4 * z
    BY <1>1
  <2> HIDE DEF z
  <2>3. 0 + m <= z
    BY <2>1, <2>2 DEF z
  <2>4. QED
    BY <1>1, <2>2, <2>3
<1>4. D * m * Q = n * (4 * z)
  <2>1. D * m * Q = D * z /\ (4 * n) * z = n * (4 * z)
    BY <1>1
  <2>2. QED
    BY <1>1, <2>1
<1> HIDE DEF z
<1>5. Smaller(g, m) = m
  BY <1>1, <1>2, <1>3 DEF Smaller
<1>6. Len(Places(config)) = n * g - 2 * m
  BY <1>5 DEF Numbered, Until, g
<1>7. n * g = D * m * Q /\ n * g \in Nat
  BY <1>1, <1>2, <1>3, <1>4
<1> DEFINE x == n * g
           y == D * m * Q
<1>8. Len(Places(config)) = x - 2 * m /\ x = y /\ x \in Nat
  BY <1>6, <1>7
<1> HIDE DEF x, y
<1>9. Len(Places(config)) + 2 * m = y
  BY <1>1, <1>8
<1>10. QED
  BY <1>1, <1>9 DEF y, Q

\* A run of crypto_argon2, step by step.
RunOf(config, seed, result) ==
  /\ result.first = {l * lane_size(config) + i : l \in 0 .. config.nb_lanes - 1, i \in 0 .. 1}
  /\ result.last = LastBlocks(config)
  /\ DOMAIN result.steps = 1 .. Len(Places(config)) /\ Len(result.steps) = Len(Places(config))
  /\ \A k \in 1 .. Len(Places(config)) : result.steps[k] = Step(config, Places(config)[k], seed)

LEMMA RunIs ==
  ASSUME NEW config, NEW seed, IsText(Places(config)), NEW result, result = crypto_argon2(config, seed)
  PROVE  RunOf(config, seed, result)
<1> DEFINE places == Places(config)
           steps == [k \in DOMAIN places |-> Step(config, places[k], seed)]
           first == {l * lane_size(config) + i : l \in 0 .. config.nb_lanes - 1, i \in 0 .. 1}
<1>1. Len(places) \in Nat /\ DOMAIN places = 1 .. Len(places)
  BY TextIs
<1>2. result = [first |-> first, steps |-> steps, last |-> LastBlocks(config)]
  <2>1. crypto_argon2(config, seed) = [first |-> first, steps |-> steps, last |-> LastBlocks(config)]
    BY DEF crypto_argon2
  <2>2. QED
    BY <2>1
<1> HIDE DEF first, places
<1>3. result.first = first /\ result.steps = steps /\ result.last = LastBlocks(config)
  BY <1>2
<1>4. DOMAIN steps = 1 .. Len(places) /\ \A k \in 1 .. Len(places) : steps[k] = Step(config, places[k], seed)
  BY <1>1
<1> HIDE DEF steps
<1>5. Len(steps) = Len(places)
  <2>1. steps = [k \in 1 .. Len(places) |-> steps[k]]
    BY <1>1 DEF steps
  <2>2. QED
    BY <1>1, <2>1, TextFrom
<1>6. QED
  BY <1>3, <1>4, <1>5 DEF RunOf, first, places

\* A step of it.
StepFields(config, seed, step, at) ==
  /\ step.at = at /\ step.current = current(config, at) /\ step.previous = previous(config, at)
  /\ step.reference = reference(config, at, seed) /\ step.seed = index_seed(config, at)

LEMMA StepIs ==
  ASSUME NEW config, NEW seed, NEW at
  PROVE  StepFields(config, seed, Step(config, at, seed), at)
BY DEF StepFields, Step

Computes(config, seed, result, n, m, k, r, b) ==
  /\ IsStep(config, n, m, r, b, k) /\ IsBlock(n, m, r, b, Places(config)[k])
  /\ Places(config)[k] = PlaceOf(m, r, b)
  /\ StepFields(config, seed, result.steps[k], Places(config)[k])

LEMMA TakenIs ==
  ASSUME NEW config, NEW seed, NEW result, RunOf(config, seed, result),
         NEW n \in Nat, n >= 2, NEW m \in Nat \ {0}, Numbered(config, n, m),
         NEW k \in 1 .. Len(Places(config))
  PROVE  \E r, b : Computes(config, seed, result, n, m, k, r, b)
<1>1. PICK r, b : IsStep(config, n, m, r, b, k)
  BY StepAt
<1>2. IsBlock(n, m, r, b, Places(config)[k]) /\ Places(config)[k] = PlaceOf(m, r, b)
  BY <1>1 DEF IsStep
<1>3. StepFields(config, seed, result.steps[k], Places(config)[k])
  <2>1. result.steps[k] = Step(config, Places(config)[k], seed)
    BY DEF RunOf
  <2>2. QED
    BY <2>1, StepIs
<1>4. Computes(config, seed, result, n, m, k, r, b)
  BY <1>1, <1>2, <1>3 DEF Computes
<1>5. QED
  BY <1>4

\* What ArgonExact and ReferenceReady say of a run.
ArgonHolds(config, seed, result) ==
  LET steps == result.steps
      seeds == [k \in DOMAIN steps |-> steps[k].seed]
  IN /\ Len(steps) + 2 * config.nb_lanes = lane_size(config) * config.nb_lanes * config.nb_passes
     /\ \A k \in DOMAIN steps :
          /\ steps[k].reference = ReferenceOf(config, steps[k].at, seed)
          /\ seeds[k].from = "indices" => seeds[k].ctr = steps[k].at.block \div IndexWords + 1
     /\ \A k, j \in DOMAIN steps :
          seeds[k].from = "indices" /\ seeds[k] = seeds[j] => k = j
     /\ result.last = {i \in 0 .. lane_size(config) * config.nb_lanes - 1 :
                         (i + 1) % lane_size(config) = 0}

ReadyHolds(config, result) ==
  LET steps == result.steps
  IN \A k \in DOMAIN steps :
       LET step   == steps[k]
           at     == step.at
           before == {j \in 1 .. k - 1 : steps[j].at.segment = at.segment}
           ref    == Place(config, step.reference)
       IN /\ step.reference \in result.first \cup {steps[j].current : j \in 1 .. k - 1}
          /\ step.reference \notin {step.current, step.previous}
          /\ ref.slice = at.slice => ref.lane = at.segment /\ ref.block < at.block
          /\ step.previous = IF before = {} THEN at.segment * lane_size(config) + 1
                             ELSE steps[CHOOSE j \in before : \A i \in before : i <= j].current

LEMMA ArgonIs ==
  ASSUME NEW config, IsConfig(config), NEW seed, IsSeed(seed), NEW result, result = crypto_argon2(config, seed)
  PROVE  ArgonHolds(config, seed, result)
<1> DEFINE n == segment_size(config)
           m == config.nb_lanes
           D == lane_size(config)
           places == Places(config)
           steps == result.steps
           seeds == [k \in DOMAIN steps |-> steps[k].seed]
<1>1. Sizes(config, n, m, D)
  BY SizesAre
<1> HIDE DEF n, m, D
<1>2. n \in Nat /\ n >= 2 /\ m \in Nat \ {0}
  BY <1>1 DEF Sizes
<1>3. Numbered(config, n, m)
  BY <1>1, PlacesAre
<1>4. RunOf(config, seed, result)
  <2>1. IsText(Places(config))
    BY <1>3 DEF Numbered
  <2>2. QED
    BY <2>1, RunIs
<1>5. DOMAIN steps = 1 .. Len(places) /\ Len(steps) = Len(places) /\ result.last = LastBlocks(config)
  BY <1>4 DEF RunOf
<1>6. ASSUME NEW k \in DOMAIN steps
      PROVE  \E r, b : Computes(config, seed, result, n, m, k, r, b)
  <2>1. k \in 1 .. Len(places)
    BY <1>5
  <2>2. QED
    BY <1>2, <1>3, <1>4, <2>1, TakenIs
<1>7. \A k \in DOMAIN steps : seeds[k] = steps[k].seed
  OBVIOUS
<1> HIDE DEF steps, seeds, places
<1>8. Len(steps) + 2 * config.nb_lanes = lane_size(config) * config.nb_lanes * config.nb_passes
  BY <1>1, <1>3, <1>5, StepsAre DEF places
<1>9. ASSUME NEW k \in DOMAIN steps
      PROVE  steps[k].reference = ReferenceOf(config, steps[k].at, seed)
  <2>1. PICK r, b : Computes(config, seed, result, n, m, k, r, b)
    BY <1>6
  <2> DEFINE at == Places(config)[k]
  <2>2. IsBlock(n, m, r, b, at) /\ steps[k].at = at /\ steps[k].reference = reference(config, at, seed)
    BY <2>1 DEF Computes, StepFields, steps
  <2> HIDE DEF at
  <2>3. PICK l, c : RefersTo(config, n, m, D, r, b, at, seed, l, c)
    BY <1>1, <2>2, ReferenceIs
  <2>4. QED
    BY <2>2, <2>3 DEF RefersTo
<1>10. ASSUME NEW k \in DOMAIN steps, seeds[k].from = "indices"
       PROVE  seeds[k].ctr = steps[k].at.block \div IndexWords + 1
  <2>1. PICK r, b : Computes(config, seed, result, n, m, k, r, b)
    BY <1>6
  <2> DEFINE at == Places(config)[k]
  <2>2. IsBlock(n, m, r, b, at) /\ steps[k].at = at /\ steps[k].seed = index_seed(config, at)
    BY <2>1 DEF Computes, StepFields, steps
  <2> HIDE DEF at
  <2>3. index_seed(config, at).from = "indices"
    BY <1>7, <1>10, <2>2
  <2>4. index_seed(config, at).ctr = index_ctr(at)
    BY <2>3 DEF index_seed
  <2>5. Skip(m, r) \in {0, 2} /\ pass_offset(at) = Skip(m, r) /\ at.block \in Nat /\ at.block >= Skip(m, r)
    BY <2>2 DEF IsBlock, IsPlaceOf, Skip
  <2>6. index_ctr(at) = (at.block \div IndexWords) + 1
    BY <2>5, CtrIs
  <2>7. QED
    BY <1>7, <2>2, <2>4, <2>6
<1>11. ASSUME NEW k \in DOMAIN steps, NEW j \in DOMAIN steps, seeds[k].from = "indices", seeds[k] = seeds[j]
       PROVE  k = j
  <2>1. PICK r, b : Computes(config, seed, result, n, m, k, r, b)
    BY <1>6
  <2>2. PICK q, c : Computes(config, seed, result, n, m, j, q, c)
    BY <1>6
  <2> DEFINE at == Places(config)[k]
             there == Places(config)[j]
  <2>3. IsBlock(n, m, r, b, at) /\ steps[k].seed = index_seed(config, at) /\ k = Nth(n, m, r, b)
    BY <2>1 DEF Computes, StepFields, steps, IsStep
  <2>4. IsBlock(n, m, q, c, there) /\ steps[j].seed = index_seed(config, there) /\ j = Nth(n, m, q, c)
    BY <2>2 DEF Computes, StepFields, steps, IsStep
  <2> HIDE DEF at, there
  <2>5. index_seed(config, at).from = "indices" /\ index_seed(config, at) = index_seed(config, there)
    BY <1>7, <1>11, <2>3, <2>4
  <2>6. r = q /\ b = c
    BY <1>1, <2>3, <2>4, <2>5, SeedsApart
  <2>7. QED
    BY <2>3, <2>4, <2>6
<1>12. result.last = {i \in 0 .. D * m - 1 : (i + 1) % D = 0}
  BY <1>1, <1>5, LastBlocksAre
<1>13. QED
  BY Zenon, <1>8, <1>9, <1>10, <1>11, <1>12 DEF ArgonHolds, seeds, steps, D, m

LEMMA ReadyIs ==
  ASSUME NEW config, IsConfig(config), NEW seed, IsSeed(seed), NEW result, result = crypto_argon2(config, seed)
  PROVE  ReadyHolds(config, result)
<1> DEFINE n == segment_size(config)
           m == config.nb_lanes
           D == lane_size(config)
           steps == result.steps
<1>1. Sizes(config, n, m, D)
  BY SizesAre
<1> HIDE DEF n, m, D
<1>2. n \in Nat /\ n >= 2 /\ m \in Nat \ {0} /\ D = lane_size(config) /\ m = config.nb_lanes
  BY <1>1 DEF Sizes
<1>3. Numbered(config, n, m)
  BY <1>1, PlacesAre
<1>4. RunOf(config, seed, result)
  <2>1. IsText(Places(config))
    BY <1>3 DEF Numbered
  <2>2. QED
    BY <2>1, RunIs
<1>5. DOMAIN steps = 1 .. Len(Places(config)) /\ Len(Places(config)) \in Nat
  BY <1>3, <1>4, TextIs DEF RunOf, Numbered
<1>6. ASSUME NEW k \in DOMAIN steps
      PROVE  \E r, b : Computes(config, seed, result, n, m, k, r, b)
  <2>1. k \in 1 .. Len(Places(config))
    BY <1>5
  <2>2. QED
    BY <1>2, <1>3, <1>4, <2>1, TakenIs
<1>7. ASSUME NEW k \in DOMAIN steps
      PROVE  /\ steps[k].at = Places(config)[k] /\ steps[k].current = current(config, Places(config)[k])
             /\ k \in Nat
  BY <1>5, <1>6 DEF Computes, StepFields
<1> HIDE DEF steps
<1>8. ASSUME NEW k \in DOMAIN steps
      PROVE  LET step   == steps[k]
                 at     == step.at
                 before == {j \in 1 .. k - 1 : steps[j].at.segment = at.segment}
                 ref    == Place(config, step.reference)
             IN /\ step.reference \in result.first \cup {steps[j].current : j \in 1 .. k - 1}
                /\ step.reference \notin {step.current, step.previous}
                /\ ref.slice = at.slice => ref.lane = at.segment /\ ref.block < at.block
                /\ step.previous = IF before = {} THEN at.segment * lane_size(config) + 1
                                   ELSE steps[CHOOSE j \in before : \A i \in before : i <= j].current
  <2>1. PICK r, b : Computes(config, seed, result, n, m, k, r, b)
    BY <1>6
  <2> DEFINE at == Places(config)[k]
             step == steps[k]
             before == {j \in 1 .. k - 1 : steps[j].at.segment = at.segment}
  <2>2. /\ IsStep(config, n, m, r, b, k) /\ IsBlock(n, m, r, b, at) /\ at = PlaceOf(m, r, b)
        /\ StepFields(config, seed, step, at)
    BY <2>1 DEF Computes, steps
  <2> HIDE DEF at
  <2>3. PICK l, c : RefersTo(config, n, m, D, r, b, at, seed, l, c)
    BY <1>1, <2>2, ReferenceIs
  <2>4. /\ step.at = at /\ step.current = current(config, at) /\ step.previous = previous(config, at)
        /\ step.reference = reference(config, at, seed)
    BY <2>2 DEF StepFields
  <2> HIDE DEF step
  <2>5. \A j \in 1 .. (k - 1) : j \in DOMAIN steps
    BY <1>5
  <2>6. step.reference \in result.first \cup {steps[j].current : j \in 1 .. k - 1}
    <3>1. \/ l \in 0 .. (m - 1) /\ c \in 0 .. 1 /\ reference(config, at, seed) = l * D + c
          \/ \E j \in 1 .. (k - 1) : reference(config, at, seed) = current(config, Places(config)[j])
      BY <1>1, <1>3, <2>2, <2>3, ReferenceThere
    <3>2. result.first = {x * D + i : x \in 0 .. (m - 1), i \in 0 .. 1}
      BY <1>2, <1>4 DEF RunOf
    <3>3. QED
      BY <1>7, <2>4, <2>5, <3>1, <3>2
  <2>7. step.reference \notin {step.current, step.previous}
    <3>1. reference(config, at, seed) \notin {current(config, at), previous(config, at)}
      BY <1>1, <2>2, <2>3, ReferenceApart
    <3>2. QED
      BY <2>4, <3>1
  <2> DEFINE ref == Place(config, step.reference)
  <2>8. ref.slice = at.slice => ref.lane = at.segment /\ ref.block < at.block
    <3>1. Place(config, reference(config, at, seed)).slice = at.slice =>
            /\ Place(config, reference(config, at, seed)).lane = at.segment
            /\ Place(config, reference(config, at, seed)).block < at.block
      BY <1>1, <2>2, <2>3, ReferenceBack
    <3>2. QED
      BY <2>4, <3>1
  <2>9. before = Before(config, at, k)
    BY <1>7, <2>5 DEF Before
  <2>10. step.previous = IF before = {} THEN at.segment * D + 1
                         ELSE steps[CHOOSE j \in before : \A i \in before : i <= j].current
    <3> DEFINE j == Latest(before)
    <3>1. previous(config, at) =
            IF before = {} THEN at.segment * D + 1 ELSE current(config, Places(config)[j])
      <4>1. previous(config, at) =
              IF Before(config, at, k) = {} THEN at.segment * D + 1
              ELSE current(config, Places(config)[Latest(Before(config, at, k))])
        BY <1>1, <1>3, <2>2, PreviousThere
      <4> HIDE DEF before
      <4>2. QED
        BY Zenon, <2>9, <4>1
    <3>2. before # {} => j \in DOMAIN steps
      <4>1. before \subseteq 1 .. (k - 1)
        OBVIOUS
      <4>2. before # {} => j \in before
        <5>1. Before(config, at, k) # {} => Latest(Before(config, at, k)) \in Before(config, at, k)
          BY <1>1, <1>3, <2>2, PreviousThere
        <5> HIDE DEF before
        <5>2. QED
          BY Zenon, <2>9, <5>1
      <4>3. QED
        BY <2>5, <4>1, <4>2
    <3> HIDE DEF before, j
    <3>3. before # {} => steps[j].current = current(config, Places(config)[j])
      BY <1>7, <3>2
    <3>4. step.previous = IF before = {} THEN at.segment * D + 1 ELSE steps[j].current
      BY <2>4, <3>1, <3>3
    <3>5. QED
      BY Zenon, <3>4 DEF j, Latest
  <2>11. QED
    BY ZenonT(60), <1>2, <2>4, <2>6, <2>7, <2>8, <2>10 DEF step
<1>9. QED
  BY Zenon, <1>8 DEF ReadyHolds, steps

(* -------- a signature that was made -------- *)

\* The scalar of a key.
SecretOf(seed) == crypto_eddsa_trim_scalar(oracle[SecretHash(seed)] % Base ^ N)

\* The hash a signature's equation is about.
ChallengeOf(R_, public, message) == HashOf(PointBytes(R_), PointBytes(public), message)

\* Nothing is known before there is a key.
OracleOK ==
  /\ \A h \in DOMAIN oracle : oracle[h] \in HashValues
  /\ key = None => DOMAIN oracle = {}
KeyOK ==
  key # None => /\ SecretHash(key.seed) \in DOMAIN oracle
                /\ key.public = Encoded(Times(SecretOf(key.seed), B))
\* A signature is the one the key, the message and a nonce give.
SignedOK ==
  signed # None =>
    /\ key # None
    /\ LET hash == ChallengeOf(signed.signature.R, key.public, signed.message)
       IN /\ hash \in DOMAIN oracle
          /\ \E r \in 0 .. (L - 1) :
               signed.signature = [R |-> Encoded(Times(r, B)),
                                   S |-> ((oracle[hash] % L) * SecretOf(key.seed) + r) % L]
CheckOK == call.of = "check" => signed # None
SignInv == OracleOK /\ KeyOK /\ SignedOK /\ CheckOK

\* What the oracle knows it keeps.
LEMMA AskedIs ==
  ASSUME NEW known, NEW hash, NEW value \in HashValues, \A h \in DOMAIN known : known[h] \in HashValues
  PROVE  LET all == Asked(known, hash, value) IN
         /\ DOMAIN all = DOMAIN known \cup {hash}
         /\ \A h \in DOMAIN all : all[h] \in HashValues
         /\ \A h \in DOMAIN known : all[h] = known[h]
BY DEF Asked

\* A hash is reduced like every number of 64 bytes.
LEMMA HashReduced ==
  ASSUME NEW known, NEW hash, known[hash] \in HashValues
  PROVE  /\ hash_reduce(known, hash) = known[hash] % L /\ hash_reduce(known, hash) \in 0 .. (L - 1)
         /\ known[hash] \in Nat
<1>1. known[hash] \in 0 .. (Base ^ (2 * N) - 1)
  BY CallsAssumption
<1>2. hash_reduce(known, hash) = known[hash] % L
  BY <1>1, ReduceIs DEF hash_reduce
<1>3. Base ^ (2 * N) \in Nat /\ L \in Nat \ {0}
  BY SizeOfL, BarrettRIs
<1>4. known[hash] \in Nat
  BY <1>1, <1>3
<1> QED
  BY <1>2, <1>3, <1>4

LEMMA SecretIs ==
  ASSUME NEW x \in HashValues
  PROVE  /\ crypto_eddsa_trim_scalar(x % Base ^ N) \in Scalars
         /\ crypto_eddsa_trim_scalar(x % Base ^ N) \in Nat
<1>1. x \in 0 .. (Base ^ (2 * N) - 1)
  BY CallsAssumption
<1>2. Base ^ (2 * N) \in Nat /\ Base ^ N \in Nat \ {0}
  <2>1. Base ^ N = 2 ^ Bits /\ Bits \in 0 .. Bits
    BY WidthAssumption, TwosAre
  <2>2. 2 ^ Bits \in Nat \ {0}
    BY <2>1, TwosAre
  <2> QED
    BY <2>1, <2>2, SizeOfL, BarrettRIs
<1>3. x % Base ^ N \in Nat
  BY <1>1, <1>2
<1>4. crypto_eddsa_trim_scalar(x % Base ^ N) \in Scalars
  BY <1>3, TrimIs
<1> QED
  BY <1>4, ScalarIs

LEMMA SignInit == Init => SignInv
BY DEF Init, SignInv, OracleOK, KeyOK, SignedOK, CheckOK, None

LEMMA KeyPairSigns == ASSUME SignInv, crypto_eddsa_key_pair PROVE SignInv'
<1>1. PICK seed \in Seeds, value \in HashValues :
        /\ oracle' = Asked(oracle, SecretHash(seed), value)
        /\ key' = [of |-> "pair", seed |-> seed,
                   public |-> crypto_eddsa_scalarbase(crypto_eddsa_trim_scalar(value % Base ^ N))]
  BY Zenon DEF crypto_eddsa_key_pair
<1>2. call = None /\ key = None /\ call' = call /\ signed' = signed
  BY DEF crypto_eddsa_key_pair, Idle
<1>3. signed = None /\ DOMAIN oracle = {}
  BY <1>2 DEF SignInv, SignedOK, OracleOK
<1> DEFINE hash == SecretHash(seed)
<1>4. /\ DOMAIN oracle' = {hash} /\ oracle'[hash] = value
      /\ \A h \in DOMAIN oracle' : oracle'[h] \in HashValues
  BY <1>1, <1>3 DEF Asked
<1>5. key'.of = "pair" /\ key'.seed = seed
      /\ key'.public = crypto_eddsa_scalarbase(crypto_eddsa_trim_scalar(value % Base ^ N))
  BY <1>1
<1>6. SecretOf(key.seed)' = crypto_eddsa_trim_scalar(value % Base ^ N)
  BY <1>4, <1>5 DEF SecretOf
<1>7. key'.public = Encoded(Times(SecretOf(key.seed)', B))
  <2> DEFINE a == crypto_eddsa_trim_scalar(value % Base ^ N)
  <2>1. a \in Scalars
    BY SecretIs
  <2> HIDE DEF a
  <2>2. crypto_eddsa_scalarbase(a) = Encoded(Times(a, B))
    BY <2>1, ScalarBaseIs
  <2> QED
    BY <1>5, <1>6, <2>2 DEF a
<1>8. key' # None
  BY <1>5 DEF None
<1>9. OracleOK'
  BY <1>4, <1>8 DEF OracleOK
<1>10. KeyOK'
  BY <1>4, <1>5, <1>7 DEF KeyOK
<1>11. SignedOK' /\ CheckOK'
  BY <1>2, <1>3 DEF SignedOK, CheckOK, None
<1> QED
  BY <1>9, <1>10, <1>11 DEF SignInv

\* What signing leaves behind.
LEMMA SignUnfold ==
  ASSUME crypto_eddsa_sign
  PROVE  \E message \in Messages, nonce \in HashValues, challenge \in HashValues : \E hash_r, r :
           LET R_     == crypto_eddsa_scalarbase(r)
               known  == Asked(oracle, hash_r, nonce)
               hash_h == ChallengeOf(R_, key.public, message)
           IN /\ r = hash_reduce(known, hash_r) /\ oracle' = Asked(known, hash_h, challenge)
              /\ signed' = [of |-> "signed", message |-> message,
                            signature |-> Signature(R_, r, hash_reduce(oracle', hash_h), SecretOf(key.seed))]
<1>1. PICK message \in Messages, nonce \in HashValues, challenge \in HashValues :
        LET secret == oracle[SecretHash(key.seed)]
            hash_r == HashOf(PrefixBytes(secret \div Base ^ N), message, <<>>)
        IN \E known \in {Asked(oracle, hash_r, nonce)} :
           \E r \in {hash_reduce(known, hash_r)} :
           \E R_ \in {crypto_eddsa_scalarbase(r)} :
           \E hash_h \in {HashOf(PointBytes(R_), PointBytes(key.public), message)} :
             /\ oracle' = Asked(known, hash_h, challenge)
             /\ signed' = [of |-> "signed", message |-> message,
                           signature |-> Signature(R_, r, hash_reduce(oracle', hash_h),
                                                   crypto_eddsa_trim_scalar(secret % Base ^ N))]
  BY Zenon DEF crypto_eddsa_sign
<1> DEFINE hash_r == HashOf(PrefixBytes(oracle[SecretHash(key.seed)] \div Base ^ N), message, <<>>)
           known == Asked(oracle, hash_r, nonce)
           r == hash_reduce(known, hash_r)
           R_ == crypto_eddsa_scalarbase(r)
           hash_h == ChallengeOf(R_, key.public, message)
<1>2. /\ oracle' = Asked(known, hash_h, challenge)
      /\ signed' = [of |-> "signed", message |-> message,
                    signature |-> Signature(R_, r, hash_reduce(oracle', hash_h), SecretOf(key.seed))]
  BY <1>1, Zenon DEF ChallengeOf, SecretOf
<1> QED
  BY <1>2, Zenon

\* A reduced number is a scalar.
LEMMA ReducedScalar == \A x \in 0 .. (L - 1) : x \in Scalars /\ x \in Nat
<1>1. L \in Nat /\ Base ^ N \in Nat /\ L < Base ^ N
  BY SizeOfL
<1> QED
  BY <1>1 DEF Scalars

LEMMA SignSigns == ASSUME SignInv, crypto_eddsa_sign PROVE SignInv'
<1>20. PICK message \in Messages, nonce \in HashValues, challenge \in HashValues : \E hash_r, r :
        LET R_     == crypto_eddsa_scalarbase(r)
            known  == Asked(oracle, hash_r, nonce)
            hash_h == ChallengeOf(R_, key.public, message)
        IN /\ r = hash_reduce(known, hash_r) /\ oracle' = Asked(known, hash_h, challenge)
           /\ signed' = [of |-> "signed", message |-> message,
                         signature |-> Signature(R_, r, hash_reduce(oracle', hash_h), SecretOf(key.seed))]
  BY SignUnfold
<1>1. PICK hash_r, r :
        LET R_     == crypto_eddsa_scalarbase(r)
            known  == Asked(oracle, hash_r, nonce)
            hash_h == ChallengeOf(R_, key.public, message)
        IN /\ r = hash_reduce(known, hash_r) /\ oracle' = Asked(known, hash_h, challenge)
           /\ signed' = [of |-> "signed", message |-> message,
                         signature |-> Signature(R_, r, hash_reduce(oracle', hash_h), SecretOf(key.seed))]
  BY <1>20
<1>2. key # None /\ signed = None /\ call' = call /\ key' = key
  BY DEF crypto_eddsa_sign
<1> DEFINE R_ == crypto_eddsa_scalarbase(r)
           known == Asked(oracle, hash_r, nonce)
           hash == ChallengeOf(R_, key.public, message)
           first == SecretHash(key.seed)
           a == SecretOf(key.seed)
           h == hash_reduce(oracle', hash)
<1>3. /\ r = hash_reduce(known, hash_r) /\ oracle' = Asked(known, hash, challenge)
      /\ signed' = [of |-> "signed", message |-> message, signature |-> Signature(R_, r, h, a)]
  BY <1>1, Zenon
<1>4. /\ \A k \in DOMAIN oracle : oracle[k] \in HashValues
      /\ first \in DOMAIN oracle /\ key.public = Encoded(Times(a, B))
  BY <1>2 DEF SignInv, OracleOK, KeyOK
<1>5. /\ DOMAIN known = DOMAIN oracle \cup {hash_r} /\ \A k \in DOMAIN known : known[k] \in HashValues
      /\ \A k \in DOMAIN oracle : known[k] = oracle[k]
  BY ZenonT(60), <1>4, AskedIs
<1>6. /\ DOMAIN oracle' = DOMAIN known \cup {hash} /\ \A k \in DOMAIN oracle' : oracle'[k] \in HashValues
      /\ \A k \in DOMAIN known : oracle'[k] = known[k]
  <2> HIDE DEF known, hash
  <2> QED
    BY ZenonT(60), <1>3, <1>5, AskedIs
<1> HIDE DEF known, hash, first, R_
<1>7. oracle'[first] = oracle[first] /\ first \in DOMAIN oracle'
  BY <1>4, <1>5, <1>6
<1>8. SecretOf(key.seed)' = a /\ key.seed' = key.seed /\ SecretHash(key.seed)' = first
  BY <1>2, <1>7 DEF SecretOf, first
<1>9. a \in Scalars /\ a \in Nat
  BY <1>4, SecretIs DEF SecretOf, first
<1> HIDE DEF a
<1>10. r \in 0 .. (L - 1)
  BY <1>3, <1>5, HashReduced
<1>11. h = oracle'[hash] % L /\ h \in 0 .. (L - 1)
  BY <1>6, HashReduced
<1> HIDE DEF h
<1>12. \A x \in 0 .. (L - 1) : x \in Scalars
  BY ReducedScalar
<1>13. R_ = Encoded(Times(r, B))
  BY <1>10, <1>12, ScalarBaseIs DEF R_
<1>14. Signature(R_, r, h, a) = [R |-> R_, S |-> (h * a + r) % L]
  <2>1. crypto_eddsa_mul_add(h, a, r) = (h * a + r) % L
    BY <1>9, <1>10, <1>11, <1>12, MulAddIs
  <2> QED
    BY <2>1 DEF Signature
<1>15. OracleOK'
  BY <1>2, <1>6 DEF OracleOK
<1>16. KeyOK'
  BY <1>2, <1>4, <1>7, <1>8 DEF KeyOK
<1>17. SignedOK'
  <2>1. signed'.message = message /\ signed'.signature = [R |-> R_, S |-> (h * a + r) % L]
    BY <1>3, <1>14
  <2>2. ChallengeOf(signed.signature.R, key.public, signed.message)' = hash
    BY <1>2, <2>1 DEF hash, ChallengeOf
  <2>3. signed'.signature = [R |-> Encoded(Times(r, B)), S |-> ((oracle'[hash] % L) * SecretOf(key.seed)' + r) % L]
    BY <1>8, <1>11, <1>13, <2>1
  <2>4. hash \in DOMAIN oracle' /\ key' # None
    BY <1>2, <1>6
  <2> QED
    BY <1>10, <2>2, <2>3, <2>4, Zenon DEF SignedOK
<1>18. CheckOK'
  BY <1>2, <1>3 DEF SignInv, CheckOK, None
<1> QED
  BY <1>15, <1>16, <1>17, <1>18 DEF SignInv

\* The alterations of a signature [R_, s]: S stays, is raised by a multiple of L, or is the
\* next modulo L, or the sign of R is another.
LEMMA AlteredIs ==
  ASSUME NEW p \in Affine, NEW s \in 0 .. (L - 1), NEW t \in Altered([R |-> Encoded(p), S |-> s])
  PROVE  \/ t.R # Encoded(p)
         \/ /\ t = [R |-> Encoded(p), S |-> t.S] /\ t.S \in Scalars
            /\ (t.S = s \/ t.S >= L \/ t.S = (s + 1) % L)
<1> DEFINE e == Encoded(p)
           g == [R |-> e, S |-> s]
           w == Base ^ N
<1>1. L \in Nat \ {0} /\ s \in Nat /\ w \in Nat /\ L < w
  BY SizeOfL, BarrettRIs
<1>2. e.sign \in {0, 1} /\ e = [y |-> e.y, sign |-> e.sign]
  BY EncodingOf DEF IsEncoding, Encoded
<1> HIDE DEF e, w
<1>3. g.S = s /\ g.R = e
  OBVIOUS
<1>4. CASE t = g
  BY <1>3, <1>4, ReducedScalar DEF e
<1>5. CASE t \in {[g EXCEPT !.S = @ + k * L] : k \in 1 .. ((Base ^ N - 1 - g.S) \div L)}
  <2>1. PICK k \in 1 .. ((w - 1 - s) \div L) : t = [g EXCEPT !.S = @ + k * L]
    BY <1>5 DEF w
  <2>2. t = [R |-> e, S |-> s + k * L]
    BY <2>1
  <2>3. (w - 1 - s) \div L \in Int /\ L * ((w - 1 - s) \div L) <= w - 1 - s
    BY <1>1
  <2> DEFINE m == (w - 1 - s) \div L
  <2>4. m \in Int /\ k \in Int /\ 1 <= k /\ k <= m /\ L * m <= w - 1 - s
    BY <2>3
  <2> HIDE DEF m
  <2>5. k * L >= L /\ k * L <= L * m /\ k * L \in Int
    BY <1>1, <2>4
  <2> DEFINE x == k * L
  <2>6. x \in Int /\ x >= L /\ x <= w - 1 - s
    BY <1>1, <2>4, <2>5
  <2> HIDE DEF x
  <2>7. s + x >= L /\ s + x \in 0 .. (w - 1)
    BY <1>1, <2>6
  <2> QED
    BY <2>2, <2>7 DEF x, w, Scalars, e
<1>6. CASE t = [g EXCEPT !.S = (@ + 1) % L]
  <2>1. t = [R |-> e, S |-> (s + 1) % L]
    BY <1>6
  <2>2. (s + 1) % L \in 0 .. (L - 1)
    BY <1>1
  <2> QED
    BY <2>1, <2>2, ReducedScalar DEF e
<1>7. CASE t = [g EXCEPT !.R.sign = 1 - @]
  <2>1. t.R.sign = 1 - e.sign
    BY <1>2, <1>7
  <2> QED
    BY <1>2, <2>1 DEF e
<1>8. t \in {g} \cup {[g EXCEPT !.S = @ + k * L] : k \in 1 .. ((Base ^ N - 1 - g.S) \div L)}
             \cup {[g EXCEPT !.S = (@ + 1) % L], [g EXCEPT !.R.sign = 1 - @]}
  BY DEF Altered, e
<1> QED
  BY <1>4, <1>5, <1>6, <1>7, <1>8

LEMMA CheckUnfold ==
  ASSUME crypto_eddsa_check
  PROVE  \E t \in Altered(signed.signature), message \in Messages, value \in HashValues :
           LET hash == ChallengeOf(t.R, key.public, message)
               all  == Asked(oracle, hash, value)
           IN /\ oracle' = all
              /\ call' = [of |-> "check", signature |-> t, message |-> message,
                          result |-> crypto_eddsa_check_equation(t, key.public, hash_reduce(all, hash))]
BY Zenon DEF crypto_eddsa_check, ChallengeOf

\* Checking leaves everything as it was made and finds the signature right if its S is.
LEMMA CheckSigns == ASSUME SignInv, crypto_eddsa_check PROVE SignInv' /\ SignatureHolds'
<1>1. PICK t \in Altered(signed.signature), message \in Messages, value \in HashValues :
        LET hash == ChallengeOf(t.R, key.public, message)
            all  == Asked(oracle, hash, value)
        IN /\ oracle' = all
           /\ call' = [of |-> "check", signature |-> t, message |-> message,
                       result |-> crypto_eddsa_check_equation(t, key.public, hash_reduce(all, hash))]
  BY CheckUnfold
<1>2. signed # None /\ key' = key /\ signed' = signed
  BY DEF crypto_eddsa_check
<1> DEFINE hash == ChallengeOf(t.R, key.public, message)
           h == hash_reduce(oracle', hash)
           first == SecretHash(key.seed)
           a == SecretOf(key.seed)
           made == ChallengeOf(signed.signature.R, key.public, signed.message)
<1>3. /\ oracle' = Asked(oracle, hash, value)
      /\ call' = [of |-> "check", signature |-> t, message |-> message,
                  result |-> crypto_eddsa_check_equation(t, key.public, h)]
  BY <1>1, Zenon
<1>4. key # None /\ made \in DOMAIN oracle
  BY <1>2 DEF SignInv, SignedOK
<1>5. PICK r \in 0 .. (L - 1) :
        signed.signature = [R |-> Encoded(Times(r, B)), S |-> ((oracle[made] % L) * a + r) % L]
  BY <1>2 DEF SignInv, SignedOK
<1>6. /\ \A k \in DOMAIN oracle : oracle[k] \in HashValues
      /\ first \in DOMAIN oracle /\ key.public = Encoded(Times(a, B))
  BY <1>4 DEF SignInv, OracleOK, KeyOK
<1> HIDE DEF hash, made, first
<1>7. /\ DOMAIN oracle' = DOMAIN oracle \cup {hash} /\ \A k \in DOMAIN oracle' : oracle'[k] \in HashValues
      /\ \A k \in DOMAIN oracle : oracle'[k] = oracle[k]
  BY ZenonT(60), <1>3, <1>6, AskedIs
<1>8. SecretOf(key.seed)' = a /\ key.seed' = key.seed /\ SecretHash(key.seed)' = first
  BY <1>2, <1>6, <1>7 DEF SecretOf, first
<1>9. a \in Scalars /\ a \in Nat
  BY <1>6, SecretIs DEF SecretOf, first
<1> HIDE DEF a
<1>10. OracleOK'
  BY <1>2, <1>4, <1>7 DEF OracleOK
<1>11. KeyOK'
  BY <1>2, <1>6, <1>7, <1>8 DEF KeyOK
<1>12. SignedOK'
  <2>1. ChallengeOf(signed.signature.R, key.public, signed.message)' = made
    BY <1>2 DEF made, ChallengeOf
  <2>2. signed'.signature = [R |-> Encoded(Times(r, B)), S |-> ((oracle'[made] % L) * SecretOf(key.seed)' + r) % L]
    BY <1>2, <1>4, <1>5, <1>7, <1>8
  <2>3. made \in DOMAIN oracle' /\ key' # None
    BY <1>2, <1>4, <1>7
  <2> QED
    BY <1>5, <2>1, <2>2, <2>3, Zenon DEF SignedOK
<1>13. CheckOK'
  BY <1>2 DEF CheckOK
<1>14. SignatureHolds'
  <2> SUFFICES ASSUME call'.message = signed'.message, call'.signature.R = signed'.signature.R
               PROVE  call'.result <=> call'.signature.S = signed'.signature.S
    BY DEF SignatureHolds
  <2>1. message = signed.message /\ t.R = signed.signature.R
    BY <1>2, <1>3
  <2>2. hash = made
    BY <2>1 DEF hash, made
  <2> DEFINE p == Times(r, B)
             s == ((oracle[made] % L) * a + r) % L
             k == oracle[made] % L
  <2>3. h = k /\ k \in 0 .. (L - 1) /\ oracle'[hash] = oracle[made]
    BY <1>4, <1>7, <2>2, HashReduced
  <2>4. B \in Affine /\ r \in Nat /\ L \in Nat \ {0}
    BY BaseIs, ReducedScalar, BarrettRIs
  <2>5. p \in Affine
    BY <2>4, TimesIs
  <2> HIDE DEF p, k, h
  <2>6. s \in 0 .. (L - 1) /\ s = (k * a + r) % L
    <3>1. k * a + r \in Nat
      BY <1>9, <2>3, <2>4
    <3> DEFINE y == k * a + r
    <3>2. y \in Nat /\ s = y % L
      BY <3>1 DEF k
    <3> HIDE DEF y, s
    <3>3. s \in 0 .. (L - 1)
      BY <2>4, <3>2
    <3> QED
      BY <3>2, <3>3 DEF y
  <2> HIDE DEF s
  <2>7. signed.signature = [R |-> Encoded(p), S |-> s]
    BY <1>5 DEF p, s
  <2>8. t.R = Encoded(p)
    BY <2>1, <2>7
  <2>9. t = [R |-> Encoded(p), S |-> t.S] /\ t.S \in Scalars /\ (t.S = s \/ t.S >= L \/ t.S = (s + 1) % L)
    <3>1. t \in Altered([R |-> Encoded(p), S |-> s])
      BY <2>7
    <3> QED
      BY <2>5, <2>6, <2>8, <3>1, AlteredIs
  <2> DEFINE x == t.S
  <2>10. crypto_eddsa_check_equation([R |-> Encoded(Times(r, B)), S |-> x], Encoded(Times(a, B)), k) <=> x = s
    <3>1. x \in Scalars /\ (x = s \/ x >= L \/ x = (s + 1) % L)
      BY <2>9
    <3> HIDE DEF x
    <3>2. a \in Nat /\ r \in Nat /\ k \in 0 .. (L - 1) /\ s = (k * a + r) % L
      BY <1>9, <2>3, <2>4, <2>6
    <3> QED
      <4> DEFINE v == (k * a + r) % L
      <4>1. v = (k * a + r) % L /\ s = v
        BY <3>2
      <4> HIDE DEF v
      <4>2. x = v \/ x >= L \/ x = (v + 1) % L
        BY <3>1, <4>1
      <4>3. crypto_eddsa_check_equation([R |-> Encoded(Times(r, B)), S |-> x], Encoded(Times(a, B)), k) <=> x = v
        BY ONLY <3>1, <3>2, <4>1, <4>2, Verifies
      <4> QED
        BY <4>1, <4>3
  <2>11. crypto_eddsa_check_equation(t, key.public, h) <=> x = s
    BY <1>6, <2>3, <2>9, <2>10 DEF p
  <2>12. call'.result = crypto_eddsa_check_equation(t, key.public, h) /\ call'.signature = t
    BY <1>3 DEF h
  <2>13. signed'.signature.S = s
    BY <1>2, <2>7
  <2> QED
    BY <2>11, <2>12, <2>13
<1> QED
  BY <1>10, <1>11, <1>12, <1>13, <1>14 DEF SignInv

(* -------- the calls -------- *)

\* A call of either reduction returns the remainder.
LEMMA CallReduceExact ==
  ASSUME CallReduce
  PROVE  ReduceExact'
<1>1. CASE \E x \in Wide : Returns([of |-> "reduce", x |-> x, result |-> crypto_eddsa_reduce(x)])
  <2>1. PICK x \in Wide : Returns([of |-> "reduce", x |-> x, result |-> crypto_eddsa_reduce(x)])
    BY <1>1
  <2>2. crypto_eddsa_reduce(x) = x % L
    BY CallsAssumption, ReduceIs
  <2> DEFINE r == crypto_eddsa_reduce(x)
  <2>3. call' = [of |-> "reduce", x |-> x, result |-> r] /\ r = x % L
    BY <2>1, <2>2 DEF Returns
  <2> HIDE DEF r
  <2>4. QED
    BY <2>3 DEF ReduceExact
<1>2. CASE \E x \in Wide : /\ x < L * Base ^ N
                           /\ Returns([of |-> "redc", x |-> x, result |-> Number(redc(Limbs(2 * N, x)))])
  <2>1. PICK x \in Wide : /\ x < L * Base ^ N
                          /\ Returns([of |-> "redc", x |-> x, result |-> Number(redc(Limbs(2 * N, x)))])
    BY <1>2
  <2> DEFINE t == Limbs(2 * N, x)
             r == Number(redc(t))
  <2>2. x \in Nat /\ x \in 0 .. (Weight[2 * N] - 1) /\ 2 * N \in 0 .. 2 * N /\ N \in 0 .. 2 * N
        /\ Weight[2 * N] \in Nat \ {0} /\ Weight[N] = Base ^ N
    BY CallsAssumption, Limbed, SizeOfL, BarrettRIs
  <2>3. IsLimbs(t, 2 * N) /\ Val(t, 2 * N) = x % Weight[2 * N]
    BY <2>2, ValLimbs
  <2>4. x % Weight[2 * N] = x
    BY <2>2, Remainders
  <2>5. call' = [of |-> "redc", x |-> x, result |-> r]
    BY <2>1 DEF Returns
  <2> HIDE DEF t
  <2>6. IsReducible(t)
    BY <2>1, <2>2, <2>3, <2>4 DEF IsReducible
  <2>7. /\ IsLimbs(redc(t), N) /\ Val(redc(t), N) \in 0 .. (L - 1)
        /\ (Val(redc(t), N) * (Weight[N] % L)) % L = Val(t, 2 * N) % L
    BY <2>6, RedcIs
  <2>8. r = Val(redc(t), N)
    BY <2>2, <2>7, NumberIs
  <2> HIDE DEF r
  <2>9. r < L /\ (r * (Base ^ N % L)) % L = x % L
    <3>1. r \in 0 .. (L - 1) /\ L \in Nat
      BY <2>7, <2>8, SizeOfL
    <3>2. (r * (Weight[N] % L)) % L = x % L
      BY <2>3, <2>4, <2>7, <2>8, Zenon
    <3>3. QED
      BY <2>2, <3>1, <3>2
  <2>10. QED
    BY <2>5, <2>9 DEF ReduceExact
<1>3. CASE \E a, b, c \in Secrets :
             Returns([of |-> "reduce", x |-> a * b + c, result |-> crypto_eddsa_mul_add(a, b, c)])
  <2>1. PICK a, b, c \in Secrets :
          Returns([of |-> "reduce", x |-> a * b + c, result |-> crypto_eddsa_mul_add(a, b, c)])
    BY <1>3
  <2>2. crypto_eddsa_mul_add(a, b, c) = (a * b + c) % L
    BY CallsAssumption, MulAddIs
  <2> DEFINE r == crypto_eddsa_mul_add(a, b, c)
             x == a * b + c
  <2>3. call' = [of |-> "reduce", x |-> x, result |-> r] /\ r = x % L
    BY <2>1, <2>2 DEF Returns
  <2> HIDE DEF r, x
  <2>4. QED
    BY <2>3 DEF ReduceExact
<1>4. QED
  BY <1>1, <1>2, <1>3 DEF CallReduce

\* The texts the functions are called with.
LEMMA Texts ==
  /\ \A t \in Messages : IsText(t)
  /\ \A t \in HashKeys : IsKey(t)
  /\ \A pieces \in HashTexts \cup ArgonInputs : IsTexts(pieces)
  /\ \A inputs \in ArgonInputs : Len(inputs) = 4
<1>1. \A t : IsBytes(t) <=> IsText(t)
  BY Zenon DEF IsBytes, IsText, Entries
<1>2. ASSUME NEW pieces \in HashTexts \cup ArgonInputs
      PROVE  IsTexts(pieces)
  <2>1. IsText(pieces) /\ \A k \in DOMAIN pieces : IsText(pieces[k])
    BY <1>1, TextsAssumption
  <2>2. DOMAIN pieces = 1 .. Len(pieces)
    BY <2>1 DEF IsText
  <2>3. QED
    BY <2>1, <2>2 DEF IsTexts
<1>3. QED
  BY <1>1, <1>2, TextsAssumption DEF IsKey

\* BLAKE2b, fed in pieces, compresses the blocks of RFC 7693.
LEMMA CallBlake2bExact ==
  ASSUME CallBlake2b
  PROVE  HashingExact'
<1>1. PICK pieces \in HashTexts, secret \in HashKeys, size \in {1, MaxHash} :
        Returns([of |-> "blake2b", pieces |-> pieces, secret |-> secret, size |-> size,
                 result |-> FedPieces(size, secret, pieces)])
  BY Zenon DEF CallBlake2b, FedPieces
<1> DEFINE r == FedPieces(size, secret, pieces)
<1>2. r = Rfc7693(size, secret, AllPieces(pieces))
  <2>1. IsKey(secret) /\ IsTexts(pieces)
    BY Texts
  <2>2. QED
    BY <2>1, PiecesIs
<1>3. call' = [of |-> "blake2b", pieces |-> pieces, secret |-> secret, size |-> size, result |-> r]
  BY <1>1 DEF Returns
<1> HIDE DEF r
<1>4. /\ call'.of = "blake2b" /\ call'.pieces = pieces /\ call'.secret = secret
      /\ call'.size = size /\ call'.result = r
  BY <1>3
<1>5. HashExact'
  <2>1. call'.result = Rfc7693(call'.size, call'.secret, AllPieces(call'.pieces))
    BY <1>2, <1>4
  <2>2. QED
    BY <2>1, Zenon DEF HashExact, AllPieces
<1>6. QED
  BY <1>4, <1>5 DEF HashingExact, ExtendedHashExact, InputsSeparated

\* A hash of any length is H' of RFC 9106.
LEMMA CallExtendedHashExact ==
  ASSUME CallExtendedHash
  PROVE  HashingExact'
<1>1. PICK size \in 1 .. 3 * MaxHash, message \in Messages :
        Returns([of |-> "extended", size |-> size, message |-> message,
                 result |-> extended_hash(size, message)])
  BY DEF CallExtendedHash
<1> DEFINE r == extended_hash(size, message)
<1>2. r = HPrime(size, message)
  <2>1. size \in Nat /\ IsText(message)
    BY Texts
  <2>2. QED
    BY <2>1, ExtendedIs
<1>3. call' = [of |-> "extended", size |-> size, message |-> message, result |-> r]
  BY <1>1 DEF Returns
<1> HIDE DEF r
<1>4. /\ call'.of = "extended" /\ call'.size = size /\ call'.message = message
      /\ call'.result = r
  BY <1>3
<1>5. QED
  BY <1>2, <1>4 DEF HashingExact, HashExact, ExtendedHashExact, InputsSeparated

\* The first hash of Argon2 tells any two lists of inputs apart.
LEMMA CallInitialHashExact ==
  ASSUME CallInitialHash
  PROVE  HashingExact'
<1> DEFINE config == CHOOSE c \in ArgonConfigs : TRUE
           hash(inputs) == initial_hash(config, MaxHash, inputs)
<1>1. PICK a \in ArgonInputs, b \in ArgonInputs :
        Returns([of |-> "initial", inputs |-> <<a, b>>, result |-> <<hash(a), hash(b)>>])
  BY DEF CallInitialHash
<1>2. hash(a) = hash(b) <=> a = b
  <2>1. IsTexts(a) /\ IsTexts(b) /\ Len(a) = Len(b)
    BY Texts
  <2> HIDE DEF config
  <2>2. hash(a) = hash(b) => a = b
    BY <2>1, SeparatedIs
  <2>3. QED
    BY <2>2
<1>3. call' = [of |-> "initial", inputs |-> <<a, b>>, result |-> <<hash(a), hash(b)>>]
  BY <1>1 DEF Returns
<1> HIDE DEF hash
<1>4. call'.of = "initial" /\ call'.inputs = <<a, b>> /\ call'.result = <<hash(a), hash(b)>>
  BY <1>3
<1>5. QED
  BY <1>2, <1>4 DEF HashingExact, HashExact, ExtendedHashExact, InputsSeparated

\* Argon2 fills its blocks from those of RFC 9106.
LEMMA CallArgon2Exact ==
  ASSUME CallArgon2
  PROVE  FillExact'
<1>1. PICK config \in ArgonConfigs, seed \in ArgonSeeds :
        Returns([of |-> "argon2", config |-> config, seed |-> seed,
                 result |-> crypto_argon2(config, seed)])
  BY DEF CallArgon2
<1> DEFINE r == crypto_argon2(config, seed)
<1>2. IsConfig(config) /\ IsSeed(seed)
  BY ArgonAssumption DEF IsConfig, IsSeed
<1>3. ArgonHolds(config, seed, r) /\ ReadyHolds(config, r)
  BY <1>2, ArgonIs, ReadyIs
<1>4. call' = [of |-> "argon2", config |-> config, seed |-> seed, result |-> r]
  BY <1>1 DEF Returns
<1> HIDE DEF r
<1>5. /\ call'.of = "argon2" /\ call'.config = config /\ call'.seed = seed /\ call'.result = r
  BY <1>4
<1>6. ArgonHolds(call'.config, call'.seed, call'.result) /\ ReadyHolds(call'.config, call'.result)
  BY <1>3, <1>5
<1>7. ArgonExact' /\ ReferenceReady'
  BY Zenon, <1>6 DEF ArgonExact, ReferenceReady, ArgonHolds, ReadyHolds
<1>8. QED
  BY <1>7 DEF FillExact

\* The steps by what they leave in `call`.
LEMMA NextCall ==
  ASSUME [Next]_vars
  PROVE  \/ call' = call
         \/ crypto_eddsa_check /\ call'.of = "check"
         \/ CallEquation /\ call'.of = "equation"
         \/ CallSlide /\ call'.of = "slide"
         \/ CallReduce /\ call'.of \in {"reduce", "redc"}
         \/ CallScalarMult /\ call'.of = "multiply"
         \/ CallBase /\ call'.of = "base"
         \/ CallDirty /\ call'.of = "dirty"
         \/ CallInverse /\ call'.of = "inverse"
         \/ CallElligatorMap /\ call'.of = "map"
         \/ CallElligatorKeyPair /\ call'.of = "hidden_key"
         \/ CallBlake2b /\ call'.of = "blake2b"
         \/ CallExtendedHash /\ call'.of = "extended"
         \/ CallInitialHash /\ call'.of = "initial"
         \/ CallArgon2 /\ call'.of = "argon2"
<1>1. crypto_eddsa_key_pair \/ crypto_eddsa_sign => call' = call
  BY DEF crypto_eddsa_key_pair, crypto_eddsa_sign
<1>2. crypto_eddsa_check => call'.of = "check"
  BY DEF crypto_eddsa_check
<1>3. CallEquation => call'.of = "equation"
  BY DEF CallEquation, Returns
<1>4. CallSlide => call'.of = "slide"
  BY DEF CallSlide, Returns
<1>5. CallReduce => call'.of \in {"reduce", "redc"}
  BY DEF CallReduce, Returns
<1>6. CallScalarMult => call'.of = "multiply"
  BY DEF CallScalarMult, Returns
<1>7. CallBase => call'.of = "base"
  BY DEF CallBase, Returns
<1>8. CallDirty => call'.of = "dirty"
  BY DEF CallDirty, Returns
<1>9. CallInverse => call'.of = "inverse"
  BY DEF CallInverse, Returns
<1>10. CallElligatorMap => call'.of = "map"
  BY DEF CallElligatorMap, Returns
<1>11. CallElligatorKeyPair => call'.of = "hidden_key"
  BY DEF CallElligatorKeyPair, Returns
<1>12. CallBlake2b => call'.of = "blake2b"
  BY DEF CallBlake2b, Returns
<1>13. CallExtendedHash => call'.of = "extended"
  BY DEF CallExtendedHash, Returns
<1>14. CallInitialHash => call'.of = "initial"
  BY SMTT(60) DEF CallInitialHash, Returns
<1>15. CallArgon2 => call'.of = "argon2"
  BY DEF CallArgon2, Returns
<1> QED
  BY <1>1, <1>2, <1>3, <1>4, <1>5, <1>6, <1>7, <1>8, <1>9, <1>10, <1>11, <1>12, <1>13, <1>14, <1>15
     DEF Next, vars

\* The functions that are called once leave keys, signatures and hashes alone.
LEMMA NextRest ==
  ASSUME [Next]_vars
  PROVE  \/ crypto_eddsa_key_pair \/ crypto_eddsa_sign \/ crypto_eddsa_check
         \/ UNCHANGED <<key, signed, oracle>> /\ (call' = call \/ call'.of # "check")
<1>1. /\ CallEquation \/ CallSlide \/ CallReduce \/ CallScalarMult \/ CallBase
           => UNCHANGED <<key, signed, oracle>>
      /\ CallDirty \/ CallInverse \/ CallElligatorMap \/ CallElligatorKeyPair
           => UNCHANGED <<key, signed, oracle>>
  BY DEF CallEquation, CallSlide, CallReduce, CallScalarMult, CallBase, CallDirty, CallInverse,
         CallElligatorMap, CallElligatorKeyPair, Returns
<1>2. /\ CallBlake2b => UNCHANGED <<key, signed, oracle>>
      /\ CallExtendedHash => UNCHANGED <<key, signed, oracle>>
      /\ CallInitialHash => UNCHANGED <<key, signed, oracle>>
      /\ CallArgon2 => UNCHANGED <<key, signed, oracle>>
  BY Zenon DEF CallBlake2b, CallExtendedHash, CallInitialHash, CallArgon2, Returns
<1>3. UNCHANGED vars => UNCHANGED <<key, signed, oracle>> /\ call' = call
  BY DEF vars
<1> QED
  BY <1>1, <1>2, <1>3, NextCall DEF Next


\* Barrett's and Montgomery's reductions and the multiplication modulo L, over limbs with
\* all their carries, are exact for every scalar and every number of twice its length.
THEOREM ReductionsAreExact == Spec => []ReduceExact
<1>1. Init => ReduceExact
  BY DEF Init, None, ReduceExact
<1>2. ReduceExact /\ [Next]_vars => ReduceExact'
  <2> SUFFICES ASSUME ReduceExact, [Next]_vars
               PROVE  ReduceExact'
    OBVIOUS
  <2>1. CASE call' = call
    BY <2>1 DEF ReduceExact
  <2>2. CASE CallReduce
    BY <2>2, CallReduceExact
  <2>3. CASE call'.of \notin {"reduce", "redc"}
    BY <2>3 DEF ReduceExact
  <2> QED
    BY <2>1, <2>2, <2>3, NextCall
<1> QED
  BY <1>1, <1>2, PTL DEF Spec

\* What is hashed is what the RFCs hash, for words, blocks and digests of every size,
\* keys and messages of every length and however they are cut: BLAKE2b compresses the
\* blocks and offsets of RFC 7693, a long digest is H' of RFC 9106, and no two lists of
\* inputs begin Argon2 with the same hash.
THEOREM HashesAreExact == Spec => []HashingExact
<1>1. Init => HashingExact
  BY DEF Init, None, HashingExact, HashExact, ExtendedHashExact, InputsSeparated
<1>2. HashingExact /\ [Next]_vars => HashingExact'
  <2> SUFFICES ASSUME HashingExact, [Next]_vars
               PROVE  HashingExact'
    OBVIOUS
  <2>1. CASE call' = call
    BY <2>1 DEF HashingExact, HashExact, ExtendedHashExact, InputsSeparated
  <2>2. CASE CallBlake2b
    BY <2>2, CallBlake2bExact
  <2>3. CASE CallExtendedHash
    BY <2>3, CallExtendedHashExact
  <2>4. CASE CallInitialHash
    BY <2>4, CallInitialHashExact
  <2>5. CASE call'.of \notin {"blake2b", "extended", "initial"}
    BY <2>5 DEF HashingExact, HashExact, ExtendedHashExact, InputsSeparated
  <2> QED
    BY <2>1, <2>2, <2>3, <2>4, <2>5, NextCall
<1> QED
  BY <1>1, <1>2, PTL DEF Spec

\* For any number of lanes, passes and blocks that crypto_argon2 admits and every value an
\* index seed may have: every block after the first two of a lane is computed once in a pass,
\* in an order in which what it is computed from is there and stays as it is while the
\* slice is filled, from the block RFC 9106 chooses; and no word of indices is used twice.
THEOREM FillsAreExact == Spec => []FillExact
<1>1. Init => FillExact
  BY DEF Init, None, FillExact, ArgonExact, ReferenceReady
<1>2. FillExact /\ [Next]_vars => FillExact'
  <2> SUFFICES ASSUME FillExact, [Next]_vars
               PROVE  FillExact'
    OBVIOUS
  <2>1. CASE call' = call
    <3>1. FillExact <=> (call.of = "argon2" => /\ ArgonHolds(call.config, call.seed, call.result)
                                               /\ ReadyHolds(call.config, call.result))
      BY Zenon DEF FillExact, ArgonExact, ReferenceReady, ArgonHolds, ReadyHolds
    <3>2. FillExact' <=> (call'.of = "argon2" => /\ ArgonHolds(call'.config, call'.seed, call'.result)
                                                 /\ ReadyHolds(call'.config, call'.result))
      BY Zenon DEF FillExact, ArgonExact, ReferenceReady, ArgonHolds, ReadyHolds
    <3>3. QED
      BY <2>1, <3>1, <3>2
  <2>2. CASE CallArgon2
    BY <2>2, CallArgon2Exact
  <2>3. CASE call'.of # "argon2"
    BY Zenon, <2>3 DEF FillExact, ArgonExact, ReferenceReady
  <2> QED
    BY <2>1, <2>2, <2>3, NextCall
<1> QED
  BY <1>1, <1>2, PTL DEF Spec

\* Signing and checking leave a key, a signature and a verdict that belong together; the
\* other functions have no part in it.
LEMMA SignStep == ASSUME SignInv, SignatureHolds, [Next]_vars PROVE SignInv' /\ SignatureHolds'
<1>1. CASE crypto_eddsa_key_pair
  <2>1. call'.of # "check"
    BY <1>1 DEF crypto_eddsa_key_pair, Idle, None
  <2> QED
    BY <1>1, <2>1, KeyPairSigns DEF SignatureHolds
<1>2. CASE crypto_eddsa_sign
  <2>1. call'.of # "check"
    BY <1>2 DEF crypto_eddsa_sign, SignInv, CheckOK
  <2> QED
    BY <1>2, <2>1, SignSigns DEF SignatureHolds
<1>3. CASE crypto_eddsa_check
  BY <1>3, CheckSigns
<1>4. CASE UNCHANGED <<key, signed, oracle>> /\ (call' = call \/ call'.of # "check")
  <2>1. key' = key /\ signed' = signed /\ oracle' = oracle
    BY <1>4
  <2>2. OracleOK' /\ KeyOK'
    BY <2>1 DEF SignInv, OracleOK, KeyOK, SecretOf
  <2>3. SignedOK'
    <3>1. SecretOf(key.seed)' = SecretOf(key.seed)
      BY <2>1 DEF SecretOf
    <3> QED
      BY <2>1, <3>1 DEF SignInv, SignedOK
  <2>4. CheckOK' /\ SignatureHolds'
    BY <1>4, <2>1 DEF SignInv, CheckOK, SignatureHolds
  <2> QED
    BY <2>2, <2>3, <2>4 DEF SignInv
<1> QED
  BY <1>1, <1>2, <1>3, <1>4, NextRest

\* A signature passes for its message, and neither with S + 1 nor with S plus a multiple of
\* L: for every seed and message, whatever BLAKE2b returns.
THEOREM SignaturesHold == Spec => []SignatureHolds
<1>1. Init => SignInv /\ SignatureHolds
  BY SignInit DEF Init, SignatureHolds, None
<1>2. (SignInv /\ SignatureHolds) /\ [Next]_vars => (SignInv /\ SignatureHolds)'
  BY SignStep
<1> QED
  BY <1>1, <1>2, PTL DEF Spec

(* -------- the equation -------- *)

\* The points of the calls and the low-order point are on the curve.
LEMMA PointsAre ==
  /\ \A p \in Points : p \in Affine
  /\ <<lop_x, lop_y>> \in Affine
BY CallsAssumption, LowOrderAssumption DEF Affine, Field

\* An equation a program may ask about.
IsEquation(e) ==
  IsEncoding(e.A) /\ IsEncoding(e.R) /\ e.S \in Scalars /\ e.h \in 0 .. (L - 1)

LEMMA EquationsAre == \A e \in AnyEquations \cup NearEquations : IsEquation(e)
<1>1. \A x \in Secrets : x % L \in 0 .. (L - 1) /\ x \in Scalars /\ x \in Nat /\ x % L \in Nat
  <2> SUFFICES ASSUME NEW x \in Secrets
               PROVE  x % L \in 0 .. (L - 1) /\ x \in Scalars /\ x \in Nat /\ x % L \in Nat
    OBVIOUS
  <2>1. x \in Scalars
    BY CallsAssumption
  <2>2. x \in Nat /\ L \in Nat \ {0}
    BY <2>1, ScalarIs, BarrettRIs
  <2> QED
    BY <2>1, <2>2
<1>2. ASSUME NEW e \in AnyEquations
      PROVE  IsEquation(e)
  <2>1. e.A \in Encodings /\ e.R \in Encodings /\ e.S \in Secrets /\ e.h \in {x % L : x \in Secrets}
    BY DEF AnyEquations
  <2>2. IsEncoding(e.A) /\ IsEncoding(e.R)
    BY <2>1, CallsAssumption DEF IsEncoding
  <2> QED
    BY <1>1, <2>1, <2>2 DEF IsEquation
<1>3. ASSUME NEW e \in NearEquations
      PROVE  IsEquation(e)
  <2>1. PICK p \in Points, s \in Secrets, h \in {x % L : x \in Secrets}, off \in Offsets, extra \in {0, 1} :
          e = [A |-> Encoded(p),
               R |-> Encoded(AffineAdd(AffineAdd(Times(s + extra, B), Negated(Times(h, p))),
                                       Times(off, <<lop_x, lop_y>>))),
               S |-> s, h |-> h]
    BY DEF NearEquations
  <2>2. p \in Affine /\ <<lop_x, lop_y>> \in Affine /\ B \in Affine
    BY PointsAre, BaseIs
  <2>3. s \in Scalars /\ s + extra \in Nat /\ h \in 0 .. (L - 1) /\ h \in Nat /\ off \in Nat
    BY <1>1, CallsAssumption
  <2>4. Times(s + extra, B) \in Affine /\ Times(h, p) \in Affine /\ Times(off, <<lop_x, lop_y>>) \in Affine
    BY <2>2, <2>3, TimesIs
  <2>5. AffineAdd(AffineAdd(Times(s + extra, B), Negated(Times(h, p))), Times(off, <<lop_x, lop_y>>)) \in Affine
    BY <2>4, NegatedIs, SumClosed
  <2> QED
    BY <2>1, <2>2, <2>3, <2>5, EncodingOf DEF IsEquation
<1> QED
  BY <1>2, <1>3

LEMMA SatisfiedIs ==
  ASSUME NEW e, IsEquation(e)
  PROVE  crypto_eddsa_check_equation([R |-> e.R, S |-> e.S], e.A, e.h) <=> Satisfied(e.S, e.h, e.A, e.R)
<1> DEFINE s == e.S
           h == e.h
           ea == e.A
           er == e.R
<1>1. IsEncoding(ea) /\ IsEncoding(er) /\ s \in Scalars /\ h \in 0 .. (L - 1)
  BY DEF IsEquation
<1>2. /\ Roots(ea.y % P) = Abscissas(El(ea.y)) /\ Roots(er.y % P) = Abscissas(El(er.y))
      /\ Decoded(ea) = PointOf(ea) /\ Decoded(er) = PointOf(er)
  BY Zenon DEF Roots, Abscissas, Field, El, Decoded, PointOf
<1> HIDE DEF s, h, ea, er
<1>3. crypto_eddsa_check_equation([R |-> er, S |-> s], ea, h)
        <=> /\ s < L
            /\ Abscissas(El(ea.y)) # {} /\ Abscissas(El(er.y)) # {}
            /\ Times(8, LeftOver(s, h, PointOf(ea), PointOf(er))) = Origin
  BY <1>1, EquationIs
<1>4. Satisfied(s, h, ea, er)
        <=> /\ s < L
            /\ Abscissas(El(ea.y)) # {} /\ Abscissas(El(er.y)) # {}
            /\ Times(8, LeftOver(s, h, PointOf(ea), PointOf(er))) = Origin
  BY Zenon, <1>2 DEF Satisfied, LeftOver, Origin
<1>5. crypto_eddsa_check_equation([R |-> er, S |-> s], ea, h) <=> Satisfied(s, h, ea, er)
  BY <1>3, <1>4
<1> QED
  BY <1>5 DEF s, h, ea, er

LEMMA CallEquationExact == ASSUME CallEquation PROVE EquationExact'
<1>1. PICK e \in AnyEquations \cup NearEquations :
        call' = [of |-> "equation", A |-> e.A, R |-> e.R, S |-> e.S, h |-> e.h,
                 result |-> crypto_eddsa_check_equation([R |-> e.R, S |-> e.S], e.A, e.h)]
  BY Zenon DEF CallEquation, Returns
<1>2. crypto_eddsa_check_equation([R |-> e.R, S |-> e.S], e.A, e.h) <=> Satisfied(e.S, e.h, e.A, e.R)
  BY EquationsAre, SatisfiedIs
<1> QED
  BY <1>1, <1>2 DEF EquationExact

\* A signature is accepted exactly when both encodings are points of the curve, S is below L
\* and 8 (S B - h A - R) is zero: for every encoding, scalar and hash.
THEOREM EquationsAreExact == Spec => []EquationExact
<1>1. Init => EquationExact
  BY DEF Init, None, EquationExact
<1>2. EquationExact /\ [Next]_vars => EquationExact'
  <2> SUFFICES ASSUME EquationExact, [Next]_vars
               PROVE  EquationExact'
    OBVIOUS
  <2>1. CASE call' = call
    BY <2>1 DEF EquationExact
  <2>2. CASE CallEquation
    BY <2>2, CallEquationExact
  <2>3. ASSUME call'.of # "equation"
        PROVE  EquationExact'
    BY <2>3 DEF EquationExact
  <2> QED
    BY <2>1, <2>2, <2>3, NextCall
<1> QED
  BY <1>1, <1>2, PTL DEF Spec

(* -------- multiples of a point -------- *)

LEMMA CallSlideExact == ASSUME CallSlide PROVE SlideExact'
<1>1. PICK s \in 0 .. (L - 1), width \in {P_W_WIDTH, B_W_WIDTH} :
        \E top \in {slide_init(s).next_check, TopBit + 1} :
          call' = [of |-> "slide", s |-> s, width |-> width, result |-> Digits(s, width, top)]
  BY Zenon DEF CallSlide, Returns
<1>2. PICK top \in {slide_init(s).next_check, TopBit + 1} :
        call' = [of |-> "slide", s |-> s, width |-> width, result |-> Digits(s, width, top)]
  BY <1>1
<1> DEFINE q == Digits(s, width, top)
<1>3. width \in 2 .. 8
  <2>1. P_W_WIDTH \in 2 .. 8 /\ B_W_WIDTH \in 2 .. 8
    BY WidthAssumption
  <2> QED
    BY <2>1
<1>4. /\ ValueOf(q) = s
      /\ \A k \in 1 .. Len(q) :
           q[k] # 0 => q[k] % 2 = 1 /\ q[k] \in -(2 ^ (width - 1)) .. 2 ^ (width - 1)
  BY <1>3, SlideHolds
<1> HIDE DEF q
<1>5. call'.s = s /\ call'.width = width /\ call'.result = q
  BY <1>2 DEF q
<1>6. LET n == Len(q)
          value[k \in 0 .. n] == IF k = 0 THEN 0 ELSE 2 * value[k - 1] + q[k]
      IN value[n] = s
  BY <1>4, Zenon DEF ValueOf
<1> QED
  BY <1>4, <1>5, <1>6, Zenon DEF SlideExact

\* The ladder reads no more of its point than what fe_frombytes makes of it.
LEMMA FormsRead ==
  ASSUME NEW u \in Field, NEW v \in FormsOf(u)
  PROVE  /\ \A k, n : scalarmult(k, v, n) = scalarmult(k, u, n)
         /\ \A k : crypto_x25519(k, v) = crypto_x25519(k, u)
<1>1. fe_frombytes(v) = u /\ fe_frombytes(u) = u
  <2>1. fe_frombytes(u) = u /\ El(u) = u /\ u \in 0 .. (2 ^ FieldBits - 1)
    BY FieldRead, ElField
  <2>2. CASE v = u
    BY <2>1, <2>2
  <2>3. CASE v = u + 2 ^ FieldBits
    BY <2>1, <2>3, BytesRead
  <2>4. CASE v = u + P /\ v < 2 ^ FieldBits
    <3>1. v \in Int /\ v >= 0 /\ El(v) = u
      <4>1. u \in Int /\ u >= 0 /\ P \in Int /\ P >= 0 /\ P * 1 + u = u + P
        BY PrimeIs, ElField
      <4>2. El(P * 1 + u) = u
        <5> DEFINE k == 1
        <5>1. k \in Int
          OBVIOUS
        <5> HIDE DEF k
        <5>2. El(P * k + u) = El(u)
          BY <4>1, <5>1, ElMore
        <5> QED
          BY <2>1, <5>2 DEF k
      <4> QED
        BY <2>4, <4>1, <4>2
    <3>2. v \in 0 .. (2 ^ FieldBits - 1)
      <4> DEFINE m == 2 ^ FieldBits
      <4>1. m \in Nat /\ v < m
        BY <2>4, EncodingAssumption
      <4> HIDE DEF m
      <4>2. v \in 0 .. (m - 1)
        BY <3>1, <4>1
      <4> QED
        BY <4>2 DEF m
    <3> QED
      BY <2>1, <3>1, <3>2, BytesRead
  <2> QED
    BY <2>2, <2>3, <2>4, Zenon DEF FormsOf
<1>2. \A k, n : scalarmult(k, v, n) = scalarmult(k, u, n)
  BY Zenon, <1>1, LadderUnfold
<1> QED
  BY Zenon, <1>2 DEF crypto_x25519

LEMMA CallScalarMultExact == ASSUME CallScalarMult PROVE LadderExact'
<1>0. PICK p \in Points, s \in Secrets : \E point \in FormsOf(MontgomeryU(p)) :
        \/ call' = [of |-> "multiply", p |-> p, s |-> s, result |-> scalarmult(s, point, Bits)]
        \/ call' = [of |-> "multiply", p |-> p, s |-> crypto_eddsa_trim_scalar(s),
                    result |-> crypto_x25519(s, point)]
  BY Zenon DEF CallScalarMult, Returns
<1>1. PICK point \in FormsOf(MontgomeryU(p)) :
        \/ call' = [of |-> "multiply", p |-> p, s |-> s, result |-> scalarmult(s, point, Bits)]
        \/ call' = [of |-> "multiply", p |-> p, s |-> crypto_eddsa_trim_scalar(s),
                    result |-> crypto_x25519(s, point)]
  BY <1>0
<1>2. p \in Affine /\ s \in Scalars /\ s \in Nat
  <2>1. s \in Scalars
    BY CallsAssumption
  <2> QED
    BY <2>1, PointsAre, ScalarIs
<1>3. /\ scalarmult(s, point, Bits) = scalarmult(s, MontgomeryU(p), Bits)
      /\ crypto_x25519(s, point) = crypto_x25519(s, MontgomeryU(p))
  BY <1>2, UIs, FormsRead
<1>4. scalarmult(s, MontgomeryU(p), Bits) = MontgomeryU(Times(s, p))
  <2>1. s < 2 ^ Bits
    BY <1>2, WidthAssumption DEF Scalars
  <2> DEFINE n == Bits
  <2>2. n \in 1 .. Bits
    BY TwosAre
  <2>3. s < 2 ^ n
    BY <2>1
  <2> HIDE DEF n
  <2>4. scalarmult(s, MontgomeryU(p), n) = MontgomeryU(Times(s, p))
    BY <1>2, <2>2, <2>3, LadderIs
  <2> QED
    BY <2>4 DEF n
<1>5. crypto_x25519(s, MontgomeryU(p)) = MontgomeryU(Times(crypto_eddsa_trim_scalar(s), p))
  BY <1>2, X25519Is
<1> DEFINE t == crypto_eddsa_trim_scalar(s)
           u == MontgomeryU(p)
<1>6. \/ call'.p = p /\ call'.s = s /\ call'.result = scalarmult(s, u, Bits)
      \/ call'.p = p /\ call'.s = t /\ call'.result = crypto_x25519(s, u)
  <2> HIDE DEF t, u
  <2>1. \/ call'.p = p /\ call'.s = s /\ call'.result = scalarmult(s, point, Bits)
        \/ call'.p = p /\ call'.s = t /\ call'.result = crypto_x25519(s, point)
    BY <1>1 DEF t
  <2> QED
    BY <2>1, <1>3 DEF u
<1> HIDE DEF t
<1>7. call'.result = MontgomeryU(Times(call'.s, call'.p))
  BY <1>4, <1>5, <1>6 DEF t
<1> QED
  BY <1>7 DEF LadderExact

LEMMA CallBaseExact == ASSUME CallBase PROVE BaseExact'
<1> DEFINE PairOf(s) == [k \in {s, crypto_eddsa_trim_scalar(s)} |-> crypto_eddsa_scalarbase(k)]
           Us(point) == [k \in DOMAIN point |-> crypto_eddsa_to_x25519(point[k])]
<1>1. PICK s \in BaseScalars :
        \E point \in {PairOf(s)} : \E u \in {Us(point)} :
          call' = [of |-> "base", s |-> s, result |-> point[s], u |-> u[s],
                   back |-> crypto_x25519_to_eddsa(u[s]),
                   trimmed |-> u[crypto_eddsa_trim_scalar(s)],
                   public |-> crypto_x25519_public_key(s)]
  BY Zenon DEF CallBase, Returns
<1> DEFINE t == crypto_eddsa_trim_scalar(s)
           point == PairOf(s)
           u == Us(point)
<1>2. call' = [of |-> "base", s |-> s, result |-> point[s], u |-> u[s],
               back |-> crypto_x25519_to_eddsa(u[s]), trimmed |-> u[t],
               public |-> crypto_x25519_public_key(s)]
  BY <1>1
<1>3. s \in Scalars /\ s \in Nat /\ t \in Scalars
  <2>1. s \in Scalars
    BY CallsAssumption
  <2> QED
    BY <2>1, ScalarIs, TrimIs
<1>4. DOMAIN point = {s, t} /\ DOMAIN u = {s, t}
  OBVIOUS
<1>5. /\ Times(s, B) \in Affine /\ point[s] = Encoded(Times(s, B))
      /\ Times(t, B) \in Affine /\ point[t] = Encoded(Times(t, B))
  BY <1>3, <1>4, ScalarBaseIs
<1>6. u[s] = MontgomeryU(Times(s, B)) /\ u[t] = MontgomeryU(Times(t, B))
  <2>1. u[s] = crypto_eddsa_to_x25519(point[s]) /\ u[t] = crypto_eddsa_to_x25519(point[t])
    BY <1>4
  <2> HIDE DEF u, point, t
  <2> QED
    BY <1>5, <2>1, ToMontgomery
<1>7. crypto_x25519_public_key(s) = MontgomeryU(Times(t, B))
  BY <1>3, X25519Is, BaseIs, BasePointAssumption DEF crypto_x25519_public_key
<1> HIDE DEF u, point, t
<1>8. crypto_x25519_to_eddsa(u[s]).y = IF Times(s, B) = Origin THEN P - 1 ELSE Times(s, B)[2]
  BY <1>5, <1>6, FromMontgomery
<1>9. /\ call'.s = s /\ call'.result = point[s] /\ call'.u = u[s]
      /\ call'.back = crypto_x25519_to_eddsa(u[s]) /\ call'.trimmed = u[t]
      /\ call'.public = crypto_x25519_public_key(s)
  BY <1>2
<1>10. Origin = <<0, 1>>
  BY DEF Origin
<1> QED
  BY <1>5, <1>6, <1>7, <1>8, <1>9, <1>10, Zenon DEF BaseExact

\* The digits of a window are those of the scalar, the ladder multiplies every point of the
\* curve by every scalar, the combs the base point, and the two forms of a public key are
\* those of one point.
THEOREM MultiplesAreExact == Spec => []MultiplesExact
<1>1. Init => MultiplesExact
  BY DEF Init, None, MultiplesExact, SlideExact, LadderExact, BaseExact
<1>2. MultiplesExact /\ [Next]_vars => MultiplesExact'
  <2> SUFFICES ASSUME MultiplesExact, [Next]_vars
               PROVE  MultiplesExact'
    OBVIOUS
  <2>1. CASE call' = call
    BY <2>1 DEF MultiplesExact, SlideExact, LadderExact, BaseExact
  <2>2. CASE CallSlide /\ call'.of = "slide"
    BY <2>2, CallSlideExact DEF MultiplesExact, LadderExact, BaseExact
  <2>3. CASE CallScalarMult /\ call'.of = "multiply"
    BY <2>3, CallScalarMultExact DEF MultiplesExact, SlideExact, BaseExact
  <2>4. CASE CallBase /\ call'.of = "base"
    BY <2>4, CallBaseExact DEF MultiplesExact, SlideExact, LadderExact
  <2>5. CASE call'.of \notin {"slide", "multiply", "base"}
    BY <2>5 DEF MultiplesExact, SlideExact, LadderExact, BaseExact
  <2> QED
    BY <2>1, <2>2, <2>3, <2>4, <2>5, NextCall
<1> QED
  BY <1>1, <1>2, PTL DEF Spec

LEMMA CallDirtyExact == ASSUME CallDirty PROVE DirtyExact'
<1>1. PICK s \in DirtySecrets :
        call' = [of |-> "dirty", s |-> s, small |-> crypto_x25519_dirty_small(s),
                 fast |-> crypto_x25519_dirty_fast(s)]
  BY Zenon DEF CallDirty, Returns
<1>2. s \in Scalars
  BY CallsAssumption
<1>3. crypto_x25519_dirty_small(s) = MontgomeryU(DirtyPoint(s))
      /\ crypto_x25519_dirty_fast(s) = MontgomeryU(DirtyPoint(s))
  BY <1>2, DirtySmall, DirtyFast
<1>4. call'.s = s /\ call'.small = crypto_x25519_dirty_small(s) /\ call'.fast = crypto_x25519_dirty_fast(s)
  BY <1>1
<1>5. DirtyPoint(s) = AffineAdd(Times(crypto_eddsa_trim_scalar(s), B), Times(s % 8, <<lop_x, lop_y>>))
  BY DEF DirtyPoint, LopPoint
<1> QED
  BY <1>3, <1>4, <1>5, Zenon DEF DirtyExact

LEMMA CallInverseExact == ASSUME CallInverse PROVE InverseExact'
<1>1. PICK s \in Secrets, p \in Points :
        call' = [of |-> "inverse", s |-> s, p |-> p, divisor |-> Divisor(s),
                 result |-> crypto_x25519_inverse(s, MontgomeryU(p))]
  BY Zenon DEF CallInverse, Returns
<1>2. s \in Scalars /\ s \in Nat /\ p \in Affine /\ Times(8 * L, p) = Origin
  <2>1. s \in Scalars /\ Times(8 * L, p) = <<0, 1>>
    BY CallsAssumption
  <2> QED
    BY <2>1, PointsAre, ScalarIs DEF Origin
<1>3. crypto_x25519(s, crypto_x25519_inverse(s, MontgomeryU(p))) = MontgomeryU(Times(PrimePart, p))
  BY Zenon, <1>2, InverseHolds
<1>4. (Divisor(s) * crypto_eddsa_trim_scalar(s)) % L = 1 /\ Divisor(s) % 8 = 0
  BY <1>2, DivisorIs
<1>5. /\ call'.s = s /\ call'.p = p /\ call'.divisor = Divisor(s)
      /\ call'.result = crypto_x25519_inverse(s, MontgomeryU(p))
  BY <1>1
<1>6. PrimePart = CHOOSE c \in 0 .. (8 * L) : c % L = 1 /\ c % 8 = 0
  BY Zenon DEF PrimePart
<1> QED
  BY <1>3, <1>4, <1>5, <1>6, Zenon DEF InverseExact

LEMMA CallElligatorMapExact == ASSUME CallElligatorMap, call'.of = "map" PROVE ElligatorExact'
<1> DEFINE Hidden(r, pad) == [r |-> r, pad |-> pad]
           Curve(r, pad) == crypto_elligator_map(Hidden(r, pad))
           Again(r, pad, sign) == crypto_elligator_rev(Curve(r, pad), [sign |-> sign, pad |-> pad])
<1>1. PICK r \in 0 .. ((P - 1) \div 2), pad \in {0, 3} :
        call' = [of |-> "map", hidden |-> Hidden(r, pad), curve |-> Curve(r, pad),
                 back |-> <<Again(r, pad, 0), Again(r, pad, 1)>>]
  BY Zenon DEF CallElligatorMap, Returns
<1> DEFINE h == Hidden(r, pad)
           u == Curve(r, pad)
           b0 == Again(r, pad, 0)
           b1 == Again(r, pad, 1)
<1>2. /\ b0.hidden = h \/ b1.hidden = h
      /\ \A sign \in {0, 1} : Again(r, pad, sign).ok /\ crypto_elligator_map(Again(r, pad, sign).hidden) = u
  BY MapRev
<1>3. b0.ok /\ crypto_elligator_map(b0.hidden) = u /\ b1.ok /\ crypto_elligator_map(b1.hidden) = u
  BY <1>2
<1> HIDE DEF h, u, b0, b1
<1>4. call'.hidden = h /\ call'.curve = u /\ call'.back = <<b0, b1>>
  BY <1>1 DEF h, u, b0, b1
<1>5. call'.back[1] = b0 /\ call'.back[2] = b1
  BY <1>4
<1>6. \E k \in {1, 2} : call'.back[k].hidden = call'.hidden
  BY <1>2, <1>4, <1>5
<1>7. \A k \in {1, 2} : call'.back[k].ok /\ crypto_elligator_map(call'.back[k].hidden) = call'.curve
  BY <1>3, <1>4, <1>5
<1>8. call'.of # "hidden_key"
  OBVIOUS
<1> QED
  BY <1>6, <1>7, <1>8, Zenon DEF ElligatorExact

LEMMA CallElligatorKeyPairExact ==
  ASSUME CallElligatorKeyPair, call'.of = "hidden_key" PROVE ElligatorExact'
<1>1. PICK stream \in Streams :
        call' = [of |-> "hidden_key", stream |-> stream, result |-> crypto_elligator_key_pair(stream)]
  BY Zenon DEF CallElligatorKeyPair, Returns
<1> DEFINE result == crypto_elligator_key_pair(stream)
           tried == [k \in DOMAIN stream |->
                      [rev |-> crypto_elligator_rev(crypto_x25519_dirty_fast(stream[k].secret),
                                                    stream[k].tweak),
                       secret |-> stream[k].secret]]
<1>2. result = FirstHidden(tried)
  BY Zenon DEF crypto_elligator_key_pair
<1>3. DOMAIN tried = DOMAIN stream /\ DOMAIN stream \subseteq Nat
  <2>1. stream \in Seq({stream[k] : k \in DOMAIN stream})
    BY CallsAssumption
  <2>2. DOMAIN stream = 1 .. Len(stream) /\ Len(stream) \in Nat
    BY <2>1, LenProperties
  <2> QED
    BY <2>2
<1>4. call'.result = result
  BY <1>1
<1>5. ASSUME result.ok
      PROVE  /\ crypto_elligator_map(result.hidden) = crypto_x25519_dirty_small(result.secret)
             /\ crypto_x25519(7, crypto_elligator_map(result.hidden)) =
                  crypto_x25519(7, crypto_x25519_public_key(result.secret))
  <2>1. PICK k \in DOMAIN tried :
          tried[k].rev.ok /\ FirstHidden(tried) = [ok |-> TRUE, hidden |-> tried[k].rev.hidden, secret |-> tried[k].secret]
    <3> HIDE DEF tried, result
    <3> QED
      BY <1>2, <1>3, <1>5, FirstHiddenIs
  <2> DEFINE x == stream[k].secret
             tweak == stream[k].tweak
             rev == crypto_elligator_rev(crypto_x25519_dirty_fast(x), tweak)
  <2>2. k \in DOMAIN stream /\ tried[k].rev = rev /\ tried[k].secret = x
    BY <1>3
  <2>3. x \in Scalars
    BY <2>2, CallsAssumption
  <2> HIDE DEF tried, result
  <2>4. rev.ok /\ result.hidden = rev.hidden /\ result.secret = x
    BY <1>2, <2>1, <2>2
  <2> HIDE DEF x, tweak
  <2>5. LET u == crypto_elligator_map(rev.hidden)
        IN u = crypto_x25519_dirty_small(x) /\ crypto_x25519(7, u) = crypto_x25519(7, crypto_x25519_public_key(x))
    BY <2>3, <2>4, HiddenKey
  <2> QED
    BY <2>4, <2>5, Zenon
<1>6. call'.of # "map"
  OBVIOUS
<1> HIDE DEF result
<1> QED
  BY <1>4, <1>5, <1>6, Zenon DEF ElligatorExact

\* Both versions of a dirty key are the same point, a division by a secret is undone by a
\* multiplication but for the part of low order, a representative maps to the key it was
\* made from and is made from the key it maps to, and a hidden key is that of its secret.
THEOREM EphemeralsAreExact == Spec => []EphemeralExact
<1>1. Init => EphemeralExact
  BY DEF Init, None, EphemeralExact, DirtyExact, InverseExact, ElligatorExact
<1>2. EphemeralExact /\ [Next]_vars => EphemeralExact'
  <2> SUFFICES ASSUME EphemeralExact, [Next]_vars
               PROVE  EphemeralExact'
    OBVIOUS
  <2>1. CASE call' = call
    BY <2>1 DEF EphemeralExact, DirtyExact, InverseExact, ElligatorExact
  <2>2. CASE CallDirty /\ call'.of = "dirty"
    BY <2>2, CallDirtyExact DEF EphemeralExact, InverseExact, ElligatorExact
  <2>3. CASE CallInverse /\ call'.of = "inverse"
    BY <2>3, CallInverseExact DEF EphemeralExact, DirtyExact, ElligatorExact
  <2>4. CASE CallElligatorMap /\ call'.of = "map"
    BY <2>4, CallElligatorMapExact DEF EphemeralExact, DirtyExact, InverseExact
  <2>5. CASE CallElligatorKeyPair /\ call'.of = "hidden_key"
    BY <2>5, CallElligatorKeyPairExact DEF EphemeralExact, DirtyExact, InverseExact
  <2>6. CASE call'.of \notin {"dirty", "inverse", "map", "hidden_key"}
    BY <2>6 DEF EphemeralExact, DirtyExact, InverseExact, ElligatorExact
  <2> QED
    BY <2>1, <2>2, <2>3, <2>4, <2>5, <2>6, NextCall
<1> QED
  BY <1>1, <1>2, PTL DEF Spec
==============================================================================
