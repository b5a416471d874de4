---------------------------- MODULE SpiFlashProofs ----------------------------
(***************************************************************************)
(* Proofs about SpiFlash for flashes, FIFOs, words and transfers of every  *)
(* size.  TypeOK and LinkInv are inductive together: they tie the slave,   *)
(* which sees every edge a cycle late, to the state of the master.  On     *)
(* them rest CollectInv (the bits collected), DriverInv and DoneInv (the   *)
(* registers), and QueueInv (the driver's buffer).                         *)
(***************************************************************************)
EXTENDS SpiFlash, Numbers, SequenceTheorems, TLAPS

(* -------- arithmetic -------- *)

\* A number shifted right by one bit more: its quotient by 2p is half of that by p.
LEMMA Halving ==
  ASSUME NEW a \in Nat, NEW p \in Nat \ {0}
  PROVE  /\ a \div p \in Nat /\ a \div (2 * p) \in Nat
         /\ a \div p = 2 * (a \div (2 * p)) + ((a \div p) % 2)
<1> DEFINE q == a \div p
           r == a % p
           h == q \div 2
           b == q % 2
<1>1. q \in Int /\ r \in 0 .. (p - 1) /\ a = p * q + r
  OBVIOUS
<1>2. q >= 0
  <2>1. q <= -1 => p * q <= -p
    BY <1>1
  <2>2. QED
    BY <1>1, <2>1
<1>3. h \in Nat /\ b \in 0 .. 1 /\ q = 2 * h + b
  BY <1>1, <1>2
<1>4. p * b + r \in 0 .. (2 * p - 1)
  <2>1. b = 0 \/ b = 1
    BY <1>3
  <2>2. QED
    BY <1>1, <2>1
<1>5. a = (2 * p) * h + (p * b + r)
  <2>1. p * q = p * (2 * h + b)
    BY <1>3
  <2>2. p * (2 * h + b) = (2 * p) * h + p * b
    BY <1>3
  <2>3. QED
    BY <1>1, <1>3, <2>1, <2>2
<1>6. a \div (2 * p) = h
  <2>1. 2 * p \in Nat \ {0} /\ h \in Int
    BY <1>3
  <2>2. ((2 * p) * h + (p * b + r)) \div (2 * p) = h
    BY Division, <1>4, <2>1
  <2>3. QED
    BY <1>5, <2>2
<1>7. QED
  BY <1>1, <1>2, <1>3, <1>6

\* The numbers of bits, and the number of addresses.
LEMMA Sizes ==
  /\ Len(ReadCommand) \in Nat \ {0} /\ AddressBits \in Nat \ {0} /\ Total \in Nat \ {0}
  /\ Total = Len(ReadCommand) + AddressBits
  /\ ByteBits \in Nat \ {0} /\ WordBytes \in Nat \ {0} /\ Depth \in Nat \ {0}
  /\ FifoDepth \in Nat \ {0} /\ AccessGap \in Nat \ {0}
  /\ 2 ^ AddressBits \in Nat \ {0} /\ ReadCommand \in Seq(BOOLEAN)
BY SizesAssumption, AddressAssumption, EmptySeq, LenProperties DEF Total

\* One bit more, kept to the width of a register that is wide enough.
LEMMA ShiftValue ==
  ASSUME NEW S \in Nat \ {0}, NEW p \in Nat \ {0}, NEW a \in 0 .. (S - 1)
  PROVE  (2 * (a \div (2 * p)) + IF (a \div p) % 2 = 1 THEN 1 ELSE 0) % S = a \div p
<1>1. /\ a \div p \in Nat /\ a \div (2 * p) \in Nat
      /\ a \div p = 2 * (a \div (2 * p)) + ((a \div p) % 2)
  <2>1. a \in Nat
    OBVIOUS
  <2>2. QED
    BY <2>1, Halving
<1>2. a \div p \in 0 .. (S - 1)
  <2> DEFINE q == a \div p
             r == a % p
             v == p * q
  <2>1. a = v + r /\ r \in Nat /\ q \in Nat
    BY <1>1
  <2>2. v \in Nat /\ v >= q
    BY <2>1
  <2> HIDE DEF q, r, v
  <2>3. q <= a
    BY <2>1, <2>2
  <2>4. QED
    BY <1>1, <2>3 DEF q
<1>3. (a \div p) % S = a \div p
  BY <1>2, Remainders
<1>4. (a \div p) % 2 = 0 \/ (a \div p) % 2 = 1
  BY <1>1
<1>5. 2 * (a \div (2 * p)) + (IF (a \div p) % 2 = 1 THEN 1 ELSE 0) = a \div p
  BY <1>1, <1>4
<1>6. QED
  BY <1>3, <1>5

\* One more bit of an address, shifted in behind those that have arrived.
LEMMA ShiftStep ==
  ASSUME NEW a \in 0 .. (2 ^ AddressBits - 1), NEW m \in 0 .. (AddressBits - 1)
  PROVE  ShiftIn(a \div 2 ^ (m + 1), (a \div 2 ^ m) % 2 = 1) = a \div 2 ^ m
<1> DEFINE p == 2 ^ m
           S == 2 ^ AddressBits
<1>1. p \in Nat \ {0} /\ 2 ^ (m + 1) = 2 * p /\ S \in Nat \ {0} /\ a \in 0 .. (S - 1)
  BY AddressAssumption, Sizes
<1>2. ShiftIn(a \div 2 ^ (m + 1), (a \div p) % 2 = 1)
        = (2 * (a \div (2 * p)) + IF (a \div p) % 2 = 1 THEN 1 ELSE 0) % S
  BY <1>1 DEF ShiftIn
<1> HIDE DEF p, S
<1>3. (2 * (a \div (2 * p)) + IF (a \div p) % 2 = 1 THEN 1 ELSE 0) % S = a \div p
  BY <1>1, ShiftValue
<1>4. QED
  BY <1>2, <1>3 DEF p

\* Before the first bit and after the last.
LEMMA ShiftEnds ==
  ASSUME NEW a \in 0 .. (2 ^ AddressBits - 1)
  PROVE  a \div 2 ^ AddressBits = 0 /\ a \div 2 ^ 0 = a
BY Sizes, AddressAssumption

\* The next address is that of the next byte, around the end of the flash as around
\* the end of the addresses.
LEMMA NextAddressStep ==
  ASSUME NEW a \in 0 .. (2 ^ AddressBits - 1)
  PROVE  /\ nextAddress(a) \in 0 .. (2 ^ AddressBits - 1)
         /\ nextAddress(a) % Depth = (a + 1) % Depth
<1> DEFINE S == 2 ^ AddressBits
<1>1. S \in Nat \ {0} /\ Depth \in Nat \ {0} /\ S % Depth = 0
  BY Sizes, AddressAssumption
<1>2. 0 % Depth = 0 /\ Depth % Depth = 0
  BY <1>1, Remainders
<1>3. CASE a = Depth - 1
  BY <1>1, <1>2, <1>3 DEF nextAddress
<1>4. CASE a # Depth - 1 /\ a + 1 < S
  <2>1. (a + 1) % S = a + 1
    BY <1>1, <1>4
  <2>2. QED
    BY <1>1, <1>4, <2>1 DEF nextAddress
<1>5. CASE a # Depth - 1 /\ a + 1 = S
  <2>1. S % S = 0
    <3> HIDE DEF S
    <3>1. QED
      BY <1>1, Remainders
  <2>2. QED
    BY <1>1, <1>2, <1>5, <2>1 DEF nextAddress
<1>6. QED
  BY <1>1, <1>3, <1>4, <1>5

(* -------- types -------- *)

LEMMA AddressSent ==
  ASSUME NEW a \in 0 .. (2 ^ AddressBits - 1)
  PROVE  /\ AddressToBits(a) \in Seq(BOOLEAN) /\ Len(AddressToBits(a)) = AddressBits
         /\ ReadCommand \o AddressToBits(a) \in Seq(BOOLEAN)
         /\ Len(ReadCommand \o AddressToBits(a)) = Total
         /\ \A i \in 1 .. Total :
              (ReadCommand \o AddressToBits(a))[i]
                = IF i <= Len(ReadCommand) THEN ReadCommand[i]
                  ELSE AddressToBits(a)[i - Len(ReadCommand)]
<1>1. AddressToBits(a) \in Seq(BOOLEAN) /\ Len(AddressToBits(a)) = AddressBits
  BY Sizes DEF AddressToBits
<1>2. QED
  BY <1>1, Sizes, ConcatProperties, ZenonT(60)

LEMMA BitTypes ==
  /\ ZeroBit \in Bits
  /\ \A a \in Int, i \in 1 .. ByteBits : Bit(a, i) \in Bits
  /\ \A s \in Seq(Bits) : Len(s) = ByteBits => s \in Bytes
<1>1. \A a \in Int : a % Depth \in 0 .. (Depth - 1)
  BY Sizes
<1>2. ZeroBit \in Bits
  BY DEF Bits
<1>3. ASSUME NEW a \in Int, NEW i \in 1 .. ByteBits PROVE Bit(a, i) \in Bits
  BY <1>1 DEF Bits, Bit
<1>4. ASSUME NEW s \in Seq(Bits), Len(s) = ByteBits PROVE s \in Bytes
  <2>1. s \in [1 .. Len(s) -> Bits]
    BY SeqDef, LenProperties
  <2>2. QED
    BY <1>4, <2>1 DEF Bytes
<1>5. QED
  BY <1>2, <1>3, <1>4

\* The master's registers keep their types and lengths.
LEMMA MasterTypes ==
  ASSUME MasterOK, SlaveOK, RegistersOK, LinkInv,
         NEW start \in BOOLEAN, Master(start),
         job' = IF start /\ state = "sIdle" THEN [addr |-> addrReg, len |-> lenReg] ELSE job
  PROVE  MasterOK'
<1>1. job' \in [addr : 0 .. (2 ^ AddressBits - 1), len : Nat]
  BY DEF MasterOK, RegistersOK
<1>2. CASE MIdle(start)
  <2>1. CASE start /\ lenReg # 0
    <3>1. tx' \in Seq(BOOLEAN) /\ Len(tx') <= Len(ReadCommand) + AddressBits
      <4>1. tx' = ReadCommand \o AddressToBits(addrReg)
        BY <1>2, <2>1 DEF MIdle
      <4>2. tx' \in Seq(BOOLEAN) /\ Len(tx') = Total
        BY <4>1, AddressSent DEF RegistersOK
      <4>3. QED
        BY <4>2, Sizes
    <3>2. rx' = <<>> /\ word' = <<>> /\ bytesRemaining' \in Nat /\ state' = "sSendSetup"
      BY <1>2, <2>1 DEF MIdle, RegistersOK
    <3>3. /\ cs_n' \in BOOLEAN /\ sclk' \in BOOLEAN /\ mosi' \in BOOLEAN /\ mdone' \in BOOLEAN
          /\ emitWord' = emitWord
      BY <1>2, <2>1 DEF MIdle, RegistersOK
    <3>4. QED
      BY <1>1, <3>1, <3>2, <3>3, Sizes, EmptySeq DEF MasterOK
  <2>2. CASE ~(start /\ lenReg # 0)
    BY <1>1, <1>2, <2>2 DEF MIdle, MasterOK, RegistersOK
  <2>3. QED
    BY <2>1, <2>2
<1>3. CASE MSendSetup
  <2>1. mosi' \in BOOLEAN
    BY <1>3, Sizes, HeadTailProperties DEF MSendSetup, MasterOK, LinkInv
  <2>2. QED
    BY <1>1, <1>3, <2>1 DEF MSendSetup, MasterOK
<1>4. CASE MSendRise
  <2>1. tx' \in Seq(BOOLEAN) /\ Len(tx') <= Len(tx)
    BY <1>4, Sizes, HeadTailProperties DEF MSendRise, MasterOK, LinkInv
  <2>2. Len(tx') <= Len(ReadCommand) + AddressBits
    BY <2>1, Sizes, LenProperties DEF MasterOK
  <2>3. QED
    BY <1>1, <1>4, <2>1, <2>2 DEF MSendRise, MasterOK
<1>5. CASE MReadSetup
  BY <1>1, <1>5 DEF MReadSetup, MasterOK
<1>6. CASE MReadWait
  BY <1>1, <1>6 DEF MReadWait, MasterOK
<1>7. CASE MReadRise
  <2> DEFINE byte == Append(rx, Miso)
  <2>1. Miso \in Bits
    BY BitTypes DEF Miso, SlaveOK
  <2>2. byte \in Seq(Bits) /\ Len(byte) = Len(rx) + 1
    BY <2>1, AppendProperties DEF MasterOK
  <2>3. bytesRemaining \in Nat \ {0} /\ job.len \in Nat
    BY <1>7 DEF MReadRise, LinkInv, MasterOK
  <2>4. CASE Len(byte) < ByteBits
    BY <1>1, <1>7, <2>2, <2>4 DEF MReadRise, MasterOK
  <2>5. CASE ~(Len(byte) < ByteBits)
    <3>1. byte \in Bytes
      <4>1. Len(byte) = ByteBits
        <5>1. Len(rx) \in Nat /\ Len(rx) < ByteBits
          BY LenProperties DEF MasterOK
        <5> HIDE DEF byte
        <5>2. QED
          BY <2>2, <2>5, <5>1, Sizes
      <4>2. QED
        BY <2>2, <4>1, BitTypes
    <3>2. Append(word, byte) \in Seq(Bytes) /\ Len(Append(word, byte)) = Len(word) + 1
      BY <3>1, AppendProperties DEF MasterOK
    <3>3. /\ rx' = <<>> /\ emitWord' = Append(word, byte)
          /\ word' = (IF Len(word) = WordBytes - 1 \/ bytesRemaining = 1 THEN <<>>
                      ELSE Append(word, byte))
          /\ bytesRemaining' = bytesRemaining - 1
          /\ state' \in {"sEmit", "sReadSetup"}
          /\ sclk' = TRUE /\ mdone' = FALSE /\ UNCHANGED <<cs_n, mosi, tx>>
      BY <1>7, <2>5 DEF MReadRise
    <3>4. bytesRemaining' \in Nat
      BY <2>3, <3>3
    <3>5. /\ rx' \in Seq(Bits) /\ Len(rx') < ByteBits
          /\ emitWord' \in Seq(Bytes) /\ Len(emitWord') <= WordBytes
      BY <3>2, <3>3, Sizes, EmptySeq, LenProperties DEF MasterOK
    <3>6. word' \in Seq(Bytes) /\ Len(word') < WordBytes
      BY <3>2, <3>3, Sizes, EmptySeq, LenProperties, SMTT(60) DEF MasterOK
    <3>7. QED
      BY <1>1, <3>3, <3>4, <3>5, <3>6 DEF MasterOK
  <2>6. QED
    BY <2>4, <2>5
<1>8. CASE MEmit
  BY <1>1, <1>8 DEF MEmit, MasterOK
<1>9. CASE MDone(start)
  BY <1>1, <1>9 DEF MDone, MasterOK
<1>10. QED
  BY <1>2, <1>3, <1>4, <1>5, <1>6, <1>7, <1>8, <1>9 DEF Master

\* A slave that is still taking in the command has not got all of it.
LEMMA CommandLength ==
  ASSUME MasterOK, SlaveOK, LinkInv, ~cs_n, sstate = "sCommand"
  PROVE  Len(command) < Len(ReadCommand)
<1>1. ASSUME NEW n \in 0 .. Total, SlaveHas(n)
      PROVE  Len(command) < Len(ReadCommand)
  BY <1>1, Sizes DEF SlaveHas
<1>2. Len(tx) \in Nat
  BY LenProperties DEF MasterOK
<1>3. CASE state = "sSendSetup"
  <2>1. Sent # 0 /\ SlaveHas(Sent - 1) /\ Sent - 1 \in 0 .. Total
    BY <1>2, <1>3, Sizes DEF LinkInv, SlaveReset, Sent
  <2>2. QED
    BY <1>1, <2>1
<1>4. CASE state = "sSendRise"
  <2>1. SlaveHas(Sent) /\ Sent \in 0 .. Total
    BY <1>2, <1>4, Sizes DEF LinkInv, Sent
  <2>2. QED
    BY <1>1, <2>1
<1>5. CASE state \in {"sReadSetup", "sReadWait", "sReadRise", "sEmit"}
  <2>1. SlaveHas(Total - 1) \/ SlaveHas(Total)
    BY <1>5 DEF LinkInv, Steady
  <2>2. QED
    BY <1>1, <2>1, Sizes
<1>6. QED
  BY <1>3, <1>4, <1>5 DEF LinkInv, MasterOK

\* The slave's registers keep their types: its bit counters never run past the bits.
LEMMA SlaveTypes ==
  ASSUME MasterOK, SlaveOK, LinkInv, Slave
  PROVE  SlaveOK'
<1>1. sclkPrev' \in BOOLEAN
  BY DEF Slave, MasterOK
<1>2. 0 \in 0 .. (2 ^ AddressBits - 1)
  BY Sizes
<1>3. CASE SDeselected
  <2>1. /\ sstate' = "sIdle" /\ command' = <<>> /\ address' = 0 /\ addressBits' = 0
        /\ out' = 0 /\ outputBits' = 0 /\ outputLoaded' = FALSE /\ miso' = ZeroBit
    BY <1>3 DEF SDeselected
  <2>2. <<>> \in Seq(BOOLEAN) /\ Len(<<>>) = 0 /\ ZeroBit \in Bits
    BY EmptySeq, BitTypes
  <2>3. 0 \in 0 .. (AddressBits - 1) /\ 0 \in 0 .. (ByteBits - 1) /\ 0 <= Len(ReadCommand)
    BY Sizes
  <2>4. QED
    BY <1>1, <1>2, <2>1, <2>2, <2>3 DEF SlaveOK
<1>4. CASE SQuiet
  BY <1>1, <1>4, BitTypes DEF SQuiet, SlaveOK
<1>5. CASE SCommand
  <2>1. command' \in Seq(BOOLEAN) /\ Len(command') = Len(command) + 1
    BY <1>5, AppendProperties DEF SCommand, SlaveOK, MasterOK
  <2>2. Len(command') <= Len(ReadCommand)
    BY <1>5, <2>1, CommandLength, Sizes, LenProperties DEF SCommand, SlaveOK
  <2>3. /\ sstate' \in {sstate, "sAddress", "sIgnore"}
        /\ UNCHANGED <<address, addressBits, out, outputBits, outputLoaded, miso>>
    BY <1>5 DEF SCommand
  <2>4. QED
    BY <1>1, <2>1, <2>2, <2>3 DEF SlaveOK
<1>6. CASE SAddress
  <2>1. ShiftIn(address, mosi) \in 0 .. (2 ^ AddressBits - 1)
    <3>1. 2 * address + (IF mosi THEN 1 ELSE 0) \in Int
      BY Sizes DEF SlaveOK
    <3>2. QED
      BY <3>1, Sizes DEF ShiftIn
  <2>2. addressBits' \in 0 .. (AddressBits - 1) /\ outputBits' \in 0 .. (ByteBits - 1)
    BY <1>6, Sizes DEF SAddress, SlaveOK
  <2>3. /\ address' \in 0 .. (2 ^ AddressBits - 1) /\ out' \in 0 .. (2 ^ AddressBits - 1)
        /\ outputLoaded' \in BOOLEAN /\ sstate' \in {sstate, "sData"}
        /\ UNCHANGED <<command, miso>>
    BY <1>6, <2>1 DEF SAddress, SlaveOK
  <2>4. QED
    BY <1>1, <2>2, <2>3 DEF SlaveOK
<1>7. CASE SData
  <2>1. nextAddress(address) \in 0 .. (2 ^ AddressBits - 1)
    BY NextAddressStep DEF SlaveOK
  <2>2. 1 \in 1 .. ByteBits /\ (outputBits # ByteBits - 1 => outputBits + 2 \in 1 .. ByteBits)
    BY Sizes DEF SlaveOK
  <2>3. /\ Bit(out, 1) \in Bits /\ Bit(nextAddress(address), 1) \in Bits
        /\ outputBits # ByteBits - 1 => Bit(out, outputBits + 2) \in Bits
    BY <2>1, <2>2, BitTypes, Sizes DEF SlaveOK
  <2>4. miso' \in Bits
    BY <1>7, <2>3, Sizes DEF SData, SlaveOK
  <2>5. /\ address' \in 0 .. (2 ^ AddressBits - 1) /\ out' \in 0 .. (2 ^ AddressBits - 1)
    BY <1>7, <2>1 DEF SData, SlaveOK
  <2>6. outputBits' \in 0 .. (ByteBits - 1)
    <3>1. outputBits' \in {0, outputBits, outputBits + 1}
      BY <1>7 DEF SData
    <3>2. outputBits' = outputBits + 1 => outputBits # ByteBits - 1
      BY <1>7, Sizes DEF SData, SlaveOK
    <3>3. QED
      BY <3>1, <3>2, Sizes DEF SlaveOK
  <2>7. QED
    BY <1>1, <1>7, <2>4, <2>5, <2>6 DEF SData, SlaveOK
<1>8. QED
  BY <1>3, <1>4, <1>5, <1>6, <1>7 DEF Slave

(* -------- the wires -------- *)

\* On a rising edge a slave that has n of the bits takes in the next.
LEMMA AbsorbBit ==
  ASSUME MasterOK, SlaveOK, Slave, ~cs_n, RisingEdge, job' = job,
         NEW n \in 0 .. (Total - 1), SlaveHas(n), mosi = SentBit(n + 1)
  PROVE  SlaveHas(n + 1)'
<1>1. n \in Int /\ job.addr \in 0 .. (2 ^ AddressBits - 1)
  BY Sizes DEF MasterOK
<1>2. CASE n < Len(ReadCommand)
  <2>1. /\ sstate = "sCommand" /\ address = 0 /\ addressBits = 0
        /\ outputBits = 0 /\ ~outputLoaded /\ Len(command) = n
        /\ mosi = ReadCommand[n + 1]
        /\ \A i \in 1 .. n : command[i] = ReadCommand[i]
    BY <1>1, <1>2, Sizes DEF SlaveHas, SentBit
  <2>2. SCommand
    BY <2>1 DEF Slave, SDeselected, SQuiet, SAddress, SData
  <2>3. /\ command' \in Seq(BOOLEAN) /\ Len(command') = n + 1
        /\ \A i \in 1 .. (n + 1) : command'[i] = ReadCommand[i]
    BY <1>1, <2>1, <2>2, AppendProperties, SMTT(60) DEF SCommand, SlaveOK, MasterOK
  <2>4. /\ address' = 0 /\ addressBits' = 0 /\ outputBits' = 0 /\ ~outputLoaded'
    BY <2>1, <2>2 DEF SCommand
  <2>5. CASE n + 1 < Len(ReadCommand)
    <3>1. sstate' = "sCommand"
      BY <2>1, <2>2, <2>3, <2>5 DEF SCommand
    <3>2. QED
      BY <1>1, <2>3, <2>4, <2>5, <3>1, Sizes DEF SlaveHas
  <2>6. CASE n + 1 = Len(ReadCommand)
    <3>1. command' = ReadCommand
      BY <2>3, <2>6, Sizes, SeqEqual
    <3>2. sstate' = "sAddress"
      BY <2>2, <2>3, <2>6, <3>1, Sizes DEF SCommand
    <3>3. Total - (n + 1) = AddressBits /\ n + 1 < Total
      BY <1>1, <2>6, Sizes
    <3>4. job.addr \div 2 ^ (Total - (n + 1)) = 0
      BY <1>1, <3>3, ShiftEnds
    <3>5. QED
      BY <1>1, <2>3, <2>4, <2>6, <3>2, <3>3, <3>4, Sizes DEF SlaveHas, Total
  <2>7. QED
    BY <1>1, <1>2, <2>5, <2>6, Sizes
<1>3. CASE n >= Len(ReadCommand)
  <2> DEFINE k == Total - (n + 1)
  <2>1. /\ sstate = "sAddress" /\ addressBits = n - Len(ReadCommand)
        /\ address = job.addr \div 2 ^ (Total - n)
        /\ outputBits = 0 /\ ~outputLoaded /\ Len(command) = Len(ReadCommand)
        /\ \A i \in 1 .. Len(ReadCommand) : command[i] = ReadCommand[i]
    BY <1>1, <1>3, Sizes DEF SlaveHas
  <2>2. SAddress
    BY <2>1 DEF Slave, SDeselected, SQuiet, SCommand, SData
  <2>3. k \in 0 .. (AddressBits - 1) /\ Total - n = k + 1
    BY <1>1, <1>3, Sizes
  <2>4. mosi = ((job.addr \div 2 ^ k) % 2 = 1)
    <3>1. /\ n + 1 - Len(ReadCommand) \in 1 .. AddressBits
          /\ AddressBits - (n + 1 - Len(ReadCommand)) = k
      BY <1>1, <1>3, Sizes
    <3>2. mosi = AddressToBits(job.addr)[n + 1 - Len(ReadCommand)]
      BY <1>1, <1>3, Sizes DEF SentBit
    <3>3. QED
      BY <3>1, <3>2 DEF AddressToBits
  <2>5. ShiftIn(address, mosi) = job.addr \div 2 ^ k
    BY <1>1, <2>1, <2>3, <2>4, ShiftStep
  <2>6. /\ address' = job.addr \div 2 ^ k /\ command' = command
        /\ outputBits' = 0 /\ ~outputLoaded'
    BY <2>1, <2>2, <2>5 DEF SAddress
  <2>7. CASE n + 1 < Total
    <3>1. addressBits # AddressBits - 1
      BY <1>1, <2>1, <2>7, Sizes
    <3>2. addressBits' = n + 1 - Len(ReadCommand) /\ sstate' = "sAddress"
      BY <1>1, <2>1, <2>2, <3>1, Sizes DEF SAddress
    <3>3. QED
      BY <1>1, <1>3, <2>1, <2>6, <2>7, <3>2, Sizes DEF SlaveHas, Total
  <2>8. CASE n + 1 = Total
    <3>1. addressBits = AddressBits - 1 /\ k = 0
      BY <1>1, <2>1, <2>8, Sizes
    <3>2. job.addr \div 2 ^ k = job.addr
      BY <1>1, <3>1, ShiftEnds
    <3>3. addressBits' = 0 /\ sstate' = "sData" /\ address' = job.addr /\ out' = job.addr
      BY <2>2, <2>5, <2>6, <3>1, <3>2 DEF SAddress
    <3>4. QED
      BY <1>1, <1>3, <2>1, <2>6, <2>8, <3>3, Sizes DEF SlaveHas, Total
  <2>9. QED
    BY <1>1, <2>7, <2>8, Sizes
<1>4. QED
  BY <1>1, <1>2, <1>3, Sizes

\* A deselected slave is reset; a selected one without an edge it listens to keeps
\* everything but, perhaps, that it sleeps.
LEMMA SlaveResets ==
  ASSUME cs_n, Slave
  PROVE  SlaveReset' /\ sclkPrev' = sclk
BY DEF Slave, SDeselected, SQuiet, SCommand, SAddress, SData, SlaveReset

\* While the clock is not held up, a slave in step with the master stays in step
\* through a cycle in which the clock falls or stays down.
LEMMA SteadyStays ==
  ASSUME MasterOK, SlaveOK, Slave, Steady, ~cs_n, ~(sclk /\ sclkPrev), sclk' = FALSE,
         UNCHANGED <<rx, bytesRemaining, job>>
  PROVE  Steady' /\ sclkPrev' = sclk
<1>1. sstate = "sData" /\ outputLoaded /\ address = out /\ sclkPrev' = sclk
  BY DEF Steady, Slave
<1>2. CASE FallingEdge
  <2>1. Behind /\ ~sclk' /\ ~sclkPrev'
    BY <1>1, <1>2 DEF Steady, FallingEdge
  <2>2. SData
    BY <1>1, <1>2 DEF Slave, SDeselected, SQuiet, SCommand, SAddress, RisingEdge, FallingEdge
  <2>3. sstate' = "sData" /\ outputLoaded'
    BY <1>1, <2>2 DEF SData
  <2>4. CASE rx = <<>>
    <3>1. outputBits = ByteBits - 1 /\ nextAddress(out) % Depth = NextByte % Depth /\ Len(rx) = 0
      BY <2>1, <2>4, EmptySeq DEF Behind
    <3>2. /\ address' = nextAddress(out) /\ out' = nextAddress(out) /\ outputBits' = 0
          /\ miso' = Bit(nextAddress(out), 1)
      BY <1>1, <2>2, <3>1, Sizes DEF SData
    <3>3. Ahead'
      BY <3>1, <3>2, <2>4 DEF Ahead, NextByte
    <3>4. QED
      BY <1>1, <2>1, <2>3, <3>2, <3>3 DEF Steady
  <2>5. CASE rx # <<>>
    <3>1. outputBits = Len(rx) - 1 /\ out % Depth = NextByte % Depth /\ Len(rx) < ByteBits
          /\ Len(rx) \in Nat
      BY <2>1, <2>5, LenProperties DEF Behind, MasterOK
    <3>2. /\ address' = out /\ out' = out /\ outputBits' = Len(rx)
          /\ miso' = Bit(out, Len(rx) + 1)
      BY <1>1, <2>2, <3>1, Sizes DEF SData
    <3>3. Ahead'
      BY <3>1, <3>2 DEF Ahead, NextByte
    <3>4. QED
      BY <1>1, <2>1, <2>3, <3>2, <3>3 DEF Steady
  <2>6. QED
    BY <2>4, <2>5
<1>3. CASE ~FallingEdge
  <2>1. SQuiet
    BY <1>1, <1>3 DEF Slave, SDeselected, SCommand, SAddress, SData
  <2>2. /\ sstate' = "sData" /\ outputLoaded' /\ address' = out'
        /\ UNCHANGED <<out, outputBits, miso>>
    BY <1>1, <2>1 DEF SQuiet
  <2>3. (sclk \/ sclkPrev) = (sclk' \/ sclkPrev')
    BY <1>1, <1>3 DEF FallingEdge, MasterOK, SlaveOK
  <2>4. Behind' = Behind /\ Ahead' = Ahead
    BY <2>2 DEF Behind, Ahead, NextByte
  <2>5. QED
    BY <1>1, <2>2, <2>3, <2>4 DEF Steady
<1>4. QED
  BY <1>2, <1>3

\* The first bit of the data: the slave that has the address loads it on the falling edge.
LEMMA FirstBit ==
  ASSUME MasterOK, SlaveOK, Slave, SlaveHas(Total), FirstByte, ~cs_n, ~sclk, sclkPrev,
         sclk' = FALSE, UNCHANGED <<rx, bytesRemaining, job>>
  PROVE  Steady' /\ ~sclkPrev'
<1>1. /\ sstate = "sData" /\ address = job.addr /\ out = job.addr
      /\ outputBits = 0 /\ ~outputLoaded
  BY Sizes DEF SlaveHas
<1>2. SData
  BY <1>1 DEF Slave, SDeselected, SQuiet, SCommand, SAddress, RisingEdge, FallingEdge
<1>3. /\ sstate' = "sData" /\ outputLoaded' /\ miso' = Bit(out, 1)
      /\ UNCHANGED <<address, out, outputBits>> /\ ~sclkPrev'
  BY <1>1, <1>2 DEF SData, Slave
<1>4. NextByte' = job.addr /\ Len(rx') = 0 /\ 0 + 1 = 1
  BY EmptySeq DEF FirstByte, NextByte, MasterOK
<1>5. Ahead'
  BY <1>1, <1>3, <1>4 DEF Ahead
<1>6. QED
  BY <1>1, <1>3, <1>5 DEF Steady

\* Sampling a bit: the slave is a bit behind until it sees the clock fall.
LEMMA SampleBit ==
  ASSUME MasterOK, SlaveOK, LinkInv, MReadRise, Slave, job' = job
  PROVE  Steady' /\ sclk' /\ ~sclkPrev'
<1>1. /\ ~cs_n /\ ~sclk /\ ~sclkPrev /\ Steady /\ bytesRemaining \in 1 .. job.len
  BY DEF LinkInv, MReadRise
<1>2. sstate = "sData" /\ outputLoaded /\ address = out /\ Ahead
  BY <1>1 DEF Steady
<1>3. SQuiet
  BY <1>1, <1>2 DEF Slave, SDeselected, SCommand, SAddress, SData, RisingEdge, FallingEdge
<1>4. /\ sstate' = "sData" /\ outputLoaded' /\ address' = out'
      /\ UNCHANGED <<out, outputBits>> /\ sclk' /\ ~sclkPrev'
  BY <1>1, <1>2, <1>3 DEF SQuiet, Slave, MReadRise
<1>5. outputBits = Len(rx) /\ out % Depth = NextByte % Depth /\ Len(rx) \in Nat
  BY <1>2, LenProperties DEF Ahead, MasterOK
<1>6. Miso \in Bits
  BY BitTypes DEF Miso, SlaveOK
<1>7. Append(rx, Miso) # <<>> /\ Len(Append(rx, Miso)) = Len(rx) + 1
  BY <1>6, AppendProperties, EmptySeq, SMTT(60) DEF MasterOK
<1>8. CASE Len(rx) + 1 < ByteBits
  <2>1. rx' = Append(rx, Miso) /\ bytesRemaining' = bytesRemaining
    BY <1>7, <1>8 DEF MReadRise
  <2>2. Behind'
    BY <1>4, <1>5, <1>7, <2>1, Sizes DEF Behind, NextByte
  <2>3. QED
    BY <1>4, <2>2 DEF Steady
<1>9. CASE ~(Len(rx) + 1 < ByteBits)
  <2>1. rx' = <<>> /\ bytesRemaining' = bytesRemaining - 1
    BY <1>7, <1>9 DEF MReadRise
  <2>2. outputBits = ByteBits - 1
    <3>1. Len(rx) < ByteBits /\ ByteBits \in Int
      BY Sizes DEF MasterOK
    <3>2. QED
      BY <1>5, <1>9, <3>1
  <2>3. NextByte' = NextByte + 1 /\ NextByte \in Int /\ out \in Int
    BY <1>1, <2>1, Sizes, SMTT(60) DEF NextByte, MasterOK, SlaveOK
  <2>4. (out + 1) % Depth = (NextByte + 1) % Depth
    BY <1>5, <2>3, Sizes, ModStep
  <2>5. nextAddress(out) % Depth = (out + 1) % Depth
    BY NextAddressStep DEF SlaveOK
  <2>6. Behind'
    BY <1>4, <2>1, <2>2, <2>3, <2>4, <2>5 DEF Behind
  <2>7. QED
    BY <1>4, <2>6 DEF Steady
<1>10. QED
  BY <1>8, <1>9

\* What a clock cycle makes of the link, one state of the master after the other.
LEMMA IdleKeepsLink ==
  ASSUME MasterOK, SlaveOK, RegistersOK, LinkInv, NEW start \in BOOLEAN, MIdle(start), Slave,
         job' = IF start /\ state = "sIdle" THEN [addr |-> addrReg, len |-> lenReg] ELSE job
  PROVE  LinkInv'
<1>1. state = "sIdle" /\ cs_n /\ ~sclk /\ SlaveReset' /\ ~sclkPrev' /\ ~sclk'
  BY SlaveResets DEF MIdle, LinkInv
<1>2. CASE start /\ lenReg # 0
  <2>1. /\ state' = "sSendSetup" /\ ~cs_n' /\ tx' = ReadCommand \o AddressToBits(addrReg)
        /\ FirstByte' /\ job' = [addr |-> addrReg, len |-> lenReg]
    BY <1>1, <1>2 DEF MIdle, FirstByte
  <2>2. job'.len > 0 /\ job'.addr = addrReg /\ addrReg \in 0 .. (2 ^ AddressBits - 1)
    BY <1>2, <2>1 DEF RegistersOK
  <2>3. Len(tx') = Total /\ Total \in Nat \ {0} /\ Sent' = 0
    BY <2>1, <2>2, AddressSent, Sizes DEF Sent, Total
  <2>4. ASSUME NEW i \in 1 .. Len(tx') PROVE tx'[i] = SentBit(Sent + i)'
    BY <2>1, <2>2, <2>3, AddressSent DEF SentBit
  <2>5. QED
    BY <1>1, <2>1, <2>2, <2>3, <2>4 DEF LinkInv
<1>3. CASE ~(start /\ lenReg # 0)
  <2>1. state' \in {"sIdle", "sDone"} /\ cs_n'
    BY <1>1, <1>3 DEF MIdle
  <2>2. QED
    BY <1>1, <2>1 DEF LinkInv
<1>4. QED
  BY <1>2, <1>3

LEMMA SendSetupKeepsLink ==
  ASSUME MasterOK, SlaveOK, LinkInv, MSendSetup, Slave, job' = job
  PROVE  LinkInv'
<1>1. /\ state = "sSendSetup" /\ ~cs_n /\ FirstByte /\ job.len > 0
      /\ Len(tx) \in 1 .. Total /\ \A i \in 1 .. Len(tx) : tx[i] = SentBit(Sent + i)
  BY DEF MSendSetup, LinkInv
<1>2. /\ state' = "sSendRise" /\ ~sclk' /\ mosi' = tx[1]
      /\ UNCHANGED <<cs_n, tx, rx, bytesRemaining, word, job>>
  BY <1>1, Sizes, HeadTailProperties DEF MSendSetup, MasterOK
<1>3. Sent \in 0 .. (Total - 1) /\ 1 \in 1 .. Len(tx)
  BY <1>1, Sizes DEF Sent
<1>4. mosi' = SentBit(Sent + 1)
  BY <1>1, <1>2, <1>3
<1>5. SlaveHas(Sent)'
  <2>1. CASE Sent = 0
    <3>1. ~sclk /\ ~sclkPrev /\ SlaveReset
      BY <1>1, <2>1 DEF LinkInv
    <3>2. SQuiet
      BY <1>1, <3>1 DEF Slave, SDeselected, SCommand, SAddress, SData, SlaveReset
    <3>3. /\ sstate' = "sCommand" /\ command' = <<>> /\ address' = 0 /\ addressBits' = 0
          /\ outputBits' = 0 /\ ~outputLoaded'
      BY <3>1, <3>2 DEF SQuiet, SlaveReset
    <3>4. Sent' = 0
      BY <1>2, <2>1 DEF Sent
    <3>5. SlaveHas(0)'
      BY <3>3, Sizes, EmptySeq DEF SlaveHas
    <3>6. QED
      BY <3>4, <3>5 DEF SlaveHas
  <2>2. CASE Sent # 0
    <3>1. sclk /\ ~sclkPrev /\ mosi = SentBit(Sent) /\ SlaveHas(Sent - 1)
      BY <1>1, <2>2 DEF LinkInv
    <3>2. PICK n \in 0 .. (Total - 1) : n + 1 = Sent /\ n = Sent - 1
      BY <1>3, <2>2, Sizes
    <3>3. SlaveHas(n) /\ mosi = SentBit(n + 1) /\ RisingEdge
      BY <3>1, <3>2 DEF RisingEdge
    <3>4. SlaveHas(n + 1)'
      BY <1>1, <1>2, <3>3, AbsorbBit
    <3>5. Sent' = n + 1
      BY <1>2, <3>2 DEF Sent
    <3>6. QED
      BY <3>4, <3>5 DEF SlaveHas
  <2>3. QED
    BY <2>1, <2>2
<1>6. Sent' = Sent /\ FirstByte' /\ job'.len > 0
  BY <1>1, <1>2 DEF Sent, FirstByte
<1>7. \A i \in 1 .. Len(tx') : tx'[i] = SentBit(Sent + i)'
  BY <1>1, <1>2, <1>6 DEF SentBit
<1>8. mosi' = SentBit(Sent + 1)'
  BY <1>2, <1>4, <1>6 DEF SentBit
<1>9. Len(tx') \in 1 .. Total
  BY <1>1, <1>2
<1>10. QED
  BY <1>1, <1>2, <1>5, <1>6, <1>7, <1>8, <1>9 DEF LinkInv

LEMMA SendRiseKeepsLink ==
  ASSUME MasterOK, SlaveOK, LinkInv, MSendRise, Slave, job' = job
  PROVE  LinkInv'
<1>1. /\ state = "sSendRise" /\ ~cs_n /\ ~sclk /\ FirstByte /\ job.len > 0
      /\ mosi = SentBit(Sent + 1) /\ SlaveHas(Sent)
      /\ Len(tx) \in 1 .. Total /\ \A i \in 1 .. Len(tx) : tx[i] = SentBit(Sent + i)
  BY DEF MSendRise, LinkInv
<1>2. Sent \in 0 .. (Total - 1)
  BY <1>1, Sizes DEF Sent
<1>3. /\ sclk' /\ tx' = Tail(tx) /\ state' = (IF Len(tx) = 1 THEN "sReadSetup" ELSE "sSendSetup")
      /\ UNCHANGED <<cs_n, mosi, rx, bytesRemaining, word, job>>
  BY DEF MSendRise
<1>4. Len(tx') = Len(tx) - 1 /\ \A i \in 1 .. (Len(tx) - 1) : tx'[i] = tx[i + 1]
  BY <1>1, <1>3, HeadTailProperties, EmptySeq DEF MasterOK
<1>5. Sent' = Sent + 1
  BY <1>1, <1>4, Sizes DEF Sent
<1>6. SQuiet /\ ~sclkPrev'
  <2>1. sstate \in {"sCommand", "sAddress"}
    BY <1>1, <1>2, Sizes DEF SlaveHas
  <2>2. QED
    BY <1>1, <2>1 DEF Slave, SDeselected, SCommand, SAddress, SData, RisingEdge
<1>7. SlaveHas(Sent - 1)'
  <2>1. sstate # "sIdle"
    BY <1>1, <1>2, Sizes DEF SlaveHas
  <2>2. UNCHANGED <<sstate, command, address, addressBits, out, outputBits, outputLoaded, job>>
    BY <1>3, <1>6, <2>1 DEF SQuiet
  <2>3. Sent' - 1 = Sent
    BY <1>2, <1>5, Sizes
  <2>4. QED
    BY <1>1, <2>2, <2>3 DEF SlaveHas
<1>8. mosi' = SentBit(Sent)'
  BY <1>1, <1>3, <1>5 DEF SentBit
<1>9. FirstByte' /\ job'.len > 0 /\ bytesRemaining' \in 1 .. job'.len
  BY <1>1, <1>3 DEF FirstByte, MasterOK
<1>10. CASE Len(tx) = 1
  <2>1. Sent' = Total
    BY <1>4, <1>10, Sizes DEF Sent
  <2>2. SlaveHas(Total - 1)' /\ mosi' = SentBit(Total)'
    BY <1>7, <1>8, <2>1 DEF SlaveHas, SentBit
  <2>3. QED
    BY <1>1, <1>3, <1>6, <1>9, <1>10, <2>2 DEF LinkInv
<1>11. CASE Len(tx) # 1
  <2>1. Len(tx') \in 1 .. Total
    BY <1>1, <1>4, <1>11, Sizes
  <2>2. ASSUME NEW i \in 1 .. Len(tx') PROVE tx'[i] = SentBit(Sent + i)'
    <3>1. i + 1 \in 1 .. Len(tx) /\ tx'[i] = tx[i + 1] /\ Sent' + i = Sent + (i + 1)
      BY <1>1, <1>2, <1>4, <1>5, Sizes
    <3>2. QED
      BY <1>1, <1>3, <3>1 DEF SentBit
  <2>3. Sent' # 0
    BY <1>2, <1>5, Sizes
  <2>4. QED
    BY <1>1, <1>3, <1>6, <1>7, <1>8, <1>9, <1>11, <2>1, <2>2, <2>3 DEF LinkInv
<1>12. QED
  BY <1>10, <1>11

LEMMA ReadSetupKeepsLink ==
  ASSUME MasterOK, SlaveOK, LinkInv, MReadSetup, Slave, job' = job
  PROVE  LinkInv'
<1>1. state = "sReadSetup" /\ ~cs_n /\ bytesRemaining \in 1 .. job.len
  BY DEF MReadSetup, LinkInv
<1>2. /\ state' = "sReadWait" /\ ~sclk' /\ sclk' = FALSE
      /\ UNCHANGED <<cs_n, tx, rx, bytesRemaining, word, job>>
  BY DEF MReadSetup
<1>3. CASE sclk /\ ~sclkPrev /\ mosi = SentBit(Total) /\ SlaveHas(Total - 1) /\ FirstByte
  <2>1. PICK n \in 0 .. (Total - 1) : n + 1 = Total /\ n = Total - 1
    BY Sizes
  <2>2. SlaveHas(n) /\ mosi = SentBit(n + 1) /\ RisingEdge
    BY <1>3, <2>1 DEF RisingEdge
  <2>3. SlaveHas(n + 1)'
    BY <1>1, <1>2, <2>2, AbsorbBit
  <2>4. SlaveHas(Total)' /\ sclkPrev' /\ FirstByte'
    BY <1>2, <1>3, <2>1, <2>3 DEF FirstByte, Slave
  <2>5. QED
    BY <1>1, <1>2, <2>4 DEF LinkInv
<1>4. CASE ~(sclk /\ sclkPrev) /\ Steady
  <2>1. Steady'
    BY <1>1, <1>2, <1>4, SteadyStays
  <2>2. QED
    BY <1>1, <1>2, <2>1 DEF LinkInv
<1>5. QED
  BY <1>1, <1>3, <1>4 DEF LinkInv

LEMMA ReadWaitKeepsLink ==
  ASSUME MasterOK, SlaveOK, LinkInv, MReadWait, Slave, job' = job
  PROVE  LinkInv'
<1>1. state = "sReadWait" /\ ~cs_n /\ ~sclk /\ bytesRemaining \in 1 .. job.len
  BY DEF MReadWait, LinkInv
<1>2. /\ state' = "sReadRise" /\ ~sclk' /\ sclk' = FALSE
      /\ UNCHANGED <<cs_n, tx, rx, bytesRemaining, word, job>>
  BY DEF MReadWait
<1>3. Steady' /\ ~sclkPrev'
  <2>1. CASE sclkPrev /\ SlaveHas(Total) /\ FirstByte
    BY <1>1, <1>2, <2>1, FirstBit
  <2>2. CASE Steady
    <3>1. ~(sclk /\ sclkPrev) /\ sclk = FALSE
      BY <1>1 DEF MasterOK
    <3>2. Steady' /\ sclkPrev' = sclk
      BY <1>1, <1>2, <2>2, <3>1, SteadyStays
    <3>3. QED
      BY <3>1, <3>2
  <2>3. QED
    BY <1>1, <2>1, <2>2 DEF LinkInv
<1>4. QED
  BY <1>1, <1>2, <1>3 DEF LinkInv

LEMMA ReadRiseKeepsLink ==
  ASSUME MasterOK, SlaveOK, LinkInv, MReadRise, Slave, job' = job
  PROVE  LinkInv'
<1>1. state = "sReadRise" /\ ~cs_n /\ bytesRemaining \in 1 .. job.len /\ job.len \in Nat
  BY DEF MReadRise, LinkInv, MasterOK
<1>2. Steady' /\ sclk' /\ ~sclkPrev'
  BY SampleBit
<1>3. ~cs_n' /\ job' = job
  BY <1>1 DEF MReadRise
<1>4. \/ state' = "sReadSetup" /\ bytesRemaining' \in 1 .. job.len
      \/ state' = "sEmit" /\ rx' = <<>> /\ bytesRemaining' \in 0 .. (job.len - 1)
  <2> DEFINE byte == Append(rx, Miso)
  <2>1. CASE Len(byte) < ByteBits
    BY <1>1, <2>1 DEF MReadRise
  <2>2. CASE ~(Len(byte) < ByteBits)
    <3>1. /\ rx' = <<>> /\ bytesRemaining' = bytesRemaining - 1
          /\ state' = "sEmit" \/ (state' = "sReadSetup" /\ bytesRemaining # 1)
      BY <2>2 DEF MReadRise
    <3>2. QED
      BY <1>1, <3>1
  <2>3. QED
    BY <2>1, <2>2
<1>5. QED
  BY <1>2, <1>3, <1>4 DEF LinkInv

LEMMA EmitKeepsLink ==
  ASSUME MasterOK, SlaveOK, LinkInv, MEmit, Slave, job' = job
  PROVE  LinkInv'
<1>1. /\ state = "sEmit" /\ ~cs_n /\ ~(sclk /\ sclkPrev) /\ Steady /\ rx = <<>>
      /\ bytesRemaining \in 0 .. (job.len - 1) /\ job.len \in Nat
  BY DEF MEmit, LinkInv, MasterOK
<1>2. sclk' = FALSE /\ UNCHANGED <<rx, bytesRemaining, job>>
  BY DEF MEmit
<1>3. Steady' /\ sclkPrev' = sclk
  BY <1>1, <1>2, SteadyStays
<1>4. \/ state' = "sDone" /\ cs_n'
      \/ state' = "sEmit" /\ ~cs_n'
      \/ state' = "sReadSetup" /\ ~cs_n' /\ bytesRemaining' \in 1 .. job.len
  BY <1>1 DEF MEmit
<1>5. QED
  BY <1>1, <1>2, <1>3, <1>4 DEF LinkInv

LEMMA DoneKeepsLink ==
  ASSUME MasterOK, SlaveOK, LinkInv, NEW start \in BOOLEAN, MDone(start), Slave
  PROVE  LinkInv'
<1>1. cs_n /\ ~sclk
  BY DEF MDone, LinkInv
<1>2. SlaveReset' /\ ~sclkPrev'
  BY <1>1, SlaveResets
<1>3. state' \in {"sIdle", "sDone"} /\ cs_n' /\ ~sclk'
  BY DEF MDone
<1>4. QED
  BY <1>2, <1>3 DEF LinkInv

\* What a cycle does to the circuit, for every access of the hart.
CircuitOK == MasterOK /\ SlaveOK /\ LinkInv

LEMMA ClockKeepsCircuit ==
  ASSUME CircuitOK, RegistersOK, NEW start \in BOOLEAN, NEW clear \in BOOLEAN,
         NEW pop \in BOOLEAN, Clock(start, clear, pop)
  PROVE  CircuitOK'
<1>1. MasterOK /\ SlaveOK /\ LinkInv /\ Master(start) /\ Slave
  BY DEF CircuitOK, Clock
<1>2. job' = IF start /\ state = "sIdle" THEN [addr |-> addrReg, len |-> lenReg] ELSE job
  BY DEF Clock
<1>3. MasterOK' /\ SlaveOK'
  BY <1>1, <1>2, MasterTypes, SlaveTypes
<1>4. state # "sIdle" => job' = job
  BY <1>2
<1>5. LinkInv'
  <2>1. CASE MIdle(start)
    BY <1>1, <1>2, <2>1, IdleKeepsLink
  <2>2. CASE MSendSetup
    BY <1>1, <1>4, <2>2, SendSetupKeepsLink DEF MSendSetup
  <2>3. CASE MSendRise
    BY <1>1, <1>4, <2>3, SendRiseKeepsLink DEF MSendRise
  <2>4. CASE MReadSetup
    BY <1>1, <1>4, <2>4, ReadSetupKeepsLink DEF MReadSetup
  <2>5. CASE MReadWait
    BY <1>1, <1>4, <2>5, ReadWaitKeepsLink DEF MReadWait
  <2>6. CASE MReadRise
    BY <1>1, <1>4, <2>6, ReadRiseKeepsLink DEF MReadRise
  <2>7. CASE MEmit
    BY <1>1, <1>4, <2>7, EmitKeepsLink DEF MEmit
  <2>8. CASE MDone(start)
    BY <1>1, <2>8, DoneKeepsLink
  <2>9. QED
    BY <1>1, <2>1, <2>2, <2>3, <2>4, <2>5, <2>6, <2>7, <2>8 DEF Master
<1>6. QED
  BY <1>3, <1>5 DEF CircuitOK

(* -------- the registers and the driver -------- *)

LEMMA FifoTypes ==
  ASSUME MasterOK, RegistersOK, NEW pop \in BOOLEAN, pop => fifo # <<>>
  PROVE  /\ QueueNext(pop) \in Seq(Seq(Bytes)) /\ Len(QueueNext(pop)) <= FifoDepth
         /\ fifo # <<>> => Head(fifo) \in Seq(Bytes)
<1> DEFINE rest == IF pop THEN Tail(fifo) ELSE fifo
<1>1. /\ fifo \in Seq(Seq(Bytes)) /\ Len(fifo) \in Nat /\ Len(fifo) <= FifoDepth
      /\ FifoDepth \in Nat /\ emitWord \in Seq(Bytes)
  BY Sizes, LenProperties DEF RegistersOK, MasterOK
<1>2. rest \in Seq(Seq(Bytes)) /\ Len(rest) \in Nat /\ Len(rest) <= Len(fifo)
  BY <1>1, HeadTailProperties, LenProperties
<1>3. Append(rest, emitWord) \in Seq(Seq(Bytes)) /\ Len(Append(rest, emitWord)) = Len(rest) + 1
  BY <1>1, <1>2, AppendProperties
<1>4. fifo # <<>> => Head(fifo) \in Seq(Bytes)
  BY <1>1, HeadTailProperties
<1> HIDE DEF rest
<1>5. QueueNext(pop) = IF state = "sEmit" /\ Len(fifo) < FifoDepth
                       THEN Append(rest, emitWord) ELSE rest
  BY DEF QueueNext, FifoReady, rest
<1>6. QED
  BY <1>1, <1>2, <1>3, <1>4, <1>5

\* What is unpacked of a word fits into the buffer.
LEMMA UnpackTypes ==
  ASSUME DriverOK, NEW w \in Seq(Bytes)
  PROVE  /\ buffer \o Unpack(w) \in Seq(Bytes)
         /\ Len(buffer \o Unpack(w)) <= cur.len
         /\ Unpack(w) \in Seq(Bytes)
         /\ Len(Unpack(w)) = IF cur.len - Len(buffer) < WordBytes THEN cur.len - Len(buffer)
                             ELSE WordBytes
         /\ \A i \in 1 .. Len(Unpack(w)) : i <= Len(w) => Unpack(w)[i] = w[i]
<1> DEFINE room == cur.len - Len(buffer)
           n == IF room < WordBytes THEN room ELSE WordBytes
<1>1. buffer \in Seq(Bytes) /\ Len(buffer) \in Nat /\ cur.len \in Nat /\ room \in Nat
  BY TransfersAssumption, LenProperties DEF DriverOK
<1>2. n \in Nat /\ n <= room
  BY <1>1, Sizes
<1>3. [b \in 1 .. ByteBits |-> ZeroBit] \in Bytes
  BY BitTypes DEF Bytes
<1> HIDE DEF n
<1>4. Unpack(w) = [i \in 1 .. n |-> IF i <= Len(w) THEN w[i] ELSE [b \in 1 .. ByteBits |-> ZeroBit]]
  BY DEF Unpack, n
<1>5. ASSUME NEW i \in 1 .. n
      PROVE  (IF i <= Len(w) THEN w[i] ELSE [b \in 1 .. ByteBits |-> ZeroBit]) \in Bytes
  BY <1>2, <1>3, ElementOfSeq, LenProperties
<1>6. Unpack(w) \in Seq(Bytes) /\ Len(Unpack(w)) = n
  <2>1. Unpack(w) \in [1 .. n -> Bytes]
    BY <1>4, <1>5
  <2>2. Unpack(w) \in Seq(Bytes)
    BY <1>2, <2>1, SeqDef
  <2>3. DOMAIN Unpack(w) = 1 .. n
    BY <2>1
  <2>4. QED
    BY <1>2, <2>2, <2>3, LenProperties
<1>7. buffer \o Unpack(w) \in Seq(Bytes) /\ Len(buffer \o Unpack(w)) = Len(buffer) + n
  BY <1>1, <1>6, ConcatProperties
<1>8. Len(buffer) + n <= cur.len
  BY <1>1, <1>2
<1>9. QED
  BY <1>4, <1>6, <1>7, <1>8 DEF n


\* The hart's accesses and the cycles without one, as a cycle of the circuit.
CycleOf(start, clear, pop) ==
  /\ Clock(start, clear, pop)
  /\ pop => dpc = "read_data" /\ fifo # <<>>
  /\ start => dpc = "start_read" /\ CommandReady /\ wait = 0

LEMMA EveryStepIsACycle ==
  ASSUME Next
  PROVE  \E start \in BOOLEAN, clear \in BOOLEAN, pop \in BOOLEAN : CycleOf(start, clear, pop)
<1>1. CASE CycleOf(FALSE, FALSE, FALSE)
  BY <1>1
<1>2. CASE CycleOf(FALSE, TRUE, FALSE)
  BY <1>2
<1>3. CASE CycleOf(TRUE, FALSE, FALSE)
  BY <1>3
<1>4. CASE CycleOf(FALSE, FALSE, TRUE)
  BY <1>4
<1>5. CASE CallReadFlash \/ WriteAddr \/ WriteLen \/ PollReady \/ PollDone \/ Trap \/ HartIdle
  BY <1>1, <1>5 DEF CallReadFlash, WriteAddr, WriteLen, PollReady, PollDone, Trap, HartIdle, CycleOf
<1>6. CASE ClearDone
  BY <1>2, <1>6 DEF ClearDone, CycleOf
<1>7. CASE StartRead
  BY <1>3, <1>7 DEF StartRead, CycleOf, Access
<1>8. CASE ReadData
  BY <1>4, <1>8 DEF ReadData, CycleOf, Access
<1>9. QED
  BY <1>5, <1>6, <1>7, <1>8 DEF Next, DriverStep

LEMMA RegisterTypes ==
  ASSUME TypeOK, Next
  PROVE  RegistersOK'
<1>1. PICK start \in BOOLEAN, clear \in BOOLEAN, pop \in BOOLEAN : CycleOf(start, clear, pop)
  BY EveryStepIsACycle
<1>2. fifo' = QueueNext(pop) /\ doneSticky' = DoneNext(start \/ clear)
  BY <1>1 DEF CycleOf, Clock
<1>3. fifo' \in Seq(Seq(Bytes)) /\ Len(fifo') <= FifoDepth
  BY <1>1, <1>2, FifoTypes DEF CycleOf, TypeOK
<1>4. doneSticky' \in BOOLEAN
  BY <1>2 DEF DoneNext
<1>5. addrReg' \in {addrReg, cur.addr} /\ lenReg' \in {lenReg, cur.len}
  BY DEF Next, DriverStep, CallReadFlash, WriteAddr, WriteLen, ClearDone, StartRead,
         PollReady, ReadData, PollDone, Trap, HartIdle, regs, driver
<1>6. cur.addr \in 0 .. (2 ^ AddressBits - 1) /\ cur.len \in Nat
  BY TransfersAssumption DEF TypeOK, DriverOK
<1>7. QED
  BY <1>3, <1>4, <1>5, <1>6 DEF TypeOK, RegistersOK

LEMMA DriverTypes ==
  ASSUME TypeOK, Next
  PROVE  DriverOK'
<1>1. wait' \in 0 .. (AccessGap - 1)
  <2>1. wait' \in {wait, AccessGap - 1, 0} \/ (wait > 0 /\ wait' = wait - 1)
    BY DEF Next, DriverStep, CallReadFlash, WriteAddr, WriteLen, ClearDone, StartRead,
           PollReady, ReadData, PollDone, Trap, HartIdle, Access
  <2>2. QED
    BY <2>1, Sizes DEF TypeOK, DriverOK
<1>2. dpc' \in {"return", "write_addr", "write_len", "clear_done", "start_read",
                "poll_ready", "read_data", "poll_done"}
  BY DEF Next, DriverStep, CallReadFlash, WriteAddr, WriteLen, ClearDone, StartRead,
         PollReady, ReadData, PollDone, Trap, HartIdle, driver, TypeOK, DriverOK
<1>3. cur' \in Transfers /\ buffer' \in Seq(Bytes) /\ Len(buffer') <= cur'.len
  <2>1. CASE CallReadFlash
    <3>1. cur' \in Transfers /\ buffer' = <<>>
      BY <2>1 DEF CallReadFlash
    <3>2. QED
      BY <3>1, EmptySeq, TransfersAssumption
  <2>2. CASE ReadData
    <3>1. fifo # <<>> /\ buffer' = buffer \o Unpack(Head(fifo)) /\ cur' = cur
      BY <2>2 DEF ReadData
    <3>2. Head(fifo) \in Seq(Bytes)
      BY <3>1, HeadTailProperties DEF TypeOK, RegistersOK
    <3>3. QED
      BY <3>1, <3>2, UnpackTypes DEF TypeOK, DriverOK
  <2>3. CASE ~CallReadFlash /\ ~ReadData
    <3>1. UNCHANGED <<cur, buffer>>
      BY <2>3 DEF Next, DriverStep, WriteAddr, WriteLen, ClearDone, StartRead,
                  PollReady, PollDone, Trap, HartIdle, driver
    <3>2. QED
      BY <3>1 DEF TypeOK, DriverOK
  <2>4. QED
    BY <2>1, <2>2, <2>3
<1>4. QED
  BY <1>1, <1>2, <1>3 DEF DriverOK

\* The inductive invariant of the whole.
WholeInv == TypeOK /\ LinkInv

LEMMA WholeInit == ASSUME Init PROVE WholeInv
<1>1. /\ 0 \in 0 .. (2 ^ AddressBits - 1) /\ 0 \in 0 .. (AddressBits - 1)
      /\ 0 \in 0 .. (ByteBits - 1) /\ 0 \in 0 .. (AccessGap - 1)
      /\ 0 < ByteBits /\ 0 < WordBytes /\ 0 <= WordBytes /\ 0 <= FifoDepth
      /\ 0 <= Len(ReadCommand) /\ 0 <= Len(ReadCommand) + AddressBits
  BY Sizes
<1>2. <<>> \in Seq(BOOLEAN) /\ <<>> \in Seq(Bits) /\ <<>> \in Seq(Bytes)
      /\ <<>> \in Seq(Seq(Bytes)) /\ Len(<<>>) = 0
  BY EmptySeq
<1>3. MasterOK
  <2>1. job \in [addr : 0 .. (2 ^ AddressBits - 1), len : Nat]
    BY <1>1 DEF Init
  <2>2. /\ tx \in Seq(BOOLEAN) /\ Len(tx) = 0 /\ rx \in Seq(Bits) /\ Len(rx) = 0
        /\ word \in Seq(Bytes) /\ Len(word) = 0 /\ emitWord \in Seq(Bytes) /\ Len(emitWord) = 0
    BY <1>2 DEF Init
  <2>3. QED
    BY <1>1, <2>1, <2>2 DEF Init, MasterOK
<1>4. SlaveOK
  <2>1. command \in Seq(BOOLEAN) /\ Len(command) = 0 /\ miso \in Bits
    BY <1>2, BitTypes DEF Init
  <2>2. QED
    BY <1>1, <2>1 DEF Init, SlaveOK
<1>5. RegistersOK
  <2>1. fifo \in Seq(Seq(Bytes)) /\ Len(fifo) = 0
    BY <1>2 DEF Init
  <2>2. QED
    BY <1>1, <2>1 DEF Init, RegistersOK
<1>6. DriverOK
  BY <1>1, <1>2, TransfersAssumption DEF Init, DriverOK
<1>7. LinkInv
  BY DEF Init, LinkInv, SlaveReset
<1>8. QED
  BY <1>3, <1>4, <1>5, <1>6, <1>7 DEF WholeInv, TypeOK

LEMMA WholeStep == ASSUME WholeInv, [Next]_vars PROVE WholeInv'
<1>1. CASE Next
  <2>1. PICK start \in BOOLEAN, clear \in BOOLEAN, pop \in BOOLEAN : CycleOf(start, clear, pop)
    BY <1>1, EveryStepIsACycle
  <2>2. CircuitOK'
    BY <2>1, ClockKeepsCircuit DEF CycleOf, WholeInv, TypeOK, CircuitOK
  <2>3. RegistersOK' /\ DriverOK'
    BY <1>1, RegisterTypes, DriverTypes DEF WholeInv
  <2>4. QED
    BY <2>2, <2>3 DEF WholeInv, TypeOK, CircuitOK
<1>2. CASE UNCHANGED vars
  BY <1>2 DEF vars, master, wires, slave, regs, driver, WholeInv, TypeOK, MasterOK, SlaveOK,
              RegistersOK, DriverOK, LinkInv, SlaveReset, SlaveHas, FirstByte, Sent, SentBit,
              Steady, Ahead, Behind, NextByte
<1>3. QED
  BY <1>1, <1>2

LEMMA WholeInvariant == Spec => []WholeInv
<1>1. Init => WholeInv
  BY WholeInit
<1>2. WholeInv /\ [Next]_vars => WholeInv'
  BY WholeStep
<1>3. QED
  BY <1>1, <1>2, PTL DEF Spec

\* Types and sizes: no counter of the circuit runs past its width, no word enters a
\* full FIFO, and the driver never writes past the end of its buffer.
THEOREM TypeCorrect == Spec => []TypeOK
<1>1. WholeInv => TypeOK
  BY DEF WholeInv
<1>2. QED
  BY <1>1, WholeInvariant, PTL

\* Whenever the master samples, the slave shows that very bit of that very byte.
THEOREM BitsInStep == Spec => []InStep
<1>1. WholeInv => InStep
  BY DEF WholeInv, LinkInv, Steady, Ahead, InStep, NextByte
<1>2. QED
  BY <1>1, WholeInvariant, PTL

(* -------- a start, and the DONE bit -------- *)

\* The master and DONE over a cycle without a start.
LEMMA NoStart ==
  ASSUME WholeInv, NEW clear \in BOOLEAN, NEW pop \in BOOLEAN, Clock(FALSE, clear, pop)
  PROVE  /\ state = "sIdle" => state' = "sIdle" /\ ~mdone' /\ cs_n'
         /\ state = "sDone" => state' = "sIdle" /\ cs_n'
         /\ mdone' => state' \in {"sIdle", "sDone"}
         /\ doneSticky' => mdone \/ doneSticky
<1>1. Master(FALSE) /\ doneSticky' = DoneNext(FALSE \/ clear)
  BY DEF Clock
<1>2. /\ state = "sIdle" => state' = "sIdle" /\ ~mdone' /\ cs_n'
      /\ state = "sDone" => state' = "sIdle" /\ cs_n'
      /\ mdone' => state' \in {"sIdle", "sDone"}
  BY <1>1 DEF Master, MIdle, MSendSetup, MSendRise, MReadSetup, MReadWait, MReadRise, MEmit, MDone
<1>3. doneSticky' => mdone \/ doneSticky
  BY <1>1 DEF DoneNext
<1>4. QED
  BY <1>2, <1>3

\* The store that starts a transfer, in the cycle it is made.
LEMMA StartIsTaken ==
  ASSUME WholeInv, DriverInv, StartRead
  PROVE  /\ state' = "sSendSetup" /\ job' = cur /\ Len(tx') = Total /\ bytesRemaining' = cur.len
         /\ ~mdone' /\ word' = <<>> /\ fifo' = fifo
         /\ AccessGap > 1 => ~doneSticky'
<1>1. /\ dpc = "start_read" /\ wait = 0 /\ state = "sIdle" /\ addrReg = cur.addr /\ lenReg = cur.len
      /\ Clock(TRUE, FALSE, FALSE) /\ (mdone => wait = AccessGap - 1)
  BY DEF StartRead, Access, DriverInv
<1>2. MIdle(TRUE)
  BY <1>1 DEF Clock, Master, MIdle, MSendSetup, MSendRise, MReadSetup, MReadWait, MReadRise, MEmit, MDone
<1>3. cur \in [addr : 0 .. (2 ^ AddressBits - 1), len : Nat \ {0}]
  BY TransfersAssumption DEF WholeInv, TypeOK, DriverOK
<1>4. /\ state' = "sSendSetup" /\ ~mdone' /\ bytesRemaining' = cur.len /\ word' = <<>>
      /\ tx' = ReadCommand \o AddressToBits(addrReg)
  BY <1>1, <1>2, <1>3 DEF MIdle
<1>5. Len(tx') = Total
  BY <1>1, <1>3, <1>4, AddressSent
<1>6. job' = cur
  <2>1. job' = [addr |-> cur.addr, len |-> cur.len]
    BY <1>1 DEF Clock
  <2>2. QED
    BY <1>3, <2>1
<1>7. fifo' = fifo
  BY <1>1 DEF Clock, QueueNext
<1>8. ASSUME AccessGap > 1 PROVE ~doneSticky'
  <2>1. AccessGap \in Int
    BY Sizes
  <2>2. ~(0 = AccessGap - 1)
    BY <1>8, <2>1
  <2>3. ~mdone
    BY <1>1, <2>2
  <2>4. QED
    BY <1>1, <2>3 DEF Clock, DoneNext
<1>9. QED
  BY <1>4, <1>5, <1>6, <1>7, <1>8

LEMMA DriverInvStep == ASSUME WholeInv, DriverInv, [Next]_vars PROVE DriverInv'
<1>1. CASE CallReadFlash \/ WriteAddr \/ WriteLen \/ PollReady \/ PollDone \/ Trap \/ HartIdle
  <2>1. Clock(FALSE, FALSE, FALSE)
    BY <1>1 DEF CallReadFlash, WriteAddr, WriteLen, PollReady, PollDone, Trap, HartIdle
  <2>2. /\ state = "sIdle" => state' = "sIdle" /\ ~mdone'
        /\ mdone' => state' \in {"sIdle", "sDone"}
    BY <2>1, NoStart
  <2>3. dpc' = "start_read" => dpc = "start_read" /\ UNCHANGED <<regs, driver>>
    BY <1>1 DEF CallReadFlash, WriteAddr, WriteLen, PollReady, PollDone, Trap, HartIdle, Access,
                driver
  <2>4. dpc' \in {"write_len", "clear_done", "start_read"} => addrReg' = cur'.addr
    BY <1>1 DEF CallReadFlash, WriteAddr, WriteLen, PollReady, PollDone, Trap, HartIdle, Access,
                driver, regs, DriverInv
  <2>5. dpc' \in {"clear_done", "start_read"} => lenReg' = cur'.len
    BY <1>1 DEF CallReadFlash, WriteAddr, WriteLen, PollReady, PollDone, Trap, HartIdle, Access,
                driver, regs, DriverInv
  <2>6. QED
    BY <2>2, <2>3, <2>4, <2>5 DEF DriverInv
<1>2. CASE ClearDone
  <2>1. /\ dpc = "clear_done" /\ dpc' = "start_read" /\ wait' = AccessGap - 1
        /\ state \in {"sIdle", "sDone"} /\ Clock(FALSE, TRUE, FALSE) /\ UNCHANGED <<regs, cur>>
    BY <1>2 DEF ClearDone, Access, CommandReady, Busy
  <2>2. state' = "sIdle"
    BY <2>1, NoStart
  <2>3. QED
    BY <2>1, <2>2 DEF DriverInv, regs
<1>3. CASE StartRead
  BY <1>3, StartIsTaken DEF StartRead, DriverInv
<1>4. CASE ReadData
  <2>1. /\ dpc = "read_data" /\ dpc' \in {"poll_ready", "poll_done"} /\ Clock(FALSE, FALSE, TRUE)
    BY <1>4 DEF ReadData, Access
  <2>2. mdone' => state' \in {"sIdle", "sDone"}
    BY <2>1, NoStart
  <2>3. QED
    BY <2>1, <2>2 DEF DriverInv
<1>5. CASE UNCHANGED vars
  BY <1>5 DEF vars, master, regs, driver, DriverInv
<1>6. QED
  BY <1>1, <1>2, <1>3, <1>4, <1>5 DEF Next, DriverStep

LEMMA DriverInvariant == Spec => []DriverInv
<1>1. Init => DriverInv
  BY DEF Init, DriverInv
<1>2. WholeInv /\ DriverInv /\ [Next]_vars => DriverInv'
  BY DriverInvStep
<1>3. QED
  BY <1>1, <1>2, WholeInvariant, PTL DEF Spec

\* A START the bus has acknowledged starts the transfer: it never falls into the cycle
\* in which the master has yet to leave the transfer before.
THEOREM StartIsNeverLost == Spec => StartNotLost
<1>1. ASSUME WholeInv, DriverInv, [Next]_vars, dpc = "start_read", dpc' = "poll_ready"
      PROVE  state' = "sSendSetup"
  <2>1. StartRead
    BY <1>1 DEF Next, DriverStep, CallReadFlash, WriteAddr, WriteLen, ClearDone, PollReady,
                ReadData, PollDone, Trap, HartIdle, Access, vars, driver
  <2>2. QED
    BY <1>1, <2>1, StartIsTaken
<1>2. WholeInv /\ DriverInv /\ [Next]_vars
        => [(dpc = "start_read" /\ dpc' = "poll_ready") => state' = "sSendSetup"]_vars
  BY <1>1
<1>3. QED
  BY <1>2, WholeInvariant, DriverInvariant, PTL DEF Spec, StartNotLost

LEMMA DoneIsOwnStep ==
  ASSUME AccessGap > 1, WholeInv, DriverInv, DoneIsOwn, [Next]_vars
  PROVE  DoneIsOwn'
<1>1. ASSUME NEW clear \in BOOLEAN, NEW pop \in BOOLEAN, Clock(FALSE, clear, pop), Polling,
             doneSticky'
      PROVE  ~Busy' /\ cs_n'
  <2>1. state \in {"sIdle", "sDone"}
    BY <1>1, NoStart DEF DoneIsOwn, DriverInv, Busy, Polling
  <2>2. QED
    BY <1>1, <2>1, NoStart DEF Busy
<1>2. CASE StartRead
  BY <1>2, StartIsTaken DEF DoneIsOwn
<1>3. CASE PollReady \/ ReadData \/ PollDone \/ HartIdle
  <2>1. PICK pop \in BOOLEAN : Clock(FALSE, FALSE, pop)
    BY <1>3 DEF PollReady, ReadData, PollDone, HartIdle
  <2>2. dpc' \in {"poll_ready", "read_data", "poll_done"} => Polling
    BY <1>3 DEF PollReady, ReadData, PollDone, HartIdle, Access, driver, Polling
  <2>3. QED
    BY <1>1, <2>1, <2>2 DEF DoneIsOwn
<1>4. CASE CallReadFlash \/ WriteAddr \/ WriteLen \/ ClearDone \/ Trap
  BY <1>4 DEF CallReadFlash, WriteAddr, WriteLen, ClearDone, Trap, DoneIsOwn
<1>5. CASE UNCHANGED vars
  BY <1>5 DEF vars, master, wires, driver, DoneIsOwn, Busy
<1>6. QED
  BY <1>2, <1>3, <1>4, <1>5 DEF Next, DriverStep

\* A DONE the driver can poll is that of its own transfer, traps or not, if the hart
\* leaves a cycle between two accesses.
THEOREM DoneIsNotStale == ASSUME AccessGap > 1 PROVE Spec => []DoneIsOwn
<1>1. Init => DoneIsOwn
  BY DEF Init, DoneIsOwn
<1>2. WholeInv /\ DriverInv /\ DoneIsOwn /\ [Next]_vars => DoneIsOwn'
  BY DoneIsOwnStep
<1>3. QED
  BY <1>1, <1>2, WholeInvariant, DriverInvariant, PTL DEF Spec

(* -------- the bits collected -------- *)

\* The master's collection over a clock cycle: every bit, byte and word is the flash's.
LEMMA CollectStep ==
  ASSUME WholeInv, CollectInv, NEW start \in BOOLEAN, NEW clear \in BOOLEAN,
         NEW pop \in BOOLEAN, Clock(start, clear, pop)
  PROVE  CollectInv'
<1>1. MasterOK /\ SlaveOK /\ LinkInv /\ Master(start)
  BY DEF WholeInv, TypeOK, Clock
<1>2. state # "sIdle" => job' = job
  BY DEF Clock
<1>3. CASE MIdle(start)
  BY <1>1, <1>3, EmptySeq DEF MIdle, CollectInv, Holds
<1>4. CASE MSendSetup \/ MSendRise \/ MReadSetup \/ MReadWait
  <2>1. /\ state \notin {"sIdle", "sDone"} /\ state' \notin {"sIdle", "sDone", "sEmit"}
        /\ UNCHANGED <<rx, word, bytesRemaining, job>>
    BY <1>2, <1>4 DEF MSendSetup, MSendRise, MReadSetup, MReadWait
  <2>2. QED
    BY <2>1 DEF CollectInv, NextByte
<1>5. CASE MReadRise
  <2> DEFINE byte == Append(rx, Miso)
  <2>1. /\ ~cs_n /\ Ahead /\ bytesRemaining \in 1 .. job.len /\ job' = job
        /\ state = "sReadRise"
    BY <1>1, <1>2, <1>5 DEF MReadRise, LinkInv, Steady
  <2>2. Miso = Bit(NextByte, Len(rx) + 1) /\ Miso \in Bits /\ Len(rx) \in Nat
    BY <1>1, <2>1, LenProperties DEF Ahead, Miso, Bit, MasterOK, SlaveOK
  <2>3. /\ byte \in Seq(Bits) /\ Len(byte) = Len(rx) + 1
        /\ \A j \in 1 .. Len(byte) : byte[j] = Bit(NextByte, j)
    <3>1. byte \in Seq(Bits) /\ Len(byte) = Len(rx) + 1 /\ byte[Len(rx) + 1] = Miso
          /\ \A j \in 1 .. Len(rx) : byte[j] = rx[j]
      BY <1>1, <2>2, AppendProperties DEF MasterOK
    <3>2. \A j \in 1 .. Len(rx) : rx[j] = Bit(NextByte, j)
      BY <2>1 DEF CollectInv
    <3>3. QED
      BY <2>2, <3>1, <3>2
  <2>4. CASE Len(byte) < ByteBits
    <3>1. /\ rx' = byte /\ state' = "sReadSetup" /\ UNCHANGED <<bytesRemaining, word>>
      BY <1>5, <2>4 DEF MReadRise
    <3>2. NextByte' = NextByte
      BY <2>1, <3>1 DEF NextByte
    <3>3. QED
      BY <2>1, <2>3, <3>1, <3>2 DEF CollectInv
  <2>5. CASE ~(Len(byte) < ByteBits)
    <3> DEFINE w == Append(word, byte)
               full == Len(word) = WordBytes - 1 \/ bytesRemaining = 1
    <3>1. /\ rx' = <<>> /\ emitWord' = w /\ bytesRemaining' = bytesRemaining - 1
          /\ word' = (IF full THEN <<>> ELSE w)
          /\ state' = (IF full THEN "sEmit" ELSE "sReadSetup")
      BY <1>5, <2>5 DEF MReadRise
    <3>2. NextByte' = NextByte + 1 /\ NextByte \in Int
      BY <1>1, <2>1, <3>1, Sizes, SMTT(60) DEF NextByte, MasterOK
    <3>3. Len(byte) = ByteBits
      <4>1. Len(rx) < ByteBits /\ ByteBits \in Int
        BY <1>1, Sizes DEF MasterOK
      <4>2. QED
        BY <2>2, <2>3, <2>5, <4>1
    <3>4. byte \in Bytes /\ byte = ByteAt(NextByte)
      <4>1. byte \in Bytes
        BY <2>3, <3>3, BitTypes
      <4>2. QED
        BY <2>3, <3>3, <4>1 DEF Bytes, ByteAt
    <3>5. /\ w \in Seq(Bytes) /\ Len(w) = Len(word) + 1 /\ w[Len(word) + 1] = byte
          /\ \A j \in 1 .. Len(word) : w[j] = word[j]
          /\ Len(word) \in Nat
      BY <1>1, <3>4, AppendProperties, LenProperties DEF MasterOK
    <3>6. ASSUME NEW j \in 1 .. Len(w) PROVE w[j] = ByteAt(NextByte' - Len(w) + j - 1)
      <4>1. CASE j = Len(word) + 1
        <5>1. NextByte' - Len(w) + j - 1 = NextByte
          BY <3>2, <3>5, <4>1
        <5>2. QED
          BY <3>4, <3>5, <4>1, <5>1
      <4>2. CASE j # Len(word) + 1
        <5>1. j \in 1 .. Len(word) /\ NextByte' - Len(w) + j - 1 = NextByte - Len(word) + j - 1
          BY <3>2, <3>5, <4>2
        <5>2. word[j] = ByteAt(NextByte - Len(word) + j - 1)
          BY <2>1, <5>1 DEF CollectInv, Holds
        <5>3. QED
          BY <3>5, <5>1, <5>2
      <4>3. QED
        BY <4>1, <4>2
    <3>7. Len(w) \in 1 .. WordBytes /\ (full => Len(w) = WordBytes \/ bytesRemaining' = 0)
      <4>1. Len(word) < WordBytes /\ WordBytes \in Int /\ bytesRemaining \in Int
        BY <1>1, Sizes DEF MasterOK
      <4>2. QED
        BY <3>1, <3>5, <4>1
    <3> HIDE DEF w, full
    <3>8. \A j \in 1 .. Len(rx') : rx'[j] = Bit(NextByte', j)
      BY <3>1, EmptySeq
    <3>9. CASE full
      <4>1. state' = "sEmit" /\ word' = <<>> /\ emitWord' = w
        BY <3>1, <3>9
      <4>2. QED
        BY <3>6, <3>7, <3>8, <3>9, <4>1, EmptySeq DEF CollectInv, Holds
    <3>10. CASE ~full
      <4>1. state' = "sReadSetup" /\ word' = w
        BY <3>1, <3>10
      <4>2. QED
        BY <3>6, <3>8, <4>1 DEF CollectInv, Holds
    <3>11. QED
      BY <3>9, <3>10
  <2>6. QED
    BY <2>4, <2>5
<1>6. CASE MEmit
  <2>1. /\ state = "sEmit" /\ rx = <<>> /\ word = <<>> /\ job' = job
        /\ UNCHANGED <<rx, word, emitWord, bytesRemaining>>
        /\ \/ state' = "sDone" /\ bytesRemaining = 0
           \/ state' = "sReadSetup"
           \/ state' = "sEmit"
    BY <1>1, <1>2, <1>6 DEF MEmit, LinkInv, CollectInv
  <2>2. QED
    BY <2>1 DEF CollectInv, NextByte
<1>7. CASE MDone(start)
  BY <1>7 DEF MDone, CollectInv
<1>8. QED
  BY <1>1, <1>3, <1>4, <1>5, <1>6, <1>7 DEF Master

LEMMA CollectInvariant == Spec => []CollectInv
<1>1. Init => CollectInv
  BY DEF Init, CollectInv, Holds
<1>2. WholeInv /\ CollectInv /\ [Next]_vars => CollectInv'
  <2>1. ASSUME WholeInv, CollectInv, Next PROVE CollectInv'
    BY <2>1, EveryStepIsACycle, CollectStep DEF CycleOf
  <2>2. ASSUME CollectInv, UNCHANGED vars PROVE CollectInv'
    BY <2>2 DEF vars, master, CollectInv, NextByte
  <2>3. QED
    BY <2>1, <2>2
<1>3. QED
  BY <1>1, <1>2, WholeInvariant, PTL DEF Spec

(* -------- the queue and the buffer -------- *)

\* A word goes in behind those that are queued, all of which are full.
LEMMA Push ==
  ASSUME NEW q \in Seq(Seq(Bytes)), NEW a \in Int, NEW n \in Int, NEW u \in Nat \ {0},
         NEW e \in Seq(Bytes), Len(e) \in 1 .. WordBytes, Len(e) <= u,
         Len(e) = WordBytes \/ u = Len(e), Holds(e, a + (n - u)), Queued(q, a, n, u)
  PROVE  Queued(Append(q, e), a, n, u - Len(e))
<1> DEFINE p == Append(q, e)
           m == Len(q)
<1>1. m \in Nat /\ WordBytes \in Nat \ {0} /\ Len(e) \in Nat
  BY Sizes, LenProperties
<1>2. /\ Len(p) = m + 1 /\ p[m + 1] = e /\ p # <<>>
      /\ \A k \in 1 .. m : p[k] = q[k]
  <2>1. /\ p \in Seq(Seq(Bytes)) /\ Len(p) = m + 1 /\ p[m + 1] = e
        /\ \A k \in 1 .. m : p[k] = q[k]
    BY AppendProperties
  <2>2. ASSUME NEW x \in Seq(Seq(Bytes)), Len(x) = m + 1 PROVE x # <<>>
    BY <1>1, <2>2, EmptySeq
  <2>3. QED
    BY <2>1, <2>2
<1>3. \A k \in 1 .. m : Len(q[k]) = WordBytes
  BY DEF Queued
<1>4. QueuedBytes(q) = m * WordBytes /\ m * WordBytes \in Nat
  <2>1. CASE q = <<>>
    BY <1>1, <2>1, EmptySeq DEF QueuedBytes
  <2>2. CASE q # <<>>
    <3>1. m \in 1 .. m
      BY <1>1, <2>2, EmptySeq
    <3>2. QueuedBytes(q) = (m - 1) * WordBytes + WordBytes
      BY <1>3, <2>2, <3>1 DEF QueuedBytes
    <3>3. (m - 1) * WordBytes + WordBytes = m * WordBytes /\ m * WordBytes \in Nat
      BY <1>1
    <3>4. QED
      BY <3>2, <3>3
  <2>3. QED
    BY <2>1, <2>2
<1>5. PICK v \in Nat : v = m * WordBytes
  BY <1>4
<1>6. PICK l \in Nat : l = Len(e)
  BY <1>1
<1>7. n = v + u /\ QueuedBytes(p) = v + l
  <2>1. n = QueuedBytes(q) + u
    BY DEF Queued
  <2>2. (m + 1) - 1 = m
    BY <1>1
  <2>3. QueuedBytes(p) = m * WordBytes + Len(e)
    BY <1>2, <2>2 DEF QueuedBytes
  <2>4. QED
    BY <1>4, <1>5, <1>6, <2>1, <2>3
<1>8. n = QueuedBytes(p) + (u - Len(e))
  BY <1>6, <1>7
<1>9. ASSUME NEW k \in 1 .. Len(p)
      PROVE  /\ Len(p[k]) \in 1 .. WordBytes
             /\ Len(p[k]) = WordBytes \/ (k = Len(p) /\ u - Len(e) = 0)
             /\ Holds(p[k], a + (k - 1) * WordBytes)
  <2>1. CASE k \in 1 .. m
    <3>1. p[k] = q[k]
      BY <1>2, <2>1
    <3>2. QED
      BY <1>3, <2>1, <3>1 DEF Queued
  <2>2. CASE k = m + 1
    <3>1. p[k] = e /\ k = Len(p)
      BY <1>2, <2>2
    <3>2. k - 1 = m
      BY <1>1, <2>2
    <3>3. n - u = (k - 1) * WordBytes
      BY <1>5, <1>7, <3>2
    <3>4. Holds(e, a + (k - 1) * WordBytes)
      BY <3>3
    <3>5. Len(e) = WordBytes \/ u - Len(e) = 0
      BY <1>1
    <3>6. QED
      BY <3>1, <3>4, <3>5
  <2>3. QED
    BY <1>1, <1>2, <2>1, <2>2
<1> HIDE DEF p
<1>10. QED
  BY <1>8, <1>9 DEF Queued, p

\* Taking the oldest word leaves the rest queued; the word is as long as what the
\* driver unpacks of it.
LEMMA Pop ==
  ASSUME NEW q \in Seq(Seq(Bytes)), q # <<>>, NEW a \in Int, NEW n \in Int, NEW u \in Nat,
         Queued(q, a, n, u)
  PROVE  /\ Head(q) \in Seq(Bytes) /\ Len(Head(q)) \in 1 .. WordBytes
         /\ Len(Head(q)) = IF n < WordBytes THEN n ELSE WordBytes
         /\ Holds(Head(q), a)
         /\ Queued(Tail(q), a + Len(Head(q)), n - Len(Head(q)), u)
<1> DEFINE w == Head(q)
           r == Tail(q)
           m == Len(q)
           W == WordBytes
<1>1. /\ m \in Nat \ {0} /\ W \in Nat \ {0}
      /\ w \in Seq(Bytes) /\ w = q[1] /\ Len(w) \in Nat
      /\ r \in Seq(Seq(Bytes)) /\ Len(r) = m - 1 /\ \A k \in 1 .. (m - 1) : r[k] = q[k + 1]
  BY Sizes, HeadTailProperties, LenProperties, EmptySeq
<1>2. /\ r = <<>> <=> m - 1 = 0
      /\ m = Len(q)
  BY <1>1, EmptySeq
<1> HIDE DEF w, r, m, W
<1>3. 1 \in 1 .. m /\ a + (1 - 1) * W = a
  BY <1>1
<1>4. Len(w) \in 1 .. W /\ (Len(w) = W \/ (m = 1 /\ u = 0)) /\ Holds(w, a)
  BY <1>1, <1>2, <1>3 DEF Queued, W
<1>5. PICK l \in Nat : l = Len(w)
  BY <1>1
<1>6. n = QueuedBytes(q) + u
  BY DEF Queued
<1>7. /\ QueuedBytes(r) \in Nat /\ QueuedBytes(q) = l + QueuedBytes(r)
      /\ m = 1 => QueuedBytes(r) = 0
  <2>1. CASE m = 1
    <3>1. r = <<>> /\ (m - 1) * W = 0
      BY <1>1, <1>2, <2>1
    <3>2. QueuedBytes(r) = 0 /\ QueuedBytes(q) = (m - 1) * W + Len(w)
      BY <1>1, <1>2, <2>1, <3>1 DEF QueuedBytes, W
    <3>3. QED
      BY <1>5, <3>1, <3>2
  <2>2. CASE m # 1
    <3>1. r # <<>> /\ Len(w) = W /\ m - 1 \in 1 .. (m - 1) /\ m \in 1 .. m
      BY <1>1, <1>2, <1>4, <2>2
    <3>2. r[Len(r)] = q[m] /\ Len(q[m]) \in 1 .. W
      <4>1. r[m - 1] = q[(m - 1) + 1] /\ (m - 1) + 1 = m
        BY <1>1, <3>1
      <4>2. QED
        BY <1>1, <1>2, <3>1, <4>1 DEF Queued, W
    <3>3. QueuedBytes(r) = (m - 1 - 1) * W + Len(q[m]) /\ QueuedBytes(q) = (m - 1) * W + Len(q[m])
      BY <1>1, <1>2, <3>1, <3>2 DEF QueuedBytes, W
    <3>4. (m - 1) * W = (m - 1 - 1) * W + W /\ (m - 1 - 1) * W \in Nat
      <4>1. m - 1 - 1 \in Nat
        BY <1>1, <2>2
      <4>2. QED
        BY <1>1, <4>1
    <3>5. PICK v \in Nat : v = (m - 1 - 1) * W
      BY <3>4
    <3>6. PICK x \in Nat : x = Len(q[m])
      BY <1>1, <3>2
    <3>7. QueuedBytes(r) = v + x /\ QueuedBytes(q) = v + W + x
      BY <3>3, <3>4, <3>5, <3>6
    <3>8. QueuedBytes(q) = l + QueuedBytes(r) /\ QueuedBytes(r) \in Nat
      BY <1>1, <1>5, <3>1, <3>7
    <3>9. QED
      BY <2>2, <3>8
  <2>3. QED
    BY <2>1, <2>2
<1>8. n - l = QueuedBytes(r) + u
  BY <1>6, <1>7
<1>9. l = IF n < W THEN n ELSE W
  BY <1>1, <1>4, <1>5, <1>7, <1>8, SMTT(60)
<1>10. ASSUME NEW k \in 1 .. Len(r)
       PROVE  /\ Len(r[k]) \in 1 .. W
              /\ Len(r[k]) = W \/ (k = Len(r) /\ u = 0)
              /\ Holds(r[k], a + l + (k - 1) * W)
  <2>1. r[k] = q[k + 1] /\ k + 1 \in 1 .. m /\ k \in Int /\ m # 1
    BY <1>1
  <2>2. /\ Len(q[k + 1]) \in 1 .. W
        /\ Len(q[k + 1]) = W \/ (k + 1 = m /\ u = 0)
        /\ Holds(q[k + 1], a + (k + 1 - 1) * W)
    BY <1>2, <2>1 DEF Queued, W
  <2>3. l = W
    BY <1>4, <1>5, <2>1
  <2>4. (k + 1 - 1) * W = W + (k - 1) * W /\ (k - 1) * W \in Int
    BY <1>1, <2>1
  <2>5. PICK v \in Int : v = (k - 1) * W
    BY <2>4
  <2>6. (k + 1 - 1) * W = l + v
    BY <2>3, <2>4, <2>5
  <2>7. a + (k + 1 - 1) * W = a + l + v
    BY <2>6
  <2>8. k + 1 = m => k = Len(r)
    BY <1>1, <2>1
  <2>9. QED
    BY <2>1, <2>2, <2>5, <2>7, <2>8
<1>11. Queued(r, a + l, n - l, u)
  BY <1>8, <1>10 DEF Queued, W
<1>12. QED
  BY <1>1, <1>4, <1>5, <1>9, <1>11 DEF w, r, W

\* What is undelivered: nothing outside a transfer, something until its last word.
LEMMA UndeliveredBounds ==
  ASSUME WholeInv, CollectInv
  PROVE  /\ Undelivered \in Nat /\ bytesRemaining \in Nat
         /\ state \in {"sIdle", "sDone"} => Undelivered = 0
         /\ state \notin {"sIdle", "sDone"} => Undelivered # 0
<1>1. /\ bytesRemaining \in Nat /\ Len(word) \in Nat /\ Len(emitWord) \in Nat /\ job.len \in Nat
      /\ word = <<>> => Len(word) = 0
  BY LenProperties, EmptySeq DEF WholeInv, TypeOK, MasterOK
<1>2. PICK x \in Nat, y \in Nat, z \in Nat :
        x = bytesRemaining /\ y = Len(word) /\ z = Len(emitWord)
  BY <1>1
<1>3. Undelivered = x + y + IF state = "sEmit" THEN z ELSE 0
  BY <1>2 DEF Undelivered
<1>4. state \in {"sIdle", "sDone"} => x = 0 /\ y = 0
  BY <1>1, <1>2 DEF CollectInv
<1>5. state = "sEmit" => z # 0
  BY <1>1, <1>2 DEF CollectInv
<1>6. state \notin {"sIdle", "sDone", "sEmit"} => x # 0
  BY <1>1, <1>2 DEF WholeInv, TypeOK, MasterOK, LinkInv, FirstByte
<1>7. CASE state = "sEmit"
  BY <1>2, <1>3, <1>5, <1>7
<1>8. CASE state # "sEmit"
  <2>1. Undelivered = x + y
    BY <1>3, <1>8
  <2>2. QED
    BY <1>2, <1>4, <1>6, <1>8, <2>1
<1>9. QED
  BY <1>7, <1>8

\* A cycle without a start delivers a word of the transfer or delivers nothing.
LEMMA CycleDelivers ==
  ASSUME WholeInv, CollectInv, NEW clear \in BOOLEAN, NEW pop \in BOOLEAN,
         Clock(FALSE, clear, pop), pop => fifo # <<>>
  PROVE  /\ job' = job
         /\ LET rest == IF pop THEN Tail(fifo) ELSE fifo
            IN  IF state = "sEmit" /\ FifoReady
                THEN /\ fifo' = Append(rest, emitWord)
                     /\ Undelivered' = Undelivered - Len(emitWord)
                     /\ Undelivered = bytesRemaining + Len(emitWord)
                     /\ emitWord \in Seq(Bytes) /\ Len(emitWord) \in 1 .. WordBytes
                     /\ Len(emitWord) = WordBytes \/ bytesRemaining = 0
                     /\ Holds(emitWord, NextByte - Len(emitWord))
                ELSE fifo' = rest /\ Undelivered' = Undelivered
<1>1. MasterOK /\ LinkInv /\ Master(FALSE) /\ job' = job /\ fifo' = QueueNext(pop)
  BY DEF WholeInv, TypeOK, Clock
<1>2. CASE state = "sEmit" /\ FifoReady
  <2>1. /\ word = <<>> /\ Len(emitWord) \in 1 .. WordBytes
        /\ Len(emitWord) = WordBytes \/ bytesRemaining = 0
        /\ Holds(emitWord, NextByte - Len(emitWord))
        /\ emitWord \in Seq(Bytes) /\ bytesRemaining \in Nat /\ Len(word) = 0
    BY <1>1, <1>2, EmptySeq DEF CollectInv, MasterOK
  <2>2. MEmit
    BY <1>1, <1>2 DEF Master, MIdle, MSendSetup, MSendRise, MReadSetup, MReadWait, MReadRise, MDone
  <2>3. state' # "sEmit" /\ UNCHANGED <<word, bytesRemaining>>
    BY <1>2, <2>2 DEF MEmit
  <2>4. Undelivered = bytesRemaining + Len(emitWord) /\ Undelivered' = bytesRemaining
    BY <1>2, <2>1, <2>3 DEF Undelivered
  <2>5. Undelivered' = Undelivered - Len(emitWord)
    BY <2>1, <2>4
  <2>6. fifo' = Append(IF pop THEN Tail(fifo) ELSE fifo, emitWord)
    BY <1>1, <1>2 DEF QueueNext
  <2>7. QED
    BY <1>1, <1>2, <2>1, <2>4, <2>5, <2>6
<1>3. CASE ~(state = "sEmit" /\ FifoReady)
  <2>1. fifo' = IF pop THEN Tail(fifo) ELSE fifo
    BY <1>1, <1>3 DEF QueueNext
  <2>2. Undelivered' = Undelivered
    <3>1. CASE MReadRise
      <4> DEFINE byte == Append(rx, Miso)
                 w == Append(word, byte)
      <4>1. CASE Len(byte) < ByteBits
        BY <3>1, <4>1 DEF MReadRise, Undelivered
      <4>2. CASE ~(Len(byte) < ByteBits)
        <5>1. /\ state = "sReadRise" /\ bytesRemaining' = bytesRemaining - 1 /\ emitWord' = w
              /\ \/ state' = "sEmit" /\ word' = <<>>
                 \/ state' = "sReadSetup" /\ word' = w
          BY <3>1, <4>2 DEF MReadRise
        <5>2. Len(w) = Len(word) + 1 /\ Len(word) \in Nat /\ Len(<<>>) = 0 /\ bytesRemaining \in Nat
          <6>1. \A s \in Seq(Bytes) : \A x : Len(Append(s, x)) = Len(s) + 1
            OBVIOUS
          <6>2. QED
            BY <1>1, <6>1, LenProperties, EmptySeq DEF MasterOK
        <5> HIDE DEF w
        <5>3. PICK x \in Nat, y \in Nat : x = bytesRemaining /\ y = Len(word)
          BY <5>2
        <5>4. Undelivered = x + y + 0
          BY <5>1, <5>3 DEF Undelivered
        <5>5. \/ Undelivered' = x - 1 + 0 + (y + 1)
              \/ Undelivered' = x - 1 + (y + 1) + 0
          BY <5>1, <5>2, <5>3 DEF Undelivered
        <5>6. QED
          BY <5>4, <5>5
      <4>3. QED
        BY <4>1, <4>2
    <3>2. CASE MIdle(FALSE) \/ MSendSetup \/ MSendRise \/ MReadSetup \/ MReadWait \/ MDone(FALSE)
      BY <3>2 DEF MIdle, MSendSetup, MSendRise, MReadSetup, MReadWait, MDone, Undelivered
    <3>3. CASE MEmit
      BY <1>3, <3>3 DEF MEmit, Undelivered
    <3>4. QED
      BY <1>1, <3>1, <3>2, <3>3 DEF Master
  <2>3. QED
    BY <1>1, <1>3, <2>1, <2>2
<1>4. QED
  BY <1>2, <1>3

\* The queue over such a cycle, once what the driver takes in it is gone.
LEMMA QueueCycle ==
  ASSUME WholeInv, CollectInv, NEW clear \in BOOLEAN, NEW pop \in BOOLEAN,
         Clock(FALSE, clear, pop), pop => fifo # <<>>,
         NEW rest \in Seq(Seq(Bytes)), rest = IF pop THEN Tail(fifo) ELSE fifo,
         NEW a \in Int, NEW n \in Int, a + n = job.addr + job.len, Queued(rest, a, n, Undelivered)
  PROVE  Queued(fifo', a, n, Undelivered') /\ (rest # <<>> => fifo' # <<>>)
<1>1. CASE state = "sEmit" /\ FifoReady
  <2>1. PICK e \in Seq(Bytes) : e = emitWord
    BY <1>1, CycleDelivers
  <2>2. /\ fifo' = Append(rest, e)
        /\ Undelivered' = Undelivered - Len(e) /\ Undelivered = bytesRemaining + Len(e)
        /\ Len(e) \in 1 .. WordBytes /\ (Len(e) = WordBytes \/ bytesRemaining = 0)
        /\ Holds(e, NextByte - Len(e))
    BY <1>1, <2>1, CycleDelivers
  <2>3. PICK l \in Nat, u \in Nat, br \in Nat : l = Len(e) /\ u = Undelivered /\ br = bytesRemaining
    BY <2>2, UndeliveredBounds, LenProperties
  <2>4. u = br + l /\ l # 0 /\ (l = WordBytes \/ u = l)
    BY <2>2, <2>3
  <2>5. NextByte - l = a + (n - u)
    <3>1. PICK x \in Int, y \in Int : x = job.addr /\ y = job.len
      BY DEF WholeInv, TypeOK, MasterOK
    <3>2. NextByte = x + (y - br) /\ a + n = x + y
      BY <2>3, <3>1 DEF NextByte
    <3>3. QED
      BY <2>4, <3>2
  <2>6. Holds(e, a + (n - u)) /\ Queued(rest, a, n, u)
    BY <2>2, <2>3, <2>5
  <2>7. Len(e) <= u /\ u \in Nat \ {0} /\ (Len(e) = WordBytes \/ u = Len(e))
    BY <2>3, <2>4
  <2>8. Queued(Append(rest, e), a, n, u - Len(e))
    BY <2>2, <2>6, <2>7, Push
  <2>9. Append(rest, e) # <<>>
    <3>1. ASSUME NEW x \in Seq(Seq(Bytes)), Len(x) = Len(rest) + 1 PROVE x # <<>>
      BY <3>1, EmptySeq, LenProperties
    <3>2. QED
      BY <2>1, <3>1, AppendProperties
  <2>10. QED
    BY <2>2, <2>3, <2>8, <2>9
<1>2. CASE ~(state = "sEmit" /\ FifoReady)
  BY <1>2, CycleDelivers
<1>3. QED
  BY <1>1, <1>2

\* What BytesExact says while the driver reads.
LEMMA ExactBuffer ==
  ASSUME DriverOK, Polling
  PROVE  BytesExact <=> Holds(buffer, cur.addr)
<1>1. DOMAIN buffer = 1 .. Len(buffer)
  BY LenProperties DEF DriverOK
<1>2. QED
  BY <1>1 DEF BytesExact, Holds, Polling

\* Cycles of a driver that is not reading a transfer.
LEMMA QuietCycle ==
  ASSUME WholeInv, CollectInv, QueueInv, ~Polling, NEW clear \in BOOLEAN,
         Clock(FALSE, clear, FALSE)
  PROVE  fifo' = <<>> /\ state' \in {"sIdle", "sDone"}
<1>1. fifo = <<>> /\ state \in {"sIdle", "sDone"}
  BY DEF QueueInv
<1>2. fifo' = fifo
  BY <1>1, CycleDelivers
<1>3. QED
  BY <1>1, <1>2, NoStart

\* Cycles of a driver that reads, without taking a word.
LEMMA WaitingCycle ==
  ASSUME WholeInv, CollectInv, QueueInv, Polling, Clock(FALSE, FALSE, FALSE),
         UNCHANGED <<cur, buffer>>
  PROVE  /\ job' = cur'
         /\ Queued(fifo, cur.addr + Len(buffer), cur.len - Len(buffer), Undelivered)'
         /\ fifo # <<>> => fifo' # <<>>
<1>1. /\ job = cur /\ Queued(fifo, cur.addr + Len(buffer), cur.len - Len(buffer), Undelivered)
  BY DEF QueueInv
<1>2. job' = job
  BY CycleDelivers
<1>3. PICK a \in Int, n \in Int : a = cur.addr + Len(buffer) /\ n = cur.len - Len(buffer)
                                  /\ a + n = job.addr + job.len
  <2>1. cur.addr \in Int /\ cur.len \in Int /\ Len(buffer) \in Int
    BY TransfersAssumption, LenProperties DEF WholeInv, TypeOK, DriverOK
  <2>2. QED
    BY <1>1, <2>1
<1>4. PICK rest \in Seq(Seq(Bytes)) : rest = fifo
  BY DEF WholeInv, TypeOK, RegistersOK
<1>5. Queued(rest, a, n, Undelivered) /\ rest = IF FALSE THEN Tail(fifo) ELSE fifo
  BY <1>1, <1>3, <1>4
<1>6. Queued(fifo', a, n, Undelivered') /\ (rest # <<>> => fifo' # <<>>)
  BY <1>3, <1>5, QueueCycle
<1>7. QED
  BY <1>1, <1>2, <1>3, <1>4, <1>6 DEF Queued

\* The cycle in which the driver takes a word.
LEMMA TakingCycle ==
  ASSUME WholeInv, CollectInv, QueueInv, ReadData
  PROVE  /\ job' = cur'
         /\ Queued(fifo, cur.addr + Len(buffer), cur.len - Len(buffer), Undelivered)'
         /\ Holds(buffer, cur.addr)'
<1>1. /\ dpc = "read_data" /\ fifo # <<>> /\ buffer' = buffer \o Unpack(Head(fifo)) /\ cur' = cur
      /\ Clock(FALSE, FALSE, TRUE) /\ Polling
  BY DEF ReadData, Access, Polling
<1>2. /\ job = cur /\ Queued(fifo, cur.addr + Len(buffer), cur.len - Len(buffer), Undelivered)
      /\ Holds(buffer, cur.addr) /\ job' = job
  BY <1>1, ExactBuffer, CycleDelivers DEF QueueInv, WholeInv, TypeOK
<1>3. /\ cur.addr \in Int /\ cur.len \in Int /\ buffer \in Seq(Bytes) /\ Len(buffer) \in Nat
      /\ fifo \in Seq(Seq(Bytes)) /\ DriverOK
  BY TransfersAssumption, LenProperties DEF WholeInv, TypeOK, DriverOK, RegistersOK
<1>4. PICK x \in Int, y \in Int, b \in Nat :
        x = cur.addr /\ y = cur.len /\ b = Len(buffer) /\ x + y = job.addr + job.len
  BY <1>2, <1>3
<1> DEFINE a == x + b
           n == y - b
<1>5. PICK w \in Seq(Bytes) : w = Head(fifo)
  BY <1>1, <1>3, HeadTailProperties
<1>6. Undelivered \in Nat
  BY UndeliveredBounds
<1>7. Queued(fifo, a, n, Undelivered)
  BY <1>2, <1>4
<1>8. /\ Len(w) \in 1 .. WordBytes /\ Len(w) = (IF n < WordBytes THEN n ELSE WordBytes)
      /\ Holds(w, a) /\ Queued(Tail(fifo), a + Len(w), n - Len(w), Undelivered)
  <2>1. a \in Int /\ n \in Int /\ fifo \in Seq(Seq(Bytes)) /\ fifo # <<>>
    BY <1>1, <1>3
  <2> HIDE DEF a, n
  <2>2. QED
    BY <1>5, <1>6, <1>7, <2>1, Pop
<1>9. Unpack(w) = w
  <2>1. /\ Unpack(w) \in Seq(Bytes) /\ Len(Unpack(w)) = Len(w)
        /\ \A i \in 1 .. Len(w) : Unpack(w)[i] = w[i]
    BY <1>3, <1>4, <1>8, UnpackTypes, SMTT(60)
  <2>2. QED
    BY <2>1, SeqEqual
<1>10. PICK l \in Nat : l = Len(w)
  BY LenProperties
<1>11. /\ Len(buffer') = b + l
       /\ \A i \in 1 .. b : buffer'[i] = buffer[i]
       /\ \A i \in (b + 1) .. (b + l) : buffer'[i] = w[i - b]
  <2>1. buffer' = buffer \o w
    BY <1>1, <1>5, <1>9
  <2>2. PICK s \in Seq(Bytes) : s = buffer
    BY <1>3
  <2>3. /\ Len(s \o w) = Len(s) + Len(w)
        /\ \A i \in 1 .. Len(s) + Len(w) :
             (s \o w)[i] = IF i <= Len(s) THEN s[i] ELSE w[i - Len(s)]
    BY ConcatProperties
  <2>4. Len(s) = b /\ Len(w) = l /\ buffer' = s \o w
    BY <1>4, <1>10, <2>1, <2>2
  <2>5. QED
    BY <2>2, <2>3, <2>4
<1>12. PICK rest \in Seq(Seq(Bytes)) : rest = Tail(fifo)
  BY <1>1, <1>3, HeadTailProperties
<1>13. PICK a2 \in Int, n2 \in Int : a2 = a + l /\ n2 = n - l /\ a2 + n2 = x + y
  OBVIOUS
<1>14. /\ Queued(rest, a2, n2, Undelivered) /\ rest = (IF TRUE THEN Tail(fifo) ELSE fifo)
  BY <1>8, <1>10, <1>12, <1>13
<1>15. Queued(fifo', a2, n2, Undelivered')
  BY <1>1, <1>4, <1>13, <1>14, QueueCycle
<1>16. a2 = cur'.addr + Len(buffer') /\ n2 = cur'.len - Len(buffer')
  <2>1. a2 = x + (b + l) /\ n2 = y - (b + l)
    BY <1>13
  <2>2. QED
    BY <1>1, <1>4, <1>11, <2>1
<1>17. ASSUME NEW i \in 1 .. Len(buffer') PROVE buffer'[i] = ByteAt(cur'.addr + i - 1)
  <2>1. CASE i \in 1 .. b
    BY <1>1, <1>2, <1>4, <1>11, <2>1 DEF Holds
  <2>2. CASE i \in (b + 1) .. (b + l)
    <3>1. PICK j \in 1 .. Len(w) : j = i - b
      BY <1>10, <2>2
    <3>2. buffer'[i] = ByteAt(a + j - 1)
      BY <1>8, <1>11, <2>2, <3>1 DEF Holds
    <3>3. a + j - 1 = cur'.addr + i - 1
      <4>1. a + j - 1 = x + i - 1
        BY <3>1
      <4>2. QED
        BY <1>1, <1>4, <4>1
    <3>4. QED
      BY <3>2, <3>3
  <2>3. QED
    BY <1>4, <1>10, <1>11, <2>1, <2>2
<1>18. Holds(buffer, cur.addr)'
  BY <1>17 DEF Holds
<1>19. QED
  BY <1>1, <1>2, <1>15, <1>16, <1>18 DEF Queued

LEMMA QueueInvStep ==
  ASSUME ~TrapsEnabled, WholeInv, DriverInv, CollectInv, QueueInv, [Next]_vars
  PROVE  QueueInv'
<1>0. DriverOK /\ DriverOK' /\ BytesExact
  BY WholeStep DEF WholeInv, TypeOK, QueueInv
<1>1. CASE CallReadFlash \/ WriteAddr \/ WriteLen \/ ClearDone
  <2>1. /\ dpc \in {"return", "write_addr", "write_len", "clear_done"} /\ ~Polling
        /\ dpc' \in {"write_addr", "write_len", "clear_done", "start_read"} /\ ~Polling'
        /\ Clock(FALSE, FALSE, FALSE) \/ Clock(FALSE, TRUE, FALSE)
    BY <1>1 DEF CallReadFlash, WriteAddr, WriteLen, ClearDone, Access, Polling
  <2>2. buffer' = <<>>
    BY <1>1 DEF CallReadFlash, WriteAddr, WriteLen, ClearDone, Access, QueueInv
  <2>3. fifo' = <<>> /\ state' \in {"sIdle", "sDone"}
    BY <2>1, QuietCycle
  <2>4. QED
    BY <2>1, <2>2, <2>3 DEF QueueInv, BytesExact
<1>2. CASE StartRead
  <2>1. /\ dpc = "start_read" /\ dpc' = "poll_ready" /\ ~Polling /\ Polling'
        /\ UNCHANGED <<cur, buffer>>
    BY <1>2 DEF StartRead, Access, Polling
  <2>2. buffer = <<>> /\ fifo = <<>> /\ Len(buffer') = 0
    BY <2>1, EmptySeq DEF QueueInv
  <2>3. /\ state' = "sSendSetup" /\ job' = cur' /\ bytesRemaining' = cur.len /\ word' = <<>>
        /\ fifo' = <<>>
    BY <1>2, <2>1, <2>2, StartIsTaken
  <2>4. cur.addr \in Int /\ cur.len \in Nat \ {0}
    BY <1>0, TransfersAssumption DEF DriverOK
  <2>5. Undelivered' = cur.len
    BY <2>3, <2>4, EmptySeq DEF Undelivered
  <2>6. Queued(fifo, cur.addr + Len(buffer), cur.len - Len(buffer), Undelivered)'
    BY <2>1, <2>2, <2>3, <2>4, <2>5, EmptySeq DEF Queued, QueuedBytes
  <2>7. BytesExact' /\ Len(buffer') < cur'.len
    BY <2>1, <2>2, <2>4, EmptySeq DEF BytesExact
  <2>8. QED
    BY <2>1, <2>3, <2>6, <2>7 DEF QueueInv
<1>3. CASE PollReady
  <2>1. /\ dpc = "poll_ready" /\ Polling /\ Polling' /\ UNCHANGED <<cur, buffer>>
        /\ Clock(FALSE, FALSE, FALSE)
        /\ dpc' = IF fifo = <<>> THEN "poll_ready" ELSE "read_data"
    BY <1>3 DEF PollReady, Access, Polling
  <2>2. BytesExact' /\ Len(buffer') < cur'.len
    BY <1>0, <2>1, ExactBuffer DEF QueueInv, BytesExact, Polling
  <2>3. QED
    BY <2>1, <2>2, WaitingCycle DEF QueueInv
<1>4. CASE ReadData
  <2>1. /\ Polling' /\ cur' = cur
        /\ dpc' = IF Len(buffer') < cur.len THEN "poll_ready" ELSE "poll_done"
    BY <1>4 DEF ReadData, Polling
  <2>2. Len(buffer') <= cur.len /\ Len(buffer') \in Int /\ cur.len \in Int
    BY <1>0, <2>1, LenProperties, TransfersAssumption DEF DriverOK
  <2>3. BytesExact'
    <3>1. DOMAIN buffer' = 1 .. Len(buffer')
      BY <1>0, LenProperties DEF DriverOK
    <3>2. Holds(buffer, cur.addr)'
      BY <1>4, TakingCycle
    <3>3. QED
      BY <3>1, <3>2 DEF Holds, BytesExact
  <2>4. QED
    BY <1>4, <2>1, <2>2, <2>3, TakingCycle DEF QueueInv
<1>5. CASE PollDone
  <2>1. /\ dpc = "poll_done" /\ Polling /\ UNCHANGED <<cur, buffer>>
        /\ Clock(FALSE, FALSE, FALSE) /\ dpc' \in {"poll_done", "return"}
    BY <1>5 DEF PollDone, Access, Polling
  <2>2. Len(buffer) = cur.len /\ cur.len \in Int /\ fifo \in Seq(Seq(Bytes))
    BY <1>0, <2>1, TransfersAssumption DEF QueueInv, WholeInv, TypeOK, RegistersOK, DriverOK
  <2>3. fifo = <<>> /\ state \in {"sIdle", "sDone"}
    <3>1. /\ 0 = QueuedBytes(fifo) + Undelivered /\ Undelivered \in Nat
          /\ \A k \in 1 .. Len(fifo) : Len(fifo[k]) \in 1 .. WordBytes
      BY <2>1, <2>2, UndeliveredBounds DEF QueueInv, Queued
    <3>2. ASSUME fifo # <<>> PROVE QueuedBytes(fifo) \in Nat \ {0}
      <4>0. Len(fifo) \in Nat \ {0}
        BY <2>2, <3>2, EmptySeq, LenProperties
      <4>1. PICK m \in Nat : m = Len(fifo) - 1 /\ m + 1 \in 1 .. Len(fifo) /\ m + 1 = Len(fifo)
        BY <4>0
      <4>2. m * WordBytes \in Nat
        BY Sizes
      <4>3. PICK x \in Nat, y \in Nat \ {0} : x = m * WordBytes /\ y = Len(fifo[Len(fifo)])
        BY <3>1, <4>1, <4>2, Sizes
      <4>4. QueuedBytes(fifo) = x + y
        BY <3>2, <4>1, <4>3 DEF QueuedBytes
      <4>5. QED
        BY <4>3, <4>4
    <3>3. fifo = <<>>
      BY <3>1, <3>2
    <3>4. Undelivered = 0
      BY <3>1, <3>3 DEF QueuedBytes
    <3>5. QED
      BY <3>3, <3>4, UndeliveredBounds
  <2>4. fifo' = <<>>
    BY <2>1, <2>3, CycleDelivers
  <2>5. state' \in {"sIdle", "sDone"}
    BY <2>1, <2>3, NoStart
  <2>6. BytesExact' /\ Len(buffer') = cur'.len
    BY <1>0, <2>1, <2>2 DEF BytesExact
  <2>7. QED
    BY <2>1, <2>4, <2>5, <2>6, WaitingCycle DEF QueueInv, Polling
<1>6. CASE HartIdle
  <2>1. Clock(FALSE, FALSE, FALSE) /\ UNCHANGED <<dpc, cur, buffer>> /\ Polling' = Polling
    BY <1>6 DEF HartIdle, driver, Polling
  <2>2. BytesExact'
    BY <1>0, <2>1 DEF BytesExact
  <2>3. CASE Polling
    BY <2>1, <2>2, <2>3, WaitingCycle DEF QueueInv, Polling
  <2>4. CASE ~Polling
    BY <2>1, <2>2, <2>4, QuietCycle DEF QueueInv, Polling
  <2>5. QED
    BY <2>3, <2>4
<1>7. CASE UNCHANGED vars
  BY <1>7 DEF vars, master, driver, QueueInv, BytesExact, Polling, Undelivered, Queued, QueuedBytes, Holds
<1>8. QED
  BY <1>1, <1>2, <1>3, <1>4, <1>5, <1>6, <1>7 DEF Next, DriverStep, Trap

\* Without a trap, what read_flash has stored is the flash, bit for bit, for every
\* range, every size of word and FIFO, and every delay of the hart.
THEOREM BufferIsExact == ASSUME ~TrapsEnabled PROVE Spec => []BytesExact
<1>1. Init => QueueInv
  BY DEF Init, QueueInv, BytesExact, Polling
<1>2. WholeInv /\ DriverInv /\ CollectInv /\ QueueInv /\ [Next]_vars => QueueInv'
  BY QueueInvStep
<1>3. QueueInv => BytesExact
  BY DEF QueueInv
<1>4. QED
  BY <1>1, <1>2, <1>3, WholeInvariant, DriverInvariant, CollectInvariant, PTL DEF Spec

(* -------- the refinement -------- *)

LEMMA DoneInvariant == Spec => []DoneInv
<1>1. Init => DoneInv
  BY DEF Init, DoneInv
<1>2. WholeInv /\ DoneInv /\ [Next]_vars => DoneInv'
  <2>1. ASSUME DoneInv, NEW start \in BOOLEAN, NEW clear \in BOOLEAN, NEW pop \in BOOLEAN,
               Clock(start, clear, pop)
        PROVE  DoneInv'
    <3>1. Master(start) /\ (mdone => doneSticky')
      BY <2>1 DEF Clock, DoneNext
    <3>2. QED
      BY <2>1, <3>1 DEF DoneInv, Master, MIdle, MSendSetup, MSendRise, MReadSetup, MReadWait,
                        MReadRise, MEmit, MDone
  <2>2. ASSUME DoneInv, UNCHANGED vars PROVE DoneInv'
    BY <2>2 DEF vars, master, DoneInv
  <2>3. QED
    BY <2>1, <2>2, EveryStepIsACycle DEF CycleOf
<1>3. QED
  BY <1>1, <1>2, WholeInvariant, PTL DEF Spec

\* The controller as the promise sees it.
pnext == job.addr + (job.len - Undelivered)
pbusy == Busy \/ state = "sDone"

\* A cycle without a start is a delivery, the end of the transfer, the clearing of DONE,
\* the reading of a word, or nothing the promise speaks of.
LEMMA CycleRefines ==
  ASSUME WholeInv, DriverInv, CollectInv, DoneInv,
         NEW clear \in BOOLEAN, NEW pop \in BOOLEAN, Clock(FALSE, clear, pop),
         pop => fifo # <<>>, clear => ~Busy /\ ~pop
  PROVE  [Promise!Next]_(Promise!vars)
<1> DEFINE rest == IF pop THEN Tail(fifo) ELSE fifo
<1>1. /\ job' = job /\ Undelivered \in Nat /\ pop \in Promise!Pops
      /\ doneSticky' = (mdone \/ (doneSticky /\ ~clear))
      /\ job.addr \in Int /\ job.len \in Int /\ doneSticky \in BOOLEAN
  BY CycleDelivers, UndeliveredBounds
     DEF Clock, DoneNext, Promise!Pops, WholeInv, TypeOK, MasterOK, RegistersOK
<1>2. Master(FALSE) /\ (state # "sIdle" => job' = job)
  BY <1>1 DEF Clock
<1>3. CASE state = "sEmit" /\ FifoReady
  <2>1. PICK e \in Seq(Bytes) : e = emitWord
    BY <1>3, CycleDelivers
  <2>2. /\ fifo' = Append(rest, e)
        /\ Undelivered' = Undelivered - Len(e) /\ Undelivered = bytesRemaining + Len(e)
        /\ Len(e) \in 1 .. WordBytes /\ (Len(e) = WordBytes \/ bytesRemaining = 0)
        /\ Holds(e, NextByte - Len(e))
    BY <1>3, <2>1, CycleDelivers
  <2>3. PICK l \in Nat, u \in Nat, br \in Nat : l = Len(e) /\ u = Undelivered /\ br = bytesRemaining
    BY <2>2, UndeliveredBounds, LenProperties
  <2>4. u = br + l /\ l # 0 /\ l <= WordBytes /\ (l = WordBytes \/ u = l) /\ WordBytes \in Nat
    BY <2>2, <2>3, Sizes
  <2>5. l = IF u < WordBytes THEN u ELSE WordBytes
    BY <2>4
  <2>6. NextByte - l = job.addr + (job.len - u)
    <3>1. PICK x \in Int, y \in Int : x = job.addr /\ y = job.len
      BY <1>1
    <3>2. NextByte = x + (y - br)
      BY <2>3, <3>1 DEF NextByte
    <3>3. QED
      BY <2>4, <3>1, <3>2
  <2>7. Promise!WordSize = l
    BY <2>3, <2>5 DEF Promise!WordSize
  <2>8. Promise!NextWord = e
    <3>1. Holds(e, pnext)
      BY <2>2, <2>3, <2>6 DEF pnext
    <3>2. Promise!NextWord = [i \in 1 .. l |-> ByteAt(pnext + i - 1)]
      BY <2>7 DEF Promise!NextWord, pnext
    <3>3. e = [i \in 1 .. l |-> e[i]]
      BY <2>3
    <3>4. \A i \in 1 .. l : e[i] = ByteAt(pnext + i - 1)
      BY <2>3, <3>1 DEF Holds
    <3>5. QED
      BY <3>2, <3>3, <3>4
  <2>9. MEmit
    BY <1>2, <1>3 DEF Master, MIdle, MSendSetup, MSendRise, MReadSetup, MReadWait, MReadRise, MDone
  <2>10. pbusy /\ pbusy' /\ doneSticky' = doneSticky
    BY <1>1, <1>3, <2>9 DEF MEmit, pbusy, Busy, DriverInv
  <2>11. pnext' = pnext + l
    <3>1. PICK x \in Int, y \in Int : x = job.addr /\ y = job.len
      BY <1>1
    <3>2. pnext = x + (y - u) /\ pnext' = x + (y - (u - l))
      BY <1>1, <2>2, <2>3, <3>1 DEF pnext
    <3>3. QED
      BY <3>2
  <2>12. Promise!Deliver(pop)
    <3>1. u > 0 /\ Undelivered' = u - l
      BY <2>2, <2>3, <2>4
    <3>2. QED
      BY <1>3, <2>2, <2>3, <2>7, <2>8, <2>10, <2>11, <3>1
         DEF Promise!Deliver, Promise!AfterPop, FifoReady, pnext, pbusy
  <2>13. QED
    BY <1>1, <2>12 DEF Promise!Next
<1>4. ASSUME ~(state = "sEmit" /\ FifoReady)
      PROVE  fifo' = rest /\ Undelivered' = Undelivered /\ pnext' = pnext
  BY <1>1, <1>4, CycleDelivers DEF pnext
<1>5. CASE state = "sDone"
  <2>1. ~(state = "sEmit" /\ FifoReady) /\ Undelivered = 0
    BY <1>5, UndeliveredBounds
  <2>2. pbusy /\ ~pbusy' /\ doneSticky'
    BY <1>1, <1>5, NoStart DEF DoneInv, pbusy, Busy
  <2>3. pbusy' = FALSE /\ doneSticky' = TRUE
    BY <1>1, <2>2 DEF pbusy, Busy
  <2>4. Promise!Finish(pop)
    BY <1>4, <2>1, <2>2, <2>3 DEF Promise!Finish, Promise!AfterPop, pbusy, pnext
  <2>5. QED
    BY <1>1, <2>4 DEF Promise!Next
<1>6. CASE state # "sDone" /\ ~(state = "sEmit" /\ FifoReady)
  <2>1. pbusy' = pbusy
    BY <1>2, <1>6 DEF Master, MIdle, MSendSetup, MSendRise, MReadSetup, MReadWait, MReadRise,
                      MEmit, MDone, pbusy, Busy
  <2>2. fifo' = rest /\ Undelivered' = Undelivered /\ pnext' = pnext
    BY <1>4, <1>6
  <2>3. CASE clear /\ ~mdone
    <3>1. doneSticky' = FALSE /\ ~pbusy /\ ~pop
      BY <1>1, <1>6, <2>3 DEF pbusy
    <3>2. Promise!ClearDone
      BY <2>1, <2>2, <3>1 DEF Promise!ClearDone, pbusy, pnext
    <3>3. QED
      BY <3>2 DEF Promise!Next
  <2>4. CASE ~(clear /\ ~mdone)
    <3>1. doneSticky' = doneSticky
      BY <1>1, <1>6, <2>4 DEF DoneInv, DriverInv
    <3>2. CASE pop
      <4>1. Promise!Read
        BY <2>1, <2>2, <3>1, <3>2 DEF Promise!Read, pbusy, pnext
      <4>2. QED
        BY <4>1 DEF Promise!Next
    <3>3. CASE ~pop
      BY <2>1, <2>2, <3>1, <3>3 DEF Promise!vars, pbusy, pnext
    <3>4. QED
      BY <3>2, <3>3
  <2>5. QED
    BY <2>3, <2>4
<1>7. QED
  BY <1>3, <1>5, <1>6

LEMMA StartRefines ==
  ASSUME AccessGap > 1, WholeInv, DriverInv, CollectInv, StartRead
  PROVE  Promise!Start
<1>1. /\ state' = "sSendSetup" /\ job' = cur /\ bytesRemaining' = cur.len
      /\ word' = <<>> /\ fifo' = fifo /\ ~doneSticky'
  BY StartIsTaken
<1>2. cur \in Transfers /\ cur.addr \in Int /\ cur.len \in Nat
  BY TransfersAssumption DEF WholeInv, TypeOK, DriverOK
<1>3. Undelivered' = cur.len
  BY <1>1, <1>2, EmptySeq DEF Undelivered
<1>4. pnext' = cur.addr
  BY <1>1, <1>2, <1>3 DEF pnext
<1>5. ~pbusy /\ pbusy' = TRUE
  BY <1>1 DEF pbusy, Busy, StartRead, Access, DriverInv
<1>6. doneSticky' = FALSE
  BY <1>1 DEF StartRead, Clock, DoneNext
<1>7. QED
  BY <1>1, <1>2, <1>3, <1>4, <1>5, <1>6 DEF Promise!Start, pnext, pbusy

LEMMA StepRefines ==
  ASSUME AccessGap > 1, WholeInv, DriverInv, CollectInv, DoneInv, [Next]_vars
  PROVE  [Promise!Next]_(Promise!vars)
<1>1. CASE CallReadFlash \/ WriteAddr \/ WriteLen \/ PollReady \/ PollDone \/ Trap \/ HartIdle
  BY <1>1, CycleRefines DEF CallReadFlash, WriteAddr, WriteLen, PollReady, PollDone, Trap, HartIdle
<1>2. CASE ClearDone
  BY <1>2, CycleRefines DEF ClearDone, CommandReady
<1>3. CASE StartRead
  BY <1>3, StartRefines DEF Promise!Next
<1>4. CASE ReadData
  BY <1>4, CycleRefines DEF ReadData
<1>5. CASE UNCHANGED vars
  BY <1>5 DEF vars, master, Promise!vars, Undelivered, Busy
<1>6. QED
  BY <1>1, <1>2, <1>3, <1>4, <1>5 DEF Next, DriverStep

\* Wires, bits and cycles implement the promise BootRom relies on: each word of the
\* range once, in order, and DONE after the last.
THEOREM CircuitImplementsPromise == ASSUME AccessGap > 1 PROVE Spec => ImplementsPromise
<1>1. Init => Promise!Init
  BY EmptySeq DEF Init, Promise!Init, Undelivered, Busy
<1>2. WholeInv /\ DriverInv /\ CollectInv /\ DoneInv /\ [Next]_vars
        => [Promise!Next]_(Promise!vars)
  BY StepRefines
<1>3. QED
  BY <1>1, <1>2, WholeInvariant, DriverInvariant, CollectInvariant, DoneInvariant, PTL
     DEF Spec, ImplementsPromise, Promise!Spec
=============================================================================
