------------------------------ MODULE SpiFlash -------------------------------
(***************************************************************************)
(* hardware/spi_flash/rtl/spi_flash.scala clock by clock: the bit-banging  *)
(* master, the flash slave behind it, the FIFO and the registers, and the  *)
(* loops of bootrom.c that drive them.  Every step of the specification is *)
(* one clock cycle; in it the hart makes at most one register access.      *)
(*                                                                         *)
(* A bit on MISO is named <<address, position>> instead of being 0 or 1,   *)
(* so the checks hold for every flash content.  A shift register and its   *)
(* bit counter are one sequence: the bits it holds so far.  The error bit  *)
(* is left out (errorReg is only ever assigned false), and so is the spin  *)
(* limit of the driver, which BootRom.tla models.                          *)
(***************************************************************************)
EXTENDS Integers, Sequences

CONSTANTS
  ReadCommand,   \* the bits of the READ opcode, 03h
  AddressBits,   \* width of an address on the wire
  ByteBits,      \* bits of a byte
  WordBytes,     \* bytes of a FIFO word
  Depth,         \* bytes of flash
  FifoDepth,     \* words the FIFO holds
  Transfers,     \* the ranges the driver asks for: records addr, len
  AccessGap,     \* least number of cycles between two register accesses
  TrapsEnabled   \* may a trap throw the driver out of a transfer

ASSUME SizesAssumption ==
  /\ AddressBits \in Nat \ {0} /\ ByteBits \in Nat \ {0} /\ WordBytes \in Nat \ {0}
  /\ Depth \in Nat \ {0} /\ FifoDepth \in Nat \ {0}
  /\ AccessGap \in Nat \ {0}
  /\ ReadCommand \in Seq(BOOLEAN) /\ ReadCommand # <<>>
ASSUME TransfersAssumption ==
  /\ Transfers # {} /\ TrapsEnabled \in BOOLEAN
  \* check_and_load_kernel refuses a length of 0
  /\ Transfers \subseteq [addr : 0 .. (2 ^ AddressBits - 1), len : Nat \ {0}]
\* The flash is a power of two in size (1 << 20 bytes) and no larger than what an
\* address reaches.  What powers of two are is stated because the provers do not know.
ASSUME AddressAssumption ==
  /\ 2 ^ AddressBits % Depth = 0
  /\ 2 ^ 0 = 1
  /\ \A n \in 0 .. AddressBits : 2 ^ n \in Nat \ {0}
  /\ \A n \in 0 .. (AddressBits - 1) : 2 ^ (n + 1) = 2 * 2 ^ n

VARIABLES
  state, tx, rx, bytesRemaining, word, emitWord, mdone,        \* SPIMasterCore
  cs_n, sclk, mosi,                                            \* its outputs
  sstate, sclkPrev, command, address, addressBits,             \* SPIFlashSlave
  out, outputBits, outputLoaded, miso,
  addrReg, lenReg, doneSticky, fifo,                           \* the register wrapper
  job,                                                         \* the transfer last started
  dpc, cur, buffer, wait                                       \* the driver

master == <<state, tx, rx, bytesRemaining, word, emitWord, mdone>>
wires  == <<cs_n, sclk, mosi>>
slave  == <<sstate, sclkPrev, command, address, addressBits, out, outputBits, outputLoaded, miso>>
regs   == <<addrReg, lenReg>>
driver == <<dpc, cur, buffer>>
vars   == <<master, wires, slave, regs, doneSticky, fifo, job, driver, wait>>

-----------------------------------------------------------------------------
(* The flash.                                                              *)

\* The memory ignores address bits above its size.
Bit(a, i) == <<a % Depth, i>>
ByteAt(a) == [i \in 1 .. ByteBits |-> Bit(a, i)]
ZeroBit   == <<Depth, 0>>     \* MISO while nothing drives it: no bit of the flash

AddressToBits(a) ==
  [i \in 1 .. AddressBits |-> (a \div 2 ^ (AddressBits - i)) % 2 = 1]

\* addressReg after one more bit was shifted in.
ShiftIn(a, bit) == (2 * a + IF bit THEN 1 ELSE 0) % 2 ^ AddressBits

nextAddress(a) == IF a = Depth - 1 THEN 0 ELSE (a + 1) % 2 ^ AddressBits

Miso == IF cs_n THEN ZeroBit ELSE miso

-----------------------------------------------------------------------------
(* SPIMasterCore: one operator per state.                                  *)

Busy == state \notin {"sIdle", "sDone"}

FifoReady == Len(fifo) < FifoDepth

MIdle(start) ==
  /\ state = "sIdle"
  /\ sclk' = FALSE /\ mosi' = FALSE
  /\ IF start /\ lenReg # 0
     THEN /\ cs_n' = FALSE
          /\ tx' = ReadCommand \o AddressToBits(addrReg)
          /\ rx' = <<>> /\ word' = <<>>
          /\ bytesRemaining' = lenReg
          /\ state' = "sSendSetup"
     ELSE /\ cs_n' = TRUE
          /\ state' = IF start THEN "sDone" ELSE state
          /\ UNCHANGED <<tx, rx, word, bytesRemaining>>
  /\ mdone' = (start /\ lenReg = 0)
  /\ UNCHANGED emitWord

MSendSetup ==
  /\ state = "sSendSetup"
  /\ sclk' = FALSE /\ mosi' = Head(tx)
  /\ state' = "sSendRise" /\ mdone' = FALSE
  /\ UNCHANGED <<cs_n, tx, rx, bytesRemaining, word, emitWord>>

MSendRise ==
  /\ state = "sSendRise"
  /\ sclk' = TRUE
  /\ tx' = Tail(tx)
  /\ state' = IF Len(tx) = 1 THEN "sReadSetup" ELSE "sSendSetup"
  /\ mdone' = FALSE
  /\ UNCHANGED <<cs_n, mosi, rx, bytesRemaining, word, emitWord>>

\* sReadSetup without the wait state.
MReadSetup_NoWait ==
  /\ state = "sReadSetup"
  /\ sclk' = FALSE /\ mosi' = FALSE
  /\ state' = "sReadRise" /\ mdone' = FALSE
  /\ UNCHANGED <<cs_n, tx, rx, bytesRemaining, word, emitWord>>

MReadSetup ==
  /\ state = "sReadSetup"
  /\ sclk' = FALSE /\ mosi' = FALSE
  /\ state' = "sReadWait" /\ mdone' = FALSE
  /\ UNCHANGED <<cs_n, tx, rx, bytesRemaining, word, emitWord>>

MReadWait ==
  /\ state = "sReadWait"
  /\ sclk' = FALSE /\ mosi' = FALSE
  /\ state' = "sReadRise" /\ mdone' = FALSE
  /\ UNCHANGED <<cs_n, tx, rx, bytesRemaining, word, emitWord>>

\* A bit is sampled; a full byte goes into the word, a full or last word is emitted.
MReadRise ==
  /\ state = "sReadRise"
  /\ sclk' = TRUE /\ mdone' = FALSE
  /\ LET byte == Append(rx, Miso) IN
       IF Len(byte) < ByteBits
       THEN /\ rx' = byte /\ state' = "sReadSetup"
            /\ UNCHANGED <<bytesRemaining, word, emitWord>>
       ELSE LET full == Len(word) = WordBytes - 1 \/ bytesRemaining = 1 IN
            /\ rx' = <<>>
            /\ emitWord' = Append(word, byte)
            /\ word' = IF full THEN <<>> ELSE Append(word, byte)
            /\ bytesRemaining' = bytesRemaining - 1
            /\ state' = IF full THEN "sEmit" ELSE "sReadSetup"
  /\ UNCHANGED <<cs_n, mosi, tx>>

\* The word is offered once, taken or not.
MEmit_IgnoresReady ==
  /\ state = "sEmit"
  /\ sclk' = FALSE
  /\ IF bytesRemaining = 0
     THEN cs_n' = TRUE /\ mdone' = TRUE /\ state' = "sDone"
     ELSE cs_n' = cs_n /\ mdone' = FALSE /\ state' = "sReadSetup"
  /\ UNCHANGED <<mosi, tx, rx, bytesRemaining, word, emitWord>>

MEmit ==
  /\ state = "sEmit"
  /\ sclk' = FALSE
  /\ IF FifoReady /\ bytesRemaining = 0
     THEN cs_n' = TRUE /\ mdone' = TRUE /\ state' = "sDone"
     ELSE cs_n' = cs_n /\ mdone' = FALSE /\ state' = IF FifoReady THEN "sReadSetup" ELSE state
  /\ UNCHANGED <<mosi, tx, rx, bytesRemaining, word, emitWord>>

\* sDone left by a start instead of without one.
MDone_OnStart(start) ==
  /\ state = "sDone"
  /\ cs_n' = TRUE /\ sclk' = FALSE
  /\ state' = IF start THEN "sIdle" ELSE state
  /\ UNCHANGED <<mosi, mdone, tx, rx, bytesRemaining, word, emitWord>>

MDone(start) ==
  /\ state = "sDone"
  /\ cs_n' = TRUE /\ sclk' = FALSE
  /\ state' = IF start THEN state ELSE "sIdle"
  /\ UNCHANGED <<mosi, mdone, tx, rx, bytesRemaining, word, emitWord>>

Master(start) ==
  \/ MIdle(start) \/ MSendSetup \/ MSendRise \/ MReadSetup
  \/ MReadWait \/ MReadRise \/ MEmit \/ MDone(start)

-----------------------------------------------------------------------------
(* SPIFlashSlave.                                                          *)

RisingEdge  == ~sclkPrev /\ sclk
FallingEdge == sclkPrev /\ ~sclk

SDeselected ==
  /\ cs_n
  /\ sstate' = "sIdle" /\ command' = <<>> /\ address' = 0 /\ addressBits' = 0
  /\ out' = 0 /\ outputBits' = 0 /\ outputLoaded' = FALSE /\ miso' = ZeroBit

\* Nothing happens in this cycle but, perhaps, waking up.
SQuiet ==
  /\ ~cs_n
  /\ ~(RisingEdge /\ sstate \in {"sCommand", "sAddress"}) /\ ~(FallingEdge /\ sstate = "sData")
  /\ sstate' = IF sstate = "sIdle" THEN "sCommand" ELSE sstate
  /\ miso' = IF sstate = "sIgnore" THEN ZeroBit ELSE miso
  /\ UNCHANGED <<command, address, addressBits, out, outputBits, outputLoaded>>

SCommand ==
  /\ ~cs_n /\ sstate = "sCommand" /\ RisingEdge
  /\ command' = Append(command, mosi)
  /\ sstate' = IF Len(command') < Len(ReadCommand) THEN sstate
               ELSE IF command' = ReadCommand THEN "sAddress" ELSE "sIgnore"
  /\ UNCHANGED <<address, addressBits, out, outputBits, outputLoaded, miso>>

SAddress ==
  /\ ~cs_n /\ sstate = "sAddress" /\ RisingEdge
  /\ address' = ShiftIn(address, mosi)
  /\ IF addressBits = AddressBits - 1
     THEN /\ addressBits' = 0
          /\ out' = ShiftIn(address, mosi) /\ outputBits' = 0 /\ outputLoaded' = FALSE
          /\ sstate' = "sData"
     ELSE addressBits' = addressBits + 1 /\ UNCHANGED <<out, outputBits, outputLoaded, sstate>>
  /\ UNCHANGED <<command, miso>>

\* On a falling edge the next bit goes to MISO; after the last bit of a byte the
\* first of the next one.
SData ==
  /\ ~cs_n /\ sstate = "sData" /\ FallingEdge
  /\ outputLoaded' = TRUE
  /\ \/ /\ ~outputLoaded
        /\ miso' = Bit(out, 1)
        /\ UNCHANGED <<address, out, outputBits>>
     \/ /\ outputLoaded /\ outputBits = ByteBits - 1
        /\ address' = nextAddress(address) /\ out' = nextAddress(address)
        /\ miso' = Bit(nextAddress(address), 1) /\ outputBits' = 0
     \/ /\ outputLoaded /\ outputBits < ByteBits - 1
        /\ miso' = Bit(out, outputBits + 2) /\ outputBits' = outputBits + 1
        /\ UNCHANGED <<address, out>>
  /\ UNCHANGED <<sstate, command, addressBits>>

Slave ==
  /\ SDeselected \/ SQuiet \/ SCommand \/ SAddress \/ SData
  /\ sclkPrev' = sclk

-----------------------------------------------------------------------------
(* SecureBootSPITL: one cycle, given what the hart's access does in it.    *)

DoneNext_NotCleared(cleared) == mdone \/ doneSticky

\* Setting wins over clearing.
DoneNext(cleared) == mdone \/ (doneSticky /\ ~cleared)

\* The word enters whether there is room or not.
QueueNext_Overfull(pop) ==
  LET rest == IF pop THEN Tail(fifo) ELSE fifo IN
    IF state = "sEmit" THEN Append(rest, emitWord) ELSE rest

\* The queue takes a word only if it was not full at the start of the cycle.
QueueNext(pop) ==
  LET rest == IF pop THEN Tail(fifo) ELSE fifo IN
    IF state = "sEmit" /\ FifoReady THEN Append(rest, emitWord) ELSE rest

Clock(start, clear, pop) ==
  /\ Master(start)
  /\ Slave
  /\ doneSticky' = DoneNext(start \/ clear)
  /\ fifo' = QueueNext(pop)
  /\ job' = IF start /\ state = "sIdle" THEN [addr |-> addrReg, len |-> lenReg] ELSE job

-----------------------------------------------------------------------------
(* start_flash_read and read_flash_words.                                  *)

\* The hart makes an access: dpc names it.
Access(label) ==
  /\ dpc = label /\ wait = 0
  /\ wait' = AccessGap - 1

\* read_flash is called for some region.
CallReadFlash ==
  /\ dpc = "return" /\ wait = 0
  /\ \E t \in Transfers : cur' = t
  /\ dpc' = "write_addr" /\ buffer' = <<>>
  /\ Clock(FALSE, FALSE, FALSE)
  /\ UNCHANGED <<regs, wait>>

WriteAddr ==
  /\ Access("write_addr")
  /\ addrReg' = cur.addr /\ dpc' = "write_len"
  /\ Clock(FALSE, FALSE, FALSE)
  /\ UNCHANGED <<lenReg, cur, buffer>>

WriteLen ==
  /\ Access("write_len")
  /\ lenReg' = cur.len /\ dpc' = "clear_done"
  /\ Clock(FALSE, FALSE, FALSE)
  /\ UNCHANGED <<addrReg, cur, buffer>>

CommandReady_AtEmit == state \notin {"sSendSetup", "sSendRise", "sReadSetup", "sReadWait", "sReadRise"}

\* A store to COMMAND is stalled while the master is busy.
CommandReady == ~Busy

ClearDone ==
  /\ Access("clear_done")
  /\ CommandReady
  /\ dpc' = "start_read"
  /\ Clock(FALSE, TRUE, FALSE)
  /\ UNCHANGED <<regs, cur, buffer>>

StartRead ==
  /\ Access("start_read")
  /\ CommandReady
  /\ dpc' = "poll_ready"
  /\ Clock(TRUE, FALSE, FALSE)
  /\ UNCHANGED <<regs, cur, buffer>>

PollReady ==
  /\ Access("poll_ready")
  /\ dpc' = IF fifo = <<>> THEN dpc ELSE "read_data"
  /\ Clock(FALSE, FALSE, FALSE)
  /\ UNCHANGED <<regs, cur, buffer>>

\* The bytes of word w that still fit into the buffer; missing high bytes read as 0.
Unpack(w) ==
  LET room == cur.len - Len(buffer)
      n    == IF room < WordBytes THEN room ELSE WordBytes
  IN  [i \in 1 .. n |-> IF i <= Len(w) THEN w[i] ELSE [b \in 1 .. ByteBits |-> ZeroBit]]

ReadData ==
  /\ Access("read_data")
  /\ fifo # <<>>
  /\ buffer' = buffer \o Unpack(Head(fifo))
  /\ dpc' = IF Len(buffer') < cur.len THEN "poll_ready" ELSE "poll_done"
  /\ Clock(FALSE, FALSE, TRUE)
  /\ UNCHANGED <<regs, cur>>

PollDone ==
  /\ Access("poll_done")
  /\ dpc' = IF doneSticky THEN "return" ELSE dpc
  /\ Clock(FALSE, FALSE, FALSE)
  /\ UNCHANGED <<regs, cur, buffer>>

\* A trap restarts the ROM, which begins another transfer.
Trap ==
  /\ TrapsEnabled /\ dpc # "return"
  /\ dpc' = "return"
  /\ Clock(FALSE, FALSE, FALSE)
  /\ wait' = IF wait > 0 THEN wait - 1 ELSE 0
  /\ UNCHANGED <<regs, cur, buffer>>

\* A cycle without an access.
HartIdle ==
  /\ wait' = IF wait > 0 THEN wait - 1 ELSE 0
  /\ Clock(FALSE, FALSE, FALSE)
  /\ UNCHANGED <<regs, driver>>

DriverStep ==
  \/ CallReadFlash \/ WriteAddr \/ WriteLen \/ ClearDone \/ StartRead
  \/ PollReady \/ ReadData \/ PollDone

Init ==
  /\ state = "sIdle" /\ tx = <<>> /\ rx = <<>> /\ bytesRemaining = 0
  /\ word = <<>> /\ emitWord = <<>> /\ mdone = FALSE
  /\ cs_n = TRUE /\ sclk = FALSE /\ mosi = FALSE
  /\ sstate = "sIdle" /\ sclkPrev = FALSE /\ command = <<>>
  /\ address = 0 /\ addressBits = 0
  /\ out = 0 /\ outputBits = 0 /\ outputLoaded = FALSE /\ miso = ZeroBit
  /\ addrReg = 0 /\ lenReg = 4 /\ doneSticky = FALSE /\ fifo = <<>>
  /\ job = [addr |-> 0, len |-> 0]
  /\ dpc = "return" /\ cur \in Transfers /\ buffer = <<>> /\ wait = 0

Next == DriverStep \/ Trap \/ HartIdle

\* The clock never stops, and the hart does not stay away from its next access.
Spec == Init /\ [][Next]_vars /\ WF_vars(Next) /\ WF_vars(DriverStep)

-----------------------------------------------------------------------------
(* Properties.                                                             *)

Bits  == (0 .. (Depth - 1)) \X (1 .. ByteBits) \cup {ZeroBit}
Bytes == [1 .. ByteBits -> Bits]

MasterOK ==
  /\ state \in {"sIdle", "sSendSetup", "sSendRise", "sReadSetup", "sReadWait",
                "sReadRise", "sEmit", "sDone"}
  /\ tx \in Seq(BOOLEAN) /\ Len(tx) <= Len(ReadCommand) + AddressBits
  /\ rx \in Seq(Bits) /\ Len(rx) < ByteBits
  /\ bytesRemaining \in Nat
  /\ word \in Seq(Bytes) /\ Len(word) < WordBytes
  /\ emitWord \in Seq(Bytes) /\ Len(emitWord) <= WordBytes
  /\ mdone \in BOOLEAN /\ cs_n \in BOOLEAN /\ sclk \in BOOLEAN /\ mosi \in BOOLEAN
  /\ job \in [addr : 0 .. (2 ^ AddressBits - 1), len : Nat]

SlaveOK ==
  /\ sstate \in {"sIdle", "sCommand", "sAddress", "sData", "sIgnore"}
  /\ sclkPrev \in BOOLEAN /\ outputLoaded \in BOOLEAN
  /\ command \in Seq(BOOLEAN) /\ Len(command) <= Len(ReadCommand)
  /\ address \in 0 .. (2 ^ AddressBits - 1) /\ out \in 0 .. (2 ^ AddressBits - 1)
  /\ addressBits \in 0 .. (AddressBits - 1) /\ outputBits \in 0 .. (ByteBits - 1)
  /\ miso \in Bits

RegistersOK ==
  /\ addrReg \in 0 .. (2 ^ AddressBits - 1) /\ lenReg \in Nat /\ doneSticky \in BOOLEAN
  /\ fifo \in Seq(Seq(Bytes)) /\ Len(fifo) <= FifoDepth

DriverOK ==
  /\ dpc \in {"return", "write_addr", "write_len", "clear_done", "start_read",
              "poll_ready", "read_data", "poll_done"}
  /\ cur \in Transfers /\ buffer \in Seq(Bytes) /\ Len(buffer) <= cur.len
  /\ wait \in 0 .. (AccessGap - 1)

\* Types, and the sizes of every register and of the FIFO: no counter runs past its
\* width, no word enters a full FIFO, and the driver fills its buffer at most to the end.
TypeOK == MasterOK /\ SlaveOK /\ RegistersOK /\ DriverOK

\* What read_flash has stored so far is the flash from the requested address on,
\* bit for bit, however the FIFO stalls the master.  Transfers without a trap.
BytesExact ==
  dpc \in {"poll_ready", "read_data", "poll_done"} =>
    \A i \in DOMAIN buffer : buffer[i] = ByteAt(cur.addr + i - 1)

\* DONE as the driver polls it belongs to the transfer it started: the master has
\* emitted the last word of that transfer and released the flash.  Also after
\* traps, if two accesses are never in adjacent cycles.
DoneIsOwn ==
  (doneSticky /\ dpc \in {"poll_ready", "read_data", "poll_done"}) => ~Busy /\ cs_n

\* A START the bus has acknowledged reaches the master: it is never swallowed by a
\* transfer that is just ending.
StartNotLost ==
  [][(dpc = "start_read" /\ dpc' = "poll_ready") => state' = "sSendSetup"]_vars

\* The master and the slave agree on the bit that is sampled, and the slave is
\* never left in the middle of a command: it sees one falling edge per bit.
InStep ==
  state = "sReadRise" =>
    /\ sstate = "sData" /\ outputLoaded
    /\ outputBits = Len(rx)
    /\ out % Depth = (job.addr + (job.len - bytesRemaining)) % Depth

\* Every transfer the driver starts returns, for ever and back to back.
TransferReturns == (dpc = "start_read") ~> (dpc = "return")

-----------------------------------------------------------------------------
(* The inductive invariants behind the safety properties.                  *)

\* The command and the address as the master sends them, and how far it is.
Total == Len(ReadCommand) + AddressBits
SentBit(i) == IF i <= Len(ReadCommand) THEN ReadCommand[i]
              ELSE AddressToBits(job.addr)[i - Len(ReadCommand)]
Sent == Total - Len(tx)

\* The address of the byte the master is collecting.
NextByte == job.addr + (job.len - bytesRemaining)

SlaveReset ==
  /\ sstate = "sIdle" /\ command = <<>> /\ address = 0 /\ addressBits = 0
  /\ outputBits = 0 /\ ~outputLoaded

\* The slave has taken in n bits of the command and the address.
SlaveHas(n) ==
  /\ outputBits = 0 /\ ~outputLoaded
  /\ Len(command) = IF n < Len(ReadCommand) THEN n ELSE Len(ReadCommand)
  /\ \A i \in 1 .. Len(command) : command[i] = ReadCommand[i]
  /\ n < Len(ReadCommand) => sstate = "sCommand" /\ address = 0 /\ addressBits = 0
  /\ n >= Len(ReadCommand) /\ n < Total =>
       /\ sstate = "sAddress" /\ addressBits = n - Len(ReadCommand)
       /\ address = job.addr \div 2 ^ (Total - n)
  /\ n = Total => sstate = "sData" /\ address = job.addr /\ out = job.addr /\ addressBits = 0

FirstByte == rx = <<>> /\ word = <<>> /\ bytesRemaining = job.len

\* MISO shows the bit the master will sample next.
Ahead ==
  /\ outputBits = Len(rx) /\ out % Depth = NextByte % Depth
  /\ miso = Bit(out, Len(rx) + 1)

\* The slave is still at the last bit sampled and has not seen the falling edge.
Behind ==
  IF rx = <<>>
  THEN outputBits = ByteBits - 1 /\ nextAddress(out) % Depth = NextByte % Depth
  ELSE outputBits = Len(rx) - 1 /\ out % Depth = NextByte % Depth

Steady ==
  /\ sstate = "sData" /\ outputLoaded /\ address = out
  /\ IF sclk \/ sclkPrev THEN Behind ELSE Ahead

\* The wires and the slave in every state of the master.
LinkInv ==
  /\ state = "sIdle" => cs_n /\ ~sclk /\ ~sclkPrev /\ SlaveReset
  /\ state = "sDone" => cs_n /\ ~sclk
  /\ state \notin {"sIdle", "sDone"} => ~cs_n
  /\ state \in {"sSendSetup", "sSendRise"} =>
       /\ FirstByte /\ job.len > 0
       /\ Len(tx) \in 1 .. Total /\ \A i \in 1 .. Len(tx) : tx[i] = SentBit(Sent + i)
  /\ state = "sSendSetup" =>
       IF Sent = 0 THEN ~sclk /\ ~sclkPrev /\ SlaveReset
       ELSE sclk /\ ~sclkPrev /\ mosi = SentBit(Sent) /\ SlaveHas(Sent - 1)
  /\ state = "sSendRise" => ~sclk /\ mosi = SentBit(Sent + 1) /\ SlaveHas(Sent)
  /\ state \in {"sReadSetup", "sReadWait", "sReadRise"} => bytesRemaining \in 1 .. job.len
  /\ state = "sReadSetup" =>
       \/ sclk /\ ~sclkPrev /\ mosi = SentBit(Total) /\ SlaveHas(Total - 1) /\ FirstByte
       \/ ~(sclk /\ sclkPrev) /\ Steady
  /\ state = "sReadWait" => ~sclk /\ ((sclkPrev /\ SlaveHas(Total) /\ FirstByte) \/ Steady)
  /\ state = "sReadRise" => ~sclk /\ ~sclkPrev /\ Steady
  /\ state = "sEmit" => /\ ~(sclk /\ sclkPrev) /\ Steady /\ rx = <<>>
                        /\ bytesRemaining \in 0 .. (job.len - 1)

\* The driver's two register writes, and the master while the driver prepares a start:
\* two cycles after CLEAR_DONE nothing is left of the transfer before.
DriverInv ==
  /\ dpc \in {"write_len", "clear_done", "start_read"} => addrReg = cur.addr
  /\ dpc \in {"clear_done", "start_read"} => lenReg = cur.len
  /\ dpc = "start_read" => state = "sIdle" /\ (mdone => wait = AccessGap - 1)
  /\ mdone => state \in {"sIdle", "sDone"}

\* The master raises done for two cycles, and DONE is up in the second.
DoneInv ==
  /\ state = "sDone" => mdone
  /\ state = "sIdle" /\ mdone => doneSticky

\* What the master still has to put into the FIFO, in bytes.
Undelivered ==
  bytesRemaining + Len(word) + IF state = "sEmit" THEN Len(emitWord) ELSE 0

\* The bytes w are those of the flash from address a on.
Holds(w, a) == \A j \in 1 .. Len(w) : w[j] = ByteAt(a + j - 1)

\* The bits, bytes and the word the master has collected are those of the flash.
CollectInv ==
  /\ state \in {"sIdle", "sDone"} => bytesRemaining = 0 /\ word = <<>>
  /\ state \notin {"sIdle", "sDone"} =>
       /\ \A j \in 1 .. Len(rx) : rx[j] = Bit(NextByte, j)
       /\ Holds(word, NextByte - Len(word))
  /\ state = "sEmit" =>
       /\ word = <<>> /\ Len(emitWord) \in 1 .. WordBytes
       /\ Len(emitWord) = WordBytes \/ bytesRemaining = 0
       /\ Holds(emitWord, NextByte - Len(emitWord))

\* The words q and u undelivered bytes make up the n bytes from address a on; only the
\* last word may be short.
QueuedBytes(q) == IF q = <<>> THEN 0 ELSE (Len(q) - 1) * WordBytes + Len(q[Len(q)])
Queued(q, a, n, u) ==
  /\ \A k \in 1 .. Len(q) :
       /\ Len(q[k]) \in 1 .. WordBytes
       /\ Len(q[k]) = WordBytes \/ (k = Len(q) /\ u = 0)
       /\ Holds(q[k], a + (k - 1) * WordBytes)
  /\ n = QueuedBytes(q) + u

Polling == dpc \in {"poll_ready", "read_data", "poll_done"}

\* Buffer, FIFO and circuit while the driver reads and while it does not.
\* Transfers without a trap.
QueueInv ==
  /\ Polling => /\ job = cur
                /\ Queued(fifo, cur.addr + Len(buffer), cur.len - Len(buffer), Undelivered)
  /\ dpc \in {"poll_ready", "read_data"} => Len(buffer) < cur.len
  /\ dpc = "read_data" => fifo # <<>>
  /\ dpc = "poll_done" => Len(buffer) = cur.len
  /\ ~Polling => fifo = <<>> /\ state \in {"sIdle", "sDone"}
  /\ dpc \notin {"return", "poll_ready", "read_data", "poll_done"} => buffer = <<>>
  /\ BytesExact

-----------------------------------------------------------------------------
(* Refinement.                                                             *)

\* sDone is still part of the transfer, until DONE can be read.
Promise == INSTANCE SpiPromise WITH
  Content <- ByteAt,
  left    <- Undelivered,
  next    <- job.addr + (job.len - Undelivered),
  busy    <- Busy \/ (state = "sDone"),
  done    <- doneSticky

\* The circuit delivers what SpiPromise says, whatever the driver does to it.
ImplementsPromise == Promise!Spec
=============================================================================
