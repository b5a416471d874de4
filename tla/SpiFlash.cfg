SPECIFICATION Spec
CONSTANTS
  ReadCommand <- MCReadCommand
  Transfers <- MCTransfers
  AddressBits = 3
  ByteBits = 2
  WordBytes = 2
  Depth = 4
  FifoDepth = 2
  AccessGap = 1
  TrapsEnabled = FALSE
INVARIANTS TypeOK BytesExact InStep
PROPERTIES TransferReturns
