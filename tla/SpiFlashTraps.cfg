SPECIFICATION Spec
CONSTANTS
  ReadCommand <- MCReadCommand
  Transfers <- MCTrapTransfers
  AddressBits = 3
  ByteBits = 2
  WordBytes = 2
  Depth = 4
  FifoDepth = 1
  AccessGap = 2
  TrapsEnabled = TRUE
INVARIANTS DoneIsOwn
PROPERTIES StartNotLost ImplementsPromise
