SPECIFICATION Spec
CONSTANTS
  Images <- AllImages
  Blocks <- MCBlocks
  Preloads <- MCPreloads
  FlashBlocks = 2
  DramBase = 1
  DramTop = 6
  RecoveryEntry = 3
  FifoDepth = 1
  Garbage = garbage
  MaxSpin = 1
  ResetValue = 1
  FaultsEnabled = FALSE
  ResetsEnabled = FALSE
  DeveloperKey = devkey
  RecoveryImage = rec
  Zero = zero
  k1 = k1
  k2 = k2
  rec = rec
  other = other
  junk = junk
CHECK_DEADLOCK FALSE
INVARIANTS TypeOK HandoffVerified HandoffHygiene HandoffStatusClear ReportExact
PROPERTIES KernelConfined
