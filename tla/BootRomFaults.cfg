SPECIFICATION Spec
CONSTANTS
  Images <- FaultImages
  Blocks <- MCBlocks
  Preloads <- MCPreloads
  FlashBlocks = 2
  DramBase = 1
  DramTop = 6
  RecoveryEntry = 3
  FifoDepth = 1
  Garbage = garbage
  MaxSpin = 0
  ResetValue = 1
  FaultsEnabled = TRUE
  ResetsEnabled = TRUE
  DeveloperKey = devkey
  RecoveryImage = rec
  Zero = zero
  k1 = k1
  k2 = k2
  rec = rec
  other = other
  junk = junk
CHECK_DEADLOCK FALSE
INVARIANTS CauseRecorded PartialLockReported
PROPERTIES CounterAdvancesVerified ImplementsPromise
