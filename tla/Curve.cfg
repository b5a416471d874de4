SPECIFICATION Spec
CONSTANTS
  Base = 16
  N = 3
  L = 269
  P = 2141
  A = 162
  sqrtm1 = 419
  lop_x = 792
  lop_y = 7
  B_x = 4
  B_y = 1530
  BaseU = 6
  DirtyBase = 2048
  Bits = 12
  FieldBits = 12
  Teeth = 3
  P_W_WIDTH = 3
  B_W_WIDTH = 5
  WordBytes = 2
  HashBlock = 4
  OffsetWord = 8
  MaxHash = 4
  Seed32 = 64
  IndexWords = 3
  Seeds <- MCSeeds
  Messages <- MCMessages
  HashValues <- MCHashValues
  Points <- MCPoints
  Encodings <- MCEncodings
  Secrets <- MCSecrets
  BaseScalars <- MCBaseScalars
  DirtySecrets <- MCDirtySecrets
  Offsets <- MCOffsets
  Wide <- MCWide
  Streams <- MCStreams
  HashTexts <- MCHashTexts
  HashKeys <- MCMessages
  ArgonConfigs <- MCArgonConfigs
  ArgonSeeds <- MCArgonSeeds
  ArgonInputs <- MCArgonInputs
INVARIANTS
  SignatureHolds EquationExact ReduceExact MultiplesExact EphemeralExact HashingExact FillExact
CHECK_DEADLOCK FALSE
