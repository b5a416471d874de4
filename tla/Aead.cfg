SPECIFICATION Spec
CONSTANTS
  Word = 2
  Block = 4
  PolyBlock = 4
  LimbBits = 7
  MaxMessages = 2
  Key <- MCKey
  Nonces <- MCNonces
  ADs <- MCADs
  Plains <- MCPlains
  Texts <- MCTexts
  Hashes <- MCHashes
  Rs <- MCRs
  Blocks <- MCBlocks
INVARIANTS
  TypeOK OnlySentAccepted ReaderInStep KeyStreamOnce OneShotAgrees StreamExact TagExact SumExact
CHECK_DEADLOCK FALSE
