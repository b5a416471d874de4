SPECIFICATION Spec
CONSTANTS
  ManifestWords = 2
  SignatureWords = 1
  PublicKeyWords = 1
  a1 = a1
  a2 = a2
  b1 = b1
  sa = sa
  sb = sb
  k = k
  k2 = k2
  Missing = Missing
  Words <- MCWords
  Images <- MCImages
  Signed <- MCSigned
  FilesMayFail = TRUE
INVARIANTS TypeOK PassIsForScratch RejectIsForScratch
