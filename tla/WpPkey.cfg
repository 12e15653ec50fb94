CONSTANTS
  Keys <- MCKeys
  Md <- MCMd
  Fips = TRUE
  KeyLen = 256
  MaxPieces = 1
  MaxSets = 2
  MaxSigs = 1
  Habits = {}
  AsymMd <- MCAsymMd
  Labels = {"label"}
  Versions = {"v2", "v3"}
  MaxAsymSets = 3
  AsymHabits = {}
  ExKeys = {"ka", "kb", "kc"}
  OwnKeys = {"ka"}
  GroupOf <- MCGroup
  Short <- MCShort
  Cofactors = {}
  Base = 4
  CurveOrder <- MCOrder
  XSecrets <- MCSecrets
  MaxExSets = 4
  ExHabits = {}
SPECIFICATION PkeySpec
INVARIANTS SignedAsAsked AnswerIsTrue RestrictionKept FipsSignatures EncryptedAsAsked DecryptionTrue SecretAsAsked
CHECK_DEADLOCK FALSE
