SPECIFICATION AeadSpec
CONSTANTS
  k1 = k1
  k2 = k2
  f1 = f1
  Modes = {"gcm"}
  Key = {k1, k2}
  NoKey = NoKey
  Fixed = {f1}
  MaxIv = 3
  NoAeadIv = NoAeadIv
  Zeros = Zeros
  MaxPieces = 2
  MaxMessages = 2
  Habits <- MCHabits
SYMMETRY MCSymmetry
INVARIANT RecordIvFresh
CHECK_DEADLOCK FALSE
