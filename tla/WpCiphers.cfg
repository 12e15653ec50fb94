SPECIFICATION CiphersSpec
CONSTANTS
  k1 = k1
  k2 = k2
  f1 = f1
  Modes = {"gcm", "gcm_stream", "ccm"}
  Key = {k1, k2}
  NoKey = NoKey
  Fixed = {f1}
  MaxIv = 3
  NoAeadIv = NoAeadIv
  Zeros = Zeros
  MaxPieces = 2
  MaxMessages = 2
  Habits <- MCHabits
  Ctx = {c1, c2}
  Alg <- MCAlg
  Iv = {"iv1", "iv2"}
  B = 3
  MaxFed = 7
  MaxCalls = 6
  Streams = {"ctr", "cfb", "cts", "wrap"}
  StreamCtxs = {"s1", "s2"}
  Block = 2
  ChunkBlocks = 1
  Lengths = {1, 2, 4, 5}
  MaxPlace = 5
  MaxChain = 2
  StreamHabits = {}
SYMMETRY MCSymmetry
INVARIANTS
  BytesInOrder LastBlockInFinal AesIvInUse MacOwned
  MessageWhole AnswerIsTrue GeneratedIvFresh RecordWhole
  ResultAsDefined
CHECK_DEADLOCK FALSE
