SPECIFICATION KdfMacSpec
CONSTANTS
  Kdfs = {"krb5"}
  Constants <- MCConstants
  FoldSize = 4
  MaxPieces = 2
  MaxBatches = 3
  KdfHabits = {"long_constant"}
  Digests = {}
  DigestContexts = {"d1"}
  Inputs <- MCInputs
  Chunk = 2
  XofLengths = {16}
  MaxFed = 1
  MaxFailures = 0
  DigestHabits = {}
  Macs = {}
  MacContexts = {"c1"}
  MacKeys = {"m1"}
  MacInputs <- MCInputs
  Word = 3
  MaxMacMsg = 1
  MacHabits = {}
INVARIANT ConstantFits
CHECK_DEADLOCK FALSE
