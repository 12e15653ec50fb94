SPECIFICATION CodecSpec
CONSTANTS
  CodecKeys <- MCCodecKeys
  Foreign <- MCForeign
  MaxFile = 2
  CodecHabits = {"epki"}
INVARIANT EncryptedLoads
CHECK_DEADLOCK FALSE
