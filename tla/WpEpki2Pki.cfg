SPECIFICATION CodecSpec
CONSTANTS
  CodecKeys <- MCCodecKeys
  Foreign <- MCForeign
  MaxFile = 2
  CodecHabits = {"encrypted_der"}
INVARIANT EpkiDecoded
CHECK_DEADLOCK FALSE
