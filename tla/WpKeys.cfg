SPECIFICATION KeysSpec
CONSTANTS
  Families <- AllFamilies
  s1 = s1
  s2 = s2
  s3 = s3
  m1 = m1
  m2 = m2
  Slot = {s1, s2, s3}
  NoKey = NoKey
  Mat = {m1, m2}
  None = None
  Grp = {g1, g2}
  NoGrp = NoGrp
  Own = {o1, o2}
  BadName = BadName
  Other = {c1}
  NoOther = NoOther
  PssDefaults = PssDefaults
  AutoPublic = TRUE
  Uses <- PlainUses
  CodecKeys <- MCCodecKeys
  Foreign <- MCForeign
  MaxFile = 2
  CodecHabits = {}
  Kdfs = {"hkdf", "tls13", "prf", "pbkdf2", "pkcs12", "kbkdf", "krb5", "ssh"}
  Constants <- MCConstants
  FoldSize = 4
  MaxPieces = 2
  MaxBatches = 3
  KdfHabits = {}
  Digests = {"plain", "md5sha1", "xof"}
  DigestContexts = {"d1", "d2"}
  Inputs <- MCInputs
  Chunk = 2
  XofLengths = {16, 64}
  MaxFed = 3
  MaxFailures = 1
  DigestHabits = {}
  Macs = {"hmac", "cmac", "gmac"}
  MacContexts = {"c1", "c2"}
  MacKeys = {"m1", "m2"}
  MacInputs <- MCInputs
  Word = 3
  MaxMacMsg = 3
  MacHabits = {}
SYMMETRY MCSymmetry
INVARIANTS HasIsTrue MatchIsTrue ExportIsTrue RoundTrip LoadedIsSaved StoreInOrder KeyAsSet DigestOfMessage TagAsAsked KeysAreTold
CHECK_DEADLOCK FALSE
