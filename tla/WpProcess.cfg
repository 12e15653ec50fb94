CONSTANTS
  CastThread = {t1, t2}
  NoOwner = NoOwner
  Algo <- MCAlgo
  BadAlgo <- MCBadAlgo
  NumTests <- MCNumTests
  Thread <- MCThread
  ProcOf <- MCProcOf
  NoThread = NoThread
  Instance = {libctx1}
  Want = 2
  BufSize = 3
  ForkMode = "quiet"
  LockErrors = {"lock", "lockInit"}
  MaxCalls = 4
  DrbgThread <- T
  Drbg <- ChainDrbg
  SeedSrc = {"seedsrc"}
  ParentOf <- ChainParent
  NoParent = NoParent
  Users <- ChainUsers
  Shared = {"shared"}
  NoUser = NoUser
  MaxDrbgCalls = 7
SPECIFICATION ProcessSpec
INVARIANTS CastTypeOK TestedByOne OkMeansPassed GlobalsAreTrue SeedsFullAndDistinct NothingTwice SeedCleared RngGuarded
PROPERTIES MutexReleased ImplementsService Answered
CHECK_DEADLOCK FALSE
