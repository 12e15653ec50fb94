CONSTANTS
  Thread <- MCThread
  ProcOf <- MCProcOf
  NoThread = NoThread
  Instance = {libctx1, libctx2}
  Want = 2
  BufSize = 3
  ForkMode = "never"
  LockErrors = {"lock", "lockInit"}
  MaxCalls = 4
SPECIFICATION FairSpec
INVARIANT FlagMatchesCallback
CHECK_DEADLOCK FALSE
