CONSTANTS
  DrbgThread <- T
  Drbg <- RandDrbg
  SeedSrc = {}
  ParentOf <- RandParent
  NoParent = NoParent
  Users <- RandUsers
  Shared = {"primary"}
  NoUser = NoUser
  MaxDrbgCalls = 6
SPECIFICATION DrbgSpec
INVARIANT NothingTwice
CHECK_DEADLOCK FALSE
