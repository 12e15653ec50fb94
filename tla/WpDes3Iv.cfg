CONSTANTS
  Ctx = {c1}
  Alg = {"DES3-CBC"}
  Iv = {"iv1", "iv2"}
  B = 3
  MaxFed = 7
  MaxCalls = 6
SPECIFICATION Spec
INVARIANT IvInUse
CHECK_DEADLOCK FALSE
