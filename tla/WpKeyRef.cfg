SPECIFICATION Spec
CONSTANTS
  t1 = t1
  t2 = t2
  k1 = k1
  k2 = k2
  c1 = c1
  c2 = c2
  Thread = {t1, t2}
  Key = {k1, k2}
  Ctx = {c1, c2}
  NoKey = NoKey
  NoCtx = NoCtx
  NoThread = NoThread
  Casts <- MCCasts
  MaxCalls = 4
SYMMETRY MCSymmetry
INVARIANTS
  CountExact
  LifeTime
  KeyRngInUse
CHECK_DEADLOCK FALSE
