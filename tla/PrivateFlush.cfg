CONSTANTS
  Thread = {t1, t2}
  NoThread = NoThread
  MaxFlushtime = 2
  Cleanup = FALSE
  f1 = f1
  f2 = f2
  a1 = a1
  a2 = a2
  Area = {a1, a2}
  NoArea = NoArea
  Fragment = {f1, f2}
  NoFragment = NoFragment
  AreaOf <- Blocks
SPECIFICATION PrivateSpec
SYMMETRY Symmetry
INVARIANTS RegionUnreachable OwnerDeletes
CHECK_DEADLOCK FALSE
