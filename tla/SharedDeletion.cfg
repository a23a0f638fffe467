CONSTANTS
  Thread = {t1, t2}
  NoThread = NoThread
  MaxFlushtime = 3
  Cleanup = TRUE
  Fragment = {f1, f2}
  NoFragment = NoFragment
  LazyMax = 1
SPECIFICATION DeletionSpec
SYMMETRY Symmetry
INVARIANTS NoUseAfterFree RefCountExact ListsSorted OnOneList
CHECK_DEADLOCK FALSE
