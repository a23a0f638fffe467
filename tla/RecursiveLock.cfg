CONSTANTS
  Thread = {t1, t2, t3}
  NoThread = NoThread
  SpinCount = 1
  Build = "X86"
  MaxDepth = 3
SPECIFICATION RecursiveSpec
INVARIANT NestingIsExact
PROPERTY ImplementsMutex
