CONSTANTS
  Thread = {t1, t2, t3}
  NoThread = NoThread
  SpinCount = 2
  Build = "X86"
SPECIFICATION FairSpec
INVARIANTS MutualExclusion RequestsCounted
PROPERTIES LockIsGranted ImplementsMutex
