CONSTANTS
  Thread = {t1, t2}
  NoThread = NoThread
  SpinCount = 1
  Build = "ARM"
SPECIFICATION Spec
INVARIANT MutualExclusion
