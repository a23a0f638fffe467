CONSTANTS
  Thread = {t1, t2}
  NoThread = NoThread
  MaxFlushtime = 1
  Cleanup = TRUE
SPECIFICATION FairSpec
PROPERTY FlushCompletes
CHECK_DEADLOCK FALSE
