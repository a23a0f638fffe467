CONSTANTS
  Thread = {t1, t2, t3}
  NoThread = NoThread
  MaxFlushtime = 3
  Cleanup = TRUE
SPECIFICATION FairSpec
INVARIANTS TypeOK FrozenDuringFlush NoStaleAnswer HandshakeInv
PROPERTIES ImplementsGate LiveFlushCompletes StoppedThreadsResume
CHECK_DEADLOCK FALSE
