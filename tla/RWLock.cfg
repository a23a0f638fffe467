CONSTANTS
  Thread = {t1, t2, t3}
  NoThread = NoThread
  SpinCount = 1
  Build = "X86"
  MaxReaders = 5
SPECIFICATION FairSpec
INVARIANTS WriterExcludesReaders WriterIsKnown ReadersCounted
PROPERTIES WriterGetsIn ImplementsReadersWriter
CHECK_DEADLOCK FALSE
