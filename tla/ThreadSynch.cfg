CONSTANTS
  Thread = {1, 2, 3}
  NoThread = NoThread
  Exiter = {1, 2, 3}
  MaxEvents = 1
SPECIFICATION FairSpec
INVARIANTS TypeOK PendingExact EndedWhenSafe SuspendedAfresh AppSignalsOnly ExitsAlone
PROPERTIES ImplementsSuspension ExitEnds
CHECK_DEADLOCK FALSE
