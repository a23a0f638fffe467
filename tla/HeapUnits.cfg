CONSTANTS
    Thread = {t1, t2}
    NoThread = none
    Unit = {u1, u2, u3}
    NoUnit = nounit
    Needs = {"own"}
    DeadMax = 1
    Slots = 1
    MaxLive = 2
    MaxOthers = 1
SPECIFICATION FairSpec
INVARIANTS QueriesExact WalkSurvives UnitsListedOnce
PROPERTIES AreasLockReturned
