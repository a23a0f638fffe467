CONSTANTS
    Thread = {t1, t2}
    NoThread = none
    Unit = {u1, u2, u3}
    NoUnit = nounit
    Needs = {"unit"}
    DeadMax = 1
    Slots = 1
    MaxLive = 2
    MaxOthers = 1
SPECIFICATION Spec
INVARIANTS QueriesExact
SYMMETRY Symmetry
