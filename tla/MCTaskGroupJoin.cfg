\* Two tasks of which one fails.
SPECIFICATION Spec
CONSTANTS
    t1 = t1
    t2 = t2
    t3 = t3
    Tasks = {t1, t2}
    MayThrow = TRUE
    MayRebind = FALSE
CHECK_DEADLOCK FALSE
INVARIANT ScopeJoins
