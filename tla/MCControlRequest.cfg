CONSTANTS
    c1 = c1
    c2 = c2
    d1 = d1
    d2 = d2
    bad = bad
    Cids <- MCCids
    Calls <- MCCalls
    NotBytes <- bad
SPECIFICATION Spec
INVARIANTS
    TypeOK
    ConnCheckResultExact
    FinishedAtMostOnce
PROPERTIES
    EveryCallFinishes
    AbstractSpec
