\* Three tests; everything may fail.
CONSTANTS
    NULL = NULL
    Tests = {t1, t2, t3}
SPECIFICATION FairSpec
INVARIANTS
    NothingLeftBehind
    StartFailsForAReason
    TestsSeeTheirOwnRows
PROPERTIES
    RunMainEnds
CHECK_DEADLOCK FALSE
