\* Three connections, a pool of two, and two signals at any moments.
CONSTANTS
    Requests = {r1, r2, r3}
    MaxConns = 2
    MaxSignals = 2
SPECIFICATION FairSpec
INVARIANTS
    QueryKeepsResources
    RefusedOnlyAfterTimeout
    ExitZeroMeansDrained
    ReleasedAtExit
    UpMeansServing
PROPERTIES
    StopTerminates
CHECK_DEADLOCK FALSE
