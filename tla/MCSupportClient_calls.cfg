\* One call that may be sent twice, on one pool slot, while the tables change.
CONSTANTS
    NULL = NULL
    Calls = {k1}
    Requests = {r1, r2}
    Conns = {c1}
    MaxId = 2
    MaxTime = 1
    MaxEdits = 1
    Titles = {"t1"}
    StoredLangs = {"ja"}
    RequestLangs = {"ja", "fr"}
    EditorStamps <- SmallStamps
    InitialDbs <- CallDbs
SPECIFICATION ClientFairSpec
INVARIANTS
    CallsTellTheTruth
    InternalErrorIsAFault
    UnnamedErrorHasCause
PROPERTIES
    EveryCallReturns
CHECK_DEADLOCK FALSE
