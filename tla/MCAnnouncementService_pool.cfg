\* Three requests queue for two connections; the tables stand still.
CONSTANTS
    NULL = NULL
    Requests = {r1, r2, r3}
    Conns = {c1, c2}
    MaxId = 2
    MaxTime = 0
    MaxEdits = 0
    Titles = {"t1"}
    StoredLangs = {"ja", "en"}
    RequestLangs = {"ja"}
    EditorStamps <- SmallStamps
    InitialDbs <- OneDb
SPECIFICATION FairSpec
INVARIANTS
    PoolAccounting
    NobodyIsStranded
PROPERTIES
    EveryRequestAnswered
CHECK_DEADLOCK FALSE
