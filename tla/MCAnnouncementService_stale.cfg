\* One request that waits for its connection while the clock and the tables move.
CONSTANTS
    NULL = NULL
    Requests = {r1}
    Conns = {c1}
    MaxId = 2
    MaxTime = 1
    MaxEdits = 1
    Titles = {"t1"}
    StoredLangs = {"ja", "en"}
    RequestLangs = {"ja", "en"}
    EditorStamps = {}
    InitialDbs <- OneDb
SPECIFICATION Spec
INVARIANTS
    ListedWhilePublic
CHECK_DEADLOCK FALSE
