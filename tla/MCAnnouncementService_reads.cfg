\* One request, alone with its pool slot, against two edits and a moving clock.
CONSTANTS
    NULL = NULL
    Requests = {r1}
    Conns = {c1}
    MaxId = 3
    MaxTime = 1
    MaxEdits = 2
    Titles = {"t1", "t2"}
    StoredLangs = {"ja", "en"}
    RequestLangs = {"ja", "fr", ""}
    EditorStamps <- SmallStamps
    InitialDbs <- SmallDbs
SPECIFICATION Spec
INVARIANTS
    ListAnswerExact
    DetailAnswerExact
    FailureHasCause
    TablesWellFormed
PROPERTIES
    ImplementsReads
CHECK_DEADLOCK FALSE
