\* Clients of every short list of options, and two calls that share one.
CONSTANTS
    NULL = NULL
    Calls = {c1, c2}
    Doers = {d1, d2}
    Fns = {e1, e2}
    BaseURLs <- SomeURLs
    Ids = {"1"}
    MaxOptions = 2
SYMMETRY Symmetry
SPECIFICATION Spec
INVARIANTS
    RequestsGoBelowTheBase
    SentRequestsAreEdited
    SentToTheLastDoer
CHECK_DEADLOCK FALSE
