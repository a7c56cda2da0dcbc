\* Two requests to a fake on which the test has set no callback.
CONSTANTS
    NULL = NULL
    Calls = {c1, c2}
    Langs = {"supported", "other"}
    Fns = {}
SPECIFICATION Spec
INVARIANTS
    ImplementsTheContract
CHECK_DEADLOCK FALSE
