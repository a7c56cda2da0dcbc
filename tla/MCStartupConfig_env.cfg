\* Every environment.
CONSTANTS
    NULL = NULL
    Malformed = Malformed
    Ports <- EdgePorts
SPECIFICATION Spec
INVARIANTS
    BlamesAFault
    ServesWhatWasSet
CHECK_DEADLOCK FALSE
