\* Two requests in a language the service does not have, and ten callbacks, of
\* which one, or one of two, is in use at a time.
CONSTANTS
    NULL = NULL
    Calls = {c1, c2}
    Langs = {"other"}
    Fns <- SomeFns
SPECIFICATION FairSpec
CONSTRAINT FewAtATime
INVARIANTS
    AnswersFollowTheFn
    SuccessIsMeant
    SentinelsAreMeant
PROPERTIES
    OneFnBlocksNobodyElse
    CloseReturns
CHECK_DEADLOCK FALSE
