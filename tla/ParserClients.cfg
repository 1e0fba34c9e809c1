CONSTANTS
    MaxRetries = 3
    MaxRequests = 3
    Rule = {r1, r2, r3}
SPECIFICATION ClientsSpec
CHECK_DEADLOCK FALSE
INVARIANTS
    OneResponseEach
    FailureHasCause
    NodeGoesWithWorker
    RunsOnlyToParse
    SkippedForCause
PROPERTIES
    EveryRequestAnswered
    OneProcessOnly
