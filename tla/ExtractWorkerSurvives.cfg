CONSTANTS
    MaxRetries = 3
    MaxRequests = 3
SPECIFICATION Spec
CHECK_DEADLOCK FALSE
INVARIANT WorkerSurvives
