\* The bounds on calls and on time stop the model.
SPECIFICATION FairSpec
CONSTANTS
    RetryAttempts = 3
    MaxCalls = 2
    MaxClock = 3
    MaxRetryAfter = 2
INVARIANTS
    OneMessage
    VerdictsAreTrue
PROPERTIES
    LimitHeld
    CallsEnd
CHECK_DEADLOCK FALSE
