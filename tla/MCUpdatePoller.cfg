SPECIFICATION FairSpec
CONSTANTS
    Last = 4
    MaxRestarts = 2
INVARIANTS
    ForgottenIsHandled
    InOrder
PROPERTIES
    UpdatesComplete
    ImplementsQueue
