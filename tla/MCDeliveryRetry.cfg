SPECIFICATION FairRetrySpec
CONSTANTS
    MaxClock = 127
    None = None
INVARIANTS
    GivesUpLate
PROPERTIES
    Settles
