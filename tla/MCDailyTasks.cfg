SPECIFICATION FairSpec
CONSTANTS
    Participant = {p1}
    LastDay = 2
    West = {2}
    Outcome = {"done", "failed"}
    None = None
INVARIANTS
    OneOpenTask
    ClosureRecorded
    NoEventTwice
PROPERTIES
    ClosedStays
    ImplementsLifecycle
    EntriesClose
