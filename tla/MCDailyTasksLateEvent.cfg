SPECIFICATION Spec
CONSTANTS
    Participant = {p1}
    LastDay = 1
    West = {}
    Outcome = {"done", "failed"}
    None = None
INVARIANT AutoFailedHasNoClosedEvent
