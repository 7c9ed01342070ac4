SPECIFICATION Spec
CONSTANTS
    Alert = {1}
    Event = {}
    Worker = {w1}
    Budget = 3
    MaxSends = 1
    None = None
INVARIANT AcknowledgedIsDismissed
