SPECIFICATION Spec
CONSTANTS
    Alert = {1}
    Event = {}
    Worker = {w1, w2}
    Budget = 3
    MaxSends = 2
    None = None
INVARIANTS
    MessagesAccounted
PROPERTIES
    SettledStays
