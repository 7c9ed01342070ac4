SPECIFICATION FairSpec
CONSTANTS
    Alert = {1}
    Event = {2}
    Worker = {w1}
    Budget = 2
    MaxSends = 1
    None = None
PROPERTIES
    ImplementsDelivery
    EventsSettle
