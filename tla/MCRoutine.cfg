SPECIFICATION FairSpec
CONSTANTS
    LastDay = 1
    ItemCount = 2
    MaxSaves = 2
    Answer = {"done", "partial"}
    None = None
INVARIANTS
    ClosureExplained
    ReasonFitsItem
PROPERTIES
    ImplementsCheckin
    CardsClose
    NoticesArrive
    ReasonsEnd
