SPECIFICATION FairSpec
CONSTANTS
    Seasons = 1
    Reviews = 1
    Fortnight = 3
    None = None
INVARIANTS
    InputAnswerable
    FinalWaits
PROPERTIES
    ReviewsStay
    ImplementsLifecycle
    ReviewsEnd
    FinalAsked
