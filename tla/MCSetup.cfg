\* The bounds on presses, threads and messages stop the model.
SPECIFICATION FairSpec
CONSTANTS
    TopicCount = 2
    Slots <- MCSlots
    Board = 2
    MaxThreads = 6
    MaxMessages = 12
    MaxFaults = 1
    MaxDeletions = 1
    MaxPresses = 2
    MaxRefreshes = 2
INVARIANTS
    NothingLost
    MessagesInTopic
PROPERTIES
    LiveTopicKept
    SetupIsIdempotent
    SetupRepairs
CHECK_DEADLOCK FALSE
