SPECIFICATION FairSpec
CONSTANTS
    Viewers = {v1, v2}
    GroupFrames = 2
    HistoryBytes = 1
    HistoryAge = 1
    MaxEpoch = 2
    MaxFrames = 1
    Times = {0, 2}
    MaxFaults = 1
INVARIANTS
    PublishedKeysDurable
PROPERTIES
    OutboxDrains
CHECK_DEADLOCK FALSE
