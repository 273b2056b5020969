SPECIFICATION Spec
CONSTANTS
    Viewers = {v1}
    GroupFrames = 2
    HistoryBytes = 3
    HistoryAge = 1
    MaxEpoch = 1
    MaxFrames = 3
    Times = {0}
    MaxFaults = 0
INVARIANTS
    RevocationRotates
CHECK_DEADLOCK FALSE
