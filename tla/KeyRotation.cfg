SPECIFICATION Spec
CONSTANTS
    Viewers = {v1, v2}
    GroupFrames = 2
    HistoryBytes = 3
    HistoryAge = 1
    MaxEpoch = 1
    MaxFrames = 3
    Times = {0}
    MaxFaults = 0
INVARIANTS
    MidRotationDelivered
SYMMETRY Symmetry
CHECK_DEADLOCK FALSE
