SPECIFICATION Spec
CONSTANTS
    Viewers = {v1, v2}
    GroupFrames = 2
    HistoryBytes = 3
    HistoryAge = 1
    MaxEpoch = 2
    MaxFrames = 2
    Times = {0}
    MaxFaults = 1
INVARIANTS
    TypeOK
    RevokedNeverKeyed
    NeverRefused
    DeliveredGrantsComplete
SYMMETRY Symmetry
CHECK_DEADLOCK FALSE
