SPECIFICATION Spec
CONSTANTS
    Lists <- SignedLists
    FirstList <- Fresh
    NotBefore = 0
    NotAfter = 2
    MaxLifetime = 2
    MaxTime = 2
    GroupSize = 2
    MaxSequence = 3
    Starts = {"live", "oldest"}
    MaxKeys = 1
    MaxPending = 2
    Unkeyed = {}
    MaxFaults = 1
INVARIANTS
    NoSilentSkip
    LateItemsBounded
PROPERTIES
    JumpsOnlyPastEviction
    PlaysOn
    WithdrawalEndsSessions
