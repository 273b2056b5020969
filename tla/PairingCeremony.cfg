SPECIFICATION FairSpec
CONSTANTS
    v1 = v1
    v2 = v2
    Requests = {1, 2}
    Viewers = {v1, v2}
    ViewerOf <- MCViewerOf
    SourceOf <- MCSourceOf
    Trusted = {2}
    Policies = {"required", "trusted_ca", "open"}
    Lifetime = 2
    Retention = 1
    Window = 0
    PendingLimit = 2
    RateLimit = 1
    MaxTime = 3
    MaxOffers = 2
INVARIANTS
    ApprovalBacked
    CeremonyAgrees
    DecidedOnce
PROPERTIES
    DeliveredWhileKept
