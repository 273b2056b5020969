SPECIFICATION ServiceSpec
CONSTANTS
    Streams = {s1, s2}
    Publishers = {p1, p2}
    Recipients = {v1}
    Epochs = {e1, e2}
    KeyGroups = {1}
    KeyIds = {k1}
    Timestamps = {0}
    Times = {0}
    Sizes = {1, 2}
    Shapes <- KeyframeShapes
    DescriptorBodies = {d1}
    MaxSequence = 2
    RetentionBytes = 2
    RetentionAge = None
    MaxStreams = 2
    MaxStreamsPerPublisher = 2
    MaxObjectsPerGroup = 3
    MaxGroupBytes = 4
    MaxEnvelopesPerGroup = 1
    MaxTotalBytes = 7
    MaxPublisherBytes = 6
    None = None
    Sessions = {c1, c2}
    StartRequests = {}
    Capacity = 1
    Page = 2
INVARIANTS
    OwnerBinding
    StoredBytesWithinQuota
    OnlineIsHeld
    CursorExact
PROPERTY FinalizesOwnGroup
SYMMETRY SessionSymmetry
