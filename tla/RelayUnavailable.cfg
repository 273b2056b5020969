SPECIFICATION ServiceSpec
CONSTANTS
    Streams = {s1}
    Publishers = {p1}
    Recipients = {v1}
    Epochs = {e1}
    KeyGroups = {1, 2}
    KeyIds = {k1}
    Timestamps = {0}
    Times = {0}
    Sizes = {1}
    Shapes <- KeyframeShapes
    DescriptorBodies = {d1}
    MaxSequence = 3
    RetentionBytes = 2
    RetentionAge = None
    MaxStreams = 1
    MaxStreamsPerPublisher = 1
    MaxObjectsPerGroup = 3
    MaxGroupBytes = 4
    MaxEnvelopesPerGroup = 1
    MaxTotalBytes = 6
    MaxPublisherBytes = 6
    None = None
    Sessions = {c1, c2}
    StartRequests <- EveryStart
    Capacity = 1
    Page = 2
INVARIANT UnavailableIsHonest
