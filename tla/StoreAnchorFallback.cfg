SPECIFICATION Spec
CONSTANTS
    Streams = {s1}
    Publishers = {p1}
    Recipients = {v1}
    Epochs = {e1, e2}
    KeyGroups = {1, 2}
    KeyIds = {k1, k2}
    Timestamps = {0, 1}
    Times = {0, 2}
    Sizes = {1}
    Shapes <- BoundaryShapes
    DescriptorBodies = {d1}
    MaxSequence = 5
    RetentionBytes = 3
    RetentionAge = 1
    MaxStreams = 1
    MaxStreamsPerPublisher = 1
    MaxObjectsPerGroup = 3
    MaxGroupBytes = 4
    MaxEnvelopesPerGroup = 1
    MaxTotalBytes = 5
    MaxPublisherBytes = 5
    None = None
INVARIANT AnchorFallsBackToOldest
SYMMETRY Symmetry
