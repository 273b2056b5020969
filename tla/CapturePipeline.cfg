SPECIFICATION Spec
CONSTANTS
    None = None
    Sources <- MCSources
    Limit <- MCLimit
    Desktops <- MCDesktops
    RequireMetadata = TRUE
    Images = {1, 2}
    CursorAt <- MCCursorAt
    MaxFaults = 2
INVARIANT
    CursorImageRight
PROPERTIES
    NoThreadOutlivesCapture
    ShutdownCompletes
    CaptureRecovers
