CONSTANTS
    c1 = c1
    Cameras = {c1}
    MaxEvents = 3
    CameraOf <- MCCameraOf
    LiveViews = {3}
    PollLimit = 2
    SeenLimit = 3
    ThumbLimit = 2
    StillLimit = 1
    Encoders = 1
    MaxRestarts = 1
SPECIFICATION Spec
INVARIANTS TypeOK EventsAreKept
 
CHECK_DEADLOCK FALSE
