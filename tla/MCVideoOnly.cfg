\* A host without a loopback device.
SPECIFICATION FairSpec
CONSTANTS
    HostSound = FALSE
    DeviceMayFail = FALSE
    HostFps <- SharingOrSelecting
    CacheSecs = 1
    QueueDefault = 2
    Start = 2
    MaxFrames = 4
    MaxTime = 5
    MaxEvents = 2
PROPERTIES
    ShownWithoutSound
CHECK_DEADLOCK FALSE
