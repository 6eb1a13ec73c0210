\* Sound with gaps and bursts, or that ends; frames that overrun the queue, a device that may fail.
SPECIFICATION FairSpec
CONSTANTS
    HostSound = TRUE
    DeviceMayFail = TRUE
    HostFps <- SharingOrSelecting
    CacheSecs = 1
    QueueDefault = 2
    Start = 2
    MaxFrames = 4
    MaxTime = 4
    MaxEvents = 2
INVARIANTS
    TypeOK
    SoundInOrder
    NeverBeforeSound
    ClockFollowsSound
    PictureInOrder
PROPERTIES
    FramesShown
    PlaybackStarts
CHECK_DEADLOCK FALSE
