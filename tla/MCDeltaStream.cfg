\* Two captures of one or two sizes, a viewer that joins at any time and is lapped.
SPECIFICATION Spec
CONSTANTS
    alice = alice
    Viewers <- OneViewer
    MinTile = 1
    DirtyNum = 1
    DirtyDen = 2
    NoiseFloor = 1
    Capacity = 2
    QueueCap = 2
    Sizes <- TwoSizes
    Values <- ThreeGreys
    Spots <- SomeSpots
    MaxFrames = 4
    MaxCaptures = 2
INVARIANTS
    TypeOK
    DetectorExact
    StaleOnlyWhereLost
    CaughtUpPicture
CHECK_DEADLOCK FALSE
