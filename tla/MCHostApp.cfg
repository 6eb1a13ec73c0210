\* Two displays that keep changing, captures in a row.
SPECIFICATION FairSpec
CONSTANTS
    d1 = d1
    d2 = d2
    p = p
    q = q
    None = None
    Displays <- TwoDisplays
    Places <- TwoPlaces
    Lively <- TwoDisplays
    MaxCaptures = 3
INVARIANTS
    TypeOK
    OneCapture
    AdvertisedIsCaptured
    HookValid
PROPERTIES
    StopReturns
    QuitExits
CHECK_DEADLOCK FALSE
