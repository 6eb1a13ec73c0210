\* A capture is stopped while nothing changes on its display.
SPECIFICATION FairSpec
CONSTANTS
    d1 = d1
    d2 = d2
    p = p
    q = q
    None = None
    Displays <- OneDisplay
    Places <- TwoPlaces
    Lively <- NoDisplays
    MaxCaptures = 1
PROPERTIES
    JoinReturns
CHECK_DEADLOCK FALSE
