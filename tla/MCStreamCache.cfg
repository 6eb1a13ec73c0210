\* The ring wraps more than twice, a reader can be lapped twice; one viewer may stall.
SPECIFICATION FairSpec
CONSTANTS
    capture = capture
    audio = audio
    viewer = viewer
    slowViewer = slowViewer
    Producers <- MCProducers
    Readers <- MCReaders
    Slow <- MCSlow
    Capacity = 3
    MaxSeq = 7
INVARIANTS
    TypeOK
    RingAndBatches
    CursorNotAhead
    LossOnlyWhenLapped
PROPERTIES
    ImplementsLog
    CatchUp
CHECK_DEADLOCK FALSE
