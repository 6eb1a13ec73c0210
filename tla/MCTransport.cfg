CONSTANTS
    HeaderLen = 2
    Probes = 2
    BufLen = 3
    MsgLimit = 4
    RecordLimit = 9
    Window = 3
    LenOf <- ProbesOf4
    Lengths <- StreamLengths
    MaxStream <- TwoDownOneUp
SPECIFICATION Spec
\* Both ends may be gone, and the stream is bounded.
CHECK_DEADLOCK FALSE
INVARIANTS
    TypeOK
    InOrder
    EndsOnlyByLimit
PROPERTIES
    Arrives
