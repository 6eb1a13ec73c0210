\* Two viewers whose fingerprints share a prefix; one connection may be reset.
SPECIFICATION Spec
CONSTANTS
    alice = alice
    bob = bob
    fpA = fpA
    fpB = fpB
    Clients <- TwoClients
    Fingerprints <- TwoFps
    FpOf <- OwnFp
    Prefixes <- CommonPrefix
    CtrlQueue = 1
    MaxChats = 1
    Breakable <- OnlyAlice
INVARIANTS
    TypeOK
    PendingExact
    ViewersExact
    GateHolds
    ClosingIsLast
    DroppedForCause
CHECK_DEADLOCK FALSE
