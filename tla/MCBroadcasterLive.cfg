\* Liveness with one viewer, whose queue overflows and whose connection may be reset.
SPECIFICATION FairSpec
CONSTANTS
    alice = alice
    bob = bob
    fpA = fpA
    fpB = fpB
    Clients <- OnlyAlice
    Fingerprints <- OneFp
    FpOf <- AliceFp
    Prefixes <- OnePrefix
    CtrlQueue = 1
    MaxChats = 2
    Breakable <- OnlyAlice
PROPERTIES
    ImplementsSession
    ThreadsEnd
    QueuedDisconnectArrives
    QuitEndsViewers
CHECK_DEADLOCK FALSE
