\* The host user kicks a viewer whose control queue is full.
SPECIFICATION FairSpec
CONSTANTS
    alice = alice
    bob = bob
    fpA = fpA
    fpB = fpB
    Clients <- OnlyAlice
    Fingerprints <- OneFp
    FpOf <- AliceFp
    Prefixes <- OnePrefix
    CtrlQueue = 1
    MaxChats = 1
    Breakable <- NoClients
PROPERTIES
    KickDisconnects
CHECK_DEADLOCK FALSE
