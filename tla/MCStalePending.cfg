\* A viewer gives up while its connection waits for approval.
SPECIFICATION FairSpec
CONSTANTS
    alice = alice
    bob = bob
    fpA = fpA
    fpB = fpB
    Clients <- OnlyAlice
    Fingerprints <- OneFp
    FpOf <- AliceFp
    Prefixes <- OnePrefix
    CtrlQueue = 1
    MaxChats = 1
    Breakable <- NoClients
PROPERTIES
    StalePendingCleaned
CHECK_DEADLOCK FALSE
