SPECIFICATION FairSpec
CONSTANTS
    c1 = c1
    c2 = c2
    Client <- MCClient
    Requests <- MCRequests
    MaxRequests = 3
    MaxFaults = 1
    None = None
CHECK_DEADLOCK FALSE
INVARIANTS
    InStep
    PromptTellsTransaction
    SessionsApart
    LeftActiveForKnownReasons
PROPERTIES
    EveryRequestAnswered
    EveryConnectionEnds
