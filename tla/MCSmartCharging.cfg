SPECIFICATION Spec
CONSTANTS
    MaxProfiles = 2
    Requests <- MCRequests
    Storable <- MCStorable
    Word = 16
    Far = 1
    Day = 2
    Week = 5
    ThreePhase = FALSE
    N = 1
    TxIds = {1}
    BootDuty = 53
    MaxCommands = 2
    MaxSessions = 1
    MaxCrashes = 1
    MaxTime = 1
INVARIANTS ProfileStoreInv ActiveIsChosen
PROPERTIES OfferWithinLimit TakenUp
