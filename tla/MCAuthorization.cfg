SPECIFICATION Spec
CONSTANTS
    N = 2
    Tags = {"a", "b"}
    Valid = {"a"}
    Listed = {}
    Configs <- MCConfigs
    MaxDefer = 1
    MaxReads = 3
    MaxRequests = 2
    MaxFaults = 1
INVARIANTS GrantInv
PROPERTIES StartsForHolder ValidCardCharges
CHECK_DEADLOCK FALSE
