SPECIFICATION Spec
CONSTANTS
    Connectors = {c1, c2}
    Retries = 2
    MaxRequests = 2
    MaxCrashes = 1
INVARIANTS ConnectorsHeld VersionsAgree
PROPERTIES UpdateDone
CHECK_DEADLOCK FALSE
