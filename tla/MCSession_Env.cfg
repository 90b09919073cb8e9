SPECIFICATION Spec
CONSTANTS
 N = 2
 MaxSessions = 2
 MaxRecords = 3
 Envs <- MCEnvs
INVARIANTS FlashAgrees StopsOwnTransaction NoSessionLost
