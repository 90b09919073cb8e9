SPECIFICATION LiveSpec
CONSTANTS
 N = 1
 MaxSessions = 2
 MaxRecords = 2
 Envs <- MCLiveEnvs
PROPERTIES StopCompletes ResyncCompletes
