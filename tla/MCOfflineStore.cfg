SPECIFICATION Spec
CONSTANTS
 MaxRecords = 5
 MaxSessions = 7
 MaxCrashes = 2
INVARIANTS TypeOK Chronological CrashCost CountNeverWraps
PROPERTIES ImplementsQueue
