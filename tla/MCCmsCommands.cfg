SPECIFICATION Spec
CONSTANTS
    Word = 65536
    Instantiated <- MCKeys
    T1 = T1
    T2 = T2
    Tags = {T1, T2}
    None = None
    Malformed = Malformed
    Count = 3
    Requests <- MCRequests
    N = 2
    Visitors = {T1}
    Intervals = {0}
    MaxRequests = 2
    MaxSessions = 1
    MaxCrashes = 1
INVARIANTS AnswerInv AcceptedInForce
PROPERTIES SoftResetWhenIdle EveryRequestAnswered
CHECK_DEADLOCK FALSE
