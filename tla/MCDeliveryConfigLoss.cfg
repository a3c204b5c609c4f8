CONSTANTS
    r1 = r1  r2 = r2  m1 = m1  m2 = m2  t1 = t1  t2 = t2
    id1 = id1  id2 = id2
    Recovery = Recovery  NoFile = NoFile
    Requests <- MCRequests
    Msgs <- MCMsgs
    Targets <- MCTargets
    Ids <- MCIds
    MsgOf <- MCMsgOf
    SafeId <- MCSafeId
    Matches <- MCMatches
    Tagged <- MCTagged
    MaxAttempts = 2
    MaxAge = 1
    MaxNow = 1
    MaxCrashes = 2
    Faults = {"configLoad"}
SPECIFICATION Spec
INVARIANT EndsExhausted
