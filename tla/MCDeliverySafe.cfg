CONSTANTS
    r1 = r1  r2 = r2  m1 = m1  m2 = m2  t1 = t1  t2 = t2
    id1 = id1  id2 = id2
    Recovery = Recovery  NoFile = NoFile
    Requests <- MCRequests
    Msgs <- MCMsgs
    Targets <- MCTargets
    Ids <- MCIds
    MsgOf <- MCMsgOf
    SafeId <- MCSafeId
    Matches <- MCMatches
    Tagged <- MCTagged
    MaxAttempts = 1
    MaxAge = 2
    MaxNow = 0
    MaxCrashes = 2
    Faults = {"walWrite", "walRemove"}
SPECIFICATION FairSpec
INVARIANTS TypeOK NoSilentLoss EndsExhausted  DispatchBudget
PROPERTIES ImplementsPromise EventuallyServed
