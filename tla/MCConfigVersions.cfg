CONSTANTS
    a = a  b = b  q1 = q1  q2 = q2  c1 = c1  c2 = c2  t0 = t0
    Null = Null  Torn = Torn
    Stores = {"file"}
    Replicas <- MCOne
    Requests <- MCRequests
    Items <- MCItems
    Tags <- MCTags
    BuiltIn <- MCTags
    MaxVersions = 2
    MaxLogs = 2
    Radix = 2
    Faults = {}
    MaxChanges = 5
    MaxCrashes = 0
SPECIFICATION Spec
INVARIANT RecentRestorable
CHECK_DEADLOCK FALSE
