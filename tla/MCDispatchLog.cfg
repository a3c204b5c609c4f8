CONSTANTS
    x = x  y = y
    NoSearch = NoSearch  Vacant = Vacant
    Capacity = 3
    MaxLimit = 2
    MaxFailures = 1
    MaxScan = 2
    MaxTargets = 1
    Texts <- MCTexts
    Keywords <- MCKeywords
    Found <- MCFound
    MaxRecords = 5
SPECIFICATION LogSpec
INVARIANTS HoldsNewest PagesAreExact FailuresAreNewest
PROPERTY ImplementsHistory
