CONSTANTS
    x = x
    NoSearch = NoSearch  Vacant = Vacant  Unanswered = Unanswered
    Capacity = 2
    MaxLimit = 2
    MaxFailures = 1
    MaxScan = 2
    MaxTargets = 0
    Texts <- MCTexts
    Keywords <- MCKeywords
    Found <- MCFound
    MaxRecords = 2
    PageSize = 1
    MaxPage = 2
    MaxLoads = 3
SPECIFICATION FairSpec
INVARIANTS ControlsMatchTable SpinnerIsHonest WalkSkipsNothing
PROPERTY ButtonComesBack
\* The page rests when every load has ended and the administrator is idle.
CHECK_DEADLOCK FALSE
