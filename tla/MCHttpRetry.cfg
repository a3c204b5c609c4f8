CONSTANTS
    NoStatus = NoStatus  NoType = NoType  NoResult = NoResult
    MaxRetries = 2
    Timeout = 1
    RetryDelay = 1
    Statuses <- MCStatuses
SPECIFICATION FairSpec
INVARIANTS RetryTypeOK CopiesAreCounted   DurationIsBounded
PROPERTY CallEnds
\* The model rests when the call is over and no request travels.
CHECK_DEADLOCK FALSE
