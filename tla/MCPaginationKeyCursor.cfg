CONSTANTS
    MaxLength = 7
    Limits <- MCLimits
    DefaultLimit = 3
    NoKey = NoKey
    NoTotal = NoTotal

SPECIFICATION Spec


\* A paging session ends once no NextKey is returned or the query fails.
CHECK_DEADLOCK FALSE
INVARIANT CursorPagingNeverFails
