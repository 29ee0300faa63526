CONSTANTS
    MaxLength = 4
    Limits <- MCLimits
    DefaultLimit = 2
    NoKey = NoKey
    NoTotal = NoTotal

SPECIFICATION OrgSpec

INVARIANT EveryStayingRepositoryDelivered

\* A paging session ends once no NextKey is returned or the query fails.
CHECK_DEADLOCK FALSE
