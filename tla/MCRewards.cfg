CONSTANTS
    Accounts <- MCAccounts
    Amounts <- MCAmounts
    Evaluator = a1
    a1 = a1
    a2 = a2
    a3 = a3
    a4 = a4
    x1 = x1
    x2 = x2
    x3 = x3

SPECIFICATION Spec

INVARIANT TypeOK

\* Once every account has its reward no CreateReward succeeds.
CHECK_DEADLOCK FALSE
