CONSTANTS
    Accounts <- MCAccounts
    Labels <- MCLabels
    States <- MCStates
    AddressLists <- MCAddressLists
    LabelLists <- MCLabelLists
    Signers <- MCSigners
    TitleLengths <- MCTitleLengths
    DescriptionLengths <- MCDescriptionLengths
    BranchLengths <- MCBranchLengths
    BadAddress = bad
    BadState = badState
    NoMsg = NoMsg
    bad = bad
    badState = badState
    open = open
    closed = closed
    merged = merged

SPECIFICATION Spec

INVARIANT AcceptedListsNameDistinctAccounts

\* Each behaviour validates one message and then stops.
CHECK_DEADLOCK FALSE
