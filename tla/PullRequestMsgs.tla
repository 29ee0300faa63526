--------------------------- MODULE PullRequestMsgs ---------------------------
(***************************************************************************)
(* The stateless checks of the pull request messages                       *)
(* (x/gitopia/types/messages_pullRequest.go): ValidateBasic and Type of    *)
(* each message.  The chain runs ValidateBasic on every message of a       *)
(* transaction before any handler; a non-nil error rejects it.             *)
(*                                                                         *)
(* A string is abstracted by what the checks read: a title, description or *)
(* branch by its length, an address by the account its bech32 text        *)
(* decodes to.  Bech32 text is all lower or all upper case; the decoder    *)
(* accepts both and lower-cases it, so two different strings can name one  *)
(* account.  The state is the last message submitted and its verdict.      *)
(***************************************************************************)
EXTENDS Naturals, Sequences, SequencesExt

CONSTANTS
    Accounts,           \* accounts (the decoded bytes of an address)
    BadAddress,         \* text that is not bech32 of this chain's prefix
    Labels,             \* label ids
    States,             \* the names of PullRequest_State_value
    BadState,           \* a state name that is not one of them
    TitleLengths,       \* lengths of titles a message may carry
    DescriptionLengths, \* lengths of descriptions
    BranchLengths,      \* lengths of branch names
    AddressLists,       \* reviewer/assignee lists a message may carry
    LabelLists,         \* label id lists a message may carry
    Signers,            \* creator addresses a message may carry
    NoMsg               \* before any message

\* The limits written in the code.
MaxTitle == 255
MaxDescription == 20000
MaxBranch == 63
MaxListItems == 10
MaxRemovedLabels == 50

\* The bech32 text of an account in lower or upper case.
Address(a, upper) == [account |-> a, upper |-> upper]
Addresses == {Address(a, u) : a \in Accounts, u \in BOOLEAN} \cup {BadAddress}

ASSUME /\ AddressLists \subseteq Seq(Addresses)
       /\ LabelLists \subseteq Seq(Labels)
       /\ Signers \subseteq Addresses
       /\ BadState \notin States

OK == "ok"
ErrInvalidAddress == "ErrInvalidAddress"
ErrInvalidRequest == "ErrInvalidRequest"

VARIABLES
    msg,      \* the message submitted last
    verdict   \* what its ValidateBasic returned

vars == <<msg, verdict>>

-----------------------------------------------------------------------------
(* Checks                                                                  *)

\* sdk.AccAddressFromBech32 succeeds.
IsBech32(s) == s # BadAddress

\* The first failing check of a sequence of them, in the code's order.
FirstError(checks) ==
    LET i == SelectInSeq(checks, LAMBDA r : r # OK)
    IN  IF i = 0 THEN OK ELSE checks[i]

Check(cond, err) == IF cond THEN OK ELSE err

\* Length bounds of a string: the "exceeds limit" and "too short" checks.
LengthWithin(len, lo, hi) == Check(lo <= len /\ len <= hi, ErrInvalidRequest)

\* for _, s := range list { AccAddressFromBech32(s) or ErrInvalidAddress;
\* if unique[s] ErrInvalidRequest ("duplicate"); unique[s] = true }.
\* The map is keyed by the text, not by the decoded account.
RECURSIVE CheckAddressList(_, _, _)
CheckAddressList(list, i, unique) ==
    IF i > Len(list) THEN OK
    ELSE IF ~IsBech32(list[i]) THEN ErrInvalidAddress
    ELSE IF list[i] \in unique THEN ErrInvalidRequest
    ELSE CheckAddressList(list, i + 1, unique \cup {list[i]})

\* The same loop over label ids, without the address check.
RECURSIVE CheckLabelList(_, _, _)
CheckLabelList(list, i, unique) ==
    IF i > Len(list) THEN OK
    ELSE IF list[i] \in unique THEN ErrInvalidRequest
    ELSE CheckLabelList(list, i + 1, unique \cup {list[i]})

-----------------------------------------------------------------------------
(* ValidateBasic of each message                                           *)

MsgCreatePullRequestValidateBasic(m) ==
    FirstError(<< Check(IsBech32(m.creator), ErrInvalidAddress),
                  LengthWithin(m.title, 1, MaxTitle),
                  LengthWithin(m.description, 0, MaxDescription),
                  LengthWithin(m.headBranch, 1, MaxBranch),
                  LengthWithin(m.baseBranch, 1, MaxBranch),
                  LengthWithin(Len(m.reviewers), 0, MaxListItems),
                  LengthWithin(Len(m.assignees), 0, MaxListItems),
                  LengthWithin(Len(m.labelIds), 0, MaxListItems),
                  CheckAddressList(m.reviewers, 1, {}),
                  CheckAddressList(m.assignees, 1, {}),
                  CheckLabelList(m.labelIds, 1, {}) >>)

\* MsgUpdatePullRequest and MsgDeletePullRequest check only the creator.
MsgCreatorValidateBasic(m) == Check(IsBech32(m.creator), ErrInvalidAddress)

MsgUpdatePullRequestTitleValidateBasic(m) ==
    FirstError(<< Check(IsBech32(m.creator), ErrInvalidAddress),
                  LengthWithin(m.title, 1, MaxTitle) >>)

MsgUpdatePullRequestDescriptionValidateBasic(m) ==
    FirstError(<< Check(IsBech32(m.creator), ErrInvalidAddress),
                  LengthWithin(m.description, 0, MaxDescription) >>)

MsgSetPullRequestStateValidateBasic(m) ==
    FirstError(<< Check(IsBech32(m.creator), ErrInvalidAddress),
                  Check(m.state \in States, ErrInvalidRequest) >>)

\* Add/Remove Reviewers and Add/Remove Assignees: "empty ... list",
\* "can't give more than 10 ... at a time", then the loop.
MsgAddressListValidateBasic(m) ==
    FirstError(<< Check(IsBech32(m.creator), ErrInvalidAddress),
                  LengthWithin(Len(m.list), 1, MaxListItems),
                  CheckAddressList(m.list, 1, {}) >>)

MsgAddPullRequestLabelsValidateBasic(m) ==
    FirstError(<< Check(IsBech32(m.creator), ErrInvalidAddress),
                  LengthWithin(Len(m.list), 1, MaxListItems),
                  CheckLabelList(m.list, 1, {}) >>)

\* The limit here is 50, not 10.
MsgRemovePullRequestLabelsValidateBasic(m) ==
    FirstError(<< Check(IsBech32(m.creator), ErrInvalidAddress),
                  LengthWithin(Len(m.list), 1, MaxRemovedLabels),
                  CheckLabelList(m.list, 1, {}) >>)

AddressListKinds == {"AddPullRequestReviewers", "RemovePullRequestReviewers",
                     "AddPullRequestAssignees", "RemovePullRequestAssignees"}

-----------------------------------------------------------------------------
(* Submitting a message                                                    *)

Submit(m, v) == msg' = m /\ verdict' = v

SubmitCreatePullRequest ==
    /\ msg = NoMsg
    /\ \E c \in Signers, t \in TitleLengths, d \in DescriptionLengths,
          h, b \in BranchLengths, r, a \in AddressLists, l \in LabelLists :
           LET m == [kind |-> "CreatePullRequest", creator |-> c, title |-> t,
                     description |-> d, headBranch |-> h, baseBranch |-> b,
                     reviewers |-> r, assignees |-> a, labelIds |-> l]
           IN  Submit(m, MsgCreatePullRequestValidateBasic(m))

SubmitCreatorOnly ==
    /\ msg = NoMsg
    /\ \E c \in Signers, k \in {"UpdatePullRequest", "DeletePullRequest"} :
           LET m == [kind |-> k, creator |-> c]
           IN  Submit(m, MsgCreatorValidateBasic(m))

SubmitUpdatePullRequestTitle ==
    /\ msg = NoMsg
    /\ \E c \in Signers, t \in TitleLengths :
           LET m == [kind |-> "UpdatePullRequestTitle", creator |-> c, title |-> t]
           IN  Submit(m, MsgUpdatePullRequestTitleValidateBasic(m))

SubmitUpdatePullRequestDescription ==
    /\ msg = NoMsg
    /\ \E c \in Signers, d \in DescriptionLengths :
           LET m == [kind |-> "UpdatePullRequestDescription", creator |-> c,
                     description |-> d]
           IN  Submit(m, MsgUpdatePullRequestDescriptionValidateBasic(m))

SubmitSetPullRequestState ==
    /\ msg = NoMsg
    /\ \E c \in Signers, s \in States \cup {BadState} :
           LET m == [kind |-> "SetPullRequestState", creator |-> c, state |-> s]
           IN  Submit(m, MsgSetPullRequestStateValidateBasic(m))

SubmitAddressList ==
    /\ msg = NoMsg
    /\ \E c \in Signers, k \in AddressListKinds, l \in AddressLists :
           LET m == [kind |-> k, creator |-> c, list |-> l]
           IN  Submit(m, MsgAddressListValidateBasic(m))

SubmitAddPullRequestLabels ==
    /\ msg = NoMsg
    /\ \E c \in Signers, l \in LabelLists :
           LET m == [kind |-> "AddPullRequestLabels", creator |-> c, list |-> l]
           IN  Submit(m, MsgAddPullRequestLabelsValidateBasic(m))

SubmitRemovePullRequestLabels ==
    /\ msg = NoMsg
    /\ \E c \in Signers, l \in LabelLists :
           LET m == [kind |-> "RemovePullRequestLabels", creator |-> c, list |-> l]
           IN  Submit(m, MsgRemovePullRequestLabelsValidateBasic(m))

Init == msg = NoMsg /\ verdict = OK

\* Each behaviour validates one message (msg = NoMsg in every action): the
\* checks keep no state between messages, so one message per behaviour
\* covers every input.
Next ==
    \/ SubmitCreatePullRequest
    \/ SubmitCreatorOnly
    \/ SubmitUpdatePullRequestTitle
    \/ SubmitUpdatePullRequestDescription
    \/ SubmitSetPullRequestState
    \/ SubmitAddressList
    \/ SubmitAddPullRequestLabels
    \/ SubmitRemovePullRequestLabels

Spec == Init /\ [][Next]_vars

-----------------------------------------------------------------------------
(* Properties                                                              *)

(* An accepted reviewer or assignee list names every account at most once *)
(* (spec 4.6: duplicate entries are rejected), whatever case the bech32    *)
(* text of each entry is in.                                                *)
AcceptedListsNameDistinctAccounts ==
    msg # NoMsg /\ msg.kind \in AddressListKinds /\ verdict = OK =>
        \A i, j \in 1 .. Len(msg.list) :
            i < j => msg.list[i].account # msg.list[j].account

=============================================================================
