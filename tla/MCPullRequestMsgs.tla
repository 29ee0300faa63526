-------------------------- MODULE MCPullRequestMsgs --------------------------
(***************************************************************************)
(* Inputs at the boundaries of every check: lengths just inside and just  *)
(* outside each limit; lists that are empty, of 10 and 11 (and 50 and 51) *)
(* distinct elements, with a duplicate before or after a bad address, and *)
(* naming one account in lower and upper case.  Accounts and labels are   *)
(* numbers so that long lists of distinct elements can be written down.    *)
(***************************************************************************)
EXTENDS PullRequestMsgs

CONSTANTS bad, badState, open, closed, merged

MCAccounts == 1 .. 11
MCLabels == 1 .. 51
MCStates == {open, closed, merged}

A(i) == Address(i, FALSE)
Upper(i) == Address(i, TRUE)
Distinct(n) == [i \in 1 .. n |-> A(i)]

MCAddressLists ==
    { <<>>, <<A(1)>>, <<A(1), A(2)>>, <<A(1), A(1)>>, <<A(1), Upper(1)>>,
      <<bad>>, <<A(1), bad>>, <<A(1), A(1), bad>>, <<bad, A(1), A(1)>>,
      Distinct(10), Distinct(11), Distinct(10) \o <<A(1)>> }

MCLabelLists ==
    { <<>>, <<1>>, <<1, 2>>, <<1, 1>>, [i \in 1 .. 10 |-> i],
      [i \in 1 .. 11 |-> i], [i \in 1 .. 50 |-> i], [i \in 1 .. 51 |-> i] }

MCSigners == {A(1), bad}
MCTitleLengths == {0, 1, 255, 256}
MCDescriptionLengths == {20000, 20001}
MCBranchLengths == {0, 1, 63, 64}

=============================================================================
