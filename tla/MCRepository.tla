---------------------------- MODULE MCRepository ----------------------------
(***************************************************************************)
(* Model-checking instance of Repository: two users, one organization      *)
(* whose only "Owner" member is u1, two repository names, two branches and *)
(* room for three repositories, so that a repository can be created,       *)
(* forked, transferred between a user and the organization, renamed onto   *)
(* a name that is taken elsewhere, and deleted while its fork lives.       *)
(***************************************************************************)
EXTENDS OrgQueries

CONSTANTS u1, u2, o1, n1, n2, master, dev, w1, w2, w3, w4, oGone

MCUsers == {u1, u2}
MCOneUser == {u1}
MCOrgs == {o1}
MCOrgOwners == (o1 :> {u1})
MCNames == {n1, n2}
MCBranches == {master, dev}
MCMasterOnly == {master}
MCOwnerTypes == {"User", "Organization"}
\* An Owner JSON with a Type the handlers do not dispatch on.
MCOwnerTypesWithUnknown == {"User", "Organization", "user"}

\* UpdateRepository lets a later ChangeOwner append an id twice to a list
\* (a transfer to the current owner after a rename outside the index), so under Spec the lists are not
\* bounded by the counter: explore only lists of at most MaxListLength ids.
MaxListLength == 3
ListsBounded ==
    \A o \in Owners : Len(ownerRepositories[o]) <= MaxListLength

\* Whois names: the organization, a user, an id with no organization;
\* w4 is not registered.
MCWhois == (w1 :> o1) @@ (w2 :> u1) @@ (w3 :> oGone)
MCQueryNames == {w1, w2, w3, w4}

MCSymmetry == Permutations(MCNames)

=============================================================================
