----------------------------- MODULE MCOrgPaging -----------------------------
(***************************************************************************)
(* Lists of up to five repositories, limits 0 (defaulted to 2), 1 and 2,   *)
(* so that a removal or an append can fall before, inside or after the     *)
(* page the client is about to ask for.                                    *)
(***************************************************************************)
EXTENDS OrgPaging

MCLimits == {0, 1, 2}

=============================================================================
