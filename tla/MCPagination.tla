---------------------------- MODULE MCPagination ----------------------------
(***************************************************************************)
(* Lists of up to seven repositories, limits 0 (defaulted), 1, 2 and 3,   *)
(* and a default limit of 3, so that a list is empty, fits in one page,    *)
(* needs up to seven pages, or ends exactly on a page boundary.            *)
(***************************************************************************)
EXTENDS Pagination

MCLimits == {0, 1, 2, 3}

=============================================================================
