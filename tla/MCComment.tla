----------------------------- MODULE MCComment -----------------------------
(***************************************************************************)
(* Keys of three binary digits (eight ids) stand for the eight bytes of    *)
(* base 256: ids 1 and 2, 3 and 4 are ordered differently by a big- and a  *)
(* little-endian encoding, and the counter wraps after eight comments.     *)
(* Two users and two bodies let a comment be edited and be deleted by its *)
(* creator while the other user's comments stay.                           *)
(***************************************************************************)
EXTENDS Comment

CONSTANTS u1, u2, b1, b2

MCUsers == {u1, u2}
MCBodies == {b1, b2}

\* The counter is a uint64: 2^64 comments are out of the chain's reach,
\* so the run stops short of the wrap and the wrap is not checked.
CountBeforeWrap == GetCommentCount < Modulus - 1

=============================================================================
