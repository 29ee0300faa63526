----------------------------- MODULE MCRewards -----------------------------
(***************************************************************************)
(* Four accounts, one of them the evaluator (who may also be a recipient), *)
(* and three amounts, so that a second reward for a recipient can carry a  *)
(* different amount.                                                        *)
(***************************************************************************)
EXTENDS Rewards

CONSTANTS a1, a2, a3, a4, x1, x2, x3

MCAccounts == {a1, a2, a3, a4}
MCAmounts == {x1, x2, x3}

=============================================================================
