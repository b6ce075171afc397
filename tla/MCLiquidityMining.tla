------------------------- MODULE MCLiquidityMining -------------------------
(***************************************************************************)
(* Instances of LiquidityMining for TLC.                                   *)
(***************************************************************************)
EXTENDS LiquidityMining, TLC

CONSTANTS u1, u2, p1, p2

Symmetry == Permutations(Users)
MCYields == {<<1, 1>>}
MCMultipliers == {<<3, 2>>}
MCOne == {<<1, 1>>}
Linear == [initial_reward_percentage |-> <<1, 2>>, scale_coef |-> 1]
MCCurves == {{Linear}}
MCNoCurve == {{}}

=============================================================================
