------------------------------- MODULE MCXYK -------------------------------
(***************************************************************************)
(* Instances of XYK for TLC.                                               *)
(***************************************************************************)
EXTENDS XYK, TLC

CONSTANTS u1, u2, Wealth

\* Every user starts with the same amount of every asset.
MCEndowment == [u \in Users |-> [a \in Assets |-> Wealth]]

MCExchangeFee == <<1, 2>>
MCDiscountedFee == <<1, 3>>
MCPrices == {<<1, 1>>, <<3, 2>>, <<1, 3>>}

Symmetry == Permutations(Users)

=============================================================================
