--------------------------- MODULE MCMarketplace ---------------------------
(***************************************************************************)
(* Instances of Marketplace for TLC.                                       *)
(***************************************************************************)
EXTENDS Marketplace, TLC

CONSTANTS u1, u2

Symmetry == Permutations(Users)

=============================================================================
