---------------------------- MODULE MCXYKShares ----------------------------
(***************************************************************************)
(* Instances of XYKShares for TLC, with the values of MCXYK.               *)
(***************************************************************************)
EXTENDS XYKShares, MCXYK

=============================================================================
