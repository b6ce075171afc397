----------------------------- MODULE XYKShares -----------------------------
(***************************************************************************)
(* XYK seen by the pallets that hold its share tokens.                     *)
(*                                                                         *)
(* The liquidity mining pallet is written against the AMM trait and reads  *)
(* the balance of one asset on the account of a pool; module SharePool     *)
(* states what it may expect.  Here XYK is shown to implement SharePool:   *)
(* the pools of the pairs that contain IncentivizedAsset, with the reserve *)
(* of that asset for the backing.                                          *)
(***************************************************************************)
EXTENDS XYK

CONSTANT IncentivizedAsset

ASSUME IncentivizedAssumption == IncentivizedAsset \in Assets

IncentivizedPairs == {p \in Pairs : IncentivizedAsset \in p}

live == share_token \cap IncentivizedPairs
backing == [p \in IncentivizedPairs |-> reserve[p][IncentivizedAsset]]
holdings == [p \in IncentivizedPairs |-> shares[p]]
issued == [p \in IncentivizedPairs |-> issuance[p]]

Pool == INSTANCE SharePool
        WITH Pairs <- IncentivizedPairs, Accounts <- Users, Units <- 1 .. MaxBalance,
             Backings <- Balance, shares <- holdings, issuance <- issued

\* The pools of the pallet keep what SharePool promises: a pool exists from
\* its first share to its last, nobody's shares move unless they deal with
\* the pool themselves, a pool that exists holds some of the asset, and a
\* pool that is destroyed leaves none of it behind.
ImplementsSharePool == Pool!AMMSpec

=============================================================================
