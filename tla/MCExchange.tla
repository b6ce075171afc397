----------------------------- MODULE MCExchange -----------------------------
(***************************************************************************)
(* Instances of Exchange for TLC.  They start where the two users have     *)
(* funded the pool of the two assets, each with half of Pool0 and Pool1,   *)
(* and are left with Wealth0 and Wealth1 each.                             *)
(***************************************************************************)
EXTENDS Exchange, TLC

CONSTANTS u1, u2, Wealth0, Wealth1, Pool0, Pool1

MCExchangeFee == <<1, 2>>
MCDiscountedFee == <<1, 3>>
MCPrices == {<<1, 1>>}

Wealth == [a \in Assets |-> IF a = 0 THEN Wealth0 ELSE Wealth1]
PoolHolds == [a \in Assets |-> IF a = 0 THEN Pool0 ELSE Pool1]
MCEndowment == [u \in Users |-> [a \in Assets |-> Wealth[a] + PoolHolds[a] \div 2]]

\* The state after create_pool by one user and add_liquidity by the other.
MCInit ==
    /\ share_token = AMM!Pairs
    /\ pool_assets = [p \in AMM!Pairs |-> <<0, 1>>]
    /\ total_liquidity = [p \in AMM!Pairs |-> Pool0]
    /\ wallet = [u \in Users |-> Wealth]
    /\ reserve = [p \in AMM!Pairs |-> PoolHolds]
    /\ shares = [p \in AMM!Pairs |-> [u \in Users |-> Pool0 \div 2]]
    /\ issuance = [p \in AMM!Pairs |-> Pool0]
    /\ ExchangeInit

MCSpec == MCInit /\ [][Next]_vars /\ WF_vars(Resolve)

Symmetry == Permutations(Users)

=============================================================================
