------------------------------ MODULE XYKMath ------------------------------
(***************************************************************************)
(* The formulas the pools call in hydra_dx_math (an external crate), read  *)
(* off the calls in pallets/xyk/src/lib.rs and the amounts expected by     *)
(* pallets/xyk/src/tests.rs.  The crate computes in 256 bits, so only the  *)
(* result has to fit a Balance; every division rounds down.                *)
(***************************************************************************)
EXTENDS Integers

\* What `amount` of the in-asset is worth in the out-asset.
calculate_spot_price(in_reserve, out_reserve, amount) ==
    (amount * out_reserve) \div in_reserve

calculate_out_given_in(in_reserve, out_reserve, amount_in) ==
    (out_reserve * amount_in) \div (in_reserve + amount_in)

\* One unit is always added, also when the division is exact.
calculate_in_given_out(out_reserve, in_reserve, amount_out) ==
    (in_reserve * amount_out) \div (out_reserve - amount_out) + 1

calculate_liquidity_in(asset_a_reserve, asset_b_reserve, amount) ==
    (amount * asset_b_reserve) \div asset_a_reserve

\* One component of the pair the crate returns.
calculate_liquidity_out(asset_reserve, amount, total_liquidity) ==
    (asset_reserve * amount) \div total_liquidity

\* A fee is <<numerator, denominator>>.  The division comes first: the test
\* discount_sell_fees_should_work expects a fee of 7, not 10, on 15000 at
\* (7, 10000).
calculate_pool_trade_fee(amount, fee) == (amount \div fee[2]) * fee[1]

=============================================================================
