------------------------ MODULE LiquidityMiningMath ------------------------
(***************************************************************************)
(* hydra_dx_math::liquidity_mining (external), as pallets/liquidity-mining *)
(* uses it.  A FixedU128 or Permill is a pair <<numerator, denominator>>.  *)
(***************************************************************************)
EXTENDS Integers

MulFloor(ratio, amount) == (ratio[1] * amount) \div ratio[2]

\* At most max_reward_per_period.
calculate_global_pool_reward_per_period(yield_per_period, total_shares_z, max_reward_per_period) ==
    LET reward == MulFloor(yield_per_period, total_shares_z)
    IN  IF reward <= max_reward_per_period THEN reward ELSE max_reward_per_period

calculate_accumulated_rps(accumulated_rps, total_shares, reward) ==
    accumulated_rps + reward \div total_shares

calculate_global_pool_shares(valued_shares, multiplier) == MulFloor(multiplier, valued_shares)

\* (periods + scale * initial) / (periods + scale): from the initial share
\* towards one.
calculate_loyalty_multiplier(periods, initial_reward_percentage, scale_coef) ==
    <<periods * initial_reward_percentage[2] + scale_coef * initial_reward_percentage[1],
      initial_reward_percentage[2] * (periods + scale_coef)>>

\* Everything the deposit earned (`max`) is either rewards, claimed before,
\* or not claimable yet.
calculate_user_reward(accumulated_rpvs, valued_shares, claimed, accumulated_rpvs_now, loyalty) ==
    LET max == (accumulated_rpvs_now - accumulated_rpvs) * valued_shares
        claimable == MulFloor(loyalty, max)
    IN  [rewards |-> claimable - claimed, unclaimable |-> max - claimable]

=============================================================================
