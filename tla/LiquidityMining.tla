-------------------------- MODULE LiquidityMining --------------------------
(***************************************************************************)
(* Liquidity mining, pallets/liquidity-mining/src/lib.rs.                  *)
(*                                                                         *)
(* A farm (GlobalPool) holds the rewards and shares them out, period by    *)
(* period, among its pools (LiquidityPoolYieldFarm) by their stakes; a     *)
(* pool shares what it is paid among its deposits by their valued shares.  *)
(* Both levels are lazy: accumulators of reward per share are brought up   *)
(* to date by whichever call comes first in a period.  A deposit is        *)
(* represented by an NFT, and whoever owns it claims and withdraws.        *)
(*                                                                         *)
(* Every extrinsic is transactional: the error paths, the checked          *)
(* arithmetic among them, are the guards.  The AMM is the abstract         *)
(* SharePool: users trade, add and remove liquidity between the calls.     *)
(* Farms and pools share one sequence of ids, and an account is identified *)
(* with the id it is derived from; id 0 is the account of the pallet.  All *)
(* farms have one reward currency, incentivize one asset (the one whose    *)
(* balance SharePool keeps), and all pairs contain it.  The existential    *)
(* deposit of the reward currency is a parameter; that of the share tokens *)
(* is one unit.                                                            *)
(***************************************************************************)
EXTENDS LiquidityMiningMath, StorageMap, FiniteSets, Functions

CONSTANTS
    Users,
    Pairs,
    NftIdBase,          \* 2^32: an NFT id is sequence number * 2^32 + pool id
    MinTotalFarmRewards, MinPlannedYieldingPeriods,
    ExistentialDeposit, \* of the reward currency
    Units, Backings,    \* the environment's choices in SharePool
    Wealth,             \* reward currency of every user at genesis
    Holding,            \* shares of every pool and user at genesis
    TotalRewards, PlannedPeriods, BlocksPerPeriod, Yields, Multipliers, Curves, Amounts,
                        \* the arguments of the calls
    MaxBlock, MaxPoolId, MaxDeposits, MaxIssuance   \* bounds

ASSUME LMAssumption ==
    /\ IsFiniteSet(Users)
    /\ NftIdBase \in Nat
    /\ MaxPoolId \in Nat
    /\ MaxPoolId < NftIdBase
    /\ MaxBlock \in Nat
    /\ MaxDeposits \in Nat
    /\ TotalRewards \subseteq Nat
    /\ Amounts \subseteq Nat
    /\ BlocksPerPeriod \subseteq Nat
    /\ PlannedPeriods \subseteq Nat \ {0}

\* Balances are unsigned, and no user has the account of a farm, of a pool or
\* of the pallet.
ASSUME FundsAssumption ==
    /\ Users \cap (0..MaxPoolId) = {}
    /\ ExistentialDeposit \in Nat
    /\ Wealth \in Nat
    /\ Holding \in Nat
    /\ Units \subseteq Nat
    /\ Backings \subseteq Nat

\* FixedU128 and Permill.
Ratio == Nat \X (Nat \ {0})

ASSUME RatioAssumption ==
    /\ Yields \subseteq Ratio
    /\ Multipliers \subseteq Ratio
    /\ Curves \subseteq SUBSET [initial_reward_percentage : Ratio, scale_coef : Nat]

VARIABLES
    block,              \* T::BlockNumberProvider
    pool_id,            \* PoolIdSequencer
    nft_sequence,       \* NftInstanceSequencer
    global_pool,        \* GlobalPoolData
    liquidity_pool,     \* LiquidityPoolData, keyed by <<farm_id, asset_pair>>
    deposit,            \* DepositData
    liq_pool_meta,      \* LiquidityPoolMetadata
    nft_owner,          \* the NFT pallet's owner of every token of NftClass
    balance,            \* reward currency of users and pool accounts
    dusted,             \* what the accounts have lost of it as dust
    native,             \* native currency, the token with the default id
    live, backing, shares, issuance,    \* the AMM: see SharePool
    foreign,            \* history: pools that a deposit of another pool acted on
    unbacked            \* history: pairs with deposits made without an AMM pool

pallet_account == 0

Accounts == Users \cup {pallet_account}

AMM == INSTANCE SharePool

amm_vars == <<live, backing, shares, issuance>>

farm_vars == <<pool_id, nft_sequence, global_pool, liquidity_pool, deposit, liq_pool_meta,
               nft_owner, balance, dusted, native, foreign, unbacked>>

vars == <<farm_vars, block, amm_vars>>

-----------------------------------------------------------------------------
(* Records *)

PoolIds == 1..MaxPoolId

GlobalPool ==
    [owner : Users, updated_at : Nat, total_shares_z : Nat, accumulated_rpz : Nat,
     accumulated_rewards : Nat, paid_accumulated_rewards : Nat, yield_per_period : Yields,
     blocks_per_period : BlocksPerPeriod, max_reward_per_period : Nat, liq_pools_count : Nat]

LiquidityPool ==
    [id : PoolIds, updated_at : Nat, total_shares : Nat, total_valued_shares : Nat,
     accumulated_rpvs : Nat, accumulated_rpz : Nat, loyalty_curve : Curves,
     stake_in_global_pool : Nat, multiplier : Multipliers \cup {<<0, 1>>}, canceled : BOOLEAN]

Deposit ==
    [shares : Nat, valued_shares : Nat, accumulated_rpvs : Nat, accumulated_claimed_rewards : Nat,
     entered_at : Nat, updated_at : Nat]

NewGlobalPool(updated_at, yield_per_period, blocks_per_period, owner, max_reward_per_period) ==
    [owner |-> owner, updated_at |-> updated_at, total_shares_z |-> 0,
     accumulated_rpz |-> 0, accumulated_rewards |-> 0, paid_accumulated_rewards |-> 0,
     yield_per_period |-> yield_per_period, blocks_per_period |-> blocks_per_period,
     max_reward_per_period |-> max_reward_per_period, liq_pools_count |-> 0]

NewLiquidityPool(id, updated_at, loyalty_curve, multiplier) ==
    [id |-> id, updated_at |-> updated_at, total_shares |-> 0, total_valued_shares |-> 0,
     accumulated_rpvs |-> 0, accumulated_rpz |-> 0, loyalty_curve |-> loyalty_curve,
     stake_in_global_pool |-> 0, multiplier |-> multiplier, canceled |-> FALSE]

NewDeposit(amount, valued_shares, accumulated_rpvs, entered_at) ==
    [shares |-> amount, valued_shares |-> valued_shares, accumulated_rpvs |-> accumulated_rpvs,
     accumulated_claimed_rewards |-> 0, entered_at |-> entered_at, updated_at |-> entered_at]

-----------------------------------------------------------------------------
(* Ids *)

encode_nft_id(liq_pool_id, sequence) == sequence * NftIdBase + liq_pool_id

\* The first ids, up to 2^32 itself, are refused by ValidNftId.
get_pool_id_from_nft_id(nft_id) == nft_id % NftIdBase

ValidNftId(nft_id) == NftIdBase < nft_id

get_now_period(farm) == block \div farm.blocks_per_period

-----------------------------------------------------------------------------
(* The reward currency (external).  m is a state of its accounts. *)

Ledger == [free |-> balance, dusted |-> dusted]

\* The receiver must end up with the existential deposit.
CanTransfer(m, from, to, amount) ==
    amount # 0 => /\ m.free[from] >= amount
                  /\ m.free[to] + amount >= ExistentialDeposit

\* A sender left with less than the existential deposit loses the rest: the
\* pallet does not put the accounts of farms and pools on the blacklist.
transfer(m, from, to, amount) ==
    LET moved == [m.free EXCEPT ![from] = @ - amount, ![to] = @ + amount]
    IN  IF amount # 0 /\ moved[from] < ExistentialDeposit
        THEN [free |-> [moved EXCEPT ![from] = 0],
              dusted |-> [m.dusted EXCEPT ![from] = @ + moved[from]]]
        ELSE [m EXCEPT !.free = moved]

Settle(m) == balance' = m.free /\ dusted' = m.dusted

-----------------------------------------------------------------------------
(* The lazy updates.  funds is the balance of the farm's account. *)

reward_per_period(farm) ==
    calculate_global_pool_reward_per_period(
        farm.yield_per_period, farm.total_shares_z, farm.max_reward_per_period)

update_global_pool(farm, funds, now) ==
    LET due == (now - farm.updated_at) * reward_per_period(farm)
        reward == IF due <= funds THEN due ELSE funds
    IN  IF farm.updated_at = now \/ farm.total_shares_z = 0 THEN farm
        ELSE [farm EXCEPT
                !.accumulated_rpz = calculate_accumulated_rps(@, farm.total_shares_z, reward),
                !.accumulated_rewards = @ + reward,
                !.updated_at = now]

claim_from_global_pool(farm, pool) ==
    LET reward == (farm.accumulated_rpz - pool.accumulated_rpz) * pool.stake_in_global_pool
    IN  [reward |-> reward,
         farm |-> [farm EXCEPT !.paid_accumulated_rewards = @ + reward,
                               !.accumulated_rewards = @ - reward],
         pool |-> [pool EXCEPT !.accumulated_rpz = farm.accumulated_rpz]]

IsStale(pool, now) == pool.updated_at # now /\ pool.total_valued_shares # 0

update_liq_pool(pool, rewards, now) ==
    IF IsStale(pool, now)
    THEN [pool EXCEPT !.accumulated_rpvs =
                          calculate_accumulated_rps(@, pool.total_valued_shares, rewards),
                      !.updated_at = now]
    ELSE pool

\* Farm and pool after the update, and what the farm's account pays the pool's.
maybe_update_pools(farm, pool, funds, now) ==
    IF pool.canceled \/ pool.total_shares = 0 \/ pool.updated_at = now
    THEN [farm |-> farm, pool |-> pool, paid |-> 0]
    ELSE LET claim == claim_from_global_pool(update_global_pool(farm, funds, now), pool)
         IN  [farm |-> claim.farm,
              pool |-> update_liq_pool(claim.pool, claim.reward, now),
              paid |-> IF IsStale(claim.pool, now) THEN claim.reward ELSE 0]

\* The checked subtraction in claim_from_global_pool, and the payment with its
\* InsufficientBalanceInGlobalPool.
UpdateSucceeds(update, farm_id) ==
    /\ update.farm.accumulated_rewards >= 0
    /\ CanTransfer(Ledger, farm_id, update.pool.id, update.paid)

Paid(update, farm_id) == transfer(Ledger, farm_id, update.pool.id, update.paid)

get_loyalty_multiplier(periods, curve) ==
    IF curve = {} THEN <<1, 1>>
    ELSE LET c == CHOOSE c \in curve : TRUE
         IN  calculate_loyalty_multiplier(periods, c.initial_reward_percentage, c.scale_coef)

\* Mutant of do_claim_rewards: what was claimed is not recorded.
do_claim_rewards_Forgotten(d, pool, now) ==
    LET reward == calculate_user_reward(d.accumulated_rpvs, d.valued_shares,
                      d.accumulated_claimed_rewards, pool.accumulated_rpvs,
                      get_loyalty_multiplier(now - d.entered_at, pool.loyalty_curve))
    IN  IF d.updated_at = now THEN [rewards |-> 0, unclaimable |-> 0, deposit |-> d]
        ELSE [rewards |-> reward.rewards, unclaimable |-> reward.unclaimable,
              deposit |-> [d EXCEPT !.updated_at = now]]

\* What the deposit is paid and what it forgoes if it leaves.  A second
\* claim in a period is worth nothing.
do_claim_rewards(d, pool, now) ==
    LET reward == calculate_user_reward(d.accumulated_rpvs, d.valued_shares,
                      d.accumulated_claimed_rewards, pool.accumulated_rpvs,
                      get_loyalty_multiplier(now - d.entered_at, pool.loyalty_curve))
    IN  IF d.updated_at = now THEN [rewards |-> 0, unclaimable |-> 0, deposit |-> d]
        ELSE [rewards |-> reward.rewards, unclaimable |-> reward.unclaimable,
              deposit |-> [d EXCEPT !.accumulated_claimed_rewards = @ + reward.rewards,
                                    !.updated_at = now]]

\* Mutant of ClaimSucceeds: a second claim in a period is an error here too.
ClaimSucceeds_Once(d, pool, claim, now) ==
    /\ d.updated_at # now
    /\ pool.accumulated_rpvs >= d.accumulated_rpvs
    /\ claim.rewards >= 0

\* The checked arithmetic of calculate_user_reward.
ClaimSucceeds(d, pool, claim, now) ==
    d.updated_at # now => /\ pool.accumulated_rpvs >= d.accumulated_rpvs
                          /\ claim.rewards >= 0

-----------------------------------------------------------------------------
(* Farms *)

\* NextPoolId bounds the sequence of ids.
NextPoolId == /\ pool_id < MaxPoolId
              /\ pool_id' = pool_id + 1

validate_create_farm_data(total_rewards, planned_yielding_periods, blocks_per_period, yield_per_period) ==
    /\ total_rewards >= MinTotalFarmRewards
    /\ planned_yielding_periods >= MinPlannedYieldingPeriods
    /\ blocks_per_period # 0
    /\ yield_per_period[1] # 0

create_farm(owner, total_rewards, planned_yielding_periods, blocks_per_period, yield_per_period) ==
    /\ validate_create_farm_data(total_rewards, planned_yielding_periods, blocks_per_period,
                                 yield_per_period)
    /\ NextPoolId
    /\ CanTransfer(Ledger, owner, pool_id + 1, total_rewards)
    /\ global_pool' = insert(global_pool, pool_id',
           NewGlobalPool(block \div blocks_per_period, yield_per_period, blocks_per_period, owner,
                         total_rewards \div planned_yielding_periods))
    /\ Settle(transfer(Ledger, owner, pool_id', total_rewards))
    /\ UNCHANGED <<nft_sequence, liquidity_pool, deposit, liq_pool_meta, nft_owner, native,
                   foreign, unbacked>>

IsEmptyFarm(farm) == farm.liq_pools_count = 0

\* Mutant of RewardsWithdrawn: the check is dropped.
RewardsWithdrawn_Dropped(farm_id) == TRUE

\* RewardBalanceIsNotZero
RewardsWithdrawn(farm_id) == balance[farm_id] = 0

destroy_farm(who, farm_id) ==
    /\ farm_id \in DOMAIN global_pool
    /\ global_pool[farm_id].owner = who
    /\ IsEmptyFarm(global_pool[farm_id])
    /\ RewardsWithdrawn(farm_id)
    /\ global_pool' = remove(global_pool, farm_id)
    /\ UNCHANGED <<pool_id, nft_sequence, liquidity_pool, deposit, liq_pool_meta, nft_owner,
                   balance, dusted, native, foreign, unbacked>>

withdraw_undistributed_rewards(who, farm_id) ==
    /\ farm_id \in DOMAIN global_pool
    /\ global_pool[farm_id].owner = who
    /\ IsEmptyFarm(global_pool[farm_id])
    /\ CanTransfer(Ledger, farm_id, who, balance[farm_id])
    /\ Settle(transfer(Ledger, farm_id, who, balance[farm_id]))
    /\ UNCHANGED <<pool_id, nft_sequence, global_pool, liquidity_pool, deposit, liq_pool_meta,
                   nft_owner, native, foreign, unbacked>>

-----------------------------------------------------------------------------
(* Pools.  k is <<farm_id, asset_pair>>. *)

IsOwner(who, k) == k[1] \in DOMAIN global_pool /\ global_pool[k[1]].owner = who

\* update_global_pool as add_liquidity_pool and resume_liquidity_pool call it.
UpdatedFarm(farm_id) ==
    update_global_pool(global_pool[farm_id], balance[farm_id], get_now_period(global_pool[farm_id]))

add_liquidity_pool(who, k, multiplier, loyalty_curve) ==
    LET now == get_now_period(global_pool[k[1]])
    IN  /\ multiplier[1] # 0
        /\ \A c \in loyalty_curve :
              c.initial_reward_percentage[1] < c.initial_reward_percentage[2]
        /\ k[2] \in live
        /\ IsOwner(who, k)
        /\ k \notin DOMAIN liquidity_pool
        /\ NextPoolId
        /\ liq_pool_meta' = insert(liq_pool_meta, pool_id',
               [asset_pair |-> k[2], nfts |-> 0, farm_id |-> k[1]])
        /\ liquidity_pool' = insert(liquidity_pool, k,
               NewLiquidityPool(pool_id', now, loyalty_curve, multiplier))
        /\ global_pool' = [global_pool EXCEPT ![k[1]] =
               [UpdatedFarm(k[1]) EXCEPT !.liq_pools_count = @ + 1]]
        /\ UNCHANGED <<nft_sequence, deposit, nft_owner, balance, dusted, native, foreign,
                       unbacked>>

\* The update that the handlers below start with.
Updated(k) ==
    maybe_update_pools(global_pool[k[1]], liquidity_pool[k], balance[k[1]],
                       get_now_period(global_pool[k[1]]))

\* The owner changes an active pool: it is brought up to date, then its stake
\* and the fields of `change` are replaced.
ChangePool(who, k, stake, change) ==
    LET u == Updated(k)
    IN  /\ k \in DOMAIN liquidity_pool
        /\ ~liquidity_pool[k].canceled
        /\ IsOwner(who, k)
        /\ UpdateSucceeds(u, k[1])
        /\ global_pool' = [global_pool EXCEPT ![k[1]] = [u.farm EXCEPT
               !.total_shares_z = @ - u.pool.stake_in_global_pool + stake]]
        /\ liquidity_pool' = [liquidity_pool EXCEPT ![k] = [u.pool EXCEPT
               !.stake_in_global_pool = stake,
               !.multiplier = change.multiplier,
               !.canceled = change.canceled]]
        /\ Settle(Paid(u, k[1]))
        /\ UNCHANGED <<pool_id, nft_sequence, deposit, liq_pool_meta, nft_owner, native,
                       foreign, unbacked>>

update_liquidity_pool(who, k, multiplier) ==
    /\ multiplier[1] # 0
    /\ k \in DOMAIN liquidity_pool
    /\ ChangePool(who, k,
           calculate_global_pool_shares(liquidity_pool[k].total_valued_shares, multiplier),
           [multiplier |-> multiplier, canceled |-> FALSE])

cancel_liquidity_pool(who, k) ==
    ChangePool(who, k, 0, [multiplier |-> <<0, 1>>, canceled |-> TRUE])

\* Mutant of StakeOfResumed: the stake is not restored in the farm.
StakeOfResumed_Lost(pool, multiplier) == 0

StakeOfResumed(pool, multiplier) ==
    calculate_global_pool_shares(pool.total_valued_shares, multiplier)

resume_liquidity_pool(who, k, multiplier) ==
    LET farm == UpdatedFarm(k[1])
        pool == liquidity_pool[k]
        now == get_now_period(global_pool[k[1]])
    IN  /\ multiplier[1] # 0
        /\ k \in DOMAIN liquidity_pool
        /\ pool.canceled
        /\ IsOwner(who, k)
        /\ global_pool' = [global_pool EXCEPT ![k[1]] = [farm EXCEPT
               !.total_shares_z = @ + StakeOfResumed(pool, multiplier)]]
        /\ liquidity_pool' = [liquidity_pool EXCEPT ![k] = [pool EXCEPT
               !.accumulated_rpz = farm.accumulated_rpz,
               !.updated_at = now,
               !.stake_in_global_pool = calculate_global_pool_shares(pool.total_valued_shares, multiplier),
               !.canceled = FALSE,
               !.multiplier = multiplier]]
        /\ UNCHANGED <<pool_id, nft_sequence, deposit, liq_pool_meta, nft_owner, balance, dusted,
                       native, foreign, unbacked>>

\* Mutant of MetaAfterRemoval: the metadata goes although deposits need it.
MetaAfterRemoval_Always(id) == remove(liq_pool_meta, id)

MetaAfterRemoval(id) ==
    IF liq_pool_meta[id].nfts = 0 THEN remove(liq_pool_meta, id) ELSE liq_pool_meta

remove_liquidity_pool(who, k) ==
    LET id == liquidity_pool[k].id
    IN  /\ k \in DOMAIN liquidity_pool
        /\ liquidity_pool[k].canceled
        /\ IsOwner(who, k)
        /\ CanTransfer(Ledger, id, k[1], balance[id])
        /\ global_pool' = [global_pool EXCEPT ![k[1]].liq_pools_count = @ - 1]
        /\ Settle(transfer(Ledger, id, k[1], balance[id]))
        /\ liq_pool_meta' = MetaAfterRemoval(id)
        /\ liquidity_pool' = remove(liquidity_pool, k)
        /\ UNCHANGED <<pool_id, nft_sequence, deposit, nft_owner, native, foreign, unbacked>>

-----------------------------------------------------------------------------
(* Deposits *)

get_valued_shares(amount, asset_pair) == amount * backing[asset_pair]

\* A pair without a pool has the default share token, the native currency.
ShareTokens(asset_pair, who) == IF asset_pair \in live THEN shares[asset_pair][who] ELSE native[who]

TakeShares(asset_pair, who, amount) ==
    IF asset_pair \in live
    THEN /\ AMM!TransferShares(asset_pair, who, pallet_account, amount)
         /\ UNCHANGED <<native, unbacked>>
    ELSE /\ native' = [native EXCEPT ![who] = @ - amount, ![pallet_account] = @ + amount]
         /\ unbacked' = unbacked \cup {asset_pair}
         /\ UNCHANGED amm_vars

\* Mutant of StakeAdded: stakes are counted in shares.
StakeAdded_Shares(amount, valued_shares, pool) == calculate_global_pool_shares(amount, pool.multiplier)

\* The stake a deposit adds to the pool's, and takes away again.
StakeAdded(amount, valued_shares, pool) == calculate_global_pool_shares(valued_shares, pool.multiplier)

deposit_shares(who, k, amount) ==
    LET u == Updated(k)
        valued_shares == get_valued_shares(amount, k[2])
        stake == StakeAdded(amount, valued_shares, u.pool)
        nft_id == encode_nft_id(u.pool.id, nft_sequence + 1)
        now == get_now_period(global_pool[k[1]])
    IN  /\ amount # 0
        /\ ShareTokens(k[2], who) >= amount
        /\ k \in DOMAIN liquidity_pool
        /\ ~liquidity_pool[k].canceled
        /\ UpdateSucceeds(u, k[1])
        /\ nft_sequence < MaxDeposits
        /\ liquidity_pool' = [liquidity_pool EXCEPT ![k] = [u.pool EXCEPT
               !.total_shares = @ + amount,
               !.total_valued_shares = @ + valued_shares,
               !.stake_in_global_pool = @ + stake]]
        /\ global_pool' = [global_pool EXCEPT ![k[1]] = [u.farm EXCEPT !.total_shares_z = @ + stake]]
        /\ TakeShares(k[2], who, amount)
        /\ nft_sequence' = nft_sequence + 1
        /\ nft_owner' = insert(nft_owner, nft_id, who)
        /\ deposit' = insert(deposit, nft_id, NewDeposit(amount, valued_shares, u.pool.accumulated_rpvs, now))
        /\ liq_pool_meta' = [liq_pool_meta EXCEPT ![u.pool.id].nfts = @ + 1]
        /\ Settle(Paid(u, k[1]))
        /\ UNCHANGED <<pool_id, foreign>>

\* The farm and the pair of a deposit; the pool is then looked up by these,
\* not by its id.
PoolKey(nft_id) ==
    LET meta == liq_pool_meta[get_pool_id_from_nft_id(nft_id)]
    IN  <<meta.farm_id, meta.asset_pair>>

HasMeta(nft_id) == ValidNftId(nft_id) /\ get_pool_id_from_nft_id(nft_id) \in DOMAIN liq_pool_meta

\* History: the deposit's own pool is gone and this is another one.
NoteForeign(nft_id, pool) ==
    foreign' = IF pool.id = get_pool_id_from_nft_id(nft_id) THEN foreign ELSE foreign \cup {pool.id}

claim_rewards(who, nft_id) ==
    /\ HasMeta(nft_id)
    /\ nft_id \in DOMAIN deposit
    /\ nft_id \in DOMAIN nft_owner
    /\ nft_owner[nft_id] = who
    /\ PoolKey(nft_id) \in DOMAIN liquidity_pool
    /\ LET k == PoolKey(nft_id)
           d == deposit[nft_id]
           u == Updated(k)
           now == get_now_period(global_pool[k[1]])
           claim == do_claim_rewards(d, u.pool, now)
       IN  /\ ~liquidity_pool[k].canceled
           /\ d.updated_at # now
           /\ UpdateSucceeds(u, k[1])
           /\ ClaimSucceeds(d, u.pool, claim, now)
           /\ CanTransfer(Paid(u, k[1]), u.pool.id, who, claim.rewards)
           /\ global_pool' = [global_pool EXCEPT ![k[1]] = u.farm]
           /\ liquidity_pool' = [liquidity_pool EXCEPT ![k] = u.pool]
           /\ deposit' = [deposit EXCEPT ![nft_id] = claim.deposit]
           /\ Settle(transfer(Paid(u, k[1]), u.pool.id, who, claim.rewards))
           /\ NoteForeign(nft_id, u.pool)
    /\ UNCHANGED <<pool_id, nft_sequence, liq_pool_meta, nft_owner, native, unbacked>>

\* The part of withdraw_shares that concerns the pool of the deposit: u is the
\* update, claim what the deposit is paid, stake what the pool loses.
LeaveWith(who, nft_id, u, claim, stake) ==
    LET k == PoolKey(nft_id)
        d == deposit[nft_id]
        claimed == transfer(Paid(u, k[1]), u.pool.id, who, claim.rewards)
    IN  /\ UpdateSucceeds(u, k[1])
        /\ ClaimSucceeds(d, u.pool, claim, get_now_period(global_pool[k[1]]))
        /\ u.pool.total_shares >= d.shares
        /\ u.pool.total_valued_shares >= d.valued_shares
        /\ u.pool.stake_in_global_pool >= stake
        /\ u.farm.total_shares_z >= stake
        /\ CanTransfer(Paid(u, k[1]), u.pool.id, who, claim.rewards)
        /\ CanTransfer(claimed, u.pool.id, k[1], claim.unclaimable)
        /\ global_pool' = [global_pool EXCEPT ![k[1]] = [u.farm EXCEPT !.total_shares_z = @ - stake]]
        /\ liquidity_pool' = [liquidity_pool EXCEPT ![k] = [u.pool EXCEPT
               !.total_shares = @ - d.shares,
               !.total_valued_shares = @ - d.valued_shares,
               !.stake_in_global_pool = @ - stake]]
        /\ Settle(transfer(claimed, u.pool.id, k[1], claim.unclaimable))
        /\ NoteForeign(nft_id, u.pool)

LeavePool(who, nft_id) ==
    LET k == PoolKey(nft_id)
        d == deposit[nft_id]
    IN  \E u \in {Updated(k)} :
        \E claim \in {do_claim_rewards(d, u.pool, get_now_period(global_pool[k[1]]))},
           stake \in {IF u.pool.canceled THEN 0 ELSE StakeAdded(d.shares, d.valued_shares, u.pool)} :
        LeaveWith(who, nft_id, u, claim, stake)

\* The last deposit of a removed pool takes the metadata with it.
MetaAfterWithdrawal(id, pool_exists) ==
    IF liq_pool_meta[id].nfts = 1 /\ ~pool_exists THEN remove(liq_pool_meta, id)
    ELSE [liq_pool_meta EXCEPT ![id].nfts = @ - 1]

\* Mutant of ReturnShares: the shares stay with the pallet.
ReturnShares_Kept(asset_pair, who, amount) == UNCHANGED amm_vars

\* No shares are given back if there is no AMM pool.
ReturnShares(asset_pair, who, amount) ==
    IF asset_pair \in live
    THEN AMM!TransferShares(asset_pair, pallet_account, who, amount)
    ELSE UNCHANGED amm_vars

withdraw_shares(who, nft_id) ==
    /\ nft_id \in DOMAIN nft_owner
    /\ nft_owner[nft_id] = who
    /\ HasMeta(nft_id)
    /\ nft_id \in DOMAIN deposit
    /\ \/ /\ PoolKey(nft_id) \in DOMAIN liquidity_pool
          /\ LeavePool(who, nft_id)
       \/ /\ PoolKey(nft_id) \notin DOMAIN liquidity_pool
          /\ UNCHANGED <<global_pool, liquidity_pool, balance, dusted, foreign>>
    /\ ReturnShares(PoolKey(nft_id)[2], who, deposit[nft_id].shares)
    /\ deposit' = remove(deposit, nft_id)
    /\ nft_owner' = remove(nft_owner, nft_id)
    /\ liq_pool_meta' = MetaAfterWithdrawal(get_pool_id_from_nft_id(nft_id),
                                            PoolKey(nft_id) \in DOMAIN liquidity_pool)
    /\ UNCHANGED <<pool_id, nft_sequence, native, unbacked>>

\* NFT::transfer, or a sale on the marketplace.
transfer_nft(who, nft_id, dest) ==
    /\ nft_id \in DOMAIN nft_owner
    /\ nft_owner[nft_id] = who
    /\ nft_owner' = [nft_owner EXCEPT ![nft_id] = dest]
    /\ UNCHANGED <<pool_id, nft_sequence, global_pool, liquidity_pool, deposit, liq_pool_meta,
                   balance, dusted, native, foreign, unbacked>>

-----------------------------------------------------------------------------

Farms == DOMAIN global_pool

OwnerCall(who) ==
    \/ \E total_rewards \in TotalRewards, periods \in PlannedPeriods,
          blocks_per_period \in BlocksPerPeriod, yield \in Yields :
             create_farm(who, total_rewards, periods, blocks_per_period, yield)
    \/ \E farm_id \in Farms :
          \/ destroy_farm(who, farm_id)
          \/ withdraw_undistributed_rewards(who, farm_id)
          \/ \E asset_pair \in Pairs :
                \/ cancel_liquidity_pool(who, <<farm_id, asset_pair>>)
                \/ remove_liquidity_pool(who, <<farm_id, asset_pair>>)
                \/ \E multiplier \in Multipliers :
                      \/ update_liquidity_pool(who, <<farm_id, asset_pair>>, multiplier)
                      \/ resume_liquidity_pool(who, <<farm_id, asset_pair>>, multiplier)
                      \/ \E curve \in Curves :
                            add_liquidity_pool(who, <<farm_id, asset_pair>>, multiplier, curve)

\* The calls that move share tokens.
ShareCall(who) ==
    \/ \E k \in DOMAIN liquidity_pool, amount \in Amounts : deposit_shares(who, k, amount)
    \/ \E nft_id \in DOMAIN nft_owner : withdraw_shares(who, nft_id)

NftCall(who) ==
    \E nft_id \in DOMAIN nft_owner :
        \/ claim_rewards(who, nft_id)
        \/ \E dest \in Users : transfer_nft(who, nft_id, dest)

NextBlock ==
    /\ block < MaxBlock
    /\ block' = block + 1
    /\ UNCHANGED <<farm_vars, amm_vars>>

\* Everyone but the pallet uses the AMM.
AMMStep ==
    /\ AMM!AMMNext
    /\ \A p \in Pairs : /\ shares'[p][pallet_account] = shares[p][pallet_account]
                         /\ issuance'[p] <= MaxIssuance
    /\ UNCHANGED <<farm_vars, block>>

\* Both pools of the AMM exist and every user holds shares of them.
Init ==
    /\ block = 0
    /\ pool_id = 0
    /\ nft_sequence = 0
    /\ global_pool = Empty
    /\ liquidity_pool = Empty
    /\ deposit = Empty
    /\ liq_pool_meta = Empty
    /\ nft_owner = Empty
    /\ balance = [a \in Users \cup 1..MaxPoolId |-> IF a \in Users THEN Wealth ELSE 0]
    /\ dusted = [a \in Users \cup 1..MaxPoolId |-> 0]
    /\ native = [a \in Accounts |-> IF a \in Users THEN Wealth ELSE 0]
    /\ live = Pairs
    /\ backing \in [Pairs -> Backings \ {0}]
    /\ shares = [p \in Pairs |-> [a \in Accounts |-> IF a \in Users THEN Holding ELSE 0]]
    /\ issuance = [p \in Pairs |-> Holding * Cardinality(Users)]
    /\ foreign = {}
    /\ unbacked = {}

Next ==
    \/ NextBlock
    \/ AMMStep
    \/ \E who \in Users :
          \/ (OwnerCall(who) \/ NftCall(who)) /\ UNCHANGED <<block, amm_vars>>
          \/ ShareCall(who) /\ UNCHANGED block

Spec == Init /\ [][Next]_vars

-----------------------------------------------------------------------------
(* Properties *)

TypeOK ==
    /\ block \in 0..MaxBlock
    /\ pool_id \in 0..MaxPoolId
    /\ nft_sequence \in 0..MaxDeposits
    /\ DOMAIN global_pool \subseteq PoolIds
    /\ \A f \in DOMAIN global_pool : global_pool[f] \in GlobalPool
    /\ DOMAIN liquidity_pool \subseteq PoolIds \X Pairs
    /\ \A k \in DOMAIN liquidity_pool : liquidity_pool[k] \in LiquidityPool
    /\ \A n \in DOMAIN deposit : n \in Nat /\ deposit[n] \in Deposit
    /\ DOMAIN liq_pool_meta \subseteq PoolIds
    /\ \A id \in DOMAIN liq_pool_meta :
          liq_pool_meta[id] \in [asset_pair : Pairs, nfts : Nat, farm_id : PoolIds]
    /\ \A n \in DOMAIN nft_owner : nft_owner[n] \in Users
    /\ balance \in [Users \cup PoolIds -> Nat]
    /\ dusted \in [Users \cup PoolIds -> Nat]
    /\ native \in [Accounts -> Nat]
    /\ live \subseteq Pairs
    /\ backing \in [Pairs -> Nat]
    /\ shares \in [Pairs -> [Accounts -> Nat]]
    /\ issuance \in [Pairs -> Nat]

PoolsOf(f) == {k \in DOMAIN liquidity_pool : k[1] = f}

DepositsOf(id) == {n \in DOMAIN deposit : get_pool_id_from_nft_id(n) = id}

\* The counters and the metadata that decide when a farm may be destroyed and
\* when metadata may be deleted, kept by six calls (add_liquidity_pool,
\* remove_liquidity_pool, deposit_shares, withdraw_shares, create_farm,
\* destroy_farm): a farm counts its pools, every pool belongs to a farm and
\* has its metadata, metadata counts the deposits of a pool, removed or not,
\* a deposit has an NFT and the NFT a deposit, and metadata is kept exactly
\* as long as a pool or a deposit needs it ("Last withdrawn from removed liq.
\* pool should destroy metadata"; the exception is a withdrawal that acted on
\* the pool added in place of its own, see foreign).  The comments "liq. pool can't
\* exist without global_pool" and "If metadata doesn't exist, the user CAN'T
\* withdraw" rest on it.
RecordsAgree ==
    /\ \A f \in DOMAIN global_pool :
          global_pool[f].liq_pools_count = Cardinality(PoolsOf(f))
    /\ \A k \in DOMAIN liquidity_pool :
          /\ k[1] \in DOMAIN global_pool
          /\ liquidity_pool[k].id \in DOMAIN liq_pool_meta
          /\ liq_pool_meta[liquidity_pool[k].id].farm_id = k[1]
          /\ liq_pool_meta[liquidity_pool[k].id].asset_pair = k[2]
    /\ \A id \in DOMAIN liq_pool_meta :
          /\ liq_pool_meta[id].nfts = Cardinality(DepositsOf(id))
          /\ foreign = {} => \/ DepositsOf(id) # {}
                             \/ \E k \in DOMAIN liquidity_pool : liquidity_pool[k].id = id
    /\ \A n \in DOMAIN deposit : HasMeta(n)
    /\ DOMAIN deposit = DOMAIN nft_owner

Stakes == [k \in DOMAIN liquidity_pool |-> liquidity_pool[k].stake_in_global_pool]

\* The total a farm divides its rewards by is the sum of the stakes of its
\* pools, which are changed separately by six calls.
StakesAddUp ==
    \A f \in DOMAIN global_pool :
        global_pool[f].total_shares_z = SumFunctionOnSet(Stakes, PoolsOf(f))

DepositedShares == [n \in DOMAIN deposit |-> deposit[n].shares]

ValuedShares == [n \in DOMAIN deposit |-> deposit[n].valued_shares]

DepositStakes(multiplier) ==
    [n \in DOMAIN deposit |-> calculate_global_pool_shares(deposit[n].valued_shares, multiplier)]

\* The totals of a pool are those of its deposits, and its stake covers what
\* the withdrawal of all of them subtracts again although stakes are rounded
\* for each deposit on its own: the checked subtractions of withdraw_shares
\* cannot fail.  Pools that a deposit of another pool acted on are excepted.
TotalsAddUp ==
    \A k \in DOMAIN liquidity_pool :
        LET pool == liquidity_pool[k]
            ds == DepositsOf(pool.id)
        IN  pool.id \notin foreign =>
              /\ pool.total_shares = SumFunctionOnSet(DepositedShares, ds)
              /\ pool.total_valued_shares = SumFunctionOnSet(ValuedShares, ds)
              /\ pool.canceled \/ pool.stake_in_global_pool >=
                                     SumFunctionOnSet(DepositStakes(pool.multiplier), ds)

\* What a deposit has earned and not been paid, the part it would forgo
\* included.
Owed(d, pool) ==
    (pool.accumulated_rpvs - d.accumulated_rpvs) * d.valued_shares - d.accumulated_claimed_rewards

OwedBy(pool) == [n \in DOMAIN deposit |-> Owed(deposit[n], pool)]

\* The account of a pool can pay all its deposits what they have earned
\* (do_claim_rewards and the unclaimable rest in withdraw_shares), whatever
\* was rounded, claimed, forgone and withdrawn before, unless the account was
\* dusted: then what it lacks is at most what it lost as dust.  Nobody is owed
\* a negative amount.
PoolCanPay ==
    \A k \in DOMAIN liquidity_pool :
        LET pool == liquidity_pool[k]
            ds == DepositsOf(pool.id)
        IN  pool.id \notin foreign =>
              /\ \A n \in ds : Owed(deposit[n], pool) >= 0
              /\ balance[pool.id] + dusted[pool.id] >= SumFunctionOnSet(OwedBy(pool), ds)

DepositsOnPair(p) ==
    {n \in DOMAIN deposit : liq_pool_meta[get_pool_id_from_nft_id(n)].asset_pair = p}

\* The pallet's account holds the share tokens of all deposits, also of
\* those whose pool or farm is gone, and the AMM pool of a pair lives as
\* long as there are deposits for it, so that the "SPECIAL CASE" of
\* withdraw_shares, in which shares are not returned, is never met.  Pairs
\* for which a deposit was accepted without an AMM pool are excepted.
SharesAreHeld ==
    \A p \in Pairs \ unbacked :
        /\ shares[p][pallet_account] = SumFunctionOnSet(DepositedShares, DepositsOnPair(p))
        /\ DepositsOnPair(p) # {} => p \in live

OwnPool(n, k) == liquidity_pool[k].id = get_pool_id_from_nft_id(n)

\* What the withdrawal of a deposit from a canceled pool transfers.
Payments(n, k) ==
    LET claim == do_claim_rewards(deposit[n], liquidity_pool[k], get_now_period(global_pool[k[1]]))
    IN  {claim.rewards, claim.unclaimable}

\* A deposit in a canceled pool, or in a pool that was removed and not
\* replaced, can be withdrawn by the owner of its NFT at any time: nothing
\* that others claimed, withdrew or traded makes withdraw_shares fail.  What
\* may make it fail is the existential deposit of the reward currency: if a
\* payment is below it, or if the account of the pool was dusted.
CanceledDepositsCanLeave ==
    \A n \in DOMAIN deposit :
        LET k == PoolKey(n)
            pool == liquidity_pool[k]
        IN  (/\ k[2] \notin unbacked
             /\ k \in DOMAIN liquidity_pool =>
                   /\ OwnPool(n, k)
                   /\ pool.canceled
                   /\ pool.id \notin foreign
                   /\ dusted[pool.id] = 0
                   /\ Payments(n, k) \cap (1 .. ExistentialDeposit - 1) = {})
            => ENABLED withdraw_shares(nft_owner[n], n)

\* Reward currency is neither created nor lost by any call: it is on the
\* accounts of users, farms and pools or was removed as dust, and once a pool
\* is removed and its farm destroyed nothing stays behind on their accounts.
\* No account, total or accumulator is negative (TypeOK).
RewardsConserved ==
    /\ TypeOK
    /\ SumFunctionOnSet(balance, Users \cup PoolIds) + SumFunctionOnSet(dusted, Users \cup PoolIds)
          = Wealth * Cardinality(Users)
    /\ \A id \in PoolIds :
          balance[id] > 0 => \/ id \in DOMAIN global_pool
                             \/ \E k \in DOMAIN liquidity_pool : liquidity_pool[k].id = id

-----------------------------------------------------------------------------
(* What the documentation says and the code does not do *)

\* "liq. pool was removed - only LP shares will be transferred": a deposit
\* whose pool was removed can be withdrawn (pairs with deposits made without an
\* AMM pool aside).
RemovedDepositsCanLeave ==
    \A n \in DOMAIN deposit :
        (/\ PoolKey(n) \in DOMAIN liquidity_pool => ~OwnPool(n, PoolKey(n))
         /\ PoolKey(n)[2] \notin unbacked)
            => ENABLED withdraw_shares(nft_owner[n], n)

=============================================================================
