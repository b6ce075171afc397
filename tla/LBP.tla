-------------------------------- MODULE LBP --------------------------------
(***************************************************************************)
(* The liquidity bootstrapping pools (pallets/lbp/src/lib.rs).             *)
(*                                                                         *)
(* A pool sells one asset of a pair for the other, assets[1], the          *)
(* accumulated one, between two blocks its owner sets once.  The weights   *)
(* of the assets, and so the price, change with every block of the sale.   *)
(* Each trade pays a fee in the accumulated asset to a collector, on whose *)
(* account the fees of the sale stay locked until the pool is removed.     *)
(*                                                                         *)
(* Every call is #[transactional]: one that fails changes nothing and is   *)
(* not a step.  Blocks are those of the relay chain, so their number may   *)
(* grow by more than one from one block of the parachain to the next.      *)
(* Existential deposits are left out.  The owner and the collector of a    *)
(* pool are users: the code takes any account for either (lines 408 and    *)
(* 506), the pool's own among them, which is left out.                     *)
(***************************************************************************)
EXTENDS XYKMath, MultiCurrency, StorageMap

CONSTANTS
    Users,
    Assets,
    None,               \* the value of an Option that has none
    Endowment,          \* what the users own at the start
    MAX_WEIGHT,
    MAX_SALE_DURATION,
    MAX_IN_RATIO,
    MAX_OUT_RATIO,
    MinPoolLiquidity,
    repay_fee,          \* <<2, 10>> in the code
    Terms,              \* the weights, fees and targets create_pool is called with
    Updates,            \* the arguments update_pool_data is called with
    Amounts,
    Limits,
    MaxStep,            \* bound on the relay blocks between two blocks
    MaxBlock            \* bound on the relay blocks

\* What update_pool_data may change; None leaves a field as it is.
PoolUpdate ==
    [owner : Users \cup {None}, start : Nat \cup {None}, end : Nat \cup {None},
     initial_weight : Nat \cup {None}, final_weight : Nat \cup {None},
     fee : (Nat \X Nat) \cup {None}, fee_collector : Users \cup {None},
     repay_target : Nat \cup {None}]

PoolTerms == [initial_weight : Nat, final_weight : Nat, fee : Nat \X Nat, repay_target : Nat]

ASSUME NoneAssumption == None \notin Int \cup (Int \X Int)

ASSUME StepAssumption == MaxStep \in Nat

ASSUME WeightAssumption == MAX_WEIGHT \in Nat

ASSUME FeeAssumption == repay_fee \in Nat \X (Nat \ {0})

ASSUME EndowmentAssumption == Endowment \in [Users -> [Assets -> Nat]]

ASSUME AmountAssumption == Amounts \subseteq Nat /\ Limits \subseteq Nat

ASSUME TermsAssumption == Terms \subseteq PoolTerms

ASSUME UpdateAssumption == Updates \subseteq PoolUpdate

Pairs == {p \in SUBSET Assets : \E a, b \in Assets : a # b /\ p = {a, b}}

VARIABLES
    pool_data,                  \* PoolData
    fee_collector_with_asset,   \* the keys of FeeCollectorWithAsset
    wallet,                     \* free balances of the users
    reserve,                    \* free balances of the pool accounts
    lock,                       \* the COLLECTOR_LOCK_ID locks of the users
    now,                        \* current_block_number
    paid,                       \* the fees each pool has paid since it was created
    self_paid                   \* the part of a lock its collector owed to itself

vars == <<pool_data, fee_collector_with_asset, wallet, reserve, lock, now, paid, self_paid>>

Init ==
    /\ pool_data = Empty
    /\ fee_collector_with_asset = {}
    /\ wallet = Endowment
    /\ reserve = [p \in Pairs |-> [a \in Assets |-> 0]]
    /\ lock = [u \in Users |-> [a \in Assets |-> 0]]
    /\ now = 0
    /\ paid = [p \in Pairs |-> 0]
    /\ self_paid = [u \in Users |-> [a \in Assets |-> 0]]

live == DOMAIN pool_data

get_pair_id(a, b) == {a, b}

-----------------------------------------------------------------------------
(* The phases of a sale *)

is_pool_running(pool) ==
    /\ pool.start # None
    /\ pool.end # None
    /\ pool.start <= now
    /\ now <= pool.end

\* Mutant of has_pool_started: the first block of the sale is missed.
has_pool_started_Late(pool) == pool.start # None /\ pool.start < now

has_pool_started(pool) == pool.start # None /\ pool.start <= now

\* Mutant of can_create: a sale that has not begun is as good as over.
can_create_NotRunning(a, b) ==
    LET p == get_pair_id(a, b)
    IN  p \in live => pool_data[p].end # None /\ ~is_pool_running(pool_data[p])

\* DisallowWhenLBPPoolRunning, which the runtime gives to XYK as its
\* CanCreatePool.
can_create(a, b) ==
    LET p == get_pair_id(a, b)
    IN  p \in live => pool_data[p].end # None /\ pool_data[p].end < now

\* Mutant of ValidRange: a sale of a single block.
ValidRange_Point(start, end) ==
    \/ start = None /\ end = None
    \/ start # None /\ end # None /\ now < start /\ start <= end

ValidRange(start, end) ==
    \/ start = None /\ end = None
    \/ start # None /\ end # None /\ now < start /\ start < end

unwrap_or(option, default) == IF option = None THEN default ELSE option

validate_pool_data(pool) ==
    /\ ValidRange(pool.start, pool.end)
    /\ unwrap_or(pool.end, 0) - unwrap_or(pool.start, 0) < MAX_SALE_DURATION
    /\ pool.initial_weight \in 1 .. MAX_WEIGHT - 1
    /\ pool.final_weight \in 1 .. MAX_WEIGHT - 1
    /\ pool.fee[2] # 0

-----------------------------------------------------------------------------
(* Prices (external: hydra_dx_math) *)

\* The weight moves on a line from (start, from) to (end, to); there is none
\* outside of the sale.
calculate_linear_weights(start, end, from, to, at) ==
    IF start < end /\ start <= at /\ at <= end
    THEN (from * (end - at) + to * (at - start)) \div (end - start)
    ELSE None

\* Prices are powers of ratios of reserves and are not computed here: the
\* model lets the crate return any amount a trade could still be made with.
lbp_out_given_in(out_reserve) == 0 .. out_reserve
lbp_in_given_out(in_reserve, out_reserve, amount) ==
    IF amount < out_reserve THEN 0 .. in_reserve ELSE {}

\* The weights of the two assets; None where the calculation fails.
calculate_weights(pool, at) ==
    LET weight_a == calculate_linear_weights(unwrap_or(pool.start, 0), unwrap_or(pool.end, 0),
                                             pool.initial_weight, pool.final_weight, at)
    IN  IF weight_a = None THEN None ELSE <<weight_a, MAX_WEIGHT - weight_a>>

-----------------------------------------------------------------------------
(* Fees *)

\* The lock with the id COLLECTOR_LOCK_ID, whichever pallet keeps the asset.
get_by_lock(asset, who) == lock[who][asset]

\* The fees locked on the account of the collector.
collected_fees(pool) == get_by_lock(pool.assets[1], pool.fee_collector)

\* Mutant of is_repay_fee_applied: whatever the collector owns counts.
is_repay_fee_applied_Owned(pool) == wallet[pool.fee_collector][pool.assets[1]] < pool.repay_target

is_repay_fee_applied(pool) == collected_fees(pool) < pool.repay_target

calculate_fees(pool, amount) ==
    calculate_pool_trade_fee(amount, IF is_repay_fee_applied(pool) THEN repay_fee ELSE pool.fee)

\* What an account can transfer: locked funds stay.
CanTransfer(balances, who, asset, amount) ==
    amount = 0 \/ balances[who][asset] - lock[who][asset] >= amount

\* A transfer to oneself moves nothing and asks for nothing.
CanPay(balances, from, to, asset, amount) ==
    from = to \/ CanTransfer(balances, from, asset, amount)

-----------------------------------------------------------------------------
(* Pools *)

\* The check of FeeCollectorWithAsset in create_pool and update_pool_data.
CollectorIsFree(fee_collector, asset) == <<fee_collector, asset>> \notin fee_collector_with_asset

\* Mutant of Reassigned: the old collector is not given free.
Reassigned_Kept(old, new, asset) == fee_collector_with_asset \cup {<<new, asset>>}

\* FeeCollectorWithAsset after a change of collector.
Reassigned(old, new, asset) == (fee_collector_with_asset \ {<<old, asset>>}) \cup {<<new, asset>>}

\* Mutant of Unlocked: the lock stays behind.
Unlocked_Kept(pool) == lock

\* remove_lock, called if there are collected fees
Unlocked(pool) == [lock EXCEPT ![pool.fee_collector][pool.assets[1]] = 0]

\* Mutant of PayIn: locked funds are paid like others.
PayIn_Locked(who, p, asset_a, amount_a, asset_b, amount_b) ==
    /\ wallet[who][asset_a] >= amount_a
    /\ wallet[who][asset_b] >= amount_b
    /\ wallet' = withdraw(withdraw(wallet, who, asset_a, amount_a), who, asset_b, amount_b)
    /\ reserve' = deposit(deposit(reserve, p, asset_a, amount_a), p, asset_b, amount_b)

\* The owner pays amounts of both assets into the pool.
PayIn(who, p, asset_a, amount_a, asset_b, amount_b) ==
    /\ CanTransfer(wallet, who, asset_a, amount_a)
    /\ CanTransfer(wallet, who, asset_b, amount_b)
    /\ wallet' = withdraw(withdraw(wallet, who, asset_a, amount_a), who, asset_b, amount_b)
    /\ reserve' = deposit(deposit(reserve, p, asset_a, amount_a), p, asset_b, amount_b)

\* Called for `owner` by the origin that may create pools.
create_pool(owner, asset_a, amount_a, asset_b, amount_b, terms, fee_collector) ==
    LET p == get_pair_id(asset_a, asset_b)
        pool == [owner |-> owner, start |-> None, end |-> None, assets |-> <<asset_a, asset_b>>,
                 initial_weight |-> terms.initial_weight, final_weight |-> terms.final_weight,
                 fee |-> terms.fee, fee_collector |-> fee_collector,
                 repay_target |-> terms.repay_target]
    IN  /\ amount_a >= MinPoolLiquidity
        /\ amount_b >= MinPoolLiquidity
        /\ asset_a # asset_b
        /\ p \notin live
        /\ CollectorIsFree(fee_collector, asset_a)
        /\ wallet[owner][asset_a] >= amount_a
        /\ wallet[owner][asset_b] >= amount_b
        /\ validate_pool_data(pool)
        /\ pool_data' = insert(pool_data, p, pool)
        /\ fee_collector_with_asset' = fee_collector_with_asset \cup {<<fee_collector, asset_a>>}
        /\ PayIn(owner, p, asset_a, amount_a, asset_b, amount_b)
        /\ UNCHANGED <<lock, now, paid, self_paid>>

\* A change of the collector gives the old one free.
update_pool_data(who, p, update) ==
    /\ p \in live
    /\ \E field \in DOMAIN update \ {"owner"} : update[field] # None
    /\ LET pool == pool_data[p]
           updated == [field \in DOMAIN pool |->
                          IF field = "assets" THEN pool.assets
                                              ELSE unwrap_or(update[field], pool[field])]
       IN  /\ who = pool.owner
           /\ ~has_pool_started(pool)
           /\ \/ /\ update.fee_collector = None
                 /\ UNCHANGED fee_collector_with_asset
              \/ /\ update.fee_collector # None
                 /\ CollectorIsFree(update.fee_collector, pool.assets[1])
                 /\ fee_collector_with_asset' =
                       Reassigned(pool.fee_collector, update.fee_collector, pool.assets[1])
           /\ validate_pool_data(updated)
           /\ pool_data' = [pool_data EXCEPT ![p] = updated]
    /\ UNCHANGED <<wallet, reserve, lock, now, paid, self_paid>>

\* Also while the sale is running, and after it.
add_liquidity(who, asset_a, amount_a, asset_b, amount_b) ==
    LET p == get_pair_id(asset_a, asset_b)
    IN  /\ p \in live
        /\ who = pool_data[p].owner
        /\ amount_a # 0 \/ amount_b # 0
        /\ PayIn(who, p, asset_a, amount_a, asset_b, amount_b)
        /\ UNCHANGED <<pool_data, fee_collector_with_asset, lock, now, paid, self_paid>>

\* Mutant of CanRemove: a pool has to have had its sale.
CanRemove_Ended(pool) == pool.end # None /\ pool.end < now

CanRemove(pool) == ~is_pool_running(pool)

\* Everything the account of the pool holds goes to the owner.
remove_liquidity(who, p) ==
    /\ p \in live
    /\ LET pool == pool_data[p]
           asset_a == pool.assets[1]
           asset_b == pool.assets[2]
       IN  /\ who = pool.owner
           /\ CanRemove(pool)
           /\ reserve' = [reserve EXCEPT ![p][asset_a] = 0, ![p][asset_b] = 0]
           /\ wallet' = deposit(deposit(wallet, who, asset_a, reserve[p][asset_a]),
                                who, asset_b, reserve[p][asset_b])
           /\ lock' = Unlocked(pool)
           /\ fee_collector_with_asset' =
                 fee_collector_with_asset \ {<<pool.fee_collector, asset_a>>}
    /\ pool_data' = remove(pool_data, p)
    /\ paid' = [paid EXCEPT ![p] = 0]
    /\ self_paid' = [self_paid EXCEPT ![pool_data[p].fee_collector][pool_data[p].assets[1]] = 0]
    /\ UNCHANGED now

-----------------------------------------------------------------------------
(* Trades *)

\* Mutant of PaidByTrader: the trader always pays.
PaidByTrader_Always(asset_in, fee_asset) == TRUE

\* Who pays the fee: the trader if the accumulated asset is what is sold, the
\* account of the pool otherwise.
PaidByTrader(asset_in, fee_asset) == asset_in = fee_asset

\* The lock is replaced by one for all the fees collected.
LockAfter(pool, fee) ==
    [lock EXCEPT ![pool.fee_collector][pool.assets[1]] = collected_fees(pool) + fee]

\* Each transfer sees what the ones before it did.  The trader may be the
\* collector: then a fee it pays is transferred to itself, unchecked, and locked.
execute_trade(who, asset_in, asset_out, transfer) ==
    LET p == get_pair_id(asset_in, asset_out)
        pool == pool_data[p]
        fee_asset == pool.assets[1]
        by_trader == PaidByTrader(asset_in, fee_asset)
        traded == deposit(withdraw(wallet, who, asset_in, transfer.amount),
                          who, asset_out, transfer.amount_out)
        charged == IF by_trader THEN withdraw(traded, who, fee_asset, transfer.fee) ELSE traded
        left == withdraw(deposit(reserve, p, asset_in, transfer.amount),
                         p, asset_out, transfer.amount_out)
    IN  /\ CanTransfer(wallet, who, asset_in, transfer.amount)
        /\ reserve[p][asset_out] >= transfer.amount_out
        /\ IF by_trader THEN CanPay(traded, who, pool.fee_collector, fee_asset, transfer.fee)
                        ELSE left[p][fee_asset] >= transfer.fee
        /\ wallet' = deposit(charged, pool.fee_collector, fee_asset, transfer.fee)
        /\ reserve' = IF by_trader THEN left ELSE withdraw(left, p, fee_asset, transfer.fee)
        /\ lock' = LockAfter(pool, transfer.fee)
        /\ paid' = [paid EXCEPT ![p] = @ + transfer.fee]
        /\ self_paid' = [self_paid EXCEPT ![pool.fee_collector][fee_asset] =
                            @ + IF by_trader /\ who = pool.fee_collector THEN transfer.fee ELSE 0]
        /\ UNCHANGED <<pool_data, fee_collector_with_asset, now>>

\* Common to validate_sell and validate_buy: the pool exists, its sale is
\* running and get_sorted_weight finds the weights.
CanPrice(asset_in, asset_out) ==
    LET p == get_pair_id(asset_in, asset_out)
    IN  /\ p \in live
        /\ is_pool_running(pool_data[p])
        /\ calculate_weights(pool_data[p], now) # None

\* The AMMTransfer of a sale, where amount_out is what calculate_out_given_in
\* returned.  If the accumulated asset is sold, the fee is part of the amount
\* and the pool gets the less; otherwise it is part of amount_out.
sell_transfer(asset_in, asset_out, amount, amount_out) ==
    LET pool == pool_data[get_pair_id(asset_in, asset_out)]
        fee == calculate_fees(pool, IF pool.assets[1] = asset_in THEN amount ELSE amount_out)
    IN  IF pool.assets[1] = asset_in
        THEN [amount |-> amount - fee, amount_out |-> amount_out, fee |-> fee]
        ELSE [amount |-> amount, amount_out |-> amount_out - fee, fee |-> fee]

validate_sell(who, asset_in, asset_out, amount, min_bought, amount_out) ==
    LET p == get_pair_id(asset_in, asset_out)
        transfer == sell_transfer(asset_in, asset_out, amount, amount_out)
    IN  /\ amount # 0
        /\ wallet[who][asset_in] >= amount
        /\ CanPrice(asset_in, asset_out)
        /\ amount <= reserve[p][asset_in] \div MAX_IN_RATIO
        /\ amount_out <= reserve[p][asset_out] \div MAX_OUT_RATIO
        /\ transfer.amount >= 0
        /\ transfer.amount_out >= 0
        /\ min_bought <= transfer.amount_out

sell(who, asset_in, asset_out, amount, min_bought, amount_out) ==
    /\ validate_sell(who, asset_in, asset_out, amount, min_bought, amount_out)
    /\ execute_trade(who, asset_in, asset_out,
                     sell_transfer(asset_in, asset_out, amount, amount_out))

\* What is asked of calculate_in_given_out: the pool has to give the fee as
\* well if the accumulated asset is bought.
AmountOutPlusFee(pool, asset_out, amount) ==
    IF pool.assets[1] = asset_out THEN amount + calculate_fees(pool, amount) ELSE amount

\* The AMMTransfer of a purchase, where calculated_in is what
\* calculate_in_given_out returned.
buy_transfer(asset_in, asset_out, amount, calculated_in) ==
    LET pool == pool_data[get_pair_id(asset_in, asset_out)]
        fee == calculate_fees(pool, IF pool.assets[1] = asset_out THEN amount ELSE calculated_in)
    IN  IF pool.assets[1] = asset_out
        THEN [amount |-> calculated_in, amount_out |-> amount, fee |-> fee]
        ELSE [amount |-> calculated_in - fee, amount_out |-> amount, fee |-> fee]

validate_buy(who, asset_in, asset_out, amount, max_sold, calculated_in) ==
    LET p == get_pair_id(asset_in, asset_out)
    IN  /\ amount # 0
        /\ wallet[who][asset_in] >= max_sold
        /\ CanPrice(asset_in, asset_out)
        /\ amount <= reserve[p][asset_out] \div MAX_OUT_RATIO
        /\ calculated_in <= reserve[p][asset_in] \div MAX_IN_RATIO
        /\ buy_transfer(asset_in, asset_out, amount, calculated_in).amount >= 0
        /\ max_sold >= calculated_in

buy(who, asset_in, asset_out, amount, max_sold, calculated_in) ==
    /\ validate_buy(who, asset_in, asset_out, amount, max_sold, calculated_in)
    /\ execute_trade(who, asset_in, asset_out,
                     buy_transfer(asset_in, asset_out, amount, calculated_in))

-----------------------------------------------------------------------------
(* The rest of the chain *)

\* A transfer between two users respects the lock.
Transfer(from, to, asset, amount) ==
    /\ from # to
    /\ CanTransfer(wallet, from, asset, amount)
    /\ wallet' = deposit(withdraw(wallet, from, asset, amount), to, asset, amount)
    /\ UNCHANGED <<pool_data, fee_collector_with_asset, reserve, lock, now, paid, self_paid>>

\* Anybody may send assets to the account of a pool, also before it exists.
TransferToPool(from, p, asset, amount) ==
    /\ CanTransfer(wallet, from, asset, amount)
    /\ wallet' = withdraw(wallet, from, asset, amount)
    /\ reserve' = deposit(reserve, p, asset, amount)
    /\ UNCHANGED <<pool_data, fee_collector_with_asset, lock, now, paid, self_paid>>

NextBlock ==
    \E blocks \in 1 .. MaxStep :
        /\ now + blocks <= MaxBlock
        /\ now' = now + blocks
        /\ UNCHANGED <<pool_data, fee_collector_with_asset, wallet, reserve, lock, paid, self_paid>>

Trade(who, asset_in, asset_out, amount) ==
    LET p == get_pair_id(asset_in, asset_out)
    IN  /\ p \in live
        /\ \/ \E limit \in Limits, amount_out \in lbp_out_given_in(reserve[p][asset_out]) :
                 sell(who, asset_in, asset_out, amount, limit, amount_out)
           \/ \E limit \in Limits,
                 calculated_in \in lbp_in_given_out(reserve[p][asset_in], reserve[p][asset_out],
                                      AmountOutPlusFee(pool_data[p], asset_out, amount)) :
                 buy(who, asset_in, asset_out, amount, limit, calculated_in)

Next ==
    \/ \E who \in Users, a, b \in Assets, amount_a, amount_b \in Amounts :
          \/ \E terms \in Terms, collector \in Users :
                create_pool(who, a, amount_a, b, amount_b, terms, collector)
          \/ add_liquidity(who, a, amount_a, b, amount_b)
    \/ \E who \in Users, p \in Pairs :
          \/ \E update \in Updates : update_pool_data(who, p, update)
          \/ remove_liquidity(who, p)
    \/ \E who \in Users, a, b \in Assets, amount \in Amounts :
          \/ Trade(who, a, b, amount)
          \/ \E to \in Users : Transfer(who, to, a, amount)
          \/ \E p \in Pairs : a \in p /\ TransferToPool(who, p, a, amount)
    \/ NextBlock

Spec == Init /\ [][Next]_vars

\* Blocks keep coming.
FairSpec == Spec /\ WF_vars(NextBlock)

-----------------------------------------------------------------------------
(* Properties *)

Pool ==
    [owner : Users, start : Nat \cup {None}, end : Nat \cup {None}, assets : Assets \X Assets,
     initial_weight : Nat, final_weight : Nat, fee : Nat \X Nat, fee_collector : Users,
     repay_target : Nat]

TypeOK ==
    /\ live \subseteq Pairs
    /\ \A p \in live : pool_data[p] \in Pool /\ p = {pool_data[p].assets[1], pool_data[p].assets[2]}
    /\ fee_collector_with_asset \subseteq Users \X Assets
    /\ wallet \in [Users -> [Assets -> Nat]]
    /\ reserve \in [Pairs -> [Assets -> Nat]]
    /\ lock \in [Users -> [Assets -> Nat]]
    /\ now \in Nat
    /\ paid \in [Pairs -> Nat]
    /\ self_paid \in [Users -> [Assets -> Nat]]

\* FeeCollectorWithAsset holds exactly the collectors of the pools that
\* exist, and no two of them share one, over any sequence of creations,
\* changes of the collector and removals.
CollectorsAgree ==
    /\ fee_collector_with_asset =
          {<<pool_data[p].fee_collector, pool_data[p].assets[1]>> : p \in live}
    /\ \A p, q \in live :
          /\ pool_data[p].fee_collector = pool_data[q].fee_collector
          /\ pool_data[p].assets[1] = pool_data[q].assets[1]
          => p = q

\* collected_fees, which is read back from the lock on the collector, is what
\* the pool itself has paid since it was created: no other pool, earlier or
\* later, adds to it, replaces it or removes it.  "note: after LBP finishes
\* and liquidity is removed this will be 0".
LockIsCollectedFees ==
    \A u \in Users, a \in Assets :
        IF \E p \in live : pool_data[p].fee_collector = u /\ pool_data[p].assets[1] = a
        THEN \A p \in live : pool_data[p].fee_collector = u /\ pool_data[p].assets[1] = a
                                => lock[u][a] = paid[p]
        ELSE lock[u][a] = 0

\* The collector still owns all the locked fees that were transferred to it: no
\* trade, transfer or payment into a pool spends them.  Only the fees it paid as
\* a trader are locked without having been transferred (execute_trade), and those
\* never exceed the lock.  No trade leaves anybody, or a pool, with less than
\* nothing (TypeOK).
LockedFeesAreHeld ==
    /\ TypeOK
    /\ \A u \in Users, a \in Assets :
          /\ self_paid[u][a] <= lock[u][a]
          /\ lock[u][a] - self_paid[u][a] <= wallet[u][a]

\* In every block of a sale both assets have a weight, neither of them zero:
\* the price calculation cannot fail for want of one, also in the first and
\* in the last block.
RunningSaleHasWeights ==
    \A p \in live :
        is_pool_running(pool_data[p])
            => /\ calculate_weights(pool_data[p], now) # None
               /\ \A i \in {1, 2} : calculate_weights(pool_data[p], now)[i] \in 1 .. MAX_WEIGHT - 1

\* From its first block on the terms of a sale do not change, and the pool
\* is removed only after the last block of the sale.
SaleIsFixed ==
    [][\A p \in Pairs :
          p \in live /\ pool_data[p].start # None /\ pool_data[p].start <= now
              => IF p \in live' THEN pool_data'[p] = pool_data[p]
                                ELSE pool_data[p].end < now]_vars

\* Once the repay target of a running sale is reached, the fee stays at the
\* fee of the pool: neither the target nor the fees collected can go back.
RepayFeeEndsOnce ==
    [][\A p \in Pairs :
          /\ p \in live /\ p \in live'
          /\ has_pool_started(pool_data[p])
          /\ ~is_repay_fee_applied(pool_data[p])
          => lock'[pool_data'[p].fee_collector][pool_data'[p].assets[1]]
                >= pool_data'[p].repay_target]_vars

\* Once XYK may create a pool for a pair whose sale is over, it may do so
\* until the pool of the sale is removed: the sale does not come back.
CreationStaysAllowed ==
    [][\A a, b \in Assets :
          LET p == get_pair_id(a, b)
          IN  p \in live /\ p \in live' /\ can_create(a, b)
                 => pool_data'[p].end < now']_vars

\* What a trader gains or loses of an asset in a step.
Gain(who, asset) == wallet'[who][asset] - wallet[who][asset]

\* A trader who is not the collector gives exactly `amount` in a sale and at
\* most max_sold in a purchase, and gets at least min_bought or exactly
\* `amount`, whichever side the fee is taken from (sell, buy).
TradesKeepLimits ==
    [][UNCHANGED pool_data /\ reserve' # reserve =>
        \A a, b \in Assets :
            LET p == get_pair_id(a, b)
            IN  p \in live /\ is_pool_running(pool_data[p]) =>
                  \A who \in Users \ {pool_data[p].fee_collector}, amount \in Amounts, limit \in Limits :
                      /\ (\E out \in lbp_out_given_in(reserve[p][b]) : sell(who, a, b, amount, limit, out))
                            => Gain(who, a) = -amount /\ Gain(who, b) >= limit
                      /\ (\E in \in 0 .. reserve[p][a] : buy(who, a, b, amount, limit, in))
                            => Gain(who, a) >= -limit /\ Gain(who, b) = amount]_vars

\* An owner gets the liquidity back: a pool that exists can be removed by its
\* owner, or will be removable once the sale is over.
OwnerCanLeave ==
    \A p \in Pairs :
        p \in live ~> (p \notin live \/ ENABLED remove_liquidity(pool_data[p].owner, p))

=============================================================================
