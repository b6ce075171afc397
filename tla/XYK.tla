-------------------------------- MODULE XYK --------------------------------
(***************************************************************************)
(* The constant-product market maker, pallets/xyk/src/lib.rs.              *)
(*                                                                         *)
(* An extrinsic is one atomic step.  Every extrinsic of the pallet is      *)
(* transactional (sell and buy through execute_sell and execute_buy), so a *)
(* failing call changes nothing and is a stuttering step: the error checks *)
(* are the guards of the actions, in the order of the code.                *)
(*                                                                         *)
(* The account of a pool is derived from the unordered asset pair, and the *)
(* asset registry returns the same share token whenever the pool of a pair *)
(* is created again: both are identified here with the set {a, b}.         *)
(* Traded assets have an existential deposit of one unit, so that no       *)
(* balance is dust.                                                        *)
(***************************************************************************)
EXTENDS XYKMath, MultiCurrency, FiniteSets, Functions

CONSTANTS
    Users,              \* accounts that sign extrinsics
    Assets,             \* ids of the traded assets; ids are ordered
    NativeAssetId,
    GetExchangeFee,     \* <<numerator, denominator>>, (2, 1000) in the runtime
    DiscountedFee,      \* <<numerator, denominator>>, (7, 10_000) in the code
    MinTradingLimit, MinPoolLiquidity, MaxInRatio, MaxOutRatio,
    MaxBalance,         \* 2^128 - 1 in the code
    Endowment,          \* [Users -> [Assets -> Balance]]: the wallets at genesis
    Amounts, Limits, Prices     \* the arguments of the calls

Balance == 0..MaxBalance

ASSUME AssetsAssumption == Assets \subseteq Nat /\ NativeAssetId \in Assets

ASSUME FeeAssumption ==
    \A fee \in {GetExchangeFee, DiscountedFee} :
        /\ fee \in Nat \X (Nat \ {0})
        /\ fee[1] <= fee[2]

ASSUME LimitAssumption ==
    /\ MinTradingLimit \in Nat
    /\ MinPoolLiquidity \in Nat \ {0}
    /\ MaxInRatio \in Nat \ {0}
    /\ MaxOutRatio \in Nat \ {0}
    /\ MaxBalance \in Nat

ASSUME EndowmentAssumption == Endowment \in [Users -> [Assets -> Balance]]

\* What there is of an asset at genesis.
Supply(asset) == SumFunctionOnSet([u \in Users |-> Endowment[u][asset]], Users)

\* It is itself a Balance: orml-tokens keeps it as the total issuance.
ASSUME SupplyAssumption ==
    /\ IsFiniteSet(Users)
    /\ IsFiniteSet(Assets)
    /\ \A asset \in Assets : Supply(asset) <= MaxBalance

ASSUME ArgumentAssumption ==
    /\ Amounts \subseteq Balance
    /\ Limits \subseteq Balance
    /\ Prices \subseteq Nat \X (Nat \ {0})

Pairs == {p \in SUBSET Assets : \E a, b \in Assets : a # b /\ p = {a, b}}

VARIABLES
    share_token,        \* the pool accounts that have a ShareToken entry
    pool_assets,        \* PoolAssets; << >> where there is no entry
    total_liquidity,    \* TotalLiquidity; 0 where there is no entry
    wallet,             \* free balances of the users
    reserve,            \* free balances of the pool accounts
    shares,             \* free balances of the share tokens
    issuance            \* total issuance of the share tokens

vars == <<share_token, pool_assets, total_liquidity, wallet, reserve, shares, issuance>>

Init ==
    /\ share_token = {}
    /\ pool_assets = [p \in Pairs |-> << >>]
    /\ total_liquidity = [p \in Pairs |-> 0]
    /\ wallet = Endowment
    /\ reserve = [p \in Pairs |-> [a \in Assets |-> 0]]
    /\ shares = [p \in Pairs |-> [u \in Users |-> 0]]
    /\ issuance = [p \in Pairs |-> 0]

-----------------------------------------------------------------------------
(* The AMM interface *)

get_pair_id(a, b) == {a, b}

exists(a, b) == get_pair_id(a, b) \in share_token

Fits(x) == x <= MaxBalance

\* Zero if the pool holds nothing of a, and if the result is not a Balance.
get_spot_price_unchecked(a, b, amount) ==
    LET p == get_pair_id(a, b)
        price == calculate_spot_price(reserve[p][a], reserve[p][b], amount)
    IN  IF reserve[p][a] # 0 /\ Fits(price) THEN price ELSE 0

SharesAdded(a, b, amount_a, amount_b) == IF a < b THEN amount_a ELSE amount_b

\* `who` pays amount_a of a and amount_b of b into the pool and is given
\* minted share tokens.
PayIn(who, p, a, amount_a, b, amount_b, minted) ==
    /\ Fits(reserve[p][a] + amount_a)
    /\ Fits(reserve[p][b] + amount_b)
    /\ Fits(issuance[p] + minted)
    /\ Fits(shares[p][who] + minted)
    /\ wallet' = withdraw(withdraw(wallet, who, a, amount_a), who, b, amount_b)
    /\ reserve' = deposit(deposit(reserve, p, a, amount_a), p, b, amount_b)
    /\ shares' = deposit(shares, p, who, minted)
    /\ issuance' = [issuance EXCEPT ![p] = @ + minted]

\* Mutant of SufficientLiquidity: only the amount of the first asset is checked.
SufficientLiquidity_FirstOnly(amount, asset_b_amount) == amount >= MinPoolLiquidity

\* What a pool must start with.
SufficientLiquidity(amount, asset_b_amount) ==
    /\ amount >= MinPoolLiquidity
    /\ asset_b_amount >= MinPoolLiquidity

\* CanCreatePool and the price oracle's on_create_pool may also refuse: then
\* nothing happens.  A price is a ratio; checked_mul_int rounds down.
create_pool(who, a, b, amount, initial_price) ==
    LET p == get_pair_id(a, b)
        asset_b_amount == (initial_price[1] * amount) \div initial_price[2]
        shares_added == SharesAdded(a, b, amount, asset_b_amount)
    IN  /\ initial_price[1] # 0
        /\ a # b
        /\ ~exists(a, b)
        /\ Fits(asset_b_amount)
        /\ SufficientLiquidity(amount, asset_b_amount)
        /\ wallet[who][a] >= amount
        /\ wallet[who][b] >= asset_b_amount
        /\ share_token' = share_token \cup {p}
        /\ pool_assets' = [pool_assets EXCEPT ![p] = <<a, b>>]
        /\ PayIn(who, p, a, amount, b, asset_b_amount, shares_added)
        /\ total_liquidity' = [total_liquidity EXCEPT ![p] = shares_added]

add_liquidity(who, a, b, amount_a, amount_b_max_limit) ==
    LET p == get_pair_id(a, b)
        amount_b_required == calculate_liquidity_in(reserve[p][a], reserve[p][b], amount_a)
        shares_added == SharesAdded(a, b, amount_a, amount_b_required)
    IN  /\ exists(a, b)
        /\ amount_a >= MinTradingLimit
        /\ amount_b_max_limit # 0
        /\ wallet[who][a] >= amount_a
        /\ wallet[who][b] >= amount_b_max_limit
        /\ reserve[p][a] # 0
        /\ Fits(amount_b_required)
        /\ amount_b_required <= amount_b_max_limit
        /\ shares_added # 0
        /\ shares[p][who] + shares_added >= MinPoolLiquidity
        /\ Fits(total_liquidity[p] + shares_added)
        /\ PayIn(who, p, a, amount_a, b, amount_b_required, shares_added)
        /\ total_liquidity' = [total_liquidity EXCEPT ![p] = @ + shares_added]
        /\ UNCHANGED <<share_token, pool_assets>>

\* Mutant of CanRemove: an account may not go below MinPoolLiquidity, not even
\* to zero.
CanRemove_KeepMinimum(who, p, liquidity_amount) ==
    /\ total_liquidity[p] >= liquidity_amount
    /\ shares[p][who] - liquidity_amount >= MinPoolLiquidity

\* Mutant of Emptied: the clean-up comes too early.
Emptied_Early(liquidity_left) == liquidity_left <= MinPoolLiquidity

\* The checks of remove_liquidity on the shares: what an account keeps is
\* nothing or at least MinPoolLiquidity.
CanRemove(who, p, liquidity_amount) ==
    /\ total_liquidity[p] >= liquidity_amount
    /\ shares[p][who] >= liquidity_amount
    /\ \/ shares[p][who] - liquidity_amount >= MinPoolLiquidity
       \/ shares[p][who] = liquidity_amount

\* When remove_liquidity drops the pool from the three storage maps.
Emptied(liquidity_left) == liquidity_left = 0

\* Mutant of RemoveAmount: one unit is kept back so that the account stays alive.
RemoveAmount_KeepAlive(p, asset, liquidity_amount) ==
    calculate_liquidity_out(reserve[p][asset] - 1, liquidity_amount, total_liquidity[p])

\* What a pool pays of one of its assets.
RemoveAmount(p, asset, liquidity_amount) ==
    calculate_liquidity_out(reserve[p][asset], liquidity_amount, total_liquidity[p])

remove_liquidity(who, a, b, liquidity_amount) ==
    LET p == get_pair_id(a, b)
        remove_amount_a == RemoveAmount(p, a, liquidity_amount)
        remove_amount_b == RemoveAmount(p, b, liquidity_amount)
        liquidity_left == total_liquidity[p] - liquidity_amount
    IN  /\ liquidity_amount # 0
        /\ exists(a, b)
        /\ CanRemove(who, p, liquidity_amount)
        /\ reserve[p][a] >= remove_amount_a
        /\ reserve[p][b] >= remove_amount_b
        /\ Fits(wallet[who][a] + remove_amount_a)
        /\ Fits(wallet[who][b] + remove_amount_b)
        /\ reserve' = withdraw(withdraw(reserve, p, a, remove_amount_a), p, b, remove_amount_b)
        /\ wallet' = deposit(deposit(wallet, who, a, remove_amount_a), who, b, remove_amount_b)
        /\ shares' = withdraw(shares, p, who, liquidity_amount)
        /\ issuance' = [issuance EXCEPT ![p] = @ - liquidity_amount]
        /\ total_liquidity' = [total_liquidity EXCEPT ![p] = liquidity_left]
        /\ share_token' = IF Emptied(liquidity_left) THEN share_token \ {p} ELSE share_token
        /\ pool_assets' = IF Emptied(liquidity_left) THEN [pool_assets EXCEPT ![p] = << >>]
                                                     ELSE pool_assets

-----------------------------------------------------------------------------
(* Trades *)

\* calculate_fee and calculate_discounted_fee
trade_fee(amount, discount) ==
    calculate_pool_trade_fee(amount, IF discount THEN DiscountedFee ELSE GetExchangeFee)

\* The native amount burned for a discount on `fee`, priced by the pool of
\* `asset` and the native asset.
discount_fee(asset, fee, discount) ==
    LET p == get_pair_id(asset, NativeAssetId)
    IN  IF discount THEN calculate_spot_price(reserve[p][asset], reserve[p][NativeAssetId], fee)
                    ELSE 0

\* Mutant of CanDiscount: the balance the discount is burned from is not checked.
CanDiscount_Unfunded(who, asset, fee) ==
    /\ exists(asset, NativeAssetId)
    /\ reserve[get_pair_id(asset, NativeAssetId)][asset] # 0
    /\ Fits(discount_fee(asset, fee, TRUE))

\* The checks validate_sell and validate_buy make when a discount is asked for.
CanDiscount(who, asset, fee) ==
    /\ exists(asset, NativeAssetId)
    /\ reserve[get_pair_id(asset, NativeAssetId)][asset] # 0
    /\ Fits(discount_fee(asset, fee, TRUE))
    /\ wallet[who][NativeAssetId] >= discount_fee(asset, fee, TRUE)

\* What execute_sell and execute_buy do to the ledger: burn the discount,
\* take amount_in from `who` and pay amount_out.  CanSwap: every withdrawal
\* and deposit succeeds, in that order.
CanSwap(who, asset_in, asset_out, amount_in, amount_out, burned) ==
    LET burnt == withdraw(wallet, who, NativeAssetId, burned)
    IN  /\ wallet[who][NativeAssetId] >= burned
        /\ burnt[who][asset_in] >= amount_in
        /\ Fits(reserve[get_pair_id(asset_in, asset_out)][asset_in] + amount_in)
        /\ Fits(burnt[who][asset_out] + amount_out)

Swap(who, asset_in, asset_out, amount_in, amount_out, burned) ==
    LET p == get_pair_id(asset_in, asset_out)
        burnt == withdraw(wallet, who, NativeAssetId, burned)
    IN  /\ CanSwap(who, asset_in, asset_out, amount_in, amount_out, burned)
        /\ wallet' = deposit(withdraw(burnt, who, asset_in, amount_in), who, asset_out, amount_out)
        /\ reserve' = withdraw(deposit(reserve, p, asset_in, amount_in), p, asset_out, amount_out)
        /\ UNCHANGED <<share_token, pool_assets, total_liquidity, shares, issuance>>

\* Mutant of sell_out: the reserves change places.
sell_out_swapped(asset_in, asset_out, amount) ==
    LET p == get_pair_id(asset_in, asset_out)
    IN  calculate_out_given_in(reserve[p][asset_out], reserve[p][asset_in], amount)

sell_out(asset_in, asset_out, amount) ==
    LET p == get_pair_id(asset_in, asset_out)
    IN  calculate_out_given_in(reserve[p][asset_in], reserve[p][asset_out], amount)

validate_sell(who, asset_in, asset_out, amount, min_bought, discount) ==
    LET p == get_pair_id(asset_in, asset_out)
        amount_out == sell_out(asset_in, asset_out, amount)
        transfer_fee == trade_fee(amount_out, discount)
    IN  /\ amount >= MinTradingLimit
        /\ exists(asset_in, asset_out)
        /\ wallet[who][asset_in] >= amount
        /\ amount <= reserve[p][asset_in] \div MaxInRatio
        /\ reserve[p][asset_in] + amount # 0
        /\ transfer_fee <= amount_out
        /\ reserve[p][asset_out] > amount_out
        /\ min_bought <= amount_out - transfer_fee
        /\ discount => CanDiscount(who, asset_in, transfer_fee)

\* The AMMTransfer of a validated sale: what is paid, received and burned.
sell_transfer(asset_in, asset_out, amount, discount) ==
    LET amount_out == sell_out(asset_in, asset_out, amount)
        transfer_fee == trade_fee(amount_out, discount)
    IN  [amount_in |-> amount,
         amount_out |-> amount_out - transfer_fee,
         burned |-> discount_fee(asset_in, transfer_fee, discount)]

CanExecute(who, asset_in, asset_out, transfer) ==
    CanSwap(who, asset_in, asset_out, transfer.amount_in, transfer.amount_out, transfer.burned)

execute(who, asset_in, asset_out, transfer) ==
    Swap(who, asset_in, asset_out, transfer.amount_in, transfer.amount_out, transfer.burned)

execute_sell(who, asset_in, asset_out, amount, discount) ==
    execute(who, asset_in, asset_out, sell_transfer(asset_in, asset_out, amount, discount))

sell(who, asset_in, asset_out, amount, max_limit, discount) ==
    /\ validate_sell(who, asset_in, asset_out, amount, max_limit, discount)
    /\ execute_sell(who, asset_in, asset_out, amount, discount)

buy_price(asset_in, asset_out, amount) ==
    LET p == get_pair_id(asset_in, asset_out)
    IN  calculate_in_given_out(reserve[p][asset_out], reserve[p][asset_in], amount)

\* The discount is looked up in the pool of the bought asset.
validate_buy(who, asset_in, asset_out, amount, max_limit, discount) ==
    LET p == get_pair_id(asset_in, asset_out)
        price == buy_price(asset_in, asset_out, amount)
        transfer_fee == trade_fee(price, discount)
    IN  /\ amount >= MinTradingLimit
        /\ exists(asset_in, asset_out)
        /\ reserve[p][asset_out] > amount
        /\ amount <= reserve[p][asset_out] \div MaxOutRatio
        /\ Fits(price + transfer_fee)
        /\ max_limit >= price + transfer_fee
        /\ wallet[who][asset_in] >= price + transfer_fee
        /\ discount => CanDiscount(who, asset_out, transfer_fee)

buy_transfer(asset_in, asset_out, amount, discount) ==
    LET price == buy_price(asset_in, asset_out, amount)
        transfer_fee == trade_fee(price, discount)
    IN  [amount_in |-> price + transfer_fee,
         amount_out |-> amount,
         burned |-> discount_fee(asset_out, transfer_fee, discount)]

execute_buy(who, asset_in, asset_out, amount, discount) ==
    execute(who, asset_in, asset_out, buy_transfer(asset_in, asset_out, amount, discount))

buy(who, asset_out, asset_in, amount, max_limit, discount) ==
    /\ validate_buy(who, asset_in, asset_out, amount, max_limit, discount)
    /\ execute_buy(who, asset_in, asset_out, amount, discount)

\* A plain Currencies::transfer to the account of a pool, live or not: the
\* pallet reads its reserves from that account.
TransferToPool(who, p, asset, amount) ==
    /\ wallet[who][asset] >= amount
    /\ Fits(reserve[p][asset] + amount)
    /\ wallet' = withdraw(wallet, who, asset, amount)
    /\ reserve' = deposit(reserve, p, asset, amount)
    /\ UNCHANGED <<share_token, pool_assets, total_liquidity, shares, issuance>>

\* An LP may also give back exactly what it holds.
Holdings(who) == {shares[p][who] : p \in Pairs}

\* The extrinsics of the pallet.
Call ==
    \E who \in Users, a, b \in Assets, amount \in Amounts :
        \/ \E price \in Prices : create_pool(who, a, b, amount, price)
        \/ \E limit \in Limits : add_liquidity(who, a, b, amount, limit)
        \/ \E liquidity \in Amounts \cup Holdings(who) : remove_liquidity(who, a, b, liquidity)
        \/ \E limit \in Limits, discount \in BOOLEAN :
              \/ sell(who, a, b, amount, limit, discount)
              \/ buy(who, a, b, amount, limit, discount)

Next ==
    \/ Call
    \/ \E who \in Users, p \in Pairs, amount \in Amounts :
          \E asset \in p : TransferToPool(who, p, asset, amount)

Spec == Init /\ [][Next]_vars

\* The pallet alone, with no transfer from outside.
CallSpec == Init /\ [][Call]_vars

-----------------------------------------------------------------------------
(* Properties *)

TypeOK ==
    /\ share_token \subseteq Pairs
    /\ pool_assets \in [Pairs -> {<< >>} \cup (Assets \X Assets)]
    /\ total_liquidity \in [Pairs -> Balance]
    /\ wallet \in [Users -> [Assets -> Balance]]
    /\ reserve \in [Pairs -> [Assets -> Balance]]
    /\ shares \in [Pairs -> [Users -> Balance]]
    /\ issuance \in [Pairs -> Balance]

\* The three storage maps of the pallet and the share token's issuance stay
\* in step over creation, destruction and re-creation of a pool: a pair has
\* a ShareToken entry exactly when it has PoolAssets (naming the pair) and
\* positive TotalLiquidity, and TotalLiquidity is the issuance of the share
\* token.  create_pool overwrites TotalLiquidity but adds to the issuance.
PoolStorageAgrees ==
    \A p \in Pairs :
        /\ p \in share_token <=> total_liquidity[p] > 0
        /\ IF p \in share_token
           THEN \E a, b \in Assets : pool_assets[p] = <<a, b>> /\ p = {a, b}
           ELSE pool_assets[p] = << >>
        /\ total_liquidity[p] = issuance[p]

\* However often liquidity is removed and assets are traded, rounding never
\* empties one side of a live pool: no division by an empty reserve in
\* add_liquidity, and the pool can always be traded against.
LivePoolHasReserves ==
    \A p \in share_token : \A a \in p : reserve[p][a] > 0

\* Neither a trade, at whatever fee or discount, nor a removal of liquidity,
\* nor a transfer to the pool lowers what the outstanding shares are worth:
\* the product of the reserves over the square of the shares never falls.
\* It rests on the direction of every rounding in validate_sell,
\* validate_buy and remove_liquidity.
ShareValueStep ==
    \A a, b \in Assets :
        LET p == get_pair_id(a, b)
        IN  /\ p \in share_token
            /\ p \in share_token'
            /\ total_liquidity'[p] <= total_liquidity[p]
            => (reserve'[p][a] * reserve'[p][b]) * (total_liquidity[p] * total_liquidity[p])
                  >= (reserve[p][a] * reserve[p][b]) * (total_liquidity'[p] * total_liquidity'[p])

\* ShareValueStep holds of every step.
ShareValueNeverFalls == [][ShareValueStep]_vars

\* The step that destroys a pool pays out everything its account holds of the
\* two assets, however the shares were bought and sold before: nothing is
\* stranded in an account nobody can sign for.
DestructionStep ==
    \A p \in Pairs :
        p \in share_token /\ p \notin share_token' => \A a \in p : reserve'[p][a] = 0

\* DestructionStep holds of every step.
DestructionEmptiesPool == [][DestructionStep]_vars

\* Whatever the others did, an account holding shares can give all of them
\* back in one call of remove_liquidity.
HolderCanExit ==
    \A who \in Users, a, b \in Assets :
        a # b /\ shares[get_pair_id(a, b)][who] > 0
            => ENABLED remove_liquidity(who, a, b, shares[get_pair_id(a, b)][who])

\* "Note : the execution should not return error as everything was previously
\* verified and validated" (execute_sell): a sale that validate_sell accepts
\* can be executed.
ValidatedSellExecutes ==
    \A who \in Users, a, b \in Assets, amount \in Amounts, limit \in Limits, discount \in BOOLEAN :
        validate_sell(who, a, b, amount, limit, discount)
            => CanExecute(who, a, b, sell_transfer(a, b, amount, discount))

=============================================================================
