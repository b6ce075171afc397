# Basilisk: a TLA+ verification project

Basilisk is a Substrate parachain. Its logic is a set of pallets (state in
storage maps, operations as extrinsics) over one multi-currency ledger. This
directory holds TLA+ modules that model the pallets, TLC configurations that
check them on small instances, and TLAPS proofs of what matters most for every
value of the constants.

Two facts about the execution model shape all modules:

- Extrinsics run one after the other; each is one atomic step. A
  `#[transactional]` extrinsic that fails changes nothing, so a failing call is a
  stuttering step and the error checks of the code are the guards of an action.
- Not everything is transactional. `on_finalize` of the exchange pallet runs a
  batch in which every step is kept or given up separately; `dust_account` of the
  duster makes several storage changes with nothing to undo them. There the order
  of the steps and their failures are the subject of the model.

## 1. Inventory

| Component | Source | State | Operations | Interacts with |
|---|---|---|---|---|
| XYK pools | `pallets/xyk` | ShareToken, TotalLiquidity, PoolAssets; pool accounts; share tokens | create_pool, add_liquidity, remove_liquidity, sell, buy; the AMM interface (validate/execute) | ledger, asset registry, price oracle hooks; used by exchange and liquidity mining |
| Exchange | `pallets/exchange` | ExchangeAssetsIntentions, counters; reserved balances during matching | sell, buy (register an intention), on_finalize (match, resolve, clear) | XYK through the AMM interface, ledger reserves |
| LBP pools | `pallets/lbp` | PoolData, FeeCollectorWithAsset; pool accounts; locks on fee collectors | create_pool, update_pool_data, add_liquidity, remove_liquidity, sell, buy | block number, ledger, balance locks; DisallowWhenLBPPoolRunning guards XYK's create_pool |
| Liquidity mining | `pallets/liquidity-mining` | GlobalPoolData, LiquidityPoolData, Deposit, LiquidityPoolMetadata, NFT sequence | create/destroy farm, add/update/cancel/resume/remove liquidity pool, deposit, claim, withdraw | XYK share tokens, NFT pallet, ledger, block number |
| NFT | `pallets/nft` | Classes; pallet_uniques classes and instances | create_class, mint, transfer, burn, destroy_class; the same for other pallets | pallet_uniques; used by marketplace and liquidity mining |
| Marketplace | `pallets/marketplace` | Prices, Offers, MarketplaceInstances; named reserves | set_price, buy, make_offer, withdraw_offer, accept_offer, add_royalty | NFT, native currency reserves |
| Duster | `pallets/duster` | AccountBlacklist, reward and dust accounts | dust_account, add/remove_nondustable_account, on_dust | ledger |
| Off-chain duster | `pallets/offchain-duster` | none on chain | offchain worker that submits dust_account | duster |
| Primitives, runtime glue | `primitives`, `runtime/common`, `runtime/basilisk` | none | AssetPair, locked_balance, adapters, wiring | all |
| Node, RPC, XCM, weights, benchmarks | `node`, `*/rpc`, `runtime/basilisk/src/xcm.rs`, `weights` | none of the chain's | I/O, configuration, generated numbers | |

### What is hard, and what correctness means, per component

- **XYK.** Reserves are the balances of an account anybody can send to; every
  formula rounds; three storage maps and two issuances are kept in step by hand
  over creation, destruction and re-creation. Correct: the storage agrees with the
  share token, no call moves value from liquidity providers to a trader, a holder
  can always leave, destroying a pool strands nothing.
- **Exchange.** Intentions are registered against one state of the pools and the
  wallets and resolved at the end of the block against another, in a batch where
  each trade is prepared (reserved), executed or reverted on its own. Correct: no
  reserve is left behind, no value is created or lost, each intention's limit is
  respected, an intention is resolved at most once, matching never panics.
- **LBP.** The rules change with the block number: who may add, update, remove or
  trade depends on whether the sale has started or ended, in every order of calls.
  Correct: a sale's terms do not change once it runs, a collector's lock matches
  the fees collected, nothing can be pulled from a running sale.
- **Liquidity mining.** Three levels of lazily updated accumulators (global pool,
  liquidity pool, deposit) are brought up to date by whichever call comes next;
  pools are cancelled, resumed, removed and added again while deposits live on.
  Correct: what is promised is backed by what the accounts hold, a deposit is paid
  for its own time only, shares always come back, counters agree with the maps.
- **NFT and marketplace.** Two pallets record the same classes and tokens; a price or
  an offer outlives a change of owner; money is held in a reserve under the name of a
  pallet. Correct: the records agree, the class of the liquidity mining NFTs is out of
  the users' reach, reserves equal open offers, bonds and deposits, an offer can be
  accepted as long as it has not expired, a sale moves the price and nothing else.
- **Duster.** Non-transactional, driven by racing off-chain workers on stale
  reads. Correct: an account on the blacklist is not dusted by the call, nor are its
  tokens by the handler (what it has of the native currency the balances pallet sweeps,
  without asking the duster); only dust is taken, however late a call arrives, and a
  reward is paid for dust only and once.

Where the code falls short of this, section 5 says so.

## 2. Modules

| Module | Models | From |
|---|---|---|
| `MultiCurrency` | the multi-currency ledger: withdraw and deposit | `runtime/common/src/adapter.rs` |
| `StorageMap` | a storage map: insert and remove (external) | |
| `XYKMath`, `LiquidityMiningMath` | the formulas of hydra_dx_math (external) | calls in the pallets, amounts in their tests |
| `XYK`, `MCXYK` | the XYK pallet, its users and its pool accounts | `pallets/xyk/src/lib.rs` |
| `SharePool` | what a holder of share tokens may expect of a market maker: an abstract specification | the AMM trait as liquidity mining uses it |
| `XYKShares`, `MCXYKShares` | the refinement mapping from `XYK` to `SharePool` | |
| `Exchange`, `MCExchange` | the exchange pallet over an instance of `XYK` | `pallets/exchange/src/lib.rs`, `direct.rs` |
| `NFT` | the NFT pallet over pallet_uniques, and the migration that creates a class | `pallets/nft`, `primitives`, `pallets/liquidity-mining/src/migration.rs` |
| `Marketplace`, `MCMarketplace` | the marketplace composed with `NFT` | `pallets/marketplace/src/lib.rs` |
| `LiquidityMining`, `MCLiquidityMining` | farms, pools and deposits over an instance of `SharePool` | `pallets/liquidity-mining/src/lib.rs` |
| `LBP`, `MCLBP` | the bootstrapping pools, locks and blocks | `pallets/lbp/src/lib.rs` |
| `Duster`, `MCDuster` | the duster, its hook in the token pallet and the off-chain workers | `pallets/duster`, `pallets/offchain-duster` |
| `SumFacts`, `Sums` | facts about finite sets and about the sum of a function over one: as definitions, and their proofs | |
| `XYK_proofs`, `XYKFunds_proofs`, `MarketplaceRecords_proofs`, `Marketplace_proofs`, `LiquidityMining_proofs`, `LBP_proofs`, `Duster_proofs` | lemmas and theorems | |

How they fit together: `Exchange` calls the actions of `XYK`. `LiquidityMining` calls
an abstract market maker, `SharePool`, and `XYKShares` shows that `XYK` is one, so that
what is checked of liquidity mining is not tied to the numbers of one pool.
`Marketplace` extends `NFT`, in which the liquidity mining pallet appears as the third
party that mints and burns (`LMCall`). `LBP`'s `can_create` is the predicate the runtime
gives to XYK's `create_pool`.

### XYK

State: `share_token`, `pool_assets`, `total_liquidity` are the three storage maps;
`wallet` and `reserve` are free balances of users and pool accounts; `shares` and
`issuance` are the share tokens' balances and total issuance. A pool account and
its share token are both identified with the unordered pair of assets: the code
derives the account from the pair and the registry returns the same share token
when a pool is created again. Actions: `create_pool`, `add_liquidity`,
`remove_liquidity`, `sell`, `buy`, and `TransferToPool`, a plain transfer to the
account of a pool. `sell` and `buy` are the code's validate followed by execute, so
that the two can be compared.

Abstractions: amounts are naturals up to `MaxBalance`; a price is a ratio; traded
assets have an existential deposit of one unit; events, weights and the price
oracle's hooks are left out.

### SharePool

State: the pairs that have a pool, the balance of the incentivized asset on a pool's
account (`backing`), the share tokens and their issuance. A pool exists from its first
share to its last; a pool that exists holds some of the asset; one that is gone leaves
none of it behind; shares move only when their holder deals with the pool.

### Exchange

State: `intentions` and `intention_count` are the storage of the pallet, `reserved`
the reserved balances. The rest is the local state of `on_finalize`: `step` says
where it is, `pairs_left`, `a_in_intentions` and `b_in_intentions` what it has still
to go through, `intention_copy` the main intention being resolved and `matched` the
intentions matched with it. `settled` is a history variable: what each intention has
paid and received.

Actions: `sell` and `buy` register; `AMMCall` is any call of the XYK pallet in the
same block; `on_finalize` starts resolving, after which nothing else runs until
`Clear`. Resolving takes one step per pass of the code's loops and per part of a
direct trade that can fail on its own:

| Action | Code |
|---|---|
| `NextPair`, `PairDone`, `Clear` | the loop of `on_finalize` and its end |
| `RefuseMain`, `MatchMain` | the loop of `process_exchange_intentions` |
| `MainIsLarger`, `MainIsSmaller`, `MainIsEqual` | the three scenarios of `resolve_matched_intentions`, up to `prepare` |
| `RestWithPool` | scenario 2: the trade of the rest with the pool, or `revert` |
| `DirectTrade` | `execute`, and what it leaves of the main intention |
| `RestOfMain`, `Unmatched` | `resolve_single_intention` |

`step = "panic"` is a panic of `on_finalize`. A subtraction that is not checked wraps
around, as in a release build. Abstractions: an intention's id, a hash over the
counter, is the counter; accounts exist in every asset, so a transfer of reserved
funds has a receiver; events are left out, so an error event is a step that changes
nothing else.

### NFT and Marketplace

State: `classes` and `instances` are the storage of the NFT pallet, `uniques_class` and
`uniques_asset` that of pallet_uniques; `free` and `reserved` the native currency;
`prices`, `offers`, `royalties` and `named` (the reserve under the marketplace's name) the
marketplace. `lm_version` is the storage version that decides whether the migration
runs; `lm_tokens` is a history variable, the tokens liquidity mining has out.

Actions: the five calls of the NFT pallet, the six of the marketplace, `init_nft_class`
(the runtime upgrade), `lm_mint` and `lm_burn` (what liquidity mining does with tokens),
`NextBlock`. A sale (`do_buy`) is one action with both payments and the transfer, as the
calls are transactional. Left out: metadata, the frozen flags and approvals of
pallet_uniques, which no call of these pallets sets.

### LiquidityMining

State: the storage maps of the pallet (`global_pool`, `liquidity_pool`, `deposit`,
`liq_pool_meta`) and its two sequences, the owners of the NFTs, balances of the reward
currency (`balance`) and of the native one, and the variables of `SharePool`. A transfer
of the reward currency fails if the receiver ends up below the existential deposit, and a
sender left below it loses the rest, which `dusted` counts: the pallet does not put the
accounts of farms and pools on the duster's blacklist. `foreign` and
`unbacked` are history variables: pools on which a withdrawal from an earlier pool of
the same pair acted, and pairs with deposits that were made without an AMM pool; the
properties that these two defects break (section 5) except them by name and hold
everywhere else.

Actions: all eleven extrinsics, each with the lazy updates of the farm and of the pool
that it starts with; transfers of an NFT; steps of the AMM; `NextBlock`. Ids of farms and pools
come from one sequence and an NFT id is a sequence number and a pool id, as in the
code, so that a deposit names its pool. Abstractions: accumulators are integers without the
fixed-point scale; one reward currency, one incentivized asset; share tokens have an
existential deposit of one unit (XYK registers them with `MinPoolLiquidity`,
`xyk/src/lib.rs:315`).

### LBP

State: `pool_data` and `fee_collector_with_asset` are the storage; `wallet`, `reserve`
and `lock` the balances and the locks of collectors; `now` the relay chain's block
number, which may skip blocks. `paid` and `self_paid` are history variables: what a pool
has paid in fees, and the part of the fees that a collector owed to itself, which a
transfer to oneself does not move. Actions: the six calls, a
plain transfer between users or to a pool account, `NextBlock`. Prices are powers of
ratios and are not computed: the pricing crate may return any amount within the
reserves, so everything shown holds whatever it returns. Weights are computed on the
line the code asks for. Left out: existential deposits, and collectors that are not users;
the code accepts any account, also the pool's own, whose lock would make
`remove_liquidity` fail at its transfers, before the lock is removed.

### Duster

State: free and reserved balances, the blacklist, the minimum deposits of the
currencies, and for the workers what a run has found (`found`) and the calls that were
submitted and not executed (`pending`). Actions: `dust_account`, the two calls that change
the blacklist, a worker's run step by step (look, submit, fail to submit, be cut
short), execution or loss of a pending call, and the rest of the chain: transfers with
the token pallet's dust handler, reservations, changes of a deposit. `dust_account` is
not transactional: what it does before a failing step stays.

## 3. Runs

| Run | Result | Shows |
|---|---|---|
| `xyk` | passes | two liquidity providers and traders on the pool of two assets: storage, share value, exits |
| `xyk_shares` | passes | XYK implements `SharePool` |
| `exchange` | passes | three intentions of two users, matched, traded directly, with the pool, in part or not at all: reserves cover what is paid, nothing is created or lost, no intention is resolved twice, the batch ends |
| `exchange_moves` | passes | two intentions, discounts, and a direct call of the pool at any moment before the block ends: nothing is created or lost, the pool keeps its value |
| `market` | passes | two users, the marketplace and liquidity mining on one set of classes and tokens, before and after the upgrade: records, reserves, offers and payments |
| `lm_rewards` | passes | one pool with a loyalty curve over four periods, its value changing: totals, what the pool can pay, leaving a canceled pool, up to what the existential deposit takes or refuses |
| `lm_farm` | passes | two pools that share a farm: stakes and conservation of rewards, dust included |
| `lm_amm` | passes | two users who trade NFTs while the AMM pool and the farm's pools come and go: counters, metadata, share tokens |
| `lbp_sale` | passes | one pool over six relay blocks, set up, postponed, given away, traded with, removed and created again: terms, collectors, locks, limits, and that the owner can leave |
| `duster` | passes | direct and late calls among transfers, reservations and changes of the rules: protection, rewards, and that only dust is taken |
| `exchange_panic` | violation | rounding of matched amounts makes `on_finalize` panic |
| `lm_removed` | violation | a deposit of a removed pool cannot be withdrawn once a pool of the same pair is added |

Bounds of `xyk`: two users, two assets, four units of each asset per user, amounts 1
to 3 (and whatever a user holds, for removals), pools start with at least 2. These
are enough for a pool to be created, traded against in both directions with every
rounding case, donated to before and after its creation, left by one of two
holders, destroyed and created again. `MaxBalance` equals the total supply, as on
chain, where an issuance fits a Balance. Fees are 1/2 and 1/3 so that they are
not rounded to zero on these amounts; `MaxInRatio` is 1 for the same reason. Users are
interchangeable, so users are a symmetry set. `xyk_shares` is the same with three units,
because each step is compared with every abstract one.

Bounds of `exchange` and `exchange_moves`: the pool exists at the start, funded in
halves by the two users (`MCInit`), because its creation is the subject of `xyk`. One
block (`MaxBlocks`); three intentions per pair (`MaxIntentions`), the least for a main
intention that is matched with two, or two main ones that compete for one; at most one
direct call of the pool (`MaxAMMCalls`), enough to move price, reserves and wallets
between registration and resolution. Amounts and pool reserves are chosen so that all
three scenarios, refused limits, a failing second reserve, a revert and a panic occur.
Users are a symmetry set except in `exchange`, which checks liveness. After `MaxBlocks`
blocks, or a panic, nothing happens, so deadlock is not checked there.

Bounds of `market`: two classes, one of them the reserved one, with one token each; wealth
3 against deposits and bonds of 1 and offers of 2, so that an account can afford some
combinations and not others; offers of 1 are refused; a royalty of 50% makes rounding
and double payment visible and one of 101% is refused; two blocks, so that offers
expire.

Bounds of the `lm_` runs: three instances, because one that has everything is out of
reach. `lm_rewards`: one user, one pair, two deposits, four periods, a multiplier of 3/2
(stakes are rounded) and a loyalty curve. `lm_farm`: two pairs on one farm, three periods.
In both the existential deposit is 2, so that some payments are below it and others not and
the accounts of a pool and of a farm are dusted; in the other two it is 1.
`lm_amm`: two users, ids for a farm and two successive pools (`MaxPoolId`), the AMM pool
destroyed and created again; time stands still, since no record depends on it.
Liquidity is added and removed in units of `Units`, backing values are `Backings`.

Bounds of `lbp_sale`: two users, one of whom owns the pool and one of whom trades; both
may collect. Sales of two blocks out of a maximum of three; steps of up to three relay blocks,
so that a sale can be entered in the middle or missed. `MaxBlock` is after the end of
the last possible sale. The repay fee is 1/2 and the target 1 or 2, so that a sale passes
from one fee to the other. The trader starts with one of the
assets only, which may be the accumulated or the sold one.
There is one pair, so the part of `CollectorsAgree` that speaks of two pools is shown by its
theorem only.

Bounds of `duster`: one user, one worker, the treasury (reward and dust account, as in
the runtime), three units of a token, one reward, transfers of 1 and 2. The minimum deposit goes up and
down between 1 and 3, so dust comes and goes without a transfer; a reward of 1 is itself below
the registry's deposit of the native currency, 2.

Fairness: nothing in the XYK, NFT, marketplace and liquidity mining pallets happens by
itself, so their runs assume none. `Exchange` assumes weak fairness of `Resolve`, the steps
of `on_finalize`: it is one function call that the block author runs to its end before
anything else; none is assumed of users, nor that a block ends. `LBP` assumes weak
fairness of `NextBlock`: blocks keep coming. Of the duster no liveness is claimed:
the off-chain duster is in no runtime, a worker acts only on a validator that has a local key,
and nothing in the code keeps a run from being cut short at the same account each time. That
`dust_account` can be called by anybody is what is left.

Type invariants: `TypeOK` of `XYK` and of `Duster` is proved (section 4). In `Exchange`,
`Marketplace`, `LiquidityMining` and `LBP` it is a conjunct of the invariant it matters
most for (`ValueConserved`, `ReservesAgree`, `RewardsConserved`, `LockedFeesAreHeld`): there
it says that no balance and no total is negative.

## 4. Proofs

All theorems hold for every set of users, assets, accounts, classes and tokens and for
all values of the other constants that the named ASSUMEs allow.

| Module | Theorem | States |
|---|---|---|
| `XYK_proofs` | `TypeCorrect` | `Spec => []TypeOK` |
| | `StorageAgrees` | `Spec => []PoolStorageAgrees` |
| | `LivePools` | `Spec => []LivePoolHasReserves` |
| | `ShareValue` | `Spec => ShareValueNeverFalls` |
| | `Destruction` | `Spec => DestructionEmptiesPool` |
| | `Implementation` | `Spec => ImplementsSharePool` |
| `XYKFunds_proofs` | `ValidatedSales` | `Spec => []ValidatedSellExecutes` |
| `Marketplace_proofs` | `Records` | `Spec => []StorageAgrees` |
| | `Migration` | `Spec => []MigrationCannotPanic` |
| | `ProtectedClass` | `Spec => []LMClassIsProtected` |
| | `DepositTokens` | `Spec => []LMTokensAreDeposits` |
| | `Reserves` | `Spec => []ReservesAgree` |
| | `Settlements` | `Spec => SaleIsSettled` |
| `LiquidityMining_proofs` | `FarmRecords` | `Spec => []RecordsAgree` |
| `LBP_proofs` | `Collectors` | `Spec => []CollectorsAgree` |
| | `CollectedFees` | `Spec => []LockIsCollectedFees` |
| | `FixedSale` | `Spec => SaleIsFixed` |
| | `CreationAllowed` | `Spec => CreationStaysAllowed` |
| | `Weights` | `Spec => []RunningSaleHasWeights` |
| | `LockedFees` | `Spec => []LockedFeesAreHeld` |
| | `TradeTerms` | `Spec => TradesKeepLimits` |
| | `RepaymentEnds` | `Spec => RepayFeeEndsOnce` |
| `Duster_proofs` | `TypeCorrectness` | `Spec => []TypeOK` |
| | `Protection` | `Spec => BlacklistedAreNotDusted` |
| | `HonestReward` | `Spec => NoRewardForNothing` |
| | `DustOnly` | `Spec => OnlyDustIsTaken` |

**Sums.** What a total says of its parts is an induction over a finite set. It is written as an
argument about a smallest counterexample: among the subsets for which a claim fails there
is a minimal one (`Minimal`, from the well-foundedness of strict inclusion), and the claim for
that set without one element leads to a contradiction. The models write every total as
`SumFunctionOnSet` of a function, so that these lemmas apply: a sum changes by the
difference at the one argument that changes, grows by a new argument, shrinks by a
removed one, and does not depend on arguments outside the set. `SumFacts` states these facts,
and the library's about finite sets that are used, as definitions, and `Sums` proves their
conjunction (theorem `Facts`). The lemmas of `XYKFunds_proofs`, the two marketplace modules and
`LiquidityMining_proofs` have `SumFacts` as a hypothesis; at the end of `XYKFunds_proofs`,
`Marketplace_proofs` and `LiquidityMining_proofs` stand `INSTANCE Sums` and the theorems, which
cite `Facts`. So no theorem depends on an unproved fact, and the provers do not carry the
library through every step.

**XYK.** The inductive invariant is `IndInv == TypeOK /\ PoolStorageAgrees /\
LivePoolHasReserves`. None of the three is inductive alone: that a removal leaves
the issuance non-negative needs it to equal `total_liquidity`; that the division in
`remove_liquidity` is defined needs a live pool to have shares; that storage stays
consistent when a pool is created needs an absent pool to have issuance zero. The
argument: lemmas on the rounding of each formula (`LiquidityOut`, `OutGivenIn`,
`InGivenOut`, `Fee`), one lemma per way of moving money (`PayInLedger`,
`PayOutLedger`, `SwapLedger`), `OnePool` (a call touches one pool, so it is enough to
look at that one), then one lemma per action. The fees are at most 100%.

**Validated sales.** `validate_sell` compares balances one at a time and does not look for
overflow; that `execute_sell` then succeeds needs a bound on all accounts together,
`NothingCreated`: users and pools hold no more of an asset than its `Supply` at genesis. It
is inductive with `IndInv`: every call moves money between a wallet and a pool account, or
burns the native asset for a discount (`BurnsOnly`). The assumption `SupplyAssumption` says that
the supply at genesis is itself a Balance, as the total issuance that orml-tokens stores is.
The discount is burned before the sale is paid; it cannot take from the amount sold, because the
pool of the sold and the native asset that prices it must exist, so the two differ.

**XYK implements SharePool.** From the invariant of XYK. A call on a pair without the
incentivized asset is a stutter; any other is one step of `SharePool`, with one lemma per
action that names the step. That a removal which takes the last share ends the pool
with nothing on its account is where `LivePoolHasReserves` and the rounding of
`calculate_liquidity_out` are needed.

**Marketplace.** The four properties are inductive together, with the shapes of the
records. The count of a class needs the tokens to be a finite set and that both records
name the same tokens; that a user's mint, burn or destroy_class does not touch the
liquidity mining class needs the class to have kept its type, and that it has kept it
needs that no call creates a class with a reserved id. One lemma per function of the NFT
pallet that other pallets call (`Creation`, `Minting`, `Burning`, `Moving`, `Destroying`);
the calls of the three pallets are instances of these (`MarketplaceRecords_proofs`).

**The money of the marketplace.** `ReservesAgree` needs the record of each class to be right
first: its `total_deposit` is what the deposits of its class and of its tokens add up to, which
depends on who may mint for free (class deposits). Then each call is
one of a few movements: reserve, unreserve, pay, and hand a class to a new owner; an offer made,
withdrawn or accepted changes the named reserve and the sum of the offers by the same
amount. That pallet_uniques' unnamed unreserve never takes named money is the equation
`reserved[a] = named[a] + ClassDeposits(a)`. `Settlements` follows step by step, with a case
for each way in which buyer, seller and author may coincide.

**Liquidity mining.** `RecordsAgree` is inductive with `Shape`, which says that ids are handed
out in order, that the sets counted are finite, and that the NFT ids of all deposits are below
`(nft_sequence + 1) * NftIdBase`. From the last, with pool ids below `NftIdBase`, a new NFT
id is new and names its pool (`Encoding`, `Decoding`). A pool's key is what the metadata of
its id says (`UniqueIds`), so removing one pool cannot take another's metadata, and a
withdrawal deletes metadata only if no pool has its id. The lazy updates keep counts and ids
whatever they compute (`PoolsUpdate`), so the theorem does not depend on the formulas.
One lemma for the calls that change no key (`Elsewhere`), one for each of the others.

**LBP.** `Bijection` (the index names the collector of each pool, one to one), `Locks` (the
lock of a collector is what its pool has paid, other locks are zero) and `Unpaid` (a pool whose
sale has not begun has paid nothing) are inductive together. `Unpaid` is the point: a
change of the collector moves the name and not the lock, which is right only because
it is refused from the first block of the sale on. Prices are arbitrary. `FixedSale` needs in
addition that a sale which is set ends after it starts (`Ranges`). `Pools` (the types of pool
data, weights within bounds, start and end both set or both not) gives `Weights`: an
interpolation between two numbers stays between them, rounding included. `Funds` (all balances are
natural numbers and a collector holds what is locked, except what it owed to itself) is inductive
with these; `TradeEffect` says
once what the four branches of a trade do to the ledger, and `LockedFees`, `TradeTerms` and
`RepaymentEnds` rest on it.

**Duster.** `TypeOK` with `NativeIsFree` (nothing native is reserved in the model) is
inductive; `Protection`, `HonestReward` and `DustOnly` follow step by step from what one transfer
with its dust handler can do to each balance. Lemma `Emptying` says what a `dust_account` that
takes effect does: the account it names held dust, and loses all of it unless it is itself the
account that dust goes to.

Only model-checked: `HolderCanExit`, `OfferCanBeAccepted` and `CanceledDepositsCanLeave`
(ENABLED); `TotalsAddUp`, `StakesAddUp`, `PoolCanPay`, `RewardsConserved` and
`SharesAreHeld`; `FinalizeEnds` and `OwnerCanLeave` (liveness); the properties of
`Exchange`. What a recursive definition computes for every input of a sequence type is also
out of reach of the provers.

## 5. Disagreements between code and its comments

Two disagreements are kept as runs, which TLC ends with a violation:

- `exchange_panic` (`NeverPanics`): the remaining `amount_out` of the main intention is
  its spot value less amounts that were rounded one by one. After two sells of 5 for 1, a
  sell of 3 for 9 would have -1 left, and `on_finalize` panics. `exchange/src/lib.rs:656`:
  "This cannot really happen."
- `lm_removed` (`RemovedDepositsCanLeave`): `withdraw_shares` looks the pool up by farm
  and pair, not by id. After a pool was removed and one for the same pair added, the
  deposits of the first pool cannot be withdrawn; if the new pool holds enough shares, they
  leave through its totals, and the metadata of the removed pool is never deleted. `liquidity-mining/src/lib.rs:1273`: "liq.
  pool was removed - only LP shares will be transferred."

The others were met while modelling and have no run in this project; the models
follow the code. Paths are relative to `src/pallets`.

| Code | What it does | What is said of it |
|---|---|---|
| `xyk/src/lib.rs:399` | the shares issued are the amount added, whatever a share is worth | :347 "Shares are issued with current price." |
| `xyk/src/lib.rs:859` | `validate_buy` compares the native balance with the price and with the discount separately, `execute_buy` takes both from it and may fail | :899 "the execution should not return error" |
| `xyk/src/lib.rs:832` | a discounted buy looks for the pool of the bought asset | :829 "pool for Sell asset and native asset must exist" |
| `exchange/src/direct.rs:147` | `prepare` records transfers after both reserves; if the second fails, `revert` has nothing to undo and the first stays | `direct.rs:310` "Revert all reserved amounts." |
| `exchange/src/lib.rs:630`, `639` | limits of matched intentions are compared before the fee is taken off or added | `tests.rs:929`, `1030`: trade limits "respected for matched intention" |
| `exchange/src/lib.rs:674` | the last intention matched may be larger than what is left of the main one | `README.md:53` "should not happen" |
| `exchange/src/lib.rs:666` | what is left of a buyer's limit is a plain subtraction, which wraps in a release build if the price has moved; the rest is then bought with no effective limit | nothing; for a seller (:665) it saturates |
| `marketplace/src/lib.rs:209` | `withdraw_offer` fails if the token does not exist (any more) | :186-188 "Reverse action to make_offer" |
| `marketplace/src/lib.rs:384` | a price set by an earlier owner stays valid after a transfer or an accepted offer | :112 "Set trading price and allow sell", for the owner |
| `marketplace/src/lib.rs:399` | the royalty is subtracted unless the author is the seller | :394 "if author different from buyer" |
| `marketplace/src/lib.rs:284` | a royalty of 100 is accepted | `types.rs:25` "in range 0-99" |
| `nft/src/lib.rs:336` | anybody can mint in a marketplace class, and the class owner pays the deposit | :149, of transfer: "to prevent creating deposit burden for others" |
| `liquidity-mining/src/lib.rs:1147` | stakes are rounded deposit by deposit | :165 "may be replaced with: total_valued_shares * multiplier" |
| `liquidity-mining/src/lib.rs:1749` | the first deposit of a pool is also paid for periods before it | :44 "rewarded from the next period after he enters" |
| `liquidity-mining/src/lib.rs:965` | the only pool of a farm, when resumed, is paid for the time it was canceled | :928 "NOT rewarded for time it was canceled" |
| `liquidity-mining/src/lib.rs:1604` | a pool added late claims more than the farm has accumulated, and a withdrawal from it fails | :1269 "claim and transfer rewards" |
| `liquidity-mining/src/lib.rs:1714` | unclaimable rewards stay with the pool if the deposit entered or claimed in this period | :1278 "transfer user's unclaimable rewards back" |
| `liquidity-mining/src/lib.rs:1738` | a withdrawal, of a canceled pool too, fails if its reward is below the existential deposit and the owner has nothing of the currency, or if the pool's account lost what it lacks as dust after an earlier payment | :1271 "claim and transfer rewards", "transfer LP shares" |
| `liquidity-mining/src/lib.rs:1625` | `update_liq_pool` returns early for a pool without valued shares, after `claim_from_global_pool` has counted the reward as paid; it stays on the farm's account | :1612 "also transfer `pool_rewareds`" |
| `liquidity-mining/src/lib.rs:1106` | a deposit for a pair without AMM pool is taken in the default asset | :1484 "pot holding all the shares" |
| `lbp/src/lib.rs:426` | a collector is used once per asset; an asset may have several collectors | :348 "Not more than one fee collector per asset possible" |
| `lbp/src/lib.rs:815` | a sale has started in its first block | :811 "now is > pool.start" |
| `lbp/src/lib.rs:768` | weights of 0 and of 100% are refused | :104-107 "the minimum value is 0", "the maximum value is 100_000_000" |
| `lbp/src/lib.rs:858` | a collector that buys the sold asset pays its fee to itself: nothing moves and the lock grows all the same, possibly above what it has | :820 "fees collected and locked in the fee collector account" |
| `duster/src/lib.rs:298` | the transfer of an account's total balance fails if part of it is reserved | :208-209 "the remaining balance is transferred" |

## 6. Not modelled

Every pallet with state of its own is modelled. The definitions map to about a fifth of
the lines under `src/`; the rest is of these kinds:

- **Tests and mocks** (the largest part; those of liquidity mining alone are about 6,800 lines):
  read for what they expect, not modelled.
- **Weights and benchmarks**: generated numbers and measurement code.
- **Runtime configuration** (`runtime/basilisk`, `runtime/testing-basilisk`, XCM included): values of
  `Config` types and total matches over constants of other crates; no state, and no step to
  interleave.
- **Node and RPC**: start-up, command line, networking, read-only queries.
- **Declarations**: `Config` traits, events and error enums. A failing call changes nothing and a
  model does not tell the errors apart.
- **Library pallets** (`pallet_uniques`, `orml_tokens`, balances, the price oracle): modelled from
  their use, as externals, where the pallets depend on what they do; the oracle's hooks do not
  influence the pallets and are left out.

Left out within modelled components:

- overflow of 128-bit products (they fail the call, like any other error), and of the
  counters of farms, pools and deposits;
- XYK's price oracle hooks; the NFT metadata;
- LBP's price formula, a power of a ratio from an external crate: the model allows any amounts;
- existential deposits in LBP, and a collector that is the pool's own account;
- farms with different reward currencies or incentivized assets; an existential deposit of
  share tokens above one unit, which may refuse the withdrawal of a few shares;
- whether dust is collected in the end (section 3);
- locks on balances in `Duster`; the expiry of the worker's lock by time.

## 7. Plan

1. Proofs for `Exchange`: `DealIsCovered` (what `prepare` reserves is what the transfers add up
   to; the amounts are natural because live pools have reserves, which has to be shown
   again for the steps `Exchange` adds to `XYK`), then `PoolKeepsValue` from `ShareValue`.
2. Proofs for liquidity mining: `StakesAddUp` for a bounded number of pools.
3. The composition of LBP and XYK through `DisallowWhenLBPPoolRunning`, with both pools as state.
4. Farms with several reward currencies.
