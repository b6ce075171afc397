------------------------------ MODULE Exchange ------------------------------
(***************************************************************************)
(* The exchange pallet, pallets/exchange/src/lib.rs and direct.rs, over    *)
(* the XYK pools (its AMMPool).                                            *)
(*                                                                         *)
(* sell and buy only register an intention.  on_finalize resolves all of   *)
(* them at the end of the block, when nothing else runs.  It is a loop in  *)
(* which each trade is made or given up separately; the model takes one    *)
(* step per pass of a loop and per part of a direct trade that can fail    *)
(* on its own, `step` saying where on_finalize is.                         *)
(*                                                                         *)
(* Reserved amounts are a ledger of their own.  Accounts exist in every    *)
(* asset, so repatriate_reserved does not fail.                            *)
(***************************************************************************)
EXTENDS MultiCurrency, XYKMath, Sequences, FiniteSets

CONSTANTS
    Users, Assets, NativeAssetId, GetExchangeFee, DiscountedFee,
    MinTradingLimit, MinPoolLiquidity, MaxInRatio, MaxOutRatio, MaxBalance,
    Endowment, Amounts, Limits, Prices,     \* as in XYK
    IntentionAmounts, IntentionLimits, Discounts,   \* the arguments of sell and buy
    MaxIntentions,      \* what an intention counter can hold, 2^32 - 1 in the code
    MaxBlocks,          \* bound on the number of blocks
    MaxAMMCalls         \* bound on the direct calls of the pools

VARIABLES
    share_token, pool_assets, total_liquidity, wallet, reserve, shares, issuance

AMM == INSTANCE XYK

VARIABLES
    intentions,         \* ExchangeAssetsIntentions, by <<asset_in, asset_out>>
    intention_count,    \* ExchangeAssetsIntentionCount, by pair
    reserved,           \* reserved balances of the users
    block,
    amm_calls,          \* how often the pools have been called directly
    step,               \* where on_finalize is; "open" while calls are accepted
    pairs_left,         \* the pairs on_finalize has still to process
    a_in_intentions,    \* main intentions of the pair not yet resolved
    b_in_intentions,    \* the others, without the first to_skip
    intention_copy,     \* the main intention being resolved
    matched,            \* the intentions matched with it, not yet resolved
    settled             \* history: what each intention has paid and received

amm_vars == <<share_token, pool_assets, total_liquidity, wallet, reserve, shares, issuance>>
pool_storage == <<share_token, pool_assets, total_liquidity, shares, issuance>>
storage == <<intentions, intention_count>>
clock == <<block, amm_calls>>
queues == <<pairs_left, a_in_intentions, b_in_intentions>>
vars == <<amm_vars, storage, reserved, clock, step, queues, intention_copy, matched, settled>>

Directions == {d \in Assets \X Assets : d[1] # d[2]}
NoIntention == << >>
Unsettled == [p \in AMM!Pairs |-> [n \in 0..(MaxIntentions - 1) |-> [paid |-> 0, got |-> 0]]]

ExchangeInit ==
    /\ intentions = [d \in Directions |-> << >>]
    /\ intention_count = [p \in AMM!Pairs |-> 0]
    /\ reserved = [u \in Users |-> [a \in Assets |-> 0]]
    /\ block = 0
    /\ amm_calls = 0
    /\ step = "open"
    /\ pairs_left = {}
    /\ a_in_intentions = << >>
    /\ b_in_intentions = << >>
    /\ intention_copy = NoIntention
    /\ matched = << >>
    /\ settled = Unsettled

Init == AMM!Init /\ ExchangeInit

-----------------------------------------------------------------------------
(* Registration *)

\* The id of an intention (a hash of the counter, the account, the block and
\* the pair) is the value of the counter of its pair.
register_intention(who, sell_or_buy, asset_in, asset_out, amount_in, amount_out, limit, discount) ==
    LET p == {asset_in, asset_out}
    IN  /\ intention_count[p] < MaxIntentions
        /\ intentions' = [intentions EXCEPT ![<<asset_in, asset_out>>] =
              Append(@, [who |-> who, sell_or_buy |-> sell_or_buy,
                         asset_in |-> asset_in, asset_out |-> asset_out,
                         amount_in |-> amount_in, amount_out |-> amount_out,
                         trade_limit |-> limit, discount |-> discount,
                         intention_id |-> intention_count[p]])]
        /\ intention_count' = [intention_count EXCEPT ![p] = @ + 1]
        /\ UNCHANGED <<amm_vars, reserved, clock, step, queues, intention_copy, matched, settled>>

Open == step = "open" /\ block < MaxBlocks

sell(who, asset_sell, asset_buy, amount_sell, min_bought, discount) ==
    LET amount_buy == AMM!get_spot_price_unchecked(asset_sell, asset_buy, amount_sell)
    IN  /\ Open
        /\ amount_sell >= MinTradingLimit
        /\ AMM!exists(asset_sell, asset_buy)
        /\ wallet[who][asset_sell] >= amount_sell
        /\ amount_buy # 0
        /\ register_intention(who, "SELL", asset_sell, asset_buy, amount_sell, amount_buy,
                              min_bought, discount)

buy(who, asset_buy, asset_sell, amount_buy, max_sold, discount) ==
    LET amount_sell == AMM!get_spot_price_unchecked(asset_buy, asset_sell, amount_buy)
    IN  /\ Open
        /\ amount_buy >= MinTradingLimit
        /\ AMM!exists(asset_sell, asset_buy)
        /\ amount_sell # 0
        /\ wallet[who][asset_sell] >= amount_sell
        /\ register_intention(who, "BUY", asset_sell, asset_buy, amount_sell, amount_buy,
                              max_sold, discount)

\* Between registration and the end of the block the pools are used directly
\* as well.
AMMCall ==
    /\ Open
    /\ amm_calls < MaxAMMCalls
    /\ amm_calls' = amm_calls + 1
    /\ AMM!Next
    /\ UNCHANGED <<storage, reserved, block, step, queues, intention_copy, matched, settled>>

-----------------------------------------------------------------------------
(* Trades with the pool *)

IsSell(i) == i.sell_or_buy = "SELL"

\* validate_sell or validate_buy of a part of intention i: amount_in or
\* amount_out is what is left of it, limit its limit.
validates(i, amount_in, amount_out, limit) ==
    IF IsSell(i)
    THEN AMM!validate_sell(i.who, i.asset_in, i.asset_out, amount_in, limit, i.discount)
    ELSE AMM!validate_buy(i.who, i.asset_in, i.asset_out, amount_out, limit, i.discount)

amm_transfer(i, amount_in, amount_out) ==
    IF IsSell(i)
    THEN AMM!sell_transfer(i.asset_in, i.asset_out, amount_in, i.discount)
    ELSE AMM!buy_transfer(i.asset_in, i.asset_out, amount_out, i.discount)

verify_intention(i) == validates(i, i.amount_in, i.amount_out, i.trade_limit)

\* History only: intention i has paid and received these amounts.
Settle(history, i, paid, got) ==
    [history EXCEPT ![{i.asset_in, i.asset_out}][i.intention_id] =
        [paid |-> @.paid + paid, got |-> @.got + got]]

CanTrade(i, transfer) == AMM!CanExecute(i.who, i.asset_in, i.asset_out, transfer)

execute_amm_transfer(i, transfer) ==
    /\ AMM!execute(i.who, i.asset_in, i.asset_out, transfer)
    /\ settled' = Settle(settled, i, transfer.amount_in, transfer.amount_out)

\* The trade is made, or an error event is sent and nothing changes.
resolve_single_intention(i) ==
    LET transfer == amm_transfer(i, i.amount_in, i.amount_out)
        possible == verify_intention(i) /\ CanTrade(i, transfer)
    IN  \/ possible /\ execute_amm_transfer(i, transfer)
        \/ ~possible /\ UNCHANGED <<amm_vars, settled>>

-----------------------------------------------------------------------------
(* Direct trades *)

direct_fee(amount) == calculate_pool_trade_fee(amount, GetExchangeFee)

\* Mutant of Held: a buyer's fee is not reserved.
Held_NoFee(i, amount) == amount

\* What is reserved of i's account so that it can give `amount`: a buyer pays
\* the fee on top.
Held(i, amount) == IF IsSell(i) THEN amount ELSE amount + direct_fee(amount)

\* What arrives of it at the account of the other party, j: a seller receives
\* the amount less the fee.
Received(j, amount) == IF IsSell(j) THEN amount - direct_fee(amount) ELSE amount

\* What the pool is sent of it: a buyer who gives to a seller pays both fees,
\* a seller who gives to a buyer none.
PoolFee(i, j, amount) ==
    direct_fee(amount) * (IF IsSell(i) = IsSell(j) THEN 1 ELSE IF IsSell(i) THEN 0 ELSE 2)

\* The transfers recorded for i's side of the trade add up to this.
Sent(i, j, amount) == Received(j, amount) + PoolFee(i, j, amount)

matched_intention == Head(matched)

\* The checks of prepare before anything is reserved.
CanPrepare(from_a, from_b) ==
    /\ wallet[intention_copy.who][intention_copy.asset_in] >= from_a
    /\ wallet[matched_intention.who][intention_copy.asset_out] >= from_b
    /\ direct_fee(from_a) <= from_a
    /\ direct_fee(from_b) <= from_b

CanReserve(i, amount) == wallet[i.who][i.asset_in] >= Held(i, amount)

\* Go on with the next matched intention.
NextMatched ==
    /\ matched' = Tail(matched)
    /\ step' = "match"
    /\ UNCHANGED <<storage, clock, queues>>

\* DirectTradeData::prepare, and the revert that follows when it fails: the
\* transfers revert goes through are recorded only after both amounts have
\* been reserved, so what was reserved for a alone stays reserved.
prepare(from_a, from_b, next) ==
    LET a == intention_copy
        b == matched_intention
        a_can == CanPrepare(from_a, from_b) /\ CanReserve(a, from_a)
        with_a == withdraw(wallet, a.who, a.asset_in, Held(a, from_a))
        held_a == deposit(reserved, a.who, a.asset_in, Held(a, from_a))
    IN  \/ /\ a_can
           /\ CanReserve(b, from_b)
           /\ wallet' = withdraw(with_a, b.who, b.asset_in, Held(b, from_b))
           /\ reserved' = deposit(held_a, b.who, b.asset_in, Held(b, from_b))
           /\ step' = next
           /\ UNCHANGED <<pool_storage, reserve, storage, clock, queues, intention_copy, matched, settled>>
        \/ /\ a_can
           /\ ~CanReserve(b, from_b)
           /\ wallet' = with_a
           /\ reserved' = held_a
           /\ NextMatched
           /\ UNCHANGED <<pool_storage, reserve, intention_copy, settled>>
        \/ /\ ~a_can
           /\ NextMatched
           /\ UNCHANGED <<amm_vars, reserved, intention_copy, settled>>

\* The amounts traded directly: all of the smaller intention.
AmountFromA == IF intention_copy.amount_in > matched_intention.amount_out
               THEN matched_intention.amount_out ELSE intention_copy.amount_in
AmountFromB == IF intention_copy.amount_in < matched_intention.amount_out
               THEN intention_copy.amount_out ELSE matched_intention.amount_in

\* Mutant of PoolAfterFees: the fee of the main intention is not sent.
PoolAfterFees_One(a, b) ==
    deposit(reserve, {a.asset_in, a.asset_out}, b.asset_in, PoolFee(b, a, AmountFromB))

PoolAfterFees(a, b) ==
    LET p == {a.asset_in, a.asset_out}
    IN  deposit(deposit(reserve, p, a.asset_in, PoolFee(a, b, AmountFromA)),
                p, b.asset_in, PoolFee(b, a, AmountFromB))

\* repatriate_reserved for every transfer of the prepared trade.
execute ==
    LET a == intention_copy
        b == matched_intention
        got_b == Received(b, AmountFromA)
        got_a == Received(a, AmountFromB)
    IN  /\ reserved' = withdraw(withdraw(reserved, a.who, a.asset_in, Sent(a, b, AmountFromA)),
                                b.who, b.asset_in, Sent(b, a, AmountFromB))
        /\ wallet' = deposit(deposit(wallet, b.who, a.asset_in, got_b), a.who, b.asset_in, got_a)
        /\ reserve' = PoolAfterFees(a, b)
        /\ settled' = Settle(Settle(settled, a, Sent(a, b, AmountFromA), got_a),
                             b, Sent(b, a, AmountFromB), got_b)
        /\ UNCHANGED pool_storage

\* unreserve for every transfer of the prepared trade.
revert ==
    LET a == intention_copy
        b == matched_intention
    IN  /\ reserved' = withdraw(withdraw(reserved, a.who, a.asset_in, Sent(a, b, AmountFromA)),
                                b.who, b.asset_in, Sent(b, a, AmountFromB))
        /\ wallet' = deposit(deposit(wallet, a.who, a.asset_in, Sent(a, b, AmountFromA)),
                             b.who, b.asset_in, Sent(b, a, AmountFromB))
        /\ UNCHANGED <<pool_storage, reserve, settled>>

-----------------------------------------------------------------------------
(* Resolving one matched intention *)

\* The limit of intention i, if it gives `paid` and the other party `got`.
WithinLimit(i, limit, paid, got) == IF IsSell(i) THEN got >= limit ELSE paid <= limit

Larger == intention_copy.amount_in > matched_intention.amount_out
Smaller == intention_copy.amount_in < matched_intention.amount_out

Panic ==
    /\ step' = "panic"
    /\ UNCHANGED <<amm_vars, storage, reserved, clock, queues, intention_copy, matched, settled>>

GiveUp == NextMatched /\ UNCHANGED <<amm_vars, reserved, intention_copy, settled>>

\* Scenario 1: the matched intention is traded directly, all of it.
MainIsLarger ==
    /\ step = "match"
    /\ matched # << >>
    /\ Larger
    /\ IF WithinLimit(matched_intention, matched_intention.trade_limit, AmountFromB, AmountFromA)
       THEN prepare(AmountFromA, AmountFromB, "direct")
       ELSE GiveUp

\* Scenario 2: the main intention is traded directly, what is left of the
\* matched one with the pool.
MainIsSmaller ==
    LET b == matched_intention
        rest_out_amount == b.amount_out - intention_copy.amount_in
        rest_in_amount == b.amount_in - intention_copy.amount_out
        direct == IF IsSell(b) THEN intention_copy.amount_in ELSE intention_copy.amount_out
        rest_limit == IF b.trade_limit > direct THEN b.trade_limit - direct ELSE 0
    IN  /\ step = "match"
        /\ matched # << >>
        /\ Smaller
        /\ IF rest_in_amount < 0
           THEN Panic
           ELSE IF validates(b, rest_in_amount, rest_out_amount, rest_limit)
           THEN prepare(AmountFromA, AmountFromB, "amm")
           ELSE GiveUp

\* Scenario 3: both are traded directly.  The main intention's limit is that
\* of the whole intention.
MainIsEqual ==
    LET a == Head(a_in_intentions)
        b == matched_intention
    IN  /\ step = "match"
        /\ matched # << >>
        /\ ~Larger
        /\ ~Smaller
        /\ IF /\ WithinLimit(a, a.trade_limit, AmountFromA, AmountFromB)
              /\ WithinLimit(b, b.trade_limit, AmountFromB, AmountFromA)
           THEN prepare(AmountFromA, AmountFromB, "direct")
           ELSE GiveUp

\* Scenario 2, once the direct part is reserved: the trade with the pool is
\* executed as it was validated, or fails and the direct part is reverted.
RestWithPool ==
    LET b == matched_intention
        transfer == amm_transfer(b, b.amount_in - intention_copy.amount_out,
                                    b.amount_out - intention_copy.amount_in)
    IN  /\ step = "amm"
        /\ \/ /\ CanTrade(b, transfer)
              /\ execute_amm_transfer(b, transfer)
              /\ step' = "direct"
              /\ UNCHANGED <<storage, reserved, clock, queues, intention_copy, matched>>
           \/ /\ ~CanTrade(b, transfer)
              /\ revert
              /\ NextMatched
              /\ UNCHANGED intention_copy

\* A buyer's limit is lowered by a plain subtraction, which wraps around in a
\* release build.
LimitLeft(a, b) ==
    IF IsSell(a)
    THEN IF a.trade_limit > b.amount_in THEN a.trade_limit - b.amount_in ELSE 0
    ELSE (a.trade_limit - b.amount_out) % (MaxBalance + 1)

\* Mutant of AfterDirect: an intention that is traded in full is not emptied.
AfterDirect_Kept(a, b) == a

\* What is left of the main intention.
AfterDirect(a, b) ==
    IF Larger THEN [a EXCEPT !.amount_in = @ - b.amount_out,
                             !.amount_out = @ - b.amount_in,
                             !.trade_limit = LimitLeft(a, b)]
              ELSE [a EXCEPT !.amount_in = 0]

DirectTrade ==
    LET a == intention_copy
        b == matched_intention
    IN  /\ step = "direct"
        /\ IF Larger /\ a.amount_out < b.amount_in
           THEN Panic
           ELSE /\ execute
                /\ intention_copy' = AfterDirect(a, b)
                /\ NextMatched

-----------------------------------------------------------------------------
(* on_finalize *)

\* Sorted by amount_in, the largest first; the sort is stable.
Sorted(s) ==
    LET Before(i, j) == \/ s[i].amount_in > s[j].amount_in
                        \/ s[i].amount_in = s[j].amount_in /\ i < j
        Rank(i) == 1 + Cardinality({j \in DOMAIN s : Before(j, i)})
    IN  [k \in DOMAIN s |-> s[CHOOSE i \in DOMAIN s : Rank(i) = k]]

\* The amount_out of the first n intentions of s.
OutOfFirst(s, n) ==
    LET sum[k \in 0..n] == IF k = 0 THEN 0 ELSE sum[k - 1] + s[k].amount_out IN sum[n]

\* Mutant of MatchCount: all of them.
MatchCount_All(s, amount) == Len(s)

\* How many intentions of s are matched with `amount` of a main intention:
\* they are taken while some of the amount is left.
MatchCount(s, amount) == Cardinality({k \in DOMAIN s : OutOfFirst(s, k - 1) < amount})

on_finalize ==
    /\ Open
    /\ step' = "pair"
    /\ pairs_left' = {p \in AMM!Pairs : intention_count[p] > 0}
    /\ UNCHANGED <<amm_vars, storage, reserved, clock, a_in_intentions, b_in_intentions,
                   intention_copy, matched, settled>>

\* The map is iterated in the order of the hashed keys: any order.
NextPair ==
    /\ step = "pair"
    /\ \E d \in Directions :
          /\ d[1] < d[2]
          /\ {d[1], d[2]} \in pairs_left
          /\ pairs_left' = pairs_left \ {{d[1], d[2]}}
          /\ a_in_intentions' = Sorted(intentions[<<d[2], d[1]>>])
          /\ b_in_intentions' = Sorted(intentions[d])
    /\ step' = "main"
    /\ UNCHANGED <<amm_vars, storage, reserved, clock, intention_copy, matched, settled>>

\* Mutant of RefuseMain: the intention is tried again.
RefuseMain_Retry ==
    /\ step = "main"
    /\ a_in_intentions # << >>
    /\ ~verify_intention(Head(a_in_intentions))
    /\ UNCHANGED vars

\* A main intention the pool would refuse is left out, and its share of the
\* others is left to the next one.
RefuseMain ==
    /\ step = "main"
    /\ a_in_intentions # << >>
    /\ ~verify_intention(Head(a_in_intentions))
    /\ a_in_intentions' = Tail(a_in_intentions)
    /\ UNCHANGED <<amm_vars, storage, reserved, clock, step, pairs_left, b_in_intentions,
                   intention_copy, matched, settled>>

MatchMain ==
    LET intention == Head(a_in_intentions)
        n == MatchCount(b_in_intentions, intention.amount_in)
    IN  /\ step = "main"
        /\ a_in_intentions # << >>
        /\ verify_intention(intention)
        /\ intention_copy' = intention
        /\ matched' = SubSeq(b_in_intentions, 1, n)
        /\ b_in_intentions' = SubSeq(b_in_intentions, n + 1, Len(b_in_intentions))
        /\ step' = "match"
        /\ UNCHANGED <<amm_vars, storage, reserved, clock, pairs_left, a_in_intentions, settled>>

\* What is left of the main intention is traded with the pool.
RestOfMain ==
    /\ step = "match"
    /\ matched = << >>
    /\ IF intention_copy.amount_in > 0 THEN resolve_single_intention(intention_copy)
                                       ELSE UNCHANGED <<amm_vars, settled>>
    /\ a_in_intentions' = Tail(a_in_intentions)
    /\ intention_copy' = NoIntention
    /\ step' = "main"
    /\ UNCHANGED <<storage, reserved, clock, pairs_left, b_in_intentions, matched>>

\* So are the intentions that no main intention was matched with.
Unmatched ==
    /\ step = "main"
    /\ a_in_intentions = << >>
    /\ b_in_intentions # << >>
    /\ resolve_single_intention(Head(b_in_intentions))
    /\ b_in_intentions' = Tail(b_in_intentions)
    /\ UNCHANGED <<storage, reserved, clock, step, pairs_left, a_in_intentions,
                   intention_copy, matched>>

PairDone ==
    /\ step = "main"
    /\ a_in_intentions = << >>
    /\ b_in_intentions = << >>
    /\ step' = "pair"
    /\ UNCHANGED <<amm_vars, storage, reserved, clock, queues, intention_copy, matched, settled>>

AllDone == step = "pair" /\ pairs_left = {}

\* The intentions are removed and the next block begins.
Clear ==
    /\ AllDone
    /\ intentions' = [d \in Directions |-> << >>]
    /\ intention_count' = [p \in AMM!Pairs |-> 0]
    /\ settled' = Unsettled
    /\ block' = block + 1
    /\ step' = "open"
    /\ UNCHANGED <<amm_vars, amm_calls, reserved, queues, intention_copy, matched>>

Register ==
    \E who \in Users, a, b \in Assets, amount \in IntentionAmounts,
       limit \in IntentionLimits, discount \in Discounts :
        \/ sell(who, a, b, amount, limit, discount)
        \/ buy(who, a, b, amount, limit, discount)

\* One step of resolving.
Resolve ==
    \/ NextPair \/ RefuseMain \/ MatchMain \/ MainIsLarger \/ MainIsSmaller \/ MainIsEqual
    \/ RestWithPool \/ DirectTrade \/ RestOfMain \/ Unmatched \/ PairDone \/ Clear

Next == Register \/ AMMCall \/ on_finalize \/ Resolve

\* on_finalize runs to its end before anything else does.
Spec == Init /\ [][Next]_vars /\ WF_vars(Resolve)

-----------------------------------------------------------------------------
(* Properties *)

Intention ==
    [who : Users, sell_or_buy : {"SELL", "BUY"}, asset_in : Assets, asset_out : Assets,
     amount_in : AMM!Balance, amount_out : AMM!Balance, trade_limit : AMM!Balance,
     discount : BOOLEAN, intention_id : 0..(MaxIntentions - 1)]

TypeOK ==
    /\ AMM!TypeOK
    /\ intentions \in [Directions -> Seq(Intention)]
    /\ intention_count \in [AMM!Pairs -> 0..MaxIntentions]
    /\ reserved \in [Users -> [Assets -> AMM!Balance]]
    /\ block \in 0..MaxBlocks
    /\ amm_calls \in 0..MaxAMMCalls
    /\ step \in {"open", "pair", "main", "match", "amm", "direct", "panic"}
    /\ pairs_left \subseteq AMM!Pairs
    /\ a_in_intentions \in Seq(Intention)
    /\ b_in_intentions \in Seq(Intention)
    /\ intention_copy \in Intention \cup {NoIntention}
    /\ matched \in Seq(Intention)
    /\ settled \in [AMM!Pairs -> [0..(MaxIntentions - 1) -> [paid : Nat, got : Nat]]]

\* When a direct trade is executed or reverted, prepare has reserved at least
\* what its transfers add up to, in all four combinations of sellers and
\* buyers and also after the trade with the pool came in between: the result
\* of execute, which the callers ignore, is never a failure half way.
DealIsCovered ==
    step \in {"amm", "direct"} =>
        LET a == intention_copy
            b == matched_intention
        IN  /\ reserved[a.who][a.asset_in] >= Sent(a, b, AmountFromA)
            /\ reserved[b.who][b.asset_in] >= Sent(b, a, AmountFromB)

\* Once the main intention is used up no matched intention is left.  Scenarios
\* 2 and 3 leave its amount_out as it was: one more matched intention would be
\* paid out of it for nothing.  It rests on which intentions
\* process_exchange_intentions takes, and on what resolving them, or giving
\* some of them up, leaves of the main one.
ExhaustedMainIsLast ==
    step = "match" /\ intention_copy.amount_in = 0 => matched = << >>

Sum(S, f(_)) ==
    LET g[T \in SUBSET S] == IF T = {} THEN 0
                             ELSE LET x == CHOOSE x \in T : TRUE IN f(x) + g[T \ {x}]
    IN  g[S]

Total(asset) ==
    LET Of(u) == wallet[u][asset] + reserved[u][asset]
        In(p) == reserve[p][asset]
    IN  Sum(Users, Of) + Sum(AMM!Pairs, In)

\* No asset is created or lost by matching, reserving, reverting and paying
\* fees: free and reserved balances and pools add up to what there was at
\* genesis; only the native asset can become less, by discounts.  No balance
\* is negative (TypeOK).
ValueConserved ==
    /\ TypeOK
    /\ \A asset \in Assets :
          LET Given(u) == Endowment[u][asset]
          IN  /\ Total(asset) <= Sum(Users, Given)
              /\ asset # NativeAssetId => Total(asset) = Sum(Users, Given)

Registered == UNION {{intentions[d][k] : k \in DOMAIN intentions[d]} : d \in Directions}
Outcome(i) == settled[{i.asset_in, i.asset_out}][i.intention_id]

\* However it is split over direct trades and the pool, a sell intention never
\* costs its owner more than the amount it was registered with: no part of it
\* is resolved twice.
SellerPaysAtMostAmount ==
    \A i \in Registered : IsSell(i) => Outcome(i).paid <= i.amount_in

\* Resolving intentions never lowers the value of the shares of a pool, as no
\* call of the pool does: fees of direct trades only add to the reserves.
PoolKeepsValue == [][AMM!ShareValueStep]_vars

\* on_finalize comes to an end, with no intention left for the next block.
FinalizeEnds == step = "pair" ~> (step = "panic" \/ (step = "open" /\ Registered = {}))

\* "This cannot really happen" (resolve_matched_intentions): if the main
\* intention is the larger (smaller) one in one asset, it is so in the other.
NeverPanics == step # "panic"

=============================================================================
