---------------------------- MODULE XYK_proofs ----------------------------
(***************************************************************************)
(* Proofs about the XYK pallet, for every set of users and assets, every   *)
(* fee and every limit the assumptions of module XYK allow: the lemmas     *)
(* they rest on (the rounding of the formulas, the movements on the        *)
(* ledger, and that a call concerns one pool only), the safety of the      *)
(* pallet, and that it implements SharePool.                               *)
(***************************************************************************)
EXTENDS XYKShares, TLAPS

-----------------------------------------------------------------------------
(* Arithmetic *)

\* Floor division: what all the formulas of XYKMath rest on.
LEMMA Floor ==
    ASSUME NEW n \in Nat, NEW d \in Nat, d > 0
    PROVE  /\ n \div d \in Nat
           /\ (n \div d) * d <= n
           /\ n < (n \div d) * d + d
  OBVIOUS

\* Removing s of t shares takes at most the shares' part of a reserve r ...
LEMMA LiquidityOutPart ==
    ASSUME NEW r \in Nat, NEW s \in Nat, NEW t \in Nat, t > 0, s <= t
    PROVE  /\ calculate_liquidity_out(r, s, t) \in Nat
           /\ calculate_liquidity_out(r, s, t) * t <= r * s
           /\ r * s < calculate_liquidity_out(r, s, t) * t + t
           /\ (r - calculate_liquidity_out(r, s, t)) * t >= r * (t - s)
  <1> DEFINE q == calculate_liquidity_out(r, s, t)
  <1>1. r * s \in Nat
    OBVIOUS
  <1>2. /\ q \in Nat
        /\ q * t <= r * s
        /\ r * s < q * t + t
    BY <1>1, Floor, Zenon DEF calculate_liquidity_out
  <1> HIDE DEF q
  <1>3. (r - q) * t >= r * (t - s)
    BY <1>2
  <1> QED
    BY <1>2, <1>3, Zenon DEF q

\* ... all of it if s = t, and not all of it if s < t.
LEMMA LiquidityOut ==
    ASSUME NEW r \in Nat, NEW s \in Nat, NEW t \in Nat, t > 0, s <= t
    PROVE  /\ s = t => calculate_liquidity_out(r, s, t) = r
           /\ s < t /\ r > 0 => calculate_liquidity_out(r, s, t) < r
  <1> DEFINE q == calculate_liquidity_out(r, s, t)
  <1>1. /\ q \in Nat
        /\ q * t <= r * s
        /\ r * s < q * t + t
    BY LiquidityOutPart, Zenon
  <1> HIDE DEF q
  <1>2. s = t => q = r
    BY <1>1
  <1>3. s < t /\ r > 0 => q < r
    BY <1>1
  <1> QED
    BY <1>2, <1>3, Zenon DEF q

\* Selling x into reserves (i, o): the pool keeps the product even if it
\* gives out everything the formula allows.
LEMMA OutGivenIn ==
    ASSUME NEW i \in Nat, NEW o \in Nat, NEW x \in Nat, i + x > 0
    PROVE  LET q == calculate_out_given_in(i, o, x)
           IN  /\ q \in Nat
               /\ q * (i + x) <= o * x
  <1>1. o * x \in Nat /\ i + x \in Nat
    OBVIOUS
  <1> QED
    BY <1>1, Floor, Zenon DEF calculate_out_given_in

LEMMA InGivenOut ==
    ASSUME NEW o \in Nat, NEW i \in Nat, NEW x \in Nat, o > x
    PROVE  LET q == calculate_in_given_out(o, i, x)
           IN  /\ q \in Nat
               /\ q > 0
               /\ i * x < q * (o - x)
  <1> DEFINE m == (i * x) \div (o - x)
  <1>1. i * x \in Nat /\ o - x \in Nat /\ o - x > 0
    OBVIOUS
  <1>2. /\ m \in Nat
        /\ i * x < m * (o - x) + (o - x)
    BY <1>1, Floor, Zenon
  <1> HIDE DEF m
  <1>3. m * (o - x) + (o - x) = (m + 1) * (o - x)
    BY <1>1, <1>2
  <1> QED
    BY <1>1, <1>2, <1>3 DEF calculate_in_given_out, m

\* A fee of at most 100% never exceeds the amount it is taken from.
LEMMA Fee ==
    ASSUME NEW amount \in Nat, NEW discount \in BOOLEAN
    PROVE  /\ trade_fee(amount, discount) \in Nat
           /\ trade_fee(amount, discount) <= amount
  <1> DEFINE fee == IF discount THEN DiscountedFee ELSE GetExchangeFee
  <1>1. PICK n \in Nat, d \in Nat \ {0} : fee = <<n, d>>
    BY FeeAssumption
  <1>2. n <= d
    BY <1>1, FeeAssumption
  <1> DEFINE m == amount \div d
  <1>3. m \in Nat /\ m * d <= amount
    BY Floor
  <1>4. trade_fee(amount, discount) = m * n
    BY <1>1 DEF trade_fee, calculate_pool_trade_fee
  <1> HIDE DEF m
  <1>5. m * n \in Nat /\ m * n <= m * d
    BY <1>2, <1>3
  <1> QED
    BY <1>3, <1>4, <1>5

\* If each reserve keeps at least the part u / t, their product keeps at
\* least the part (u / t)^2.
LEMMA ProductOfParts ==
    ASSUME NEW r \in Nat, NEW s \in Nat, NEW x \in Nat, NEW y \in Nat, NEW t \in Nat, NEW u \in Nat,
           x * t >= r * u, y * t >= s * u
    PROVE  (x * y) * (t * t) >= (r * s) * (u * u)
  <1>1. x * t \in Nat /\ r * u \in Nat /\ y * t \in Nat /\ s * u \in Nat
    OBVIOUS
  <1>2. (x * t) * (y * t) >= (r * u) * (s * u)
    <2>1. ASSUME NEW k \in Nat, NEW l \in Nat, NEW m \in Nat, NEW n \in Nat, k >= l, m >= n
          PROVE  k * m >= l * n
      BY <2>1
    <2> QED
      BY <1>1, <2>1, Zenon
  <1>3. (x * t) * (y * t) = (x * y) * (t * t)
    OBVIOUS
  <1>4. (r * u) * (s * u) = (r * s) * (u * u)
    OBVIOUS
  <1> QED
    BY <1>2, <1>3, <1>4, Zenon

-----------------------------------------------------------------------------
(* Ledgers *)

LEMMA PairOfAssets ==
    ASSUME NEW a, NEW b, get_pair_id(a, b) \in Pairs
    PROVE  a \in Assets /\ b \in Assets /\ a # b
  BY Zenon DEF get_pair_id, Pairs

LEMMA WithdrawLedger ==
    ASSUME NEW f \in [Users -> [Assets -> Balance]], NEW who \in Users, NEW a \in Assets,
           NEW x \in Nat, f[who][a] >= x
    PROVE  withdraw(f, who, a, x) \in [Users -> [Assets -> Balance]]
  BY LimitAssumption DEF withdraw, Balance

LEMMA WithdrawShares ==
    ASSUME NEW f \in [Pairs -> [Users -> Balance]], NEW p \in Pairs, NEW who \in Users,
           NEW x \in Nat, f[p][who] >= x
    PROVE  withdraw(f, p, who, x) \in [Pairs -> [Users -> Balance]]
  BY LimitAssumption DEF withdraw, Balance

LEMMA TwoWithdrawals ==
    ASSUME NEW f \in [Users -> [Assets -> Balance]], NEW who \in Users,
           NEW a \in Assets, NEW b \in Assets, a # b,
           NEW x \in Nat, NEW y \in Nat, f[who][a] >= x, f[who][b] >= y
    PROVE  withdraw(withdraw(f, who, a, x), who, b, y) \in [Users -> [Assets -> Balance]]
  BY LimitAssumption DEF withdraw, Balance

\* What a call does to one pool's account, the others untouched.
ReserveBecomes(a, b, new_a, new_b) ==
    LET p == get_pair_id(a, b)
    IN  /\ reserve' \in [Pairs -> [Assets -> Balance]]
        /\ reserve'[p][a] = new_a
        /\ reserve'[p][b] = new_b
        /\ \A r \in Pairs : r # p => reserve'[r] = reserve[r]

LEMMA PayInLedger ==
    ASSUME TypeOK,
           NEW who \in Users, NEW a, NEW b, get_pair_id(a, b) \in Pairs,
           NEW x \in Nat, NEW y \in Nat, NEW minted \in Nat,
           wallet[who][a] >= x, wallet[who][b] >= y,
           PayIn(who, get_pair_id(a, b), a, x, b, y, minted)
    PROVE  LET p == get_pair_id(a, b)
           IN  /\ wallet' \in [Users -> [Assets -> Balance]]
               /\ shares' \in [Pairs -> [Users -> Balance]]
               /\ issuance' \in [Pairs -> Balance]
               /\ issuance'[p] = issuance[p] + minted
               /\ \A r \in Pairs : r # p => issuance'[r] = issuance[r]
               /\ ReserveBecomes(a, b, reserve[p][a] + x, reserve[p][b] + y)
  <1> DEFINE p == get_pair_id(a, b)
  <1>1. a \in Assets /\ b \in Assets /\ a # b /\ p \in Pairs
    BY PairOfAssets, Zenon
  <1>2. /\ wallet \in [Users -> [Assets -> Balance]]
        /\ reserve \in [Pairs -> [Assets -> Balance]]
        /\ shares \in [Pairs -> [Users -> Balance]]
        /\ issuance \in [Pairs -> Balance]
    BY Zenon DEF TypeOK
  <1>3. /\ Fits(reserve[p][a] + x)
        /\ Fits(reserve[p][b] + y)
        /\ Fits(issuance[p] + minted)
        /\ Fits(shares[p][who] + minted)
        /\ wallet' = withdraw(withdraw(wallet, who, a, x), who, b, y)
        /\ reserve' = deposit(deposit(reserve, p, a, x), p, b, y)
        /\ shares' = deposit(shares, p, who, minted)
        /\ issuance' = [issuance EXCEPT ![p] = @ + minted]
    BY Zenon DEF PayIn
  <1> HIDE DEF p
  <1>4. wallet' \in [Users -> [Assets -> Balance]]
    BY <1>1, <1>2, <1>3, TwoWithdrawals, Zenon
  <1>5. /\ reserve' \in [Pairs -> [Assets -> Balance]]
        /\ reserve'[p][a] = reserve[p][a] + x
        /\ reserve'[p][b] = reserve[p][b] + y
        /\ \A r \in Pairs, c \in Assets : r # p => reserve'[r][c] = reserve[r][c]
    BY <1>1, <1>2, <1>3, LimitAssumption, SMTT(30) DEF deposit, Balance, Fits
  <1>6. \A r \in Pairs : r # p => reserve'[r] = reserve[r]
    BY <1>2, <1>5
  <1>7. shares' \in [Pairs -> [Users -> Balance]]
    BY <1>1, <1>2, <1>3, LimitAssumption DEF deposit, Balance, Fits
  <1>8. /\ issuance' \in [Pairs -> Balance]
        /\ issuance'[p] = issuance[p] + minted
        /\ \A r \in Pairs : r # p => issuance'[r] = issuance[r]
    BY <1>1, <1>2, <1>3, LimitAssumption DEF Fits, Balance
  <1> QED
    BY <1>4, <1>5, <1>6, <1>7, <1>8, Zenon DEF p, ReserveBecomes

LEMMA PayOutLedger ==
    ASSUME TypeOK,
           NEW who \in Users, NEW a, NEW b, get_pair_id(a, b) \in Pairs,
           NEW x \in Nat, NEW y \in Nat,
           LET p == get_pair_id(a, b)
           IN  /\ reserve[p][a] >= x
               /\ reserve[p][b] >= y
               /\ Fits(wallet[who][a] + x)
               /\ Fits(wallet[who][b] + y)
               /\ reserve' = withdraw(withdraw(reserve, p, a, x), p, b, y)
               /\ wallet' = deposit(deposit(wallet, who, a, x), who, b, y)
    PROVE  LET p == get_pair_id(a, b)
           IN  /\ wallet' \in [Users -> [Assets -> Balance]]
               /\ ReserveBecomes(a, b, reserve[p][a] - x, reserve[p][b] - y)
  <1> DEFINE p == get_pair_id(a, b)
  <1>1. a \in Assets /\ b \in Assets /\ a # b /\ p \in Pairs
    BY PairOfAssets, Zenon
  <1>2. /\ wallet \in [Users -> [Assets -> Balance]]
        /\ reserve \in [Pairs -> [Assets -> Balance]]
    BY Zenon DEF TypeOK
  <1> HIDE DEF p
  <1>3. wallet' \in [Users -> [Assets -> Balance]]
    BY <1>1, <1>2, LimitAssumption DEF deposit, Balance, Fits
  <1>4. /\ reserve' \in [Pairs -> [Assets -> Balance]]
        /\ reserve'[p][a] = reserve[p][a] - x
        /\ reserve'[p][b] = reserve[p][b] - y
        /\ \A r \in Pairs, c \in Assets : r # p => reserve'[r][c] = reserve[r][c]
    BY <1>1, <1>2, LimitAssumption DEF withdraw, Balance, p
  <1>5. \A r \in Pairs : r # p => reserve'[r] = reserve[r]
    BY <1>2, <1>4
  <1> QED
    BY <1>3, <1>4, <1>5, Zenon DEF p, ReserveBecomes

LEMMA SwapLedger ==
    ASSUME TypeOK,
           NEW who \in Users, NEW a, NEW b, get_pair_id(a, b) \in Pairs,
           NEW x \in Nat, NEW y \in Nat, NEW z \in Nat,
           reserve[get_pair_id(a, b)][b] >= y,
           wallet[who][NativeAssetId] >= z,
           Swap(who, a, b, x, y, z)
    PROVE  LET p == get_pair_id(a, b)
           IN  /\ wallet' \in [Users -> [Assets -> Balance]]
               /\ ReserveBecomes(a, b, reserve[p][a] + x, reserve[p][b] - y)
  <1> DEFINE p == get_pair_id(a, b)
             burnt == withdraw(wallet, who, NativeAssetId, z)
  <1>1. a \in Assets /\ b \in Assets /\ a # b /\ p \in Pairs
    BY PairOfAssets, Zenon
  <1>2. /\ wallet \in [Users -> [Assets -> Balance]]
        /\ reserve \in [Pairs -> [Assets -> Balance]]
    BY Zenon DEF TypeOK
  <1>3. /\ burnt[who][a] >= x
        /\ Fits(reserve[p][a] + x)
        /\ Fits(burnt[who][b] + y)
        /\ wallet' = deposit(withdraw(burnt, who, a, x), who, b, y)
        /\ reserve' = withdraw(deposit(reserve, p, a, x), p, b, y)
    BY Zenon DEF Swap, CanSwap
  <1>4. burnt \in [Users -> [Assets -> Balance]]
    BY <1>2, AssetsAssumption, WithdrawLedger, Zenon
  <1> HIDE DEF p, burnt
  <1>5. wallet' \in [Users -> [Assets -> Balance]]
    BY <1>1, <1>3, <1>4, LimitAssumption, SMTT(30) DEF deposit, withdraw, Balance, Fits
  <1>6. /\ reserve' \in [Pairs -> [Assets -> Balance]]
        /\ reserve'[p][a] = reserve[p][a] + x
        /\ reserve'[p][b] = reserve[p][b] - y
        /\ \A r \in Pairs, c \in Assets : r # p => reserve'[r][c] = reserve[r][c]
    BY <1>1, <1>2, <1>3, LimitAssumption DEF deposit, withdraw, Balance, Fits, p
  <1>7. \A r \in Pairs : r # p => reserve'[r] = reserve[r]
    BY <1>2, <1>6
  <1> QED
    BY <1>5, <1>6, <1>7, Zenon DEF p, ReserveBecomes

-----------------------------------------------------------------------------
(* The inductive invariant, one pool at a time *)

IndInv == TypeOK /\ PoolStorageAgrees /\ LivePoolHasReserves

\* PoolStorageAgrees and LivePoolHasReserves for one pair.
PoolOK(p) ==
    /\ p \in share_token <=> total_liquidity[p] > 0
    /\ IF p \in share_token
       THEN \E a, b \in Assets : pool_assets[p] = <<a, b>> /\ p = {a, b}
       ELSE pool_assets[p] = << >>
    /\ total_liquidity[p] = issuance[p]
    /\ p \in share_token => \A a \in p : reserve[p][a] > 0

\* A call on pool p leaves every other pool alone.
OthersUnchanged(p) ==
    \A r \in Pairs : r # p =>
        /\ r \in share_token' <=> r \in share_token
        /\ pool_assets'[r] = pool_assets[r]
        /\ total_liquidity'[r] = total_liquidity[r]
        /\ issuance'[r] = issuance[r]
        /\ reserve'[r] = reserve[r]

\* ShareValueStep and DestructionStep for the pool of a and b.
PoolStep(a, b) ==
    LET p == get_pair_id(a, b)
        t == total_liquidity[p]
        u == total_liquidity'[p]
    IN  /\ p \in share_token /\ p \in share_token' /\ u <= t
              => (reserve'[p][a] * reserve'[p][b]) * (t * t)
                    >= (reserve[p][a] * reserve[p][b]) * (u * u)
        /\ p \in share_token /\ p \notin share_token'
              => reserve'[p][a] = 0 /\ reserve'[p][b] = 0

\* It is enough to look at the pool a call is about.
LEMMA OnePool ==
    ASSUME IndInv, TypeOK', NEW a, NEW b, get_pair_id(a, b) \in Pairs,
           OthersUnchanged(get_pair_id(a, b)), PoolOK(get_pair_id(a, b))', PoolStep(a, b)
    PROVE  IndInv' /\ ShareValueStep /\ DestructionStep
  <1> DEFINE p == get_pair_id(a, b)
  <1>1. p \in Pairs /\ p = {a, b}
    BY Zenon DEF get_pair_id
  <1>2. \A r \in Pairs : PoolOK(r)'
    <2> SUFFICES ASSUME NEW r \in Pairs, r # p
                 PROVE  PoolOK(r)'
      OBVIOUS
    <2>1. PoolOK(r)
      BY Zenon DEF IndInv, PoolStorageAgrees, LivePoolHasReserves, PoolOK
    <2> QED
      BY <2>1, Zenon DEF OthersUnchanged, PoolOK
  <1>3. PoolStorageAgrees' /\ LivePoolHasReserves'
    BY <1>2, Zenon DEF PoolStorageAgrees, LivePoolHasReserves, PoolOK, TypeOK
  <1>4. ShareValueStep
    <2> SUFFICES ASSUME NEW c \in Assets, NEW d \in Assets,
                        get_pair_id(c, d) \in share_token,
                        get_pair_id(c, d) \in share_token',
                        total_liquidity'[get_pair_id(c, d)] <= total_liquidity[get_pair_id(c, d)]
                 PROVE  LET r == get_pair_id(c, d)
                        IN  (reserve'[r][c] * reserve'[r][d])
                                  * (total_liquidity[r] * total_liquidity[r])
                              >= (reserve[r][c] * reserve[r][d])
                                  * (total_liquidity'[r] * total_liquidity'[r])
      BY Zenon DEF ShareValueStep
    <2> DEFINE r == get_pair_id(c, d)
    <2>1. /\ r \in Pairs
          /\ \A e \in {c, d} : /\ reserve[r][e] \in Nat
                               /\ reserve'[r][e] \in Nat
          /\ total_liquidity[r] \in Nat
          /\ total_liquidity'[r] \in Nat
      BY LimitAssumption DEF IndInv, TypeOK, Balance
    <2>2. CASE r # p
      <3>1. reserve'[r] = reserve[r] /\ total_liquidity'[r] = total_liquidity[r]
        BY <2>1, <2>2, Zenon DEF OthersUnchanged
      <3> HIDE DEF r
      <3> QED
        BY <2>1, <3>1 DEF r
    <2>3. CASE c = a /\ d = b
      BY <2>3, Zenon DEF PoolStep
    <2>4. CASE c = b /\ d = a
      <3>1. r = p
        BY <2>4, Zenon DEF get_pair_id
      <3>2. (reserve'[p][a] * reserve'[p][b]) * (total_liquidity[p] * total_liquidity[p])
              >= (reserve[p][a] * reserve[p][b]) * (total_liquidity'[p] * total_liquidity'[p])
        BY <3>1, Zenon DEF PoolStep
      <3>3. /\ reserve'[p][a] * reserve'[p][b] = reserve'[p][b] * reserve'[p][a]
            /\ reserve[p][a] * reserve[p][b] = reserve[p][b] * reserve[p][a]
        BY <2>1, <2>4, <3>1
      <3> QED
        BY <2>4, <3>1, <3>2, <3>3, Zenon
    <2> QED
      BY <2>2, <2>3, <2>4, Zenon DEF get_pair_id
  <1>5. DestructionStep
    BY <1>1, Zenon DEF DestructionStep, OthersUnchanged, PoolStep
  <1> QED
    BY <1>3, <1>4, <1>5, Zenon DEF IndInv

LEMMA PoolTypes ==
    ASSUME TypeOK, NEW a, NEW b, get_pair_id(a, b) \in Pairs
    PROVE  LET p == get_pair_id(a, b)
           IN  /\ reserve[p][a] \in Nat
               /\ reserve[p][b] \in Nat
               /\ total_liquidity[p] \in Nat
               /\ issuance[p] \in Nat
  BY PairOfAssets, LimitAssumption DEF TypeOK, Balance

LEMMA LivePair ==
    ASSUME IndInv, NEW a, NEW b, exists(a, b)
    PROVE  LET p == get_pair_id(a, b)
           IN  /\ p \in Pairs
               /\ total_liquidity[p] > 0
               /\ total_liquidity[p] = issuance[p]
               /\ reserve[p][a] > 0
               /\ reserve[p][b] > 0
               /\ PoolOK(p)
  <1> DEFINE p == get_pair_id(a, b)
  <1>1. p \in Pairs /\ p \in share_token /\ a \in p /\ b \in p
    BY Zenon DEF IndInv, TypeOK, exists, get_pair_id
  <1>2. PoolOK(p)
    BY <1>1, Zenon DEF IndInv, PoolStorageAgrees, LivePoolHasReserves, PoolOK
  <1> QED
    BY <1>1, <1>2, Zenon DEF PoolOK

-----------------------------------------------------------------------------
(* The actions *)

LEMMA NewPool ==
    ASSUME IndInv, NEW who \in Users, NEW a \in Assets, NEW b \in Assets,
           NEW amount \in Amounts, NEW price \in Prices,
           create_pool(who, a, b, amount, price)
    PROVE  IndInv' /\ ShareValueStep /\ DestructionStep
  <1> DEFINE p == get_pair_id(a, b)
             asset_b_amount == (price[1] * amount) \div price[2]
             shares_added == SharesAdded(a, b, amount, asset_b_amount)
  <1>1. p \in Pairs /\ p \notin share_token /\ a # b /\ p = {a, b}
    BY Zenon DEF create_pool, exists, get_pair_id, Pairs
  <1>2. amount \in Nat /\ asset_b_amount \in Nat
    <2>1. PICK n \in Nat, d \in Nat \ {0} : price = <<n, d>>
      BY ArgumentAssumption
    <2>2. amount \in Nat
      BY ArgumentAssumption, LimitAssumption DEF Balance
    <2>3. n * amount \in Nat
      BY <2>2
    <2> QED
      BY <2>1, <2>2, <2>3, Floor
  <1>3. /\ Fits(asset_b_amount)
        /\ amount >= MinPoolLiquidity
        /\ asset_b_amount >= MinPoolLiquidity
        /\ wallet[who][a] >= amount
        /\ wallet[who][b] >= asset_b_amount
        /\ share_token' = share_token \cup {p}
        /\ pool_assets' = [pool_assets EXCEPT ![p] = <<a, b>>]
        /\ PayIn(who, p, a, amount, b, asset_b_amount, shares_added)
        /\ total_liquidity' = [total_liquidity EXCEPT ![p] = shares_added]
    BY Zenon DEF create_pool, SufficientLiquidity
  <1> HIDE DEF asset_b_amount
  <1>4. /\ shares_added \in Balance
        /\ shares_added \in Nat
        /\ shares_added > 0
        /\ amount > 0
        /\ asset_b_amount > 0
    BY <1>2, <1>3, ArgumentAssumption, LimitAssumption DEF SharesAdded, Balance, Fits
  <1> HIDE DEF shares_added
  <1>5. /\ wallet' \in [Users -> [Assets -> Balance]]
        /\ shares' \in [Pairs -> [Users -> Balance]]
        /\ issuance' \in [Pairs -> Balance]
        /\ issuance'[p] = issuance[p] + shares_added
        /\ \A r \in Pairs : r # p => issuance'[r] = issuance[r]
        /\ ReserveBecomes(a, b, reserve[p][a] + amount, reserve[p][b] + asset_b_amount)
    BY <1>1, <1>2, <1>3, <1>4, PayInLedger, Zenon DEF IndInv
  <1>6. TypeOK'
    BY <1>1, <1>3, <1>4, <1>5, Zenon DEF IndInv, TypeOK, ReserveBecomes
  <1>7. OthersUnchanged(p)
    BY <1>1, <1>3, <1>5, Zenon DEF IndInv, TypeOK, OthersUnchanged, ReserveBecomes
  <1>8. PoolOK(p)'
    <2>1. issuance[p] = 0
      BY <1>1, LimitAssumption DEF IndInv, PoolStorageAgrees, TypeOK, Balance
    <2>2. /\ total_liquidity'[p] = shares_added
          /\ issuance'[p] = shares_added
          /\ pool_assets'[p] = <<a, b>>
          /\ p \in share_token'
      BY <1>1, <1>3, <1>4, <1>5, <2>1 DEF IndInv, TypeOK, Balance
    <2>3. \A c \in p : reserve'[p][c] > 0
      <3>1. reserve[p][a] \in Nat /\ reserve[p][b] \in Nat
        BY <1>1, PoolTypes, Zenon DEF IndInv
      <3>2. /\ reserve'[p][a] = reserve[p][a] + amount
            /\ reserve'[p][b] = reserve[p][b] + asset_b_amount
        BY <1>5, Zenon DEF ReserveBecomes
      <3> QED
        BY <1>1, <1>2, <1>4, <3>1, <3>2
    <2> QED
      BY <1>1, <1>4, <2>2, <2>3, Zenon DEF PoolOK
  <1>9. PoolStep(a, b)
    BY <1>1, <1>3, Zenon DEF PoolStep
  <1> QED
    BY <1>1, <1>6, <1>7, <1>8, <1>9, OnePool, Zenon

LEMMA MoreLiquidity ==
    ASSUME IndInv, NEW who \in Users, NEW a \in Assets, NEW b \in Assets,
           NEW amount \in Amounts, NEW limit \in Limits,
           add_liquidity(who, a, b, amount, limit)
    PROVE  IndInv' /\ ShareValueStep /\ DestructionStep
  <1> DEFINE p == get_pair_id(a, b)
             amount_b == calculate_liquidity_in(reserve[p][a], reserve[p][b], amount)
             shares_added == SharesAdded(a, b, amount, amount_b)
  <1>1. /\ exists(a, b)
        /\ wallet[who][a] >= amount
        /\ wallet[who][b] >= limit
        /\ Fits(amount_b)
        /\ amount_b <= limit
        /\ shares_added # 0
        /\ Fits(total_liquidity[p] + shares_added)
        /\ PayIn(who, p, a, amount, b, amount_b, shares_added)
        /\ total_liquidity' = [total_liquidity EXCEPT ![p] = @ + shares_added]
        /\ UNCHANGED <<share_token, pool_assets>>
    BY Zenon DEF add_liquidity
  <1>2. /\ p \in Pairs
        /\ p = {a, b}
        /\ p \in share_token
        /\ total_liquidity[p] > 0
        /\ total_liquidity[p] = issuance[p]
        /\ reserve[p][a] > 0
        /\ reserve[p][b] > 0
        /\ PoolOK(p)
    BY <1>1, LivePair, Zenon DEF exists, get_pair_id
  <1>3. /\ reserve[p][a] \in Nat
        /\ reserve[p][b] \in Nat
        /\ total_liquidity[p] \in Nat
    BY <1>2, PoolTypes, Zenon DEF IndInv
  <1>4. amount \in Nat /\ amount_b \in Nat /\ limit \in Nat
    <2>1. amount \in Nat /\ limit \in Nat
      BY ArgumentAssumption, LimitAssumption DEF Balance
    <2>2. amount * reserve[p][b] \in Nat
      BY <1>3, <2>1
    <2> QED
      BY <1>2, <1>3, <2>1, <2>2, Floor, Zenon DEF calculate_liquidity_in
  <1> HIDE DEF amount_b
  <1>5. shares_added \in Nat /\ shares_added > 0
    BY <1>1, <1>4 DEF SharesAdded
  <1>6. wallet[who][b] >= amount_b
    BY <1>1, <1>4, LimitAssumption DEF IndInv, TypeOK, Balance
  <1> HIDE DEF shares_added
  <1>7. /\ wallet' \in [Users -> [Assets -> Balance]]
        /\ shares' \in [Pairs -> [Users -> Balance]]
        /\ issuance' \in [Pairs -> Balance]
        /\ issuance'[p] = issuance[p] + shares_added
        /\ \A r \in Pairs : r # p => issuance'[r] = issuance[r]
        /\ ReserveBecomes(a, b, reserve[p][a] + amount, reserve[p][b] + amount_b)
    BY <1>1, <1>2, <1>4, <1>5, <1>6, PayInLedger, ZenonT(40) DEF IndInv
  <1>8. /\ total_liquidity' \in [Pairs -> Balance]
        /\ total_liquidity'[p] = total_liquidity[p] + shares_added
        /\ \A r \in Pairs : r # p => total_liquidity'[r] = total_liquidity[r]
    BY <1>1, <1>2, <1>5, LimitAssumption, SMTT(30) DEF IndInv, TypeOK, Balance, Fits
  <1>9. TypeOK'
    BY <1>1, <1>7, <1>8, Zenon DEF IndInv, TypeOK, ReserveBecomes
  <1>10. OthersUnchanged(p)
    BY <1>1, <1>7, <1>8, Zenon DEF OthersUnchanged, ReserveBecomes
  <1>11. PoolOK(p)'
    <2>1. \A c \in p : reserve'[p][c] > 0
      BY <1>2, <1>3, <1>4, <1>7, SMTT(30) DEF ReserveBecomes
    <2>2. total_liquidity'[p] > 0 /\ total_liquidity'[p] = issuance'[p]
      BY <1>2, <1>3, <1>5, <1>7, <1>8, SMTT(30)
    <2> QED
      BY <1>1, <1>2, <2>1, <2>2, ZenonT(40) DEF PoolOK
  <1>12. PoolStep(a, b)
    BY <1>1, <1>2, <1>3, <1>5, <1>8, SMTT(30) DEF PoolStep
  <1> QED
    BY <1>2, <1>9, <1>10, <1>11, <1>12, OnePool, Zenon

LEMMA LessLiquidity ==
    ASSUME IndInv, NEW who \in Users, NEW a \in Assets, NEW b \in Assets, NEW s \in Nat,
           remove_liquidity(who, a, b, s)
    PROVE  IndInv' /\ ShareValueStep /\ DestructionStep
  <1> DEFINE p == get_pair_id(a, b)
             t == total_liquidity[p]
             x == calculate_liquidity_out(reserve[p][a], s, t)
             y == calculate_liquidity_out(reserve[p][b], s, t)
  <1>1. /\ s # 0
        /\ exists(a, b)
        /\ t >= s
        /\ shares[p][who] >= s
        /\ reserve[p][a] >= x
        /\ reserve[p][b] >= y
        /\ Fits(wallet[who][a] + x)
        /\ Fits(wallet[who][b] + y)
        /\ reserve' = withdraw(withdraw(reserve, p, a, x), p, b, y)
        /\ wallet' = deposit(deposit(wallet, who, a, x), who, b, y)
        /\ shares' = withdraw(shares, p, who, s)
        /\ issuance' = [issuance EXCEPT ![p] = @ - s]
        /\ total_liquidity' = [total_liquidity EXCEPT ![p] = t - s]
        /\ share_token' = IF t - s = 0 THEN share_token \ {p} ELSE share_token
        /\ pool_assets' = IF t - s = 0 THEN [pool_assets EXCEPT ![p] = << >>] ELSE pool_assets
    BY Zenon DEF remove_liquidity, CanRemove, Emptied, RemoveAmount
  <1>2. /\ p \in Pairs
        /\ p = {a, b}
        /\ p \in share_token
        /\ t > 0
        /\ t = issuance[p]
        /\ reserve[p][a] > 0
        /\ reserve[p][b] > 0
        /\ PoolOK(p)
    BY <1>1, LivePair, Zenon DEF exists, get_pair_id
  <1>3. reserve[p][a] \in Nat /\ reserve[p][b] \in Nat /\ t \in Nat
    BY <1>2, PoolTypes, Zenon DEF IndInv
  <1>4. /\ x \in Nat
        /\ s = t => x = reserve[p][a]
        /\ s < t => x < reserve[p][a]
        /\ (reserve[p][a] - x) * t >= reserve[p][a] * (t - s)
    <2>1. s <= t
      BY <1>1, <1>3, Zenon
    <2>2. x \in Nat /\ (reserve[p][a] - x) * t >= reserve[p][a] * (t - s)
      BY <1>2, <1>3, <2>1, LiquidityOutPart, Zenon
    <2>3. /\ s = t => x = reserve[p][a]
          /\ s < t => x < reserve[p][a]
      BY <1>2, <1>3, <2>1, LiquidityOut
    <2> QED
      BY <2>2, <2>3, Zenon
  <1>5. /\ y \in Nat
        /\ s = t => y = reserve[p][b]
        /\ s < t => y < reserve[p][b]
        /\ (reserve[p][b] - y) * t >= reserve[p][b] * (t - s)
    <2>1. s <= t
      BY <1>1, <1>3, Zenon
    <2>2. y \in Nat /\ (reserve[p][b] - y) * t >= reserve[p][b] * (t - s)
      BY <1>2, <1>3, <2>1, LiquidityOutPart, Zenon
    <2>3. /\ s = t => y = reserve[p][b]
          /\ s < t => y < reserve[p][b]
      BY <1>2, <1>3, <2>1, LiquidityOut
    <2> QED
      BY <2>2, <2>3, Zenon
  <1> HIDE DEF x, y
  <1>6. /\ wallet' \in [Users -> [Assets -> Balance]]
        /\ ReserveBecomes(a, b, reserve[p][a] - x, reserve[p][b] - y)
    BY <1>1, <1>2, <1>4, <1>5, PayOutLedger, Zenon DEF IndInv
  <1>7. /\ total_liquidity' \in [Pairs -> Balance]
        /\ total_liquidity'[p] = t - s
        /\ issuance' \in [Pairs -> Balance]
        /\ issuance'[p] = t - s
        /\ \A r \in Pairs : r # p => /\ total_liquidity'[r] = total_liquidity[r]
                                     /\ issuance'[r] = issuance[r]
    <2>1. t - s \in Balance
      <3>1. t \in Balance
        BY <1>2, Zenon DEF IndInv, TypeOK
      <3> HIDE DEF t
      <3> QED
        BY <1>1, <3>1, LimitAssumption DEF Balance
    <2>2. total_liquidity \in [Pairs -> Balance] /\ issuance \in [Pairs -> Balance]
      BY Zenon DEF IndInv, TypeOK
    <2>3. issuance' = [issuance EXCEPT ![p] = t - s]
      BY <1>1, <1>2, <2>2, Zenon
    <2> HIDE DEF t
    <2> QED
      BY <1>1, <1>2, <2>1, <2>2, <2>3, Zenon
  <1>8. shares' \in [Pairs -> [Users -> Balance]]
    BY <1>1, <1>2, WithdrawShares, Zenon DEF IndInv, TypeOK
  <1>9. TypeOK'
    <2>1. /\ share_token' \subseteq Pairs
          /\ pool_assets' \in [Pairs -> {<< >>} \cup (Assets \X Assets)]
      BY <1>1, Zenon DEF IndInv, TypeOK
    <2> QED
      BY <1>6, <1>7, <1>8, <2>1, Zenon DEF TypeOK, ReserveBecomes
  <1>10. OthersUnchanged(p)
    BY <1>1, <1>6, <1>7, Zenon DEF IndInv, TypeOK, OthersUnchanged, ReserveBecomes
  <1>11. /\ reserve'[p][a] = reserve[p][a] - x
         /\ reserve'[p][b] = reserve[p][b] - y
    BY <1>6, Zenon DEF ReserveBecomes
  <1>12. CASE s = t
    <2>1. p \notin share_token' /\ pool_assets'[p] = << >>
      BY <1>1, <1>2, <1>3, <1>12, SMTT(30) DEF IndInv, TypeOK
    <2>2. PoolOK(p)'
      BY <1>3, <1>7, <1>12, <2>1, SMTT(30) DEF PoolOK
    <2>3. x = reserve[p][a] /\ y = reserve[p][b]
      BY <1>4, <1>5, <1>12, Zenon
    <2>4. reserve'[p][a] = 0 /\ reserve'[p][b] = 0
      BY <1>3, <1>11, <2>3
    <2>5. PoolStep(a, b)
      BY <2>1, <2>4, Zenon DEF PoolStep
    <2> QED
      BY <1>2, <1>9, <1>10, <2>2, <2>5, OnePool, SMTT(30)
  <1>13. CASE s < t
    <2>1. share_token' = share_token /\ pool_assets' = pool_assets
      BY <1>1, <1>3, <1>13, SMTT(30)
    <2>2. reserve'[p][a] > 0 /\ reserve'[p][b] > 0
      BY <1>3, <1>4, <1>5, <1>11, <1>13, SMTT(30)
    <2>3. PoolOK(p)'
      <3>1. total_liquidity'[p] > 0 /\ total_liquidity'[p] = issuance'[p]
        BY <1>3, <1>7, <1>13, SMTT(30)
      <3>2. \A c \in p : reserve'[p][c] > 0
        BY <1>2, <2>2, Zenon
      <3> QED
        BY <1>2, <2>1, <3>1, <3>2, SMTT(30) DEF PoolOK
    <2>4. (reserve'[p][a] * reserve'[p][b]) * (t * t)
            >= (reserve[p][a] * reserve[p][b]) * ((t - s) * (t - s))
      <3>1. reserve[p][a] - x \in Nat /\ reserve[p][b] - y \in Nat /\ t - s \in Nat
        <4>1. x \in Nat /\ y \in Nat
          BY <1>4, <1>5, SMTT(30)
        <4> QED
          BY <1>1, <1>3, <4>1, SMTT(30)
      <3> QED
        BY <1>3, <1>4, <1>5, <1>11, <3>1, ProductOfParts, ZenonT(40)
    <2>5. PoolStep(a, b)
      BY <1>2, <1>7, <2>1, <2>4, SMTT(30) DEF PoolStep
    <2> QED
      BY <1>2, <1>9, <1>10, <2>3, <2>5, OnePool, ZenonT(40)
  <1>14. s = t \/ s < t
    <2>1. s <= t
      BY <1>1, Zenon
    <2> HIDE DEF t
    <2> QED
      BY <1>3, <2>1
  <1> QED
    BY <1>12, <1>13, <1>14, Zenon

\* A transfer that keeps the product of the reserves and does not empty the
\* pool.  It depends on no wallet.
FairTransfer(a, b, transfer) ==
    LET p == get_pair_id(a, b)
        x == transfer.amount_in
        y == transfer.amount_out
    IN  /\ x \in Nat /\ y \in Nat /\ transfer.burned \in Nat
        /\ exists(a, b)
        /\ reserve[p][b] > y
        /\ (reserve[p][a] + x) * (reserve[p][b] - y) >= reserve[p][a] * reserve[p][b]

LEMMA Trade ==
    ASSUME IndInv, NEW who \in Users, NEW a \in Assets, NEW b \in Assets,
           NEW transfer, FairTransfer(a, b, transfer), execute(who, a, b, transfer)
    PROVE  IndInv' /\ ShareValueStep /\ DestructionStep
  <1> DEFINE p == get_pair_id(a, b)
             t == total_liquidity[p]
             x == transfer.amount_in
             y == transfer.amount_out
             z == transfer.burned
  <1>0. /\ x \in Nat /\ y \in Nat /\ z \in Nat
        /\ exists(a, b)
        /\ reserve[p][b] > y
        /\ (reserve[p][a] + x) * (reserve[p][b] - y) >= reserve[p][a] * reserve[p][b]
        /\ Swap(who, a, b, x, y, z)
        /\ wallet[who][NativeAssetId] >= z
    BY Zenon DEF FairTransfer, execute, Swap, CanSwap
  <1> HIDE DEF x, y, z
  <1>1. /\ p \in Pairs
        /\ p = {a, b}
        /\ p \in share_token
        /\ reserve[p][a] > 0
        /\ PoolOK(p)
    BY <1>0, LivePair, Zenon DEF exists, get_pair_id
  <1>2. reserve[p][a] \in Nat /\ reserve[p][b] \in Nat /\ t \in Nat
    BY <1>1, PoolTypes, Zenon DEF IndInv
  <1>3. /\ wallet' \in [Users -> [Assets -> Balance]]
        /\ ReserveBecomes(a, b, reserve[p][a] + x, reserve[p][b] - y)
    <2>1. reserve[p][b] >= y
      BY <1>0, <1>2, SMTT(30)
    <2> QED
      BY <1>0, <1>1, <2>1, SwapLedger, Zenon DEF IndInv
  <1>4. UNCHANGED <<share_token, pool_assets, total_liquidity, shares, issuance>>
    BY <1>0, Zenon DEF Swap
  <1>5. TypeOK'
    BY <1>3, <1>4, Zenon DEF IndInv, TypeOK, ReserveBecomes
  <1>6. OthersUnchanged(p)
    BY <1>3, <1>4, Zenon DEF OthersUnchanged, ReserveBecomes
  <1>7. /\ reserve'[p][a] = reserve[p][a] + x
        /\ reserve'[p][b] = reserve[p][b] - y
    BY <1>3, Zenon DEF ReserveBecomes
  <1>8. PoolOK(p)'
    <2>1. reserve'[p][a] > 0 /\ reserve'[p][b] > 0
      BY <1>0, <1>1, <1>2, <1>7, SMTT(30)
    <2> QED
      BY <1>1, <1>4, <2>1, ZenonT(40) DEF PoolOK
  <1>9. (reserve'[p][a] * reserve'[p][b]) * (t * t) >= (reserve[p][a] * reserve[p][b]) * (t * t)
    <2> DEFINE k == reserve[p][a] * reserve[p][b]
               l == reserve'[p][a] * reserve'[p][b]
    <2>1. k \in Nat /\ l \in Nat /\ l >= k /\ t * t \in Nat
      BY <1>0, <1>2, <1>7, SMTT(30)
    <2> HIDE DEF k, l
    <2>2. l * (t * t) >= k * (t * t)
      BY <2>1, SMTT(30)
    <2> QED
      BY <2>2, ZenonT(40) DEF k, l
  <1>10. PoolStep(a, b)
    BY <1>1, <1>4, <1>9, Zenon DEF PoolStep
  <1> QED
    BY <1>1, <1>5, <1>6, <1>8, <1>10, OnePool, Zenon

\* The native amount burned for a discount is a number if the pool that
\* prices it exists.
LEMMA Burn ==
    ASSUME IndInv, NEW asset \in Assets, NEW fee \in Nat, NEW discount \in BOOLEAN,
           discount => exists(asset, NativeAssetId)
    PROVE  discount_fee(asset, fee, discount) \in Nat
  <1>1. CASE ~discount
    BY <1>1 DEF discount_fee
  <1>2. CASE discount
    <2> DEFINE p == get_pair_id(asset, NativeAssetId)
    <2>1. /\ p \in Pairs
          /\ reserve[p][asset] > 0
      BY <1>2, LivePair, Zenon
    <2>2. reserve[p][asset] \in Nat /\ reserve[p][NativeAssetId] \in Nat
      BY <2>1, PoolTypes, Zenon DEF IndInv
    <2>3. fee * reserve[p][NativeAssetId] \in Nat
      BY <2>2
    <2> QED
      BY <1>2, <2>1, <2>2, <2>3, Floor, SMTT(30) DEF discount_fee, calculate_spot_price
  <1> QED
    BY <1>1, <1>2, Zenon

LEMMA SaleIsFair ==
    ASSUME IndInv, NEW a \in Assets, NEW b \in Assets, NEW amount \in Nat, NEW discount \in BOOLEAN,
           exists(a, b), reserve[get_pair_id(a, b)][b] > sell_out(a, b, amount),
           discount => exists(a, NativeAssetId)
    PROVE  FairTransfer(a, b, sell_transfer(a, b, amount, discount))
  <1> DEFINE p == get_pair_id(a, b)
             out == sell_out(a, b, amount)
             fee == trade_fee(out, discount)
             burned == discount_fee(a, fee, discount)
  <1>1. reserve[p][b] > out
    OBVIOUS
  <1>2. p \in Pairs /\ reserve[p][a] > 0
    BY LivePair, Zenon
  <1>3. reserve[p][a] \in Nat /\ reserve[p][b] \in Nat
    BY <1>2, PoolTypes, Zenon DEF IndInv
  <1>4. out \in Nat /\ out * (reserve[p][a] + amount) <= reserve[p][b] * amount
    <2>1. reserve[p][a] + amount > 0
      BY <1>2, <1>3
    <2> QED
      BY <1>3, <2>1, OutGivenIn, Zenon DEF sell_out
  <1>5. sell_transfer(a, b, amount, discount)
          = [amount_in |-> amount, amount_out |-> out - fee, burned |-> burned]
    BY Zenon DEF sell_transfer
  <1> HIDE DEF out
  <1>6. fee \in Nat /\ fee <= out
    BY <1>4, Fee, Zenon
  <1> HIDE DEF fee
  <1>7. burned \in Nat
    BY <1>6, Burn, Zenon
  <1>8. /\ out - fee \in Nat
        /\ reserve[p][b] > out - fee
        /\ out - fee <= out
    BY <1>1, <1>3, <1>4, <1>6, SMTT(30)
  <1>9. (reserve[p][a] + amount) * (reserve[p][b] - (out - fee)) >= reserve[p][a] * reserve[p][b]
    <2>1. ASSUME NEW i \in Nat, NEW o \in Nat, NEW x \in Nat, NEW q \in Nat, NEW y \in Nat,
                 q * (i + x) <= o * x, y <= q
          PROVE  (i + x) * (o - y) >= i * o
      <3>1. y * (i + x) <= q * (i + x)
        BY <2>1
      <3>2. (i + x) * (o - y) = (i + x) * o - y * (i + x)
        BY <2>1
      <3>3. (i + x) * o = i * o + o * x
        BY <2>1
      <3> QED
        BY <2>1, <3>1, <3>2, <3>3
    <2> QED
      BY <1>3, <1>4, <1>8, <2>1, Zenon
  <1> HIDE DEF burned
  <1> QED
    BY <1>5, <1>7, <1>8, <1>9 DEF FairTransfer

LEMMA PurchaseIsFair ==
    ASSUME IndInv, NEW a \in Assets, NEW b \in Assets, NEW amount \in Nat, NEW discount \in BOOLEAN,
           exists(a, b), reserve[get_pair_id(a, b)][b] > amount,
           discount => exists(b, NativeAssetId)
    PROVE  FairTransfer(a, b, buy_transfer(a, b, amount, discount))
  <1> DEFINE p == get_pair_id(a, b)
             price == buy_price(a, b, amount)
             fee == trade_fee(price, discount)
             burned == discount_fee(b, fee, discount)
  <1>1. reserve[p][b] > amount
    OBVIOUS
  <1>2. p \in Pairs
    BY LivePair, Zenon
  <1>3. reserve[p][a] \in Nat /\ reserve[p][b] \in Nat
    BY <1>2, PoolTypes, Zenon DEF IndInv
  <1>4. price \in Nat /\ reserve[p][a] * amount < price * (reserve[p][b] - amount)
    BY <1>1, <1>3, InGivenOut, Zenon DEF buy_price
  <1>5. buy_transfer(a, b, amount, discount)
          = [amount_in |-> price + fee, amount_out |-> amount, burned |-> burned]
    BY Zenon DEF buy_transfer
  <1> HIDE DEF price
  <1>6. fee \in Nat
    BY <1>4, Fee, Zenon
  <1> HIDE DEF fee
  <1>7. burned \in Nat
    BY <1>6, Burn, Zenon
  <1>8. (reserve[p][a] + (price + fee)) * (reserve[p][b] - amount) >= reserve[p][a] * reserve[p][b]
    <2>1. ASSUME NEW i \in Nat, NEW o \in Nat, NEW x \in Nat, NEW q \in Nat, NEW f \in Nat,
                 o > x, i * x < q * (o - x)
          PROVE  (i + (q + f)) * (o - x) >= i * o
      <3>1. (i + (q + f)) * (o - x) = i * o - i * x + q * (o - x) + f * (o - x)
        BY <2>1
      <3>2. f * (o - x) >= 0
        BY <2>1
      <3> QED
        BY <2>1, <3>1, <3>2
    <2> QED
      BY <1>1, <1>3, <1>4, <1>6, <2>1, Zenon
  <1> HIDE DEF burned
  <1>9. price + fee \in Nat
    BY <1>4, <1>6
  <1> QED
    BY <1>1, <1>5, <1>7, <1>8, <1>9 DEF FairTransfer

\* What validate_sell and validate_buy accept is fair.
LEMMA ValidSale ==
    ASSUME IndInv, NEW who, NEW a \in Assets, NEW b \in Assets, NEW amount \in Nat, NEW limit,
           NEW discount \in BOOLEAN, validate_sell(who, a, b, amount, limit, discount)
    PROVE  FairTransfer(a, b, sell_transfer(a, b, amount, discount))
  <1>1. /\ exists(a, b)
        /\ reserve[get_pair_id(a, b)][b] > sell_out(a, b, amount)
        /\ discount => exists(a, NativeAssetId)
    BY Zenon DEF validate_sell, CanDiscount
  <1> QED
    BY <1>1, SaleIsFair, Zenon

LEMMA ValidPurchase ==
    ASSUME IndInv, NEW who, NEW a \in Assets, NEW b \in Assets, NEW amount \in Nat, NEW limit,
           NEW discount \in BOOLEAN, validate_buy(who, a, b, amount, limit, discount)
    PROVE  FairTransfer(a, b, buy_transfer(a, b, amount, discount))
  <1>1. /\ exists(a, b)
        /\ reserve[get_pair_id(a, b)][b] > amount
        /\ discount => exists(b, NativeAssetId)
    BY Zenon DEF validate_buy, CanDiscount
  <1> QED
    BY <1>1, PurchaseIsFair, Zenon

\* A trade through the pallet is a fair transfer.
LEMMA CallTrades ==
    ASSUME IndInv, NEW who, NEW a \in Assets, NEW b \in Assets, NEW amount \in Nat, NEW limit,
           NEW discount \in BOOLEAN,
           sell(who, a, b, amount, limit, discount) \/ buy(who, b, a, amount, limit, discount)
    PROVE  \E transfer : FairTransfer(a, b, transfer) /\ execute(who, a, b, transfer)
  <1>1. CASE sell(who, a, b, amount, limit, discount)
    BY <1>1, ValidSale, Zenon DEF sell, execute_sell
  <1>2. CASE buy(who, b, a, amount, limit, discount)
    BY <1>2, ValidPurchase, Zenon DEF buy, execute_buy
  <1> QED
    BY <1>1, <1>2, Zenon

LEMMA Gift ==
    ASSUME IndInv, NEW who \in Users, NEW p \in Pairs, NEW a \in p, NEW amount \in Amounts,
           TransferToPool(who, p, a, amount)
    PROVE  IndInv' /\ ShareValueStep /\ DestructionStep
  <1>1. PICK b \in Assets : p = get_pair_id(a, b) /\ a # b /\ a \in Assets
    BY Zenon DEF Pairs, get_pair_id
  <1>2. amount \in Nat
    BY ArgumentAssumption, LimitAssumption DEF Balance
  <1>3. /\ wallet[who][a] >= amount
        /\ Fits(reserve[p][a] + amount)
        /\ wallet' = withdraw(wallet, who, a, amount)
        /\ reserve' = deposit(reserve, p, a, amount)
        /\ UNCHANGED <<share_token, pool_assets, total_liquidity, shares, issuance>>
    BY Zenon DEF TransferToPool
  <1>4. /\ wallet \in [Users -> [Assets -> Balance]]
        /\ reserve \in [Pairs -> [Assets -> Balance]]
    BY Zenon DEF IndInv, TypeOK
  <1>5. wallet' \in [Users -> [Assets -> Balance]]
    BY <1>1, <1>2, <1>3, <1>4, WithdrawLedger, Zenon
  <1>6. /\ reserve' \in [Pairs -> [Assets -> Balance]]
        /\ reserve'[p][a] = reserve[p][a] + amount
        /\ reserve'[p][b] = reserve[p][b]
        /\ \A r \in Pairs : r # p => reserve'[r] = reserve[r]
    BY <1>1, <1>2, <1>3, <1>4, LimitAssumption DEF deposit, Balance, Fits
  <1>7. TypeOK'
    BY <1>3, <1>5, <1>6, Zenon DEF IndInv, TypeOK
  <1>8. OthersUnchanged(p)
    BY <1>3, <1>6, Zenon DEF OthersUnchanged
  <1>9. reserve[p][a] \in Nat /\ reserve[p][b] \in Nat /\ total_liquidity[p] \in Nat
    BY <1>1, PoolTypes, Zenon DEF IndInv
  <1>10. PoolOK(p)
    BY Zenon DEF IndInv, PoolStorageAgrees, LivePoolHasReserves, PoolOK
  <1>11. PoolOK(p)'
    <2>1. p \in share_token => reserve[p][a] > 0 /\ reserve[p][b] > 0
      BY <1>1, <1>10, Zenon DEF PoolOK, get_pair_id
    <2>2. p \in share_token => reserve'[p][a] > 0 /\ reserve'[p][b] > 0
      BY <1>2, <1>6, <1>9, <2>1, SMTT(30)
    <2>3. p \in share_token => \A c \in p : reserve'[p][c] > 0
      BY <1>1, <2>2, SMTT(30) DEF get_pair_id
    <2> QED
      BY <1>3, <1>10, <2>3, Zenon DEF PoolOK
  <1>12. PoolStep(a, b)
    <2> DEFINE k == reserve[p][a] * reserve[p][b]
               l == reserve'[p][a] * reserve'[p][b]
               tt == total_liquidity[p] * total_liquidity[p]
    <2>1. k \in Nat /\ l \in Nat /\ l >= k /\ tt \in Nat
      BY <1>2, <1>6, <1>9, SMTT(30)
    <2> HIDE DEF k, l, tt
    <2>2. l * tt >= k * tt
      BY <2>1
    <2> QED
      BY <1>1, <1>3, <2>2, ZenonT(40) DEF PoolStep, k, l, tt
  <1> QED
    BY <1>1, <1>7, <1>8, <1>11, <1>12, OnePool, Zenon

-----------------------------------------------------------------------------
(* The theorems *)

LEMMA InitInv == Init => IndInv
  <1> SUFFICES ASSUME Init
               PROVE  IndInv
    OBVIOUS
  <1>1. TypeOK
    BY EndowmentAssumption, LimitAssumption DEF Init, TypeOK, Balance
  <1>2. PoolStorageAgrees
    BY DEF Init, PoolStorageAgrees
  <1>3. LivePoolHasReserves
    BY Zenon DEF Init, LivePoolHasReserves
  <1> QED
    BY <1>1, <1>2, <1>3, Zenon DEF IndInv

LEMMA NextInv ==
    ASSUME IndInv, Next
    PROVE  IndInv' /\ ShareValueStep /\ DestructionStep
  <1>1. CASE Call
    <2> PICK who \in Users, a \in Assets, b \in Assets, amount \in Amounts :
            \/ \E price \in Prices : create_pool(who, a, b, amount, price)
            \/ \E limit \in Limits : add_liquidity(who, a, b, amount, limit)
            \/ \E s \in Amounts \cup Holdings(who) : remove_liquidity(who, a, b, s)
            \/ \E limit \in Limits, discount \in BOOLEAN :
                  \/ sell(who, a, b, amount, limit, discount)
                  \/ buy(who, a, b, amount, limit, discount)
      BY <1>1, Zenon DEF Call
    <2>1. CASE \E price \in Prices : create_pool(who, a, b, amount, price)
      BY <2>1, NewPool, Zenon
    <2>2. CASE \E limit \in Limits : add_liquidity(who, a, b, amount, limit)
      BY <2>2, MoreLiquidity, Zenon
    <2>3. CASE \E s \in Amounts \cup Holdings(who) : remove_liquidity(who, a, b, s)
      <3>1. Amounts \cup Holdings(who) \subseteq Nat
        <4>1. Balance \subseteq Nat
          BY LimitAssumption DEF Balance
        <4>2. \A p \in Pairs : shares[p][who] \in Balance
          BY Zenon DEF IndInv, TypeOK
        <4> QED
          BY <4>1, <4>2, ArgumentAssumption, Zenon DEF Holdings
      <3> QED
        BY <2>3, <3>1, LessLiquidity, Zenon
    <2>4. CASE \E limit \in Limits, discount \in BOOLEAN :
                  \/ sell(who, a, b, amount, limit, discount)
                  \/ buy(who, a, b, amount, limit, discount)
      <3>1. amount \in Nat
        BY ArgumentAssumption, LimitAssumption DEF Balance
      <3>2. PICK limit \in Limits, discount \in BOOLEAN :
              \/ sell(who, a, b, amount, limit, discount)
              \/ buy(who, a, b, amount, limit, discount)
        BY <2>4, Zenon
      <3>3. CASE sell(who, a, b, amount, limit, discount)
        <4>1. PICK transfer : FairTransfer(a, b, transfer) /\ execute(who, a, b, transfer)
          BY <3>1, <3>3, CallTrades, Zenon
        <4> QED
          BY <4>1, Trade, Zenon
      <3>4. CASE buy(who, a, b, amount, limit, discount)
        <4>1. PICK transfer : FairTransfer(b, a, transfer) /\ execute(who, b, a, transfer)
          BY <3>1, <3>4, CallTrades, Zenon
        <4> QED
          BY <4>1, Trade, Zenon
      <3> QED
        BY <3>2, <3>3, <3>4, Zenon
    <2> QED
      BY <2>1, <2>2, <2>3, <2>4, Zenon
  <1>2. CASE \E who \in Users, p \in Pairs, amount \in Amounts :
                \E asset \in p : TransferToPool(who, p, asset, amount)
    BY <1>2, Gift, Zenon
  <1> QED
    BY <1>1, <1>2, Zenon DEF Next

LEMMA StutterInv ==
    ASSUME IndInv, UNCHANGED vars
    PROVE  IndInv'
  BY Zenon DEF vars, IndInv, TypeOK, PoolStorageAgrees, LivePoolHasReserves

\* Type correctness of the pallet, the share tokens and the accounts: no
\* balance ever falls below zero or exceeds a Balance.
THEOREM TypeCorrect == Spec => []TypeOK
  <1>1. IndInv /\ [Next]_vars => IndInv'
    BY NextInv, StutterInv, Zenon
  <1>2. IndInv => TypeOK
    BY Zenon DEF IndInv
  <1> QED
    BY <1>1, <1>2, InitInv, PTL DEF Spec

\* ShareToken, PoolAssets, TotalLiquidity and the issuance of the share
\* tokens agree in every reachable state, over any number of creations and
\* destructions of pools.
THEOREM StorageAgrees == Spec => []PoolStorageAgrees
  <1>1. IndInv /\ [Next]_vars => IndInv'
    BY NextInv, StutterInv, Zenon
  <1>2. IndInv => PoolStorageAgrees
    BY Zenon DEF IndInv
  <1> QED
    BY <1>1, <1>2, InitInv, PTL DEF Spec

\* No sequence of calls empties one side of a live pool.
THEOREM LivePools == Spec => []LivePoolHasReserves
  <1>1. IndInv /\ [Next]_vars => IndInv'
    BY NextInv, StutterInv, Zenon
  <1>2. IndInv => LivePoolHasReserves
    BY Zenon DEF IndInv
  <1> QED
    BY <1>1, <1>2, InitInv, PTL DEF Spec

\* No trade, removal of liquidity or transfer to a pool lowers the product of
\* its reserves over the square of its shares.
THEOREM ShareValue == Spec => ShareValueNeverFalls
  <1>1. IndInv /\ [Next]_vars => IndInv'
    BY NextInv, StutterInv, Zenon
  <1>2. IndInv /\ [Next]_vars => [ShareValueStep]_vars
    BY NextInv, Zenon
  <1> QED
    BY <1>1, <1>2, InitInv, PTL DEF Spec, ShareValueNeverFalls

\* The removal of a pool's last shares empties its account.
THEOREM Destruction == Spec => DestructionEmptiesPool
  <1>1. IndInv /\ [Next]_vars => IndInv'
    BY NextInv, StutterInv, Zenon
  <1>2. IndInv /\ [Next]_vars => [DestructionStep]_vars
    BY NextInv, Zenon
  <1> QED
    BY <1>1, <1>2, InitInv, PTL DEF Spec, DestructionEmptiesPool

USE DEF IncentivizedPairs

-----------------------------------------------------------------------------
(* What the refinement mapping does with a change of one pool *)

\* A call on a pool without the asset is a stuttering step.
LEMMA Elsewhere ==
    ASSUME NEW p \in Pairs \ IncentivizedPairs,
           \A r \in Pairs : r # p => /\ r \in share_token' <=> r \in share_token
                                     /\ reserve'[r] = reserve[r]
                                     /\ shares'[r] = shares[r]
                                     /\ issuance'[r] = issuance[r]
    PROVE  UNCHANGED Pool!amm_vars
  <1>1. live' = live
    BY Zenon DEF live
  <1>2. backing' = backing
    BY Zenon DEF backing
  <1>3. holdings' = holdings
    BY Zenon DEF holdings
  <1>4. issued' = issued
    BY Zenon DEF issued
  <1> QED
    BY <1>1, <1>2, <1>3, <1>4, Zenon DEF Pool!amm_vars

LEMMA OneBacking ==
    ASSUME NEW p \in IncentivizedPairs, \A r \in Pairs : r # p => reserve'[r] = reserve[r]
    PROVE  Pool!SetBacking(p, reserve'[p][IncentivizedAsset])
  BY Zenon DEF Pool!SetBacking, backing

LEMMA SharesMinted ==
    ASSUME TypeOK, NEW p \in IncentivizedPairs, NEW who \in Users, NEW n,
           shares' = deposit(shares, p, who, n),
           issuance' = [issuance EXCEPT ![p] = @ + n]
    PROVE  Pool!Mint(p, who, n)
  <1>1. shares \in [Pairs -> [Users -> Balance]] /\ issuance \in [Pairs -> Balance]
    BY Zenon DEF TypeOK
  <1>2. holdings' = [holdings EXCEPT ![p][who] = @ + n]
    BY <1>1, Zenon DEF holdings, deposit
  <1>3. issued' = [issued EXCEPT ![p] = @ + n]
    BY <1>1, Zenon DEF issued
  <1> QED
    BY <1>2, <1>3, Zenon DEF Pool!Mint

LEMMA SharesBurned ==
    ASSUME TypeOK, NEW p \in IncentivizedPairs, NEW who \in Users, NEW n,
           shares' = withdraw(shares, p, who, n),
           issuance' = [issuance EXCEPT ![p] = @ - n]
    PROVE  /\ holdings' = [holdings EXCEPT ![p][who] = @ - n]
           /\ issued' = [issued EXCEPT ![p] = @ - n]
  <1>1. shares \in [Pairs -> [Users -> Balance]] /\ issuance \in [Pairs -> Balance]
    BY Zenon DEF TypeOK
  <1>2. holdings' = [holdings EXCEPT ![p][who] = @ - n]
    BY <1>1, Zenon DEF holdings, withdraw
  <1>3. issued' = [issued EXCEPT ![p] = @ - n]
    BY <1>1, Zenon DEF issued
  <1> QED
    BY <1>2, <1>3, Zenon

LEMMA SharesUntouched ==
    ASSUME UNCHANGED <<share_token, shares, issuance>>
    PROVE  UNCHANGED <<live, holdings, issued>>
  BY Zenon DEF live, holdings, issued

\* The new backing is a Balance, and it is positive where the pool is live.
LEMMA NewBacking ==
    ASSUME IndInv', NEW p \in IncentivizedPairs
    PROVE  /\ reserve'[p][IncentivizedAsset] \in Balance
           /\ p \in share_token' => reserve'[p][IncentivizedAsset] > 0
  BY IncentivizedAssumption, Zenon DEF IndInv, TypeOK, LivePoolHasReserves

-----------------------------------------------------------------------------
(* The actions *)

AMMStep == [Pool!AMMNext]_(Pool!amm_vars)

\* create_pool is Create, add_liquidity is Issue.
LEMMA PaidIn ==
    ASSUME IndInv, IndInv', NEW who \in Users, NEW a, NEW b, get_pair_id(a, b) \in Pairs,
           NEW x \in Nat, NEW y \in Nat, NEW minted \in Nat, minted > 0,
           wallet[who][a] >= x, wallet[who][b] >= y,
           PayIn(who, get_pair_id(a, b), a, x, b, y, minted),
           share_token' = share_token \cup {get_pair_id(a, b)}
    PROVE  AMMStep
  <1> DEFINE p == get_pair_id(a, b)
             new == reserve'[p][IncentivizedAsset]
  <1>1. /\ shares' = deposit(shares, p, who, minted)
        /\ issuance' = [issuance EXCEPT ![p] = @ + minted]
        /\ issuance \in [Pairs -> Balance]
        /\ shares \in [Pairs -> [Users -> Balance]]
        /\ Fits(issuance[p] + minted)
    BY Zenon DEF PayIn, IndInv, TypeOK
  <1>2. ReserveBecomes(a, b, reserve[p][a] + x, reserve[p][b] + y)
    BY PayInLedger, Zenon DEF IndInv
  <1>3. CASE p \notin IncentivizedPairs
    <2>1. \A r \in Pairs : r # p => /\ r \in share_token' <=> r \in share_token
                                    /\ reserve'[r] = reserve[r]
                                    /\ shares'[r] = shares[r]
                                    /\ issuance'[r] = issuance[r]
      BY <1>1, <1>2, Zenon DEF ReserveBecomes, deposit
    <2> QED
      BY <1>3, <2>1, Elsewhere, Zenon DEF AMMStep
  <1>4. CASE p \in IncentivizedPairs
    <2>1. Pool!Mint(p, who, minted) /\ Pool!SetBacking(p, new)
      BY <1>1, <1>2, <1>4, SharesMinted, OneBacking, Zenon DEF IndInv, ReserveBecomes
    <2>2. new \in Balance /\ new > 0
      BY <1>4, NewBacking, Zenon
    <2>3. minted \in 1 .. MaxBalance
      BY <1>1, LimitAssumption DEF Fits, Balance
    <2>4. new >= backing[p]
      <3>1. reserve[p][a] \in Nat /\ reserve[p][b] \in Nat
        BY PoolTypes, Zenon DEF IndInv
      <3>2. IncentivizedAsset = a \/ IncentivizedAsset = b
        BY <1>4, Zenon DEF get_pair_id
      <3>3. reserve'[p][a] >= reserve[p][a] /\ reserve'[p][b] >= reserve[p][b]
        BY <1>2, <3>1 DEF ReserveBecomes
      <3> QED
        BY <1>4, <3>2, <3>3, Zenon DEF backing
    <2>5. p \in live' /\ live' = live \cup {p}
      BY <1>4, Zenon DEF live
    <2>6. CASE p \in live
      <3>1. Pool!Issue(p, who, minted, new)
        BY <2>1, <2>4, <2>5, <2>6, Zenon DEF Pool!Issue
      <3> QED
        BY <1>4, <2>1, <2>2, <2>3, <3>1, Zenon DEF AMMStep, Pool!AMMNext
    <2>7. CASE p \notin live
      <3>1. Pool!Create(p, who, minted, new)
        BY <2>1, <2>2, <2>5, <2>7, Zenon DEF Pool!Create
      <3> QED
        BY <1>4, <2>1, <2>2, <2>3, <3>1, Zenon DEF AMMStep, Pool!AMMNext
    <2> QED
      BY <2>6, <2>7, Zenon
  <1> QED
    BY <1>3, <1>4, Zenon

LEMMA CreateStep ==
    ASSUME IndInv, IndInv', NEW who \in Users, NEW a \in Assets, NEW b \in Assets,
           NEW amount \in Amounts, NEW price \in Prices,
           create_pool(who, a, b, amount, price)
    PROVE  AMMStep
  <1> DEFINE p == get_pair_id(a, b)
             asset_b_amount == (price[1] * amount) \div price[2]
             shares_added == SharesAdded(a, b, amount, asset_b_amount)
  <1>1. p \in Pairs
    BY Zenon DEF create_pool, get_pair_id, Pairs
  <1>2. amount \in Nat /\ asset_b_amount \in Nat
    <2>1. PICK n \in Nat, d \in Nat \ {0} : price = <<n, d>>
      BY ArgumentAssumption
    <2>2. amount \in Nat
      BY ArgumentAssumption, LimitAssumption DEF Balance
    <2>3. n * amount \in Nat
      BY <2>2
    <2> QED
      BY <2>1, <2>2, <2>3, Floor
  <1>3. /\ amount >= MinPoolLiquidity
        /\ asset_b_amount >= MinPoolLiquidity
        /\ wallet[who][a] >= amount
        /\ wallet[who][b] >= asset_b_amount
        /\ share_token' = share_token \cup {p}
        /\ PayIn(who, p, a, amount, b, asset_b_amount, shares_added)
    BY Zenon DEF create_pool, SufficientLiquidity
  <1> HIDE DEF asset_b_amount
  <1>4. shares_added \in Nat /\ shares_added > 0
    BY <1>2, <1>3, LimitAssumption DEF SharesAdded
  <1> HIDE DEF shares_added
  <1> QED
    BY <1>1, <1>2, <1>3, <1>4, PaidIn, Zenon

LEMMA AddStep ==
    ASSUME IndInv, IndInv', NEW who \in Users, NEW a \in Assets, NEW b \in Assets,
           NEW amount \in Amounts, NEW limit \in Limits,
           add_liquidity(who, a, b, amount, limit)
    PROVE  AMMStep
  <1> DEFINE p == get_pair_id(a, b)
             amount_b == calculate_liquidity_in(reserve[p][a], reserve[p][b], amount)
             shares_added == SharesAdded(a, b, amount, amount_b)
  <1>1. /\ exists(a, b)
        /\ wallet[who][a] >= amount
        /\ wallet[who][b] >= limit
        /\ amount_b <= limit
        /\ shares_added # 0
        /\ PayIn(who, p, a, amount, b, amount_b, shares_added)
        /\ share_token' = share_token
    BY Zenon DEF add_liquidity
  <1>2. p \in Pairs /\ p \in share_token /\ reserve[p][a] > 0
    BY <1>1, LivePair, Zenon DEF exists
  <1>3. amount \in Nat /\ amount_b \in Nat /\ limit \in Nat
    <2>1. amount \in Nat /\ limit \in Nat
      BY ArgumentAssumption, LimitAssumption DEF Balance
    <2>2. reserve[p][a] \in Nat /\ reserve[p][b] \in Nat
      BY <1>2, PoolTypes, Zenon DEF IndInv
    <2>3. amount * reserve[p][b] \in Nat
      BY <2>1, <2>2
    <2> QED
      BY <1>2, <2>1, <2>2, <2>3, Floor, Zenon DEF calculate_liquidity_in
  <1> HIDE DEF amount_b
  <1>4. shares_added \in Nat /\ shares_added > 0
    BY <1>1, <1>3 DEF SharesAdded
  <1>5. wallet[who][b] >= amount_b
    BY <1>1, <1>3, LimitAssumption DEF IndInv, TypeOK, Balance
  <1> HIDE DEF shares_added
  <1>6. share_token' = share_token \cup {p}
    BY <1>1, <1>2, Zenon
  <1> QED
    BY <1>1, <1>2, <1>3, <1>4, <1>5, <1>6, PaidIn, Zenon

LEMMA RemoveStep ==
    ASSUME IndInv, IndInv', DestructionStep,
           NEW who \in Users, NEW a \in Assets, NEW b \in Assets, NEW s \in Nat,
           remove_liquidity(who, a, b, s)
    PROVE  AMMStep
  <1> DEFINE p == get_pair_id(a, b)
             x == calculate_liquidity_out(reserve[p][a], s, total_liquidity[p])
             y == calculate_liquidity_out(reserve[p][b], s, total_liquidity[p])
             new == reserve'[p][IncentivizedAsset]
  <1>1. /\ s # 0
        /\ exists(a, b)
        /\ total_liquidity[p] >= s
        /\ shares[p][who] >= s
        /\ reserve[p][a] >= x
        /\ reserve[p][b] >= y
        /\ Fits(wallet[who][a] + x)
        /\ Fits(wallet[who][b] + y)
        /\ reserve' = withdraw(withdraw(reserve, p, a, x), p, b, y)
        /\ wallet' = deposit(deposit(wallet, who, a, x), who, b, y)
        /\ shares' = withdraw(shares, p, who, s)
        /\ issuance' = [issuance EXCEPT ![p] = @ - s]
        /\ share_token' = IF total_liquidity[p] - s = 0 THEN share_token \ {p} ELSE share_token
    BY Zenon DEF remove_liquidity, CanRemove, Emptied, RemoveAmount
  <1>2. /\ p \in Pairs
        /\ p \in share_token
        /\ total_liquidity[p] > 0
        /\ total_liquidity[p] = issuance[p]
    BY <1>1, LivePair, Zenon DEF exists
  <1>3. /\ reserve[p][a] \in Nat
        /\ reserve[p][b] \in Nat
        /\ total_liquidity[p] \in Nat
        /\ issuance[p] \in Balance
        /\ shares \in [Pairs -> [Users -> Balance]]
        /\ issuance \in [Pairs -> Balance]
    BY <1>2, PoolTypes, Zenon DEF IndInv, TypeOK
  <1>4. s <= total_liquidity[p]
    BY <1>1, <1>3, Zenon
  <1>5. x \in Nat /\ y \in Nat
    BY <1>2, <1>3, <1>4, LiquidityOutPart, Zenon
  <1> HIDE DEF x, y
  <1>6. ReserveBecomes(a, b, reserve[p][a] - x, reserve[p][b] - y)
    BY <1>1, <1>2, <1>5, PayOutLedger, Zenon DEF IndInv
  <1>7. CASE p \notin IncentivizedPairs
    <2>1. \A r \in Pairs : r # p => /\ r \in share_token' <=> r \in share_token
                                    /\ reserve'[r] = reserve[r]
                                    /\ shares'[r] = shares[r]
                                    /\ issuance'[r] = issuance[r]
      BY <1>1, <1>2, <1>3, <1>6, Zenon DEF ReserveBecomes, withdraw
    <2> QED
      BY <1>2, <1>7, <2>1, Elsewhere, Zenon DEF AMMStep
  <1>8. CASE p \in IncentivizedPairs
    <2>1. /\ holdings' = [holdings EXCEPT ![p][who] = @ - s]
          /\ issued' = [issued EXCEPT ![p] = @ - s]
          /\ Pool!SetBacking(p, new)
      <3>1. /\ holdings' = [holdings EXCEPT ![p][who] = @ - s]
            /\ issued' = [issued EXCEPT ![p] = @ - s]
        BY <1>1, <1>8, SharesBurned, ZenonT(40) DEF IndInv
      <3>2. Pool!SetBacking(p, new)
        BY <1>6, <1>8, OneBacking, Zenon DEF ReserveBecomes
      <3> QED
        BY <3>1, <3>2, Zenon
    <2>2. new \in Balance /\ (p \in share_token' => new > 0)
      BY <1>8, NewBacking, Zenon
    <2>3. s \in 1 .. MaxBalance
      BY <1>1, <1>2, <1>3, <1>4, LimitAssumption DEF Balance
    <2>4. new <= backing[p]
      <3>1. IncentivizedAsset = a \/ IncentivizedAsset = b
        BY <1>8, ZenonT(40) DEF get_pair_id
      <3>2. reserve'[p][a] <= reserve[p][a] /\ reserve'[p][b] <= reserve[p][b]
        BY <1>3, <1>5, <1>6 DEF ReserveBecomes
      <3> QED
        BY <1>8, <3>1, <3>2, Zenon DEF backing
    <2>5. p \in live /\ s <= holdings[p][who] /\ issued[p] = total_liquidity[p]
      <3>1. s <= shares[p][who]
        BY <1>1, <1>2, <1>3, LimitAssumption, Zenon DEF Balance
      <3> QED
        BY <1>2, <1>8, <3>1, Zenon DEF live, holdings, issued
    <2>6. CASE total_liquidity[p] = s
      <3>1. share_token' = share_token \ {p}
        BY <1>1, <1>3, <2>6
      <3>2. new = 0 /\ live' = live \ {p}
        BY <1>2, <1>8, <3>1, Zenon DEF DestructionStep, live
      <3>3. Pool!Redeem(p, who, s, new)
        BY <2>1, <2>3, <2>4, <2>5, <2>6, <3>2 DEF Pool!Redeem
      <3> QED
        BY <1>8, <2>2, <2>3, <2>1, <3>3, ZenonT(40) DEF AMMStep, Pool!AMMNext
    <2>7. CASE total_liquidity[p] # s
      <3>1. share_token' = share_token
        <4>1. total_liquidity[p] - s # 0
          <5>1. \A t, u \in Nat : t # u => t - u # 0
            OBVIOUS
          <5> QED
            BY <1>3, <2>7, <5>1, Zenon
        <4> QED
          BY <1>1, <4>1, Zenon
      <3>2. new > 0 /\ live' = live
        BY <1>2, <2>2, <3>1, ZenonT(40) DEF live
      <3>3. Pool!Redeem(p, who, s, new)
        BY <2>1, <2>3, <2>4, <2>5, <2>7, <3>2 DEF Pool!Redeem
      <3> QED
        BY <1>8, <2>2, <2>3, <2>1, <3>3, Zenon DEF AMMStep, Pool!AMMNext
    <2> QED
      BY <2>6, <2>7, Zenon
  <1> QED
    BY <1>7, <1>8, Zenon

\* sell and buy are Trade.
LEMMA SwapStep ==
    ASSUME IndInv, IndInv', NEW who, NEW a, NEW b, exists(a, b),
           NEW x, NEW y, NEW z, Swap(who, a, b, x, y, z)
    PROVE  AMMStep
  <1> DEFINE p == get_pair_id(a, b)
             new == reserve'[p][IncentivizedAsset]
  <1>1. p \in Pairs /\ p \in share_token
    BY LivePair, Zenon DEF exists
  <1>2. /\ reserve' = withdraw(deposit(reserve, p, a, x), p, b, y)
        /\ UNCHANGED <<share_token, shares, issuance>>
    BY Zenon DEF Swap
  <1>3. \A r \in Pairs : r # p => reserve'[r] = reserve[r]
    BY <1>2, Zenon DEF withdraw, deposit, IndInv, TypeOK
  <1>4. CASE p \notin IncentivizedPairs
    BY <1>1, <1>2, <1>3, <1>4, Elsewhere, Zenon DEF AMMStep
  <1>5. CASE p \in IncentivizedPairs
    <2>1. Pool!SetBacking(p, new) /\ UNCHANGED <<live, holdings, issued>>
      BY <1>2, <1>3, <1>5, OneBacking, SharesUntouched, Zenon
    <2>2. new \in Balance /\ new > 0
      BY <1>1, <1>2, <1>5, NewBacking, Zenon
    <2>3. Pool!Trade(p, new)
      BY <1>1, <1>5, <2>1, <2>2, Zenon DEF Pool!Trade, live
    <2> QED
      BY <1>5, <2>1, <2>2, <2>3, Zenon DEF AMMStep, Pool!AMMNext
  <1> QED
    BY <1>4, <1>5, Zenon

\* TransferToPool is Donate.
LEMMA GiftStep ==
    ASSUME IndInv, IndInv', NEW who \in Users, NEW p \in Pairs, NEW amount \in Amounts,
           NEW asset \in p, TransferToPool(who, p, asset, amount)
    PROVE  AMMStep
  <1> DEFINE new == reserve'[p][IncentivizedAsset]
  <1>1. /\ reserve' = deposit(reserve, p, asset, amount)
        /\ UNCHANGED <<share_token, shares, issuance>>
    BY Zenon DEF TransferToPool
  <1>2. reserve \in [Pairs -> [Assets -> Balance]] /\ amount \in Nat /\ asset \in Assets
    <2>1. asset \in Assets
      BY Zenon DEF Pairs
    <2>2. amount \in Nat
      BY ArgumentAssumption, LimitAssumption DEF Balance
    <2> QED
      BY <2>1, <2>2, Zenon DEF IndInv, TypeOK
  <1>3. \A r \in Pairs : r # p => reserve'[r] = reserve[r]
    BY <1>1, <1>2, Zenon DEF deposit
  <1>4. CASE p \notin IncentivizedPairs
    BY <1>1, <1>3, <1>4, Elsewhere, Zenon DEF AMMStep
  <1>5. CASE p \in IncentivizedPairs
    <2>1. Pool!SetBacking(p, new) /\ UNCHANGED <<live, holdings, issued>>
      BY <1>1, <1>3, <1>5, OneBacking, SharesUntouched, Zenon
    <2>2. new \in Balance
      BY <1>5, NewBacking, Zenon
    <2>3. new >= reserve[p][IncentivizedAsset]
      BY <1>1, <1>2, IncentivizedAssumption, LimitAssumption DEF deposit, Balance
    <2>4. Pool!Donate(p, new)
      BY <1>5, <2>1, <2>3, Zenon DEF Pool!Donate, backing
    <2> QED
      BY <1>5, <2>1, <2>2, <2>4, Zenon DEF AMMStep, Pool!AMMNext
  <1> QED
    BY <1>4, <1>5, Zenon

-----------------------------------------------------------------------------
(* The theorem *)

LEMMA NextStep ==
    ASSUME IndInv, Next
    PROVE  AMMStep
  <1>0. IndInv' /\ DestructionStep
    BY NextInv, Zenon
  <1>1. CASE Call
    <2> PICK who \in Users, a \in Assets, b \in Assets, amount \in Amounts :
            \/ \E price \in Prices : create_pool(who, a, b, amount, price)
            \/ \E limit \in Limits : add_liquidity(who, a, b, amount, limit)
            \/ \E s \in Amounts \cup Holdings(who) : remove_liquidity(who, a, b, s)
            \/ \E limit \in Limits, discount \in BOOLEAN :
                  \/ sell(who, a, b, amount, limit, discount)
                  \/ buy(who, a, b, amount, limit, discount)
      BY <1>1, Zenon DEF Call
    <2>1. CASE \E price \in Prices : create_pool(who, a, b, amount, price)
      BY <1>0, <2>1, CreateStep, Zenon
    <2>2. CASE \E limit \in Limits : add_liquidity(who, a, b, amount, limit)
      BY <1>0, <2>2, AddStep, Zenon
    <2>3. CASE \E s \in Amounts \cup Holdings(who) : remove_liquidity(who, a, b, s)
      <3>1. Amounts \cup Holdings(who) \subseteq Nat
        <4>1. Balance \subseteq Nat
          BY LimitAssumption DEF Balance
        <4>2. \A p \in Pairs : shares[p][who] \in Balance
          BY Zenon DEF IndInv, TypeOK
        <4> QED
          BY <4>1, <4>2, ArgumentAssumption, Zenon DEF Holdings
      <3> QED
        BY <1>0, <2>3, <3>1, RemoveStep, Zenon
    <2>4. CASE \E limit \in Limits, discount \in BOOLEAN :
                  sell(who, a, b, amount, limit, discount)
      <3> PICK limit \in Limits, discount \in BOOLEAN : sell(who, a, b, amount, limit, discount)
        BY <2>4, Zenon
      <3>1. exists(a, b) /\ execute_sell(who, a, b, amount, discount)
        BY Zenon DEF sell, validate_sell
      <3> QED
        BY <1>0, <3>1, SwapStep, Zenon DEF execute_sell, execute
    <2>5. CASE \E limit \in Limits, discount \in BOOLEAN :
                  buy(who, a, b, amount, limit, discount)
      <3> PICK limit \in Limits, discount \in BOOLEAN : buy(who, a, b, amount, limit, discount)
        BY <2>5, Zenon
      <3>1. exists(b, a) /\ execute_buy(who, b, a, amount, discount)
        BY Zenon DEF buy, validate_buy
      <3> QED
        BY <1>0, <3>1, SwapStep, Zenon DEF execute_buy, execute
    <2> QED
      BY <2>1, <2>2, <2>3, <2>4, <2>5, Zenon
  <1>2. CASE \E who \in Users, p \in Pairs, amount \in Amounts :
                \E asset \in p : TransferToPool(who, p, asset, amount)
    BY <1>0, <1>2, GiftStep, Zenon
  <1> QED
    BY <1>1, <1>2, Zenon DEF Next

\* The pools of the pallet that hold the incentivized asset implement the
\* market maker that liquidity mining expects: every call of the pallet is a
\* step of SharePool or leaves what SharePool shows alone.
THEOREM Implementation == Spec => ImplementsSharePool
  <1>1. Init => Pool!AMMInit
    BY IncentivizedAssumption
       DEF Init, Pool!AMMInit, live, backing, holdings, issued
  <1>2. IndInv /\ [Next]_vars => IndInv'
    BY NextInv, StutterInv, Zenon
  <1>3. IndInv /\ [Next]_vars => [Pool!AMMNext]_(Pool!amm_vars)
    <2>1. ASSUME UNCHANGED vars
          PROVE  UNCHANGED Pool!amm_vars
      BY <2>1, Zenon DEF vars, Pool!amm_vars, live, backing, holdings, issued
    <2> QED
      BY <2>1, NextStep, Zenon DEF AMMStep
  <1> QED
    BY <1>1, <1>2, <1>3, InitInv, PTL DEF Spec, ImplementsSharePool, Pool!AMMSpec

=============================================================================
