---------------------- MODULE LiquidityMining_proofs ----------------------
(***************************************************************************)
(* The records of liquidity mining (farms, pools, metadata, deposits and   *)
(* NFTs) agree, for every number of users, farms, pools and deposits, and  *)
(* whatever the AMM does and the formulas of rewards return.               *)
(***************************************************************************)
EXTENDS LiquidityMining, SumFacts, TLAPS

USE SMTT(30)

\* The parts of the types that the argument uses.  Ids are handed out in
\* order, and the NFTs of later deposits have larger ids.
Shape ==
    /\ pool_id \in Nat /\ pool_id <= MaxPoolId
    /\ nft_sequence \in Nat
    /\ DOMAIN global_pool \subseteq 1..pool_id
    /\ \A f \in DOMAIN global_pool : "liq_pools_count" \in DOMAIN global_pool[f]
    /\ IsFiniteSet(DOMAIN liquidity_pool)
    /\ DOMAIN liquidity_pool \subseteq Nat \X Pairs
    /\ \A k \in DOMAIN liquidity_pool : "id" \in DOMAIN liquidity_pool[k]
    /\ DOMAIN liq_pool_meta \subseteq 1..pool_id
    /\ \A id \in DOMAIN liq_pool_meta :
          liq_pool_meta[id] \in [asset_pair : Pairs, nfts : Int, farm_id : Nat]
    /\ IsFiniteSet(DOMAIN deposit)
    /\ \A n \in DOMAIN deposit : n \in Nat /\ n < (nft_sequence + 1) * NftIdBase

IndInv == Shape /\ RecordsAgree

\* A step that keeps the farms, their counts, the pools and their ids.
SamePools ==
    /\ DOMAIN global_pool' = DOMAIN global_pool
    /\ \A f \in DOMAIN global_pool :
          /\ "liq_pools_count" \in DOMAIN global_pool'[f]
          /\ global_pool'[f].liq_pools_count = global_pool[f].liq_pools_count
    /\ DOMAIN liquidity_pool' = DOMAIN liquidity_pool
    /\ \A k \in DOMAIN liquidity_pool :
          /\ "id" \in DOMAIN liquidity_pool'[k]
          /\ liquidity_pool'[k].id = liquidity_pool[k].id

-----------------------------------------------------------------------------
(* Ids *)

\* An NFT id names its pool, as long as pool ids stay below 2^32.
LEMMA Decoding ==
    ASSUME NEW s \in Nat, NEW id \in 0..MaxPoolId
    PROVE  get_pool_id_from_nft_id(encode_nft_id(id, s)) = id
<1> DEFINE n == s * NftIdBase + id
           q == n \div NftIdBase
           r == n % NftIdBase
<1>1. NftIdBase \in Nat /\ NftIdBase > 0 /\ id \in Nat /\ id < NftIdBase
  BY LMAssumption
<1>2. n \in Nat
  BY <1>1
<1>3. q \in Int /\ r \in 0 .. (NftIdBase - 1) /\ n = q * NftIdBase + r
  <2> HIDE DEF n
  <2> QED
    BY <1>1, <1>2
<1> HIDE DEF q, r
<1>4. (s - q) * NftIdBase = r - id
  BY <1>1, <1>3
<1>5. s = q
  <2>1. CASE s - q >= 1
    <3>1. (s - q) * NftIdBase >= NftIdBase
      BY <1>1, <1>3, <2>1
    <3> QED
      BY <1>1, <1>3, <1>4, <3>1
  <2>2. CASE s - q <= -1
    <3>1. (s - q) * NftIdBase <= -NftIdBase
      BY <1>1, <1>3, <2>2
    <3> QED
      BY <1>1, <1>3, <1>4, <3>1
  <2> QED
    BY <1>3, <2>1, <2>2
<1>6. r = id
  BY <1>1, <1>3, <1>4, <1>5
<1> QED
  BY <1>6, Zenon DEF get_pool_id_from_nft_id, encode_nft_id, r, n

\* The id of the next deposit is new and valid.
LEMMA Encoding ==
    ASSUME Shape, NEW id \in 1..MaxPoolId
    PROVE  LET n == encode_nft_id(id, nft_sequence + 1)
           IN  /\ n \in Nat
               /\ n \notin DOMAIN deposit
               /\ n < (nft_sequence + 2) * NftIdBase
               /\ ValidNftId(n)
<1> DEFINE b == (nft_sequence + 1) * NftIdBase
<1>1. NftIdBase \in Nat /\ NftIdBase > 0 /\ id \in Nat /\ id > 0 /\ id < NftIdBase
  BY LMAssumption
<1>2. nft_sequence \in Nat
  BY Zenon DEF Shape
<1>3. b \in Nat /\ b >= NftIdBase /\ (nft_sequence + 2) * NftIdBase = b + NftIdBase
  BY <1>1, <1>2
<1>4. encode_nft_id(id, nft_sequence + 1) = b + id
  BY Zenon DEF encode_nft_id
<1>5. \A n \in DOMAIN deposit : n \in Nat /\ n < b
  BY Zenon DEF Shape
<1> HIDE DEF b
<1> QED
  BY <1>1, <1>3, <1>4, <1>5 DEF ValidNftId

-----------------------------------------------------------------------------
(* The lazy updates *)

\* Updates change accumulators and not the count or the id.
LEMMA FarmUpdate ==
    ASSUME NEW farm, NEW funds, NEW now, "liq_pools_count" \in DOMAIN farm
    PROVE  LET new == update_global_pool(farm, funds, now)
           IN  /\ "liq_pools_count" \in DOMAIN new
               /\ new.liq_pools_count = farm.liq_pools_count
BY Zenon DEF update_global_pool

LEMMA PoolsUpdate ==
    ASSUME NEW farm, NEW pool, NEW funds, NEW now,
           "liq_pools_count" \in DOMAIN farm, "id" \in DOMAIN pool
    PROVE  LET u == maybe_update_pools(farm, pool, funds, now)
           IN  /\ "liq_pools_count" \in DOMAIN u.farm
               /\ u.farm.liq_pools_count = farm.liq_pools_count
               /\ "id" \in DOMAIN u.pool
               /\ u.pool.id = pool.id
<1> DEFINE new == update_global_pool(farm, funds, now)
           claim == claim_from_global_pool(new, pool)
           last == update_liq_pool(claim.pool, claim.reward, now)
<1>1. /\ "liq_pools_count" \in DOMAIN new
      /\ new.liq_pools_count = farm.liq_pools_count
  BY FarmUpdate, Zenon
<1> HIDE DEF new
<1>2. /\ "liq_pools_count" \in DOMAIN claim.farm
      /\ claim.farm.liq_pools_count = new.liq_pools_count
      /\ "id" \in DOMAIN claim.pool
      /\ claim.pool.id = pool.id
  BY <1>1, Zenon DEF claim_from_global_pool
<1> HIDE DEF claim
<1>3. "id" \in DOMAIN last /\ last.id = claim.pool.id
  BY <1>2, Zenon DEF update_liq_pool
<1> HIDE DEF last
<1>4. CASE pool.canceled \/ pool.total_shares = 0 \/ pool.updated_at = now
  BY <1>4, Zenon DEF maybe_update_pools
<1>5. CASE ~(pool.canceled \/ pool.total_shares = 0 \/ pool.updated_at = now)
  <2>1. /\ maybe_update_pools(farm, pool, funds, now).farm = claim.farm
        /\ maybe_update_pools(farm, pool, funds, now).pool = last
    BY <1>5, Zenon DEF maybe_update_pools, claim, last, new
  <2> QED
    BY <1>1, <1>2, <1>3, <2>1, Zenon
<1> QED
  BY <1>4, <1>5, Zenon

-----------------------------------------------------------------------------
\* What RecordsAgree says of one pool, and of the metadata with one id.
LEMMA OnePool ==
    ASSUME IndInv, NEW k \in DOMAIN liquidity_pool
    PROVE  LET id == liquidity_pool[k].id
           IN  /\ k = <<k[1], k[2]>>
               /\ k[1] \in DOMAIN global_pool
               /\ id \in DOMAIN liq_pool_meta
               /\ liq_pool_meta[id].farm_id = k[1]
               /\ liq_pool_meta[id].asset_pair = k[2]
<1>1. k = <<k[1], k[2]>>
  BY DEF IndInv, Shape
<1> QED
  BY <1>1, Zenon DEF IndInv, RecordsAgree

LEMMA OneMeta ==
    ASSUME SumFacts, IndInv, NEW id \in DOMAIN liq_pool_meta
    PROVE  /\ id \in 1..MaxPoolId
           /\ liq_pool_meta[id] \in [asset_pair : Pairs, nfts : Int, farm_id : Nat]
           /\ liq_pool_meta[id].nfts \in Int
           /\ IsFiniteSet(DepositsOf(id))
           /\ liq_pool_meta[id].nfts = Cardinality(DepositsOf(id))
           /\ foreign = {} => \/ DepositsOf(id) # {}
                              \/ \E k \in DOMAIN liquidity_pool : liquidity_pool[k].id = id
<1>1. /\ id \in 1..MaxPoolId
      /\ liq_pool_meta[id] \in [asset_pair : Pairs, nfts : Int, farm_id : Nat]
  BY LMAssumption DEF IndInv, Shape
<1>2. IsFiniteSet(DepositsOf(id))
  BY Zenon DEF SumFacts, FiniteFacts, SubsetFinite, IndInv, Shape, DepositsOf
<1>3. /\ liq_pool_meta[id].nfts = Cardinality(DepositsOf(id))
      /\ foreign = {} => \/ DepositsOf(id) # {}
                         \/ \E k \in DOMAIN liquidity_pool : liquidity_pool[k].id = id
  BY Zenon DEF IndInv, RecordsAgree
<1> QED
  BY <1>1, <1>2, <1>3, Zenon

\* The update a handler starts with.
LEMMA Update ==
    ASSUME IndInv, NEW k \in DOMAIN liquidity_pool
    PROVE  /\ "liq_pools_count" \in DOMAIN Updated(k).farm
           /\ Updated(k).farm.liq_pools_count = global_pool[k[1]].liq_pools_count
           /\ "id" \in DOMAIN Updated(k).pool
           /\ Updated(k).pool.id = liquidity_pool[k].id
<1>1. /\ "liq_pools_count" \in DOMAIN global_pool[k[1]]
      /\ "id" \in DOMAIN liquidity_pool[k]
  BY Zenon DEF IndInv, Shape, RecordsAgree
<1> QED
  BY <1>1, PoolsUpdate DEF Updated

\* A farm and a pool of it are replaced.
LEMMA Replacing ==
    ASSUME IndInv, NEW k \in DOMAIN liquidity_pool, NEW farm, NEW pool,
           "liq_pools_count" \in DOMAIN farm,
           farm.liq_pools_count = global_pool[k[1]].liq_pools_count,
           "id" \in DOMAIN pool,
           pool.id = liquidity_pool[k].id,
           global_pool' = [global_pool EXCEPT ![k[1]] = farm],
           liquidity_pool' = [liquidity_pool EXCEPT ![k] = pool]
    PROVE  SamePools
BY Zenon DEF IndInv, Shape, RecordsAgree, SamePools

\* Steps that change no key, count or id.
LEMMA Elsewhere ==
    ASSUME IndInv, SamePools, UNCHANGED <<pool_id, nft_sequence, liq_pool_meta>>,
           DOMAIN deposit' = DOMAIN deposit, DOMAIN nft_owner' = DOMAIN nft_owner,
           foreign \subseteq foreign'
    PROVE  IndInv'
<1>1. Shape'
  BY Zenon DEF IndInv, Shape, SamePools
<1>2. \A id : DepositsOf(id)' = DepositsOf(id)
  BY Zenon DEF DepositsOf
<1>3. \A f \in DOMAIN global_pool' :
         global_pool'[f].liq_pools_count = Cardinality(PoolsOf(f)')
  <2>1. \A f : PoolsOf(f)' = PoolsOf(f)
    BY Zenon DEF SamePools, PoolsOf
  <2> QED
    BY <2>1, Zenon DEF IndInv, SamePools, RecordsAgree
<1>4. \A k \in DOMAIN liquidity_pool' :
         /\ k[1] \in DOMAIN global_pool'
         /\ liquidity_pool'[k].id \in DOMAIN liq_pool_meta'
         /\ liq_pool_meta'[liquidity_pool'[k].id].farm_id = k[1]
         /\ liq_pool_meta'[liquidity_pool'[k].id].asset_pair = k[2]
  BY DEF IndInv, SamePools, RecordsAgree
<1>5. ASSUME NEW id \in DOMAIN liq_pool_meta'
      PROVE  /\ liq_pool_meta'[id].nfts = Cardinality(DepositsOf(id)')
             /\ foreign' = {} => \/ DepositsOf(id)' # {}
                                 \/ \E k \in DOMAIN liquidity_pool' : liquidity_pool'[k].id = id
  BY <1>2 DEF IndInv, SamePools, RecordsAgree
<1>6. \A n \in DOMAIN deposit' : HasMeta(n)'
  BY Zenon DEF IndInv, RecordsAgree, HasMeta
<1>7. DOMAIN deposit' = DOMAIN nft_owner'
  BY Zenon DEF IndInv, RecordsAgree
<1>8. RecordsAgree'
  BY <1>3, <1>4, <1>5, <1>6, <1>7, Zenon DEF RecordsAgree
<1> QED
  BY <1>1, <1>8, Zenon DEF IndInv

-----------------------------------------------------------------------------
(* Calls that change a pool and no key *)

LEMMA Changing ==
    ASSUME IndInv, NEW who, NEW k, NEW stake, NEW change, ChangePool(who, k, stake, change)
    PROVE  IndInv'
<1> DEFINE u == Updated(k)
           farm == [u.farm EXCEPT !.total_shares_z = @ - u.pool.stake_in_global_pool + stake]
           pool == [u.pool EXCEPT !.stake_in_global_pool = stake,
                                  !.multiplier = change.multiplier,
                                  !.canceled = change.canceled]
<1>1. /\ k \in DOMAIN liquidity_pool
      /\ global_pool' = [global_pool EXCEPT ![k[1]] = farm]
      /\ liquidity_pool' = [liquidity_pool EXCEPT ![k] = pool]
      /\ UNCHANGED <<pool_id, nft_sequence, deposit, liq_pool_meta, nft_owner, foreign>>
  BY Zenon DEF ChangePool
<1>2. /\ "liq_pools_count" \in DOMAIN u.farm
      /\ u.farm.liq_pools_count = global_pool[k[1]].liq_pools_count
      /\ "id" \in DOMAIN u.pool
      /\ u.pool.id = liquidity_pool[k].id
  BY <1>1, Update, Zenon
<1> HIDE DEF u
<1>3. /\ "liq_pools_count" \in DOMAIN farm
      /\ farm.liq_pools_count = global_pool[k[1]].liq_pools_count
      /\ "id" \in DOMAIN pool
      /\ pool.id = liquidity_pool[k].id
  BY <1>2, Zenon
<1> HIDE DEF farm, pool
<1>4. SamePools
  BY <1>1, <1>3, Replacing, Zenon
<1> QED
  BY <1>1, <1>4, Elsewhere, Zenon

LEMMA Resuming ==
    ASSUME IndInv, NEW who, NEW k, NEW multiplier, resume_liquidity_pool(who, k, multiplier)
    PROVE  IndInv'
<1> DEFINE old == UpdatedFarm(k[1])
           farm == [old EXCEPT !.total_shares_z = @ + StakeOfResumed(liquidity_pool[k], multiplier)]
           pool == [liquidity_pool[k] EXCEPT
                      !.accumulated_rpz = old.accumulated_rpz,
                      !.updated_at = get_now_period(global_pool[k[1]]),
                      !.stake_in_global_pool =
                          calculate_global_pool_shares(liquidity_pool[k].total_valued_shares, multiplier),
                      !.canceled = FALSE,
                      !.multiplier = multiplier]
<1>1. /\ k \in DOMAIN liquidity_pool
      /\ global_pool' = [global_pool EXCEPT ![k[1]] = farm]
      /\ liquidity_pool' = [liquidity_pool EXCEPT ![k] = pool]
      /\ UNCHANGED <<pool_id, nft_sequence, deposit, liq_pool_meta, nft_owner, foreign>>
  BY Zenon DEF resume_liquidity_pool
<1>2. /\ "liq_pools_count" \in DOMAIN global_pool[k[1]]
      /\ "id" \in DOMAIN liquidity_pool[k]
  BY <1>1, Zenon DEF IndInv, Shape, RecordsAgree
<1>3. /\ "liq_pools_count" \in DOMAIN old
      /\ old.liq_pools_count = global_pool[k[1]].liq_pools_count
  BY <1>2, FarmUpdate, Zenon DEF UpdatedFarm
<1> HIDE DEF old
<1>4. /\ "liq_pools_count" \in DOMAIN farm
      /\ farm.liq_pools_count = global_pool[k[1]].liq_pools_count
  BY <1>3, Zenon
<1>5. "id" \in DOMAIN pool /\ pool.id = liquidity_pool[k].id
  BY <1>2, Zenon
<1> HIDE DEF farm, pool
<1>6. SamePools
  BY <1>1, <1>4, <1>5, Replacing, Zenon
<1> QED
  BY <1>1, <1>6, Elsewhere, Zenon

LEMMA Claiming ==
    ASSUME IndInv, NEW who, NEW n, claim_rewards(who, n)
    PROVE  IndInv'
<1> DEFINE k == PoolKey(n)
           u == Updated(k)
<1>1. /\ k \in DOMAIN liquidity_pool
      /\ global_pool' = [global_pool EXCEPT ![k[1]] = u.farm]
      /\ liquidity_pool' = [liquidity_pool EXCEPT ![k] = u.pool]
      /\ DOMAIN deposit' = DOMAIN deposit
      /\ NoteForeign(n, u.pool)
      /\ UNCHANGED <<pool_id, nft_sequence, liq_pool_meta, nft_owner>>
  BY Zenon DEF claim_rewards
<1>2. /\ "liq_pools_count" \in DOMAIN u.farm
      /\ u.farm.liq_pools_count = global_pool[k[1]].liq_pools_count
      /\ "id" \in DOMAIN u.pool
      /\ u.pool.id = liquidity_pool[k].id
  BY <1>1, Update, Zenon
<1> HIDE DEF u, k
<1>3. SamePools
  BY <1>1, <1>2, Replacing, Zenon
<1>4. foreign \subseteq foreign'
  BY <1>1, Zenon DEF NoteForeign
<1> QED
  BY <1>1, <1>3, <1>4, Elsewhere, Zenon

-----------------------------------------------------------------------------
(* Calls that add or remove a farm *)

\* A new farm has no pools: the pools of all farms belong to earlier ids.
LEMMA FarmCreation ==
    ASSUME SumFacts, IndInv, NEW who, NEW total, NEW periods, NEW blocks, NEW yield,
           create_farm(who, total, periods, blocks, yield)
    PROVE  IndInv'
<1> DEFINE f == pool_id + 1
           farm == NewGlobalPool(block \div blocks, yield, blocks, who, total \div periods)
<1>1. /\ pool_id < MaxPoolId
      /\ pool_id' = f
      /\ global_pool' = insert(global_pool, f, farm)
      /\ UNCHANGED <<nft_sequence, liquidity_pool, deposit, liq_pool_meta, nft_owner, foreign>>
  BY Zenon DEF create_farm, NextPoolId
<1>2. "liq_pools_count" \in DOMAIN farm /\ farm.liq_pools_count = 0
  BY Zenon DEF NewGlobalPool
<1> HIDE DEF farm
<1>3. pool_id \in Nat /\ f \in Nat /\ f <= MaxPoolId /\ f \notin DOMAIN global_pool
  BY <1>1, LMAssumption DEF IndInv, Shape
<1>4. Shape'
  BY <1>1, <1>2, <1>3 DEF IndInv, Shape, insert
<1>5. PoolsOf(f) = {}
  BY <1>3, Zenon DEF IndInv, RecordsAgree, PoolsOf
<1>6. ASSUME NEW g \in DOMAIN global_pool'
      PROVE  global_pool'[g].liq_pools_count = Cardinality(PoolsOf(g))
  <2>1. CASE g = f
    BY <1>1, <1>2, <1>5, <2>1, Zenon DEF SumFacts, FiniteFacts, EmptyFinite, insert
  <2>2. CASE g # f
    BY <1>1, <1>6, <2>2, Zenon DEF IndInv, RecordsAgree, PoolsOf, insert
  <2> QED
    BY <2>1, <2>2, Zenon
<1>7. \A id : DepositsOf(id)' = DepositsOf(id)
  BY <1>1, Zenon DEF DepositsOf
<1>8. \A n : HasMeta(n)' = HasMeta(n)
  BY <1>1, Zenon DEF HasMeta
<1>9. RecordsAgree'
  BY <1>1, <1>6, <1>7, <1>8, Zenon DEF IndInv, RecordsAgree, PoolsOf, insert
<1> QED
  BY <1>4, <1>9, Zenon DEF IndInv

\* The count of a farm that is destroyed is zero, so no pool is left in it.
LEMMA FarmDestruction ==
    ASSUME SumFacts, IndInv, NEW who, NEW f, destroy_farm(who, f)
    PROVE  IndInv'
<1>1. /\ f \in DOMAIN global_pool
      /\ global_pool[f].liq_pools_count = 0
      /\ global_pool' = remove(global_pool, f)
      /\ UNCHANGED <<pool_id, nft_sequence, liquidity_pool, deposit, liq_pool_meta, nft_owner, foreign>>
  BY Zenon DEF destroy_farm, IsEmptyFarm
<1>2. Shape'
  BY <1>1, Zenon DEF IndInv, Shape, remove
<1>3. PoolsOf(f) = {}
  <2>1. IsFiniteSet(PoolsOf(f))
    BY Zenon DEF SumFacts, FiniteFacts, SubsetFinite, IndInv, Shape, PoolsOf
  <2>2. Cardinality(PoolsOf(f)) = 0
    BY <1>1, Zenon DEF IndInv, RecordsAgree, PoolsOf
  <2> QED
    BY <2>1, <2>2, Zenon DEF SumFacts, FiniteFacts, EmptyFinite
<1>4. \A id : DepositsOf(id)' = DepositsOf(id)
  BY <1>1, Zenon DEF DepositsOf
<1>5. \A n : HasMeta(n)' = HasMeta(n)
  BY <1>1, Zenon DEF HasMeta
<1>6. RecordsAgree'
  BY <1>1, <1>3, <1>4, <1>5, Zenon DEF IndInv, RecordsAgree, PoolsOf, remove
<1> QED
  BY <1>2, <1>6, Zenon DEF IndInv

-----------------------------------------------------------------------------
(* Calls that add or remove a pool *)

\* A key of a pool is the farm and the pair that the metadata of its id names,
\* so pools with one id are one.
LEMMA UniqueIds ==
    ASSUME IndInv, NEW j \in DOMAIN liquidity_pool, NEW k \in DOMAIN liquidity_pool,
           liquidity_pool[j].id = liquidity_pool[k].id
    PROVE  j = k
<1>1. j[1] = k[1] /\ j[2] = k[2]
  BY DEF IndInv, RecordsAgree
<1>2. j = <<j[1], j[2]>> /\ k = <<k[1], k[2]>>
  BY DEF IndInv, Shape
<1> QED
  BY <1>1, <1>2, Zenon

\* A new pool has an id, and so metadata, without deposits.
LEMMA PoolCreation ==
    ASSUME SumFacts, IndInv, NEW who, NEW f \in DOMAIN global_pool, NEW p \in Pairs, NEW multiplier,
           NEW curve, add_liquidity_pool(who, <<f, p>>, multiplier, curve)
    PROVE  IndInv'
<1> DEFINE k == <<f, p>>
           id == pool_id + 1
           pool == NewLiquidityPool(id, get_now_period(global_pool[f]), curve, multiplier)
           meta == [asset_pair |-> p, nfts |-> 0, farm_id |-> f]
           old == UpdatedFarm(f)
           farm == [old EXCEPT !.liq_pools_count = @ + 1]
<1>1. /\ k \notin DOMAIN liquidity_pool
      /\ pool_id < MaxPoolId
      /\ pool_id' = id
      /\ liq_pool_meta' = insert(liq_pool_meta, id, meta)
      /\ liquidity_pool' = insert(liquidity_pool, k, pool)
      /\ global_pool' = [global_pool EXCEPT ![f] = farm]
      /\ UNCHANGED <<nft_sequence, deposit, nft_owner, foreign>>
  BY Zenon DEF add_liquidity_pool, NextPoolId
<1>2. "id" \in DOMAIN pool /\ pool.id = id
  BY Zenon DEF NewLiquidityPool
<1>3. /\ "liq_pools_count" \in DOMAIN old
      /\ old.liq_pools_count = global_pool[f].liq_pools_count
  BY FarmUpdate, Zenon DEF UpdatedFarm, IndInv, Shape
<1> HIDE DEF old
<1>4. /\ "liq_pools_count" \in DOMAIN farm
      /\ farm.liq_pools_count = global_pool[f].liq_pools_count + 1
  BY <1>3, Zenon
<1>5. /\ pool_id \in Nat /\ id \in Nat /\ id <= MaxPoolId
      /\ id \notin DOMAIN liq_pool_meta
      /\ f \in Nat
  BY <1>1, LMAssumption DEF IndInv, Shape
<1>6. /\ meta \in [asset_pair : Pairs, nfts : Int, farm_id : Nat]
      /\ meta.asset_pair = p /\ meta.nfts = 0 /\ meta.farm_id = f
  BY <1>5
<1>7. k \in Nat \X Pairs /\ k[1] = f /\ k[2] = p
  BY <1>5, Zenon
<1> HIDE DEF pool, farm, meta, k
<1>8. Shape'
  <2>1. DOMAIN liquidity_pool' = DOMAIN liquidity_pool \cup {k}
    BY <1>1, Zenon DEF insert
  <2>2. IsFiniteSet(DOMAIN liquidity_pool')
    BY <2>1 DEF SumFacts, FiniteFacts, AddFinite, IndInv, Shape
  <2>3. \A j \in DOMAIN liquidity_pool' : "id" \in DOMAIN liquidity_pool'[j]
    BY <1>1, <1>2, Zenon DEF IndInv, Shape, insert
  <2>4. /\ DOMAIN liq_pool_meta' \subseteq 1..pool_id'
        /\ \A i \in DOMAIN liq_pool_meta' :
              liq_pool_meta'[i] \in [asset_pair : Pairs, nfts : Int, farm_id : Nat]
    BY <1>1, <1>5, <1>6 DEF IndInv, Shape, insert
  <2>5. /\ DOMAIN global_pool' \subseteq 1..pool_id'
        /\ \A g \in DOMAIN global_pool' : "liq_pools_count" \in DOMAIN global_pool'[g]
    BY <1>1, <1>4, <1>5 DEF IndInv, Shape
  <2>6. DOMAIN liquidity_pool' \subseteq Nat \X Pairs
    BY <1>7, <2>1, Zenon DEF IndInv, Shape
  <2> QED
    BY <1>1, <1>5, <2>2, <2>3, <2>4, <2>5, <2>6, Zenon DEF IndInv, Shape
<1>9. ASSUME NEW g \in DOMAIN global_pool'
      PROVE  global_pool'[g].liq_pools_count = Cardinality(PoolsOf(g)')
  <2>1. /\ IsFiniteSet(PoolsOf(g))
        /\ global_pool[g].liq_pools_count = Cardinality(PoolsOf(g))
    BY <1>1, Zenon DEF SumFacts, FiniteFacts, SubsetFinite, IndInv, Shape, RecordsAgree, PoolsOf
  <2>2. CASE g = f
    <3>1. PoolsOf(g)' = PoolsOf(g) \cup {k} /\ k \notin PoolsOf(g)
      BY <1>1, <1>7, <2>2, Zenon DEF PoolsOf, insert
    <3>2. Cardinality(PoolsOf(g)') = Cardinality(PoolsOf(g)) + 1
      BY <2>1, <3>1, Zenon DEF SumFacts, FiniteFacts, AddFinite
    <3> QED
      BY <1>1, <1>4, <2>1, <2>2, <3>2, Zenon
  <2>3. CASE g # f
    <3>1. PoolsOf(g)' = PoolsOf(g)
      BY <1>1, <1>7, <2>3, Zenon DEF PoolsOf, insert
    <3> QED
      BY <1>1, <2>1, <2>3, <3>1, Zenon
  <2> QED
    BY <2>2, <2>3, Zenon
<1>10. ASSUME NEW j \in DOMAIN liquidity_pool'
       PROVE  /\ j[1] \in DOMAIN global_pool'
              /\ liquidity_pool'[j].id \in DOMAIN liq_pool_meta'
              /\ liq_pool_meta'[liquidity_pool'[j].id].farm_id = j[1]
              /\ liq_pool_meta'[liquidity_pool'[j].id].asset_pair = j[2]
  <2>1. CASE j = k
    BY <1>1, <1>2, <1>6, <1>7, <2>1, Zenon DEF insert
  <2>2. CASE j # k
    BY <1>1, <1>5, <1>10, <2>2, Zenon DEF IndInv, RecordsAgree, insert
  <2> QED
    BY <2>1, <2>2, Zenon
<1>11. \A i : DepositsOf(i)' = DepositsOf(i)
  BY <1>1, Zenon DEF DepositsOf
<1>12. DepositsOf(id) = {}
  BY <1>5, Zenon DEF IndInv, RecordsAgree, HasMeta, DepositsOf
<1>13. ASSUME NEW i \in DOMAIN liq_pool_meta'
       PROVE  /\ liq_pool_meta'[i].nfts = Cardinality(DepositsOf(i)')
              /\ foreign' = {} => \/ DepositsOf(i)' # {}
                                  \/ \E j \in DOMAIN liquidity_pool' : liquidity_pool'[j].id = i
  <2>1. CASE i = id
    BY <1>1, <1>2, <1>6, <1>11, <1>12, <2>1, Zenon DEF SumFacts, FiniteFacts, EmptyFinite, insert
  <2>2. CASE i # id
    BY <1>1, <1>11, <1>13, <2>2, Zenon DEF IndInv, RecordsAgree, insert
  <2> QED
    BY <2>1, <2>2, Zenon
<1>14. \A n \in DOMAIN deposit' : HasMeta(n)'
  BY <1>1, Zenon DEF IndInv, RecordsAgree, HasMeta, insert
<1>15. RecordsAgree'
  BY <1>1, <1>9, <1>10, <1>13, <1>14, Zenon DEF IndInv, RecordsAgree, PoolsOf
<1> QED
  BY <1>8, <1>15, Zenon DEF IndInv

\* The metadata of a removed pool goes with it if it counts no deposits.
LEMMA PoolRemoval ==
    ASSUME SumFacts, IndInv, NEW who, NEW k, remove_liquidity_pool(who, k)
    PROVE  IndInv'
<1> DEFINE id == liquidity_pool[k].id
           f == k[1]
<1>1. /\ k \in DOMAIN liquidity_pool
      /\ global_pool' = [global_pool EXCEPT ![f].liq_pools_count = @ - 1]
      /\ liq_pool_meta' = MetaAfterRemoval(id)
      /\ liquidity_pool' = remove(liquidity_pool, k)
      /\ UNCHANGED <<pool_id, nft_sequence, deposit, nft_owner, foreign>>
  BY Zenon DEF remove_liquidity_pool
<1>2. f \in DOMAIN global_pool /\ "liq_pools_count" \in DOMAIN global_pool[f] /\ id \in DOMAIN liq_pool_meta
  BY <1>1, Zenon DEF IndInv, Shape, RecordsAgree
<1>3. /\ DOMAIN global_pool' = DOMAIN global_pool
      /\ \A g \in DOMAIN global_pool :
            /\ "liq_pools_count" \in DOMAIN global_pool'[g]
            /\ g # f => global_pool'[g] = global_pool[g]
      /\ global_pool'[f].liq_pools_count = global_pool[f].liq_pools_count - 1
  BY <1>1, <1>2, Zenon DEF IndInv, Shape
<1>4. /\ DOMAIN liq_pool_meta' \subseteq DOMAIN liq_pool_meta
      /\ \A i \in DOMAIN liq_pool_meta' : liq_pool_meta'[i] = liq_pool_meta[i]
      /\ \A i \in DOMAIN liq_pool_meta : i # id => i \in DOMAIN liq_pool_meta'
      /\ id \in DOMAIN liq_pool_meta' <=> liq_pool_meta[id].nfts # 0
  BY <1>1, <1>2, Zenon DEF MetaAfterRemoval, remove
<1>5. /\ DOMAIN liquidity_pool' = DOMAIN liquidity_pool \ {k}
      /\ \A j \in DOMAIN liquidity_pool' : liquidity_pool'[j] = liquidity_pool[j]
  BY <1>1, Zenon DEF remove
<1>6. \A j \in DOMAIN liquidity_pool' : liquidity_pool[j].id # id
  BY <1>1, <1>5, UniqueIds, Zenon
<1>7. Shape'
  <2>1. IsFiniteSet(DOMAIN liquidity_pool')
    BY <1>5 DEF SumFacts, FiniteFacts, RemoveFinite, IndInv, Shape
  <2> QED
    BY <1>1, <1>3, <1>4, <1>5, <2>1, Zenon DEF IndInv, Shape
<1>8. ASSUME NEW g \in DOMAIN global_pool'
      PROVE  global_pool'[g].liq_pools_count = Cardinality(PoolsOf(g)')
  <2>1. /\ IsFiniteSet(PoolsOf(g))
        /\ global_pool[g].liq_pools_count = Cardinality(PoolsOf(g))
    BY <1>3, Zenon DEF SumFacts, FiniteFacts, SubsetFinite, IndInv, Shape, RecordsAgree, PoolsOf
  <2>2. CASE g = f
    <3>1. PoolsOf(g)' = PoolsOf(g) \ {k} /\ k \in PoolsOf(g)
      BY <1>1, <1>5, <2>2, Zenon DEF PoolsOf
    <3>2. Cardinality(PoolsOf(g)') = Cardinality(PoolsOf(g)) - 1
      BY <2>1, <3>1, Zenon DEF SumFacts, FiniteFacts, RemoveFinite
    <3> QED
      BY <1>3, <2>1, <2>2, <3>2, Zenon
  <2>3. CASE g # f
    <3>1. PoolsOf(g)' = PoolsOf(g)
      BY <1>5, <2>3, Zenon DEF PoolsOf
    <3> QED
      BY <1>3, <2>1, <2>3, <3>1, Zenon
  <2> QED
    BY <2>2, <2>3, Zenon
<1>9. ASSUME NEW j \in DOMAIN liquidity_pool'
      PROVE  /\ j[1] \in DOMAIN global_pool'
             /\ liquidity_pool'[j].id \in DOMAIN liq_pool_meta'
             /\ liq_pool_meta'[liquidity_pool'[j].id].farm_id = j[1]
             /\ liq_pool_meta'[liquidity_pool'[j].id].asset_pair = j[2]
  <2>1. j \in DOMAIN liquidity_pool /\ liquidity_pool'[j].id = liquidity_pool[j].id
    BY <1>5, Zenon
  <2>2. liquidity_pool[j].id \in DOMAIN liq_pool_meta'
    BY <1>4, <1>6, <2>1, OnePool, Zenon
  <2> QED
    BY <1>3, <1>4, <2>1, <2>2, OnePool
<1>10. \A i : DepositsOf(i)' = DepositsOf(i)
  BY <1>1, Zenon DEF DepositsOf
<1>11. \A i : IsFiniteSet(DepositsOf(i))
  BY Zenon DEF SumFacts, FiniteFacts, SubsetFinite, IndInv, Shape, DepositsOf
<1>12. liq_pool_meta[id].nfts = 0 <=> DepositsOf(id) = {}
  BY <1>2, <1>11, Zenon DEF SumFacts, FiniteFacts, EmptyFinite, IndInv, RecordsAgree
<1>13. ASSUME NEW i \in DOMAIN liq_pool_meta'
       PROVE  /\ liq_pool_meta'[i].nfts = Cardinality(DepositsOf(i)')
              /\ foreign' = {} => \/ DepositsOf(i)' # {}
                                  \/ \E j \in DOMAIN liquidity_pool' : liquidity_pool'[j].id = i
  <2>1. liq_pool_meta'[i].nfts = Cardinality(DepositsOf(i)')
    BY <1>4, <1>10, Zenon DEF IndInv, RecordsAgree
  <2>2. CASE i = id
    BY <1>4, <1>10, <1>12, <2>1, <2>2, Zenon
  <2>3. CASE i # id
    BY <1>1, <1>4, <1>5, <1>10, <2>1, <2>3 DEF IndInv, RecordsAgree
  <2> QED
    BY <2>2, <2>3, Zenon
<1>14. \A n \in DOMAIN deposit' : HasMeta(n)'
  <2> SUFFICES ASSUME NEW n \in DOMAIN deposit
               PROVE  get_pool_id_from_nft_id(n) \in DOMAIN liq_pool_meta'
    BY <1>1, Zenon DEF IndInv, RecordsAgree, HasMeta
  <2>1. CASE get_pool_id_from_nft_id(n) = id
    BY <1>4, <1>12, <2>1, Zenon DEF DepositsOf
  <2>2. CASE get_pool_id_from_nft_id(n) # id
    BY <1>4, <2>2, Zenon DEF IndInv, RecordsAgree, HasMeta
  <2> QED
    BY <2>1, <2>2, Zenon
<1>15. RecordsAgree'
  BY <1>1, <1>8, <1>9, <1>13, <1>14, Zenon DEF IndInv, RecordsAgree, PoolsOf
<1> QED
  BY <1>7, <1>15, Zenon DEF IndInv

-----------------------------------------------------------------------------
(* Calls that add or remove a deposit *)

\* What a step that keeps the pools leaves of the farms' and the pools' part of
\* RecordsAgree, given that the metadata of pools stays.
LEMMA PoolsKept ==
    ASSUME IndInv, SamePools,
           \A k \in DOMAIN liquidity_pool :
               LET id == liquidity_pool[k].id
               IN  /\ id \in DOMAIN liq_pool_meta'
                   /\ liq_pool_meta'[id].farm_id = liq_pool_meta[id].farm_id
                   /\ liq_pool_meta'[id].asset_pair = liq_pool_meta[id].asset_pair
    PROVE  /\ \A f \in DOMAIN global_pool' :
                 global_pool'[f].liq_pools_count = Cardinality(PoolsOf(f)')
           /\ \A k \in DOMAIN liquidity_pool' :
                 /\ k[1] \in DOMAIN global_pool'
                 /\ liquidity_pool'[k].id \in DOMAIN liq_pool_meta'
                 /\ liq_pool_meta'[liquidity_pool'[k].id].farm_id = k[1]
                 /\ liq_pool_meta'[liquidity_pool'[k].id].asset_pair = k[2]
<1>1. \A f \in DOMAIN global_pool' :
         global_pool'[f].liq_pools_count = Cardinality(PoolsOf(f)')
  <2>1. \A f : PoolsOf(f)' = PoolsOf(f)
    BY Zenon DEF SamePools, PoolsOf
  <2> QED
    BY <2>1, Zenon DEF IndInv, SamePools, RecordsAgree
<1>2. ASSUME NEW k \in DOMAIN liquidity_pool'
      PROVE  /\ k[1] \in DOMAIN global_pool'
             /\ liquidity_pool'[k].id \in DOMAIN liq_pool_meta'
             /\ liq_pool_meta'[liquidity_pool'[k].id].farm_id = k[1]
             /\ liq_pool_meta'[liquidity_pool'[k].id].asset_pair = k[2]
  BY Zenon DEF IndInv, SamePools, RecordsAgree
<1> QED
  BY <1>1, <1>2, Zenon

\* The deposits of id are counted anew.
Recounted(id, m) ==
    /\ DOMAIN liq_pool_meta' = DOMAIN liq_pool_meta
    /\ \A i \in DOMAIN liq_pool_meta :
          /\ liq_pool_meta'[i] \in [asset_pair : Pairs, nfts : Int, farm_id : Nat]
          /\ liq_pool_meta'[i].farm_id = liq_pool_meta[i].farm_id
          /\ liq_pool_meta'[i].asset_pair = liq_pool_meta[i].asset_pair
          /\ i # id => liq_pool_meta'[i].nfts = liq_pool_meta[i].nfts
    /\ liq_pool_meta'[id].nfts = m

\* What counting leaves of the metadata.
LEMMA Recounting ==
    ASSUME IndInv, NEW id \in DOMAIN liq_pool_meta, NEW m \in Int,
           liq_pool_meta' = [liq_pool_meta EXCEPT ![id].nfts = m]
    PROVE  Recounted(id, m)
<1>1. \A i \in DOMAIN liq_pool_meta :
         liq_pool_meta[i] \in [asset_pair : Pairs, nfts : Int, farm_id : Nat]
  BY Zenon DEF IndInv, Shape
<1>2. DOMAIN liq_pool_meta' = DOMAIN liq_pool_meta
  OBVIOUS
<1>3. liq_pool_meta'[id] = [liq_pool_meta[id] EXCEPT !.nfts = m]
  OBVIOUS
<1>4. \A i \in DOMAIN liq_pool_meta : i # id => liq_pool_meta'[i] = liq_pool_meta[i]
  OBVIOUS
<1>5. /\ liq_pool_meta'[id] \in [asset_pair : Pairs, nfts : Int, farm_id : Nat]
      /\ liq_pool_meta'[id].farm_id = liq_pool_meta[id].farm_id
      /\ liq_pool_meta'[id].asset_pair = liq_pool_meta[id].asset_pair
      /\ liq_pool_meta'[id].nfts = m
  BY <1>1, <1>3, Zenon
<1> QED
  BY <1>1, <1>2, <1>4, <1>5, Zenon DEF Recounted

\* A deposit has a new NFT, which names the pool it was made in.
LEMMA Depositing ==
    ASSUME SumFacts, IndInv, NEW who, NEW k \in DOMAIN liquidity_pool, NEW amount,
           deposit_shares(who, k, amount)
    PROVE  IndInv'
<1>0. PICK id, n : id = liquidity_pool[k].id /\ n = encode_nft_id(id, nft_sequence + 1)
  OBVIOUS
<1> DEFINE u == Updated(k)
           valued_shares == get_valued_shares(amount, k[2])
           stake == StakeAdded(amount, valued_shares, u.pool)
           farm == [u.farm EXCEPT !.total_shares_z = @ + stake]
           pool == [u.pool EXCEPT !.total_shares = @ + amount,
                                  !.total_valued_shares = @ + valued_shares,
                                  !.stake_in_global_pool = @ + stake]
<1>1. /\ "liq_pools_count" \in DOMAIN u.farm
      /\ u.farm.liq_pools_count = global_pool[k[1]].liq_pools_count
      /\ "id" \in DOMAIN u.pool
      /\ u.pool.id = id
  BY <1>0, Update, Zenon
<1>2. /\ global_pool' = [global_pool EXCEPT ![k[1]] = farm]
      /\ liquidity_pool' = [liquidity_pool EXCEPT ![k] = pool]
      /\ nft_sequence' = nft_sequence + 1
      /\ DOMAIN nft_owner' = DOMAIN nft_owner \cup {n}
      /\ DOMAIN deposit' = DOMAIN deposit \cup {n}
      /\ liq_pool_meta' = [liq_pool_meta EXCEPT ![id].nfts = liq_pool_meta[id].nfts + 1]
      /\ UNCHANGED <<pool_id, foreign>>
  BY <1>0, <1>1, Zenon DEF deposit_shares, insert
<1> HIDE DEF u, stake, valued_shares
<1>3. /\ "liq_pools_count" \in DOMAIN farm
      /\ farm.liq_pools_count = global_pool[k[1]].liq_pools_count
      /\ "id" \in DOMAIN pool
      /\ pool.id = liquidity_pool[k].id
  BY <1>0, <1>1, Zenon
<1> HIDE DEF farm, pool
<1>4. SamePools
  BY <1>2, <1>3, Replacing, Zenon
<1>5. id \in DOMAIN liq_pool_meta /\ id \in 1..MaxPoolId /\ liq_pool_meta[id].nfts \in Int
  BY <1>0, OnePool, OneMeta, Zenon
<1>6. /\ n \in Nat
      /\ n \notin DOMAIN deposit
      /\ n < (nft_sequence + 2) * NftIdBase
      /\ ValidNftId(n)
  BY <1>0, <1>5, Encoding, Zenon DEF IndInv
<1>7. get_pool_id_from_nft_id(n) = id
  <2>1. nft_sequence + 1 \in Nat /\ id \in 0..MaxPoolId
    BY <1>5 DEF IndInv, Shape
  <2> QED
    BY <1>0, <2>1, Decoding, Zenon
<1>8. Recounted(id, liq_pool_meta[id].nfts + 1)
  <2>1. PICK m \in Int : m = liq_pool_meta[id].nfts + 1
    BY <1>5
  <2>2. Recounted(id, m)
    BY <1>2, <1>5, <2>1, Recounting, Zenon
  <2> QED
    BY <2>1, <2>2, Zenon
<1>9. Shape'
  <2>1. IsFiniteSet(DOMAIN deposit')
    <3>1. DOMAIN deposit' = DOMAIN deposit \cup {n}
      BY <1>2, Zenon
    <3>2. IsFiniteSet(DOMAIN deposit)
      BY Zenon DEF IndInv, Shape
    <3> QED
      BY <3>1, <3>2, Zenon DEF SumFacts, FiniteFacts, AddFinite
  <2>2. ASSUME NEW m \in DOMAIN deposit'
        PROVE  m \in Nat /\ m < (nft_sequence' + 1) * NftIdBase
    <3>1. nft_sequence \in Nat /\ NftIdBase \in Nat
      BY LMAssumption, Zenon DEF IndInv, Shape
    <3>2. /\ (nft_sequence' + 1) * NftIdBase = (nft_sequence + 2) * NftIdBase
          /\ (nft_sequence + 1) * NftIdBase <= (nft_sequence + 2) * NftIdBase
          /\ (nft_sequence + 1) * NftIdBase \in Nat
          /\ (nft_sequence + 2) * NftIdBase \in Nat
      BY <1>2, <3>1
    <3>3. CASE m = n
      BY <1>6, <3>2, <3>3, Zenon
    <3>4. CASE m \in DOMAIN deposit
      <4>1. m \in Nat /\ m < (nft_sequence + 1) * NftIdBase
        BY <3>4, Zenon DEF IndInv, Shape
      <4> QED
        BY <3>2, <4>1
    <3> QED
      BY <1>2, <3>3, <3>4, Zenon
  <2>3. nft_sequence' \in Nat
    BY <1>2 DEF IndInv, Shape
  <2> QED
    BY <1>2, <1>4, <1>8, <2>1, <2>2, <2>3, Zenon DEF IndInv, Shape, SamePools, Recounted
<1>10. /\ \A i : i # id => DepositsOf(i)' = DepositsOf(i)
       /\ DepositsOf(id)' = DepositsOf(id) \cup {n}
       /\ n \notin DepositsOf(id)
  BY <1>2, <1>6, <1>7, Zenon DEF DepositsOf
<1>11. Cardinality(DepositsOf(id)') = Cardinality(DepositsOf(id)) + 1
  <2>1. IsFiniteSet(DepositsOf(id))
    BY Zenon DEF SumFacts, FiniteFacts, SubsetFinite, IndInv, Shape, DepositsOf
  <2> QED
    BY <1>10, <2>1, Zenon DEF SumFacts, FiniteFacts, AddFinite
<1>12. ASSUME NEW i \in DOMAIN liq_pool_meta'
       PROVE  /\ liq_pool_meta'[i].nfts = Cardinality(DepositsOf(i)')
              /\ foreign' = {} => \/ DepositsOf(i)' # {}
                                  \/ \E j \in DOMAIN liquidity_pool' : liquidity_pool'[j].id = i
  <2>1. CASE i = id
    BY <1>5, <1>8, <1>10, <1>11, <2>1, Zenon DEF IndInv, RecordsAgree, Recounted
  <2>2. CASE i # id
    BY <1>2, <1>4, <1>8, <1>10, <2>2 DEF IndInv, RecordsAgree, SamePools, Recounted
  <2> QED
    BY <2>1, <2>2, Zenon
<1>13. \A m \in DOMAIN deposit' : HasMeta(m)'
  BY <1>2, <1>5, <1>6, <1>7, <1>8 DEF IndInv, RecordsAgree, HasMeta, Recounted
<1>14. DOMAIN deposit' = DOMAIN nft_owner'
  BY <1>2, Zenon DEF IndInv, RecordsAgree
<1>15. \A j \in DOMAIN liquidity_pool : liquidity_pool[j].id \in DOMAIN liq_pool_meta
  BY Zenon DEF IndInv, RecordsAgree
<1>16. /\ \A f \in DOMAIN global_pool' :
             global_pool'[f].liq_pools_count = Cardinality(PoolsOf(f)')
       /\ \A j \in DOMAIN liquidity_pool' :
             /\ j[1] \in DOMAIN global_pool'
             /\ liquidity_pool'[j].id \in DOMAIN liq_pool_meta'
             /\ liq_pool_meta'[liquidity_pool'[j].id].farm_id = j[1]
             /\ liq_pool_meta'[liquidity_pool'[j].id].asset_pair = j[2]
  BY <1>4, <1>8, <1>15, PoolsKept, Zenon DEF Recounted
<1>17. RecordsAgree'
  BY <1>12, <1>13, <1>14, <1>16, Zenon DEF RecordsAgree
<1> QED
  BY <1>9, <1>17, Zenon DEF IndInv

\* Leaving a pool keeps its id, and is noted unless it is the deposit's own.
LEMMA Leaving ==
    ASSUME IndInv, NEW who, NEW n, PoolKey(n) \in DOMAIN liquidity_pool, LeavePool(who, n)
    PROVE  /\ SamePools
           /\ foreign \subseteq foreign'
           /\ foreign' = {} => liquidity_pool[PoolKey(n)].id = get_pool_id_from_nft_id(n)
<1>1. PICK k : k = PoolKey(n)
  OBVIOUS
<1>2. PICK u, stake :
         /\ u = Updated(k)
         /\ global_pool' = [global_pool EXCEPT ![k[1]] = [u.farm EXCEPT !.total_shares_z = @ - stake]]
         /\ liquidity_pool' = [liquidity_pool EXCEPT ![k] = [u.pool EXCEPT
                !.total_shares = @ - deposit[n].shares,
                !.total_valued_shares = @ - deposit[n].valued_shares,
                !.stake_in_global_pool = @ - stake]]
         /\ NoteForeign(n, u.pool)
  <2>1. PICK u, claim, stake : u = Updated(k) /\ LeaveWith(who, n, u, claim, stake)
    BY <1>1, Zenon DEF LeavePool
  <2> QED
    BY <1>1, <2>1, Zenon DEF LeaveWith
<1> DEFINE farm == [u.farm EXCEPT !.total_shares_z = @ - stake]
           pool == [u.pool EXCEPT !.total_shares = @ - deposit[n].shares,
                                  !.total_valued_shares = @ - deposit[n].valued_shares,
                                  !.stake_in_global_pool = @ - stake]
<1>3. /\ "liq_pools_count" \in DOMAIN u.farm
      /\ u.farm.liq_pools_count = global_pool[k[1]].liq_pools_count
      /\ "id" \in DOMAIN u.pool
      /\ u.pool.id = liquidity_pool[k].id
  BY <1>1, <1>2, Update, Zenon
<1>4. /\ "liq_pools_count" \in DOMAIN farm
      /\ farm.liq_pools_count = global_pool[k[1]].liq_pools_count
      /\ "id" \in DOMAIN pool
      /\ pool.id = liquidity_pool[k].id
  BY <1>3, Zenon
<1>5. /\ global_pool' = [global_pool EXCEPT ![k[1]] = farm]
      /\ liquidity_pool' = [liquidity_pool EXCEPT ![k] = pool]
  BY <1>2, Zenon
<1> HIDE DEF farm, pool
<1>6. SamePools
  BY <1>1, <1>4, <1>5, Replacing, Zenon
<1>7. /\ foreign \subseteq foreign'
      /\ foreign' = {} => u.pool.id = get_pool_id_from_nft_id(n)
  BY <1>2, Zenon DEF NoteForeign
<1> QED
  BY <1>1, <1>3, <1>6, <1>7, Zenon

\* The deposit goes with its NFT, and the metadata of a removed pool with its
\* last deposit.
LEMMA Withdrawing ==
    ASSUME SumFacts, IndInv, NEW who, NEW n, withdraw_shares(who, n)
    PROVE  IndInv'
<1>1. PICK id : id = get_pool_id_from_nft_id(n)
  OBVIOUS
<1>2. PICK k : k = PoolKey(n)
  OBVIOUS
<1>3. /\ n \in DOMAIN deposit
      /\ id \in DOMAIN liq_pool_meta
      /\ DOMAIN deposit' = DOMAIN deposit \ {n}
      /\ DOMAIN nft_owner' = DOMAIN nft_owner \ {n}
      /\ liq_pool_meta' = MetaAfterWithdrawal(id, k \in DOMAIN liquidity_pool)
      /\ UNCHANGED <<pool_id, nft_sequence>>
  BY <1>1, <1>2, Zenon DEF withdraw_shares, HasMeta, remove
<1>4. /\ SamePools
      /\ foreign \subseteq foreign'
      /\ foreign' = {} /\ k \in DOMAIN liquidity_pool => liquidity_pool[k].id = id
  <2>1. CASE k \in DOMAIN liquidity_pool
    <3>1. LeavePool(who, n)
      BY <1>2, <2>1, Zenon DEF withdraw_shares
    <3> QED
      BY <1>1, <1>2, <2>1, <3>1, Leaving, Zenon
  <2>2. CASE k \notin DOMAIN liquidity_pool
    <3>1. UNCHANGED <<global_pool, liquidity_pool, foreign>>
      BY <1>2, <2>2, Zenon DEF withdraw_shares
    <3> QED
      BY <2>2, <3>1, Zenon DEF IndInv, Shape, SamePools
  <2> QED
    BY <2>1, <2>2, Zenon
<1>5. liq_pool_meta[id] \in [asset_pair : Pairs, nfts : Int, farm_id : Nat]
  BY <1>3, Zenon DEF IndInv, Shape
<1>6. /\ DOMAIN liq_pool_meta' \subseteq DOMAIN liq_pool_meta
      /\ \A i \in DOMAIN liq_pool_meta' :
            /\ liq_pool_meta'[i] \in [asset_pair : Pairs, nfts : Int, farm_id : Nat]
            /\ liq_pool_meta'[i].farm_id = liq_pool_meta[i].farm_id
            /\ liq_pool_meta'[i].asset_pair = liq_pool_meta[i].asset_pair
            /\ i # id => liq_pool_meta'[i].nfts = liq_pool_meta[i].nfts
            /\ i = id => liq_pool_meta'[i].nfts = liq_pool_meta[id].nfts - 1
      /\ \A i \in DOMAIN liq_pool_meta : i # id => i \in DOMAIN liq_pool_meta'
      /\ id \notin DOMAIN liq_pool_meta' <=>
            liq_pool_meta[id].nfts = 1 /\ k \notin DOMAIN liquidity_pool
  <2>1. CASE liq_pool_meta[id].nfts = 1 /\ k \notin DOMAIN liquidity_pool
    <3>1. liq_pool_meta' = remove(liq_pool_meta, id)
      BY <1>3, <2>1, Zenon DEF MetaAfterWithdrawal
    <3> QED
      BY <2>1, <3>1, Zenon DEF IndInv, Shape, remove
  <2>2. CASE ~(liq_pool_meta[id].nfts = 1 /\ k \notin DOMAIN liquidity_pool)
    <3>1. PICK m \in Int : m = liq_pool_meta[id].nfts - 1
      BY <1>5
    <3>2. liq_pool_meta' = [liq_pool_meta EXCEPT ![id].nfts = m]
      BY <1>3, <2>2, <3>1, Zenon DEF MetaAfterWithdrawal
    <3>3. Recounted(id, m)
      BY <1>3, <3>1, <3>2, Recounting, Zenon
    <3> QED
      BY <1>3, <2>2, <3>1, <3>3, Zenon DEF Recounted
  <2> QED
    BY <2>1, <2>2, Zenon
<1>7. Shape'
  <2>1. IsFiniteSet(DOMAIN deposit')
    BY <1>3 DEF SumFacts, FiniteFacts, RemoveFinite, IndInv, Shape
  <2> QED
    BY <1>3, <1>4, <1>6, <2>1, Zenon DEF IndInv, Shape, SamePools
<1>8. /\ \A i : i # id => DepositsOf(i)' = DepositsOf(i)
      /\ DepositsOf(id)' = DepositsOf(id) \ {n}
      /\ n \in DepositsOf(id)
  BY <1>1, <1>3, Zenon DEF DepositsOf
<1>9. IsFiniteSet(DepositsOf(id)) /\ IsFiniteSet(DepositsOf(id)')
  <2>1. IsFiniteSet(DepositsOf(id))
    BY <1>3, OneMeta, Zenon
  <2>2. IsFiniteSet(DepositsOf(id) \ {n})
    BY <2>1, Zenon DEF SumFacts, FiniteFacts, RemoveFinite
  <2> QED
    BY <1>8, <2>1, <2>2, Zenon
<1>10. /\ liq_pool_meta[id].nfts = Cardinality(DepositsOf(id))
       /\ Cardinality(DepositsOf(id)') = liq_pool_meta[id].nfts - 1
  <2>1. liq_pool_meta[id].nfts = Cardinality(DepositsOf(id))
    BY <1>3, OneMeta, Zenon
  <2>2. Cardinality(DepositsOf(id) \ {n}) = Cardinality(DepositsOf(id)) - 1
    BY <1>8, <1>9, Zenon DEF SumFacts, FiniteFacts, RemoveFinite
  <2> QED
    BY <1>8, <2>1, <2>2, Zenon
<1>11. liq_pool_meta[id].nfts = 1 <=> DepositsOf(id)' = {}
  BY <1>5, <1>9, <1>10 DEF SumFacts, FiniteFacts, EmptyFinite
<1>12. ASSUME NEW i \in DOMAIN liq_pool_meta'
       PROVE  /\ liq_pool_meta'[i].nfts = Cardinality(DepositsOf(i)')
              /\ foreign' = {} => \/ DepositsOf(i)' # {}
                                  \/ \E j \in DOMAIN liquidity_pool' : liquidity_pool'[j].id = i
  <2>1. CASE i = id
    BY <1>4, <1>6, <1>10, <1>11, <2>1, Zenon DEF SamePools
  <2>2. CASE i # id
    <3>1. i \in DOMAIN liq_pool_meta /\ liq_pool_meta'[i].nfts = liq_pool_meta[i].nfts
      BY <1>6, <2>2, Zenon
    <3>2. DepositsOf(i)' = DepositsOf(i)
      BY <1>8, <2>2, Zenon
    <3>3. foreign' = {} => foreign = {}
      BY <1>4, Zenon
    <3> QED
      BY <1>4, <3>1, <3>2, <3>3, OneMeta, Zenon DEF SamePools
  <2> QED
    BY <2>1, <2>2, Zenon
<1>13. \A m \in DOMAIN deposit' : HasMeta(m)'
  <2> SUFFICES ASSUME NEW m \in DOMAIN deposit, m # n
               PROVE  get_pool_id_from_nft_id(m) \in DOMAIN liq_pool_meta'
    BY <1>3, Zenon DEF IndInv, RecordsAgree, HasMeta
  <2>1. CASE get_pool_id_from_nft_id(m) = id
    <3>1. m \in DepositsOf(id)'
      BY <1>8, <2>1, Zenon DEF DepositsOf
    <3> QED
      BY <1>6, <1>11, <2>1, <3>1, Zenon
  <2>2. CASE get_pool_id_from_nft_id(m) # id
    BY <1>6, <2>2, Zenon DEF IndInv, RecordsAgree, HasMeta
  <2> QED
    BY <2>1, <2>2, Zenon
<1>14. DOMAIN deposit' = DOMAIN nft_owner'
  BY <1>3, Zenon DEF IndInv, RecordsAgree
<1>15. ASSUME NEW j \in DOMAIN liquidity_pool
       PROVE  liquidity_pool[j].id \in DOMAIN liq_pool_meta'
  <2>1. CASE liquidity_pool[j].id = id
    <3>1. j[1] = liq_pool_meta[id].farm_id /\ j[2] = liq_pool_meta[id].asset_pair
      BY <2>1, Zenon DEF IndInv, RecordsAgree
    <3>2. j = <<j[1], j[2]>>
      BY DEF IndInv, Shape
    <3>3. j = k
      BY <1>1, <1>2, <3>1, <3>2, Zenon DEF PoolKey
    <3> QED
      BY <1>6, <2>1, <3>3, Zenon
  <2>2. CASE liquidity_pool[j].id # id
    BY <1>6, <2>2, Zenon DEF IndInv, RecordsAgree
  <2> QED
    BY <2>1, <2>2, Zenon
<1>16. /\ \A f \in DOMAIN global_pool' :
             global_pool'[f].liq_pools_count = Cardinality(PoolsOf(f)')
       /\ \A j \in DOMAIN liquidity_pool' :
             /\ j[1] \in DOMAIN global_pool'
             /\ liquidity_pool'[j].id \in DOMAIN liq_pool_meta'
             /\ liq_pool_meta'[liquidity_pool'[j].id].farm_id = j[1]
             /\ liq_pool_meta'[liquidity_pool'[j].id].asset_pair = j[2]
  BY <1>4, <1>6, <1>15, PoolsKept, Zenon
<1>17. RecordsAgree'
  BY <1>12, <1>13, <1>14, <1>16, Zenon DEF RecordsAgree
<1> QED
  BY <1>7, <1>17, Zenon DEF IndInv

-----------------------------------------------------------------------------

LEMMA Initially ==
    ASSUME SumFacts
    PROVE  Init => IndInv
<1> SUFFICES ASSUME Init PROVE IndInv
  OBVIOUS
<1>1. /\ pool_id = 0 /\ nft_sequence = 0
      /\ DOMAIN global_pool = {} /\ DOMAIN liquidity_pool = {} /\ DOMAIN deposit = {}
      /\ DOMAIN liq_pool_meta = {} /\ DOMAIN nft_owner = {}
  BY Zenon DEF Init, Empty
<1>2. Shape
  BY <1>1, LMAssumption DEF SumFacts, FiniteFacts, EmptyFinite, Shape
<1>3. RecordsAgree
  BY <1>1, Zenon DEF RecordsAgree
<1> QED
  BY <1>2, <1>3, Zenon DEF IndInv

LEMMA Induction ==
    ASSUME SumFacts
    PROVE  IndInv /\ [Next]_vars => IndInv'
<1> SUFFICES ASSUME IndInv, [Next]_vars PROVE IndInv'
  OBVIOUS
<1> USE DEF farm_vars
<1>1. ASSUME UNCHANGED <<global_pool, liquidity_pool>> PROVE SamePools
  BY <1>1, Zenon DEF IndInv, Shape, SamePools
<1>2. CASE UNCHANGED farm_vars
  BY <1>1, <1>2, Elsewhere, Zenon
<1>3. ASSUME NEW who \in Users, OwnerCall(who) PROVE IndInv'
  <2>1. CASE \E total_rewards \in TotalRewards, periods \in PlannedPeriods,
                blocks_per_period \in BlocksPerPeriod, yield \in Yields :
                create_farm(who, total_rewards, periods, blocks_per_period, yield)
    BY <2>1, FarmCreation, Zenon
  <2>2. ASSUME NEW f \in DOMAIN global_pool, destroy_farm(who, f) PROVE IndInv'
    BY <2>2, FarmDestruction, Zenon
  <2>3. ASSUME NEW f, withdraw_undistributed_rewards(who, f) PROVE IndInv'
    BY <1>1, <2>3, Elsewhere, Zenon DEF withdraw_undistributed_rewards
  <2>4. ASSUME NEW f \in DOMAIN global_pool, NEW p \in Pairs, cancel_liquidity_pool(who, <<f, p>>)
        PROVE  IndInv'
    BY <2>4, Changing, Zenon DEF cancel_liquidity_pool
  <2>5. ASSUME NEW f \in DOMAIN global_pool, NEW p \in Pairs, remove_liquidity_pool(who, <<f, p>>)
        PROVE  IndInv'
    BY <2>5, PoolRemoval, Zenon
  <2>6. ASSUME NEW f \in DOMAIN global_pool, NEW p \in Pairs, NEW m \in Multipliers,
               update_liquidity_pool(who, <<f, p>>, m)
        PROVE  IndInv'
    BY <2>6, Changing, Zenon DEF update_liquidity_pool
  <2>7. ASSUME NEW f \in DOMAIN global_pool, NEW p \in Pairs, NEW m \in Multipliers,
               resume_liquidity_pool(who, <<f, p>>, m)
        PROVE  IndInv'
    BY <2>7, Resuming, Zenon
  <2>8. ASSUME NEW f \in DOMAIN global_pool, NEW p \in Pairs, NEW m \in Multipliers,
               NEW c \in Curves, add_liquidity_pool(who, <<f, p>>, m, c)
        PROVE  IndInv'
    BY <2>8, PoolCreation, Zenon
  <2> QED
    BY <1>3, <2>1, <2>2, <2>3, <2>4, <2>5, <2>6, <2>7, <2>8, Zenon DEF OwnerCall, Farms
<1>4. ASSUME NEW who \in Users, NftCall(who) PROVE IndInv'
  <2>1. ASSUME NEW n, claim_rewards(who, n) PROVE IndInv'
    BY <2>1, Claiming, Zenon
  <2>2. ASSUME NEW n, NEW dest, transfer_nft(who, n, dest) PROVE IndInv'
    BY <1>1, <2>2, Elsewhere, Zenon DEF transfer_nft
  <2> QED
    BY <1>4, <2>1, <2>2, Zenon DEF NftCall
<1>5. ASSUME NEW who \in Users, ShareCall(who) PROVE IndInv'
  <2>1. ASSUME NEW k \in DOMAIN liquidity_pool, NEW amount \in Amounts, deposit_shares(who, k, amount)
        PROVE  IndInv'
    BY <2>1, Depositing, Zenon
  <2>2. ASSUME NEW n, withdraw_shares(who, n) PROVE IndInv'
    BY <2>2, Withdrawing, Zenon
  <2> QED
    BY <1>5, <2>1, <2>2, Zenon DEF ShareCall
<1> QED
  BY <1>2, <1>3, <1>4, <1>5, Zenon DEF Next, NextBlock, AMMStep, vars

-----------------------------------------------------------------------------
(* The theorem.  Here the facts about finite sets are no longer a hypothesis: *)
(* Sums proves them.                                                          *)

INSTANCE Sums

\* The counts that decide whether a farm may be destroyed (IsEmptyFarm) and
\* whether metadata may be deleted (remove_liquidity_pool, withdraw_shares) are
\* right, no deposit loses the metadata it needs to be withdrawn, and none is
\* kept for nothing (as long as no withdrawal acted on a pool other than its
\* deposit's), through every sequence of calls and for any numbers of users,
\* farms, pools and deposits.
THEOREM FarmRecords == Spec => []RecordsAgree
<1>1. Init => IndInv
  BY Facts, Initially, Zenon
<1>2. IndInv /\ [Next]_vars => IndInv'
  BY Facts, Induction, Zenon
<1>3. IndInv => RecordsAgree
  BY Zenon DEF IndInv
<1> QED
  BY <1>1, <1>2, <1>3, PTL DEF Spec

=============================================================================
