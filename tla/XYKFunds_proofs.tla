-------------------------- MODULE XYKFunds_proofs --------------------------
(***************************************************************************)
(* The users and the pools together never hold more of an asset than was   *)
(* issued at genesis, so that no transfer of a validated sale overflows.   *)
(***************************************************************************)
EXTENDS XYK_proofs, SumFacts

USE SMTT(30)

-----------------------------------------------------------------------------
(* Ledgers *)

\* What the accounts K of ledger L hold of an asset.
ColumnSum(L, K, c) == SumFunctionOnSet([k \in K |-> L[k][c]], K)

Ledgers(K) == [K -> [Assets -> Int]]

LEMMA OneCell ==
    ASSUME SumFacts, NEW K, IsFiniteSet(K), NEW L \in Ledgers(K), NEW M \in Ledgers(K),
           NEW k \in K, NEW a \in Assets, NEW x \in Int,
           M[k][a] = L[k][a] + x,
           \A j \in K, c \in Assets : (j # k \/ c # a) => M[j][c] = L[j][c]
    PROVE  \A c \in Assets : ColumnSum(M, K, c) = ColumnSum(L, K, c) + IF c = a THEN x ELSE 0
  <1> SUFFICES ASSUME NEW c \in Assets
               PROVE  ColumnSum(M, K, c) = ColumnSum(L, K, c) + IF c = a THEN x ELSE 0
    OBVIOUS
  <1>1. PICK f, g : f = [j \in K |-> L[j][c]] /\ g = [j \in K |-> M[j][c]]
    BY Zenon
  <1>2. Summable(f, K) /\ Summable(g, K)
    BY <1>1 DEF Ledgers, Summable
  <1>3. ColumnSum(M, K, c) = SumFunctionOnSet(g, K) /\ ColumnSum(L, K, c) = SumFunctionOnSet(f, K)
    BY <1>1, Zenon DEF ColumnSum
  <1>4. SumFunctionOnSet(f, K) \in Int
    BY <1>2 DEF SumFacts, SumType
  <1>5. CASE c = a
    <2>1. Changed(f, g, K, k)
      BY <1>1, <1>2, <1>5 DEF Changed
    <2>2. SumFunctionOnSet(g, K) = SumFunctionOnSet(f, K) - f[k] + g[k]
      BY <2>1 DEF SumFacts, SumChange
    <2>3. g[k] = f[k] + x /\ f[k] \in Int
      BY <1>1, <1>5 DEF Ledgers
    <2> QED
      BY <1>3, <1>4, <1>5, <2>2, <2>3
  <1>6. CASE c # a
    <2>1. \A j \in K : f[j] = g[j]
      BY <1>1, <1>6
    <2>2. SumFunctionOnSet(f, K) = SumFunctionOnSet(g, K)
      BY <2>1 DEF SumFacts, SumSame
    <2> QED
      BY <1>3, <1>4, <1>6, <2>2
  <1> QED
    BY <1>5, <1>6

LEMMA Deposited ==
    ASSUME SumFacts, NEW K, IsFiniteSet(K), NEW L \in Ledgers(K), NEW k \in K, NEW a \in Assets, NEW x \in Int
    PROVE  /\ deposit(L, k, a, x) \in Ledgers(K)
           /\ \A c \in Assets : ColumnSum(deposit(L, k, a, x), K, c)
                                  = ColumnSum(L, K, c) + IF c = a THEN x ELSE 0
  <1>1. PICK M : M = deposit(L, k, a, x)
    OBVIOUS
  <1>2. /\ M \in Ledgers(K)
        /\ M[k][a] = L[k][a] + x
        /\ \A j \in K, c \in Assets : (j # k \/ c # a) => M[j][c] = L[j][c]
    BY <1>1 DEF deposit, Ledgers
  <1> QED
    BY <1>1, <1>2, OneCell

LEMMA Withdrawn ==
    ASSUME SumFacts, NEW K, IsFiniteSet(K), NEW L \in Ledgers(K), NEW k \in K, NEW a \in Assets, NEW x \in Int
    PROVE  /\ withdraw(L, k, a, x) \in Ledgers(K)
           /\ \A c \in Assets : ColumnSum(withdraw(L, k, a, x), K, c)
                                  = ColumnSum(L, K, c) - IF c = a THEN x ELSE 0
  <1>1. PICK M, y : M = withdraw(L, k, a, x) /\ y = 0 - x
    OBVIOUS
  <1>2. /\ M \in Ledgers(K) /\ y \in Int
        /\ M[k][a] = L[k][a] + y
        /\ \A j \in K, c \in Assets : (j # k \/ c # a) => M[j][c] = L[j][c]
    BY <1>1 DEF withdraw, Ledgers
  <1>3. \A c \in Assets : ColumnSum(M, K, c) = ColumnSum(L, K, c) + IF c = a THEN y ELSE 0
    BY <1>2, OneCell
  <1>4. \A c \in Assets : ColumnSum(L, K, c) \in Int
    <2> SUFFICES ASSUME NEW c \in Assets PROVE ColumnSum(L, K, c) \in Int
      OBVIOUS
    <2>1. Summable([j \in K |-> L[j][c]], K)
      BY DEF Ledgers, Summable
    <2> QED
      BY <2>1 DEF ColumnSum, SumFacts, SumType
  <1> QED
    BY <1>1, <1>2, <1>3, <1>4

\* A ledger of balances: no account holds more than all of them.
LEMMA ColumnBound ==
    ASSUME SumFacts, NEW K, IsFiniteSet(K), NEW L \in [K -> [Assets -> Nat]], NEW c \in Assets
    PROVE  /\ L \in Ledgers(K)
           /\ ColumnSum(L, K, c) \in Nat
           /\ \A k \in K : L[k][c] <= ColumnSum(L, K, c)
  <1>1. PICK f : f = [j \in K |-> L[j][c]]
    BY Zenon
  <1>2. L \in Ledgers(K) /\ \A j \in K : f[j] \in Nat /\ f[j] = L[j][c]
    BY <1>1 DEF Ledgers
  <1>3. ColumnSum(L, K, c) = SumFunctionOnSet(f, K)
    BY <1>1, Zenon DEF ColumnSum
  <1> QED
    BY <1>2, <1>3 DEF SumFacts, SumNat, SumBound

LEMMA ColumnType ==
    ASSUME SumFacts, NEW K, IsFiniteSet(K), NEW L \in Ledgers(K), NEW c \in Assets
    PROVE  ColumnSum(L, K, c) \in Int
  <1>1. Summable([j \in K |-> L[j][c]], K)
    BY DEF Ledgers, Summable
  <1> QED
    BY <1>1 DEF ColumnSum, SumFacts, SumType

LEMMA FinitePairs ==
    ASSUME SumFacts
    PROVE  IsFiniteSet(Users) /\ IsFiniteSet(Pairs)
  <1>1. IsFiniteSet(Users) /\ IsFiniteSet(Assets)
    BY SupplyAssumption, Zenon
  <1>2. IsFiniteSet(SUBSET Assets)
    BY <1>1, Zenon DEF SumFacts, FiniteFacts, PowerFinite
  <1>3. Pairs \subseteq SUBSET Assets
    BY Zenon DEF Pairs
  <1> QED
    BY <1>1, <1>2, <1>3, Zenon DEF SumFacts, FiniteFacts, SubsetFinite

-----------------------------------------------------------------------------
(* What the users and the pools hold *)

Holding(c) == ColumnSum(wallet, Users, c) + ColumnSum(reserve, Pairs, c)

\* z of the native asset is burned, and nothing else leaves or enters.
BurnsOnly(z) ==
    \A c \in Assets : Holding(c)' = Holding(c) - IF c = NativeAssetId THEN z ELSE 0

LEMMA LedgerTypes ==
    ASSUME TypeOK
    PROVE  wallet \in Ledgers(Users) /\ reserve \in Ledgers(Pairs)
BY LimitAssumption DEF TypeOK, Ledgers, Balance

LEMMA MoneyIn ==
    ASSUME SumFacts, TypeOK, NEW who \in Users, NEW p \in Pairs, NEW a \in Assets, NEW b \in Assets,
           NEW x \in Nat, NEW y \in Nat,
           wallet' = withdraw(withdraw(wallet, who, a, x), who, b, y),
           reserve' = deposit(deposit(reserve, p, a, x), p, b, y)
    PROVE  BurnsOnly(0)
  <1>1. /\ wallet \in Ledgers(Users) /\ reserve \in Ledgers(Pairs)
        /\ IsFiniteSet(Users) /\ IsFiniteSet(Pairs)
        /\ x \in Int /\ y \in Int
    BY LedgerTypes, FinitePairs
  <1>2. PICK w, r : w = withdraw(wallet, who, a, x) /\ r = deposit(reserve, p, a, x)
    OBVIOUS
  <1>3. w \in Ledgers(Users) /\ r \in Ledgers(Pairs)
    BY <1>1, <1>2, Withdrawn, Deposited
  <1> SUFFICES ASSUME NEW c \in Assets
               PROVE  Holding(c)' = Holding(c) - IF c = NativeAssetId THEN 0 ELSE 0
    BY Zenon DEF BurnsOnly
  <1>4. /\ ColumnSum(w, Users, c) = ColumnSum(wallet, Users, c) - IF c = a THEN x ELSE 0
        /\ ColumnSum(r, Pairs, c) = ColumnSum(reserve, Pairs, c) + IF c = a THEN x ELSE 0
    BY <1>1, <1>2, Withdrawn, Deposited
  <1>5. /\ ColumnSum(wallet', Users, c) = ColumnSum(w, Users, c) - IF c = b THEN y ELSE 0
        /\ ColumnSum(reserve', Pairs, c) = ColumnSum(r, Pairs, c) + IF c = b THEN y ELSE 0
    BY <1>1, <1>2, <1>3, Withdrawn, Deposited
  <1>6. ColumnSum(wallet, Users, c) \in Int /\ ColumnSum(reserve, Pairs, c) \in Int
    BY <1>1, ColumnType
  <1>7. Holding(c)' = ColumnSum(wallet', Users, c) + ColumnSum(reserve', Pairs, c)
    BY Zenon DEF Holding, ColumnSum
  <1> QED
    BY <1>1, <1>4, <1>5, <1>6, <1>7 DEF Holding

LEMMA MoneyOut ==
    ASSUME SumFacts, TypeOK, NEW who \in Users, NEW p \in Pairs, NEW a \in Assets, NEW b \in Assets,
           NEW x \in Nat, NEW y \in Nat,
           wallet' = deposit(deposit(wallet, who, a, x), who, b, y),
           reserve' = withdraw(withdraw(reserve, p, a, x), p, b, y)
    PROVE  BurnsOnly(0)
  <1>1. /\ wallet \in Ledgers(Users) /\ reserve \in Ledgers(Pairs)
        /\ IsFiniteSet(Users) /\ IsFiniteSet(Pairs)
        /\ x \in Int /\ y \in Int
    BY LedgerTypes, FinitePairs
  <1>2. PICK w, r : w = deposit(wallet, who, a, x) /\ r = withdraw(reserve, p, a, x)
    OBVIOUS
  <1>3. w \in Ledgers(Users) /\ r \in Ledgers(Pairs)
    BY <1>1, <1>2, Withdrawn, Deposited
  <1> SUFFICES ASSUME NEW c \in Assets
               PROVE  Holding(c)' = Holding(c) - IF c = NativeAssetId THEN 0 ELSE 0
    BY Zenon DEF BurnsOnly
  <1>4. /\ ColumnSum(w, Users, c) = ColumnSum(wallet, Users, c) + IF c = a THEN x ELSE 0
        /\ ColumnSum(r, Pairs, c) = ColumnSum(reserve, Pairs, c) - IF c = a THEN x ELSE 0
    BY <1>1, <1>2, Withdrawn, Deposited
  <1>5. /\ ColumnSum(wallet', Users, c) = ColumnSum(w, Users, c) + IF c = b THEN y ELSE 0
        /\ ColumnSum(reserve', Pairs, c) = ColumnSum(r, Pairs, c) - IF c = b THEN y ELSE 0
    BY <1>1, <1>2, <1>3, Withdrawn, Deposited
  <1>6. ColumnSum(wallet, Users, c) \in Int /\ ColumnSum(reserve, Pairs, c) \in Int
    BY <1>1, ColumnType
  <1>7. Holding(c)' = ColumnSum(wallet', Users, c) + ColumnSum(reserve', Pairs, c)
    BY Zenon DEF Holding, ColumnSum
  <1> QED
    BY <1>1, <1>4, <1>5, <1>6, <1>7 DEF Holding

LEMMA MoneySwapped ==
    ASSUME SumFacts, TypeOK, NEW who \in Users, NEW p \in Pairs, NEW a \in Assets, NEW b \in Assets,
           NEW x \in Nat, NEW y \in Nat, NEW z \in Nat,
           wallet' = deposit(withdraw(withdraw(wallet, who, NativeAssetId, z), who, a, x), who, b, y),
           reserve' = withdraw(deposit(reserve, p, a, x), p, b, y)
    PROVE  BurnsOnly(z)
  <1>1. /\ wallet \in Ledgers(Users) /\ reserve \in Ledgers(Pairs)
        /\ IsFiniteSet(Users) /\ IsFiniteSet(Pairs)
        /\ x \in Int /\ y \in Int /\ z \in Int
    BY LedgerTypes, FinitePairs
  <1>2. PICK v, w, r : /\ v = withdraw(wallet, who, NativeAssetId, z)
                       /\ w = withdraw(v, who, a, x)
                       /\ r = deposit(reserve, p, a, x)
    OBVIOUS
  <1>3. v \in Ledgers(Users)
    BY <1>1, <1>2, AssetsAssumption, Withdrawn
  <1>4. w \in Ledgers(Users) /\ r \in Ledgers(Pairs)
    BY <1>1, <1>2, <1>3, Withdrawn, Deposited
  <1> SUFFICES ASSUME NEW c \in Assets
               PROVE  Holding(c)' = Holding(c) - IF c = NativeAssetId THEN z ELSE 0
    BY Zenon DEF BurnsOnly
  <1>5. ColumnSum(v, Users, c) = ColumnSum(wallet, Users, c) - IF c = NativeAssetId THEN z ELSE 0
    BY <1>1, <1>2, AssetsAssumption, Withdrawn
  <1>6. /\ ColumnSum(w, Users, c) = ColumnSum(v, Users, c) - IF c = a THEN x ELSE 0
        /\ ColumnSum(r, Pairs, c) = ColumnSum(reserve, Pairs, c) + IF c = a THEN x ELSE 0
    BY <1>1, <1>2, <1>3, Withdrawn, Deposited
  <1>7. /\ ColumnSum(wallet', Users, c) = ColumnSum(w, Users, c) + IF c = b THEN y ELSE 0
        /\ ColumnSum(reserve', Pairs, c) = ColumnSum(r, Pairs, c) - IF c = b THEN y ELSE 0
    BY <1>1, <1>2, <1>4, Withdrawn, Deposited
  <1>8. ColumnSum(wallet, Users, c) \in Int /\ ColumnSum(reserve, Pairs, c) \in Int
    BY <1>1, ColumnType
  <1>9. Holding(c)' = ColumnSum(wallet', Users, c) + ColumnSum(reserve', Pairs, c)
    BY Zenon DEF Holding, ColumnSum
  <1> QED
    BY <1>1, <1>5, <1>6, <1>7, <1>8, <1>9 DEF Holding

LEMMA MoneyGiven ==
    ASSUME SumFacts, TypeOK, NEW who \in Users, NEW p \in Pairs, NEW a \in Assets, NEW x \in Nat,
           wallet' = withdraw(wallet, who, a, x), reserve' = deposit(reserve, p, a, x)
    PROVE  BurnsOnly(0)
  <1>1. /\ wallet \in Ledgers(Users) /\ reserve \in Ledgers(Pairs)
        /\ IsFiniteSet(Users) /\ IsFiniteSet(Pairs) /\ x \in Int
    BY LedgerTypes, FinitePairs
  <1> SUFFICES ASSUME NEW c \in Assets
               PROVE  Holding(c)' = Holding(c) - IF c = NativeAssetId THEN 0 ELSE 0
    BY Zenon DEF BurnsOnly
  <1>2. /\ ColumnSum(wallet', Users, c) = ColumnSum(wallet, Users, c) - IF c = a THEN x ELSE 0
        /\ ColumnSum(reserve', Pairs, c) = ColumnSum(reserve, Pairs, c) + IF c = a THEN x ELSE 0
    BY <1>1, Withdrawn, Deposited
  <1>3. ColumnSum(wallet, Users, c) \in Int /\ ColumnSum(reserve, Pairs, c) \in Int
    BY <1>1, ColumnType
  <1>4. Holding(c)' = ColumnSum(wallet', Users, c) + ColumnSum(reserve', Pairs, c)
    BY Zenon DEF Holding, ColumnSum
  <1> QED
    BY <1>1, <1>2, <1>3, <1>4 DEF Holding

LEMMA TradeBurns ==
    ASSUME SumFacts, IndInv, NEW who \in Users, NEW a \in Assets, NEW b \in Assets,
           NEW transfer, FairTransfer(a, b, transfer), execute(who, a, b, transfer)
    PROVE  \E z \in Nat : BurnsOnly(z)
  <1>1. PICK p, x, y, z : /\ p = get_pair_id(a, b) /\ x = transfer.amount_in
                          /\ y = transfer.amount_out /\ z = transfer.burned
    OBVIOUS
  <1>2. /\ x \in Nat /\ y \in Nat /\ z \in Nat
        /\ exists(a, b)
        /\ Swap(who, a, b, x, y, z)
    BY <1>1, Zenon DEF FairTransfer, execute
  <1>3. /\ p \in Pairs
        /\ wallet' = deposit(withdraw(withdraw(wallet, who, NativeAssetId, z), who, a, x), who, b, y)
        /\ reserve' = withdraw(deposit(reserve, p, a, x), p, b, y)
    BY <1>1, <1>2, Zenon DEF Swap, exists, IndInv, TypeOK
  <1>4. TypeOK
    BY Zenon DEF IndInv
  <1> QED
    BY <1>2, <1>3, <1>4, MoneySwapped

LEMMA AmountIsNat ==
    ASSUME NEW amount \in Amounts
    PROVE  amount \in Nat
BY ArgumentAssumption, LimitAssumption DEF Balance

LEMMA CreateBurns ==
    ASSUME SumFacts, IndInv, NEW who \in Users, NEW a \in Assets, NEW b \in Assets,
           NEW amount \in Amounts, NEW price \in Prices, create_pool(who, a, b, amount, price)
    PROVE  BurnsOnly(0)
  <1>1. PICK p, y : p = get_pair_id(a, b) /\ y = (price[1] * amount) \div price[2]
    OBVIOUS
  <1>2. p \in Pairs
    BY <1>1, Zenon DEF create_pool, get_pair_id, Pairs
  <1>3. amount \in Nat /\ y \in Nat
    <2>1. PICK n \in Nat, d \in Nat \ {0} : price = <<n, d>>
      BY ArgumentAssumption
    <2>2. amount \in Nat
      BY AmountIsNat
    <2>3. n * amount \in Nat /\ y = (n * amount) \div d
      BY <1>1, <2>1, <2>2
    <2> QED
      BY <2>1, <2>2, <2>3, Floor
  <1>4. /\ wallet' = withdraw(withdraw(wallet, who, a, amount), who, b, y)
        /\ reserve' = deposit(deposit(reserve, p, a, amount), p, b, y)
        /\ TypeOK
    BY <1>1, Zenon DEF create_pool, PayIn, IndInv
  <1> QED
    BY <1>2, <1>3, <1>4, MoneyIn

LEMMA AddBurns ==
    ASSUME SumFacts, IndInv, NEW who \in Users, NEW a \in Assets, NEW b \in Assets,
           NEW amount \in Amounts, NEW limit, add_liquidity(who, a, b, amount, limit)
    PROVE  BurnsOnly(0)
  <1>1. PICK p, y : /\ p = get_pair_id(a, b)
                    /\ y = calculate_liquidity_in(reserve[p][a], reserve[p][b], amount)
    OBVIOUS
  <1>2. p \in Pairs /\ reserve[p][a] > 0
    BY <1>1, LivePair, Zenon DEF add_liquidity
  <1>3. amount \in Nat /\ y \in Nat
    <2>1. amount \in Nat /\ reserve[p][a] \in Nat /\ reserve[p][b] \in Nat
      BY <1>1, <1>2, PoolTypes, AmountIsNat, ZenonT(40) DEF IndInv
    <2>2. amount * reserve[p][b] \in Nat
      BY <2>1
    <2> QED
      BY <1>1, <1>2, <2>1, <2>2, Floor, ZenonT(40) DEF calculate_liquidity_in
  <1>4. /\ wallet' = withdraw(withdraw(wallet, who, a, amount), who, b, y)
        /\ reserve' = deposit(deposit(reserve, p, a, amount), p, b, y)
        /\ TypeOK
    BY <1>1, Zenon DEF add_liquidity, PayIn, IndInv
  <1> QED
    BY <1>2, <1>3, <1>4, MoneyIn

LEMMA RemoveBurns ==
    ASSUME SumFacts, IndInv, NEW who \in Users, NEW a \in Assets, NEW b \in Assets, NEW s \in Nat,
           remove_liquidity(who, a, b, s)
    PROVE  BurnsOnly(0)
  <1>1. PICK p, t, x, y : /\ p = get_pair_id(a, b) /\ t = total_liquidity[p]
                          /\ x = calculate_liquidity_out(reserve[p][a], s, t)
                          /\ y = calculate_liquidity_out(reserve[p][b], s, t)
    OBVIOUS
  <1>2. p \in Pairs /\ t > 0
    BY <1>1, LivePair, Zenon DEF remove_liquidity
  <1>3. x \in Nat /\ y \in Nat
    <2>1. reserve[p][a] \in Nat /\ reserve[p][b] \in Nat /\ t \in Nat /\ s <= t
      <3>1. reserve[p][a] \in Nat /\ reserve[p][b] \in Nat /\ t \in Nat
        BY <1>1, <1>2, PoolTypes, Zenon DEF IndInv
      <3>2. t >= s
        BY <1>1, Zenon DEF remove_liquidity, CanRemove
      <3> QED
        BY <3>1, <3>2
    <2> QED
      BY <1>1, <1>2, <2>1, LiquidityOutPart, ZenonT(40)
  <1>4. /\ wallet' = deposit(deposit(wallet, who, a, x), who, b, y)
        /\ reserve' = withdraw(withdraw(reserve, p, a, x), p, b, y)
        /\ TypeOK
    BY <1>1, Zenon DEF remove_liquidity, RemoveAmount, IndInv
  <1> QED
    BY <1>2, <1>3, <1>4, MoneyOut

LEMMA GiftBurns ==
    ASSUME SumFacts, IndInv, NEW who \in Users, NEW p \in Pairs, NEW a \in p, NEW amount \in Amounts,
           TransferToPool(who, p, a, amount)
    PROVE  BurnsOnly(0)
  <1>1. a \in Assets /\ amount \in Nat
    BY AmountIsNat, Zenon DEF Pairs
  <1>2. /\ wallet' = withdraw(wallet, who, a, amount)
        /\ reserve' = deposit(reserve, p, a, amount)
        /\ TypeOK
    BY Zenon DEF TransferToPool, IndInv
  <1> QED
    BY <1>1, <1>2, MoneyGiven

LEMMA ZeroInNat == 0 \in Nat
OBVIOUS

LEMMA NextBurns ==
    ASSUME SumFacts, IndInv, Next
    PROVE  \E z \in Nat : BurnsOnly(z)
  <1>1. CASE Call
    <2> PICK who \in Users, a \in Assets, b \in Assets, amount \in Amounts :
            \/ \E price \in Prices : create_pool(who, a, b, amount, price)
            \/ \E limit \in Limits : add_liquidity(who, a, b, amount, limit)
            \/ \E s \in Amounts \cup Holdings(who) : remove_liquidity(who, a, b, s)
            \/ \E limit \in Limits, discount \in BOOLEAN :
                  \/ sell(who, a, b, amount, limit, discount)
                  \/ buy(who, a, b, amount, limit, discount)
      BY <1>1, Zenon DEF Call
    <2>1. CASE \E price \in Prices : create_pool(who, a, b, amount, price)
      BY <2>1, CreateBurns, ZeroInNat, Zenon
    <2>2. CASE \E limit \in Limits : add_liquidity(who, a, b, amount, limit)
      BY <2>2, AddBurns, ZeroInNat, Zenon
    <2>3. CASE \E s \in Amounts \cup Holdings(who) : remove_liquidity(who, a, b, s)
      <3>1. Amounts \cup Holdings(who) \subseteq Nat
        <4>1. Balance \subseteq Nat
          BY LimitAssumption DEF Balance
        <4>2. \A p \in Pairs : shares[p][who] \in Balance
          BY Zenon DEF IndInv, TypeOK
        <4> QED
          BY <4>1, <4>2, ArgumentAssumption, Zenon DEF Holdings
      <3> QED
        BY <2>3, <3>1, RemoveBurns, ZeroInNat, Zenon
    <2>4. CASE \E limit \in Limits, discount \in BOOLEAN :
                  \/ sell(who, a, b, amount, limit, discount)
                  \/ buy(who, a, b, amount, limit, discount)
      <3>1. amount \in Nat
        BY AmountIsNat
      <3>2. PICK limit \in Limits, discount \in BOOLEAN :
              \/ sell(who, a, b, amount, limit, discount)
              \/ buy(who, a, b, amount, limit, discount)
        BY <2>4, Zenon
      <3>3. CASE sell(who, a, b, amount, limit, discount)
        <4>1. PICK transfer : FairTransfer(a, b, transfer) /\ execute(who, a, b, transfer)
          BY <3>1, <3>3, CallTrades, Zenon
        <4> QED
          BY <4>1, TradeBurns, Zenon
      <3>4. CASE buy(who, a, b, amount, limit, discount)
        <4>1. PICK transfer : FairTransfer(b, a, transfer) /\ execute(who, b, a, transfer)
          BY <3>1, <3>4, CallTrades, Zenon
        <4> QED
          BY <4>1, TradeBurns, Zenon
      <3> QED
        BY <3>2, <3>3, <3>4, ZenonT(40)
    <2> QED
      BY <2>1, <2>2, <2>3, <2>4, Zenon
  <1>2. CASE \E who \in Users, p \in Pairs, amount \in Amounts :
                \E asset \in p : TransferToPool(who, p, asset, amount)
    BY <1>2, GiftBurns, ZeroInNat, Zenon
  <1> QED
    BY <1>1, <1>2, Zenon DEF Next

\* Nothing is created.
NothingCreated == \A c \in Assets : Holding(c) <= Supply(c)

LEMMA Genesis ==
    ASSUME SumFacts, Init
    PROVE  \A c \in Assets : Holding(c) = Supply(c) /\ Supply(c) \in Nat
  <1> SUFFICES ASSUME NEW c \in Assets
               PROVE  Holding(c) = Supply(c) /\ Supply(c) \in Nat
    OBVIOUS
  <1>1. ColumnSum(wallet, Users, c) = Supply(c)
    BY Zenon DEF Init, ColumnSum, Supply
  <1>2. PICK f : f = [p \in Pairs |-> reserve[p][c]]
    BY Zenon
  <1>3. \A p \in Pairs : f[p] = 0
    BY <1>2, Zenon DEF Init
  <1>4. ColumnSum(reserve, Pairs, c) = 0
    BY <1>2, <1>3, FinitePairs, Zenon DEF ColumnSum, SumFacts, SumZero
  <1>5. Endowment \in [Users -> [Assets -> Nat]]
    BY EndowmentAssumption, LimitAssumption DEF Balance
  <1>6. ColumnSum(Endowment, Users, c) \in Nat
    BY <1>5, FinitePairs, ColumnBound, Zenon
  <1>7. Supply(c) \in Nat
    BY <1>6, Zenon DEF ColumnSum, Supply
  <1> QED
    BY <1>1, <1>4, <1>7 DEF Holding

LEMMA SupplyIsNat ==
    ASSUME SumFacts, NEW c \in Assets
    PROVE  Supply(c) \in Nat /\ Supply(c) <= MaxBalance
  <1>1. Endowment \in [Users -> [Assets -> Nat]]
    BY EndowmentAssumption, LimitAssumption DEF Balance
  <1>2. ColumnSum(Endowment, Users, c) \in Nat
    BY <1>1, FinitePairs, ColumnBound, ZenonT(40)
  <1> QED
    BY <1>2, SupplyAssumption, Zenon DEF ColumnSum, Supply

LEMMA BalancesAreNat ==
    ASSUME TypeOK
    PROVE  /\ wallet \in [Users -> [Assets -> Nat]]
           /\ reserve \in [Pairs -> [Assets -> Nat]]
BY LimitAssumption DEF TypeOK, Balance

LEMMA HoldingIsNat ==
    ASSUME SumFacts, TypeOK, NEW c \in Assets
    PROVE  Holding(c) \in Nat
  <1>1. ColumnSum(wallet, Users, c) \in Nat /\ ColumnSum(reserve, Pairs, c) \in Nat
    BY BalancesAreNat, FinitePairs, ColumnBound
  <1> QED
    BY <1>1 DEF Holding

LEMMA LessIsWithin ==
    \A h, s, z \in Nat : h <= s => h - z <= s /\ h - 0 <= s
OBVIOUS

LEMMA NothingCreatedStep ==
    ASSUME SumFacts, IndInv, NothingCreated, Next
    PROVE  NothingCreated'
  <1>1. PICK z \in Nat : BurnsOnly(z)
    BY NextBurns, Zenon
  <1> SUFFICES ASSUME NEW c \in Assets
               PROVE  Holding(c)' <= Supply(c)
    BY Zenon DEF NothingCreated, Supply
  <1>2. Holding(c) \in Nat /\ Supply(c) \in Nat /\ Holding(c) <= Supply(c)
    BY HoldingIsNat, SupplyIsNat, Zenon DEF IndInv, NothingCreated
  <1>3. Holding(c)' = Holding(c) - IF c = NativeAssetId THEN z ELSE 0
    BY <1>1, ZenonT(40) DEF BurnsOnly
  <1> QED
    BY <1>2, <1>3, LessIsWithin, ZenonT(40)

\* A wallet and a pool together hold no more than a Balance.
LEMMA Room ==
    ASSUME SumFacts, TypeOK, NothingCreated, NEW who \in Users, NEW p \in Pairs, NEW c \in Assets
    PROVE  /\ wallet[who][c] \in Nat /\ reserve[p][c] \in Nat
           /\ wallet[who][c] + reserve[p][c] <= MaxBalance
  <1>1. /\ wallet[who][c] \in Nat /\ reserve[p][c] \in Nat
        /\ ColumnSum(wallet, Users, c) \in Nat /\ ColumnSum(reserve, Pairs, c) \in Nat
        /\ wallet[who][c] <= ColumnSum(wallet, Users, c)
        /\ reserve[p][c] <= ColumnSum(reserve, Pairs, c)
    BY BalancesAreNat, FinitePairs, ColumnBound
  <1>2. /\ ColumnSum(wallet, Users, c) + ColumnSum(reserve, Pairs, c) <= Supply(c)
        /\ Supply(c) \in Nat /\ Supply(c) <= MaxBalance
    BY SupplyIsNat, Zenon DEF NothingCreated, Holding
  <1> QED
    BY <1>1, <1>2, LimitAssumption

LEMMA SaleExecutes ==
    ASSUME SumFacts, IndInv, NothingCreated, NEW who \in Users, NEW a \in Assets, NEW b \in Assets,
           NEW amount \in Nat, NEW limit, NEW discount \in BOOLEAN,
           validate_sell(who, a, b, amount, limit, discount)
    PROVE  CanExecute(who, a, b, sell_transfer(a, b, amount, discount))
  <1>1. PICK p, transfer, y, z :
             /\ p = get_pair_id(a, b)
             /\ transfer = sell_transfer(a, b, amount, discount)
             /\ y = transfer.amount_out
             /\ z = transfer.burned
    OBVIOUS
  <1>2. FairTransfer(a, b, transfer)
    BY <1>1, ValidSale, Zenon
  <1>3. /\ y \in Nat /\ z \in Nat /\ exists(a, b) /\ reserve[p][b] > y
        /\ transfer.amount_in = amount
    BY <1>1, <1>2, Zenon DEF FairTransfer, sell_transfer
  <1>4. p \in Pairs /\ TypeOK
    BY <1>1, <1>3, LivePair, ZenonT(40) DEF IndInv
  <1>5. /\ wallet[who][a] \in Nat /\ reserve[p][a] \in Nat
        /\ wallet[who][a] + reserve[p][a] <= MaxBalance
        /\ wallet[who][b] \in Nat /\ reserve[p][b] \in Nat
        /\ wallet[who][b] + reserve[p][b] <= MaxBalance
    BY <1>4, Room
  <1>6. wallet[who][a] >= amount
    BY Zenon DEF validate_sell
  <1>7. wallet[who][NativeAssetId] \in Nat
    BY <1>4, AssetsAssumption, BalancesAreNat, ZenonT(40)
  <1>8. wallet[who][NativeAssetId] >= z /\ (z # 0 => a # NativeAssetId)
    <2>1. CASE discount
      <3>1. CanDiscount(who, a, trade_fee(sell_out(a, b, amount), discount))
        BY <2>1, Zenon DEF validate_sell
      <3>2. /\ exists(a, NativeAssetId)
            /\ wallet[who][NativeAssetId]
                 >= discount_fee(a, trade_fee(sell_out(a, b, amount), discount), TRUE)
        BY <3>1, Zenon DEF CanDiscount
      <3>3. z = discount_fee(a, trade_fee(sell_out(a, b, amount), discount), discount)
        BY <1>1, Zenon DEF sell_transfer
      <3>4. discount = TRUE
        BY <2>1
      <3>5. a # NativeAssetId
        BY <3>2, LivePair, PairOfAssets, ZenonT(40)
      <3> QED
        BY <3>2, <3>3, <3>4, <3>5, ZenonT(40)
    <2>2. CASE ~discount
      <3>1. z = 0
        BY <1>1, <2>2, ZenonT(40) DEF sell_transfer, discount_fee
      <3> QED
        BY <1>7, <3>1
    <2> QED
      BY <2>1, <2>2
  <1>9. PICK burnt : burnt = withdraw(wallet, who, NativeAssetId, z)
    OBVIOUS
  <1>10. /\ burnt[who][a] >= amount
         /\ burnt[who][b] \in Int /\ burnt[who][b] <= wallet[who][b]
    BY <1>3, <1>4, <1>5, <1>6, <1>8, <1>9, BalancesAreNat, AssetsAssumption DEF withdraw
  <1>11. /\ Fits(reserve[p][a] + amount)
         /\ Fits(burnt[who][b] + y)
    BY <1>3, <1>5, <1>6, <1>10, LimitAssumption DEF Fits
  <1> QED
    BY <1>1, <1>3, <1>8, <1>9, <1>10, <1>11, ZenonT(40) DEF CanExecute, CanSwap

LEMMA StutterCreates ==
    ASSUME NothingCreated, UNCHANGED vars
    PROVE  NothingCreated'
BY Zenon DEF NothingCreated, Holding, ColumnSum, Supply, vars

-----------------------------------------------------------------------------
(* The theorem.  Here the facts about finite sets and sums are no longer   *)
(* a hypothesis: Sums proves them.                                         *)

INSTANCE Sums

\* A sale that validate_sell accepts can be executed: no deposit overflows,
\* because all the accounts together hold no more than was issued at genesis,
\* and the discount is never burned from the asset that is sold.
THEOREM ValidatedSales == Spec => []ValidatedSellExecutes
  <1>1. Init => IndInv /\ NothingCreated
    BY Facts, InitInv, Genesis DEF NothingCreated
  <1>2. IndInv /\ NothingCreated /\ [Next]_vars => IndInv' /\ NothingCreated'
    BY Facts, NextInv, StutterInv, NothingCreatedStep, StutterCreates, ZenonT(40)
  <1>3. IndInv /\ NothingCreated => ValidatedSellExecutes
    BY Facts, SaleExecutes, AmountIsNat, ZenonT(40) DEF ValidatedSellExecutes
  <1> QED
    BY <1>1, <1>2, <1>3, PTL DEF Spec

=============================================================================
