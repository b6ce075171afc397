--------------------- MODULE MarketplaceRecords_proofs ---------------------
(***************************************************************************)
(* Lemmas about the two records of classes and tokens, the class of the    *)
(* liquidity mining NFTs, the deposits reserved for classes and tokens and *)
(* the named reserves, for every set of users, classes and tokens, with    *)
(* the marketplace and the liquidity mining pallet calling the NFT pallet. *)
(*                                                                         *)
(* The facts about sums are the hypothesis SumFacts.  The theorems that    *)
(* rest on these lemmas are in Marketplace_proofs.                         *)
(***************************************************************************)
EXTENDS Marketplace, SumFacts, TLAPS

USE SMTT(30)

\* The parts of the types that the argument uses.
Shape ==
    /\ IsFiniteSet(instances)
    /\ \A c \in DOMAIN uniques_class :
          uniques_class[c] \in [owner : Accounts, instances : Int, total_deposit : Int,
                                free_holding : BOOLEAN]
    /\ \A t \in DOMAIN uniques_asset : uniques_asset[t] \in [owner : Accounts, deposit : Int]

IndInv ==
    /\ Shape
    /\ StorageAgrees
    /\ MigrationCannotPanic
    /\ LMClassIsProtected
    /\ LMTokensAreDeposits

-----------------------------------------------------------------------------
(* Accounts *)

\* An account is credited.
LEMMA Added ==
    ASSUME NEW S, NEW f \in [S -> Nat], NEW x \in S, NEW m \in Nat
    PROVE  /\ [f EXCEPT ![x] = @ + m] \in [S -> Nat]
           /\ \A y \in S : [f EXCEPT ![x] = @ + m][y] = f[y] + IF y = x THEN m ELSE 0
OBVIOUS

\* An account is debited by what it holds at least.
LEMMA Taken ==
    ASSUME NEW S, NEW f \in [S -> Nat], NEW x \in S, NEW m \in Nat, m <= f[x]
    PROVE  /\ [f EXCEPT ![x] = @ - m] \in [S -> Nat]
           /\ \A y \in S : [f EXCEPT ![x] = @ - m][y] = f[y] - IF y = x THEN m ELSE 0
OBVIOUS

-----------------------------------------------------------------------------
(* The named reserve *)

\* What the named reserve holds: the offers of the account, and in all the
\* offers and the bonds.
Named ==
    /\ \A a \in Accounts : named[a] >= Offered(OffersOf(a))
    /\ SumFunctionOnSet(named, Accounts) =
           Offered(DOMAIN offers) + RoyaltyBondAmount * Cardinality(DOMAIN royalties)

\* A total at d each moves with the number of what is counted.
LEMMA OwedMoves ==
    ASSUME NEW n \in Int, NEW k \in Int, NEW d \in Int
    PROVE  d * (n + k) = d * n + d * k
  OBVIOUS

AmountsOf(h) == [p \in DOMAIN h |-> h[p].amount]

KeysOf(h, a) == {p \in DOMAIN h : p[2] = a}

\* Two records of offers that differ by one offer.
LEMMA OfferSums ==
    ASSUME SumFacts, NEW small, NEW big, NEW o, IsFiniteSet(DOMAIN small), o \notin DOMAIN small,
           DOMAIN big = DOMAIN small \cup {o},
           \A p \in DOMAIN small : big[p] = small[p],
           \A p \in DOMAIN big : big[p].amount \in Nat
    PROVE  /\ SumFunctionOnSet(AmountsOf(big), DOMAIN big) =
                 SumFunctionOnSet(AmountsOf(small), DOMAIN small) + big[o].amount
           /\ \A a : SumFunctionOnSet(AmountsOf(big), KeysOf(big, a)) =
                 SumFunctionOnSet(AmountsOf(small), KeysOf(small, a))
                    + IF o[2] = a THEN big[o].amount ELSE 0
           /\ SumFunctionOnSet(AmountsOf(small), DOMAIN small) \in Nat
           /\ \A a : SumFunctionOnSet(AmountsOf(small), KeysOf(small, a)) \in Nat
<1>1. PICK f : f = AmountsOf(small)
  OBVIOUS
<1>2. PICK g : g = AmountsOf(big)
  OBVIOUS
<1>3. /\ \A p \in DOMAIN small : f[p] = g[p] /\ f[p] \in Nat
      /\ \A p \in DOMAIN big : g[p] \in Int
      /\ g[o] = big[o].amount
  BY <1>1, <1>2 DEF AmountsOf
<1>4. SumFunctionOnSet(f, DOMAIN small) \in Nat
  BY <1>3, Zenon DEF SumFacts, SumNat
<1>5. SumFunctionOnSet(g, DOMAIN big) = SumFunctionOnSet(f, DOMAIN small) + g[o]
  <2>1. Grown(f, g, DOMAIN small, DOMAIN big, o)
    BY <1>3, Zenon DEF Grown, Summable
  <2> QED
    BY <2>1 DEF SumFacts, SumMore
<1>6. ASSUME NEW a
      PROVE  /\ SumFunctionOnSet(g, KeysOf(big, a)) =
                   SumFunctionOnSet(f, KeysOf(small, a)) + IF o[2] = a THEN g[o] ELSE 0
             /\ SumFunctionOnSet(f, KeysOf(small, a)) \in Nat
  <2>1. PICK S : S = KeysOf(small, a)
    OBVIOUS
  <2>2. IsFiniteSet(S) /\ S \subseteq DOMAIN small
    BY <2>1, Zenon DEF SumFacts, FiniteFacts, SubsetFinite, KeysOf
  <2>3. SumFunctionOnSet(f, S) \in Nat
    BY <1>3, <2>2, Zenon DEF SumFacts, SumNat
  <2>4. CASE o[2] = a
    <3>1. KeysOf(big, a) = S \cup {o} /\ o \notin S
      BY <2>1, <2>4, Zenon DEF KeysOf
    <3>2. Summable(g, S \cup {o})
      BY <1>3, <2>2, Zenon DEF Summable
    <3>3. SumFunctionOnSet(g, S \cup {o}) = SumFunctionOnSet(f, S) + g[o]
      <4>1. Grown(f, g, S, S \cup {o}, o)
        BY <1>3, <2>2, <3>1, <3>2, Zenon DEF Grown
      <4> QED
        BY <2>2, <4>1 DEF SumFacts, SumMore
    <3> QED
      BY <2>1, <2>3, <2>4, <3>1, <3>3, Zenon
  <2>5. CASE o[2] # a
    <3>1. KeysOf(big, a) = S
      BY <2>1, <2>5, Zenon DEF KeysOf
    <3>2. SumFunctionOnSet(g, S) = SumFunctionOnSet(f, S)
      BY <1>3, <2>2 DEF SumFacts, SumSame
    <3> QED
      BY <2>1, <2>3, <2>5, <3>1, <3>2
  <2> QED
    BY <2>4, <2>5, Zenon
<1> QED
  BY <1>1, <1>2, <1>3, <1>4, <1>5, <1>6, Zenon

\* The sums over the offers in these terms.
LEMMA SumOfOffers ==
    /\ Offered(DOMAIN offers) = SumFunctionOnSet(AmountsOf(offers), DOMAIN offers)
    /\ Offered(DOMAIN offers)' = SumFunctionOnSet(AmountsOf(offers'), DOMAIN offers')
    /\ \A a : Offered(OffersOf(a)) = SumFunctionOnSet(AmountsOf(offers), KeysOf(offers, a))
    /\ \A a : Offered(OffersOf(a))' = SumFunctionOnSet(AmountsOf(offers'), KeysOf(offers', a))
BY Zenon DEF Offered, OffersOf, AmountsOf, KeysOf

\* There are finitely many accounts.
LEMMA FiniteAccounts ==
    ASSUME SumFacts
    PROVE  IsFiniteSet(Accounts)
BY NFTAssumption, Zenon DEF SumFacts, FiniteFacts, AddFinite, Accounts

\* The named reserves add up to m more when one of them grows by m.
LEMMA NamedMoves ==
    ASSUME SumFacts, named \in [Accounts -> Nat], NEW a \in Accounts, NEW m \in Int, named[a] + m \in Nat,
           named' = [named EXCEPT ![a] = @ + m]
    PROVE  /\ named' \in [Accounts -> Nat]
           /\ SumFunctionOnSet(named', Accounts) = SumFunctionOnSet(named, Accounts) + m
           /\ SumFunctionOnSet(named, Accounts) \in Int
<1>1. named' \in [Accounts -> Nat]
  OBVIOUS
<1>2. PICK f : f = named
  OBVIOUS
<1>3. PICK g : g = named'
  OBVIOUS
<1>4. Summable(f, Accounts) /\ Summable(g, Accounts)
  BY <1>1, <1>2, <1>3 DEF Summable
<1>5. g[a] = f[a] + m /\ \A b \in Accounts : b # a => f[b] = g[b]
  BY <1>2, <1>3, Zenon
<1>6. SumFunctionOnSet(g, Accounts) = SumFunctionOnSet(f, Accounts) - f[a] + g[a]
  <2>1. Changed(f, g, Accounts, a)
    BY <1>4, <1>5, Zenon DEF Changed
  <2> QED
    BY FiniteAccounts, <2>1 DEF SumFacts, SumChange
<1>7. SumFunctionOnSet(f, Accounts) \in Int /\ f[a] \in Int
  BY <1>2, <1>4, FiniteAccounts DEF SumFacts, SumType
<1> QED
  BY <1>1, <1>2, <1>3, <1>5, <1>6, <1>7

\* The types of what the marketplace stores.
Store ==
    /\ DOMAIN prices \subseteq Tokens
    /\ \A t \in DOMAIN prices : prices[t] \in Nat
    /\ IsFiniteSet(DOMAIN offers)
    /\ DOMAIN offers \subseteq Tokens \X Users
    /\ \A o \in DOMAIN offers : offers[o] \in [amount : Nat, expires : Nat]
    /\ IsFiniteSet(DOMAIN royalties)
    /\ DOMAIN royalties \subseteq Tokens
    /\ \A t \in DOMAIN royalties : royalties[t] \in [author : Accounts, royalty : 0..100]
    /\ block \in 0..MaxBlock

\* An offer comes in, and its amount is reserved under the marketplace's name.
LEMMA OfferMade ==
    ASSUME SumFacts, Store, Named, named \in [Accounts -> Nat],
           NEW o \in Tokens \X Users, o \notin DOMAIN offers, NEW m \in Nat, NEW e \in Nat,
           offers' = insert(offers, o, [amount |-> m, expires |-> e]),
           named' = [named EXCEPT ![o[2]] = @ + m],
           UNCHANGED <<prices, royalties, block>>
    PROVE  Store' /\ Named' /\ named' \in [Accounts -> Nat]
<1>1. PICK r : r = [amount |-> m, expires |-> e]
  OBVIOUS
<1>2. r \in [amount : Nat, expires : Nat] /\ r.amount = m
  BY <1>1, Zenon
<1>3. /\ DOMAIN offers' = DOMAIN offers \cup {o}
      /\ offers'[o] = r
      /\ \A p \in DOMAIN offers : offers'[p] = offers[p]
  BY <1>1, Zenon DEF insert
<1>4. Store'
  <2>1. IsFiniteSet(DOMAIN offers')
    BY <1>3 DEF SumFacts, FiniteFacts, AddFinite, Store
  <2>2. \A p \in DOMAIN offers' : offers'[p] \in [amount : Nat, expires : Nat]
    BY <1>2, <1>3 DEF Store
  <2>3. DOMAIN offers' \subseteq Tokens \X Users
    BY <1>3, Zenon DEF Store
  <2> QED
    BY <2>1, <2>2, <2>3, Zenon DEF Store
<1>5. PICK a : a = o[2]
  OBVIOUS
<1>6. a \in Accounts
  BY <1>5, Zenon DEF Accounts
<1>7. /\ named' \in [Accounts -> Nat]
      /\ SumFunctionOnSet(named', Accounts) = SumFunctionOnSet(named, Accounts) + m
  <2>1. named[a] + m \in Nat /\ m \in Int
    BY <1>6
  <2> QED
    BY <1>5, <1>6, <2>1, NamedMoves, Zenon
<1>8. /\ Offered(DOMAIN offers)' = Offered(DOMAIN offers) + m
      /\ \A b : Offered(OffersOf(b))' = Offered(OffersOf(b)) + IF a = b THEN m ELSE 0
      /\ Offered(DOMAIN offers) \in Nat
      /\ \A b : Offered(OffersOf(b)) \in Nat
  <2>1. PICK small : small = offers
    OBVIOUS
  <2>2. PICK big : big = offers'
    OBVIOUS
  <2>3. /\ IsFiniteSet(DOMAIN small) /\ o \notin DOMAIN small
        /\ DOMAIN big = DOMAIN small \cup {o}
        /\ \A p \in DOMAIN small : big[p] = small[p]
        /\ big[o].amount = m
    BY <1>2, <1>3, <2>1, <2>2, Zenon DEF Store
  <2>4. \A p \in DOMAIN big : big[p].amount \in Nat
    BY <1>2, <1>3, <2>1, <2>2 DEF Store
  <2>5. /\ SumFunctionOnSet(AmountsOf(big), DOMAIN big) =
              SumFunctionOnSet(AmountsOf(small), DOMAIN small) + m
        /\ \A b : SumFunctionOnSet(AmountsOf(big), KeysOf(big, b)) =
              SumFunctionOnSet(AmountsOf(small), KeysOf(small, b)) + IF o[2] = b THEN m ELSE 0
        /\ SumFunctionOnSet(AmountsOf(small), DOMAIN small) \in Nat
        /\ \A b : SumFunctionOnSet(AmountsOf(small), KeysOf(small, b)) \in Nat
    BY <2>3, <2>4, OfferSums
  <2> QED
    BY <1>5, <2>1, <2>2, <2>5, SumOfOffers
<1>9. ASSUME NEW b \in Accounts PROVE named'[b] >= Offered(OffersOf(b))'
  <2>1. named'[b] = named[b] + IF a = b THEN m ELSE 0
    BY <1>5, <1>6
  <2>2. named[b] >= Offered(OffersOf(b)) /\ named[b] \in Nat
    BY Zenon DEF Named
  <2> QED
    BY <1>8, <2>1, <2>2
<1>10. Cardinality(DOMAIN royalties) \in Nat
  BY Zenon DEF SumFacts, FiniteFacts, CardinalityType, Store
<1>11. PICK bonds \in Int : bonds = RoyaltyBondAmount * Cardinality(DOMAIN royalties)
  BY <1>10, MarketplaceAssumption
<1>12. SumFunctionOnSet(named', Accounts) =
          Offered(DOMAIN offers)' + RoyaltyBondAmount * Cardinality(DOMAIN royalties')
  BY <1>7, <1>8, <1>11 DEF Named
<1> QED
  BY <1>4, <1>7, <1>9, <1>12, Zenon DEF Named

\* An offer goes, and its amount, which is still in the reserve, is returned.
LEMMA OfferGone ==
    ASSUME SumFacts, Store, Named, named \in [Accounts -> Nat],
           NEW o \in DOMAIN offers, NEW m, m = offers[o].amount,
           offers' = remove(offers, o),
           named' = [named EXCEPT ![o[2]] = @ - m],
           UNCHANGED <<royalties, block>>, prices' = prices
    PROVE  Store' /\ Named' /\ named' \in [Accounts -> Nat]
<1>1. /\ DOMAIN offers' = DOMAIN offers \ {o}
      /\ \A p \in DOMAIN offers' : offers'[p] = offers[p]
  BY Zenon DEF remove
<1>2. Store'
  <2>1. IsFiniteSet(DOMAIN offers')
    BY <1>1, Zenon DEF SumFacts, FiniteFacts, SubsetFinite, Store
  <2> QED
    BY <1>1, <2>1, Zenon DEF Store
<1>3. m \in Nat
  BY Zenon DEF Store
<1>4. PICK a : a = o[2]
  OBVIOUS
<1>5. a \in Accounts
  BY <1>4, Zenon DEF Accounts, Store
<1>6. /\ Offered(DOMAIN offers) = Offered(DOMAIN offers)' + m
      /\ \A b : Offered(OffersOf(b)) = Offered(OffersOf(b))' + IF a = b THEN m ELSE 0
      /\ Offered(DOMAIN offers)' \in Nat
      /\ \A b : Offered(OffersOf(b))' \in Nat
  <2>1. PICK small : small = offers'
    OBVIOUS
  <2>2. PICK big : big = offers
    OBVIOUS
  <2>3. /\ IsFiniteSet(DOMAIN small) /\ o \notin DOMAIN small
        /\ DOMAIN big = DOMAIN small \cup {o}
        /\ \A p \in DOMAIN small : big[p] = small[p]
        /\ big[o].amount = m
    <3>1. DOMAIN big = DOMAIN small \cup {o}
      BY <1>1, <2>1, <2>2, Zenon
    <3>2. IsFiniteSet(DOMAIN small)
      BY <1>2, <2>1, Zenon DEF Store
    <3> QED
      BY <1>1, <2>1, <2>2, <3>1, <3>2, Zenon
  <2>4. \A p \in DOMAIN big : big[p].amount \in Nat
    BY <2>2, Zenon DEF Store
  <2>5. /\ SumFunctionOnSet(AmountsOf(big), DOMAIN big) =
              SumFunctionOnSet(AmountsOf(small), DOMAIN small) + m
        /\ \A b : SumFunctionOnSet(AmountsOf(big), KeysOf(big, b)) =
              SumFunctionOnSet(AmountsOf(small), KeysOf(small, b)) + IF o[2] = b THEN m ELSE 0
        /\ SumFunctionOnSet(AmountsOf(small), DOMAIN small) \in Nat
        /\ \A b : SumFunctionOnSet(AmountsOf(small), KeysOf(small, b)) \in Nat
    BY <2>3, <2>4, OfferSums
  <2> QED
    BY <1>4, <2>1, <2>2, <2>5, SumOfOffers
<1>7. PICK k \in Int : k = -m
  BY <1>3
<1>8. /\ named' \in [Accounts -> Nat]
      /\ SumFunctionOnSet(named', Accounts) = SumFunctionOnSet(named, Accounts) + k
  <2>1. named[a] \in Nat /\ named[a] >= Offered(OffersOf(a))
    BY <1>5, Zenon DEF Named
  <2>2. named[a] + k \in Nat /\ named[a] + k = named[a] - m
    BY <1>3, <1>6, <1>7, <2>1
  <2>3. named' = [named EXCEPT ![a] = @ + k]
    BY <1>4, <2>2, Zenon
  <2> QED
    BY <1>5, <2>2, <2>3, NamedMoves, Zenon
<1>9. ASSUME NEW b \in Accounts PROVE named'[b] >= Offered(OffersOf(b))'
  <2>1. named[b] >= Offered(OffersOf(b)) /\ named[b] \in Nat
    BY Zenon DEF Named
  <2>2. named'[b] = named[b] - IF a = b THEN m ELSE 0
    BY <1>4, <1>5, <2>1
  <2> QED
    BY <1>3, <1>6, <2>1, <2>2
<1>10. Cardinality(DOMAIN royalties) \in Nat
  BY Zenon DEF SumFacts, FiniteFacts, CardinalityType, Store
<1>11. PICK bonds \in Int : bonds = RoyaltyBondAmount * Cardinality(DOMAIN royalties)
  BY <1>10, MarketplaceAssumption
<1>12. SumFunctionOnSet(named', Accounts) =
          Offered(DOMAIN offers)' + RoyaltyBondAmount * Cardinality(DOMAIN royalties')
  BY <1>3, <1>6, <1>7, <1>8, <1>11 DEF Named
<1> QED
  BY <1>2, <1>8, <1>9, <1>12, Zenon DEF Named

\* A royalty comes with a bond.
LEMMA BondPaid ==
    ASSUME SumFacts, Store, Named, named \in [Accounts -> Nat],
           NEW t \in Tokens, t \notin DOMAIN royalties, NEW who \in Accounts,
           NEW r \in [author : Accounts, royalty : 0..100],
           royalties' = insert(royalties, t, r),
           named' = [named EXCEPT ![who] = @ + RoyaltyBondAmount],
           UNCHANGED <<prices, offers, block>>
    PROVE  Store' /\ Named' /\ named' \in [Accounts -> Nat]
<1>1. /\ DOMAIN royalties' = DOMAIN royalties \cup {t}
      /\ royalties'[t] = r
      /\ \A u \in DOMAIN royalties : royalties'[u] = royalties[u]
  BY Zenon DEF insert
<1>2. /\ IsFiniteSet(DOMAIN royalties')
      /\ Cardinality(DOMAIN royalties') = Cardinality(DOMAIN royalties) + 1
      /\ Cardinality(DOMAIN royalties) \in Nat
  BY <1>1 DEF SumFacts, FiniteFacts, AddFinite, CardinalityType, Store
<1>3. Store'
  BY <1>1, <1>2 DEF Store
<1>4. PICK m \in Nat : m = RoyaltyBondAmount
  BY MarketplaceAssumption, Zenon
<1>5. /\ named' \in [Accounts -> Nat]
      /\ SumFunctionOnSet(named', Accounts) = SumFunctionOnSet(named, Accounts) + m
  <2>1. named[who] + m \in Nat /\ m \in Int
    OBVIOUS
  <2>2. named' = [named EXCEPT ![who] = @ + m]
    BY <1>4, Zenon
  <2> QED
    BY <2>1, <2>2, NamedMoves, Zenon
<1>6. UNCHANGED <<Offered(DOMAIN offers), offers>> /\ \A b : UNCHANGED Offered(OffersOf(b))
  BY Zenon DEF Offered, OffersOf
<1>7. ASSUME NEW b \in Accounts PROVE named'[b] >= Offered(OffersOf(b))'
  <2>1. IsFiniteSet(KeysOf(offers, b)) /\ \A o \in KeysOf(offers, b) : AmountsOf(offers)[o] \in Nat
    BY ZenonT(40) DEF SumFacts, FiniteFacts, SubsetFinite, Store, KeysOf, AmountsOf
  <2>2. Offered(OffersOf(b)) \in Nat
    BY <2>1, SumOfOffers DEF SumFacts, SumNat
  <2>3. named[b] >= Offered(OffersOf(b)) /\ named[b] \in Nat
    BY Zenon DEF Named
  <2>4. named'[b] = named[b] \/ named'[b] = named[b] + m
    BY <1>4, Zenon
  <2> QED
    BY <1>6, <2>2, <2>3, <2>4
<1>8. PICK n \in Nat : n = Cardinality(DOMAIN royalties)
  BY <1>2, Zenon
<1>9. m * (n + 1) = m * n + m * 1
  BY OwedMoves
<1>10. m * n \in Int /\ m * 1 = m
  OBVIOUS
<1>11. Offered(DOMAIN offers) \in Nat
  <2>1. \A o \in DOMAIN offers : AmountsOf(offers)[o] \in Nat
    BY Zenon DEF Store, AmountsOf
  <2> QED
    BY <2>1, SumOfOffers DEF SumFacts, SumNat, Store
<1>12. SumFunctionOnSet(named', Accounts) =
          Offered(DOMAIN offers)' + RoyaltyBondAmount * Cardinality(DOMAIN royalties')
  <2>1. SumFunctionOnSet(named, Accounts) = Offered(DOMAIN offers) + m * n
    BY <1>4, <1>8, Zenon DEF Named
  <2>2. SumFunctionOnSet(named', Accounts) = Offered(DOMAIN offers) + m * (n + 1)
    BY <1>5, <1>9, <1>10, <1>11, <2>1
  <2> QED
    BY <1>2, <1>4, <1>6, <1>8, <2>2, Zenon
<1> QED
  BY <1>3, <1>5, <1>7, <1>12, Zenon DEF Named

-----------------------------------------------------------------------------
(* The records *)

\* Steps that leave the NFT pallet alone.
LEMMA Elsewhere ==
    ASSUME IndInv, UNCHANGED <<nft_vars, lm_version, lm_tokens>>
    PROVE  IndInv'
<1> USE DEF nft_vars
<1>1. Shape' /\ StorageAgrees'
  BY Zenon DEF IndInv, Shape, StorageAgrees
<1>2. MigrationCannotPanic' /\ LMClassIsProtected' /\ LMTokensAreDeposits'
  BY Zenon DEF IndInv, MigrationCannotPanic, LMClassIsProtected, LMTokensAreDeposits, ClassExists, class_owner
<1> QED
  BY <1>1, <1>2, Zenon DEF IndInv

\* A class is new and has no tokens.  Only the migration takes the id and the
\* type of liquidity mining.
LEMMA Creation ==
    ASSUME SumFacts, IndInv, NEW who \in Accounts, NEW c, NEW type,
           do_create_class(who, c, type),
           \/ c = LMClass /\ type = "LiquidityMining" /\ who = PalletAccount /\ lm_version' = 1
           \/ c # LMClass /\ type = DefaultClassType /\ UNCHANGED lm_version,
           UNCHANGED lm_tokens
    PROVE  IndInv'
<1> DEFINE amount == IF has_deposit(type) THEN ClassDeposit ELSE 0
           class == [owner |-> who, instances |-> 0, total_deposit |-> amount,
                     free_holding |-> ~has_deposit(type)]
<1>1. /\ c \notin DOMAIN uniques_class
      /\ uniques_class' = insert(uniques_class, c, class)
      /\ classes' = insert(classes, c, type)
      /\ UNCHANGED <<instances, uniques_asset>>
  BY Zenon DEF do_create_class, ClassExists
<1>2. /\ class \in [owner : Accounts, instances : Int, total_deposit : Int, free_holding : BOOLEAN]
      /\ class.instances = 0
      /\ class.owner = who
  BY NFTAssumption DEF has_deposit
<1>3. class.free_holding = ~has_deposit(type)
  OBVIOUS
<1> HIDE DEF class
<1>4. Shape'
  BY <1>1, <1>2, Zenon DEF IndInv, Shape, insert
<1>5. {t \in instances : t[1] = c} = {}
  BY <1>1, Zenon DEF IndInv, StorageAgrees
<1>6. StorageAgrees'
  <2>1. DOMAIN classes' = DOMAIN uniques_class' /\ instances' = DOMAIN uniques_asset'
    BY <1>1, Zenon DEF IndInv, StorageAgrees, insert
  <2>2. \A t \in instances' : t[1] \in DOMAIN classes'
    BY <1>1, Zenon DEF IndInv, StorageAgrees, insert
  <2>3. ASSUME NEW d \in DOMAIN classes'
        PROVE  /\ uniques_class'[d].instances = Cardinality({t \in instances' : t[1] = d})
               /\ uniques_class'[d].free_holding = ~has_deposit(classes'[d])
    <3>1. CASE d = c
      BY <1>1, <1>2, <1>3, <1>5, <3>1, Zenon DEF SumFacts, FiniteFacts, EmptyFinite, insert
    <3>2. CASE d # c
      BY <1>1, <3>2, Zenon DEF IndInv, StorageAgrees, insert
    <3> QED
      BY <3>1, <3>2, Zenon
  <2> QED
    BY <2>1, <2>2, <2>3, Zenon DEF StorageAgrees
<1>7. MigrationCannotPanic'
  BY <1>1 DEF IndInv, MigrationCannotPanic, ClassExists, insert
<1>8. LMClassIsProtected'
  <2> SUFFICES ASSUME NEW d \in DOMAIN classes', d = LMClass \/ classes'[d] = "LiquidityMining"
               PROVE  /\ d = LMClass
                      /\ classes'[d] = "LiquidityMining"
                      /\ uniques_class'[d].owner = PalletAccount
    BY Zenon DEF LMClassIsProtected, class_owner
  <2>1. CASE d = c
    BY <1>1, <1>2, <2>1, Zenon DEF insert, DefaultClassType
  <2>2. CASE d # c
    BY <1>1, <2>2, Zenon DEF IndInv, LMClassIsProtected, StorageAgrees, class_owner, insert
  <2> QED
    BY <2>1, <2>2, Zenon
<1>9. LMTokensAreDeposits'
  BY <1>1, Zenon DEF IndInv, LMTokensAreDeposits
<1> QED
  BY <1>4, <1>6, <1>7, <1>8, <1>9, Zenon DEF IndInv

\* The record of a class after a token of it was minted or burned.
Counted(c, n, m) ==
    [uniques_class EXCEPT ![c].instances = @ + n, ![c].total_deposit = @ + m]

\* What counting leaves of the classes.
LEMMA Counting ==
    ASSUME Shape, NEW c \in DOMAIN uniques_class, NEW n \in Int, NEW m \in Int
    PROVE  /\ DOMAIN Counted(c, n, m) = DOMAIN uniques_class
           /\ \A d \in DOMAIN uniques_class :
                 /\ Counted(c, n, m)[d] \in [owner : Accounts, instances : Int, total_deposit : Int,
                                             free_holding : BOOLEAN]
                 /\ Counted(c, n, m)[d].owner = uniques_class[d].owner
                 /\ Counted(c, n, m)[d].free_holding = uniques_class[d].free_holding
                 /\ Counted(c, n, m)[d].instances =
                        uniques_class[d].instances + IF d = c THEN n ELSE 0
<1>1. DOMAIN Counted(c, n, m) = DOMAIN uniques_class
  BY Zenon DEF Counted
<1>2. ASSUME NEW d \in DOMAIN uniques_class
      PROVE  /\ Counted(c, n, m)[d] \in [owner : Accounts, instances : Int, total_deposit : Int,
                                             free_holding : BOOLEAN]
             /\ Counted(c, n, m)[d].owner = uniques_class[d].owner
             /\ Counted(c, n, m)[d].free_holding = uniques_class[d].free_holding
             /\ Counted(c, n, m)[d].instances =
                    uniques_class[d].instances + IF d = c THEN n ELSE 0
  <2>1. uniques_class[d] \in [owner : Accounts, instances : Int, total_deposit : Int,
                              free_holding : BOOLEAN]
    BY Zenon DEF Shape
  <2>2. CASE d = c
    <3> DEFINE new == [uniques_class[c] EXCEPT !.instances = @ + n, !.total_deposit = @ + m]
    <3>1. Counted(c, n, m)[c] = new
      BY Zenon DEF Counted
    <3>2. PICK old \in [owner : Accounts, instances : Int, total_deposit : Int,
                        free_holding : BOOLEAN] : old = uniques_class[c]
      BY <2>1, <2>2, Zenon
    <3>3. /\ new.owner = old.owner
          /\ new.free_holding = old.free_holding
          /\ new.instances = old.instances + n
          /\ new.total_deposit = old.total_deposit + m
      BY <3>2, Zenon
    <3>4. new \in [owner : Accounts, instances : Int, total_deposit : Int,
                   free_holding : BOOLEAN]
      <4> DEFINE mid == [old EXCEPT !.instances = @ + n]
      <4>1. mid \in [owner : Accounts, instances : Int, total_deposit : Int,
                     free_holding : BOOLEAN]
        BY <3>2
      <4>2. new = [mid EXCEPT !.total_deposit = @ + m]
        BY <3>2, Zenon
      <4> HIDE DEF mid, new
      <4> QED
        BY <4>1, <4>2
    <3> QED
      BY <2>2, <3>1, <3>2, <3>3, <3>4, Zenon
  <2>3. CASE d # c
    BY <2>1, <2>3 DEF Counted
  <2> QED
    BY <2>2, <2>3, Zenon
<1> QED
  BY <1>1, <1>2, Zenon

LEMMA CountingKeeps ==
    ASSUME Shape, NEW c \in DOMAIN uniques_class, NEW n \in Int, NEW m \in Int
    PROVE  \A d \in DOMAIN uniques_class :
              Counted(c, n, m)[d].free_holding = uniques_class[d].free_holding
BY Counting

-----------------------------------------------------------------------------
\* A token that is minted is counted by its class, once.
LEMMA Minting ==
    ASSUME SumFacts, IndInv, NEW who \in Accounts, NEW token, do_mint(who, token), UNCHANGED lm_version,
           lm_tokens' = lm_tokens \cup (IF token[1] = LMClass THEN {token} ELSE {})
    PROVE  IndInv'
<1> DEFINE c == token[1]
           amount == IF uniques_class[c].free_holding THEN 0 ELSE InstanceDeposit
           asset == [owner |-> who, deposit |-> amount]
           of(S, d) == {t \in S : t[1] = d}
<1>1. /\ token \notin DOMAIN uniques_asset
      /\ c \in DOMAIN uniques_class
      /\ uniques_class' = Counted(c, 1, amount)
      /\ uniques_asset' = insert(uniques_asset, token, asset)
      /\ instances' = instances \cup {token}
      /\ UNCHANGED classes
  BY Zenon DEF do_mint, TokenExists, ClassExists, Counted
<1>2. amount \in Int
  BY NFTAssumption
<1>3. asset \in [owner : Accounts, deposit : Int]
  BY <1>2, Zenon
<1> HIDE DEF amount, asset
<1>4. /\ DOMAIN uniques_class' = DOMAIN uniques_class
      /\ \A d \in DOMAIN uniques_class :
            /\ uniques_class'[d] \in [owner : Accounts, instances : Int, total_deposit : Int,
                                      free_holding : BOOLEAN]
            /\ uniques_class'[d].owner = uniques_class[d].owner
            /\ uniques_class'[d].free_holding = uniques_class[d].free_holding
            /\ uniques_class'[d].instances = uniques_class[d].instances + IF d = c THEN 1 ELSE 0
  BY <1>1, <1>2, Counting DEF IndInv
<1>5. Shape'
  <2>1. IsFiniteSet(instances')
    BY <1>1, Zenon DEF SumFacts, FiniteFacts, AddFinite, IndInv, Shape
  <2>2. \A t \in DOMAIN uniques_asset' : uniques_asset'[t] \in [owner : Accounts, deposit : Int]
    BY <1>1, <1>3, Zenon DEF IndInv, Shape, insert
  <2> QED
    BY <1>4, <2>1, <2>2, Zenon DEF Shape
<1>6. StorageAgrees'
  <2>1. DOMAIN classes' = DOMAIN uniques_class' /\ instances' = DOMAIN uniques_asset'
    BY <1>1, <1>4, Zenon DEF IndInv, StorageAgrees, insert
  <2>2. \A t \in instances' : t[1] \in DOMAIN classes'
    BY <1>1, Zenon DEF IndInv, StorageAgrees
  <2>3. ASSUME NEW d \in DOMAIN classes'
        PROVE  uniques_class'[d].instances = Cardinality(of(instances', d))
    <3>1. uniques_class[d].instances = Cardinality(of(instances, d)) /\ d \in DOMAIN uniques_class
      BY <1>1, Zenon DEF IndInv, StorageAgrees
    <3>2. CASE d = c
      <4>1. of(instances', d) = of(instances, d) \cup {token} /\ token \notin of(instances, d)
        BY <1>1, <3>2, Zenon DEF IndInv, StorageAgrees
      <4>2. IsFiniteSet(of(instances, d))
        BY Zenon DEF SumFacts, FiniteFacts, SubsetFinite, IndInv, Shape
      <4>3. Cardinality(of(instances, d) \cup {token}) = Cardinality(of(instances, d)) + 1
        BY <4>1, <4>2, Zenon DEF SumFacts, FiniteFacts, AddFinite
      <4> QED
        BY <1>4, <3>1, <3>2, <4>1, <4>3, Zenon
    <3>3. CASE d # c
      <4>1. of(instances', d) = of(instances, d)
        BY <1>1, <3>3, Zenon
      <4>2. uniques_class[d].instances \in Int
        BY <3>1, Zenon DEF IndInv, Shape
      <4>3. uniques_class'[d].instances = uniques_class[d].instances
        BY <1>4, <3>1, <3>3, <4>2
      <4> QED
        BY <3>1, <4>1, <4>3, Zenon
    <3> QED
      BY <3>2, <3>3, Zenon
  <2>4. \A d \in DOMAIN classes' : uniques_class'[d].free_holding = ~has_deposit(classes'[d])
    BY <1>1, <1>4, Zenon DEF IndInv, StorageAgrees
  <2> QED
    BY <2>1, <2>2, <2>3, <2>4, Zenon DEF StorageAgrees
<1>7. MigrationCannotPanic'
  BY <1>4, Zenon DEF IndInv, MigrationCannotPanic, ClassExists
<1>8. LMClassIsProtected'
  BY <1>1, <1>4 DEF IndInv, LMClassIsProtected, StorageAgrees, class_owner
<1>9. LMTokensAreDeposits'
  BY <1>1, Zenon DEF IndInv, LMTokensAreDeposits, insert
<1> QED
  BY <1>5, <1>6, <1>7, <1>8, <1>9, Zenon DEF IndInv

\* A token that is burned is not counted any more.
LEMMA Burning ==
    ASSUME SumFacts, IndInv, NEW who, NEW token, do_burn(who, token), UNCHANGED lm_version,
           lm_tokens' = lm_tokens \ (IF token[1] = LMClass THEN {token} ELSE {})
    PROVE  IndInv'
<1> DEFINE c == token[1]
           amount == 0 - uniques_asset[token].deposit
           of(S, d) == {t \in S : t[1] = d}
<1>1. /\ token \in DOMAIN uniques_asset
      /\ uniques_asset' = remove(uniques_asset, token)
      /\ instances' = instances \ {token}
      /\ UNCHANGED classes
  BY Zenon DEF do_burn, TokenExists
<1>2. c \in DOMAIN uniques_class
  BY <1>1, Zenon DEF IndInv, StorageAgrees
<1>3. uniques_asset[token].deposit \in Int
  BY <1>1, Zenon DEF IndInv, Shape
<1>4. uniques_class' = Counted(c, -1, amount)
  <2>1. /\ uniques_class[c].instances \in Int
        /\ uniques_class[c].total_deposit \in Int
    BY <1>2, Zenon DEF IndInv, Shape
  <2>2. /\ uniques_class[c].instances - 1 = uniques_class[c].instances + (-1)
        /\ uniques_class[c].total_deposit - uniques_asset[token].deposit
              = uniques_class[c].total_deposit + amount
    BY <1>3, <2>1
  <2> QED
    BY <1>2, <2>2, Zenon DEF do_burn, Counted
<1>5. amount \in Int
  BY <1>3
<1> HIDE DEF amount
<1>6. /\ DOMAIN uniques_class' = DOMAIN uniques_class
      /\ \A d \in DOMAIN uniques_class :
            /\ uniques_class'[d] \in [owner : Accounts, instances : Int, total_deposit : Int,
                                      free_holding : BOOLEAN]
            /\ uniques_class'[d].owner = uniques_class[d].owner
            /\ uniques_class'[d].free_holding = uniques_class[d].free_holding
            /\ uniques_class'[d].instances = uniques_class[d].instances + IF d = c THEN -1 ELSE 0
  BY <1>2, <1>4, <1>5, Counting DEF IndInv
<1>7. Shape'
  <2>1. IsFiniteSet(instances')
    BY <1>1, Zenon DEF SumFacts, FiniteFacts, SubsetFinite, IndInv, Shape
  <2>2. \A t \in DOMAIN uniques_asset' : uniques_asset'[t] \in [owner : Accounts, deposit : Int]
    BY <1>1, Zenon DEF IndInv, Shape, remove
  <2> QED
    BY <1>6, <2>1, <2>2, Zenon DEF Shape
<1>8. StorageAgrees'
  <2>1. DOMAIN classes' = DOMAIN uniques_class' /\ instances' = DOMAIN uniques_asset'
    BY <1>1, <1>6, Zenon DEF IndInv, StorageAgrees, remove
  <2>2. \A t \in instances' : t[1] \in DOMAIN classes'
    BY <1>1, Zenon DEF IndInv, StorageAgrees
  <2>3. ASSUME NEW d \in DOMAIN classes'
        PROVE  uniques_class'[d].instances = Cardinality(of(instances', d))
    <3>1. uniques_class[d].instances = Cardinality(of(instances, d)) /\ d \in DOMAIN uniques_class
      BY <1>1, Zenon DEF IndInv, StorageAgrees
    <3>2. CASE d = c
      <4>1. of(instances', d) = of(instances, d) \ {token} /\ token \in of(instances, d)
        BY <1>1, <3>2, Zenon DEF IndInv, StorageAgrees
      <4>2. IsFiniteSet(of(instances, d))
        BY Zenon DEF SumFacts, FiniteFacts, SubsetFinite, IndInv, Shape
      <4>3. Cardinality(of(instances, d) \ {token}) = Cardinality(of(instances, d)) - 1
        BY <4>1, <4>2, Zenon DEF SumFacts, FiniteFacts, RemoveFinite
      <4>4. uniques_class[d].instances \in Int
        BY <3>1, Zenon DEF IndInv, Shape
      <4> QED
        BY <1>6, <3>1, <3>2, <4>1, <4>3, <4>4, Zenon
    <3>3. CASE d # c
      <4>1. of(instances', d) = of(instances, d)
        BY <1>1, <3>3, Zenon
      <4>2. uniques_class[d].instances \in Int
        BY <3>1, Zenon DEF IndInv, Shape
      <4>3. uniques_class'[d].instances = uniques_class[d].instances
        BY <1>6, <3>1, <3>3, <4>2
      <4> QED
        BY <3>1, <4>1, <4>3, Zenon
    <3> QED
      BY <3>2, <3>3, Zenon
  <2>4. \A d \in DOMAIN classes' : uniques_class'[d].free_holding = ~has_deposit(classes'[d])
    BY <1>1, <1>6, Zenon DEF IndInv, StorageAgrees
  <2> QED
    BY <2>1, <2>2, <2>3, <2>4, Zenon DEF StorageAgrees
<1>9. MigrationCannotPanic' /\ LMClassIsProtected'
  BY <1>1, <1>6 DEF IndInv, MigrationCannotPanic, LMClassIsProtected, StorageAgrees, ClassExists,
                    class_owner
<1>10. LMTokensAreDeposits'
  BY <1>1 DEF IndInv, LMTokensAreDeposits, remove
<1> QED
  BY <1>7, <1>8, <1>9, <1>10, Zenon DEF IndInv

\* A token that changes hands stays in the records.
LEMMA Moving ==
    ASSUME IndInv, NEW token, NEW from, NEW to \in Accounts, do_transfer(token, from, to),
           UNCHANGED <<lm_version, lm_tokens>>
    PROVE  IndInv'
<1>1. CASE UNCHANGED nft_vars
  BY <1>1, Elsewhere, Zenon
<1>2. CASE ~UNCHANGED nft_vars
  <2>1. /\ token \in DOMAIN uniques_asset
        /\ uniques_asset' = [uniques_asset EXCEPT ![token].owner = to]
        /\ UNCHANGED <<classes, instances, uniques_class>>
    BY <1>2, Zenon DEF do_transfer, TokenExists
  <2>2. DOMAIN uniques_asset' = DOMAIN uniques_asset
    BY <2>1, Zenon
  <2>3. ASSUME NEW t \in DOMAIN uniques_asset
        PROVE  uniques_asset'[t] \in [owner : Accounts, deposit : Int]
    <3>1. uniques_asset[t] \in [owner : Accounts, deposit : Int]
      BY Zenon DEF IndInv, Shape
    <3>2. CASE t = token
      BY <2>1, <3>1, <3>2, Zenon
    <3>3. CASE t # token
      BY <2>1, <3>1, <3>3, Zenon
    <3> QED
      BY <3>2, <3>3, Zenon
  <2>4. Shape' /\ StorageAgrees'
    BY <2>1, <2>2, <2>3, Zenon DEF IndInv, Shape, StorageAgrees
  <2>5. MigrationCannotPanic' /\ LMClassIsProtected' /\ LMTokensAreDeposits'
    BY <2>1, <2>2, Zenon DEF IndInv, MigrationCannotPanic, LMClassIsProtected, LMTokensAreDeposits,
                      ClassExists, class_owner
  <2> QED
    BY <2>4, <2>5, Zenon DEF IndInv
<1> QED
  BY <1>1, <1>2, Zenon

\* A class that is destroyed has no tokens left, in either record.
LEMMA Destroying ==
    ASSUME SumFacts, IndInv, NEW who, NEW c, do_destroy_class(who, c), c # LMClass,
           UNCHANGED <<lm_version, lm_tokens>>
    PROVE  IndInv'
<1>1. /\ c \in DOMAIN uniques_class
      /\ uniques_class[c].instances = 0
      /\ uniques_class' = remove(uniques_class, c)
      /\ uniques_asset' = [t \in {t \in DOMAIN uniques_asset : t[1] # c} |-> uniques_asset[t]]
      /\ classes' = remove(classes, c)
      /\ UNCHANGED instances
  BY Zenon DEF do_destroy_class, ClassExists, ClassIsEmpty
<1>2. \A t \in instances : t[1] # c
  <2> DEFINE tokens == {t \in instances : t[1] = c}
  <2>1. Cardinality(tokens) = 0
    BY <1>1, Zenon DEF IndInv, StorageAgrees
  <2>2. IsFiniteSet(tokens)
    BY Zenon DEF SumFacts, FiniteFacts, SubsetFinite, IndInv, Shape
  <2> HIDE DEF tokens
  <2>3. tokens = {}
    BY <2>1, <2>2, Zenon DEF SumFacts, FiniteFacts, EmptyFinite
  <2> QED
    BY <2>3, Zenon DEF tokens
<1>3. /\ DOMAIN uniques_asset' = DOMAIN uniques_asset
      /\ \A t \in DOMAIN uniques_asset : uniques_asset'[t] = uniques_asset[t]
  <2>1. {t \in DOMAIN uniques_asset : t[1] # c} = DOMAIN uniques_asset
    BY <1>2, Zenon DEF IndInv, StorageAgrees
  <2> QED
    BY <1>1, <2>1, Zenon
<1>4. Shape'
  BY <1>1, <1>3, Zenon DEF IndInv, Shape, remove
<1>5. StorageAgrees'
  BY <1>1, <1>2, <1>3, Zenon DEF IndInv, StorageAgrees, remove
<1>6. MigrationCannotPanic' /\ LMClassIsProtected' /\ LMTokensAreDeposits'
  BY <1>1, <1>3, Zenon DEF IndInv, MigrationCannotPanic, LMClassIsProtected, LMTokensAreDeposits,
                    StorageAgrees, ClassExists, class_owner, remove
<1> QED
  BY <1>4, <1>5, <1>6, Zenon DEF IndInv

-----------------------------------------------------------------------------
LEMMA Initially ==
    ASSUME SumFacts
    PROVE  Init => IndInv
<1> SUFFICES ASSUME Init PROVE IndInv
  OBVIOUS
<1>1. /\ DOMAIN classes = {} /\ DOMAIN uniques_class = {}
      /\ instances = {} /\ DOMAIN uniques_asset = {} /\ lm_tokens = {}
  BY Zenon DEF Init, NFTInit, Empty
<1>2. Shape
  BY <1>1, Zenon DEF SumFacts, FiniteFacts, EmptyFinite, Shape
<1>3. StorageAgrees /\ MigrationCannotPanic /\ LMClassIsProtected /\ LMTokensAreDeposits
  BY <1>1, Zenon DEF StorageAgrees, MigrationCannotPanic, LMClassIsProtected, LMTokensAreDeposits,
              ClassExists
<1> QED
  BY <1>2, <1>3, Zenon DEF IndInv

\* The calls of the NFT pallet.  The permissions refuse users the liquidity
\* mining class, whose type they cannot change.
LEMMA Calls ==
    ASSUME SumFacts, IndInv, NEW who \in Users, NFTCall(who), UNCHANGED <<lm_version, lm_tokens>>
    PROVE  IndInv'
<1>1. LMClass \in DOMAIN classes => classes[LMClass] = "LiquidityMining"
  BY Zenon DEF IndInv, LMClassIsProtected
<1>2. who \in Accounts
  BY Zenon DEF Accounts
<1>3. ASSUME NEW c \in ClassIds, NEW type \in ClassType, create_class(who, c, type) PROVE IndInv'
  <2>1. c # LMClass
    BY <1>3, NFTAssumption DEF create_class, IdNotReserved
  <2>2. do_create_class(who, c, DefaultClassType)
    BY <1>3, Zenon DEF create_class
  <2> QED
    BY <1>2, <2>1, <2>2, Creation, Zenon
<1>4. ASSUME NEW c \in ClassIds, destroy_class(who, c) PROVE IndInv'
  <2>1. c # LMClass /\ do_destroy_class(who, c)
    BY <1>1, <1>4, Zenon DEF destroy_class, can_destroy
  <2> QED
    BY <2>1, Destroying, Zenon
<1>5. ASSUME NEW token \in Tokens, mint(who, token) PROVE IndInv'
  <2>1. token[1] # LMClass /\ do_mint(who, token)
    BY <1>1, <1>5, Zenon DEF mint, can_mint
  <2> QED
    BY <1>2, <2>1, Minting, Zenon
<1>6. ASSUME NEW token \in Tokens, burn(who, token) PROVE IndInv'
  <2>1. token[1] # LMClass /\ do_burn(who, token)
    BY <1>1, <1>6, Zenon DEF burn, can_burn
  <2> QED
    BY <2>1, Burning, Zenon
<1>7. ASSUME NEW token \in Tokens, NEW dest \in Users, transfer(who, token, dest) PROVE IndInv'
  BY <1>7, Moving, Zenon DEF transfer, Accounts
<1> QED
  BY <1>3, <1>4, <1>5, <1>6, <1>7, Zenon DEF NFTCall

\* The calls of the marketplace: those that sell a token transfer it.
LEMMA Selling ==
    ASSUME IndInv, NEW who \in Users, MarketCall(who), UNCHANGED <<lm_version, lm_tokens>>
    PROVE  IndInv'
<1>1. ASSUME NEW token \in Tokens, NEW buyer \in Users, NEW price, NEW funds, NEW held,
             do_buy(buyer, token, price, funds, held)
      PROVE  IndInv'
  BY <1>1, Moving, Zenon DEF do_buy, transfer, Accounts
<1>2. \/ UNCHANGED nft_vars
      \/ \E token \in Tokens : buy(who, token)
      \/ \E token \in Tokens, maker \in Users : accept_offer(who, token, maker)
  BY Zenon DEF MarketCall, set_price, make_offer, withdraw_offer, add_royalty
<1>3. CASE UNCHANGED nft_vars
  BY <1>3, Elsewhere, Zenon
<1>4. ASSUME NEW token \in Tokens, buy(who, token) PROVE IndInv'
  BY <1>1, <1>4, Zenon DEF buy
<1>5. ASSUME NEW token \in Tokens, NEW maker \in Users, accept_offer(who, token, maker)
      PROVE  IndInv'
  BY <1>1, <1>5, Zenon DEF accept_offer
<1> QED
  BY <1>2, <1>3, <1>4, <1>5, Zenon

LEMMA Induction ==
    ASSUME SumFacts
    PROVE  IndInv /\ [Next]_vars => IndInv'
<1> SUFFICES ASSUME IndInv, [Next]_vars PROVE IndInv'
  OBVIOUS
<1>1. CASE UNCHANGED vars \/ NextBlock
  BY <1>1, Elsewhere, Zenon DEF vars, nft_vars, NextBlock
<1>2. CASE init_nft_class /\ UNCHANGED lm_tokens
  BY <1>2, Creation, Zenon DEF init_nft_class, Accounts
<1>3. ASSUME NEW who \in Users, NFTCall(who) /\ UNCHANGED <<lm_version, lm_tokens>> PROVE IndInv'
  BY <1>3, Calls, Zenon
<1>4. ASSUME NEW who \in Users, LMCall(who) /\ UNCHANGED lm_version PROVE IndInv'
  <2>1. ASSUME NEW token \in Tokens, lm_mint(who, token) PROVE IndInv'
    BY <1>4, <2>1, Minting, Zenon DEF lm_mint, Accounts
  <2>2. ASSUME NEW token \in Tokens, lm_burn(who, token) PROVE IndInv'
    BY <1>4, <2>2, Burning, Zenon DEF lm_burn
  <2> QED
    BY <1>4, <2>1, <2>2, Zenon DEF LMCall
<1>5. ASSUME NEW who \in Users, MarketCall(who) /\ UNCHANGED <<lm_version, lm_tokens, block>>
      PROVE  IndInv'
  BY <1>5, Selling, Zenon
<1> QED
  BY <1>1, <1>2, <1>3, <1>4, <1>5, Zenon DEF Next, NFTNext

-----------------------------------------------------------------------------
(* The deposits of the classes *)

\* What a class has on deposit, and what a token of it has.
Owed(class) ==
    IF class.free_holding THEN 0 ELSE ClassDeposit + InstanceDeposit * class.instances

OwedFor(class) == IF class.free_holding THEN 0 ELSE InstanceDeposit

\* Every class and every token holds the deposit that was due when it was made.
Deposits ==
    /\ IsFiniteSet(DOMAIN uniques_class)
    /\ \A c \in DOMAIN uniques_class :
          /\ uniques_class[c].instances \in Nat
          /\ uniques_class[c].total_deposit = Owed(uniques_class[c])
    /\ \A t \in DOMAIN uniques_asset :
          uniques_asset[t].deposit = OwedFor(uniques_class[t[1]])

\* The ids of the classes and tokens that exist.
Ids ==
    /\ DOMAIN classes \subseteq ClassIds
    /\ \A c \in DOMAIN classes : classes[c] \in ClassType
    /\ instances \subseteq Tokens
    /\ lm_version \in {0, 1}
    /\ lm_tokens \subseteq Tokens

\* Account a pays m more for its classes (less, if m is negative) and has it.
Charged(a, m) ==
    /\ m <= free[a]
    /\ -m <= reserved[a]
    /\ free' = [free EXCEPT ![a] = @ - m]
    /\ reserved' = [reserved EXCEPT ![a] = @ + m]
    /\ \A b \in Accounts : ClassDeposits(b)' = ClassDeposits(b) + IF b = a THEN m ELSE 0

\* The balances agree with the books.
Agree ==
    /\ free \in [Accounts -> Nat]
    /\ reserved \in [Accounts -> Nat]
    /\ named \in [Accounts -> Nat]
    /\ \A a \in Accounts : reserved[a] = named[a] + ClassDeposits(a)
    /\ Named

\* The deposits of an account are a sum of natural numbers.
LEMMA OwedIsNat ==
    ASSUME Deposits
    PROVE  /\ \A c \in DOMAIN uniques_class : uniques_class[c].total_deposit \in Nat
           /\ \A t \in DOMAIN uniques_asset : uniques_asset[t].deposit \in Nat
<1>1. ASSUME NEW c \in DOMAIN uniques_class PROVE uniques_class[c].total_deposit \in Nat
  <2>1. PICK n \in Nat : n = uniques_class[c].instances
    BY Zenon DEF Deposits
  <2>2. InstanceDeposit * n \in Nat /\ ClassDeposit \in Nat
    BY NFTAssumption
  <2> QED
    BY <2>1, <2>2 DEF Deposits, Owed
<1>2. ASSUME NEW t \in DOMAIN uniques_asset PROVE uniques_asset[t].deposit \in Nat
  BY NFTAssumption DEF Deposits, OwedFor
<1> QED
  BY <1>1, <1>2, Zenon

\* The classes of an account, and what is on deposit for each class.
ClassesOf(a) == {c \in DOMAIN uniques_class : uniques_class[c].owner = a}

DepositOf == [c \in DOMAIN uniques_class |-> uniques_class[c].total_deposit]

\* The sum of the deposits of an account in these terms.
LEMMA SumOfDeposits ==
    /\ \A a : ClassDeposits(a) = SumFunctionOnSet(DepositOf, ClassesOf(a))
    /\ \A a : ClassDeposits(a)' = SumFunctionOnSet(DepositOf', ClassesOf(a)')
BY Zenon DEF ClassDeposits, DepositOf, ClassesOf, class_owner

\* It has a value.
LEMMA DepositsOfAccount ==
    ASSUME SumFacts, Deposits, NEW a
    PROVE  /\ IsFiniteSet(ClassesOf(a))
           /\ Summable(DepositOf, ClassesOf(a))
           /\ ClassDeposits(a) \in Nat
           /\ \A c \in ClassesOf(a) : uniques_class[c].total_deposit <= ClassDeposits(a)
<1>1. IsFiniteSet(ClassesOf(a))
  BY Zenon DEF SumFacts, FiniteFacts, SubsetFinite, Deposits, ClassesOf
<1>2. \A c \in ClassesOf(a) : DepositOf[c] = uniques_class[c].total_deposit /\ DepositOf[c] \in Nat
  BY OwedIsNat, Zenon DEF ClassesOf, DepositOf
<1>3. SumFunctionOnSet(DepositOf, ClassesOf(a)) \in Nat
  BY <1>1, <1>2, Zenon DEF SumFacts, SumNat
<1>4. \A c \in ClassesOf(a) : DepositOf[c] <= SumFunctionOnSet(DepositOf, ClassesOf(a))
  BY <1>1, <1>2, Zenon DEF SumFacts, SumBound
<1> QED
  BY <1>1, <1>2, <1>3, <1>4, SumOfDeposits DEF Summable

\* A step of the NFT pallet that charges an account for its classes.
LEMMA Charging ==
    ASSUME SumFacts, Agree, Deposits, NEW a \in Accounts, NEW m \in Int, Charged(a, m), UNCHANGED market_vars
    PROVE  Agree'
<1>1. free' \in [Accounts -> Nat] /\ reserved' \in [Accounts -> Nat]
  BY DEF Agree, Charged
<1>2. named' \in [Accounts -> Nat]
  BY Zenon DEF Agree, market_vars
<1>3. ASSUME NEW b \in Accounts PROVE reserved'[b] = named'[b] + ClassDeposits(b)'
  <2>1. ClassDeposits(b) \in Nat /\ named[b] \in Nat
    BY DepositsOfAccount, Zenon DEF Agree
  <2>2. reserved[b] = named[b] + ClassDeposits(b)
    BY Zenon DEF Agree
  <2>3. ClassDeposits(b)' = ClassDeposits(b) + IF b = a THEN m ELSE 0
    BY Zenon DEF Charged
  <2>4. reserved'[b] = reserved[b] + IF b = a THEN m ELSE 0
    BY DEF Charged, Agree
  <2>5. named'[b] = named[b]
    BY Zenon DEF market_vars
  <2> QED
    BY <2>1, <2>2, <2>3, <2>4, <2>5
<1>4. Named'
  BY Zenon DEF Agree, Named, market_vars, Offered, OffersOf
<1> QED
  BY <1>1, <1>2, <1>3, <1>4, Zenon DEF Agree

\* The deposit of a new class is reserved from its owner.
LEMMA CreationCharges ==
    ASSUME SumFacts, IndInv, Deposits, Agree, NEW who \in Accounts, NEW c, NEW type,
           do_create_class(who, c, type)
    PROVE  Deposits' /\ \E m \in Int : Charged(who, m)
<1>1. PICK m \in Nat : m = IF has_deposit(type) THEN ClassDeposit ELSE 0
  BY NFTAssumption, Zenon
<1>2. PICK class : class = [owner |-> who, instances |-> 0, total_deposit |-> m,
                            free_holding |-> ~has_deposit(type)]
  BY Zenon
<1>3. /\ c \notin DOMAIN uniques_class
      /\ uniques_class' = insert(uniques_class, c, class)
      /\ UNCHANGED uniques_asset
      /\ m <= free[who]
      /\ free' = [free EXCEPT ![who] = @ - m]
      /\ reserved' = [reserved EXCEPT ![who] = @ + m]
  BY <1>1, <1>2, Zenon DEF do_create_class, ClassExists, CanReserve, Reserve
<1>4. /\ DOMAIN uniques_class' = DOMAIN uniques_class \cup {c}
      /\ uniques_class'[c] = class
      /\ \A d \in DOMAIN uniques_class : uniques_class'[d] = uniques_class[d]
  BY <1>3, Zenon DEF insert
<1>5. class.instances = 0 /\ class.total_deposit = m /\ class.owner = who
  BY <1>2, Zenon
<1>6. Deposits'
  <2>1. IsFiniteSet(DOMAIN uniques_class')
    BY <1>4, Zenon DEF SumFacts, FiniteFacts, AddFinite, Deposits
  <2>2. m = Owed(class)
    <3>1. InstanceDeposit * 0 = 0 /\ ClassDeposit \in Nat
      BY NFTAssumption
    <3>2. class.free_holding = ~has_deposit(type)
      BY <1>2, Zenon
    <3>3. CASE has_deposit(type)
      <4>1. ~class.free_holding
        BY <3>2, <3>3, Zenon
      <4>2. m = ClassDeposit
        BY <1>1, <3>3, Zenon
      <4> QED
        BY <1>5, <3>1, <4>1, <4>2 DEF Owed
    <3>4. CASE ~has_deposit(type)
      BY <1>1, <1>5, <3>2, <3>4, Zenon DEF Owed
    <3> QED
      BY <3>3, <3>4, Zenon
  <2>3. ASSUME NEW d \in DOMAIN uniques_class'
        PROVE  uniques_class'[d].instances \in Nat /\ uniques_class'[d].total_deposit = Owed(uniques_class'[d])
    BY <1>4, <1>5, <2>2 DEF Deposits
  <2>4. ASSUME NEW t \in DOMAIN uniques_asset'
        PROVE  uniques_asset'[t].deposit = OwedFor(uniques_class'[t[1]])
    BY <1>3, <1>4, Zenon DEF Deposits, IndInv, StorageAgrees
  <2> QED
    BY <2>1, <2>3, <2>4, Zenon DEF Deposits
<1>7. ASSUME NEW b \in Accounts
      PROVE  ClassDeposits(b)' = ClassDeposits(b) + IF b = who THEN m ELSE 0
  <2>1. PICK f : f = DepositOf
    OBVIOUS
  <2>2. PICK g : g = DepositOf'
    OBVIOUS
  <2>3. PICK S : S = ClassesOf(b)
    OBVIOUS
  <2>4. IsFiniteSet(S) /\ Summable(f, S) /\ ClassDeposits(b) \in Nat
    BY <2>1, <2>3, DepositsOfAccount, Zenon
  <2>5. \A d \in S : f[d] = g[d]
    BY <1>4, <2>1, <2>2, <2>3, Zenon DEF DepositOf, ClassesOf
  <2>6. g[c] = m
    BY <1>4, <1>5, <2>2, Zenon DEF DepositOf
  <2>7. CASE b = who
    <3>1. ClassesOf(b)' = S \cup {c} /\ c \notin S
      BY <1>3, <1>4, <1>5, <2>3, <2>7, Zenon DEF ClassesOf
    <3>2. Summable(g, S \cup {c})
      BY <2>4, <2>5, <2>6 DEF Summable
    <3>3. SumFunctionOnSet(g, S \cup {c}) = SumFunctionOnSet(f, S) + m
      <4>1. Grown(f, g, S, S \cup {c}, c)
        BY <2>5, <3>1, <3>2, Zenon DEF Grown
      <4> QED
        BY <2>4, <2>6, <4>1 DEF SumFacts, SumMore
    <3> QED
      BY <2>1, <2>2, <2>3, <2>7, <3>1, <3>3, SumOfDeposits, Zenon
  <2>8. CASE b # who
    <3>1. ClassesOf(b)' = S
      BY <1>3, <1>4, <1>5, <2>3, <2>8, Zenon DEF ClassesOf
    <3>2. SumFunctionOnSet(g, S) = SumFunctionOnSet(f, S)
      BY <2>4, <2>5, Zenon DEF SumFacts, SumSame
    <3> QED
      BY <2>1, <2>2, <2>3, <2>4, <2>8, <3>1, <3>2, SumOfDeposits
  <2> QED
    BY <2>7, <2>8, Zenon
<1>8. -m <= reserved[who]
  BY DEF Agree
<1>9. Charged(who, m)
  BY <1>3, <1>7, <1>8, Zenon DEF Charged
<1> QED
  BY <1>6, <1>9

\* A class that counts n more tokens at deposit k each: its owner pays.
LEMMA CountingCharges ==
    ASSUME SumFacts, IndInv, Deposits, Agree, NEW c \in DOMAIN uniques_class, NEW n \in Int, NEW m \in Int,
           \/ n = 1 /\ m = OwedFor(uniques_class[c])
           \/ n = -1 /\ m = -OwedFor(uniques_class[c]),
           uniques_class[c].instances + n \in Nat,
           uniques_class' = Counted(c, n, m)
    PROVE  /\ IsFiniteSet(DOMAIN uniques_class')
           /\ \A d \in DOMAIN uniques_class' :
                 /\ uniques_class'[d].instances \in Nat
                 /\ uniques_class'[d].total_deposit = Owed(uniques_class'[d])
           /\ \A b \in Accounts :
                 ClassDeposits(b)' = ClassDeposits(b) + IF b = uniques_class[c].owner THEN m ELSE 0
<1>1. /\ DOMAIN uniques_class' = DOMAIN uniques_class
      /\ \A d \in DOMAIN uniques_class :
            /\ uniques_class'[d].owner = uniques_class[d].owner
            /\ uniques_class'[d].free_holding = uniques_class[d].free_holding
            /\ uniques_class'[d].instances = uniques_class[d].instances + IF d = c THEN n ELSE 0
  <2>1. Shape
    BY Zenon DEF IndInv
  <2>2. /\ DOMAIN Counted(c, n, m) = DOMAIN uniques_class
        /\ \A d \in DOMAIN uniques_class :
              /\ Counted(c, n, m)[d] \in [owner : Accounts, instances : Int, total_deposit : Int,
                                          free_holding : BOOLEAN]
              /\ Counted(c, n, m)[d].owner = uniques_class[d].owner
              /\ Counted(c, n, m)[d].free_holding = uniques_class[d].free_holding
              /\ Counted(c, n, m)[d].instances =
                     uniques_class[d].instances + IF d = c THEN n ELSE 0
    BY <2>1, Counting
  <2> QED
    BY <2>2, Zenon
<1>2. /\ uniques_class'[c].total_deposit = uniques_class[c].total_deposit + m
      /\ \A d \in DOMAIN uniques_class : d # c => uniques_class'[d] = uniques_class[d]
  <2>1. uniques_class[c] \in [owner : Accounts, instances : Int, total_deposit : Int,
                              free_holding : BOOLEAN]
    BY Zenon DEF IndInv, Shape
  <2>2. PICK mid : mid = [uniques_class[c] EXCEPT !.instances = @ + n]
    BY Zenon
  <2>3. mid.total_deposit = uniques_class[c].total_deposit /\ "total_deposit" \in DOMAIN mid
    BY <2>1, <2>2, Zenon
  <2>4. uniques_class'[c] = [mid EXCEPT !.total_deposit = @ + m]
    BY <2>2, Zenon DEF Counted
  <2>5. uniques_class'[c].total_deposit = mid.total_deposit + m
    BY <2>3, <2>4, Zenon
  <2>6. \A d \in DOMAIN uniques_class : d # c => uniques_class'[d] = uniques_class[d]
    BY Zenon DEF Counted
  <2> QED
    BY <2>3, <2>5, <2>6, Zenon
<1>3. ASSUME NEW d \in DOMAIN uniques_class
      PROVE  /\ uniques_class'[d].instances \in Nat
             /\ uniques_class'[d].total_deposit = Owed(uniques_class'[d])
  <2>1. CASE d = c
    <3>1. PICK k \in Nat : k = uniques_class[c].instances
      BY Zenon DEF Deposits
    <3>2. uniques_class'[c].instances = k + n
      BY <1>1, <3>1, Zenon
    <3>3. uniques_class[c].total_deposit = Owed(uniques_class[c])
      BY Zenon DEF Deposits
    <3>4. CASE uniques_class[c].free_holding
      <4>1. uniques_class[c].total_deposit = 0 /\ m = 0
        BY <3>3, <3>4 DEF Owed, OwedFor
      <4>2. uniques_class'[c].total_deposit = 0
        BY <1>2, <4>1
      <4>3. uniques_class'[c].free_holding
        BY <1>1, <3>4, Zenon
      <4> QED
        BY <2>1, <3>1, <3>2, <4>2, <4>3, Zenon DEF Owed
    <3>5. CASE ~uniques_class[c].free_holding
      <4>1. uniques_class[c].total_deposit = ClassDeposit + InstanceDeposit * k /\ m = n * InstanceDeposit
        BY <3>1, NFTAssumption, <3>3, <3>5 DEF Owed, OwedFor
      <4>2. InstanceDeposit * (k + n) = InstanceDeposit * k + InstanceDeposit * n
        BY <3>1, NFTAssumption, OwedMoves
      <4>3. PICK p \in Int : p = InstanceDeposit * k
        BY <3>1, NFTAssumption
      <4>4. n * InstanceDeposit = InstanceDeposit * n
        BY NFTAssumption
      <4>5. uniques_class'[c].total_deposit = ClassDeposit + InstanceDeposit * (k + n)
        BY <1>2, <4>1, <4>2, <4>3, <4>4, NFTAssumption
      <4>6. ~uniques_class'[c].free_holding
        BY <1>1, <3>5, Zenon
      <4> QED
        BY <2>1, <3>1, <3>2, <4>5, <4>6, Zenon DEF Owed
    <3> QED
      BY <3>4, <3>5, Zenon
  <2>2. CASE d # c
    BY <1>2, <2>2, Zenon DEF Deposits
  <2> QED
    BY <2>1, <2>2, Zenon
<1>4. ASSUME NEW b \in Accounts
      PROVE  ClassDeposits(b)' = ClassDeposits(b) + IF b = uniques_class[c].owner THEN m ELSE 0
  <2>1. PICK f : f = DepositOf
    OBVIOUS
  <2>2. PICK g : g = DepositOf'
    OBVIOUS
  <2>3. PICK S : S = ClassesOf(b)
    OBVIOUS
  <2>4. ClassesOf(b)' = S
    BY <1>1, <2>3, Zenon DEF ClassesOf
  <2>5. IsFiniteSet(S) /\ Summable(f, S) /\ ClassDeposits(b) \in Nat
    BY <2>1, <2>3, DepositsOfAccount, Zenon
  <2>6. \A d \in S : d # c => f[d] = g[d]
    BY <1>1, <1>2, <2>1, <2>2, <2>3, Zenon DEF DepositOf, ClassesOf
  <2>7. f[c] \in Int /\ g[c] = f[c] + m
    BY <1>1, <1>2, <2>1, <2>2, OwedIsNat DEF DepositOf
  <2>8. CASE b = uniques_class[c].owner
    <3>1. c \in S
      BY <2>3, <2>8, Zenon DEF ClassesOf
    <3>2. Summable(g, S)
      BY <2>5, <2>6, <2>7 DEF Summable
    <3>3. SumFunctionOnSet(g, S) = SumFunctionOnSet(f, S) - f[c] + g[c]
      <4>1. Changed(f, g, S, c)
        BY <2>5, <2>6, <3>1, <3>2, Zenon DEF Changed
      <4> QED
        BY <2>5, <4>1 DEF SumFacts, SumChange
    <3>4. SumFunctionOnSet(f, S) \in Int
      BY <2>5, Zenon DEF SumFacts, SumType
    <3>5. SumFunctionOnSet(g, S) = SumFunctionOnSet(f, S) + m
      BY <2>7, <3>3, <3>4
    <3> QED
      BY <2>1, <2>2, <2>3, <2>4, <2>8, <3>5, SumOfDeposits, Zenon
  <2>9. CASE b # uniques_class[c].owner
    <3>1. c \notin S
      BY <2>3, <2>9, Zenon DEF ClassesOf
    <3>2. \A d \in S : f[d] = g[d]
      BY <2>6, <3>1, Zenon
    <3>3. SumFunctionOnSet(g, S) = SumFunctionOnSet(f, S)
      BY <2>5, <3>2, Zenon DEF SumFacts, SumSame
    <3> QED
      BY <2>1, <2>2, <2>3, <2>4, <2>5, <2>9, <3>3, SumOfDeposits
  <2> QED
    BY <2>8, <2>9, Zenon
<1> QED
  BY <1>1, <1>3, <1>4, Zenon DEF Deposits

\* The deposit of a new token is reserved from the owner of its class.
LEMMA MintingCharges ==
    ASSUME SumFacts, IndInv, Deposits, Agree, NEW who, NEW token, do_mint(who, token)
    PROVE  /\ Deposits'
           /\ \E a \in Accounts, m \in Int : Charged(a, m)
<1>1. PICK c : c = token[1]
  OBVIOUS
<1>2. PICK m \in Nat : m = OwedFor(uniques_class[c])
  BY NFTAssumption, Zenon DEF OwedFor
<1>3. PICK a : a = uniques_class[c].owner
  OBVIOUS
<1>4. /\ token \notin DOMAIN uniques_asset
      /\ c \in DOMAIN uniques_class
      /\ uniques_class' = Counted(c, 1, m)
      /\ uniques_asset' = insert(uniques_asset, token, [owner |-> who, deposit |-> m])
      /\ m <= free[a]
      /\ free' = [free EXCEPT ![a] = @ - m]
      /\ reserved' = [reserved EXCEPT ![a] = @ + m]
  BY <1>1, <1>2, <1>3, Zenon DEF do_mint, TokenExists, ClassExists, Counted, CanReserve, Reserve, OwedFor
<1>5. a \in Accounts
  BY <1>3, <1>4, Zenon DEF IndInv, Shape
<1>6. uniques_class[c].instances + 1 \in Nat
  BY <1>4 DEF Deposits
<1>7. /\ IsFiniteSet(DOMAIN uniques_class')
      /\ \A d \in DOMAIN uniques_class' :
            /\ uniques_class'[d].instances \in Nat
            /\ uniques_class'[d].total_deposit = Owed(uniques_class'[d])
      /\ \A b \in Accounts : ClassDeposits(b)' = ClassDeposits(b) + IF b = a THEN m ELSE 0
  BY <1>2, <1>3, <1>4, <1>6, CountingCharges
<1>8. \A d \in DOMAIN uniques_class : OwedFor(uniques_class'[d]) = OwedFor(uniques_class[d])
  <2>1. Shape /\ 1 \in Int /\ m \in Int
    BY DEF IndInv
  <2>2. \A d \in DOMAIN uniques_class : uniques_class'[d].free_holding = uniques_class[d].free_holding
    <3>1. \A d \in DOMAIN uniques_class : Counted(c, 1, m)[d].free_holding = uniques_class[d].free_holding
      BY <1>4, <2>1, CountingKeeps, Zenon
    <3> QED
      BY <1>4, <3>1, Zenon
  <2> QED
    BY <2>2, Zenon DEF OwedFor
<1>9. ASSUME NEW t \in DOMAIN uniques_asset'
      PROVE  uniques_asset'[t].deposit = OwedFor(uniques_class'[t[1]])
  <2>1. CASE t = token
    BY <1>1, <1>2, <1>4, <1>8, <2>1, Zenon DEF insert
  <2>2. CASE t # token
    <3>1. t \in DOMAIN uniques_asset /\ uniques_asset'[t] = uniques_asset[t]
      BY <1>4, <2>2, Zenon DEF insert
    <3>2. t[1] \in DOMAIN uniques_class
      BY <3>1, Zenon DEF IndInv, StorageAgrees
    <3> QED
      BY <1>8, <3>1, <3>2, Zenon DEF Deposits
  <2> QED
    BY <2>1, <2>2, Zenon
<1>10. Deposits'
  BY <1>7, <1>9, Zenon DEF Deposits
<1>11. -m <= reserved[a]
  BY <1>5 DEF Agree
<1>12. Charged(a, m)
  BY <1>4, <1>7, <1>11, Zenon DEF Charged
<1> QED
  BY <1>5, <1>10, <1>12

\* The deposit of a burned token is returned to the owner of its class, who
\* still has it reserved.
LEMMA BurningCharges ==
    ASSUME SumFacts, IndInv, Deposits, Agree, NEW who, NEW token, do_burn(who, token)
    PROVE  /\ Deposits'
           /\ \E a \in Accounts, m \in Int : Charged(a, m)
<1>1. PICK c : c = token[1]
  OBVIOUS
<1>2. PICK k \in Nat : k = OwedFor(uniques_class[c])
  BY NFTAssumption, Zenon DEF OwedFor
<1>3. PICK a : a = uniques_class[c].owner
  OBVIOUS
<1>4. /\ token \in DOMAIN uniques_asset
      /\ uniques_asset' = remove(uniques_asset, token)
      /\ uniques_asset[token].deposit = k
      /\ Unreserve(a, k)
      /\ uniques_class' = [uniques_class EXCEPT ![c].instances = @ - 1, ![c].total_deposit = @ - k]
  BY <1>1, <1>2, <1>3, Zenon DEF do_burn, TokenExists, Deposits
<1>5. c \in DOMAIN uniques_class
  BY <1>1, <1>4, Zenon DEF IndInv, StorageAgrees
<1>6. a \in Accounts
  BY <1>3, <1>5, Zenon DEF IndInv, Shape
<1>7. uniques_class[c].instances \in Nat /\ uniques_class[c].instances + (-1) \in Nat
  <2>1. PICK T : T = {t \in instances : t[1] = c}
    BY Zenon
  <2>2. IsFiniteSet(T) /\ token \in T
    BY <1>1, <1>4, <2>1, Zenon DEF SumFacts, FiniteFacts, SubsetFinite, IndInv, Shape, StorageAgrees
  <2>3. Cardinality(T) \in Nat /\ Cardinality(T) # 0
    BY <2>2, Zenon DEF SumFacts, FiniteFacts, EmptyFinite, CardinalityType
  <2>4. uniques_class[c].instances = Cardinality(T)
    BY <1>5, <2>1, Zenon DEF IndInv, StorageAgrees
  <2> QED
    BY <2>3, <2>4
<1>8. uniques_class' = Counted(c, -1, -k)
  <2>1. uniques_class[c].total_deposit \in Nat
    BY <1>5, OwedIsNat, Zenon
  <2>2. /\ uniques_class[c].instances - 1 = uniques_class[c].instances + (-1)
        /\ uniques_class[c].total_deposit - k = uniques_class[c].total_deposit + (-k)
    BY <1>7, <2>1, Zenon
  <2> QED
    BY <1>4, <1>5, <2>2, Zenon DEF Counted
<1>9. PICK m \in Int : m = -k
  OBVIOUS
<1>10. /\ IsFiniteSet(DOMAIN uniques_class')
       /\ \A d \in DOMAIN uniques_class' :
             /\ uniques_class'[d].instances \in Nat
             /\ uniques_class'[d].total_deposit = Owed(uniques_class'[d])
       /\ \A b \in Accounts : ClassDeposits(b)' = ClassDeposits(b) + IF b = a THEN m ELSE 0
  <2>1. PICK n \in Int : n = -1
    OBVIOUS
  <2> QED
    BY <1>2, <1>3, <1>5, <1>7, <1>8, <1>9, <2>1, CountingCharges, Zenon
<1>11. \A d \in DOMAIN uniques_class : OwedFor(uniques_class'[d]) = OwedFor(uniques_class[d])
  <2>1. PICK n \in Int : n = -1
    OBVIOUS
  <2>s. Shape
    BY DEF IndInv
  <2>2. \A d \in DOMAIN uniques_class : uniques_class'[d].free_holding = uniques_class[d].free_holding
    <3>1. \A d \in DOMAIN uniques_class : Counted(c, n, m)[d].free_holding = uniques_class[d].free_holding
      BY <1>5, <2>s, CountingKeeps, Zenon
    <3> QED
      BY <1>8, <1>9, <2>1, <3>1, Zenon
  <2> QED
    BY <2>2, Zenon DEF OwedFor
<1>12. ASSUME NEW t \in DOMAIN uniques_asset'
       PROVE  uniques_asset'[t].deposit = OwedFor(uniques_class'[t[1]])
  <2>1. t \in DOMAIN uniques_asset /\ uniques_asset'[t] = uniques_asset[t]
    BY <1>4, Zenon DEF remove
  <2>2. t[1] \in DOMAIN uniques_class
    BY <2>1, Zenon DEF IndInv, StorageAgrees
  <2> QED
    BY <1>11, <2>1, <2>2, Zenon DEF Deposits
<1>13. Deposits'
  BY <1>10, <1>12, Zenon DEF Deposits
<1>14. k <= reserved[a]
  <2>1. k <= uniques_class[c].total_deposit
    <3>1. PICK n \in Nat : uniques_class[c].instances = n + 1
      <4>1. uniques_class[c].instances = (uniques_class[c].instances + (-1)) + 1
        BY <1>7
      <4> QED
        BY <1>7, <4>1, Zenon
    <3>2. InstanceDeposit * (n + 1) = InstanceDeposit * n + InstanceDeposit * 1
      BY NFTAssumption, OwedMoves
    <3>3. InstanceDeposit * n \in Nat /\ InstanceDeposit * 1 = InstanceDeposit
      BY NFTAssumption
    <3>4. uniques_class[c].total_deposit = Owed(uniques_class[c])
      BY <1>5, Zenon DEF Deposits
    <3> QED
      BY <1>2, <3>1, <3>2, <3>3, <3>4, NFTAssumption DEF Owed, OwedFor
  <2>2. c \in ClassesOf(a)
    BY <1>3, <1>5, Zenon DEF ClassesOf
  <2>3. uniques_class[c].total_deposit <= ClassDeposits(a) /\ ClassDeposits(a) \in Nat
    BY <2>2, DepositsOfAccount, Zenon
  <2>4. reserved[a] = named[a] + ClassDeposits(a) /\ named[a] \in Nat
    BY <1>6, Zenon DEF Agree
  <2>5. uniques_class[c].total_deposit \in Nat
    BY <1>5, OwedIsNat, Zenon
  <2> QED
    BY <2>1, <2>3, <2>4, <2>5
<1>15. free[a] \in Nat /\ reserved[a] \in Nat
  BY <1>6, Zenon DEF Agree
<1>16. /\ free' = [free EXCEPT ![a] = @ - m]
       /\ reserved' = [reserved EXCEPT ![a] = @ + m]
  <2>1. free[a] + k = free[a] - m /\ reserved[a] - k = reserved[a] + m
    BY <1>9, <1>15
  <2>2. free' = [free EXCEPT ![a] = @ + k] /\ reserved' = [reserved EXCEPT ![a] = @ - k]
    BY <1>4, <1>14, Zenon DEF Unreserve
  <2> QED
    BY <2>1, <2>2, Zenon
<1>17. Charged(a, m)
  BY <1>9, <1>10, <1>14, <1>15, <1>16 DEF Charged
<1> QED
  BY <1>6, <1>13, <1>17, Zenon

\* A class that is destroyed returns all it had on deposit.
LEMMA DestroyingCharges ==
    ASSUME SumFacts, IndInv, Deposits, Agree, NEW who \in Accounts, NEW c, do_destroy_class(who, c)
    PROVE  Deposits' /\ \E m \in Int : Charged(who, m)
<1>1. /\ c \in DOMAIN uniques_class
      /\ uniques_class[c].owner = who
      /\ uniques_class' = remove(uniques_class, c)
      /\ uniques_asset' = [t \in {t \in DOMAIN uniques_asset : t[1] # c} |-> uniques_asset[t]]
      /\ Unreserve(who, uniques_class[c].total_deposit)
  BY Zenon DEF do_destroy_class, ClassExists, class_owner
<1>2. PICK k \in Nat : k = uniques_class[c].total_deposit
  BY <1>1, OwedIsNat, Zenon
<1>3. PICK m \in Int : m = -k
  OBVIOUS
<1>4. /\ DOMAIN uniques_class' = DOMAIN uniques_class \ {c}
      /\ \A d \in DOMAIN uniques_class' : uniques_class'[d] = uniques_class[d]
  BY <1>1, Zenon DEF remove
<1>5. Deposits'
  <2>1. IsFiniteSet(DOMAIN uniques_class')
    BY <1>4, Zenon DEF SumFacts, FiniteFacts, SubsetFinite, Deposits
  <2>2. ASSUME NEW t \in DOMAIN uniques_asset'
        PROVE  uniques_asset'[t].deposit = OwedFor(uniques_class'[t[1]])
    <3>1. t \in DOMAIN uniques_asset /\ t[1] # c /\ uniques_asset'[t] = uniques_asset[t]
      BY <1>1, Zenon
    <3>2. t[1] \in DOMAIN uniques_class
      BY <3>1, Zenon DEF IndInv, StorageAgrees
    <3> QED
      BY <1>4, <3>1, <3>2, Zenon DEF Deposits
  <2> QED
    BY <1>4, <2>1, <2>2, Zenon DEF Deposits
<1>6. c \in ClassesOf(who)
  BY <1>1, Zenon DEF ClassesOf
<1>7. k <= reserved[who]
  <2>1. k <= ClassDeposits(who) /\ ClassDeposits(who) \in Nat
    BY <1>2, <1>6, DepositsOfAccount, Zenon
  <2>2. reserved[who] = named[who] + ClassDeposits(who) /\ named[who] \in Nat
    BY Zenon DEF Agree
  <2> QED
    BY <2>1, <2>2
<1>8. free[who] \in Nat /\ reserved[who] \in Nat
  BY Zenon DEF Agree
<1>9. /\ free' = [free EXCEPT ![who] = @ - m]
      /\ reserved' = [reserved EXCEPT ![who] = @ + m]
  <2>1. free[who] + k = free[who] - m /\ reserved[who] - k = reserved[who] + m
    BY <1>3, <1>8
  <2>2. free' = [free EXCEPT ![who] = @ + k] /\ reserved' = [reserved EXCEPT ![who] = @ - k]
    BY <1>1, <1>2, <1>7, Zenon DEF Unreserve
  <2> QED
    BY <2>1, <2>2, Zenon
<1>10. ASSUME NEW b \in Accounts
       PROVE  ClassDeposits(b)' = ClassDeposits(b) + IF b = who THEN m ELSE 0
  <2>1. PICK f : f = DepositOf
    OBVIOUS
  <2>2. PICK g : g = DepositOf'
    OBVIOUS
  <2>3. PICK T : T = ClassesOf(b)
    OBVIOUS
  <2>4. PICK S : S = T \ {c}
    BY Zenon
  <2>5. ClassesOf(b)' = S
    BY <1>4, <2>3, <2>4, Zenon DEF ClassesOf
  <2>6. IsFiniteSet(T) /\ Summable(f, T) /\ ClassDeposits(b) \in Nat
    BY <2>1, <2>3, DepositsOfAccount, Zenon
  <2>7. IsFiniteSet(S) /\ Summable(f, S)
    BY <2>4, <2>6, Zenon DEF SumFacts, FiniteFacts, SubsetFinite, Summable
  <2>8. \A d \in S : g[d] = f[d]
    BY <1>4, <2>1, <2>2, <2>3, <2>4, Zenon DEF DepositOf, ClassesOf
  <2>9. SumFunctionOnSet(g, S) = SumFunctionOnSet(f, S) /\ SumFunctionOnSet(f, S) \in Int
    BY <2>7, <2>8, Zenon DEF SumFacts, SumSame, SumType
  <2>10. CASE b = who
    <3>1. f[c] = k /\ c \in T
      BY <1>1, <1>2, <1>6, <2>1, <2>3, <2>10, Zenon DEF DepositOf
    <3>2. SumFunctionOnSet(f, T) = k + SumFunctionOnSet(f, S)
      BY <2>4, <2>6, <3>1 DEF SumFacts, SumTakeOut
    <3>3. SumFunctionOnSet(g, S) = SumFunctionOnSet(f, T) + m
      BY <1>3, <2>9, <3>2
    <3> QED
      BY <2>1, <2>2, <2>3, <2>5, <2>10, <3>3, SumOfDeposits, Zenon
  <2>11. CASE b # who
    <3>1. S = T
      BY <1>1, <2>3, <2>4, <2>11, Zenon DEF ClassesOf
    <3> QED
      BY <2>1, <2>2, <2>3, <2>5, <2>6, <2>9, <2>11, <3>1, SumOfDeposits
  <2> QED
    BY <2>10, <2>11, Zenon
<1>11. Charged(who, m)
  BY <1>3, <1>7, <1>8, <1>9, <1>10 DEF Charged
<1> QED
  BY <1>5, <1>11, Zenon

=============================================================================
