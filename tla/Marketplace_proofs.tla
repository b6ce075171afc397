------------------------ MODULE Marketplace_proofs ------------------------
(***************************************************************************)
(* How a sale is settled, the books of the marketplace, and the theorems   *)
(* about its records, its reserved balances and its sales.                 *)
(*                                                                         *)
(* The lemmas take the facts about sums as the hypothesis SumFacts; the    *)
(* theorems at the end discharge it with theorem Facts of module Sums.     *)
(***************************************************************************)
EXTENDS MarketplaceRecords_proofs

USE SMTT(30)

-----------------------------------------------------------------------------
(* A sale *)

\* Rounding to the nearest integer does not take a part above the whole.
LEMMA PercentOf ==
    ASSUME NEW p \in 0..100, NEW a \in Nat
    PROVE  percent_of(p, a) \in 0..a
<1>1. PICK x \in Nat : x = p * a
  OBVIOUS
<1>2. x <= 100 * a
  <2>1. PICK q \in Nat : q = 100 - p
    OBVIOUS
  <2>2. (p + q) * a = p * a + q * a
    OBVIOUS
  <2>3. q * a \in Nat
    OBVIOUS
  <2>4. p + q = 100
    BY <2>1
  <2> QED
    BY <1>1, <2>2, <2>3, <2>4
<1>3. PICK q \in Int, r \in 0..99 : q = x \div 100 /\ r = x % 100 /\ x = 100 * q + r
  OBVIOUS
<1>4. q + (IF r > 50 THEN 1 ELSE 0) \in 0..a
  BY <1>2, <1>3
<1> QED
  BY <1>1, <1>3, <1>4, Zenon DEF percent_of

\* The price is split between the author and the owner.
LEMMA Split ==
    ASSUME Store, NEW token, NEW price \in Nat
    PROVE  /\ Payment(token, price).royalty \in 0..price
           /\ Payment(token, price).net = price - Payment(token, price).royalty
           /\ ~HasRoyalty(token) => Payment(token, price).royalty = 0
<1>1. PICK cut : cut = IF HasRoyalty(token) THEN percent_of(royalties[token].royalty, price) ELSE 0
  OBVIOUS
<1>2. cut \in 0..price
  <2>1. CASE HasRoyalty(token)
    <3>1. royalties[token].royalty \in 0..100
      BY <2>1, Zenon DEF HasRoyalty, Store
    <3> QED
      BY <1>1, <2>1, <3>1, PercentOf, Zenon
  <2>2. CASE ~HasRoyalty(token)
    BY <1>1, <2>2
  <2> QED
    BY <2>1, <2>2, Zenon
<1>3. Payment(token, price) = [royalty |-> cut, net |-> price - cut]
  BY <1>1, Zenon DEF Payment
<1> QED
  BY <1>1, <1>2, <1>3


\* A transfer that is made moves the amount and no more.
LEMMA Paying ==
    ASSUME NEW funds \in [Accounts -> Nat], NEW held, NEW from \in Accounts, NEW to \in Accounts,
           NEW amount \in Nat, CanTransfer(funds, held, from, to, amount)
    PROVE  /\ Transfer(funds, from, to, amount) \in [Accounts -> Nat]
           /\ \A a \in Accounts : Transfer(funds, from, to, amount)[a] =
                 funds[a] - (IF a = from THEN amount ELSE 0) + (IF a = to THEN amount ELSE 0)
<1>1. CASE NothingMoves(from, to, amount)
  <2>1. Transfer(funds, from, to, amount) = funds
    BY <1>1, Zenon DEF Transfer
  <2>2. from = to \/ amount = 0
    BY <1>1, Zenon DEF NothingMoves
  <2> QED
    BY <2>1, <2>2
<1>2. CASE ~NothingMoves(from, to, amount)
  <2>1. Transfer(funds, from, to, amount) = [funds EXCEPT ![from] = @ - amount, ![to] = @ + amount]
    BY <1>2, Zenon DEF Transfer
  <2>2. from # to /\ funds[from] >= amount
    BY <1>2, Zenon DEF CanTransfer, NothingMoves
  <2>3. PICK mid : mid = [funds EXCEPT ![from] = @ - amount]
    BY Zenon
  <2>4. mid \in [Accounts -> Nat]
    BY <2>2, <2>3
  <2>5. Transfer(funds, from, to, amount) = [mid EXCEPT ![to] = @ + amount]
    BY <2>1, <2>2, <2>3, Zenon
  <2> QED
    BY <2>2, <2>3, <2>4, <2>5
<1> QED
  BY <1>1, <1>2, Zenon

\* What a sale at a price with this royalty does to a balance of b.
Settled(b, a, buyer, author, seller, price, cut) ==
    b - (IF a = buyer THEN price ELSE 0) + (IF a = author THEN cut ELSE 0)
      + (IF a = seller THEN price - cut ELSE 0)

\* What it does to all the balances, from f to g.
AllSettled(f, g, buyer, author, seller, price, cut) ==
    /\ f \in [Accounts -> Nat]
    /\ g \in [Accounts -> Nat]
    /\ buyer \in Accounts /\ author \in Accounts /\ seller \in Accounts
    /\ buyer # seller
    /\ price \in Nat
    /\ cut \in 0..price
    /\ \A a \in Accounts : g[a] = Settled(f[a], a, buyer, author, seller, price, cut)

\* do_buy pays the author and the owner from the funds of the buyer.
LEMMA Sale ==
    ASSUME IndInv, Store, NEW buyer \in Accounts, NEW token, NEW price \in Nat,
           NEW funds \in [Accounts -> Nat], NEW held, do_buy(buyer, token, price, funds, held)
    PROVE  /\ free' \in [Accounts -> Nat]
           /\ \E cut \in 0..price :
                 \A a \in Accounts : free'[a] =
                    Settled(funds[a], a, buyer, Author(token), owner(token), price, cut)
<1>1. PICK seller : seller = owner(token)
  OBVIOUS
<1>2. PICK author : author = Author(token)
  OBVIOUS
<1>3. seller \in Accounts /\ author \in Accounts
  BY <1>1, <1>2, Zenon DEF do_buy, TokenExists, owner, Author, HasRoyalty, IndInv, Shape, Store
<1>4. PICK cut \in 0..price : cut = Payment(token, price).royalty
  BY Split, Zenon
<1>5. PICK net \in Nat : net = price - cut /\ net = Payment(token, price).net
  BY <1>4, Split
<1>6. PICK mid : mid = Transfer(funds, buyer, author, cut)
  OBVIOUS
<1>7. /\ buyer # seller
      /\ CanTransfer(funds, held, buyer, author, cut)
      /\ CanTransfer(mid, held, buyer, seller, net)
      /\ free' = Transfer(mid, buyer, seller, net)
  BY <1>1, <1>2, <1>4, <1>5, <1>6, Zenon DEF do_buy
<1>8. cut \in Nat
  OBVIOUS
<1>9. /\ mid \in [Accounts -> Nat]
      /\ \A a \in Accounts : mid[a] =
            funds[a] - (IF a = buyer THEN cut ELSE 0) + (IF a = author THEN cut ELSE 0)
  <2>1. CanTransfer(funds, held, buyer, author, cut)
    BY <1>7, Zenon
  <2>2. /\ Transfer(funds, buyer, author, cut) \in [Accounts -> Nat]
        /\ \A a \in Accounts : Transfer(funds, buyer, author, cut)[a] =
              funds[a] - (IF a = buyer THEN cut ELSE 0) + (IF a = author THEN cut ELSE 0)
    BY <1>3, <1>8, <2>1, Paying
  <2> QED
    BY <1>6, <2>2, Zenon
<1>10. /\ free' \in [Accounts -> Nat]
       /\ \A a \in Accounts : free'[a] =
             mid[a] - (IF a = buyer THEN net ELSE 0) + (IF a = seller THEN net ELSE 0)
  <2>1. CanTransfer(mid, held, buyer, seller, net) /\ mid \in [Accounts -> Nat]
    BY <1>7, <1>9, Zenon
  <2>2. /\ Transfer(mid, buyer, seller, net) \in [Accounts -> Nat]
        /\ \A a \in Accounts : Transfer(mid, buyer, seller, net)[a] =
              mid[a] - (IF a = buyer THEN net ELSE 0) + (IF a = seller THEN net ELSE 0)
    BY <1>3, <2>1, Paying
  <2> QED
    BY <1>7, <2>2, Zenon
<1>11. ASSUME NEW a \in Accounts
       PROVE  free'[a] = Settled(funds[a], a, buyer, author, seller, price, cut)
  <2>1. mid[a] = funds[a] - (IF a = buyer THEN cut ELSE 0) + (IF a = author THEN cut ELSE 0)
    BY <1>9, Zenon
  <2>2. free'[a] = mid[a] - (IF a = buyer THEN net ELSE 0) + (IF a = seller THEN net ELSE 0)
    BY <1>10, Zenon
  <2>3. funds[a] \in Nat /\ net = price - cut
    BY <1>5, Zenon
  <2> QED
    BY <1>7, <2>1, <2>2, <2>3 DEF Settled
<1> QED
  BY <1>1, <1>2, <1>10, <1>11, Zenon

\* A sale leaves the balances of the three parties with the same sum.
LEMMA SumOfParties ==
    ASSUME SumFacts, NEW f, NEW g, NEW buyer, NEW author, NEW seller, NEW price, NEW cut,
           AllSettled(f, g, buyer, author, seller, price, cut)
    PROVE  SumFunctionOnSet(g, {buyer, seller, author}) = SumFunctionOnSet(f, {buyer, seller, author})
<1> USE DEF AllSettled
<1>1. PICK S : S = {buyer, seller, author}
  BY Zenon
<1>2. IsFiniteSet(S) /\ S \subseteq Accounts
  BY <1>1, FiniteAccounts DEF SumFacts, FiniteFacts, SubsetFinite
<1>3. PICK h : h = [a \in Accounts |->
                      f[a] - (IF a = buyer THEN cut ELSE 0) + (IF a = author THEN cut ELSE 0)]
  BY Zenon
<1>4. \A a \in Accounts : h[a] \in Int
  BY <1>3
<1>5. Summable(f, S) /\ Summable(h, S)
  BY <1>2, <1>4 DEF Summable
<1>6. SumFunctionOnSet(h, S) = SumFunctionOnSet(f, S)
  <2>1. CASE author = buyer
    <3>1. \A a \in S : h[a] = f[a]
      BY <1>2, <1>3, <2>1
    <3> QED
      BY <1>2, <3>1, Zenon DEF SumFacts, SumSame
  <2>2. CASE author # buyer
    <3>1. h[buyer] = f[buyer] - cut /\ h[author] = f[author] + cut
      BY <1>3, <2>2
    <3>2. \A a \in S \ {buyer, author} : h[a] = f[a]
      BY <1>2, <1>3
    <3>3. buyer \in S /\ author \in S /\ cut \in Int
      BY <1>1
    <3>4. Moved(f, h, S, buyer, author, cut)
      BY <2>2, <3>1, <3>2, <3>3, Zenon DEF Moved
    <3> QED
      BY <1>2, <1>5, <3>4, Zenon DEF SumFacts, SumMoved
  <2> QED
    BY <2>1, <2>2, Zenon
<1>7. SumFunctionOnSet(g, S) = SumFunctionOnSet(h, S)
  <2>1. PICK net \in Int : net = price - cut
    OBVIOUS
  <2>2. ASSUME NEW a \in Accounts
        PROVE  g[a] = h[a] - (IF a = buyer THEN net ELSE 0) + (IF a = seller THEN net ELSE 0)
    <3>1. f[a] \in Nat /\ g[a] = Settled(f[a], a, buyer, author, seller, price, cut)
      BY Zenon DEF AllSettled
    <3>2. h[a] = f[a] - (IF a = buyer THEN cut ELSE 0) + (IF a = author THEN cut ELSE 0)
      BY <1>3, Zenon
    <3> QED
      BY <2>1, <3>1, <3>2 DEF Settled
  <2>3. g[buyer] = h[buyer] - net /\ g[seller] = h[seller] + net
    BY <1>4, <2>2
  <2>4. \A a \in S \ {buyer, seller} : g[a] = h[a]
    BY <1>2, <1>4, <2>2
  <2>5. buyer \in S /\ seller \in S
    BY <1>1, Zenon
  <2>6. Moved(h, g, S, buyer, seller, net)
    BY <1>1, <2>3, <2>4, <2>5, Zenon DEF Moved
  <2> QED
    BY <1>2, <1>5, <2>6, Zenon DEF SumFacts, SumMoved
<1> QED
  BY <1>1, <1>6, <1>7, Zenon


-----------------------------------------------------------------------------
(* The books are kept *)

Books == Ids /\ Deposits /\ Store /\ Agree

\* A token that changes hands leaves the deposits where they are.
LEMMA MovingKeeps ==
    ASSUME IndInv, Ids, Deposits, NEW token, NEW from, NEW to, do_transfer(token, from, to),
           UNCHANGED <<lm_version, lm_tokens>>
    PROVE  Ids' /\ Deposits' /\ \A a : ClassDeposits(a)' = ClassDeposits(a)
<1>1. UNCHANGED <<classes, instances, uniques_class>>
  BY Zenon DEF do_transfer, nft_vars
<1>2. Ids' /\ \A a : ClassDeposits(a)' = ClassDeposits(a)
  BY <1>1, Zenon DEF Ids, ClassDeposits, class_owner
<1>3. /\ DOMAIN uniques_asset' = DOMAIN uniques_asset
      /\ \A t \in DOMAIN uniques_asset : uniques_asset'[t].deposit = uniques_asset[t].deposit
  <2>1. CASE UNCHANGED nft_vars
    BY <2>1, Zenon DEF nft_vars
  <2>2. CASE uniques_asset' = [uniques_asset EXCEPT ![token].owner = to]
    <3>1. \A t \in DOMAIN uniques_asset : uniques_asset[t] \in [owner : Accounts, deposit : Int]
      BY Zenon DEF IndInv, Shape
    <3> QED
      BY <2>2, <3>1, Zenon
  <2> QED
    BY <2>1, <2>2, Zenon DEF do_transfer
<1>4. Deposits'
  BY <1>1, <1>3, Zenon DEF Deposits
<1> QED
  BY <1>2, <1>4, Zenon

\* Steps that leave the marketplace alone.
LEMMA StoreKept ==
    ASSUME Store, UNCHANGED <<market_vars, block>>
    PROVE  Store'
BY Zenon DEF Store, market_vars

\* The calls of the NFT and of the liquidity mining pallet.
LEMMA NFTBooks ==
    ASSUME SumFacts, IndInv, Books, NFTNext, UNCHANGED <<market_vars, block>>
    PROVE  Books'
<1>1. Store'
  BY StoreKept, Zenon DEF Books
<1>2. IndInv /\ Ids /\ Deposits /\ Agree /\ UNCHANGED market_vars
  BY Zenon DEF Books
<1>3. ASSUME NEW who \in Accounts, NEW c \in ClassIds, NEW type \in ClassType,
             do_create_class(who, c, type), lm_version' \in {0, 1}, UNCHANGED lm_tokens
      PROVE  Books'
  <2>1. Deposits' /\ \E m \in Int : Charged(who, m)
    BY <1>2, <1>3, CreationCharges, Zenon
  <2>2. Agree'
    BY <1>2, <2>1, Charging, Zenon
  <2>3. classes' = insert(classes, c, type) /\ UNCHANGED instances
    BY <1>3, Zenon DEF do_create_class
  <2>4. Ids'
    BY <1>2, <1>3, <2>3, Zenon DEF Ids, insert
  <2> QED
    BY <1>1, <2>1, <2>2, <2>4, Zenon DEF Books
<1>4. ASSUME NEW who \in Users, NEW c \in ClassIds, do_destroy_class(who, c),
             UNCHANGED <<lm_version, lm_tokens>>
      PROVE  Books'
  <2>1. who \in Accounts
    BY Zenon DEF Accounts
  <2>2. Deposits' /\ \E m \in Int : Charged(who, m)
    BY <1>2, <1>4, <2>1, DestroyingCharges, Zenon
  <2>3. Agree'
    BY <1>2, <2>1, <2>2, Charging, Zenon
  <2>4. classes' = remove(classes, c) /\ UNCHANGED instances
    BY <1>4, Zenon DEF do_destroy_class
  <2>5. Ids'
    BY <1>2, <1>4, <2>4, Zenon DEF Ids, remove
  <2> QED
    BY <1>1, <2>2, <2>3, <2>5, Zenon DEF Books
<1>5. ASSUME NEW who, NEW token \in Tokens, do_mint(who, token), UNCHANGED lm_version,
             lm_tokens' \in {lm_tokens, lm_tokens \cup {token}}
      PROVE  Books'
  <2>1. Deposits' /\ \E a \in Accounts, m \in Int : Charged(a, m)
    BY <1>2, <1>5, MintingCharges, Zenon
  <2>2. Agree'
    BY <1>2, <2>1, Charging, Zenon
  <2>3. instances' = instances \cup {token} /\ UNCHANGED classes
    BY <1>5, Zenon DEF do_mint
  <2>4. Ids'
    BY <1>2, <1>5, <2>3, Zenon DEF Ids
  <2> QED
    BY <1>1, <2>1, <2>2, <2>4, Zenon DEF Books
<1>6. ASSUME NEW who, NEW token \in Tokens, do_burn(who, token), UNCHANGED lm_version,
             lm_tokens' \in {lm_tokens, lm_tokens \ {token}}
      PROVE  Books'
  <2>1. Deposits' /\ \E a \in Accounts, m \in Int : Charged(a, m)
    BY <1>2, <1>6, BurningCharges, Zenon
  <2>2. Agree'
    BY <1>2, <2>1, Charging, Zenon
  <2>3. instances' = instances \ {token} /\ UNCHANGED classes
    BY <1>6, Zenon DEF do_burn
  <2>4. Ids'
    BY <1>2, <1>6, <2>3, Zenon DEF Ids
  <2> QED
    BY <1>1, <2>1, <2>2, <2>4, Zenon DEF Books
<1>7. ASSUME NEW who, NEW token, NEW dest, do_transfer(token, who, dest),
             UNCHANGED <<lm_version, lm_tokens, free, reserved>>
      PROVE  Books'
  <2>1. Ids' /\ Deposits' /\ \A a : ClassDeposits(a)' = ClassDeposits(a)
    BY <1>2, <1>7, MovingKeeps, Zenon
  <2>2. Agree'
    <3>1. Named'
      BY <1>2, Zenon DEF Agree, Named, market_vars, Offered, OffersOf
    <3> QED
      BY <1>2, <1>7, <2>1, <3>1, Zenon DEF Agree, market_vars
  <2> QED
    BY <1>1, <2>1, <2>2, Zenon DEF Books
<1>8. ASSUME init_nft_class, UNCHANGED lm_tokens PROVE Books'
  <2>1. PalletAccount \in Accounts /\ LMClass \in ClassIds /\ "LiquidityMining" \in ClassType
    BY NFTAssumption, Zenon DEF Accounts, ClassType
  <2> QED
    BY <1>3, <1>8, <2>1, Zenon DEF init_nft_class
<1>9. ASSUME NEW who \in Users, NFTCall(who), UNCHANGED <<lm_version, lm_tokens>> PROVE Books'
  <2>1. who \in Accounts /\ DefaultClassType \in ClassType /\ lm_version' \in {0, 1}
    BY <1>2, <1>9, Zenon DEF Accounts, ClassType, DefaultClassType, Ids
  <2>2. ASSUME NEW c \in ClassIds, NEW type \in ClassType, create_class(who, c, type) PROVE Books'
    BY <1>3, <1>9, <2>1, <2>2, Zenon DEF create_class
  <2>3. ASSUME NEW c \in ClassIds, destroy_class(who, c) PROVE Books'
    BY <1>4, <1>9, <2>3, Zenon DEF destroy_class
  <2>4. ASSUME NEW token \in Tokens, mint(who, token) PROVE Books'
    BY <1>5, <1>9, <2>4, Zenon DEF mint
  <2>5. ASSUME NEW token \in Tokens, burn(who, token) PROVE Books'
    BY <1>6, <1>9, <2>5, Zenon DEF burn
  <2>6. ASSUME NEW token \in Tokens, NEW dest \in Users, transfer(who, token, dest),
               UNCHANGED <<free, reserved>>
        PROVE  Books'
    BY <1>7, <1>9, <2>6, Zenon DEF transfer
  <2> QED
    BY <1>9, <2>2, <2>3, <2>4, <2>5, <2>6, Zenon DEF NFTCall
<1>10. ASSUME NEW who \in Users, LMCall(who), UNCHANGED lm_version PROVE Books'
  <2>1. ASSUME NEW token \in Tokens, lm_mint(who, token) PROVE Books'
    BY <1>5, <1>10, <2>1, Zenon DEF lm_mint
  <2>2. ASSUME NEW token \in Tokens, lm_burn(who, token) PROVE Books'
    BY <1>6, <1>10, <2>2, Zenon DEF lm_burn
  <2> QED
    BY <1>10, <2>1, <2>2, Zenon DEF LMCall
<1> QED
  BY <1>8, <1>9, <1>10, Zenon DEF NFTNext


\* The amount of an offer is in the named reserve of its maker.
LEMMA OfferIsThere ==
    ASSUME SumFacts, Store, Named, NEW o \in DOMAIN offers
    PROVE  /\ o[2] \in Accounts
           /\ offers[o].amount \in Nat
           /\ offers[o].amount <= Offered(OffersOf(o[2]))
           /\ Offered(OffersOf(o[2])) \in Nat
           /\ named[o[2]] \in Nat => offers[o].amount <= named[o[2]]
<1>1. PICK a : a = o[2]
  OBVIOUS
<1>2. a \in Accounts /\ offers[o].amount \in Nat
  BY <1>1, Zenon DEF Store, Accounts
<1>3. PICK S : S = KeysOf(offers, a)
  OBVIOUS
<1>4. PICK f : f = AmountsOf(offers)
  OBVIOUS
<1>5. IsFiniteSet(S) /\ o \in S
  BY <1>1, <1>3, Zenon DEF SumFacts, FiniteFacts, SubsetFinite, Store, KeysOf
<1>6. f[o] = offers[o].amount /\ \A p \in S : f[p] \in Nat
  BY <1>3, <1>4, Zenon DEF Store, KeysOf, AmountsOf
<1>7. f[o] <= SumFunctionOnSet(f, S) /\ SumFunctionOnSet(f, S) \in Nat
  BY <1>5, <1>6, Zenon DEF SumFacts, SumBound, SumNat
<1>8. Offered(OffersOf(a)) = SumFunctionOnSet(f, S)
  BY <1>3, <1>4, SumOfOffers, Zenon
<1>9. named[a] >= Offered(OffersOf(a))
  BY <1>2, Zenon DEF Named
<1> QED
  BY <1>1, <1>2, <1>6, <1>7, <1>8, <1>9

\* The calls of the marketplace.
LEMMA MarketBooks ==
    ASSUME SumFacts,
           IndInv, Books, NEW who \in Users, MarketCall(who), UNCHANGED <<lm_version, lm_tokens, block>>
    PROVE  Books'
<1>1. /\ Ids /\ Deposits /\ Store /\ Named
      /\ free \in [Accounts -> Nat] /\ reserved \in [Accounts -> Nat] /\ named \in [Accounts -> Nat]
      /\ \A a \in Accounts : reserved[a] = named[a] + ClassDeposits(a)
      /\ who \in Accounts
  BY Zenon DEF Books, Agree, Accounts
<1>2. \A a : ClassDeposits(a) \in Nat
  BY <1>1, DepositsOfAccount, Zenon
<1>t. /\ free \in [Accounts -> Nat] /\ reserved \in [Accounts -> Nat] /\ named \in [Accounts -> Nat]
      /\ who \in Accounts
  BY <1>1, Zenon
<1>3. ASSUME UNCHANGED nft_vars
      PROVE  Ids' /\ Deposits' /\ \A a : ClassDeposits(a)' = ClassDeposits(a)
  BY <1>1, <1>3, Zenon DEF Ids, Deposits, ClassDeposits, class_owner, nft_vars
<1>4. ASSUME NEW token \in Tokens, buy(who, token) PROVE Books'
  <2>1. prices[token] \in Nat /\ do_buy(who, token, prices[token], free, reserved)
    BY <1>1, <1>4, Zenon DEF buy, Store
  <2>2. free' \in [Accounts -> Nat]
    BY <1>1, <2>1, Sale, Zenon
  <2>3. do_transfer(token, owner(token), who)
    BY <2>1, Zenon DEF do_buy, transfer
  <2>4. Ids' /\ Deposits' /\ \A a : ClassDeposits(a)' = ClassDeposits(a)
    BY <1>1, <2>3, MovingKeeps, ZenonT(40)
  <2>5. Store' /\ Named'
    BY <1>1, <1>4 DEF buy, Store, Named, Offered, OffersOf, remove
  <2> QED
    BY <1>1, <1>4, <2>2, <2>4, <2>5, Zenon DEF Books, Agree, buy
<1>5. ASSUME NEW token \in Tokens, NEW new_price \in {{}} \cup {{p} : p \in Prices},
             set_price(who, token, new_price)
      PROVE  Books'
  <2>1. Ids' /\ Deposits' /\ \A a : ClassDeposits(a)' = ClassDeposits(a)
    BY <1>3, <1>5, Zenon DEF set_price
  <2>2. \A price \in new_price : price \in Nat
    BY MarketplaceAssumption, Zenon
  <2>3. DOMAIN prices' \subseteq Tokens /\ \A t \in DOMAIN prices' : prices'[t] \in Nat
    BY <1>1, <1>5, <2>2, ZenonT(40) DEF set_price, insert, remove, Store
  <2>4. Store'
    BY <1>1, <1>5, <2>3, Zenon DEF set_price, Store
  <2>5. Named'
    BY <1>1, <1>5, Zenon DEF set_price, Named, Offered, OffersOf
  <2> QED
    BY <1>1, <1>5, <2>1, <2>4, <2>5, Zenon DEF Books, Agree, set_price
<1>6. ASSUME NEW token \in Tokens, NEW amount \in Amounts, NEW expires \in Expiries,
             make_offer(who, token, amount, expires)
      PROVE  Books'
  <2>1. Ids' /\ Deposits' /\ \A a : ClassDeposits(a)' = ClassDeposits(a)
    BY <1>3, <1>6, Zenon DEF make_offer
  <2>2. amount \in Nat /\ expires \in Nat
    BY MarketplaceAssumption, Zenon
  <2>3. PICK o : o = <<token, who>>
    BY Zenon
  <2>4. /\ o \in Tokens \X Users /\ o[2] = who /\ o \notin DOMAIN offers
        /\ offers' = insert(offers, o, [amount |-> amount, expires |-> expires])
        /\ free[who] >= amount
        /\ free' = [free EXCEPT ![who] = @ - amount]
        /\ reserved' = [reserved EXCEPT ![who] = @ + amount]
        /\ named' = [named EXCEPT ![who] = @ + amount]
        /\ UNCHANGED <<prices, royalties>>
    BY <1>6, <2>3, Zenon DEF make_offer, NotOffered, reserve_named, CanReserve, Reserve
  <2>5. Store' /\ Named' /\ named' \in [Accounts -> Nat]
    BY <1>1, <2>2, <2>4, OfferMade, Zenon
  <2>6. free' \in [Accounts -> Nat] /\ reserved' \in [Accounts -> Nat]
    <3>1. free' \in [Accounts -> Nat]
      BY <1>t, <2>2, <2>4, Taken, Zenon
    <3>2. reserved' \in [Accounts -> Nat]
      BY <1>t, <2>2, <2>4, Added, Zenon
    <3> QED
      BY <3>1, <3>2
  <2>7. ASSUME NEW a \in Accounts PROVE reserved'[a] = named'[a] + ClassDeposits(a)'
    <3>t. /\ reserved \in [Accounts -> Nat] /\ named \in [Accounts -> Nat]
          /\ reserved' = [reserved EXCEPT ![who] = @ + amount]
          /\ named' = [named EXCEPT ![who] = @ + amount]
          /\ who \in Accounts /\ amount \in Nat
      BY <1>t, <2>2, <2>4, Zenon
    <3>1. /\ reserved'[a] = reserved[a] + IF a = who THEN amount ELSE 0
          /\ named'[a] = named[a] + IF a = who THEN amount ELSE 0
      BY <3>t
    <3>2. reserved[a] = named[a] + ClassDeposits(a) /\ ClassDeposits(a)' = ClassDeposits(a)
      BY <1>1, <2>1, Zenon
    <3>3. reserved[a] \in Nat /\ named[a] \in Nat /\ ClassDeposits(a) \in Nat
      BY <1>1, <1>2, Zenon
    <3> QED
      BY <2>2, <3>1, <3>2, <3>3
  <2> QED
    BY <2>1, <2>5, <2>6, <2>7, Zenon DEF Books, Agree
<1>7. ASSUME NEW token \in Tokens, NEW maker \in Users, withdraw_offer(who, token, maker)
      PROVE  Books'
  <2>1. Ids' /\ Deposits' /\ \A a : ClassDeposits(a)' = ClassDeposits(a)
    BY <1>3, <1>7, Zenon DEF withdraw_offer
  <2>2. PICK o : o = <<token, maker>>
    BY Zenon
  <2>3. PICK m : m = offers[o].amount
    OBVIOUS
  <2>4. o \in DOMAIN offers /\ o[2] = maker /\ maker \in Accounts
    BY <1>7, <2>2, Zenon DEF withdraw_offer, Accounts
  <2>5. m \in Nat /\ m <= named[maker] /\ named[maker] \in Nat
    BY <1>1, <2>3, <2>4, OfferIsThere, ZenonT(40)
  <2>6. m <= reserved[maker]
    BY <1>1, <1>2, <2>4, <2>5
  <2>7. /\ offers' = remove(offers, o)
        /\ free' = [free EXCEPT ![maker] = @ + m]
        /\ reserved' = [reserved EXCEPT ![maker] = @ - m]
        /\ named' = [named EXCEPT ![maker] = @ - m]
        /\ UNCHANGED <<prices, royalties>>
    BY <1>7, <2>2, <2>3, <2>5, <2>6, Zenon DEF withdraw_offer, unreserve_named, Unreserve
  <2>8. Store' /\ Named' /\ named' \in [Accounts -> Nat]
    BY <1>1, <2>3, <2>4, <2>7, OfferGone, ZenonT(40)
  <2>9. free' \in [Accounts -> Nat] /\ reserved' \in [Accounts -> Nat]
    <3>1. free' \in [Accounts -> Nat]
      BY <1>t, <2>4, <2>5, <2>7, Added
    <3>2. reserved' \in [Accounts -> Nat]
      BY <1>t, <2>4, <2>5, <2>6, <2>7, Taken
    <3> QED
      BY <3>1, <3>2
  <2>10. ASSUME NEW a \in Accounts PROVE reserved'[a] = named'[a] + ClassDeposits(a)'
    <3>1. /\ reserved'[a] = reserved[a] - IF a = maker THEN m ELSE 0
          /\ named'[a] = named[a] - IF a = maker THEN m ELSE 0
      BY <1>t, <2>4, <2>5, <2>6, <2>7, Taken
    <3>2. reserved[a] = named[a] + ClassDeposits(a) /\ ClassDeposits(a)' = ClassDeposits(a)
      BY <1>1, <2>1, Zenon
    <3>3. reserved[a] \in Nat /\ named[a] \in Nat /\ ClassDeposits(a) \in Nat
      BY <1>1, <1>2, Zenon
    <3> QED
      BY <2>5, <3>1, <3>2, <3>3
  <2> QED
    BY <2>1, <2>8, <2>9, <2>10, Zenon DEF Books, Agree
<1>8. ASSUME NEW token \in Tokens, NEW maker \in Users, accept_offer(who, token, maker)
      PROVE  Books'
  <2>1. PICK o : o = <<token, maker>>
    BY Zenon
  <2>2. PICK m : m = offers[o].amount
    OBVIOUS
  <2>3. o \in DOMAIN offers /\ o[2] = maker /\ maker \in Accounts
    BY <1>8, <2>1, Zenon DEF accept_offer, Accounts
  <2>4. m \in Nat /\ m <= named[maker] /\ named[maker] \in Nat
    BY <1>1, <2>2, <2>3, OfferIsThere, Zenon
  <2>5. m <= reserved[maker]
    BY <1>1, <1>2, <2>3, <2>4
  <2>6. PICK funds : funds = [free EXCEPT ![maker] = @ + m]
    BY Zenon
  <2>7. PICK held : held = [reserved EXCEPT ![maker] = @ - m]
    BY Zenon
  <2>8. /\ reserved' = held
        /\ named' = [named EXCEPT ![maker] = @ - m]
        /\ do_buy(maker, token, m, funds, held)
        /\ offers' = remove(offers, o)
        /\ UNCHANGED <<prices, royalties>>
    BY <1>8, <2>1, <2>2, <2>4, <2>6, <2>7, ZenonT(40) DEF accept_offer, Returned
  <2>9. funds \in [Accounts -> Nat] /\ held \in [Accounts -> Nat]
    <3>1. funds \in [Accounts -> Nat]
      BY <1>t, <2>3, <2>4, <2>6, <2>7, Added
    <3>2. held \in [Accounts -> Nat]
      BY <1>t, <2>3, <2>4, <2>5, <2>7, Taken
    <3> QED
      BY <3>1, <3>2
  <2>10. free' \in [Accounts -> Nat]
    BY <1>1, <2>3, <2>4, <2>8, <2>9, Sale, Zenon
  <2>11. do_transfer(token, owner(token), maker)
    BY <2>8, Zenon DEF do_buy, transfer
  <2>12. Ids' /\ Deposits' /\ \A a : ClassDeposits(a)' = ClassDeposits(a)
    BY <1>1, <2>11, MovingKeeps, Zenon
  <2>13. Store' /\ Named' /\ named' \in [Accounts -> Nat]
    BY <1>1, <2>2, <2>3, <2>8, OfferGone, ZenonT(40)
  <2>14. ASSUME NEW a \in Accounts PROVE reserved'[a] = named'[a] + ClassDeposits(a)'
    <3>1. /\ reserved'[a] = reserved[a] - IF a = maker THEN m ELSE 0
          /\ named'[a] = named[a] - IF a = maker THEN m ELSE 0
      BY <1>t, <2>3, <2>4, <2>5, <2>7, <2>8, Taken
    <3>2. reserved[a] = named[a] + ClassDeposits(a) /\ ClassDeposits(a)' = ClassDeposits(a)
      BY <1>1, <2>12, Zenon
    <3>3. reserved[a] \in Nat /\ named[a] \in Nat /\ ClassDeposits(a) \in Nat
      BY <1>1, <1>2, Zenon
    <3> QED
      BY <2>4, <3>1, <3>2, <3>3
  <2> QED
    BY <2>8, <2>9, <2>10, <2>12, <2>13, <2>14, Zenon DEF Books, Agree
<1>9. ASSUME NEW token \in Tokens, NEW author \in Accounts, NEW royalty \in Royalties,
             add_royalty(who, token, author, royalty)
      PROVE  Books'
  <2>1. Ids' /\ Deposits' /\ \A a : ClassDeposits(a)' = ClassDeposits(a)
    BY <1>3, <1>9, Zenon DEF add_royalty
  <2>2. PICK m \in Nat : m = RoyaltyBondAmount
    BY MarketplaceAssumption, Zenon
  <2>3. PICK r : r = [author |-> author, royalty |-> royalty]
    BY Zenon
  <2>4. r \in [author : Accounts, royalty : 0..100]
    BY <1>9, <2>3, MarketplaceAssumption DEF add_royalty, InRange
  <2>5. /\ token \notin DOMAIN royalties
        /\ free[who] >= m
        /\ free' = [free EXCEPT ![who] = @ - m]
        /\ reserved' = [reserved EXCEPT ![who] = @ + m]
        /\ named' = [named EXCEPT ![who] = @ + RoyaltyBondAmount]
        /\ royalties' = insert(royalties, token, r)
        /\ UNCHANGED <<prices, offers>>
    BY <1>9, <2>2, <2>3, Zenon DEF add_royalty, reserve_named, CanReserve, Reserve
  <2>6. Store' /\ Named' /\ named' \in [Accounts -> Nat]
    BY <1>1, <2>4, <2>5, BondPaid, Zenon
  <2>7. free' \in [Accounts -> Nat] /\ reserved' \in [Accounts -> Nat]
    BY <1>1, <2>2, <2>5
  <2>8. \A a \in Accounts : reserved'[a] = named'[a] + ClassDeposits(a)'
    BY <1>1, <1>2, <2>1, <2>2, <2>5
  <2> QED
    BY <2>1, <2>6, <2>7, <2>8, Zenon DEF Books, Agree
<1> QED
  BY <1>4, <1>5, <1>6, <1>7, <1>8, <1>9, Zenon DEF MarketCall


\* Nothing is reserved at genesis, and nothing is owed.
LEMMA BooksInitially ==
    ASSUME SumFacts
    PROVE  Init => Books
<1> SUFFICES ASSUME Init PROVE Books
  OBVIOUS
<1>1. /\ DOMAIN classes = {} /\ DOMAIN uniques_class = {} /\ DOMAIN uniques_asset = {}
      /\ instances = {} /\ lm_tokens = {} /\ lm_version = 0
      /\ DOMAIN prices = {} /\ DOMAIN offers = {} /\ DOMAIN royalties = {} /\ block = 0
      /\ free = [a \in Accounts |-> Wealth]
      /\ reserved = [a \in Accounts |-> 0] /\ named = [a \in Accounts |-> 0]
  BY Zenon DEF Init, NFTInit, Empty
<1>2. Ids /\ Deposits
  BY <1>1, ZenonT(40) DEF SumFacts, FiniteFacts, EmptyFinite, Ids, Deposits
<1>3. Store
  BY <1>1, MarketplaceAssumption DEF SumFacts, FiniteFacts, EmptyFinite, Store
<1>4. \A a : ClassDeposits(a) = 0
  <2>1. \A a : ClassesOf(a) = {}
    BY <1>1, Zenon DEF ClassesOf
  <2> QED
    BY <2>1, SumOfDeposits, Zenon DEF SumFacts, SumOfNone
<1>5. Offered(DOMAIN offers) = 0 /\ \A a : Offered(OffersOf(a)) = 0
  <2>1. \A a : KeysOf(offers, a) = {}
    BY <1>1, Zenon DEF KeysOf
  <2> QED
    BY <1>1, <2>1, SumOfOffers, Zenon DEF SumFacts, SumOfNone
<1>6. SumFunctionOnSet(named, Accounts) = 0
  <2>1. PICK f : f = named
    OBVIOUS
  <2>2. \A a \in Accounts : f[a] = 0
    BY <1>1, <2>1, Zenon
  <2>3. SumFunctionOnSet(f, Accounts) = 0
    BY <2>2, FiniteAccounts, Zenon DEF SumFacts, SumZero
  <2> QED
    BY <2>1, <2>3, Zenon
<1>7. Named
  <2>1. Cardinality(DOMAIN royalties) = 0
    BY <1>1, Zenon DEF SumFacts, FiniteFacts, EmptyFinite
  <2>2. RoyaltyBondAmount * 0 = 0
    BY MarketplaceAssumption
  <2> QED
    BY <1>1, <1>5, <1>6, <2>1, <2>2 DEF Named
<1>8. Agree
  BY <1>1, <1>4, <1>7, NFTAssumption DEF Agree
<1> QED
  BY <1>2, <1>3, <1>8, Zenon DEF Books

\* Every step keeps the books.
LEMMA BooksKept ==
    ASSUME SumFacts
    PROVE  IndInv /\ Books /\ [Next]_vars => Books'
<1> SUFFICES ASSUME IndInv, Books, [Next]_vars PROVE Books'
  OBVIOUS
<1>1. ASSUME UNCHANGED <<nft_vars, free, reserved, lm_version, lm_tokens, market_vars>>,
             block' \in 0..MaxBlock
      PROVE  Books'
  <2>1. Ids' /\ Deposits' /\ \A a : ClassDeposits(a)' = ClassDeposits(a)
    BY <1>1, Zenon DEF Books, Ids, Deposits, ClassDeposits, class_owner, nft_vars
  <2>2. Store' /\ Named'
    BY <1>1, Zenon DEF Books, Agree, Store, Named, Offered, OffersOf, market_vars
  <2> QED
    BY <1>1, <2>1, <2>2, Zenon DEF Books, Agree, market_vars
<1>2. CASE UNCHANGED vars
  BY <1>1, <1>2, Zenon DEF vars, nft_vars, market_vars, Books, Store
<1>3. CASE NextBlock
  <2>1. block' \in 0..MaxBlock
    BY <1>3, MarketplaceAssumption DEF NextBlock, Books, Store
  <2> QED
    BY <1>1, <1>3, <2>1, Zenon DEF NextBlock
<1>4. CASE NFTNext /\ UNCHANGED <<market_vars, block>>
  BY <1>4, NFTBooks, Zenon
<1>5. ASSUME NEW who \in Users, MarketCall(who) /\ UNCHANGED <<lm_version, lm_tokens, block>>
      PROVE  Books'
  BY <1>5, MarketBooks, Zenon
<1> QED
  BY <1>2, <1>3, <1>4, <1>5, Zenon DEF Next

\* The types, from both invariants.
LEMMA BooksAreTyped ==
    ASSUME SumFacts
    PROVE  IndInv /\ Books => TypeOK
<1> SUFFICES ASSUME IndInv, Books PROVE TypeOK
  OBVIOUS
<1>1. /\ DOMAIN uniques_class = DOMAIN classes
      /\ DOMAIN uniques_asset = instances
  BY Zenon DEF IndInv, StorageAgrees
<1>2. ASSUME NEW c \in DOMAIN uniques_class
      PROVE  uniques_class[c] \in [owner : Accounts, instances : Nat, total_deposit : Nat,
                                   free_holding : BOOLEAN]
  <2>1. uniques_class[c] \in [owner : Accounts, instances : Int, total_deposit : Int,
                              free_holding : BOOLEAN]
    BY Zenon DEF IndInv, Shape
  <2>2. uniques_class[c].instances \in Nat /\ uniques_class[c].total_deposit \in Nat
    BY OwedIsNat, Zenon DEF Books, Deposits
  <2> QED
    BY <2>1, <2>2, Zenon
<1>3. ASSUME NEW t \in DOMAIN uniques_asset
      PROVE  uniques_asset[t] \in [owner : Accounts, deposit : Nat]
  <2>1. uniques_asset[t] \in [owner : Accounts, deposit : Int]
    BY Zenon DEF IndInv, Shape
  <2>2. uniques_asset[t].deposit \in Nat
    BY OwedIsNat, Zenon DEF Books
  <2> QED
    BY <2>1, <2>2, Zenon
<1> QED
  BY <1>1, <1>2, <1>3, Zenon DEF Books, Ids, Store, Agree, TypeOK


\* Both ways to sell a token settle the price between the parties.
LEMMA Settlement ==
    ASSUME SumFacts, IndInv, Books, NEW token \in Tokens, NEW buyer \in Users, TokenExists(token),
           NEW price,
           \/ accept_offer(owner(token), token, buyer) /\ price = offers[<<token, buyer>>].amount
           \/ buy(buyer, token) /\ price = prices[token]
    PROVE  \E cut : AllSettled(Balances, Balances', buyer, Author(token), owner(token), price, cut)
<1>0. owner(token) \in Accounts /\ Author(token) \in Accounts
  BY Zenon DEF TokenExists, owner, Author, HasRoyalty, IndInv, Shape, Books, Store
<1>1. /\ Store /\ Named /\ buyer \in Accounts
      /\ free \in [Accounts -> Nat] /\ reserved \in [Accounts -> Nat] /\ named \in [Accounts -> Nat]
      /\ \A a \in Accounts : reserved[a] = named[a] + ClassDeposits(a)
  BY Zenon DEF Books, Agree, Accounts
<1>2. CASE buy(buyer, token) /\ price = prices[token]
  <2>1. price \in Nat /\ do_buy(buyer, token, price, free, reserved) /\ reserved' = reserved
    BY <1>1, <1>2, Zenon DEF buy, Store
  <2>2. /\ free' \in [Accounts -> Nat]
        /\ \E cut \in 0..price : \A a \in Accounts : free'[a] =
              Settled(free[a], a, buyer, Author(token), owner(token), price, cut)
    <3>1. Store /\ buyer \in Accounts /\ free \in [Accounts -> Nat]
      BY <1>1, Zenon
    <3> QED
      BY <2>1, <3>1, Sale, Zenon
  <2>3. PICK cut \in 0..price : \A a \in Accounts : free'[a] =
              Settled(free[a], a, buyer, Author(token), owner(token), price, cut)
    BY <2>2, Zenon
  <2>4. ASSUME NEW a \in Accounts
        PROVE  free'[a] + reserved'[a] = Settled(free[a] + reserved[a], a, buyer,
                                                 Author(token), owner(token), price, cut)
    <3>1. free[a] \in Nat /\ reserved[a] \in Nat /\ reserved'[a] = reserved[a]
      BY <1>1, <2>1, Zenon
    <3>2. free'[a] = Settled(free[a], a, buyer, Author(token), owner(token), price, cut)
      BY <2>3, ZenonT(40)
    <3>3. cut \in Nat
      BY <2>1
    <3>4. Settled(free[a], a, buyer, Author(token), owner(token), price, cut) + reserved[a] =
             Settled(free[a] + reserved[a], a, buyer, Author(token), owner(token), price, cut)
      BY <2>1, <3>1, <3>3 DEF Settled
    <3> QED
      BY <3>1, <3>2, <3>4, Zenon
  <2>5. buyer # owner(token)
    BY <2>1, Zenon DEF do_buy
  <2>6. AllSettled(Balances, Balances', buyer, Author(token), owner(token), price, cut)
    <3>1. Balances \in [Accounts -> Nat] /\ Balances' \in [Accounts -> Nat]
      <4>1. \A a \in Accounts : free[a] + reserved[a] \in Nat
        <5>1. free \in [Accounts -> Nat] /\ reserved \in [Accounts -> Nat]
          BY <1>1, ZenonT(40)
        <5> QED
          BY <5>1
      <4>2. \A a \in Accounts : free'[a] + reserved'[a] \in Nat
        <5>1. free' \in [Accounts -> Nat]
          BY <2>2, Zenon
        <5>2. reserved' \in [Accounts -> Nat]
          BY <1>1, <2>1, Zenon
        <5> QED
          BY <5>1, <5>2
      <4> QED
        BY <4>1, <4>2, ZenonT(40) DEF Balances, Balance
    <3>2. \A a \in Accounts : Balances'[a] =
              Settled(Balances[a], a, buyer, Author(token), owner(token), price, cut)
      BY <2>4, ZenonT(40) DEF Balances, Balance
    <3> QED
      BY <1>0, <1>1, <2>1, <2>5, <3>1, <3>2, Zenon DEF AllSettled
  <2> QED
    BY <2>6, Zenon
<1>3. CASE accept_offer(owner(token), token, buyer) /\ price = offers[<<token, buyer>>].amount
  <2>1. PICK o : o = <<token, buyer>>
    OBVIOUS
  <2>2. o \in DOMAIN offers /\ o[2] = buyer /\ price = offers[o].amount
    BY <1>3, <2>1, Zenon DEF accept_offer
  <2>3. price \in Nat /\ price <= named[buyer] /\ named[buyer] \in Nat
    BY <1>1, <2>2, OfferIsThere, Zenon
  <2>4. price <= reserved[buyer]
    <3>1. ClassDeposits(buyer) \in Nat
      BY DepositsOfAccount, Zenon DEF Books
    <3> QED
      <4>1. reserved[buyer] = named[buyer] + ClassDeposits(buyer)
        BY <1>1, Zenon
      <4> QED
        BY <2>3, <3>1, <4>1
  <2>5. PICK funds : funds = [free EXCEPT ![buyer] = @ + price]
    BY Zenon
  <2>6. PICK held : held = [reserved EXCEPT ![buyer] = @ - price]
    BY Zenon
  <2>7. reserved' = held /\ do_buy(buyer, token, price, funds, held)
    BY <1>3, <2>1, <2>2, <2>3, <2>5, <2>6, Zenon DEF accept_offer, Returned
  <2>8. funds \in [Accounts -> Nat] /\ held \in [Accounts -> Nat]
    <3>1. [free EXCEPT ![buyer] = @ + price] \in [Accounts -> Nat]
      BY <1>1, <2>3, Added
    <3>2. [reserved EXCEPT ![buyer] = @ - price] \in [Accounts -> Nat]
      BY <1>1, <2>3, <2>4, Taken, Zenon
    <3> QED
      BY <2>5, <2>6, <3>1, <3>2, ZenonT(40)
  <2>9. /\ free' \in [Accounts -> Nat]
        /\ \E cut \in 0..price : \A a \in Accounts : free'[a] =
              Settled(funds[a], a, buyer, Author(token), owner(token), price, cut)
    <3>1. Store /\ buyer \in Accounts
      BY <1>1, Zenon
    <3> QED
      BY <2>3, <2>7, <2>8, <3>1, Sale, Zenon
  <2>10. PICK cut \in 0..price : \A a \in Accounts : free'[a] =
              Settled(funds[a], a, buyer, Author(token), owner(token), price, cut)
    BY <2>9, Zenon
  <2>11. ASSUME NEW a \in Accounts
         PROVE  free'[a] + reserved'[a] = Settled(free[a] + reserved[a], a, buyer,
                                                  Author(token), owner(token), price, cut)
    <3>1. free[a] \in Nat /\ reserved[a] \in Nat
      BY <1>1, Zenon
    <3>2. funds[a] \in Nat /\ held[a] \in Nat /\ funds[a] + held[a] = free[a] + reserved[a]
      <4>1. /\ funds[a] = free[a] + IF a = buyer THEN price ELSE 0
            /\ held[a] = reserved[a] - IF a = buyer THEN price ELSE 0
        <5>1. free \in [Accounts -> Nat] /\ reserved \in [Accounts -> Nat] /\ buyer \in Accounts
          BY <1>1, Zenon
        <5> QED
          BY <2>3, <2>4, <2>5, <2>6, <5>1, Added, Taken
      <4>2. funds[a] \in Nat /\ held[a] \in Nat
        BY <2>8, Zenon
      <4> QED
        BY <2>3, <3>1, <4>1, <4>2
    <3>3. free'[a] = Settled(funds[a], a, buyer, Author(token), owner(token), price, cut)
      BY <2>10, Zenon
    <3>4. reserved'[a] = held[a]
      BY <2>7, Zenon
    <3>5. cut \in Nat
      BY <2>3
    <3>6. Settled(funds[a], a, buyer, Author(token), owner(token), price, cut) + held[a] =
             Settled(funds[a] + held[a], a, buyer, Author(token), owner(token), price, cut)
      BY <2>3, <3>2, <3>5 DEF Settled
    <3> QED
      BY <3>2, <3>3, <3>4, <3>6, Zenon
  <2>12. buyer # owner(token)
    BY <2>7, Zenon DEF do_buy
  <2>13. AllSettled(Balances, Balances', buyer, Author(token), owner(token), price, cut)
    <3>1. Balances \in [Accounts -> Nat] /\ Balances' \in [Accounts -> Nat]
      <4>1. \A a \in Accounts : free[a] + reserved[a] \in Nat
        <5>1. free \in [Accounts -> Nat] /\ reserved \in [Accounts -> Nat]
          BY <1>1, Zenon
        <5> QED
          BY <5>1
      <4>2. \A a \in Accounts : free'[a] + reserved'[a] \in Nat
        <5>1. free' \in [Accounts -> Nat]
          BY <2>9, Zenon
        <5>2. reserved' \in [Accounts -> Nat]
          BY <2>7, <2>8, Zenon
        <5> QED
          BY <5>1, <5>2
      <4> QED
        BY <4>1, <4>2, Zenon DEF Balances, Balance
    <3>2. \A a \in Accounts : Balances'[a] =
              Settled(Balances[a], a, buyer, Author(token), owner(token), price, cut)
      BY <2>11, Zenon DEF Balances, Balance
    <3> QED
      BY <1>0, <1>1, <2>3, <2>12, <3>1, <3>2, Zenon DEF AllSettled
  <2> QED
    BY <2>13, Zenon
<1> QED
  BY <1>2, <1>3, Zenon

\* What that means for the parties and for everyone else.
LEMMA Parties ==
    ASSUME SumFacts, NEW buyer, NEW seller, NEW author, NEW price, NEW cut,
           AllSettled(Balances, Balances', buyer, author, seller, price, cut)
    PROVE  /\ Balance(seller)' <= Balance(seller) + price
           /\ author # buyer => Balance(buyer)' = Balance(buyer) - price
           /\ SumFunctionOnSet(Balances', {buyer, seller, author}) =
                 SumFunctionOnSet(Balances, {buyer, seller, author})
           /\ \A a \in Accounts \ {buyer, seller, author} : Balance(a)' = Balance(a)
<1>1. PICK f : f = Balances
  OBVIOUS
<1>2. PICK g : g = Balances'
  OBVIOUS
<1>3. \A a \in Accounts : f[a] = Balance(a) /\ g[a] = Balance(a)'
  BY <1>1, <1>2, Zenon DEF Balances
<1>4. AllSettled(f, g, buyer, author, seller, price, cut)
  BY <1>1, <1>2, Zenon
<1>5. SumFunctionOnSet(g, {buyer, seller, author}) = SumFunctionOnSet(f, {buyer, seller, author})
  BY <1>4, SumOfParties
<1>6. g[seller] <= f[seller] + price
  <2>1. g[seller] = Settled(f[seller], seller, buyer, author, seller, price, cut) /\ f[seller] \in Nat
    BY <1>4, Zenon DEF AllSettled
  <2> QED
    BY <1>4, <2>1 DEF Settled, AllSettled
<1>7. author # buyer => g[buyer] = f[buyer] - price
  <2>1. g[buyer] = Settled(f[buyer], buyer, buyer, author, seller, price, cut) /\ f[buyer] \in Nat
    BY <1>4, Zenon DEF AllSettled
  <2> QED
    BY <1>4, <2>1 DEF Settled, AllSettled
<1>8. ASSUME NEW a \in Accounts, a \notin {buyer, seller, author} PROVE g[a] = f[a]
  <2>1. g[a] = Settled(f[a], a, buyer, author, seller, price, cut) /\ f[a] \in Nat
    BY <1>4, Zenon DEF AllSettled
  <2> QED
    BY <1>4, <1>8, <2>1 DEF Settled, AllSettled
<1>9. /\ Balance(seller)' <= Balance(seller) + price
      /\ author # buyer => Balance(buyer)' = Balance(buyer) - price
  BY <1>3, <1>4, <1>6, <1>7, Zenon DEF AllSettled
<1>10. \A a \in Accounts \ {buyer, seller, author} : Balance(a)' = Balance(a)
  BY <1>3, <1>8, Zenon
<1> QED
  BY <1>1, <1>2, <1>5, <1>9, <1>10, Zenon

\* What SaleIsSettled says of a step.
SettlesSales ==
    \A token \in Tokens, buyer, seller \in Users, author \in Accounts :
      LET accepted == accept_offer(seller, token, buyer)
          price == IF accepted THEN offers[<<token, buyer>>].amount ELSE prices[token]
          parties == {buyer, seller, author}
      IN  (/\ TokenExists(token)
           /\ owner(token) = seller
           /\ Author(token) = author
           /\ accepted \/ buy(buyer, token)) =>
            /\ Balance(seller)' <= Balance(seller) + price
            /\ author # buyer => Balance(buyer)' = Balance(buyer) - price
            /\ SumFunctionOnSet(Balances', parties) = SumFunctionOnSet(Balances, parties)
            /\ \A a \in Accounts \ parties : Balance(a)' = Balance(a)

LEMMA SalesSettle ==
    ASSUME SumFacts, IndInv, Books
    PROVE  SettlesSales
<1> USE DEF SettlesSales
<1>1. TAKE token \in Tokens, buyer \in Users, seller \in Users, author \in Accounts
<1>2. PICK price : price = IF accept_offer(seller, token, buyer)
                           THEN offers[<<token, buyer>>].amount ELSE prices[token]
  OBVIOUS
<1>3. ASSUME TokenExists(token), owner(token) = seller, Author(token) = author,
             accept_offer(seller, token, buyer) \/ buy(buyer, token)
      PROVE  /\ Balance(seller)' <= Balance(seller) + price
             /\ author # buyer => Balance(buyer)' = Balance(buyer) - price
             /\ SumFunctionOnSet(Balances', {buyer, seller, author}) =
                   SumFunctionOnSet(Balances, {buyer, seller, author})
             /\ \A a \in Accounts \ {buyer, seller, author} : Balance(a)' = Balance(a)
  <2>1. \/ accept_offer(owner(token), token, buyer) /\ price = offers[<<token, buyer>>].amount
        \/ buy(buyer, token) /\ price = prices[token]
    BY <1>2, <1>3, Zenon
  <2>2. \E cut : AllSettled(Balances, Balances', buyer, Author(token), owner(token), price, cut)
    <3>1. CASE accept_offer(owner(token), token, buyer) /\ price = offers[<<token, buyer>>].amount
      BY <1>3, <3>1, Settlement, Zenon
    <3>2. CASE buy(buyer, token) /\ price = prices[token]
      BY <1>3, <3>2, Settlement, Zenon
    <3> QED
      BY <2>1, <3>1, <3>2, Zenon
  <2>3. PICK cut : AllSettled(Balances, Balances', buyer, author, seller, price, cut)
    BY <1>3, <2>2, Zenon
  <2> QED
    BY <2>3, Parties
<1> QED
  BY <1>2, <1>3, ZenonT(40)

-----------------------------------------------------------------------------
(* The theorems.  Here the facts about finite sets and sums are no longer *)
(* hypotheses: Sums proves them.                                          *)

INSTANCE Sums

\* The records agree in every state.
LEMMA Inductive == Spec => []IndInv
<1>1. Init => IndInv
  BY Facts, Initially, Zenon
<1>2. IndInv /\ [Next]_vars => IndInv'
  BY Facts, Induction, Zenon
<1> QED
  BY <1>1, <1>2, PTL DEF Spec

\* The NFT pallet and pallet_uniques agree on classes, tokens and their
\* number, through every sequence of calls of the three pallets.
THEOREM Records == Spec => []StorageAgrees
<1>1. IndInv => StorageAgrees
  BY Zenon DEF IndInv
<1> QED
  BY Inductive, <1>1, PTL

\* The class that on_runtime_upgrade creates (init_nft_class) is free until it
\* is created, however many classes users have made before the upgrade.
THEOREM Migration == Spec => []MigrationCannotPanic
<1>1. IndInv => MigrationCannotPanic
  BY Zenon DEF IndInv
<1> QED
  BY Inductive, <1>1, PTL

\* No call takes over the liquidity mining class or makes another of its type
\* (NftPermissions, create_class).
THEOREM ProtectedClass == Spec => []LMClassIsProtected
<1>1. IndInv => LMClassIsProtected
  BY Zenon DEF IndInv
<1> QED
  BY Inductive, <1>1, PTL

\* The tokens of the liquidity mining class are those the liquidity mining
\* pallet has out: nobody else mints one, burns one or destroys the class.
THEOREM DepositTokens == Spec => []LMTokensAreDeposits
<1>1. IndInv => LMTokensAreDeposits
  BY Zenon DEF IndInv
<1> QED
  BY Inductive, <1>1, PTL

\* The books are in order in every state.
LEMMA BooksInvariant == Spec => []Books
<1>1. Init => Books
  BY Facts, BooksInitially, Zenon
<1>2. IndInv /\ Books /\ [Next]_vars => Books'
  BY Facts, BooksKept, Zenon
<1> QED
  BY Inductive, <1>1, <1>2, PTL DEF Spec

\* Reserves are what is owed: nothing that the three pallets do to the one
\* reserved balance of an account (pallet_uniques with deposits, the
\* marketplace with named reserves) takes what was reserved for another
\* purpose.
THEOREM Reserves == Spec => []ReservesAgree
<1>1. IndInv /\ Books => ReservesAgree
  BY Facts, BooksAreTyped, Zenon DEF Books, Agree, Named, ReservesAgree
<1> QED
  BY Inductive, BooksInvariant, <1>1, PTL

\* Whichever way a token is sold, only the parties' balances move, the buyer
\* pays the price and the parties keep what they had together: no step of the
\* sale (unreserving, the royalty, the payment of the rest) loses or makes
\* money.
THEOREM Settlements == Spec => SaleIsSettled
<1>1. IndInv /\ Books => SettlesSales
  BY Facts, SalesSettle, Zenon
<1>2. IndInv /\ Books /\ [Next]_vars => [SettlesSales]_vars
  BY <1>1, Zenon
<1>3. Spec => [][Next]_vars
  BY Zenon DEF Spec
<1> QED
  BY Inductive, BooksInvariant, <1>2, <1>3, PTL DEF SaleIsSettled, SettlesSales

=============================================================================
