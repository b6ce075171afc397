---------------------------- MODULE Marketplace ----------------------------
(***************************************************************************)
(* The NFT marketplace, pallets/marketplace/src/lib.rs, composed with the  *)
(* NFT pallet whose tokens it sells: users call both, in any order.        *)
(*                                                                         *)
(* An offer reserves its amount under the marketplace's name (`named`, a   *)
(* part of `reserved`).  Prices, offers and royalties are keyed by token   *)
(* and are not told when the NFT pallet transfers or burns it.             *)
(***************************************************************************)
EXTENDS NFT, FiniteSetsExt

CONSTANTS
    MinimumOfferAmount, RoyaltyBondAmount,
    MaxBlock,                   \* bound: the last block
    Prices, Amounts, Expiries, Royalties    \* the arguments of the calls

ASSUME MarketplaceAssumption ==
    /\ MinimumOfferAmount \in Nat
    /\ RoyaltyBondAmount \in Nat
    /\ MaxBlock \in Nat
    /\ Prices \subseteq Nat
    /\ Amounts \subseteq Nat
    /\ Expiries \subseteq Nat
    /\ Royalties \subseteq 0..255

VARIABLES
    prices,         \* Prices
    offers,         \* Offers, keyed by <<token, maker>>
    royalties,      \* MarketplaceInstances
    named,          \* the reserve of every account named Marketplace
    block

market_vars == <<prices, offers, royalties, named>>

vars == <<classes, instances, uniques_class, uniques_asset, free, reserved,
          lm_version, lm_tokens, prices, offers, royalties, named, block>>

-----------------------------------------------------------------------------
(* pallet_balances and Percent (external) *)

reserve_named(who, amount) ==
    /\ CanReserve(who, amount)
    /\ Reserve(who, amount)
    /\ named' = [named EXCEPT ![who] = @ + amount]

\* Returns what the named reserve holds, at most.
unreserve_named(who, amount) ==
    LET actual == IF amount <= named[who] THEN amount ELSE named[who]
    IN  /\ Unreserve(who, actual)
        /\ named' = [named EXCEPT ![who] = @ - actual]

\* A transfer with ExistenceRequirement::KeepAlive.  Nothing is checked if
\* nothing moves.
NothingMoves(from, to, amount) == from = to \/ amount = 0

CanTransfer(funds, held, from, to, amount) ==
    \/ NothingMoves(from, to, amount)
    \/ /\ funds[from] >= amount
       /\ funds[from] + held[from] - amount >= ExistentialDeposit
       /\ funds[to] + held[to] + amount >= ExistentialDeposit

Transfer(funds, from, to, amount) ==
    IF NothingMoves(from, to, amount) THEN funds
    ELSE [funds EXCEPT ![from] = @ - amount, ![to] = @ + amount]

\* Percent * balance rounds to the nearest integer, a half down.
percent_of(percent, amount) ==
    (percent * amount) \div 100 + IF (percent * amount) % 100 > 50 THEN 1 ELSE 0

-----------------------------------------------------------------------------
(* do_buy *)

HasRoyalty(token) ==
    /\ token \in DOMAIN royalties
    /\ royalties[token].author # owner(token)

\* Mutant of Payment: the royalty is subtracted and not paid to the author.
Payment_Unpaid(token, price) ==
    LET cut == IF HasRoyalty(token) THEN percent_of(royalties[token].royalty, price) ELSE 0
    IN  [royalty |-> 0, net |-> price - cut]

\* What the author and the owner are paid when the token is sold.
Payment(token, price) ==
    LET cut == IF HasRoyalty(token) THEN percent_of(royalties[token].royalty, price) ELSE 0
    IN  [royalty |-> cut, net |-> price - cut]

Author(token) == IF HasRoyalty(token) THEN royalties[token].author ELSE owner(token)

\* `funds` and `held` are the free and the reserved balances the sale starts
\* with.
do_buy(buyer, token, price, funds, held) ==
    LET payment == Payment(token, price)
        settled == Transfer(funds, buyer, Author(token), payment.royalty)
    IN  /\ TokenExists(token)
        /\ buyer # owner(token)
        /\ CanTransfer(funds, held, buyer, Author(token), payment.royalty)
        /\ CanTransfer(settled, held, buyer, owner(token), payment.net)
        /\ free' = Transfer(settled, buyer, owner(token), payment.net)
        /\ transfer(owner(token), token, buyer)

-----------------------------------------------------------------------------
(* The extrinsics *)

buy(who, token) ==
    /\ token \in DOMAIN prices
    /\ do_buy(who, token, prices[token], free, reserved)
    /\ prices' = remove(prices, token)
    /\ UNCHANGED <<reserved, named, offers, royalties>>

\* An optional price is a set of at most one element; with None, the empty
\* set, the token is taken off the market.
set_price(who, token, new_price) ==
    /\ TokenExists(token)
    /\ owner(token) = who
    /\ \/ /\ new_price = {}
          /\ prices' = remove(prices, token)
       \/ \E price \in new_price : prices' = insert(prices, token, price)
    /\ UNCHANGED <<nft_vars, free, reserved, named, offers, royalties>>

\* Mutant of NotOffered: a second offer replaces the first.
NotOffered_Dropped(who, token) == TRUE

\* AlreadyOffered
NotOffered(who, token) == <<token, who>> \notin DOMAIN offers

\* The token need not exist.
make_offer(who, token, amount, expires) ==
    /\ amount >= MinimumOfferAmount
    /\ NotOffered(who, token)
    /\ offers' = insert(offers, <<token, who>>, [amount |-> amount, expires |-> expires])
    /\ reserve_named(who, amount)
    /\ UNCHANGED <<nft_vars, prices, royalties>>

MayWithdraw(who, token, maker) == who = maker \/ who = owner(token)

withdraw_offer(who, token, maker) ==
    /\ <<token, maker>> \in DOMAIN offers
    /\ TokenExists(token)
    /\ MayWithdraw(who, token, maker)
    /\ unreserve_named(maker, offers[<<token, maker>>].amount)
    /\ offers' = remove(offers, <<token, maker>>)
    /\ UNCHANGED <<nft_vars, prices, royalties>>

\* Mutant of Returned: the offer is paid while its amount is still reserved.
Returned_Nothing(maker, offer) == 0

\* What unreserve_named returns to the maker of an accepted offer.
Returned(maker, offer) ==
    IF offer.amount <= named[maker] THEN offer.amount ELSE named[maker]

\* The price of the token is left as it is.
accept_offer(who, token, maker) ==
    /\ TokenExists(token)
    /\ owner(token) = who
    /\ <<token, maker>> \in DOMAIN offers
    /\ LET offer == offers[<<token, maker>>]
           back == Returned(maker, offer)
           funds == [free EXCEPT ![maker] = @ + back]
           held == [reserved EXCEPT ![maker] = @ - back]
       IN  /\ offer.expires > block
           /\ reserved' = held
           /\ named' = [named EXCEPT ![maker] = @ - back]
           /\ do_buy(maker, token, offer.amount, funds, held)
    /\ offers' = remove(offers, <<token, maker>>)
    /\ UNCHANGED <<prices, royalties>>

\* NotInRange
InRange(royalty) == royalty <= 100

add_royalty(who, token, author, royalty) ==
    /\ token \notin DOMAIN royalties
    /\ InRange(royalty)
    /\ TokenExists(token)
    /\ owner(token) = who
    /\ reserve_named(who, RoyaltyBondAmount)
    /\ royalties' = insert(royalties, token, [author |-> author, royalty |-> royalty])
    /\ UNCHANGED <<nft_vars, prices, offers>>

MarketCall(who) ==
    \E token \in Tokens :
        \/ buy(who, token)
        \/ \E new_price \in {{}} \cup {{p} : p \in Prices} : set_price(who, token, new_price)
        \/ \E amount \in Amounts, expires \in Expiries : make_offer(who, token, amount, expires)
        \/ \E maker \in Users : withdraw_offer(who, token, maker)
        \/ \E maker \in Users : accept_offer(who, token, maker)
        \/ \E author \in Accounts, royalty \in Royalties : add_royalty(who, token, author, royalty)

NextBlock ==
    /\ block < MaxBlock
    /\ block' = block + 1
    /\ UNCHANGED <<nft_vars, free, reserved, lm_version, lm_tokens, market_vars>>

Init ==
    /\ NFTInit
    /\ prices = Empty
    /\ offers = Empty
    /\ royalties = Empty
    /\ named = [a \in Accounts |-> 0]
    /\ block = 0

Next ==
    \/ NextBlock
    \/ NFTNext /\ UNCHANGED <<market_vars, block>>
    \/ \E who \in Users : MarketCall(who) /\ UNCHANGED <<lm_version, lm_tokens, block>>

Spec == Init /\ [][Next]_vars

-----------------------------------------------------------------------------
(* What the marketplace promises *)

TypeOK ==
    /\ DOMAIN classes \subseteq ClassIds
    /\ \A c \in DOMAIN classes : classes[c] \in ClassType
    /\ instances \subseteq Tokens
    /\ DOMAIN uniques_class \subseteq ClassIds
    /\ \A c \in DOMAIN uniques_class :
          uniques_class[c] \in [owner : Accounts, instances : Nat, total_deposit : Nat,
                               free_holding : BOOLEAN]
    /\ DOMAIN uniques_asset \subseteq Tokens
    /\ \A t \in DOMAIN uniques_asset : uniques_asset[t] \in [owner : Accounts, deposit : Nat]
    /\ free \in [Accounts -> Nat]
    /\ reserved \in [Accounts -> Nat]
    /\ named \in [Accounts -> Nat]
    /\ lm_version \in {0, 1}
    /\ lm_tokens \subseteq Tokens
    /\ DOMAIN prices \subseteq Tokens
    /\ \A t \in DOMAIN prices : prices[t] \in Nat
    /\ DOMAIN offers \subseteq Tokens \X Users
    /\ \A o \in DOMAIN offers : offers[o] \in [amount : Nat, expires : Nat]
    /\ DOMAIN royalties \subseteq Tokens
    /\ \A t \in DOMAIN royalties : royalties[t] \in [author : Accounts, royalty : 0..100]
    /\ block \in 0..MaxBlock

OffersOf(who) == {o \in DOMAIN offers : o[2] = who}

Offered(os) == SumFunctionOnSet([o \in DOMAIN offers |-> offers[o].amount], os)

ClassDeposits(who) ==
    SumFunctionOnSet([c \in DOMAIN uniques_class |-> uniques_class[c].total_deposit],
                     {c \in DOMAIN uniques_class : class_owner(c) = who})

\* What an account has reserved is what it owes for: the deposits of its
\* classes (pallet_uniques) and the marketplace's named reserve, which holds
\* the amounts of all its offers and, over all accounts, one bond for every
\* royalty.  The uniques calls unreserve without a name and must not eat into
\* the offers, and no balance is negative (TypeOK).
ReservesAgree ==
    /\ TypeOK
    /\ \A a \in Accounts :
          /\ reserved[a] = named[a] + ClassDeposits(a)
          /\ named[a] >= Offered(OffersOf(a))
    /\ SumFunctionOnSet(named, Accounts) =
           Offered(DOMAIN offers) + RoyaltyBondAmount * Cardinality(DOMAIN royalties)

Balance(a) == free[a] + reserved[a]

Balances == [a \in Accounts |-> Balance(a)]

\* An offer that has not expired can be accepted by the owner of the token,
\* whatever happened since it was made (accept_offer): its amount is still
\* there.  The only other condition is the existential deposit, which
\* make_offer does not look at and the payment (KeepAlive) does.
OfferCanBeAccepted ==
    \A o \in DOMAIN offers :
        LET token == o[1]
            maker == o[2]
        IN  (/\ TokenExists(token)
             /\ owner(token) # maker
             /\ offers[o].expires > block
             /\ Balance(maker) - offers[o].amount >= ExistentialDeposit)
            => ENABLED accept_offer(owner(token), token, maker)

\* A sale (do_buy) moves money between the buyer, the seller and the author
\* of the token only, the buyer pays exactly the price (less the royalty it
\* pays to itself), and the seller is paid at most the price.
SaleIsSettled ==
    [][\A token \in Tokens, buyer, seller \in Users, author \in Accounts :
        LET accepted == accept_offer(seller, token, buyer)
            price == IF accepted THEN offers[<<token, buyer>>].amount ELSE prices[token]
            parties == {buyer, seller, author}
        IN  (/\ TokenExists(token)
             /\ owner(token) = seller
             /\ Author(token) = author
             /\ accepted \/ buy(buyer, token)) =>
              /\ Balance(seller)' <= Balance(seller) + price
              /\ author # buyer => Balance(buyer)' = Balance(buyer) - price
              /\ SumFunctionOnSet(Balances', parties) = SumFunctionOnSet(Balances, parties)
              /\ \A a \in Accounts \ parties : Balance(a)' = Balance(a)]_vars

=============================================================================
