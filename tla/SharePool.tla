----------------------------- MODULE SharePool -----------------------------
(***************************************************************************)
(* What an AMM promises to the pallets that hold its share tokens.         *)
(*                                                                         *)
(* This is the view the liquidity mining pallet has of the market maker    *)
(* (the AMM trait: exists, get_share_token, and the balance of one asset   *)
(* on the account of the pool, which it values deposits with).  A pool     *)
(* comes to exist with its first shares and ceases to exist when the last  *)
(* one is redeemed, and not before; shares change hands only when they are *)
(* issued, redeemed or transferred; the pool of a pair that exists holds   *)
(* some of the asset.  Module XYKShares shows that XYK implements this.    *)
(***************************************************************************)
EXTENDS Integers

CONSTANTS
    Pairs,          \* the pairs that contain the asset
    Accounts,
    Units,          \* numbers of shares that can be issued at once
    Backings        \* balances of the asset a pool account can hold

VARIABLES
    live,           \* the pairs that have a pool
    backing,        \* balance of the asset on the account of the pair
    shares,         \* share tokens of every pair and account
    issuance        \* total issuance of the share tokens

amm_vars == <<live, backing, shares, issuance>>

SetBacking(p, b) == backing' = [backing EXCEPT ![p] = b]

Mint(p, who, n) ==
    /\ issuance' = [issuance EXCEPT ![p] = @ + n]
    /\ shares' = [shares EXCEPT ![p][who] = @ + n]

Create(p, who, n, b) ==
    /\ p \notin live
    /\ b > 0
    /\ n > 0
    /\ live' = live \cup {p}
    /\ Mint(p, who, n)

Issue(p, who, n, b) ==
    /\ p \in live
    /\ b >= backing[p]
    /\ n > 0
    /\ Mint(p, who, n)
    /\ UNCHANGED live

\* The pool is gone with the last share, and its account is empty.
Redeem(p, who, n, b) ==
    /\ p \in live
    /\ n > 0
    /\ n <= shares[p][who]
    /\ b <= backing[p]
    /\ issuance' = [issuance EXCEPT ![p] = @ - n]
    /\ shares' = [shares EXCEPT ![p][who] = @ - n]
    /\ \/ /\ issuance[p] = n
          /\ b = 0
          /\ live' = live \ {p}
       \/ /\ issuance[p] # n
          /\ b > 0
          /\ UNCHANGED live

Trade(p, b) ==
    /\ p \in live
    /\ b > 0
    /\ UNCHANGED <<live, shares, issuance>>

\* A plain transfer of the asset to the account of a pair.
Donate(p, b) ==
    /\ b >= backing[p]
    /\ UNCHANGED <<live, shares, issuance>>

\* A plain transfer of share tokens.
TransferShares(p, from, to, n) ==
    /\ n <= shares[p][from]
    /\ shares' = [shares EXCEPT ![p][from] = @ - n, ![p][to] = @ + n]
    /\ UNCHANGED <<live, backing, issuance>>

AMMInit ==
    /\ live = {}
    /\ backing = [p \in Pairs |-> 0]
    /\ shares = [p \in Pairs |-> [a \in Accounts |-> 0]]
    /\ issuance = [p \in Pairs |-> 0]

AMMNext ==
    \E p \in Pairs, b \in Backings :
        /\ SetBacking(p, b)
        /\ \/ Trade(p, b)
           \/ Donate(p, b)
           \/ \E who \in Accounts, n \in Units :
                 \/ Create(p, who, n, b)
                 \/ Issue(p, who, n, b)
                 \/ Redeem(p, who, n, b)

AMMSpec == AMMInit /\ [][AMMNext]_amm_vars

=============================================================================
