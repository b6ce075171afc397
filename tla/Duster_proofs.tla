--------------------------- MODULE Duster_proofs ---------------------------
(***************************************************************************)
(* Proofs about the duster for every set of accounts, currencies and       *)
(* workers, every reward and all deposits.                                 *)
(***************************************************************************)
EXTENDS Duster, TLAPS

Ledgers == [Accounts -> [Currencies -> Nat]]

\* A transfer of the native currency sweeps what is left of an account, which
\* is free as nothing native is reserved: without this the sweep could take
\* more than there is.
NativeIsFree == \A u \in Accounts : reserved[u][NativeCurrencyId] = 0

IndInv == TypeOK /\ NativeIsFree

-----------------------------------------------------------------------------
\* What moving an amount does to each balance.
LEMMA Moving ==
    ASSUME NEW b \in Ledgers, NEW c \in Currencies, NEW from \in Accounts,
           NEW to \in Accounts, NEW n \in Nat, n <= b[from][c]
    PROVE  /\ Moved(b, c, from, to, n) \in Ledgers
           /\ \A v \in Accounts, d \in Currencies : d # c =>
                 Moved(b, c, from, to, n)[v][d] = b[v][d]
           /\ \A v \in Accounts : v # from => Moved(b, c, from, to, n)[v][c] >= b[v][c]
           /\ from # to => Moved(b, c, from, to, n)[from][c] = b[from][c] - n
<1>1. CASE from = to
  BY <1>1 DEF Moved, Ledgers
<1>2. CASE from # to
  <2> DEFINE m == [b EXCEPT ![from][c] = @ - n, ![to][c] = @ + n]
  <2>1. Moved(b, c, from, to, n) = m
    BY <1>2 DEF Moved
  <2>2. b[from] \in [Currencies -> Nat] /\ b[to] \in [Currencies -> Nat]
    BY DEF Ledgers
  <2>3. m = [v \in Accounts |->
               IF v = to THEN [b[to] EXCEPT ![c] = @ + n]
               ELSE IF v = from THEN [b[from] EXCEPT ![c] = @ - n]
               ELSE b[v]]
    BY <1>2, Zenon DEF Ledgers
  <2>4. b[from][c] - n \in Nat /\ b[to][c] + n \in Nat
    BY <2>2
  <2>5. m \in Ledgers
    BY <2>2, <2>3, <2>4, Zenon DEF Ledgers
  <2>6. \A v \in Accounts, d \in Currencies : d # c => m[v][d] = b[v][d]
    BY <2>2, <2>3, Zenon
  <2>7. m[to][c] = b[to][c] + n /\ m[from][c] = b[from][c] - n
    BY <1>2, <2>2, <2>3
  <2>8. \A v \in Accounts : v # from => m[v][c] >= b[v][c]
    BY <2>2, <2>3, <2>7 DEF Ledgers
  <2> HIDE DEF m
  <2> QED
    BY <2>1, <2>5, <2>6, <2>7, <2>8
<1> QED
  BY <1>1, <1>2

\* on_dust takes from one account only, in one currency, and nothing it lacks.
LEMMA Handling ==
    ASSUME NEW b \in Ledgers, NEW c \in Currencies, NEW u \in Accounts, NEW n \in Nat
    PROVE  /\ on_dust(b, u, c, n) \in Ledgers
           /\ \A v \in Accounts, d \in Currencies : d # c => on_dust(b, u, c, n)[v][d] = b[v][d]
           /\ \A v \in Accounts : v # u => on_dust(b, u, c, n)[v][c] >= b[v][c]
           /\ on_dust(b, u, c, n)[u][c] \in {b[u][c], b[u][c] - n}
<1>1. DustAccount \in Accounts
  BY AccountAssumption
<1>2. CASE CanTransfer(b, c, u, DustAccount, n) /\ u # DustAccount
  <2>1. n <= b[u][c]
    BY <1>2 DEF CanTransfer, Ledgers
  <2> QED
    BY <1>1, <1>2, <2>1, Moving, SMTT(30) DEF on_dust
<1>3. CASE ~(CanTransfer(b, c, u, DustAccount, n) /\ u # DustAccount)
  BY <1>3, SMTT(30) DEF on_dust, Moved, Ledgers
<1> QED
  BY <1>2, <1>3

\* Nothing but the balance of the account that is settled becomes less, by all
\* that was left if that is dust, and that of an account on the blacklist stays.
LEMMA Settling ==
    ASSUME NEW b \in Ledgers, NEW c \in Currencies, NEW u \in Accounts, NEW n \in Nat
    PROVE  /\ Settled(b, u, c, n) \in Ledgers
           /\ \A v \in Accounts, d \in Currencies : d # c => Settled(b, u, c, n)[v][d] = b[v][d]
           /\ \A v \in Accounts : v # u => Settled(b, u, c, n)[v][c] >= b[v][c]
           /\ u \in blacklist => Settled(b, u, c, n) = b
           /\ \/ Settled(b, u, c, n)[u][c] = b[u][c]
              \/ n \in 1 .. min_deposit[c] - 1 /\ Settled(b, u, c, n)[u][c] = b[u][c] - n
<1>1. CASE Settled(b, u, c, n) = b
  BY <1>1 DEF Ledgers
<1>2. CASE /\ Settled(b, u, c, n) = on_dust(b, u, c, n)
           /\ n \in 1 .. min_deposit[c] - 1
           /\ u \notin blacklist
  BY <1>2, Handling, SMTT(30)
<1> QED
  BY <1>1, <1>2 DEF Settled, contains

\* The same for a transfer; an account on the blacklist that sends tokens
\* loses what it sends.
LEMMA Transferring ==
    ASSUME IndInv, NEW b \in Ledgers, NEW c \in Currencies, NEW from \in Accounts,
           NEW to \in Accounts, NEW n \in Nat, CanTransfer(b, c, from, to, n)
    PROVE  /\ Transferred(b, c, from, to, n) \in Ledgers
           /\ \A v \in Accounts, d \in Currencies : d # c =>
                 Transferred(b, c, from, to, n)[v][d] = b[v][d]
           /\ \A v \in Accounts : v # from => Transferred(b, c, from, to, n)[v][c] >= b[v][c]
           /\ from \in blacklist /\ c # NativeCurrencyId /\ n # 0 /\ from # to =>
                 Transferred(b, c, from, to, n)[from][c] = b[from][c] - n
           /\ c # NativeCurrencyId /\ n # 0 /\ from # to =>
                 LET rest == b[from][c] - n + reserved[from][c]
                 IN  \/ Transferred(b, c, from, to, n)[from][c] = b[from][c] - n
                     \/ /\ rest \in 1 .. min_deposit[c] - 1
                        /\ Transferred(b, c, from, to, n)[from][c] = b[from][c] - n - rest
<1> DEFINE m == Moved(b, c, from, to, n)
           left == Total(m, from, c)
<1>1. CASE n = 0 \/ from = to
  BY <1>1, SMTT(30) DEF Transferred, Ledgers
<1>2. CASE n # 0 /\ from # to
  <2>1. n <= b[from][c]
    BY <1>2 DEF CanTransfer, Ledgers
  <2>2. /\ m \in Ledgers
        /\ \A v \in Accounts, d \in Currencies : d # c => m[v][d] = b[v][d]
        /\ \A v \in Accounts : v # from => m[v][c] >= b[v][c]
        /\ m[from][c] = b[from][c] - n
    BY <1>2, <2>1, Moving
  <2> HIDE DEF m
  <2>3. /\ m[from][c] \in Nat
        /\ reserved[from][c] \in Nat
        /\ left \in Nat
    BY <2>2, SMTT(30) DEF Total, IndInv, TypeOK, Ledgers
  <2>4. CASE c # NativeCurrencyId
    <3>1. PICK t : t = Settled(m, from, c, left) /\ t = Transferred(b, c, from, to, n)
      BY <1>2, <2>4, SMTT(30) DEF Transferred, m
    <3> HIDE DEF left
    <3>2. /\ t \in Ledgers
          /\ \A v \in Accounts, d \in Currencies : d # c => t[v][d] = m[v][d]
          /\ \A v \in Accounts : v # from => t[v][c] >= m[v][c]
          /\ from \in blacklist => t = m
          /\ \/ t[from][c] = m[from][c]
             \/ left \in 1 .. min_deposit[c] - 1 /\ t[from][c] = m[from][c] - left
      <4>1. /\ Settled(m, from, c, left) \in Ledgers
            /\ \A v \in Accounts, d \in Currencies : d # c =>
                  Settled(m, from, c, left)[v][d] = m[v][d]
            /\ \A v \in Accounts : v # from => Settled(m, from, c, left)[v][c] >= m[v][c]
            /\ from \in blacklist => Settled(m, from, c, left) = m
            /\ \/ Settled(m, from, c, left)[from][c] = m[from][c]
               \/ /\ left \in 1 .. min_deposit[c] - 1
                  /\ Settled(m, from, c, left)[from][c] = m[from][c] - left
        BY <2>2, <2>3, Settling, SMTT(30)
      <4> QED
        BY <3>1, <4>1, ZenonT(40)
    <3>3. left = b[from][c] - n + reserved[from][c]
      BY <2>2 DEF left, Total
    <3>4. /\ \A v \in Accounts, d \in Currencies : d # c => t[v][d] = b[v][d]
          /\ from \in blacklist => t[from][c] = b[from][c] - n
      <4>1. ASSUME NEW v \in Accounts, NEW d \in Currencies, d # c
            PROVE  t[v][d] = b[v][d]
        BY <2>2, <3>2, <4>1, SMTT(30)
      <4>2. from \in blacklist => t[from][c] = b[from][c] - n
        BY <2>2, <3>2, SMTT(30)
      <4> QED
        BY <4>1, <4>2, Zenon
    <3>5. \A v \in Accounts : v # from => t[v][c] >= b[v][c]
      BY <2>2, <3>2, SMTT(30) DEF Ledgers
    <3>6. LET rest == b[from][c] - n + reserved[from][c]
          IN  \/ t[from][c] = b[from][c] - n
              \/ rest \in 1 .. min_deposit[c] - 1 /\ t[from][c] = b[from][c] - n - rest
      BY <2>2, <3>2, <3>3, Zenon
    <3> QED
      BY <3>1, <3>2, <3>4, <3>5, <3>6, ZenonT(40)
  <2>5. CASE c = NativeCurrencyId
    <3>1. left = m[from][c]
      BY <2>3, <2>5 DEF Total, IndInv, NativeIsFree
    <3>2. Treasury \in Accounts
      BY AccountAssumption
    <3> HIDE DEF left
    <3> DEFINE s == Moved(m, c, from, Treasury, left)
    <3>3. Transferred(b, c, from, to, n) = s \/ Transferred(b, c, from, to, n) = m
      BY <1>2, <2>5 DEF Transferred, m, left
    <3>4. left <= m[from][c]
      BY <2>3, <3>1
    <3>5. /\ s \in Ledgers
          /\ \A v \in Accounts, d \in Currencies : d # c => s[v][d] = m[v][d]
          /\ \A v \in Accounts : v # from => s[v][c] >= m[v][c]
      BY <2>2, <2>3, <3>2, <3>4, Moving, SMTT(30)
    <3> QED
      BY <2>2, <2>5, <3>3, <3>5 DEF Ledgers
  <2> QED
    BY <2>4, <2>5
<1> QED
  BY <1>1, <1>2

\* The reward touches the native currency alone.
LEMMA Rewarding ==
    ASSUME IndInv, NEW b \in Ledgers, NEW who \in Accounts
    PROVE  /\ Rewarded(b, who) \in Ledgers
           /\ \A v \in Accounts, d \in Currencies : d # NativeCurrencyId =>
                 Rewarded(b, who)[v][d] = b[v][d]
<1>1. NativeCurrencyId \in Currencies /\ RewardAccount \in Accounts /\ Reward \in Nat
  BY AccountAssumption, CurrencyAssumption, AmountAssumption
<1>2. CASE CanTransfer(b, NativeCurrencyId, RewardAccount, who, Reward)
  BY <1>1, <1>2, Transferring DEF Rewarded
<1>3. CASE ~CanTransfer(b, NativeCurrencyId, RewardAccount, who, Reward)
  BY <1>3 DEF Rewarded
<1> QED
  BY <1>2, <1>3

\* A call that succeeds is for an account off the blacklist, and takes tokens
\* from that account only.
LEMMA Dusting ==
    ASSUME IndInv, NEW who \in Workers, NEW u \in Accounts, NEW c \in Currencies,
           dust_account(who, u, c)
    PROVE  /\ free' \in Ledgers
           /\ u \notin blacklist
           /\ \A v \in Accounts, d \in Currencies \ {NativeCurrencyId} :
                 v # u \/ d # c => free'[v][d] >= free[v][d]
<1> DEFINE n == Total(free, u, c)
           t == Transferred(free, c, u, DustAccount, n)
<1>1. free \in Ledgers /\ reserved \in Ledgers
  BY DEF IndInv, TypeOK, Ledgers
<1>2. n \in Nat
  BY <1>1 DEF Total, Ledgers
<1>3. DustAccount \in Accounts /\ who \in Accounts
  BY AccountAssumption
<1>4. CanTransfer(free, c, u, DustAccount, n) /\ u \notin blacklist
  BY DEF dust_account, DustSucceeds, CanDust
<1>5. free' = Rewarded(t, who)
  BY SMTT(30) DEF dust_account
<1> HIDE DEF n
<1>6. /\ t \in Ledgers
      /\ \A v \in Accounts, d \in Currencies : d # c => t[v][d] = free[v][d]
      /\ \A v \in Accounts : v # u => t[v][c] >= free[v][c]
  BY <1>1, <1>2, <1>3, <1>4, Transferring
<1> HIDE DEF t
<1>7. /\ Rewarded(t, who) \in Ledgers
      /\ \A v \in Accounts, d \in Currencies : d # NativeCurrencyId =>
            Rewarded(t, who)[v][d] = t[v][d]
  BY <1>3, <1>6, Rewarding
<1>8. ASSUME NEW v \in Accounts, NEW d \in Currencies \ {NativeCurrencyId}, v # u \/ d # c
      PROVE  free'[v][d] >= free[v][d]
  <2>1. free'[v][d] = t[v][d]
    BY <1>5, <1>7
  <2>2. t[v][d] \in Nat /\ free[v][d] \in Nat
    BY <1>1, <1>6 DEF Ledgers
  <2> QED
    BY <1>6, <1>8, <2>1, <2>2
<1> QED
  BY <1>4, <1>5, <1>7, <1>8

\* A call that succeeds was for dust, and empties the account (the dust account
\* itself keeps what it has).
LEMMA Emptying ==
    ASSUME IndInv, NEW w \in Workers, NEW u \in Accounts,
           NEW c \in Currencies \ {NativeCurrencyId}, dust_account(w, u, c)
    PROVE  /\ Total(free, u, c) > 0
           /\ Total(free, u, c) < min_deposit[c]
           /\ u # DustAccount => Total(free, u, c)' = 0
           /\ u = DustAccount => Total(free, u, c)' = Total(free, u, c)
<1>1. /\ free \in Ledgers /\ reserved \in Ledgers
      /\ DustAccount \in Accounts /\ w \in Accounts
  BY AccountAssumption DEF IndInv, TypeOK, Ledgers
<1>2. free[u][c] \in Nat /\ reserved[u][c] \in Nat
  BY <1>1 DEF Ledgers
<1>3. PICK n : n = Total(free, u, c)
  BY Zenon
<1>4. n = free[u][c] + reserved[u][c] /\ n \in Nat
  BY <1>2, <1>3, SMTT(30) DEF Total
<1>5. n # 0 /\ n < min_deposit[c] /\ CanTransfer(free, c, u, DustAccount, n)
  BY <1>3, Zenon DEF dust_account, DustSucceeds, CanDust, is_dustable
<1>6. PICK t : t = Transferred(free, c, u, DustAccount, n)
  BY Zenon
<1>7. free' = Rewarded(t, w) /\ reserved' = reserved
  BY <1>3, <1>6, Zenon DEF dust_account
<1>8. t \in Ledgers
  <2>1. c \in Currencies
    OBVIOUS
  <2> QED
    BY <1>1, <1>4, <1>5, <1>6, <2>1, Transferring, Zenon
<1>9. free'[u][c] = t[u][c]
  <2>1. c \in Currencies /\ c # NativeCurrencyId
    OBVIOUS
  <2>2. \A v \in Accounts, d \in Currencies : d # NativeCurrencyId =>
            Rewarded(t, w)[v][d] = t[v][d]
    BY <1>1, <1>8, Rewarding
  <2>3. Rewarded(t, w)[u][c] = t[u][c]
    BY <2>1, <2>2, Zenon
  <2> QED
    BY <1>7, <2>3, Zenon
<1>10. Total(free, u, c)' = t[u][c] + reserved[u][c]
  BY <1>7, <1>9, ZenonT(40) DEF Total
<1>11. CASE u = DustAccount
  <2>1. t = free
    BY <1>6, <1>11, ZenonT(40) DEF Transferred
  <2> QED
    BY <1>3, <1>4, <1>5, <1>10, <1>11, <2>1, SMTT(30)
<1>12. CASE u # DustAccount
  <2>1. free[u][c] >= n
    BY <1>5, <1>12, Zenon DEF CanTransfer
  <2>2. reserved[u][c] = 0 /\ n = free[u][c]
    BY <1>2, <1>4, <2>1, SMTT(30)
  <2>3. PICK m : m = Moved(free, c, u, DustAccount, n)
    BY ZenonT(40)
  <2>4. m[u][c] = 0
    BY <1>1, <1>2, <1>4, <1>12, <2>2, <2>3, Moving, SMTT(30)
  <2>5. Total(m, u, c) = 0
    BY <2>2, <2>4, SMTT(30) DEF Total
  <2>6. Settled(m, u, c, 0) = m
    BY SMTT(30) DEF Settled
  <2>7. t = m
    BY <1>5, <1>6, <1>12, <2>3, <2>5, <2>6, Zenon DEF Transferred
  <2> QED
    BY <1>3, <1>4, <1>5, <1>10, <1>12, <2>2, <2>4, <2>7, SMTT(30)
<1> QED
  BY <1>11, <1>12

\* A transfer keeps the ledger, and takes tokens from the sender only: from one
\* on the blacklist what it sends.
LEMMA Sending ==
    ASSUME IndInv, NEW from \in Accounts, NEW to \in Accounts, NEW c \in Currencies,
           NEW n \in Amounts, Transfer(from, to, c, n)
    PROVE  /\ free' \in Ledgers
           /\ \A v \in Accounts, d \in Currencies :
                 v # from \/ d # c => free'[v][d] >= free[v][d]
           /\ from \in blacklist /\ c # NativeCurrencyId => free'[from][c] = free[from][c] - n
           /\ c # NativeCurrencyId =>
                 \/ Total(free, from, c)' = Total(free, from, c) - n
                 \/ Total(free, from, c)' = 0 /\ Total(free, from, c) - n < min_deposit[c]
<1>1. free \in Ledgers /\ reserved \in Ledgers
  BY DEF IndInv, TypeOK, Ledgers
<1>2. n \in Nat
  BY AmountAssumption
<1>3. /\ CanTransfer(free, c, from, to, n)
      /\ from # to
      /\ free' = Transferred(free, c, from, to, n)
  BY SMTT(30) DEF Transfer
<1>4. /\ free' \in Ledgers
      /\ \A v \in Accounts, d \in Currencies : d # c => free'[v][d] = free[v][d]
      /\ \A v \in Accounts : v # from => free'[v][c] >= free[v][c]
      /\ from \in blacklist /\ c # NativeCurrencyId /\ n # 0 =>
            free'[from][c] = free[from][c] - n
  BY <1>1, <1>2, <1>3, Transferring
<1>5. n = 0 => free' = free
  BY <1>3 DEF Transferred
<1>6. ASSUME c # NativeCurrencyId
      PROVE  \/ Total(free, from, c)' = Total(free, from, c) - n
             \/ Total(free, from, c)' = 0 /\ Total(free, from, c) - n < min_deposit[c]
  <2>1. reserved' = reserved
    BY DEF Transfer
  <2>2. /\ free[from][c] \in Nat /\ reserved[from][c] \in Nat /\ free'[from][c] \in Nat
        /\ min_deposit[c] \in Nat
    BY <1>1, <1>4, SMTT(30) DEF IndInv, TypeOK, Ledgers
  <2>3. n # 0 =>
          LET rest == free[from][c] - n + reserved[from][c]
          IN  \/ free'[from][c] = free[from][c] - n
              \/ /\ rest \in 1 .. min_deposit[c] - 1
                 /\ free'[from][c] = free[from][c] - n - rest
    BY <1>1, <1>2, <1>3, <1>6, Transferring, SMTT(30)
  <2>4. /\ Total(free, from, c) = free[from][c] + reserved[from][c]
        /\ Total(free, from, c)' = free'[from][c] + reserved[from][c]
    BY <2>1, SMTT(30) DEF Total
  <2>5. CASE n = 0 \/ free'[from][c] = free[from][c] - n
    <3>1. free'[from][c] = free[from][c] - n
      BY <1>5, <2>2, <2>5, SMTT(30)
    <3> QED
      BY <1>2, <2>2, <2>4, <3>1, SMTT(30)
  <2>6. CASE n # 0 /\ free'[from][c] # free[from][c] - n
    <3>1. /\ free[from][c] - n + reserved[from][c] \in 1 .. min_deposit[c] - 1
          /\ free'[from][c] = free[from][c] - n - (free[from][c] - n + reserved[from][c])
      BY <2>3, <2>6, Zenon
    <3>2. ASSUME NEW x \in Nat, NEW y \in Nat, NEW z \in Nat, NEW d \in Nat,
                 x - n + y \in 1 .. d - 1, z = x - n - (x - n + y)
          PROVE  z + y = 0 /\ (x + y) - n < d
      BY <1>2, <3>2
    <3>3. /\ free'[from][c] + reserved[from][c] = 0
          /\ (free[from][c] + reserved[from][c]) - n < min_deposit[c]
      BY <2>2, <3>1, <3>2, Zenon
    <3> QED
      BY <2>4, <3>3, Zenon
  <2> QED
    BY <2>5, <2>6
<1>7. \A v \in Accounts, d \in Currencies : v # from \/ d # c => free'[v][d] >= free[v][d]
  <2> SUFFICES ASSUME NEW v \in Accounts, NEW d \in Currencies, v # from \/ d # c
               PROVE  free'[v][d] >= free[v][d]
    OBVIOUS
  <2>1. free[v][d] \in Nat
    BY <1>1 DEF Ledgers
  <2>2. CASE d # c
    <3>1. free'[v][d] = free[v][d]
      BY <1>4, <2>2, Zenon
    <3> QED
      BY <2>1, <3>1, SMTT(30)
  <2>3. CASE d = c
    BY <1>4, <2>3, Zenon
  <2> QED
    BY <2>2, <2>3
<1>8. from \in blacklist /\ c # NativeCurrencyId => free'[from][c] = free[from][c] - n
  BY <1>1, <1>2, <1>4, <1>5, SMTT(30) DEF Ledgers
<1> QED
  BY <1>4, <1>6, <1>7, <1>8, Zenon

\* A reservation, or its end, takes nothing from an account on the blacklist, and
\* from any other only all it has, if that is dust.
LEMMA Reserving ==
    ASSUME IndInv, NEW u \in Accounts, NEW c \in Currencies, NEW n \in Amounts,
           Reserve(u, c, n) \/ Unreserve(u, c, n)
    PROVE  /\ free' \in Ledgers
           /\ reserved' \in Ledgers
           /\ NativeIsFree'
           /\ \A v \in blacklist, d \in Currencies :
                 Total(free, v, d)' >= Total(free, v, d)
           /\ \A v \in Accounts, d \in Currencies :
                 \/ Total(free, v, d)' >= Total(free, v, d)
                 \/ Total(free, v, d)' = 0 /\ Total(free, v, d) < min_deposit[d]
<1>1. free \in Ledgers /\ reserved \in Ledgers /\ blacklist \subseteq Accounts
  BY DEF IndInv, TypeOK, Ledgers
<1>2. n \in Nat
  BY AmountAssumption, SMTT(30)
<1>3. PICK k \in Int :
        /\ free[u][c] + k \in Nat
        /\ reserved[u][c] - k \in Nat
        /\ free' = Settled([free EXCEPT ![u][c] = @ + k], u, c, Total(free, u, c))
        /\ reserved' = [reserved EXCEPT ![u][c] = @ - k]
  <2>1. CASE Reserve(u, c, n)
    <3>1. free[u][c] \in Nat /\ reserved[u][c] \in Nat
      BY <1>1 DEF Ledgers
    <3>2. free[u][c] - n = free[u][c] + (-n) /\ reserved[u][c] + n = reserved[u][c] - (-n)
      BY <1>2, <3>1
    <3>3. [free EXCEPT ![u][c] = @ - n] = [free EXCEPT ![u][c] = @ + (-n)]
      BY <3>2, Zenon
    <3>4. [reserved EXCEPT ![u][c] = @ + n] = [reserved EXCEPT ![u][c] = @ - (-n)]
      BY <3>2, ZenonT(40)
    <3>5. free[u][c] + (-n) \in Nat /\ reserved[u][c] - (-n) \in Nat
      BY <1>2, <2>1, <3>1, SMTT(30) DEF Reserve
    <3>6. /\ free' = Settled([free EXCEPT ![u][c] = @ + (-n)], u, c, Total(free, u, c))
          /\ reserved' = [reserved EXCEPT ![u][c] = @ - (-n)]
      BY <2>1, <3>3, <3>4 DEF Reserve
    <3>7. -n \in Int
      BY <1>2
    <3> QED
      BY <3>5, <3>6, <3>7, Zenon
  <2>2. CASE Unreserve(u, c, n)
    <3>1. free[u][c] \in Nat /\ reserved[u][c] \in Nat
      BY <1>1 DEF Ledgers
    <3>2. free[u][c] + n \in Nat /\ reserved[u][c] - n \in Nat
      BY <1>2, <2>2, <3>1, SMTT(30) DEF Unreserve
    <3>3. /\ free' = Settled([free EXCEPT ![u][c] = @ + n], u, c, Total(free, u, c))
          /\ reserved' = [reserved EXCEPT ![u][c] = @ - n]
      BY <2>2 DEF Unreserve
    <3>4. n \in Int
      BY <1>2
    <3> QED
      BY <3>2, <3>3, <3>4, ZenonT(40)
  <2> QED
    BY <2>1, <2>2
<1> DEFINE f == [free EXCEPT ![u][c] = @ + k]
           n0 == Total(free, u, c)
<1>4. free[u] \in [Currencies -> Nat] /\ reserved[u] \in [Currencies -> Nat]
  BY <1>1 DEF Ledgers
<1>5. f = [free EXCEPT ![u] = [free[u] EXCEPT ![c] = @ + k]]
  BY SMTT(30)
<1>6. f \in Ledgers
  BY <1>1, <1>3, <1>4, <1>5, SMTT(30) DEF Ledgers
<1>7. reserved' \in Ledgers
  BY <1>1, <1>3, <1>4 DEF Ledgers
<1>8. n0 \in Nat
  BY <1>1 DEF Total, Ledgers
<1>9. c # NativeCurrencyId
  BY DEF Reserve, Unreserve
<1>10. NativeIsFree'
  <2> SUFFICES ASSUME NEW v \in Accounts
               PROVE  reserved'[v][NativeCurrencyId] = 0
    BY SMTT(30) DEF NativeIsFree
  <2>1. reserved[v][NativeCurrencyId] = 0 /\ NativeCurrencyId \in Currencies
    BY CurrencyAssumption, SMTT(30) DEF IndInv, NativeIsFree
  <2> QED
    BY <1>1, <1>3, <1>4, <1>9, <2>1, SMTT(30) DEF Ledgers
<1> HIDE DEF f, n0
<1>11. /\ Settled(f, u, c, n0) \in Ledgers
       /\ \A v \in Accounts, d \in Currencies : d # c => Settled(f, u, c, n0)[v][d] = f[v][d]
       /\ \A v \in Accounts : v # u => Settled(f, u, c, n0)[v][c] >= f[v][c]
       /\ u \in blacklist => Settled(f, u, c, n0) = f
       /\ \/ Settled(f, u, c, n0)[u][c] = f[u][c]
          \/ n0 \in 1 .. min_deposit[c] - 1 /\ Settled(f, u, c, n0)[u][c] = f[u][c] - n0
  BY <1>6, <1>8, Settling
<1>12. free' = Settled(f, u, c, n0)
  BY <1>3, SMTT(30) DEF f, n0
<1>13. ASSUME NEW v \in Accounts, NEW d \in Currencies
       PROVE  /\ \/ free'[v][d] + reserved'[v][d] >= free[v][d] + reserved[v][d]
                 \/ /\ free'[v][d] + reserved'[v][d] = 0
                    /\ free[v][d] + reserved[v][d] < min_deposit[d]
              /\ v \in blacklist =>
                    free'[v][d] + reserved'[v][d] >= free[v][d] + reserved[v][d]
  <2>1. /\ free[v][d] \in Nat /\ reserved[v][d] \in Nat
        /\ free'[v][d] \in Nat /\ reserved'[v][d] \in Nat /\ f[v][d] \in Nat
        /\ min_deposit[d] \in Nat
    BY <1>1, <1>6, <1>7, <1>11, <1>12 DEF IndInv, TypeOK, Ledgers
  <2>2. CASE v = u /\ d = c
    <3>1. f[u][c] = free[u][c] + k /\ reserved'[u][c] = reserved[u][c] - k
      BY <1>1, <1>3, <1>4, <1>5, SMTT(30) DEF Ledgers
    <3>2. n0 = free[u][c] + reserved[u][c]
      BY DEF n0, Total
    <3>3. /\ u \in blacklist => free'[u][c] = f[u][c]
          /\ \/ free'[u][c] = f[u][c]
             \/ n0 \in 1 .. min_deposit[c] - 1 /\ free'[u][c] = f[u][c] - n0
      BY <1>11, <1>12, ZenonT(40)
    <3>4. CASE free'[u][c] = f[u][c]
      BY <1>3, <2>1, <2>2, <3>1, <3>4, SMTT(30)
    <3>5. CASE n0 \in 1 .. min_deposit[c] - 1 /\ free'[u][c] = f[u][c] - n0 /\ u \notin blacklist
      <4>1. n0 < min_deposit[c]
        BY <2>1, <2>2, <3>5, SMTT(30)
      <4>2. free'[u][c] + reserved'[u][c] = 0
        BY <1>3, <2>1, <2>2, <3>1, <3>2, <3>5, SMTT(30)
      <4> QED
        BY <2>2, <3>2, <3>5, <4>1, <4>2, ZenonT(40)
    <3> QED
      BY <3>3, <3>4, <3>5, ZenonT(40)
  <2>3. CASE ~(v = u /\ d = c)
    <3>1. f[v][d] = free[v][d] /\ reserved'[v][d] = reserved[v][d]
      BY <1>1, <1>3, <1>4, <1>5, <2>3, SMTT(30) DEF Ledgers
    <3>2. free'[v][d] >= f[v][d]
      BY <1>11, <1>12, <2>1, <2>3
    <3> QED
      BY <2>1, <3>1, <3>2, SMTT(30)
  <2> QED
    BY <2>2, <2>3, SMTT(30)
<1> QED
  BY <1>1, <1>7, <1>10, <1>11, <1>12, <1>13 DEF Total

-----------------------------------------------------------------------------
\* What Next can be, the alternatives named once for the proofs below.
LEMMA Steps ==
    ASSUME Next
    PROVE  \/ \E w \in Workers, u \in Accounts, c \in Currencies :
                 dust_account(w, u, c) /\ (UNCHANGED pending \/ Execute(w, u, c))
           \/ \E u \in Accounts : add_nondustable_account(u) \/ remove_nondustable_account(u)
           \/ \E w \in Workers : offchain_worker(w) \/ RunEnds(w)
           \/ \E w \in Workers, u \in Accounts, c \in Currencies :
                 \/ dust_account_signed(w, u, c)
                 \/ SubmissionFails(w, u, c)
                 \/ Execute(w, u, c) /\ UNCHANGED <<chain_vars, found>>
                 \/ Drop(w, u, c)
           \/ \E from, to \in Accounts, c \in Currencies, n \in Amounts : Transfer(from, to, c, n)
           \/ \E u \in Accounts, c \in Currencies, n \in Amounts :
                 Reserve(u, c, n) \/ Unreserve(u, c, n)
           \/ \E c \in Currencies : \E deposit \in Deposits[c] : SetDeposit(c, deposit)
  BY ZenonT(40) DEF Next, Execute

\* The invariant is inductive.
LEMMA Induction ==
    IndInv /\ [Next]_vars => IndInv'
<1> SUFFICES ASSUME IndInv, [Next]_vars
             PROVE  IndInv'
  OBVIOUS
<1> DEFINE Tokens == Currencies \ {NativeCurrencyId}
           Rest == /\ blacklist' \subseteq Accounts
                   /\ min_deposit' \in [Currencies -> Nat]
                   /\ found' \in [Workers -> SUBSET (Accounts \X Tokens)]
                   /\ pending' \subseteq Workers \X Accounts \X Tokens
<1>1. /\ free \in Ledgers /\ reserved \in Ledgers
      /\ blacklist \subseteq Accounts
      /\ min_deposit \in [Currencies -> Nat]
      /\ found \in [Workers -> SUBSET (Accounts \X Tokens)]
      /\ pending \subseteq Workers \X Accounts \X Tokens
      /\ NativeIsFree
  BY DEF IndInv, TypeOK, Ledgers
<1>2. ASSUME free' \in Ledgers, reserved' \in Ledgers, NativeIsFree', Rest
      PROVE  IndInv'
  BY <1>2, SMTT(30) DEF IndInv, TypeOK, Ledgers
<1>3. ASSUME UNCHANGED reserved
      PROVE  reserved' \in Ledgers /\ NativeIsFree'
  BY <1>1, <1>3 DEF NativeIsFree
<1> HIDE DEF Tokens
<1>4. CASE UNCHANGED vars
  BY <1>1, <1>2, <1>3, <1>4 DEF vars
<1>5. ASSUME NEW w \in Workers, NEW u \in Accounts, NEW c \in Currencies,
             dust_account(w, u, c), UNCHANGED pending \/ Execute(w, u, c)
      PROVE  IndInv'
  <2>1. free' \in Ledgers
    BY <1>5, Dusting, SMTT(30)
  <2>2. UNCHANGED <<reserved, blacklist, min_deposit, found>> /\ pending' \subseteq pending
    BY <1>5 DEF dust_account, Execute
  <2> QED
    BY <1>1, <1>2, <1>3, <2>1, <2>2, SMTT(30)
<1>6. ASSUME NEW u \in Accounts, add_nondustable_account(u) \/ remove_nondustable_account(u)
      PROVE  IndInv'
  <2>1. UNCHANGED <<free, reserved, min_deposit, found, pending>> /\ blacklist' \subseteq Accounts
    BY <1>1, <1>6 DEF add_nondustable_account, remove_nondustable_account
  <2> QED
    BY <1>1, <1>2, <1>3, <2>1
<1>7. ASSUME NEW w \in Workers, offchain_worker(w) \/ RunEnds(w)
      PROVE  IndInv'
  <2>1. UNCHANGED <<free, reserved, blacklist, min_deposit, pending>>
    BY <1>7 DEF offchain_worker, RunEnds, chain_vars
  <2>2. Seen \subseteq Accounts \X Tokens
    BY DEF Seen, Tokens
  <2>3. found' \in [Workers -> SUBSET (Accounts \X Tokens)]
    BY <1>1, <1>7, <2>2 DEF offchain_worker, RunEnds
  <2> QED
    BY <1>1, <1>2, <1>3, <2>1, <2>3
<1>8. ASSUME NEW w \in Workers, NEW u \in Accounts, NEW c \in Currencies,
             \/ dust_account_signed(w, u, c)
             \/ SubmissionFails(w, u, c)
             \/ Execute(w, u, c) /\ UNCHANGED <<chain_vars, found>>
             \/ Drop(w, u, c)
      PROVE  IndInv'
  <2>1. UNCHANGED <<free, reserved, blacklist, min_deposit>>
    BY <1>8 DEF dust_account_signed, SubmissionFails, Iterate, Drop, chain_vars
  <2>2. CASE Iterate(w, u, c) /\ pending' \subseteq pending \cup {<<w, u, c>>}
    <3>1. <<u, c>> \in Accounts \X Tokens
      BY <1>1, <2>2 DEF Iterate
    <3>2. c \in Tokens
      BY <3>1
    <3>3. found' \in [Workers -> SUBSET (Accounts \X Tokens)]
      BY <1>1, <2>2 DEF Iterate
    <3>4. pending' \subseteq Workers \X Accounts \X Tokens
      BY <1>1, <2>2, <3>2, SMTT(30)
    <3> QED
      BY <1>1, <1>2, <1>3, <2>1, <3>3, <3>4
  <2>3. CASE UNCHANGED found /\ pending' \subseteq pending
    BY <1>1, <1>2, <1>3, <2>1, <2>3, SMTT(30)
  <2> QED
    BY <1>8, <2>2, <2>3, SMTT(30) DEF dust_account_signed, SubmissionFails, Execute, Drop
<1>9. ASSUME NEW from \in Accounts, NEW to \in Accounts, NEW c \in Currencies, NEW n \in Amounts,
             Transfer(from, to, c, n)
      PROVE  IndInv'
  <2>1. free' \in Ledgers
    BY <1>9, Sending
  <2>2. UNCHANGED <<reserved, blacklist, min_deposit, found, pending>>
    BY <1>9 DEF Transfer
  <2> QED
    BY <1>1, <1>2, <1>3, <2>1, <2>2, SMTT(30)
<1>10. ASSUME NEW u \in Accounts, NEW c \in Currencies, NEW n \in Amounts,
              Reserve(u, c, n) \/ Unreserve(u, c, n)
       PROVE  IndInv'
  <2>1. free' \in Ledgers /\ reserved' \in Ledgers /\ NativeIsFree'
    BY <1>10, Reserving, SMTT(30)
  <2>2. UNCHANGED <<blacklist, min_deposit, found, pending>>
    BY <1>10, SMTT(30) DEF Reserve, Unreserve
  <2> QED
    BY <1>1, <1>2, <2>1, <2>2, SMTT(30)
<1>11. ASSUME NEW c \in Currencies, NEW deposit \in Deposits[c], SetDeposit(c, deposit)
       PROVE  IndInv'
  <2>1. deposit \in Nat
    BY CurrencyAssumption
  <2>2. min_deposit' \in [Currencies -> Nat]
    BY <1>1, <1>11, <2>1, SMTT(30) DEF SetDeposit
  <2>3. UNCHANGED <<free, reserved, blacklist, found, pending>>
    BY <1>11 DEF SetDeposit
  <2> QED
    BY <1>1, <1>2, <1>3, <2>2, <2>3
<1> QED
  BY <1>4, <1>5, <1>6, <1>7, <1>8, <1>9, <1>10, <1>11, Steps

\* It holds at genesis.
LEMMA Initially == Init => IndInv
  BY AccountAssumption, CurrencyAssumption, AmountAssumption
  DEF Init, IndInv, TypeOK, NativeIsFree

\* The type invariant: no sequence of calls, transfers and handlers takes more
\* than an account has.
THEOREM TypeCorrectness == Spec => []TypeOK
<1>1. IndInv => TypeOK
  BY SMTT(30) DEF IndInv
<1> QED
  BY <1>1, Initially, Induction, PTL DEF Spec

\* An account on the blacklist loses tokens by its own transfers only, whatever
\* calls are pending and whichever way dust is moved.
THEOREM Protection == Spec => BlacklistedAreNotDusted
<1>1. ASSUME IndInv, [Next]_vars, NEW u \in blacklist, NEW c \in Currencies \ {NativeCurrencyId},
             Total(free, u, c)' < Total(free, u, c)
      PROVE  \E to \in Accounts, amount \in Amounts :
                 Transfer(u, to, c, amount) /\ free'[u][c] = free[u][c] - amount
  <2> USE <1>1
  <2>1. /\ free \in Ledgers /\ reserved \in Ledgers /\ free' \in Ledgers /\ reserved' \in Ledgers
        /\ u \in Accounts
    BY Induction, SMTT(30) DEF IndInv, TypeOK, Ledgers
  <2>2. /\ free[u][c] \in Nat /\ reserved[u][c] \in Nat
        /\ free'[u][c] \in Nat /\ reserved'[u][c] \in Nat
    BY <2>1, SMTT(30) DEF Ledgers
  <2>3. free'[u][c] + reserved'[u][c] < free[u][c] + reserved[u][c]
    BY SMTT(30) DEF Total
  <2>4. ASSUME UNCHANGED reserved PROVE free'[u][c] < free[u][c]
    BY <2>2, <2>3, <2>4, SMTT(30)
  <2>5. ~UNCHANGED <<free, reserved>>
    BY <2>2, <2>3, SMTT(30)
  <2>6. ASSUME NEW w \in Workers, NEW v \in Accounts, NEW d \in Currencies, dust_account(w, v, d)
        PROVE  FALSE
    <3>1. v \notin blacklist /\ (u # v => free'[u][c] >= free[u][c])
      BY <2>1, <2>6, Dusting, SMTT(30)
    <3>2. UNCHANGED reserved
      BY <2>6, SMTT(30) DEF dust_account
    <3> QED
      BY <2>2, <2>4, <3>1, <3>2, SMTT(30)
  <2>7. ASSUME NEW from \in Accounts, NEW to \in Accounts, NEW d \in Currencies, NEW n \in Amounts,
               Transfer(from, to, d, n)
        PROVE  from = u /\ d = c /\ free'[u][c] = free[u][c] - n
    <3>1. /\ u # from \/ c # d => free'[u][c] >= free[u][c]
          /\ from \in blacklist /\ d # NativeCurrencyId => free'[from][d] = free[from][d] - n
      BY <2>1, <2>7, Sending, SMTT(30)
    <3>2. UNCHANGED reserved
      BY <2>7, SMTT(30) DEF Transfer
    <3> QED
      BY <2>2, <2>4, <3>1, <3>2, SMTT(30)
  <2>8. ASSUME NEW v \in Accounts, NEW d \in Currencies, NEW n \in Amounts,
               Reserve(v, d, n) \/ Unreserve(v, d, n)
        PROVE  FALSE
    <3>1. Total(free, u, c)' >= Total(free, u, c)
      BY <2>8, Reserving
    <3> QED
      BY <2>2, <2>3, <3>1, SMTT(30) DEF Total
  <2>9. \E from, to \in Accounts, d \in Currencies, n \in Amounts : Transfer(from, to, d, n)
    BY <2>5, <2>6, <2>8, Steps, ZenonT(40)
    DEF vars, chain_vars, add_nondustable_account, remove_nondustable_account, offchain_worker,
        RunEnds, dust_account_signed, SubmissionFails, Iterate, Drop, SetDeposit
  <2> QED
    BY <2>7, <2>9, SMTT(30)
<1>2. IndInv /\ [Next]_vars =>
        [\A u \in blacklist, c \in Currencies \ {NativeCurrencyId} :
            Total(free, u, c)' < Total(free, u, c) =>
                \E to \in Accounts, amount \in Amounts :
                    /\ Transfer(u, to, c, amount)
                    /\ free'[u][c] = free[u][c] - amount]_vars
  BY <1>1
<1> QED
  BY <1>2, Initially, Induction, PTL DEF Spec, BlacklistedAreNotDusted

\* A call out of the pool is paid for only if it has emptied the account.
THEOREM HonestReward == Spec => NoRewardForNothing
<1>1. ASSUME IndInv, NEW w \in Workers, NEW u \in Accounts \ {DustAccount},
             NEW c \in Currencies \ {NativeCurrencyId}, Execute(w, u, c),
             free'[RewardAccount][NativeCurrencyId] < free[RewardAccount][NativeCurrencyId]
      PROVE  Total(free, u, c) > 0 /\ Total(free, u, c)' = 0
  <2> USE <1>1
  <2>1. /\ free \in Ledgers /\ reserved \in Ledgers
        /\ DustAccount \in Accounts /\ RewardAccount \in Accounts /\ w \in Accounts
        /\ NativeCurrencyId \in Currencies
    BY AccountAssumption, CurrencyAssumption DEF IndInv, TypeOK, Ledgers
  <2>2. free[RewardAccount][NativeCurrencyId] \in Nat /\ free[u][c] \in Nat /\ reserved[u][c] \in Nat
    BY <2>1 DEF Ledgers
  <2>3. dust_account(w, u, c)
    <3>1. free' # free
      BY <2>2, SMTT(30)
    <3> QED
      BY <3>1, ZenonT(40) DEF Execute, chain_vars
  <2> QED
    BY <2>3, Emptying, Zenon
<1>2. IndInv /\ [Next]_vars =>
        [\A w \in Workers, u \in Accounts \ {DustAccount}, c \in Currencies \ {NativeCurrencyId} :
            Execute(w, u, c)
            /\ free'[RewardAccount][NativeCurrencyId] < free[RewardAccount][NativeCurrencyId] =>
                Total(free, u, c) > 0 /\ Total(free, u, c)' = 0]_vars
  BY <1>1
<1> QED
  BY <1>2, Initially, Induction, PTL DEF Spec, NoRewardForNothing

\* Tokens are taken from an account by its own transfers, or all of them as
\* dust, however old the call is that takes them.
THEOREM DustOnly == Spec => OnlyDustIsTaken
<1> DEFINE Lawful(u, c) ==
             LET had == Total(free, u, c)
                 lost == had - Total(free, u, c)'
             IN  lost > 0 =>
                   \/ had < min_deposit[c] /\ lost = had
                   \/ \E to \in Accounts, amount \in Amounts :
                         /\ Transfer(u, to, c, amount)
                         /\ lost = amount \/ (lost = had /\ had - amount < min_deposit[c])
<1>1. ASSUME IndInv, [Next]_vars, NEW u \in Accounts, NEW c \in Currencies \ {NativeCurrencyId}
      PROVE  Lawful(u, c)
  <2> USE <1>1
  <2>1. /\ free \in Ledgers /\ reserved \in Ledgers /\ free' \in Ledgers /\ reserved' \in Ledgers
    BY Induction DEF IndInv, TypeOK, Ledgers
  <2>2. /\ free[u][c] \in Nat /\ reserved[u][c] \in Nat
        /\ free'[u][c] \in Nat /\ reserved'[u][c] \in Nat
    BY <2>1 DEF Ledgers
  <2>3. PICK h, a \in Nat : h = Total(free, u, c) /\ a = Total(free, u, c)'
    BY <2>2 DEF Total
  <2>4. ASSUME a >= h \/ (a = 0 /\ h < min_deposit[c]) PROVE Lawful(u, c)
    BY <2>3, <2>4, SMTT(30)
  <2>5. ASSUME NEW to \in Accounts, NEW n \in Amounts, Transfer(u, to, c, n),
               h - a = n \/ (h - a = h /\ h - n < min_deposit[c])
        PROVE  Lawful(u, c)
    BY <2>3, <2>5, Zenon
  <2> HIDE DEF Lawful
  <2>6. ASSUME UNCHANGED reserved, free'[u][c] >= free[u][c] PROVE Lawful(u, c)
    <3>1. a >= h
      BY <2>2, <2>3, <2>6, SMTT(30) DEF Total
    <3> QED
      BY <2>4, <3>1, Zenon
  <2>7. ASSUME NEW w \in Workers, NEW v \in Accounts, NEW d \in Currencies, dust_account(w, v, d)
        PROVE  Lawful(u, c)
    <3>1. UNCHANGED reserved
      BY <2>7, Zenon DEF dust_account
    <3>2. CASE v = u /\ d = c
      <4>1. h < min_deposit[c] /\ (a = 0 \/ a = h)
        BY <2>3, <2>7, <3>2, Emptying, ZenonT(40)
      <4>2. a >= h \/ (a = 0 /\ h < min_deposit[c])
        BY <2>3, <4>1
      <4> QED
        BY <2>4, <4>2, Zenon
    <3>3. CASE ~(v = u /\ d = c)
      <4>1. free'[u][c] >= free[u][c]
        BY <2>7, <3>3, Dusting, ZenonT(40)
      <4> QED
        BY <2>6, <3>1, <4>1, Zenon
    <3> QED
      BY <3>2, <3>3, Zenon
  <2>8. ASSUME NEW from \in Accounts, NEW to \in Accounts, NEW d \in Currencies, NEW n \in Amounts,
               Transfer(from, to, d, n)
        PROVE  Lawful(u, c)
    <3>1. UNCHANGED reserved
      BY <2>8, Zenon DEF Transfer
    <3>2. CASE from = u /\ d = c
      <4>1. n \in Nat
        BY AmountAssumption
      <4>2. a = h - n \/ (a = 0 /\ h - n < min_deposit[c])
        BY <2>3, <2>8, <3>2, Sending, ZenonT(40)
      <4>3. h - a = n \/ (h - a = h /\ h - n < min_deposit[c])
        BY <2>3, <4>1, <4>2
      <4> QED
        BY <2>5, <2>8, <3>2, <4>3, Zenon
    <3>3. CASE ~(from = u /\ d = c)
      <4>1. free'[u][c] >= free[u][c]
        BY <2>8, <3>3, Sending, ZenonT(40)
      <4> QED
        BY <2>6, <3>1, <4>1, Zenon
    <3> QED
      BY <3>2, <3>3, Zenon
  <2>9. ASSUME NEW v \in Accounts, NEW d \in Currencies, NEW n \in Amounts,
               Reserve(v, d, n) \/ Unreserve(v, d, n)
        PROVE  Lawful(u, c)
    <3>1. a >= h \/ (a = 0 /\ h < min_deposit[c])
      BY <2>3, <2>9, Reserving, ZenonT(40)
    <3> QED
      BY <2>4, <3>1, Zenon
  <2>10. CASE UNCHANGED <<free, reserved>>
    <3>1. free'[u][c] >= free[u][c]
      BY <2>2, <2>10
    <3> QED
      BY <2>6, <2>10, <3>1, Zenon
  <2> QED
    BY <2>7, <2>8, <2>9, <2>10, Steps, ZenonT(40)
    DEF vars, chain_vars, add_nondustable_account, remove_nondustable_account, offchain_worker,
        RunEnds, dust_account_signed, SubmissionFails, Iterate, Drop, SetDeposit
<1>2. IndInv /\ [Next]_vars =>
        [\A u \in Accounts, c \in Currencies \ {NativeCurrencyId} : Lawful(u, c)]_vars
  <2> HIDE DEF Lawful
  <2> QED
    BY <1>1, Zenon
<1> QED
  BY <1>2, Initially, Induction, PTL DEF Spec, OnlyDustIsTaken

=============================================================================
