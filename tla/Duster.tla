------------------------------- MODULE Duster -------------------------------
(***************************************************************************)
(* The duster (pallets/duster/src/lib.rs) and the off-chain workers that   *)
(* call it (pallets/offchain-duster/src/lib.rs).                           *)
(*                                                                         *)
(* A balance below the minimum deposit of its currency is dust.  The token *)
(* pallet moves what a transfer leaves behind at once (OnDust, with the    *)
(* blacklist of this pallet for its whitelist); dust that comes about in   *)
(* other ways, when a deposit is raised or an account taken off the        *)
(* blacklist, waits for a call of dust_account.  Workers of validators     *)
(* look for it in the state of a block and submit such calls, which are    *)
(* executed later, in another state, more than once or never.              *)
(***************************************************************************)
EXTENDS Integers

CONSTANTS
    Accounts,
    Currencies,
    NativeCurrencyId,
    RewardAccount,
    DustAccount,        \* both set at genesis, for good
    Treasury,           \* where the balances pallet puts native dust
    Workers,            \* the runs of the workers, named by the account they sign with
    Reward,
    Endowment,
    NativeDeposit,      \* the existential deposit of the balances pallet
    Deposits,           \* the minimum deposits each currency can have
    InitialDeposit,
    Amounts             \* what is transferred and reserved

ASSUME AccountAssumption ==
    {RewardAccount, DustAccount, Treasury} \cup Workers \subseteq Accounts

ASSUME CurrencyAssumption ==
    /\ NativeCurrencyId \in Currencies
    /\ Deposits \in [Currencies -> SUBSET Nat]
    /\ InitialDeposit \in [Currencies -> Nat]

ASSUME AmountAssumption ==
    /\ Reward \in Nat
    /\ NativeDeposit \in Nat
    /\ Amounts \subseteq Nat
    /\ Endowment \in [Accounts -> [Currencies -> Nat]]

VARIABLES
    free,               \* free balances
    reserved,           \* reserved balances
    blacklist,          \* the keys of AccountBlacklist
    min_deposit,        \* MinCurrencyDeposits, kept by the asset registry
    found,              \* the dust each worker still has to submit calls for
    pending             \* the calls submitted and not executed

vars == <<free, reserved, blacklist, min_deposit, found, pending>>
chain_vars == <<free, reserved, blacklist, min_deposit>>

\* The genesis configurations put the dust account on the blacklist.
Init ==
    /\ free = Endowment
    /\ reserved = [u \in Accounts |-> [c \in Currencies |-> 0]]
    /\ blacklist = {RewardAccount, DustAccount}
    /\ min_deposit = InitialDeposit
    /\ found = [w \in Workers |-> {}]
    /\ pending = {}

-----------------------------------------------------------------------------
(* Transfers: the balances pallet moves the native currency, the token     *)
(* pallet the others.                                                      *)

Total(balances, u, c) == balances[u][c] + reserved[u][c]

\* Mutant of contains: only the dust account is exempt.
contains_Dust(u) == u = DustAccount

\* DusterWhitelist
contains(u) == u \in blacklist

\* The least a receiver may be left with.
Required(u, c) ==
    IF c = NativeCurrencyId THEN NativeDeposit
    ELSE IF contains(u) THEN 0
    ELSE min_deposit[c]

CanTransfer(balances, c, from, to, amount) ==
    \/ amount = 0
    \/ from = to
    \/ /\ balances[from][c] >= amount
       /\ Total(balances, to, c) + amount >= Required(to, c)

Moved(balances, c, from, to, amount) ==
    IF from = to THEN balances
    ELSE [balances EXCEPT ![from][c] = @ - amount, ![to][c] = @ + amount]

\* The balances after on_dust.  A transfer of dust that fails is ignored.
on_dust(balances, u, c, amount) ==
    IF CanTransfer(balances, c, u, DustAccount, amount)
    THEN Moved(balances, c, u, DustAccount, amount)
    ELSE balances

\* The token pallet hands an account it has changed to the duster when what is
\* left there is dust.
Settled(balances, u, c, left) ==
    IF left \in 1 .. min_deposit[c] - 1 /\ ~contains(u)
    THEN on_dust(balances, u, c, left)
    ELSE balances

\* The balances after a transfer, the handling of what it leaves included.
Transferred(balances, c, from, to, amount) ==
    LET moved == Moved(balances, c, from, to, amount)
        left == Total(moved, from, c)
    IN  IF amount = 0 \/ from = to THEN balances
        ELSE IF c # NativeCurrencyId THEN Settled(moved, from, c, left)
        ELSE IF left < NativeDeposit THEN Moved(moved, c, from, Treasury, left)
        ELSE moved

-----------------------------------------------------------------------------
(* The calls of the pallet *)

\* Whether a balance is dust.
is_dustable(u, c) == Total(free, u, c) < min_deposit[c]

\* Mutant of CanDust: the call is accepted when there is nothing to move.
CanDust_Zero(u, c) == u \notin blacklist /\ is_dustable(u, c)

\* Mutant of CanDust: whoever submitted the call is trusted to have seen dust.
CanDust_Trusting(u, c) == u \notin blacklist /\ Total(free, u, c) # 0

CanDust(u, c) == u \notin blacklist /\ Total(free, u, c) # 0 /\ is_dustable(u, c)

\* The reward is paid if it can be.
Rewarded(balances, who) ==
    IF CanTransfer(balances, NativeCurrencyId, RewardAccount, who, Reward)
    THEN Transferred(balances, NativeCurrencyId, RewardAccount, who, Reward)
    ELSE balances

\* The whole balance is transferred, and only the free part of it can be.
DustSucceeds(u, c) ==
    /\ CanDust(u, c)
    /\ CanTransfer(free, c, u, DustAccount, Total(free, u, c))

dust_account(who, u, c) ==
    /\ DustSucceeds(u, c)
    /\ free' = Rewarded(Transferred(free, c, u, DustAccount, Total(free, u, c)), who)
    /\ UNCHANGED <<reserved, blacklist, min_deposit, found>>

add_nondustable_account(u) ==
    /\ blacklist' = blacklist \cup {u}
    /\ UNCHANGED <<free, reserved, min_deposit, found, pending>>

remove_nondustable_account(u) ==
    /\ u \in blacklist
    /\ blacklist' = blacklist \ {u}
    /\ UNCHANGED <<free, reserved, min_deposit, found, pending>>

-----------------------------------------------------------------------------
(* The off-chain workers.  A run reads the token accounts of one block and *)
(* submits a call for each that is dust, without asking the blacklist.     *)

\* The accounts of the token pallet that are dust; an empty one is no entry.
Seen == {x \in Accounts \X (Currencies \ {NativeCurrencyId}) :
             Total(free, x[1], x[2]) \in 1 .. min_deposit[x[2]] - 1}

\* A run takes the lock of the node, which the previous one has left to expire.
offchain_worker(w) ==
    /\ found[w] = {}
    /\ found' = [found EXCEPT ![w] = Seen]
    /\ UNCHANGED <<chain_vars, pending>>

\* One iteration of the run; the outcome of the submission is ignored.
Iterate(w, u, c) ==
    /\ <<u, c>> \in found[w]
    /\ found' = [found EXCEPT ![w] = @ \ {<<u, c>>}]
    /\ UNCHANGED chain_vars

dust_account_signed(w, u, c) ==
    /\ Iterate(w, u, c)
    /\ pending' = pending \cup {<<w, u, c>>}

SubmissionFails(w, u, c) ==
    /\ Iterate(w, u, c)
    /\ UNCHANGED pending

\* The lock cannot be extended, or the node is restarted.
RunEnds(w) ==
    /\ found[w] # {}
    /\ found' = [found EXCEPT ![w] = {}]
    /\ UNCHANGED <<chain_vars, pending>>

\* A pending call is executed in the state of a later block: it succeeds or it
\* changes nothing.
Execute(w, u, c) ==
    /\ <<w, u, c>> \in pending
    /\ pending' = pending \ {<<w, u, c>>}
    /\ \/ dust_account(w, u, c)
       \/ ~DustSucceeds(u, c) /\ UNCHANGED <<chain_vars, found>>

\* A pending call is dropped by the transaction pool.
Drop(w, u, c) ==
    /\ <<w, u, c>> \in pending
    /\ pending' = pending \ {<<w, u, c>>}
    /\ UNCHANGED <<chain_vars, found>>

-----------------------------------------------------------------------------
(* What the accounts and the registry do meanwhile (external) *)

Transfer(from, to, c, amount) ==
    /\ from # to
    /\ CanTransfer(free, c, from, to, amount)
    /\ free' = Transferred(free, c, from, to, amount)
    /\ UNCHANGED <<reserved, blacklist, min_deposit, found, pending>>

\* Only tokens are reserved here.
Reserve(u, c, amount) ==
    /\ c # NativeCurrencyId
    /\ free[u][c] >= amount
    /\ free' = Settled([free EXCEPT ![u][c] = @ - amount], u, c, Total(free, u, c))
    /\ reserved' = [reserved EXCEPT ![u][c] = @ + amount]
    /\ UNCHANGED <<blacklist, min_deposit, found, pending>>

Unreserve(u, c, amount) ==
    /\ c # NativeCurrencyId
    /\ reserved[u][c] >= amount
    /\ free' = Settled([free EXCEPT ![u][c] = @ + amount], u, c, Total(free, u, c))
    /\ reserved' = [reserved EXCEPT ![u][c] = @ - amount]
    /\ UNCHANGED <<blacklist, min_deposit, found, pending>>

SetDeposit(c, deposit) ==
    /\ deposit # min_deposit[c]
    /\ min_deposit' = [min_deposit EXCEPT ![c] = deposit]
    /\ UNCHANGED <<free, reserved, blacklist, found, pending>>

-----------------------------------------------------------------------------
Next ==
    \/ \E who \in Workers, u \in Accounts, c \in Currencies :
          dust_account(who, u, c) /\ UNCHANGED pending
    \/ \E u \in Accounts : add_nondustable_account(u) \/ remove_nondustable_account(u)
    \/ \E w \in Workers : offchain_worker(w) \/ RunEnds(w)
    \/ \E w \in Workers, u \in Accounts, c \in Currencies :
          \/ dust_account_signed(w, u, c)
          \/ SubmissionFails(w, u, c)
          \/ Execute(w, u, c)
          \/ Drop(w, u, c)
    \/ \E from, to \in Accounts, c \in Currencies, amount \in Amounts :
          Transfer(from, to, c, amount)
    \/ \E u \in Accounts, c \in Currencies, amount \in Amounts :
          Reserve(u, c, amount) \/ Unreserve(u, c, amount)
    \/ \E c \in Currencies : \E deposit \in Deposits[c] : SetDeposit(c, deposit)

Spec == Init /\ [][Next]_vars

-----------------------------------------------------------------------------
(* Properties *)

\* Balances are natural numbers; the workers look at token accounts only.
TypeOK ==
    /\ free \in [Accounts -> [Currencies -> Nat]]
    /\ reserved \in [Accounts -> [Currencies -> Nat]]
    /\ blacklist \subseteq Accounts
    /\ min_deposit \in [Currencies -> Nat]
    /\ found \in [Workers -> SUBSET (Accounts \X (Currencies \ {NativeCurrencyId}))]
    /\ pending \subseteq Workers \X Accounts \X (Currencies \ {NativeCurrencyId})

\* An account on the blacklist is dusted neither by a call, also by one that was
\* submitted before the account was put there, nor by the handler of the token
\* pallet: its tokens become less only as it transfers or reserves them, by that
\* amount.
BlacklistedAreNotDusted ==
    [][\A u \in blacklist, c \in Currencies \ {NativeCurrencyId} :
          Total(free, u, c)' < Total(free, u, c) =>
              \E to \in Accounts, amount \in Amounts :
                  /\ Transfer(u, to, c, amount)
                  /\ free'[u][c] = free[u][c] - amount]_vars

\* The reward leaves the reward account only for dust that has left another
\* account: a call that comes late, or for the second time, earns nothing.  (The
\* dust account itself, once it is taken off the blacklist, would be moved onto
\* itself.)
NoRewardForNothing ==
    [][\A w \in Workers, u \in Accounts \ {DustAccount}, c \in Currencies \ {NativeCurrencyId} :
          Execute(w, u, c)
          /\ free'[RewardAccount][NativeCurrencyId] < free[RewardAccount][NativeCurrencyId] =>
              Total(free, u, c) > 0 /\ Total(free, u, c)' = 0]_vars

\* Whoever loses tokens has sent them, or had nothing but dust: a call for what
\* was dust in an earlier block takes nothing from an account that has been
\* refilled, or whose deposit was lowered, since.  What a transfer leaves behind
\* is taken only if it is dust, and then all of it.
OnlyDustIsTaken ==
    [][\A u \in Accounts, c \in Currencies \ {NativeCurrencyId} :
          LET had == Total(free, u, c)
              lost == had - Total(free, u, c)'
          IN  lost > 0 =>
                \/ had < min_deposit[c] /\ lost = had
                \/ \E to \in Accounts, amount \in Amounts :
                      /\ Transfer(u, to, c, amount)
                      /\ lost = amount \/ (lost = had /\ had - amount < min_deposit[c])]_vars

=============================================================================
