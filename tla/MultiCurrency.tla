--------------------------- MODULE MultiCurrency ---------------------------
(***************************************************************************)
(* The orml-tokens pallet (external) as the pallets use it through the     *)
(* MultiCurrency trait; the runtime forwards every call unchanged in       *)
(* runtime/common/src/adapter.rs.  `balances` holds the balances of one    *)
(* kind of account, under two keys.  A transfer is a withdraw from one     *)
(* account and a deposit to the other.                                     *)
(***************************************************************************)
EXTENDS Integers

withdraw(balances, key1, key2, amount) == [balances EXCEPT ![key1][key2] = @ - amount]

deposit(balances, key1, key2, amount) == [balances EXCEPT ![key1][key2] = @ + amount]

=============================================================================
