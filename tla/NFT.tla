-------------------------------- MODULE NFT --------------------------------
(***************************************************************************)
(* The NFT pallet, pallets/nft/src/lib.rs, over pallet_uniques (external). *)
(*                                                                         *)
(* Both pallets keep a record of every class and of every instance.        *)
(* pallet_uniques knows owners and deposits; the NFT pallet knows the type *)
(* of a class, on which the permissions of the calls depend.  A token is a *)
(* pair <<class_id, instance_id>>.  Metadata is left out.                  *)
(*                                                                         *)
(* The extrinsics are transactional: a call that fails changes nothing.    *)
(* The calls of the pallets that build on this one (the liquidity mining   *)
(* pallet, which mints and burns through do_mint and do_burn, and the      *)
(* marketplace, which transfers) compose with these actions.               *)
(***************************************************************************)
EXTENDS StorageMap, Integers, FiniteSets

CONSTANTS
    Users,              \* accounts that sign extrinsics
    PalletAccount,      \* the liquidity mining pallet, owner of LMClass
    ClassIds, InstanceIds,
    LMClass,            \* the class of the liquidity mining NFTs
    ReserveClassIdUpTo,
    ClassDeposit, InstanceDeposit,
    ExistentialDeposit,
    Wealth              \* free balance of every account at genesis

ASSUME NFTAssumption ==
    /\ IsFiniteSet(Users)
    /\ PalletAccount \notin Users
    /\ ClassIds \subseteq Nat
    /\ LMClass \in ClassIds
    /\ ReserveClassIdUpTo \in Nat
    /\ LMClass <= ReserveClassIdUpTo
    /\ ClassDeposit \in Nat
    /\ InstanceDeposit \in Nat
    /\ ExistentialDeposit \in Nat
    /\ Wealth \in Nat

VARIABLES
    classes,            \* Classes: the type of every class
    instances,          \* Instances: the tokens that have an entry
    uniques_class,      \* pallet_uniques::Class
    uniques_asset,      \* pallet_uniques::Asset
    free, reserved,     \* pallet_balances: the native currency of the accounts
    lm_version,         \* StorageVersion of the liquidity mining pallet
    lm_tokens           \* history: tokens it has minted and not burned

nft_vars == <<classes, instances, uniques_class, uniques_asset>>

Accounts == Users \cup {PalletAccount}

Tokens == ClassIds \X InstanceIds

ClassType == {"Marketplace", "LiquidityMining", "Redeemable", "Auction", "HydraHeads"}

\* Mutant of DefaultClassType: another variant is the default.
DefaultClassType_LiquidityMining == "LiquidityMining"

DefaultClassType == "Marketplace"

-----------------------------------------------------------------------------
(* primitives::nft::NftPermissions *)

can_create(class_type) == class_type = "Marketplace"

can_mint(class_type) == class_type = "Marketplace"

can_transfer(class_type) == class_type \in {"Marketplace", "LiquidityMining"}

\* Mutant of can_burn: what may be transferred may be burned.
can_burn_Transferable(class_type) == can_transfer(class_type)

can_burn(class_type) == class_type = "Marketplace"

can_destroy(class_type) == class_type = "Marketplace"

has_deposit(class_type) == class_type = "Marketplace"

-----------------------------------------------------------------------------
(* pallet_balances *)

CanReserve(who, amount) == free[who] >= amount

Reserve(who, amount) ==
    /\ free' = [free EXCEPT ![who] = @ - amount]
    /\ reserved' = [reserved EXCEPT ![who] = @ + amount]

\* What unreserve cannot find it does not return.
Unreserve(who, amount) ==
    LET actual == IF amount <= reserved[who] THEN amount ELSE reserved[who]
    IN  /\ free' = [free EXCEPT ![who] = @ + actual]
        /\ reserved' = [reserved EXCEPT ![who] = @ - actual]

-----------------------------------------------------------------------------
(* The functions other pallets call *)

class_owner(class_id) == uniques_class[class_id].owner

ClassExists(class_id) == class_id \in DOMAIN uniques_class

TokenExists(token) == token \in DOMAIN uniques_asset

owner(token) == uniques_asset[token].owner

do_create_class(who, class_id, class_type) ==
    LET amount == IF has_deposit(class_type) THEN ClassDeposit ELSE 0
    IN  /\ ~ClassExists(class_id)
        /\ CanReserve(who, amount)
        /\ Reserve(who, amount)
        /\ uniques_class' = insert(uniques_class, class_id,
               [owner |-> who, instances |-> 0, total_deposit |-> amount,
                free_holding |-> ~has_deposit(class_type)])
        /\ classes' = insert(classes, class_id, class_type)
        /\ UNCHANGED <<instances, uniques_asset>>

\* The deposit for a token is reserved from the owner of the class, whoever
\* mints it.
do_mint(who, token) ==
    LET class == uniques_class[token[1]]
        amount == IF class.free_holding THEN 0 ELSE InstanceDeposit
    IN  /\ ~TokenExists(token)
        /\ ClassExists(token[1])
        /\ CanReserve(class.owner, amount)
        /\ Reserve(class.owner, amount)
        /\ uniques_class' = [uniques_class EXCEPT ![token[1]].instances = @ + 1,
                                                  ![token[1]].total_deposit = @ + amount]
        /\ uniques_asset' = insert(uniques_asset, token, [owner |-> who, deposit |-> amount])
        /\ instances' = instances \cup {token}
        /\ UNCHANGED classes

\* A transfer to the owner itself succeeds without looking the token up.
do_transfer(token, from, to) ==
    \/ /\ from = to
       /\ UNCHANGED nft_vars
    \/ /\ from # to
       /\ TokenExists(token)
       /\ owner(token) = from
       /\ uniques_asset' = [uniques_asset EXCEPT ![token].owner = to]
       /\ UNCHANGED <<classes, instances, uniques_class>>

do_burn(who, token) ==
    LET class == uniques_class[token[1]]
        amount == uniques_asset[token].deposit
    IN  /\ TokenExists(token)
        /\ owner(token) = who
        /\ Unreserve(class.owner, amount)
        /\ uniques_class' = [uniques_class EXCEPT ![token[1]].instances = @ - 1,
                                                  ![token[1]].total_deposit = @ - amount]
        /\ uniques_asset' = remove(uniques_asset, token)
        /\ instances' = instances \ {token}
        /\ UNCHANGED classes

\* Mutant of ClassIsEmpty: the check is dropped; pallet_uniques deletes the
\* instances it finds, and Instances keeps them.
ClassIsEmpty_Dropped(class_id) == TRUE

\* TokenClassNotEmpty
ClassIsEmpty(class_id) == uniques_class[class_id].instances = 0

do_destroy_class(who, class_id) ==
    /\ ClassExists(class_id)
    /\ ClassIsEmpty(class_id)
    /\ class_owner(class_id) = who
    /\ Unreserve(who, uniques_class[class_id].total_deposit)
    /\ uniques_class' = remove(uniques_class, class_id)
    /\ uniques_asset' = [t \in {t \in DOMAIN uniques_asset : t[1] # class_id} |-> uniques_asset[t]]
    /\ classes' = remove(classes, class_id)
    /\ UNCHANGED instances

-----------------------------------------------------------------------------
(* The extrinsics *)

\* Mutant of IdNotReserved: ids up to the constant are excluded, the constant
\* itself is not.
IdNotReserved_OffByOne(class_id) == ReserveClassIdUpTo <= class_id

IdNotReserved(class_id) == ReserveClassIdUpTo < class_id

\* The type asked for is checked, and the default type is stored.
create_class(who, class_id, class_type) ==
    /\ IdNotReserved(class_id)
    /\ can_create(class_type)
    /\ do_create_class(who, class_id, DefaultClassType)

\* Anyone may mint in a class: only its type is checked.
mint(who, token) ==
    /\ token[1] \in DOMAIN classes
    /\ can_mint(classes[token[1]])
    /\ do_mint(who, token)

transfer(who, token, dest) ==
    /\ token[1] \in DOMAIN classes
    /\ can_transfer(classes[token[1]])
    /\ do_transfer(token, who, dest)

burn(who, token) ==
    /\ token[1] \in DOMAIN classes
    /\ can_burn(classes[token[1]])
    /\ do_burn(who, token)

destroy_class(who, class_id) ==
    /\ class_id \in DOMAIN classes
    /\ can_destroy(classes[class_id])
    /\ do_destroy_class(who, class_id)

\* The liquidity mining pallet's on_runtime_upgrade: the class of its NFTs is
\* created by the first upgrade.  If it could not be, unwrap() would panic.
init_nft_class ==
    /\ lm_version = 0
    /\ do_create_class(PalletAccount, LMClass, "LiquidityMining")
    /\ lm_version' = 1

\* deposit_shares and withdraw_shares of the liquidity mining pallet, as far as
\* the NFT pallet sees them.
lm_mint(who, token) ==
    /\ token[1] = LMClass
    /\ do_mint(who, token)
    /\ lm_tokens' = lm_tokens \cup {token}

lm_burn(who, token) ==
    /\ token[1] = LMClass
    /\ do_burn(who, token)
    /\ lm_tokens' = lm_tokens \ {token}

NFTInit ==
    /\ classes = Empty
    /\ instances = {}
    /\ uniques_class = Empty
    /\ uniques_asset = Empty
    /\ free = [a \in Accounts |-> Wealth]
    /\ reserved = [a \in Accounts |-> 0]
    /\ lm_version = 0
    /\ lm_tokens = {}

NFTCall(who) ==
    \/ \E class_id \in ClassIds :
          \/ \E class_type \in ClassType : create_class(who, class_id, class_type)
          \/ destroy_class(who, class_id)
    \/ \E token \in Tokens :
          \/ mint(who, token)
          \/ burn(who, token)
          \/ \E dest \in Users : transfer(who, token, dest) /\ UNCHANGED <<free, reserved>>

LMCall(who) == \E token \in Tokens : lm_mint(who, token) \/ lm_burn(who, token)

NFTNext ==
    \/ init_nft_class /\ UNCHANGED lm_tokens
    \/ \E who \in Users :
          \/ NFTCall(who) /\ UNCHANGED <<lm_version, lm_tokens>>
          \/ LMCall(who) /\ UNCHANGED lm_version

-----------------------------------------------------------------------------
(* What the pallet promises *)

\* The NFT pallet and pallet_uniques keep two records of the same classes and
\* tokens, changed by separate calls in every handler (do_create_class,
\* do_mint, do_burn, do_destroy_class).  They name the same classes and
\* tokens, every token belongs to a class, a class counts its tokens, and
\* holds a deposit exactly if its type has one.
StorageAgrees ==
    /\ DOMAIN classes = DOMAIN uniques_class
    /\ instances = DOMAIN uniques_asset
    /\ \A t \in instances : t[1] \in DOMAIN classes
    /\ \A c \in DOMAIN classes :
          /\ uniques_class[c].instances = Cardinality({t \in instances : t[1] = c})
          /\ uniques_class[c].free_holding = ~has_deposit(classes[c])

\* on_runtime_upgrade unwraps the result of do_create_class: a panic would
\* stop the chain at the upgrade.  As long as the migration has not run, no
\* sequence of calls has taken the id of the liquidity mining class.
MigrationCannotPanic == lm_version = 0 => ~ClassExists(LMClass)

\* The class of liquidity mining NFTs is the one the migration created: it
\* keeps its type and its owner, and no call of a user makes another class of
\* that type, whose tokens would be free of deposits and could not be burned.
LMClassIsProtected ==
    \A c \in DOMAIN classes :
        (c = LMClass \/ classes[c] = "LiquidityMining") =>
            /\ c = LMClass
            /\ classes[c] = "LiquidityMining"
            /\ class_owner(c) = PalletAccount

\* The liquidity mining pallet takes the tokens of its class for its deposits.
\* They are those it has minted and not burned, whatever users do with the
\* tokens and with classes: mint, burn and destroy_class are refused.
LMTokensAreDeposits == {t \in DOMAIN uniques_asset : t[1] = LMClass} = lm_tokens

=============================================================================
