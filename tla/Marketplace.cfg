SPECIFICATION Spec
CONSTANTS
    u1 = u1
    u2 = u2
    Users = {u1, u2}
    PalletAccount = PalletAccount
    LMClass = 1
    ReserveClassIdUpTo = 1
    ClassIds = {1, 2}
    InstanceIds = {1}
    ClassDeposit = 1
    InstanceDeposit = 1
    ExistentialDeposit = 1
    Wealth = 3
    MinimumOfferAmount = 2
    RoyaltyBondAmount = 1
    MaxBlock = 1
    Prices = {2}
    Amounts = {1, 2}
    Expiries = {1}
    Royalties = {50, 101}
SYMMETRY Symmetry
INVARIANTS
    StorageAgrees
    MigrationCannotPanic
    LMClassIsProtected
    ReservesAgree
    LMTokensAreDeposits
    OfferCanBeAccepted
PROPERTIES
    SaleIsSettled
CHECK_DEADLOCK FALSE
