SPECIFICATION Spec
CONSTANTS
    u1 = u1
    u2 = u2
    Users = {u1, u2}
    Assets = {0, 1}
    NativeAssetId = 0
    Wealth = 4
    Endowment <- MCEndowment
    GetExchangeFee <- MCExchangeFee
    DiscountedFee <- MCDiscountedFee
    MinTradingLimit = 1
    MinPoolLiquidity = 2
    MaxInRatio = 1
    MaxOutRatio = 2
    MaxBalance = 8
    Amounts = {1, 2, 3}
    Limits = {0, 4}
    Prices <- MCPrices
SYMMETRY Symmetry
INVARIANTS
    LivePoolHasReserves
    PoolStorageAgrees
    HolderCanExit
    ValidatedSellExecutes
PROPERTIES
    ShareValueNeverFalls
    DestructionEmptiesPool
CHECK_DEADLOCK FALSE
