SPECIFICATION MCSpec
CONSTANTS
    u1 = u1
    u2 = u2
    Users = {u1, u2}
    Assets = {0, 1}
    NativeAssetId = 0
    Wealth0 = 4
    Wealth1 = 6
    Pool0 = 4
    Pool1 = 8
    MinTradingLimit = 1
    MinPoolLiquidity = 2
    MaxInRatio = 1
    MaxOutRatio = 1
    MaxBalance = 63
    Amounts = {2, 4}
    Limits = {0, 12}
    IntentionAmounts = {2, 5}
    IntentionLimits = {1, 12}
    Discounts = {FALSE, TRUE}
    MaxIntentions = 2
    MaxBlocks = 1
    MaxAMMCalls = 1
    Endowment <- MCEndowment
    GetExchangeFee <- MCExchangeFee
    DiscountedFee <- MCDiscountedFee
    Prices <- MCPrices
SYMMETRY Symmetry
INVARIANTS
    ValueConserved
PROPERTIES
    PoolKeepsValue
CHECK_DEADLOCK FALSE
