SPECIFICATION MCSpec
CONSTANTS
    u1 = u1
    u2 = u2
    Users = {u1, u2}
    Assets = {0, 1}
    NativeAssetId = 0
    Wealth0 = 6
    Wealth1 = 3
    Pool0 = 12
    Pool1 = 4
    MinTradingLimit = 1
    MinPoolLiquidity = 2
    MaxInRatio = 1
    MaxOutRatio = 1
    MaxBalance = 63
    Amounts = {}
    Limits = {}
    IntentionAmounts = {3, 5}
    IntentionLimits = {1}
    Discounts = {FALSE}
    MaxIntentions = 3
    MaxBlocks = 1
    MaxAMMCalls = 0
    Endowment <- MCEndowment
    GetExchangeFee <- MCExchangeFee
    DiscountedFee <- MCDiscountedFee
    Prices <- MCPrices
SYMMETRY Symmetry
INVARIANTS
    NeverPanics
CHECK_DEADLOCK FALSE
