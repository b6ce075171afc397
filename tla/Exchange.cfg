SPECIFICATION MCSpec
CONSTANTS
    u1 = u1
    u2 = u2
    Users = {u1, u2}
    Assets = {0, 1}
    NativeAssetId = 0
    Wealth0 = 6
    Wealth1 = 3
    Pool0 = 12
    Pool1 = 4
    MinTradingLimit = 1
    MinPoolLiquidity = 2
    MaxInRatio = 1
    MaxOutRatio = 1
    MaxBalance = 63
    Amounts = {}
    Limits = {}
    IntentionAmounts = {2, 3, 6}
    IntentionLimits = {1, 12}
    Discounts = {FALSE}
    MaxIntentions = 3
    MaxBlocks = 1
    MaxAMMCalls = 0
    Endowment <- MCEndowment
    GetExchangeFee <- MCExchangeFee
    DiscountedFee <- MCDiscountedFee
    Prices <- MCPrices
INVARIANTS
    DealIsCovered
    ExhaustedMainIsLast
    ValueConserved
    SellerPaysAtMostAmount
PROPERTIES
    FinalizeEnds
CHECK_DEADLOCK FALSE
