SPECIFICATION Spec
CONSTANTS
    u1 = u1
    u2 = u2
    Users = {u1, u2}
    Assets = {0, 1}
    NativeAssetId = 0
    IncentivizedAsset = 1
    Wealth = 3
    Endowment <- MCEndowment
    GetExchangeFee <- MCExchangeFee
    DiscountedFee <- MCDiscountedFee
    MinTradingLimit = 1
    MinPoolLiquidity = 1
    MaxInRatio = 1
    MaxOutRatio = 1
    MaxBalance = 6
    Amounts = {1, 2}
    Limits = {0, 4}
    Prices <- MCPrices
SYMMETRY Symmetry
PROPERTIES
    ImplementsSharePool
CHECK_DEADLOCK FALSE
