SPECIFICATION FairSpec
CONSTANTS
    owner = owner
    trader = trader
    None = None
    Users = {owner, trader}
    Assets = {0, 1}
    OwnerFunds = 4
    TraderFunds = 4
    Endowment <- MCEndowment
    MAX_WEIGHT = 4
    MAX_SALE_DURATION = 3
    MAX_IN_RATIO = 2
    MAX_OUT_RATIO = 2
    MinPoolLiquidity = 4
    repay_fee <- MCRepayFee
    Terms <- MCTerms
    Updates <- MCUpdates
    Amounts = {2, 4}
    Limits = {0, 2}
    MaxStep = 3
    MaxBlock = 5
INVARIANTS
    LockedFeesAreHeld
    RunningSaleHasWeights
    CollectorsAgree
    LockIsCollectedFees
PROPERTIES
    CreationStaysAllowed
    SaleIsFixed
    RepayFeeEndsOnce
    TradesKeepLimits
    OwnerCanLeave
CHECK_DEADLOCK FALSE
