SPECIFICATION Spec
CONSTANTS
    u1 = u1
    u2 = u2
    p1 = p1
    p2 = p2
    Users = {u1}
    Pairs = {p1}
    NftIdBase = 10
    MinTotalFarmRewards = 1
    MinPlannedYieldingPeriods = 1
    ExistentialDeposit = 2
    Units = {}
    Backings = {1, 2}
    Wealth = 8
    Holding = 2
    TotalRewards = {8}
    PlannedPeriods = {2}
    BlocksPerPeriod = {1}
    Yields <- MCYields
    Multipliers <- MCMultipliers
    Curves <- MCCurves
    Amounts = {1}
    MaxBlock = 3
    MaxPoolId = 2
    MaxDeposits = 2
    MaxIssuance = 2
INVARIANTS
    TotalsAddUp
    PoolCanPay
    CanceledDepositsCanLeave
CHECK_DEADLOCK FALSE
