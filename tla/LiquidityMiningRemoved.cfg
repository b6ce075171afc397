SPECIFICATION Spec
CONSTANTS
    u1 = u1
    u2 = u2
    p1 = p1
    p2 = p2
    Users = {u1}
    Pairs = {p1}
    NftIdBase = 10
    MinTotalFarmRewards = 1
    MinPlannedYieldingPeriods = 1
    ExistentialDeposit = 1
    Units = {1}
    Backings = {0, 1}
    Wealth = 2
    Holding = 1
    TotalRewards = {2}
    PlannedPeriods = {2}
    BlocksPerPeriod = {1}
    Yields <- MCYields
    Multipliers <- MCOne
    Curves <- MCNoCurve
    Amounts = {1}
    MaxBlock = 1
    MaxPoolId = 3
    MaxDeposits = 2
    MaxIssuance = 1
INVARIANTS
    RemovedDepositsCanLeave
CHECK_DEADLOCK FALSE
