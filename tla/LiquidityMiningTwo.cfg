SPECIFICATION Spec
CONSTANTS
    u1 = u1
    u2 = u2
    p1 = p1
    p2 = p2
    Users = {u1}
    Pairs = {p1, p2}
    NftIdBase = 10
    MinTotalFarmRewards = 1
    MinPlannedYieldingPeriods = 1
    ExistentialDeposit = 2
    Units = {}
    Backings = {1}
    Wealth = 5
    Holding = 1
    TotalRewards = {5}
    PlannedPeriods = {2}
    BlocksPerPeriod = {1}
    Yields <- MCYields
    Multipliers <- MCMultipliers
    Curves <- MCNoCurve
    Amounts = {1}
    MaxBlock = 2
    MaxPoolId = 3
    MaxDeposits = 2
    MaxIssuance = 2
INVARIANTS
    StakesAddUp
    RewardsConserved
CHECK_DEADLOCK FALSE
