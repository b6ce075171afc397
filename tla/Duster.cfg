SPECIFICATION Spec
CONSTANTS
    alice = alice
    treasury = treasury
    w1 = w1
    bsx = bsx
    tok = tok
    Accounts = {alice, treasury, w1}
    Currencies = {bsx, tok}
    NativeCurrencyId = bsx
    RewardAccount = treasury
    DustAccount = treasury
    Treasury = treasury
    Workers = {w1}
    Reward = 1
    Endowment <- MCEndowment
    NativeDeposit = 1
    Deposits <- MCDeposits
    InitialDeposit <- MCInitialDeposit
    Amounts = {1, 2}
PROPERTIES
    BlacklistedAreNotDusted
    NoRewardForNothing
    OnlyDustIsTaken
