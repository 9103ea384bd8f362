SPECIFICATION MoneySpec
CONSTANTS
    a = a
    b = b
    Width = 5
    Precision = 10
    Denoms = {1, 2, 3}
    Addresses = {a, b}
    Genesis <- TwoAccounts
    Amounts <- SomeAmounts
    MaxMoves = 2
    Shares = {1, 2, 3, 5}
    Rewards = {0, 1, 2, 5, 7, 9, 11}
    MaxSharers = 4
    Elected <- SomeElected
    Incomes = {4, 9}
    FeeRatio = 2
    BatchSize = 1
    BlockBound = 4
    CrossThreshold = 3
    RelayFees = {1, 3}
    MaxDays = 5
    MaxIncomes = 2
CHECK_DEADLOCK FALSE
INVARIANTS
    CoinsConserved OperationsExact AllocationExact RewardsOwed
