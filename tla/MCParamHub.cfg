SPECIFICATION HubSpec
CONSTANTS
    side = side
    b = b
    v = v
    ChainIDs <- OneChain
    Accounts = {b}
    FeeAccount = b
    Escrow = escrow
    Validators = {v}
    Supply = 6
    Amounts = {1, 2}
    MinDeposit = 2
    MaxDepositPeriod = 2
    VotingPeriods = {1, 2}
    Kinds = {csc, sc}
    Collected = {csc}
    Latest = {sc}
    Options = {"Yes"}
    Delegated <- Sole
    Outside <- None
    Rate <- Unslashed
    StakeStates <- Bonded
    Quorum <- Half
    Veto <- Third
    Threshold <- Half
    MaxProposals = 2
    MaxTime = 4
    BlockSteps = {1, 2}
    BackPeriod = 2
INVARIANTS SettledOnTime ExecutedOnce
PROPERTIES NewestInForce
