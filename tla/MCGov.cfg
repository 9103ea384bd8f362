SPECIFICATION FairSpec
CONSTANTS
    native = native
    side = side
    a = a
    b = b
    v = v
    w = w
    ChainIDs <- TwoChains
    Accounts = {a, b}
    FeeAccount = b
    Escrow = escrow
    Validators = {v, w}
    Supply = 2
    Amounts = {1, 2}
    MinDeposit = 2
    MaxDepositPeriod = 1
    VotingPeriods = {1}
    Kinds = {text}
    Options = {"Yes", "Abstain", "NoWithVeto"}
    Delegated <- Crossed
    Outside <- Others
    Rate <- Slashed
    StakeStates <- Churn
    Quorum <- Half
    Veto <- Third
    Threshold <- Half
    MaxProposals = 1
    MaxTime = 2
    BlockSteps = {1}
INVARIANTS DepositsHeld TallyPerShare
PROPERTIES AcceptedCostsNothing EveryProposalDecided
