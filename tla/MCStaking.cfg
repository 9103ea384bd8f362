SPECIFICATION Spec
CONSTANTS
    Validators = {1, 2}
    Delegators = {1, 2, 3}
    Cross = {1}
    FeeAddr <- FeeAddrs
    MaxValidators = 1
    MinSelfDelegation = 2
    MinDelegationChange = 2
    UnbondingTime = 2
    TooLowDelUnbondDuration = 1
    RelayFee = 2
    MigrationFee = 1
    MaxRefunds = 1
    MaxFailedRefunds = 1
    Amounts = {1, 2}
    Start <- Holdings
    MaxInputs = 4
    Evidence <- Infractions
    MaxEvidenceAge = 1
    DowntimeSlashAmount = 1
    DoubleSignSlashAmount = 2
    DowntimeUnbondDuration = 1
    DoubleSignUnbondDuration = 2
INVARIANTS StakeBacked PowerIndexExact BondedSetAgrees SupplyKept SelfStakeHeld StakesReturned
