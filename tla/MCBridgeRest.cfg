SPECIFICATION BridgeSpec
CONSTANTS
    transfer = transfer
    stake = stake
    gov = gov
    mirror = mirror
    r1 = r1
    r2 = r2
    r3 = r3
    r4 = r4
    RegisteredIDs <- Channels3
    MirrorChannels <- Mirrors
    GovChannelId = gov
    Enabled = {gov, transfer}
    MaxSequence = 2
    MaxChanges = 2
    Faulty = {r3, r4}
    PowerSets <- Relayers
    ConsensusNeeded <- TwoThirds
    Truth <- Batches
    Forged <- Forgeries
    InitialPeg = 2
    MaxPeg = 3
    MaxFees = 4
PROPERTY RestGetsChance
