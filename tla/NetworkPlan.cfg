SPECIFICATION Spec
CONSTANTS
    Snapshots <- MCSnapshots
    Deposits <- MCDeposits
    Keys = {"fund", "alice", "fixture"}
    FundingKey = "fund"
    FixtureKeys = {"fixture"}
    FixtureAt <- MCFixtureAt
    Fees = {1, 3, 4, 63}
    CellKas = 2
    MaxFee = 3
    FeeFloor = 2
    Width = 64
    MaxLanded = 3
    MaxStrangers = 1
INVARIANTS
    PlanInv
    FeeIsExact
    NoPublicOwner
    BuiltOnAccepted
