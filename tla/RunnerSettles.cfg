SPECIFICATION FairSpec
CONSTANTS
    Runners = {r1}
    f1 = f1
    f2 = f2
    Funding = {f1, f2}
    FundingKas <- MCMixed
    CellKas = 1
    Fee = 2
    Depth = 1
    MaxFaults = 1
    MaxReorgs = 1
PROPERTIES ReceivedSettles EndsCompleteOrExplained
CHECK_DEADLOCK FALSE
