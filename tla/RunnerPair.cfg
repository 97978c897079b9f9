SPECIFICATION Spec
CONSTANTS
    Runners = {r1, r2}
    f1 = f1
    f2 = f2
    Funding = {f1, f2}
    FundingKas <- MCEnough
    CellKas = 1
    Fee = 2
    Depth = 1
    MaxFaults = 0
    MaxReorgs = 0
INVARIANTS NothingUntraced
SYMMETRY RunnerSymmetry
CHECK_DEADLOCK FALSE
