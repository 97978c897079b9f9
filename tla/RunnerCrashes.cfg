SPECIFICATION Spec
CONSTANTS
    Runners = {r1}
    f1 = f1
    f2 = f2
    Funding = {f1, f2}
    FundingKas <- MCEnough
    CellKas = 1
    Fee = 2
    Depth = 2
    MaxFaults = 2
    MaxReorgs = 2
INVARIANTS TypeOK OneTransactionPerStage BroadcastIsOnRecord LedgerConsistent FundingSuffices SettledIsDeep
PROPERTIES LedgerOnlyAdvances
CHECK_DEADLOCK FALSE
