SPECIFICATION Spec
CONSTANTS
    HolderCount = 3
    Width = 4
    alice = alice
    bob = bob
    carol = carol
    HolderOwner <- MCHolderOwner
    HolderAmount <- MCHolderAmount
    Owners <- MCOwners
    Deployer = Deployer
    Controller = Controller
    CellKas = 2
    Clients = {c1}
    Tampers = {"None"}
    TransferKas = {1, 2}
    MaxTransfers = 1
INVARIANTS TypeOK ReserveBacksUnclaimed NobodyStranded SupplyConserved
CHECK_DEADLOCK FALSE
