SPECIFICATION FairSpec
CONSTANTS
    HolderCount = 3
    Width = 4
    alice = alice
    bob = bob
    carol = carol
    HolderOwner <- MCHolderOwner
    HolderAmount <- MCHolderAmount
    Owners <- MCOwners
    Deployer = Deployer
    Controller = Controller
    CellKas = 2
    Clients = {c1, c2, c3}
    Tampers = {"None"}
    TransferKas = {2}
    MaxTransfers = 0
PROPERTIES EveryonePaid
CHECK_DEADLOCK FALSE
