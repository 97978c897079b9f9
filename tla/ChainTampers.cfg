SPECIFICATION Spec
CONSTANTS
    HolderCount = 3
    Width = 4
    alice = alice
    bob = bob
    carol = carol
    HolderOwner <- MCHolderOwner
    HolderAmount <- MCHolderAmount
    Owners <- MCOwners
    Deployer = Deployer
    Controller = Controller
    CellKas = 2
    Clients = {c1, c2}
    Tampers = {"None", "Proof", "Amount", "Destination", "ReserveAmount", "ControllerKas", "ReserveKas", "RecipientKas", "ExtraTokenOutput", "DropController", "SuccessorRoot", "ExtraTokenInput"}
    TransferKas = {2}
    MaxTransfers = 0
INVARIANTS PaidExactlyOnce KasNeverDrained
PROPERTIES RootOnlyRetires ImplementsClaims
CHECK_DEADLOCK FALSE
