SPECIFICATION FormatsSpec
CHECK_DEADLOCK FALSE
CONSTANTS
    MaxHolders = 5
    Garbage = garbage
    Raws <- MCRaws
    FewRaws <- MCFewRaws
    Metas <- MCMetas
    FewMetas <- MCFewMetas
    MaxListed = 3
    Mainnet <- MCMainnet
    Testnet10 <- MCTestnet10
    MaxInt = 3
    MaxScore = 7
    MaxTicker = 2
    MaxIndexer = 2
    TokenStates <- MCTokenStates
    Roots <- MCRoots
    Surroundings <- MCSurroundings
    Bytes <- MCBytes
    AmountWidth = 2
    OwnerWidth = 2
    Indices <- MCIndices
    Amounts <- MCAmounts
    Strings <- MCStrings
    Programs <- MCPrograms
    States <- MCStates
INVARIANTS
    AcceptedExactly
    ContextSaysAll
    TreeInv
    UnclaimedProvable
    OnlyCurrentEntitlementFolds
    RootIsLeafVector
    CutsWhereCompiled
    ReadsCurrent
    DecodesOnlyEncodings
    ReadsBack
    NumbersExact
PROPERTIES
    SameDeclarationSameSnapshot
