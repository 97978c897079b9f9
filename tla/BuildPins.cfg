SPECIFICATION FairSpec
CONSTANTS
    MaxEdits = 4
INVARIANTS OneBuildInv
PROPERTIES RestoredCompletes
CHECK_DEADLOCK FALSE
