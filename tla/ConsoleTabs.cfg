SPECIFICATION Spec
CONSTANTS
    Tabs = {t1, t2}
    demo = demo
    other = other
    a = a
    b = b
    Snapshots = {demo, other}
    Demo = demo
    Holders <- MCHolders
    Refused = {blank}
    NotJson = notjson
    Typed = {other}
    Blank = blank
    Nobody = nobody
    MaxLost = 1
    MaxStrays = 0
INVARIANTS ConsoleInv
SYMMETRY TabSymmetry
