SPECIFICATION FairSpec
CONSTANTS
    Tabs = {t1}
    demo = demo
    other = other
    a = a
    b = b
    Snapshots = {demo, other}
    Demo = demo
    Holders <- MCHolders
    Refused = {blank}
    NotJson = notjson
    Typed = {demo, other, blank, notjson}
    Blank = blank
    Nobody = nobody
    MaxLost = 2
    MaxStrays = 1
INVARIANTS ReadyShowsCurrent
PROPERTIES BusyEnds
