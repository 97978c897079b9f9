---------------------------- MODULE MCSnapshotChain ---------------------------
(* Instances of SnapshotChain for TLC: three holders in a tree of width 4,  *)
(* so one padding leaf, with unequal amounts.                               *)
EXTENDS SnapshotChain

CONSTANTS alice, bob, carol

MCHolderOwner == [i \in Index |-> <<alice, bob, carol>>[i + 1]]
MCHolderAmount == [i \in Index |-> <<1, 2, 1>>[i + 1]]
MCOwners == {alice, bob, carol}
===============================================================================
