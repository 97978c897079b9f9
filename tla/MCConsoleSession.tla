--------------------------- MODULE MCConsoleSession ---------------------------
(* Instances of ConsoleSession for TLC: the sample with two holders, and a  *)
(* snapshot whose only leaf, the first, is another holder's.                *)
EXTENDS ConsoleSession, TLC

CONSTANTS demo, other, a, b

MCHolders ==
    [s \in Snapshots |-> IF s = demo
        THEN <<[owner |-> a, amount |-> 1], [owner |-> b, amount |-> 2]>>
        ELSE <<[owner |-> b, amount |-> 3]>>]

(* Which tab is which makes no difference. *)
TabSymmetry == Permutations(Tabs)
===============================================================================
