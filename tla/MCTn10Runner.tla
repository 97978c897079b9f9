----------------------------- MODULE MCTn10Runner -----------------------------
(* Instances of Tn10Runner for TLC: amounts in whole KAS.                   *)
EXTENDS Tn10Runner, TLC

CONSTANTS f1, f2

(* Exactly enough, and a larger cell that may arrive between two attempts. *)
MCEnough == [f \in Funding |-> IF f = f1 THEN 15 ELSE 20]
(* A cell that is chosen and does not last, and one that does.              *)
MCMixed == [f \in Funding |-> IF f = f1 THEN 14 ELSE 15]

(* Which process is which makes no difference. *)
RunnerSymmetry == Permutations(Runners)
===============================================================================
