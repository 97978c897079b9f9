------------------------------ MODULE TokenUnits ------------------------------
(***************************************************************************)
(* Totals of token amounts.  The program adds i64 amounts in loops (the    *)
(* holders of a snapshot, the inputs and outputs of a token transaction).  *)
(* Here the total of a finite set S under a weight function w is the       *)
(* number of UNITS its members hold, each unit named by its holder and an  *)
(* ordinal.  It is the same number, and facts about it follow from facts   *)
(* about cardinalities instead of an induction over the set.               *)
(***************************************************************************)
EXTENDS Naturals, FiniteSets

(* One pair <<x, n>> for each of the w[x] units that x holds. *)
Units(S, w) == UNION { {x} \X (1..w[x]) : x \in S }

(* The total: how many units the members of S hold together. *)
Weight(S, w) == Cardinality(Units(S, w))
===============================================================================
