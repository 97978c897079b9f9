---------------------------- MODULE SnapshotClaims ----------------------------
(***************************************************************************)
(* What the snapshot promises, without tokens, transactions or trees: each *)
(* holder named in the frozen snapshot is owed an amount, and a payment    *)
(* settles one holder's entitlement in full, once, out of a pool that was  *)
(* funded with the snapshot's total.  Tokens are ordinary afterwards: an   *)
(* owner may send some back to the pool, which can only grow it.           *)
(*                                                                         *)
(* Source of the promise: harness/src/snapshot.rs (SnapshotLab::claim and  *)
(* its "already claimed" refusal) and the header comment of                *)
(* contracts/kasmelt-snapshot-controller.sil.                              *)
(***************************************************************************)
EXTENDS Naturals

CONSTANTS
    HolderCount,   \* number of holders in the snapshot
    HolderAmount,  \* [0..HolderCount-1 -> amount owed]
    Total          \* what the pool is funded with: the sum of the amounts

Index == 0..HolderCount-1

VARIABLES
    outstanding,   \* the holders whose entitlement is not yet settled
    paid,          \* how many units each holder has been paid so far
    pool           \* units that stand behind the outstanding entitlements

vars == <<outstanding, paid, pool>>

Init ==
    /\ outstanding = Index
    /\ paid = [i \in Index |-> 0]
    /\ pool = Total

(* A full claim: there are no partial payments and no second ones. *)
Pay(i) ==
    /\ i \in outstanding
    /\ pool >= HolderAmount[i]
    /\ outstanding' = outstanding \ {i}
    /\ paid' = [paid EXCEPT ![i] = @ + HolderAmount[i]]
    /\ pool' = pool - HolderAmount[i]

(* Somebody sends tokens to the pool; nothing is owed in return. *)
Fund ==
    /\ pool' > pool
    /\ UNCHANGED <<outstanding, paid>>

Next == Fund \/ \E i \in Index : Pay(i)

Spec == Init /\ [][Next]_vars

(* With claimants that keep trying. *)
FairSpec == Spec /\ WF_vars(\E i \in Index : Pay(i))

-------------------------------------------------------------------------------
(* Every holder is eventually paid. *)
EveryonePaid == <>(outstanding = {})
===============================================================================
