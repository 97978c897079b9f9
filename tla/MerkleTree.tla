------------------------------ MODULE MerkleTree ------------------------------
(***************************************************************************)
(* The entitlement tree as it is computed: harness/src/snapshot.rs builds  *)
(* it layer by layer and takes proofs from it, the controller contract     *)
(* folds a leaf with a proof into a root and derives its own next root.    *)
(* The two are separate programs that have to agree on the width, the side *)
(* each sibling goes to and the leaves, for every number of holders.       *)
(*                                                                         *)
(* Hashes are free constructors: different inputs, different hashes.       *)
(* SnapshotChain uses the tree only through the facts checked here.        *)
(***************************************************************************)
EXTENDS Integers, FiniteSets

CONSTANTS
    MaxHolders    \* bound: the largest snapshot in an instance

ASSUME MerkleAssumption == MaxHolders \in Nat \ {0}

-------------------------------------------------------------------------------
(* Hashing. *)

(* Mutant: the leaf does not commit to its position.                       *)
EntitlementLeafUnplaced(index, amount) == <<"entitlement", amount>>

EntitlementLeaf(index, amount) == <<"entitlement", index, amount>>
ClaimedLeaf(index) == <<"claimed", index>>
PaddingLeaf(index) == <<"padding", index>>
Branch(left, right) == <<"branch", left, right>>

(* The amount holder i is owed: different for neighbours, so that leaves   *)
(* are told apart by more than their index.                                *)
Owed(i) == 1 + (i % 2)

-------------------------------------------------------------------------------
(* The tree of the harness: MerkleTree in snapshot.rs.  A tree is the      *)
(* function from 0..width-1 to its leaves.                                 *)

PowerOf2[k \in 0..MaxHolders] == IF k = 0 THEN 1 ELSE 2 * PowerOf2[k-1]

(* max(2).next_power_of_two() and trailing_zeros(). *)
Depth(n) == CHOOSE d \in 1..MaxHolders :
              /\ PowerOf2[d] >= n
              /\ \A e \in 1..(d - 1) : PowerOf2[e] < n
Width(n) == PowerOf2[Depth(n)]

FromHolders(n) ==
    [p \in 0..Width(n)-1 |-> IF p < n THEN EntitlementLeaf(p, Owed(p))
                             ELSE PaddingLeaf(p)]

(* layers: the leaves, then each layer of half the size, up to the root. *)
Layers(n, leaves) ==
    LET layer[d \in 0..Depth(n)] ==
          IF d = 0 THEN leaves
          ELSE [j \in 0..PowerOf2[Depth(n) - d]-1 |->
                  Branch(layer[d-1][2*j], layer[d-1][2*j + 1])]
    IN  layer

TreeRoot(n, leaves) == Layers(n, leaves)[Depth(n)][0]

(* Mutant: the odd node is its own sibling.                                *)
SiblingEvenOnly(cursor) == IF cursor % 2 = 0 THEN cursor + 1 ELSE cursor

(* cursor ^ 1 *)
Sibling(cursor) == IF cursor % 2 = 0 THEN cursor + 1 ELSE cursor - 1

(* Where the path from a leaf is on each level: the cursor, halved. *)
Cursor(n, index) ==
    LET cursor[level \in 0..Depth(n)] ==
          IF level = 0 THEN index ELSE cursor[level-1] \div 2
    IN  cursor

Proof(n, leaves, index) ==
    [level \in 0..Depth(n)-1 |->
        Layers(n, leaves)[level][Sibling(Cursor(n, index)[level])]]

(* Mutant: a claimed position becomes padding.                             *)
RetireToPadding(leaves, index) == [leaves EXCEPT ![index] = PaddingLeaf(index)]

Retire(leaves, index) == [leaves EXCEPT ![index] = ClaimedLeaf(index)]

-------------------------------------------------------------------------------
(* The controller contract. *)

(* Mutant: the sibling always goes to the right.                           *)
NodesRight(n, start, siblings, index) ==
    LET node[level \in 0..Depth(n)] ==
          IF level = 0 THEN start
          ELSE Branch(node[level-1], siblings[level-1])
    IN  node

(* The nodes on the path from a leaf up, as the contract derives them. *)
Nodes(n, start, siblings, index) ==
    LET node[level \in 0..Depth(n)] ==
          IF level = 0 THEN start
          ELSE IF Cursor(n, index)[level-1] % 2 = 0
               THEN Branch(node[level-1], siblings[level-1])
               ELSE Branch(siblings[level-1], node[level-1])
    IN  node

(* fold: treeDepth rounds, the cursor halved after each. *)
Fold(n, start, siblings, index) == Nodes(n, start, siblings, index)[Depth(n)]

-------------------------------------------------------------------------------
VARIABLES
    holders,   \* how many holders the snapshot has
    leaves,    \* the off-chain tree
    root,      \* the controller's state
    seen       \* the tree as a claimant last saw it: where proofs come from

vars == <<holders, leaves, root, seen>>

Init ==
    /\ holders \in 1..MaxHolders
    /\ leaves = FromHolders(holders)
    /\ root = TreeRoot(holders, leaves)
    /\ seen = leaves

(* A claimant looks at the tree. *)
Observe ==
    /\ seen' = leaves
    /\ UNCHANGED <<holders, leaves, root>>

(* The contract accepts a claim of `amount` at `index` with a proof from   *)
(* the tree last seen; the off-chain tree follows.                         *)
Accepts(index, amount) ==
    /\ index < holders
    /\ amount > 0
    /\ Fold(holders, EntitlementLeaf(index, amount),
            Proof(holders, seen, index), index) = root

Claim(index, amount) ==
    /\ Accepts(index, amount)
    /\ root' = Fold(holders, ClaimedLeaf(index), Proof(holders, seen, index), index)
    /\ leaves' = Retire(leaves, index)
    /\ UNCHANGED <<holders, seen>>

Next ==
    \/ Observe
    \/ \E index \in 0..Width(holders)-1, amount \in 1..2 : Claim(index, amount)

Spec == Init /\ [][Next]_vars

-------------------------------------------------------------------------------
(* Properties. *)

Unclaimed == {i \in 0..holders-1 : leaves[i] = EntitlementLeaf(i, Owed(i))}

(* Every position keeps its kind: a holder's is owed or claimed, the rest  *)
(* is padding. *)
LeafOK(p, leaf) ==
    IF p < holders THEN leaf \in {EntitlementLeaf(p, Owed(p)), ClaimedLeaf(p)}
    ELSE leaf = PaddingLeaf(p)

TypeOK ==
    /\ holders \in 1..MaxHolders
    /\ \A tree \in {leaves, seen} :
          /\ tree = [p \in 0..Width(holders)-1 |-> tree[p]]
          /\ \A p \in 0..Width(holders)-1 : LeafOK(p, tree[p])

(* The root the contract derives by itself, claim after claim, is the root *)
(* of the tree the harness maintains: proofs taken from it keep working.   *)
RootsAgree == root = TreeRoot(holders, leaves)

(* The tree keeps its width and its kinds of leaves, and the contract and  *)
(* the harness agree on its root.                                          *)
TreeInv == TypeOK /\ RootsAgree

(* Every holder not yet claimed has a proof that the contract accepts, in  *)
(* a tree of any width, at even and odd positions, next to padding or not. *)
UnclaimedProvable ==
    \A i \in Unclaimed :
        Fold(holders, EntitlementLeaf(i, Owed(i)), Proof(holders, leaves, i), i) = root

(* And nothing else folds to the root: not a retired or padded position,   *)
(* not another amount, not a proof taken before somebody else's claim, and *)
(* not an index past the width, whose low bits name a real position.       *)
OnlyCurrentEntitlementFolds ==
    \A p \in 0..Width(holders)-1, amount \in 1..3 :
    \A index \in {p, p + Width(holders)} :
        Fold(holders, EntitlementLeaf(index, amount), Proof(holders, seen, p), index) = root
        => /\ index \in Unclaimed
           /\ amount = Owed(index)
           /\ \A q \in DOMAIN leaves \ {index} : seen[q] = leaves[q]

(* What SnapshotChain takes for granted: roots are as different as the     *)
(* trees, and folding a leaf with a proof is replacing that leaf.          *)
RootIsLeafVector ==
    /\ TreeRoot(holders, seen) = TreeRoot(holders, leaves) <=> seen = leaves
    /\ \A i \in DOMAIN leaves :
        \A leaf \in {ClaimedLeaf(i), EntitlementLeaf(i, Owed(i)), PaddingLeaf(i)} :
            Fold(holders, leaf, Proof(holders, seen, i), i)
              = TreeRoot(holders, [seen EXCEPT ![i] = leaf])
===============================================================================
