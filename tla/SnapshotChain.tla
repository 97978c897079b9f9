---------------------------- MODULE SnapshotChain -----------------------------
(***************************************************************************)
(* The snapshot token on the ledger: the token covenant, the singleton     *)
(* claim controller and the transactions that spend them.                  *)
(*                                                                         *)
(*   contracts/kasmelt-snapshot-controller.sil   what a claim must satisfy *)
(*   contracts/kasmelt-snapshot-token.sil        what a token move must    *)
(*   harness/src/snapshot.rs                     how transactions are built*)
(*                                                                         *)
(* A transaction is built from a state of the ledger that its author saw,  *)
(* travels for a while, and is judged against the state it then meets.     *)
(* Anyone may claim for any holder (no holder signature is needed), so     *)
(* claims race for the one controller cell.                                *)
(*                                                                         *)
(* Abstractions.                                                           *)
(*  - Hashes are free: a root is the vector of leaves it commits to, a     *)
(*    proof is that vector without the claimed position, and folding puts  *)
(*    a leaf back.  MerkleTree.tla checks that the program's layered tree, *)
(*    proof and fold are such an encoding.                                 *)
(*  - An owner is the pair (scheme, 32 bytes) the program keeps together.  *)
(*  - Borrow fields, the extension commitment and script bytes are the     *)
(*    same constant in every cell the program makes and are left out.      *)
(*  - The plain input that pays the fee is left out: it is a separate cell *)
(*    and the claim's KAS balance test can only fail if outputs grow.      *)
(***************************************************************************)
EXTENDS TokenUnits, Integers

CONSTANTS
    HolderCount,    \* holders in the frozen snapshot
    Width,          \* leaves of the entitlement tree
    HolderOwner,    \* [Index -> Owners], after sorting and de-duplication
    HolderAmount,   \* [Index -> positive amount]
    Owners,         \* owners that hold a key or a script (P2PK, P2SH)
    Deployer,       \* the temporary bootstrap key
    Controller,     \* the covenant id of the controller, as a token owner
    CellKas,        \* the native value pinned into every covenant cell
    Clients,        \* parties that build and submit claims
    Tampers,        \* the ways a submitted claim may deviate from an honest one
    TransferKas,    \* native values an owner may give the cells of a transfer
    MaxTransfers    \* bound: transfers between owners in one behaviour

Index == 0..HolderCount-1
Position == 0..Width-1
Party == Owners \cup {Deployer, Controller}

ASSUME SnapshotAssumption ==
    /\ HolderCount \in Nat \ {0}
    /\ Width \in Nat /\ Width >= HolderCount /\ Width >= 2
    /\ HolderOwner \in [Index -> Owners]
    /\ HolderAmount \in [Index -> Nat \ {0}]

ASSUME PartyAssumption ==
    /\ Deployer \notin Owners
    /\ Controller \notin Owners
    /\ Deployer # Controller

ASSUME BoundAssumption ==
    /\ CellKas \in Nat \ {0}
    /\ TransferKas \subseteq Nat \ {0}
    /\ MaxTransfers \in Nat

(* Snapshot.total: the whole supply the token genesis mints. *)
Total == Weight(Index, HolderAmount)

-------------------------------------------------------------------------------
(* The entitlement tree. *)

EntitlementLeaf(i, owner, amount) ==
    [tag |-> "entitlement", index |-> i, owner |-> owner, amount |-> amount]
ClaimedLeaf(i) ==
    [tag |-> "claimed", index |-> i, owner |-> Deployer, amount |-> 0]
PaddingLeaf(p) ==
    [tag |-> "padding", index |-> p, owner |-> Deployer, amount |-> 0]
(* The hash a proof carries after a byte of it was flipped: no leaf has it. *)
GarbledLeaf ==
    [tag |-> "garbled", index |-> 0, owner |-> Deployer, amount |-> 0]

Leaf == [tag : {"entitlement", "claimed", "padding", "garbled"},
         index : Nat, owner : Party, amount : Nat]
Root == [Position -> Leaf]

(* MerkleTree::from_holders: entitlements in holder order, then padding. *)
InitialRoot ==
    [p \in Position |-> IF p \in Index
                        THEN EntitlementLeaf(p, HolderOwner[p], HolderAmount[p])
                        ELSE PaddingLeaf(p)]

(* MerkleTree::retire. *)
Retire(root, i) == [root EXCEPT ![i] = ClaimedLeaf(i)]

(* MerkleTree::proof: everything the root commits to except position i. *)
Proof(root, i) == [root EXCEPT ![i] = GarbledLeaf]

(* The controller's fold: the root a leaf gives with these siblings at i. *)
Fold(leaf, siblings, i) == [siblings EXCEPT ![i] = leaf]

(* The level-0 sibling of position i (cursor ^ 1). *)
Buddy(i) == IF i % 2 = 0 THEN i + 1 ELSE i - 1

-------------------------------------------------------------------------------
Outpoint == Nat \X (0..2)

TokenCell == [op : Outpoint, amount : Nat, owner : Party, kas : Nat]
ControllerCell == [op : Outpoint, root : Root, kas : Nat]

(* A claim transaction: the cells it spends, the witness, and the outputs. *)
ClaimTx ==
    [controller : Outpoint, reserve : Outpoint, tokenInputs : 1..2,
     index : Nat, owner : Owners, amount : Nat, siblings : Root,
     tokenOutputs : 2..3,
     reserveNext : [amount : Nat, owner : Party, kas : Nat],
     recipient : [amount : Nat, owner : Party, kas : Nat],
     successors : 0..1,
     successor : [root : Root, kas : Nat]]

CellAmount == [cell \in TokenCell |-> cell.amount]
AmountOf(cells) == Weight(cells, CellAmount)

VARIABLES
    cells,         \* unspent token cells
    controllers,   \* unspent controller cells
    txs,           \* transactions accepted so far; also the next txid
    transfers,     \* transfers made so far (bounded by MaxTransfers)
    pending,       \* [Clients -> the claim in flight, as a set of at most one]
    oldRoots,      \* every root the controller has had: what proofs were made of
    payouts        \* history: the recipient output of every accepted claim

vars == <<cells, controllers, txs, transfers, pending, oldRoots, payouts>>

Init ==
    /\ cells = {}
    /\ controllers = {}
    /\ txs = 0
    /\ transfers = 0
    /\ pending = [c \in Clients |-> {}]
    /\ oldRoots = {}
    /\ payouts = {}

-------------------------------------------------------------------------------
(* The token covenant. *)

(* Mutant: a covenant owner counts as present without being an input.      *)
AuthorizeAbsentController(ins, signers, controllerInput) ==
    \A cell \in ins : cell.owner \in signers \/ cell.owner = Controller

(* authorize: every token input is spent by its owner; a covenant owner is *)
(* present as a controller input of the same transaction.                  *)
Authorize(ins, signers, controllerInput) ==
    \A cell \in ins :
        \/ cell.owner \in signers
        \/ cell.owner = Controller /\ controllerInput

(* Mutant: outputs may total less than inputs.                             *)
ConserveAtMost(ins, outs) ==
    /\ Cardinality(ins) \in 1..2
    /\ Cardinality(outs) \in 1..2
    /\ \A cell \in outs : cell.amount >= 0
    /\ AmountOf(ins) >= AmountOf(outs)

(* conserve: equal totals, no negative output, at most two on each side. *)
Conserve(ins, outs) ==
    /\ Cardinality(ins) \in 1..2
    /\ Cardinality(outs) \in 1..2
    /\ \A cell \in outs : cell.amount >= 0
    /\ AmountOf(ins) = AmountOf(outs)

-------------------------------------------------------------------------------
(* Bootstrap: SnapshotLab::new and the first three stages of the runner. *)

(* The whole supply is minted to the bootstrap key. *)
TokenGenesis ==
    /\ txs = 0
    /\ cells' = {[op |-> <<0, 0>>, amount |-> Total, owner |-> Deployer,
                  kas |-> CellKas]}
    /\ txs' = 1
    /\ UNCHANGED <<controllers, transfers, pending, oldRoots, payouts>>

(* The controller is born with the full entitlement root. *)
ControllerGenesis ==
    /\ txs = 1
    /\ controllers' = {[op |-> <<1, 0>>, root |-> InitialRoot, kas |-> CellKas]}
    /\ oldRoots' = {InitialRoot}
    /\ txs' = 2
    /\ UNCHANGED <<cells, transfers, pending, payouts>>

(* The bootstrap key hands the supply to the controller, in one cell. *)
ReserveHandoff ==
    /\ txs = 2
    /\ \E cell \in cells :
        LET reserve == [op |-> <<2, 0>>, amount |-> Total, owner |-> Controller,
                        kas |-> CellKas]
        IN  /\ Authorize({cell}, {Deployer}, FALSE)
            /\ Conserve({cell}, {reserve})
            /\ cells' = (cells \ {cell}) \cup {reserve}
    /\ txs' = 3
    /\ UNCHANGED <<controllers, transfers, pending, oldRoots, payouts>>

-------------------------------------------------------------------------------
(* Claims. *)

OtherOwner(o) == IF \E p \in Owners : p # o
                 THEN CHOOSE p \in Owners : p # o ELSE Deployer

(* SnapshotLab::execute: the transaction for holder i, spending controller *)
(* k and reserve r, with a proof taken from `root`, changed as `tamper`    *)
(* says (ClaimTamper).                                                     *)
BuiltClaim(i, k, r, root, tamper) ==
    LET proof == Proof(root, i) IN
    [controller   |-> k.op,
     reserve      |-> r.op,
     tokenInputs  |-> IF tamper = "ExtraTokenInput" THEN 2 ELSE 1,
     index        |-> i,
     owner        |-> HolderOwner[i],
     amount       |-> HolderAmount[i],
     siblings     |-> IF tamper = "Proof"
                      THEN [proof EXCEPT ![Buddy(i)] = GarbledLeaf] ELSE proof,
     tokenOutputs |-> IF tamper = "ExtraTokenOutput" THEN 3 ELSE 2,
     reserveNext  |-> [amount |-> r.amount - HolderAmount[i]
                                  + (IF tamper = "ReserveAmount" THEN 1 ELSE 0),
                       owner  |-> r.owner,
                       kas    |-> IF tamper = "ReserveKas" THEN CellKas - 1
                                  ELSE CellKas],
     recipient    |-> [amount |-> HolderAmount[i]
                                  + (IF tamper = "Amount" THEN 1 ELSE 0),
                       owner  |-> IF tamper = "Destination"
                                  THEN OtherOwner(HolderOwner[i])
                                  ELSE HolderOwner[i],
                       kas    |-> IF tamper = "RecipientKas" THEN CellKas - 1
                                  ELSE CellKas],
     successors   |-> IF tamper = "DropController" THEN 0 ELSE 1,
     successor    |-> [root |-> IF tamper = "SuccessorRoot" THEN k.root
                                ELSE Retire(k.root, i),
                       kas  |-> IF tamper = "ControllerKas" THEN CellKas - 1
                                ELSE CellKas]]

(* Mutant: the reserve left may be negative.                               *)
BuildUnchecked(c, i, tamper) ==
    /\ pending[c] = {}
    /\ \E k \in controllers, r \in cells, root \in oldRoots :
        /\ r.owner \in {Deployer, Controller}
        /\ pending' = [pending EXCEPT
                         ![c] = {BuiltClaim(i, k, r, root, tamper)}]
    /\ UNCHANGED <<cells, controllers, txs, transfers, oldRoots, payouts>>

(* A client builds and submits a claim from what it last saw.  The proof   *)
(* may be an old one; the cells are current when it is built and may be    *)
(* spent by the time it arrives.  A negative amount has no encoding, so    *)
(* such a claim is never built.                                            *)
Build(c, i, tamper) ==
    /\ pending[c] = {}
    /\ \E k \in controllers, r \in cells, root \in oldRoots :
        /\ r.owner \in {Deployer, Controller}
        /\ BuiltClaim(i, k, r, root, tamper).reserveNext.amount >= 0
        /\ pending' = [pending EXCEPT
                         ![c] = {BuiltClaim(i, k, r, root, tamper)}]
    /\ UNCHANGED <<cells, controllers, txs, transfers, oldRoots, payouts>>

(* SnapshotLab::claim: an honest claim for a holder not yet claimed, from  *)
(* the current tree and the reserve.                                       *)
Claim(c, i) ==
    /\ pending[c] = {}
    /\ \E k \in controllers, r \in cells :
        /\ k.root[i] = EntitlementLeaf(i, HolderOwner[i], HolderAmount[i])
        /\ r.owner = Controller
        /\ r.amount >= HolderAmount[i]
        /\ pending' = [pending EXCEPT
                         ![c] = {BuiltClaim(i, k, r, k.root, "None")}]
    /\ UNCHANGED <<cells, controllers, txs, transfers, oldRoots, payouts>>

(* The two cells a claim creates in the token covenant. *)
ReserveOutput(tx) ==
    [op |-> <<txs, 0>>, amount |-> tx.reserveNext.amount,
     owner |-> tx.reserveNext.owner, kas |-> tx.reserveNext.kas]
RecipientOutput(tx) ==
    [op |-> <<txs, 1>>, amount |-> tx.recipient.amount,
     owner |-> tx.recipient.owner, kas |-> tx.recipient.kas]
(* And the controller cells: none if the successor was dropped.            *)
ControllerOutput(tx) ==
    [op |-> <<txs, 2>>, root |-> tx.successor.root, kas |-> tx.successor.kas]
ControllerOutputs(tx) ==
    IF tx.successors = 1 THEN {ControllerOutput(tx)} ELSE {}

(* claim: what the controller demands of the transaction that spends it.   *)

(* The witness proves an entitlement that the present root still carries.  *)
ProvesEntitlement(tx, k) ==
    /\ tx.index < HolderCount
    /\ tx.amount > 0
    /\ Fold(EntitlementLeaf(tx.index, tx.owner, tx.amount), tx.siblings, tx.index)
         = k.root

(* Mutant: a claim may not empty the reserve.                              *)
SplitsReserveStrictly(tx, r) ==
    /\ tx.tokenInputs = 1
    /\ tx.tokenOutputs = 2
    /\ r.owner = Controller
    /\ r.amount > tx.amount
    /\ tx.reserveNext.amount = r.amount - tx.amount
    /\ tx.reserveNext.owner = Controller
    /\ tx.reserveNext.kas = CellKas

(* One token input, the controller's reserve, leaves the rest to itself.   *)
SplitsReserve(tx, r) ==
    /\ tx.tokenInputs = 1
    /\ tx.tokenOutputs = 2
    /\ r.owner = Controller
    /\ r.amount >= tx.amount
    /\ tx.reserveNext.amount = r.amount - tx.amount
    /\ tx.reserveNext.owner = Controller
    /\ tx.reserveNext.kas = CellKas

(* Mutant: the owner is not compared with the leaf.                        *)
PaysAnybody(tx) ==
    /\ tx.recipient.amount = tx.amount
    /\ tx.recipient.kas >= CellKas

PaysEntitlement(tx) ==
    /\ tx.recipient.amount = tx.amount
    /\ tx.recipient.owner = tx.owner
    /\ tx.recipient.kas >= CellKas

(* Mutant: the successor's root is not derived from the proof.             *)
HandsOverAnyRoot(tx, k) ==
    /\ tx.successors = 1
    /\ tx.successor.kas = k.kas

(* Mutant: the successor keeps the root.                                   *)
HandsOverSameRoot(tx, k) ==
    /\ tx.successors = 1
    /\ tx.successor.kas = k.kas
    /\ tx.successor.root = k.root

(* Mutant: the successor's native value is not compared.                   *)
HandsOverAnyKas(tx, k) ==
    /\ tx.successors = 1
    /\ tx.successor.root = Fold(ClaimedLeaf(tx.index), tx.siblings, tx.index)

(* The transition's successor: one, with the same native value and the     *)
(* leaf retired.                                                           *)
HandsOver(tx, k) ==
    /\ tx.successors = 1
    /\ tx.successor.kas = k.kas
    /\ tx.successor.root = Fold(ClaimedLeaf(tx.index), tx.siblings, tx.index)

ControllerAccepts(tx, k, r) ==
    /\ ProvesEntitlement(tx, k)
    /\ SplitsReserve(tx, r)
    /\ PaysEntitlement(tx)
    /\ HandsOver(tx, k)

(* The network accepts a claim whose inputs are unspent and whose input    *)
(* scripts all pass: the controller's and the token's.                     *)
Admissible(tx, k, r) ==
    /\ k.op = tx.controller
    /\ r.op = tx.reserve
    /\ ControllerAccepts(tx, k, r)
    /\ Authorize({r}, {}, TRUE)
    /\ Conserve({r}, {ReserveOutput(tx), RecipientOutput(tx)})

(* An accepted claim takes effect.  Its author does not know yet: the same *)
(* transaction may arrive again.                                           *)
Accept(c) ==
    \E tx \in pending[c], k \in controllers, r \in cells :
        /\ Admissible(tx, k, r)
        /\ cells' = (cells \ {r}) \cup {ReserveOutput(tx), RecipientOutput(tx)}
        /\ controllers' = (controllers \ {k}) \cup ControllerOutputs(tx)
        /\ oldRoots' = oldRoots \cup {tx.successor.root}
        /\ payouts' = payouts \cup
             {[index |-> tx.index, owner |-> tx.recipient.owner,
               amount |-> tx.recipient.amount, op |-> <<txs, 1>>]}
        /\ txs' = txs + 1
        /\ UNCHANGED <<transfers, pending>>

(* A transaction that cannot be accepted is refused and its author learns  *)
(* so: an input is spent, or a script fails.                               *)
Refuse(c) ==
    /\ \E tx \in pending[c] :
          \A k \in controllers, r \in cells : ~Admissible(tx, k, r)
    /\ pending' = [pending EXCEPT ![c] = {}]
    /\ UNCHANGED <<cells, controllers, txs, transfers, oldRoots, payouts>>

(* A transaction is lost on the way. *)
Lose(c) ==
    /\ pending[c] # {}
    /\ pending' = [pending EXCEPT ![c] = {}]
    /\ UNCHANGED <<cells, controllers, txs, transfers, oldRoots, payouts>>

-------------------------------------------------------------------------------
(* Ordinary token transfers by owners: keep, split, merge, pay anyone, the *)
(* controller included, in cells of any native value: only the controller  *)
(* pins KAS.  simulate_p2pk_recipient_split and the runner's last stage    *)
(* are the splits the program makes itself.                                *)
Transfer ==
    /\ transfers < MaxTransfers
    /\ \E a \in cells, b \in cells :
        LET ins == {a, b} IN
        /\ Authorize(ins, Owners, FALSE)
        /\ \E keep \in 0..AmountOf(ins), to \in Owners \cup {Controller},
              rest \in Owners \cup {Controller}, kas \in TransferKas :
            LET first  == [op |-> <<txs, 0>>, amount |-> keep, owner |-> to,
                           kas |-> kas]
                second == [op |-> <<txs, 1>>, amount |-> AmountOf(ins) - keep,
                           owner |-> rest, kas |-> kas]
            IN  \E outs \in {{first}, {first, second}} :
                  /\ Conserve(ins, outs)
                  /\ cells' = (cells \ ins) \cup outs
    /\ txs' = txs + 1
    /\ transfers' = transfers + 1
    /\ UNCHANGED <<controllers, pending, oldRoots, payouts>>

-------------------------------------------------------------------------------
Next ==
    \/ TokenGenesis
    \/ ControllerGenesis
    \/ ReserveHandoff
    \/ \E c \in Clients :
        \/ \E i \in Index : Claim(c, i)
        \/ \E i \in Index, tamper \in Tampers : Build(c, i, tamper)
        \/ Accept(c)
        \/ Refuse(c)
        \/ Lose(c)
    \/ Transfer

Spec == Init /\ [][Next]_vars

(* The deployer finishes the bootstrap; every client keeps claiming for    *)
(* the holders still unclaimed and rebuilds what was refused or lost       *)
(* (docs/integration.md: "losing clients must discover the accepted state  *)
(* and rebuild their proofs"); the network answers every submission and    *)
(* does not lose the same claim forever.                                   *)
Fairness ==
    /\ WF_vars(TokenGenesis)
    /\ WF_vars(ControllerGenesis)
    /\ WF_vars(ReserveHandoff)
    /\ \A c \in Clients :
        /\ SF_vars(\E i \in Index : Claim(c, i))
        /\ SF_vars(Accept(c))
        /\ WF_vars(Refuse(c))

FairSpec == Spec /\ Fairness

-------------------------------------------------------------------------------
(* Correctness. *)

(* Every cell, transaction and root has the shape the program gives it. *)
TypeOK ==
    /\ cells \subseteq TokenCell
    /\ controllers \subseteq ControllerCell
    /\ txs \in Nat
    /\ transfers \in 0..MaxTransfers
    /\ pending \in [Clients -> SUBSET ClaimTx]
    /\ oldRoots \subseteq Root
    /\ payouts \subseteq [index : Index, owner : Party, amount : Nat, op : Outpoint]

Live == txs >= 3

(* The holders whose leaf the current controller still carries. *)
Unclaimed == {i \in Index : \A k \in controllers : k.root[i].tag = "entitlement"}

(* Whatever claims, transfers and donations have happened, ONE cell of the *)
(* controller holds enough for everything still owed, with the native      *)
(* value its successor must have: a claim may spend only one token input,  *)
(* so enough spread over several would strand the last holders.            *)
ReserveBacksUnclaimed ==
    Live => \E r \in cells :
              /\ r.owner = Controller
              /\ r.kas = CellKas
              /\ r.amount >= Weight(Unclaimed, HolderAmount)

(* Every holder not yet paid could be paid right now: an honest claim      *)
(* built from the present state would be accepted, whoever claimed before  *)
(* and however.                                                            *)
NobodyStranded ==
    Live => \A i \in Unclaimed : \E k \in controllers, r \in cells :
              Admissible(BuiltClaim(i, k, r, k.root, "None"), k, r)

(* An entitlement is paid at most once, to its owner, in full, and exactly *)
(* the retired leaves have been paid: a replayed, stale or altered claim   *)
(* pays nothing.                                                           *)
PaidExactlyOnce ==
    /\ \A p, q \in payouts : p.index = q.index => p = q
    /\ \A p \in payouts : /\ p.owner = HolderOwner[p.index]
                          /\ p.amount = HolderAmount[p.index]
    /\ {p.index : p \in payouts} = Index \ Unclaimed

(* Tokens are neither minted nor burned after genesis, across the two      *)
(* covenants that each see a part of a transaction.                        *)
SupplyConserved == txs > 0 => AmountOf(cells) = Total

(* There is one controller, and no claim takes from or adds to the native  *)
(* value it passes on to its successor.                                    *)
KasNeverDrained ==
    /\ Cardinality(controllers) = IF txs >= 2 THEN 1 ELSE 0
    /\ \A k \in controllers : k.kas = CellKas

(* A step keeps the controller or replaces it by one that differs in one   *)
(* leaf, an entitlement now retired: no leaf comes back, padding never     *)
(* changes, and a controller never disappears.                             *)
RootOnlyRetires ==
    [][\A k \in controllers :
         \/ k \in controllers'
         \/ \E n \in controllers', i \in Index :
              /\ k.root[i] = EntitlementLeaf(i, HolderOwner[i], HolderAmount[i])
              /\ n.root = Retire(k.root, i)]_vars

(* The promise of SnapshotClaims: the pool is what the controller holds    *)
(* (the supply, until it is handed over).                                  *)
PaidTo(i) == {p \in payouts : p.index = i}
PaidAmount == [p \in payouts |-> p.amount]
Claims == INSTANCE SnapshotClaims WITH
    outstanding <- Unclaimed,
    paid <- [i \in Index |-> Weight(PaidTo(i), PaidAmount)],
    pool <- IF Live THEN AmountOf({r \in cells : r.owner = Controller})
                    ELSE Total

(* Every accepted claim is one payment of the promise; nothing else takes  *)
(* from the pool.                                                          *)
ImplementsClaims == Claims!Spec

(* While claimants keep trying, every holder is paid, in spite of losses,  *)
(* refusals, races for the controller and malformed claims.                *)
EveryonePaid == Claims!EveryonePaid
===============================================================================
