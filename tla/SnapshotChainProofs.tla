-------------------------- MODULE SnapshotChainProofs -------------------------
(***************************************************************************)
(* Theorems about SnapshotChain, for every snapshot: any number of holders *)
(* and amounts, any tree width that holds them, any clients and any claim  *)
(* a client can build.                                                     *)
(*                                                                         *)
(* The claims that reach the network are only known to be well-typed (the  *)
(* set ClaimTx): the proofs use what Admissible tests and nothing of how   *)
(* BuiltClaim made the transaction.                                        *)
(***************************************************************************)
EXTENDS SnapshotChain, TokenUnitsProofs

(* OtherOwner names somebody. *)
LEMMA OtherOwnerType ==
    ASSUME NEW o PROVE OtherOwner(o) \in Party
BY DEF OtherOwner, Party

(* Every root and proof the program makes is a vector of leaves. *)
LEMMA RootType ==
    /\ InitialRoot \in Root
    /\ \A i \in Nat : ClaimedLeaf(i) \in Leaf
    /\ GarbledLeaf \in Leaf
    /\ \A root \in Root : \A i \in Nat :
          Proof(root, i) \in Root /\ Retire(root, i) \in Root
<1>1. \A i \in Nat : ClaimedLeaf(i) \in Leaf /\ PaddingLeaf(i) \in Leaf
  BY DEF ClaimedLeaf, PaddingLeaf, Leaf, Party
<1>2. GarbledLeaf \in Leaf
  BY DEF GarbledLeaf, Leaf, Party
<1>3. \A p \in Index : EntitlementLeaf(p, HolderOwner[p], HolderAmount[p]) \in Leaf
  BY SnapshotAssumption DEF EntitlementLeaf, Leaf, Party, Index
<1>4. InitialRoot \in Root
  BY <1>1, <1>3, SnapshotAssumption DEF InitialRoot, Root, Position
<1>5. \A root \in Root : \A i \in Nat : Proof(root, i) \in Root
  BY <1>2 DEF Proof, Root
<1>6. \A root \in Root : \A i \in Nat : Retire(root, i) \in Root
  BY <1>1 DEF Retire, Root
<1> QED BY <1>1, <1>2, <1>4, <1>5, <1>6

(* A claim that can be encoded is a transaction, tampered with or not. *)
LEMMA BuiltClaimType ==
    ASSUME NEW i \in Index, NEW k \in ControllerCell, NEW r \in TokenCell,
           NEW root \in Root, NEW tamper,
           BuiltClaim(i, k, r, root, tamper).reserveNext.amount >= 0
    PROVE  BuiltClaim(i, k, r, root, tamper) \in ClaimTx
<1> DEFINE tx == BuiltClaim(i, k, r, root, tamper)
<1>1. i \in Nat /\ HolderAmount[i] \in Nat /\ HolderOwner[i] \in Owners
  BY SnapshotAssumption DEF Index
<1>2. /\ k.op \in Outpoint /\ k.root \in Root
      /\ r.op \in Outpoint /\ r.amount \in Nat /\ r.owner \in Party
  BY DEF ControllerCell, TokenCell
<1>3. CellKas \in Nat /\ CellKas - 1 \in Nat
  BY BoundAssumption
<1>4. Proof(root, i) \in Root /\ Retire(k.root, i) \in Root
  BY <1>1, <1>2, RootType
<1>5. tx.siblings \in Root
  <2>1. [Proof(root, i) EXCEPT ![Buddy(i)] = GarbledLeaf] \in Root
    BY <1>4, RootType DEF Root
  <2> QED BY <1>4, <2>1 DEF BuiltClaim
<1>6. tx.reserveNext \in [amount : Nat, owner : Party, kas : Nat]
  <2>1. tx.reserveNext.amount = r.amount - HolderAmount[i]
                                + (IF tamper = "ReserveAmount" THEN 1 ELSE 0)
    BY DEF BuiltClaim
  <2>2. tx.reserveNext.amount \in Nat
    BY <1>1, <1>2, <2>1
  <2>3. tx.reserveNext.kas \in Nat /\ tx.reserveNext.owner \in Party
    BY <1>2, <1>3 DEF BuiltClaim
  <2>4. tx.reserveNext = [amount |-> tx.reserveNext.amount,
                          owner |-> tx.reserveNext.owner,
                          kas |-> tx.reserveNext.kas]
    BY DEF BuiltClaim
  <2> QED BY <2>2, <2>3, <2>4
<1>7. tx.recipient \in [amount : Nat, owner : Party, kas : Nat]
  BY <1>1, <1>3, OtherOwnerType DEF BuiltClaim, Party
<1>8. tx.successor \in [root : Root, kas : Nat]
  BY <1>2, <1>3, <1>4 DEF BuiltClaim
<1>9. tx.tokenInputs \in 1..2 /\ tx.tokenOutputs \in 2..3 /\ tx.successors \in 0..1
  BY DEF BuiltClaim
<1>10. /\ tx.controller \in Outpoint /\ tx.reserve \in Outpoint
       /\ tx.index \in Nat /\ tx.owner \in Owners /\ tx.amount \in Nat
  BY <1>1, <1>2 DEF BuiltClaim
<1>11. tx = [controller |-> tx.controller, reserve |-> tx.reserve,
             tokenInputs |-> tx.tokenInputs, index |-> tx.index,
             owner |-> tx.owner, amount |-> tx.amount,
             siblings |-> tx.siblings, tokenOutputs |-> tx.tokenOutputs,
             reserveNext |-> tx.reserveNext, recipient |-> tx.recipient,
             successors |-> tx.successors, successor |-> tx.successor]
  BY DEF BuiltClaim
<1>12. tx \in ClaimTx
  <2> HIDE DEF tx
  <2> QED BY <1>5, <1>6, <1>7, <1>8, <1>9, <1>10, <1>11 DEF ClaimTx
<1> QED BY <1>12

-------------------------------------------------------------------------------
(* The inductive invariant. *)

(* Outpoints name transactions already accepted, so an output never        *)
(* collides with a cell that exists.                                       *)
Fresh ==
    /\ IsFiniteSet(cells)
    /\ \A r \in cells : r.op[1] < txs

(* Until the handoff the bootstrap key owns the one token cell; the        *)
(* controller exists from the second transaction on, and is one cell.      *)
Bootstrap ==
    /\ txs = 0 => cells = {}
    /\ txs \in {1, 2} => \A a, b \in cells : a = b /\ a.owner = Deployer
    /\ txs < 2 => controllers = {}
    /\ txs >= 2 => controllers # {} /\ \A k, n \in controllers : k = n

(* The controller carries, for each holder, that holder's entitlement or   *)
(* its tombstone, and never anything else.                                 *)
RootShape ==
    \A k \in controllers : \A i \in Index :
        \/ k.root[i] = EntitlementLeaf(i, HolderOwner[i], HolderAmount[i])
        \/ k.root[i] = ClaimedLeaf(i)

(* The controller passes its native value on.                              *)
KasPinned == \A k \in controllers : k.kas = CellKas

IInv ==
    /\ TypeOK
    /\ Fresh
    /\ Bootstrap
    /\ RootShape
    /\ KasPinned
    /\ SupplyConserved
    /\ ReserveBacksUnclaimed
    /\ PaidExactlyOnce

-------------------------------------------------------------------------------
(* Sums over cells and holders. *)

LEMMA CellAmountIs ==
    \A r \in TokenCell : CellAmount[r] = r.amount /\ CellAmount[r] \in Nat
BY DEF CellAmount, TokenCell

LEMMA OwedType ==
    /\ IsFiniteSet(Index)
    /\ \A i \in Index : HolderAmount[i] \in Nat
    /\ \A S \in SUBSET Index :
          IsFiniteSet(S) /\ Weight(S, HolderAmount) \in Nat
    /\ Total \in Nat
<1>1. 0 \in Int /\ HolderCount - 1 \in Int
  BY SnapshotAssumption
<1>2. IsFiniteSet(Index)
  BY <1>1, FS_Interval DEF Index
<1>3. \A i \in Index : HolderAmount[i] \in Nat
  BY SnapshotAssumption
<1>4. ASSUME NEW S \in SUBSET Index
      PROVE  IsFiniteSet(S) /\ Weight(S, HolderAmount) \in Nat
  <2>1. IsFiniteSet(S)
    BY <1>2, FS_Subset
  <2> QED BY <2>1, <1>3, UnitsFinite
<1>5. Total \in Nat
  BY <1>4 DEF Total
<1> QED BY <1>2, <1>3, <1>4, <1>5

(* Everything the present cells hold is a number, and what conserve equates *)
(* is what the supply loses and gains.                                      *)
LEMMA SpendConserves ==
    ASSUME TypeOK, Fresh,
           NEW ins \in SUBSET cells, NEW outs \in SUBSET TokenCell,
           IsFiniteSet(outs), \A o \in outs : o.op[1] = txs,
           AmountOf(ins) = AmountOf(outs)
    PROVE  /\ AmountOf((cells \ ins) \cup outs) = AmountOf(cells)
           /\ IsFiniteSet((cells \ ins) \cup outs)
           /\ \A o \in (cells \ ins) \cup outs : o.op[1] < txs + 1
<1>1. cells \cap outs = {}
  <2> SUFFICES ASSUME NEW o \in cells, o \in outs PROVE FALSE
    OBVIOUS
  <2>1. o.op[1] < txs /\ o.op[1] = txs
    BY DEF Fresh
  <2> QED BY <2>1 DEF TypeOK
<1>2. \A y \in cells \cup outs : CellAmount[y] \in Nat
  BY CellAmountIs DEF TypeOK
<1>3. AmountOf((cells \ ins) \cup outs) = AmountOf(cells)
  BY <1>1, <1>2, WeightReplace DEF AmountOf, Fresh
<1>4. IsFiniteSet(cells \ ins)
  BY FS_Subset DEF Fresh
<1>5. IsFiniteSet((cells \ ins) \cup outs)
  BY <1>4, FS_Union
<1>6. ASSUME NEW o \in (cells \ ins) \cup outs PROVE o.op[1] < txs + 1
  <2>1. CASE o \in cells
    <3>1. o.op[1] < txs /\ o.op[1] \in Nat /\ txs \in Nat
      BY <2>1 DEF Fresh, TypeOK, TokenCell, Outpoint
    <3> QED BY <3>1
  <2>2. CASE o \in outs
    BY <2>2 DEF TypeOK
  <2> QED BY <2>1, <2>2
<1> QED BY <1>3, <1>5, <1>6

(* What the guards of an accepted claim amount to: the leaf at the claimed *)
(* position is the claimant's untouched entitlement, and the successor is  *)
(* the same tree with that leaf retired.                                   *)
LEMMA AdmissibleFacts ==
    ASSUME TypeOK, RootShape, NEW tx \in ClaimTx,
           NEW k \in controllers, NEW r \in cells, Admissible(tx, k, r)
    PROVE  /\ tx.index \in Index
           /\ k.root[tx.index] = EntitlementLeaf(tx.index, HolderOwner[tx.index],
                                                 HolderAmount[tx.index])
           /\ tx.owner = HolderOwner[tx.index]
           /\ tx.amount = HolderAmount[tx.index]
           /\ tx.successor.root = Retire(k.root, tx.index)
           /\ r.owner = Controller
           /\ r.amount >= HolderAmount[tx.index]
           /\ ReserveOutput(tx) \in TokenCell
           /\ RecipientOutput(tx) \in TokenCell
           /\ ControllerOutput(tx) \in ControllerCell
<1> DEFINE i == tx.index
           leaf == EntitlementLeaf(i, tx.owner, tx.amount)
<1>1. i \in Index
  BY SnapshotAssumption DEF Admissible, ControllerAccepts, ProvesEntitlement,
    SplitsReserve, PaysEntitlement, HandsOver, ClaimTx, Index
<1>2. i \in Position
  BY <1>1, SnapshotAssumption DEF Index, Position
<1>3. tx.siblings \in [Position -> Leaf] /\ k.root \in [Position -> Leaf]
  BY DEF ClaimTx, TypeOK, ControllerCell, Root
<1>4. k.root = [tx.siblings EXCEPT ![i] = leaf]
  BY DEF Admissible, ControllerAccepts, ProvesEntitlement,
    SplitsReserve, PaysEntitlement, HandsOver, Fold
<1>5. k.root[i] = leaf
  BY <1>2, <1>3, <1>4
<1>6. \/ leaf = EntitlementLeaf(i, HolderOwner[i], HolderAmount[i])
      \/ leaf = ClaimedLeaf(i)
  BY <1>1, <1>5 DEF RootShape
<1>7. leaf # ClaimedLeaf(i)
  BY DEF EntitlementLeaf, ClaimedLeaf
<1>8. tx.owner = HolderOwner[i] /\ tx.amount = HolderAmount[i]
  BY <1>6, <1>7 DEF EntitlementLeaf
<1>9. tx.successor.root = [tx.siblings EXCEPT ![i] = ClaimedLeaf(i)]
  BY DEF Admissible, ControllerAccepts, ProvesEntitlement,
    SplitsReserve, PaysEntitlement, HandsOver, Fold
<1>10. tx.successor.root = Retire(k.root, i)
  BY <1>3, <1>4, <1>9 DEF Retire
<1>11. r.owner = Controller /\ r.amount >= tx.amount
  BY DEF Admissible, ControllerAccepts, ProvesEntitlement,
    SplitsReserve, PaysEntitlement, HandsOver
<1>12. /\ <<txs, 0>> \in Outpoint /\ <<txs, 1>> \in Outpoint
       /\ <<txs, 2>> \in Outpoint
  BY DEF Outpoint, TypeOK
<1>13. /\ tx.reserveNext \in [amount : Nat, owner : Party, kas : Nat]
       /\ tx.recipient \in [amount : Nat, owner : Party, kas : Nat]
       /\ tx.successor \in [root : Root, kas : Nat]
  BY DEF ClaimTx
<1>14. ReserveOutput(tx) \in TokenCell /\ RecipientOutput(tx) \in TokenCell
  BY <1>12, <1>13 DEF ReserveOutput, RecipientOutput, TokenCell
<1>15. ControllerOutput(tx) \in ControllerCell
  BY <1>12, <1>13 DEF ControllerOutput, ControllerCell
<1> QED BY <1>1, <1>5, <1>8, <1>10, <1>11, <1>14, <1>15

-------------------------------------------------------------------------------
(* Each action preserves the invariant. *)

LEMMA InitIInv == Init => IInv
<1> SUFFICES ASSUME Init PROVE IInv
  OBVIOUS
<1>1. TypeOK
  BY BoundAssumption DEF Init, TypeOK
<1>2. Fresh
  BY FS_EmptySet DEF Init, Fresh
<1>3. Bootstrap /\ RootShape /\ KasPinned /\ SupplyConserved /\ ReserveBacksUnclaimed
  BY DEF Init, Bootstrap, RootShape, KasPinned, SupplyConserved,
         ReserveBacksUnclaimed, Live
<1>4. PaidExactlyOnce
  BY DEF Init, PaidExactlyOnce, Unclaimed
<1> QED BY <1>1, <1>2, <1>3, <1>4 DEF IInv

LEMMA TokenGenesisIInv == IInv /\ TokenGenesis => IInv'
<1> SUFFICES ASSUME IInv, TokenGenesis PROVE IInv'
  OBVIOUS
<1> DEFINE cell == [op |-> <<0, 0>>, amount |-> Total, owner |-> Deployer,
                    kas |-> CellKas]
<1>1. cells' = {cell} /\ txs' = 1 /\ txs = 0 /\ controllers = {}
      /\ UNCHANGED <<controllers, transfers, pending, oldRoots, payouts>>
  BY DEF TokenGenesis, IInv, Bootstrap
<1>2. cell \in TokenCell
  BY OwedType, BoundAssumption DEF TokenCell, Outpoint, Party
<1>3. TypeOK'
  BY <1>1, <1>2 DEF IInv, TypeOK
<1>4. Fresh'
  <2>1. IsFiniteSet({cell})
    BY FS_Singleton
  <2>2. cell.op[1] < 1
    OBVIOUS
  <2> QED BY <1>1, <2>1, <2>2 DEF Fresh
<1>5. Bootstrap'
  <2>1. cell.owner = Deployer
    OBVIOUS
  <2> QED BY <1>1, <2>1 DEF Bootstrap
<1>6. RootShape' /\ KasPinned' /\ ReserveBacksUnclaimed' /\ PaidExactlyOnce'
  BY <1>1, PartyAssumption DEF IInv, RootShape, KasPinned, ReserveBacksUnclaimed,
     Live, PaidExactlyOnce, Unclaimed
<1>7. SupplyConserved'
  <2>1. CellAmount[cell] = Total
    BY <1>2, CellAmountIs
  <2>2. AmountOf({cell}) = Total
    BY <2>1, OwedType, WeightSingleton DEF AmountOf
  <2> QED BY <1>1, <2>2 DEF SupplyConserved, AmountOf
<1> QED BY <1>3, <1>4, <1>5, <1>6, <1>7 DEF IInv

LEMMA ControllerGenesisIInv == IInv /\ ControllerGenesis => IInv'
<1> SUFFICES ASSUME IInv, ControllerGenesis PROVE IInv'
  OBVIOUS
<1> DEFINE k == [op |-> <<1, 0>>, root |-> InitialRoot, kas |-> CellKas]
<1>1. controllers' = {k} /\ txs' = 2 /\ txs = 1 /\ controllers = {}
      /\ oldRoots' = {InitialRoot}
      /\ UNCHANGED <<cells, transfers, pending, payouts>>
  BY DEF ControllerGenesis, IInv, Bootstrap
<1>2. k \in ControllerCell
  BY RootType, BoundAssumption DEF ControllerCell, Outpoint
<1>3. TypeOK'
  BY <1>1, <1>2, RootType DEF IInv, TypeOK
<1>4. Fresh'
  BY <1>1 DEF IInv, Fresh, TypeOK, TokenCell, Outpoint
<1>5. Bootstrap'
  BY <1>1 DEF IInv, Bootstrap
<1>6. \A i \in Index :
        InitialRoot[i] = EntitlementLeaf(i, HolderOwner[i], HolderAmount[i])
  BY SnapshotAssumption DEF InitialRoot, Index, Position
<1>7. RootShape'
  BY <1>1, <1>6 DEF RootShape
<1>8. KasPinned'
  BY <1>1 DEF IInv, KasPinned
<1>9. SupplyConserved' /\ ReserveBacksUnclaimed'
  BY <1>1 DEF IInv, SupplyConserved, AmountOf, ReserveBacksUnclaimed, Live
<1>10. PaidExactlyOnce'
  <2>1. \A i \in Index : InitialRoot[i].tag = "entitlement"
    <3> TAKE i \in Index
    <3>1. EntitlementLeaf(i, HolderOwner[i], HolderAmount[i]).tag = "entitlement"
      BY DEF EntitlementLeaf
    <3>2. InitialRoot[i] = EntitlementLeaf(i, HolderOwner[i], HolderAmount[i])
      BY <1>6
    <3> QED BY <3>1, <3>2
  <2>2. Unclaimed = Index /\ Unclaimed' = Index
    BY <1>1, <2>1 DEF Unclaimed
  <2> QED BY <1>1, <2>2 DEF IInv, PaidExactlyOnce
<1> QED BY <1>3, <1>4, <1>5, <1>7, <1>8, <1>9, <1>10 DEF IInv

LEMMA ReserveHandoffIInv == IInv /\ ReserveHandoff => IInv'
<1> SUFFICES ASSUME IInv, ReserveHandoff PROVE IInv'
  OBVIOUS
<1> DEFINE reserve == [op |-> <<2, 0>>, amount |-> Total, owner |-> Controller,
                       kas |-> CellKas]
<1>1. PICK cell \in cells :
        /\ Authorize({cell}, {Deployer}, FALSE)
        /\ Conserve({cell}, {reserve})
        /\ cells' = (cells \ {cell}) \cup {reserve}
  BY DEF ReserveHandoff
<1>2. txs' = 3 /\ txs = 2
      /\ UNCHANGED <<controllers, transfers, pending, oldRoots, payouts>>
  BY DEF ReserveHandoff
<1>3. cells = {cell} /\ cells' = {reserve}
  BY <1>1, <1>2 DEF IInv, Bootstrap
<1>4. reserve \in TokenCell
  BY OwedType, BoundAssumption DEF TokenCell, Outpoint, Party
<1>5. TypeOK'
  BY <1>2, <1>3, <1>4 DEF IInv, TypeOK
<1>6. Fresh'
  <2>1. IsFiniteSet({reserve})
    BY FS_Singleton
  <2>2. reserve.op[1] < 3
    OBVIOUS
  <2> QED BY <1>2, <1>3, <2>1, <2>2 DEF Fresh
<1>7. Bootstrap'
  BY <1>2 DEF IInv, Bootstrap
<1>8. RootShape' /\ KasPinned'
  BY <1>2, <1>3 DEF IInv, RootShape, KasPinned
<1>9. SupplyConserved'
  <2>1. AmountOf({reserve}) = AmountOf(cells) /\ AmountOf(cells) = Total
    BY <1>1, <1>2, <1>3 DEF Conserve, IInv, SupplyConserved
  <2> QED BY <1>3, <2>1 DEF SupplyConserved, AmountOf
<1>10. Unclaimed' = Unclaimed
  BY <1>2 DEF Unclaimed
<1>11. ReserveBacksUnclaimed'
  <2>1. /\ Weight(Unclaimed, HolderAmount) <= Total
        /\ Weight(Unclaimed, HolderAmount) \in Nat
    BY OwedType, WeightMonotone DEF Unclaimed, Total
  <2>2. /\ reserve \in cells' /\ reserve.owner = Controller
        /\ reserve.kas = CellKas /\ reserve.amount = Total
    BY <1>3
  <2> QED BY <1>10, <2>1, <2>2, OwedType DEF ReserveBacksUnclaimed
<1>12. PaidExactlyOnce'
  BY <1>2, <1>10 DEF IInv, PaidExactlyOnce
<1> QED BY <1>5, <1>6, <1>7, <1>8, <1>9, <1>11, <1>12 DEF IInv

(* Building, refusing and losing a claim touch no cell. *)
LEMMA BuildIInv ==
    ASSUME NEW c \in Clients, NEW i \in Index, NEW tamper \in Tampers, IInv,
           Build(c, i, tamper)
    PROVE  IInv'
<1>1. PICK k \in controllers, r \in cells, root \in oldRoots :
        /\ BuiltClaim(i, k, r, root, tamper).reserveNext.amount >= 0
        /\ pending' = [pending EXCEPT
                         ![c] = {BuiltClaim(i, k, r, root, tamper)}]
  BY DEF Build
<1>2. BuiltClaim(i, k, r, root, tamper) \in ClaimTx
  BY <1>1, BuiltClaimType DEF IInv, TypeOK
<1>3. UNCHANGED <<cells, controllers, txs, transfers, oldRoots, payouts>>
  BY DEF Build
<1>4. TypeOK'
  BY <1>1, <1>2, <1>3 DEF IInv, TypeOK
<1> QED BY <1>3, <1>4 DEF IInv, Fresh, Bootstrap, RootShape, KasPinned,
      SupplyConserved, AmountOf, ReserveBacksUnclaimed, Live, Unclaimed,
      PaidExactlyOnce

LEMMA ClaimIInv ==
    ASSUME NEW c \in Clients, NEW i \in Index, IInv, Claim(c, i)
    PROVE  IInv'
<1>1. PICK k \in controllers, r \in cells :
        /\ r.amount >= HolderAmount[i]
        /\ pending' = [pending EXCEPT
                         ![c] = {BuiltClaim(i, k, r, k.root, "None")}]
  BY DEF Claim
<1>2. BuiltClaim(i, k, r, k.root, "None") \in ClaimTx
  <2>1. k \in ControllerCell /\ r \in TokenCell /\ k.root \in Root
    BY DEF IInv, TypeOK, ControllerCell
  <2>2. BuiltClaim(i, k, r, k.root, "None").reserveNext.amount
          = r.amount - HolderAmount[i] + 0
    BY DEF BuiltClaim
  <2>3. r.amount \in Nat /\ HolderAmount[i] \in Nat
    BY <2>1, OwedType DEF TokenCell
  <2>4. BuiltClaim(i, k, r, k.root, "None").reserveNext.amount >= 0
    BY <1>1, <2>2, <2>3
  <2> QED BY <2>1, <2>4, BuiltClaimType
<1>3. UNCHANGED <<cells, controllers, txs, transfers, oldRoots, payouts>>
  BY DEF Claim
<1>4. TypeOK'
  BY <1>1, <1>2, <1>3 DEF IInv, TypeOK
<1> QED BY <1>3, <1>4 DEF IInv, Fresh, Bootstrap, RootShape, KasPinned,
      SupplyConserved, AmountOf, ReserveBacksUnclaimed, Live, Unclaimed,
      PaidExactlyOnce

LEMMA ForgetIInv ==
    ASSUME NEW c \in Clients, IInv, Refuse(c) \/ Lose(c)
    PROVE  IInv'
<1>1. /\ pending' = [pending EXCEPT ![c] = {}]
      /\ UNCHANGED <<cells, controllers, txs, transfers, oldRoots, payouts>>
  BY DEF Refuse, Lose
<1>2. TypeOK'
  BY <1>1 DEF IInv, TypeOK
<1> QED BY <1>1, <1>2 DEF IInv, Fresh, Bootstrap, RootShape, KasPinned,
      SupplyConserved, AmountOf, ReserveBacksUnclaimed, Live, Unclaimed,
      PaidExactlyOnce

(* An admissible claim creates exactly one controller cell.                *)
LEMMA OneSuccessor ==
    ASSUME NEW tx, NEW k, NEW r, Admissible(tx, k, r)
    PROVE  ControllerOutputs(tx) = {ControllerOutput(tx)}
BY DEF Admissible, ControllerAccepts, HandsOver, ControllerOutputs

(* What an accepted claim does, told in terms of the tree. *)
LEMMA AcceptFacts ==
    ASSUME IInv, NEW tx \in ClaimTx, NEW k \in controllers, NEW r \in cells,
           Admissible(tx, k, r),
           controllers' = (controllers \ {k}) \cup {ControllerOutput(tx)}
    PROVE  /\ Live
           /\ controllers = {k} /\ controllers' = {ControllerOutput(tx)}
           /\ tx.index \in Unclaimed
           /\ Unclaimed' = Unclaimed \ {tx.index}
           /\ RootShape'
<1> DEFINE i == tx.index
           n == ControllerOutput(tx)
<1>1. /\ i \in Index
      /\ k.root[i] = EntitlementLeaf(i, HolderOwner[i], HolderAmount[i])
      /\ tx.successor.root = Retire(k.root, i)
      /\ r.owner = Controller
  BY AdmissibleFacts DEF IInv
<1>2. Live
  <2>1. txs \in Nat /\ txs # 0
    BY DEF IInv, TypeOK, Bootstrap
  <2>2. txs # 1 /\ txs # 2
    BY <1>1, PartyAssumption DEF IInv, Bootstrap
  <2> QED BY <2>1, <2>2 DEF Live
<1>3. controllers = {k}
  BY <1>2 DEF IInv, Bootstrap, Live, TypeOK
<1>4. controllers' = {n}
  BY <1>3
<1>5. n.root = Retire(k.root, i)
  BY <1>1 DEF ControllerOutput
<1>6. k.root \in [Position -> Leaf]
  BY DEF IInv, TypeOK, ControllerCell, Root
<1>7. Index \subseteq Position
  BY SnapshotAssumption DEF Index, Position
<1>8. /\ n.root[i] = ClaimedLeaf(i)
      /\ \A j \in Index : j # i => n.root[j] = k.root[j]
  BY <1>1, <1>5, <1>6, <1>7 DEF Retire
<1>9. k.root[i].tag = "entitlement" /\ n.root[i].tag = "claimed"
  BY <1>1, <1>8 DEF EntitlementLeaf, ClaimedLeaf
<1>10. i \in Unclaimed
  BY <1>1, <1>3, <1>9 DEF Unclaimed
<1>11. Unclaimed = {j \in Index : k.root[j].tag = "entitlement"}
  BY <1>3 DEF Unclaimed
<1>12. Unclaimed' = {j \in Index : n.root[j].tag = "entitlement"}
  <2> HIDE DEF n
  <2> QED BY <1>4 DEF Unclaimed
<1>13. Unclaimed' = Unclaimed \ {i}
  <2> HIDE DEF n
  <2> QED BY <1>8, <1>9, <1>11, <1>12
<1>14. RootShape'
  <2> HIDE DEF n
  <2> SUFFICES ASSUME NEW j \in Index
               PROVE \/ n.root[j] = EntitlementLeaf(j, HolderOwner[j], HolderAmount[j])
                     \/ n.root[j] = ClaimedLeaf(j)
    BY <1>4 DEF RootShape
  <2>1. \/ k.root[j] = EntitlementLeaf(j, HolderOwner[j], HolderAmount[j])
        \/ k.root[j] = ClaimedLeaf(j)
    BY DEF IInv, RootShape
  <2> QED BY <2>1, <1>8
<1> QED BY <1>2, <1>3, <1>4, <1>10, <1>13, <1>14

LEMMA AcceptIInv ==
    ASSUME NEW c \in Clients, IInv, Accept(c) PROVE IInv'
<1>1. PICK tx \in pending[c], k \in controllers, r \in cells :
        /\ Admissible(tx, k, r)
        /\ cells' = (cells \ {r}) \cup {ReserveOutput(tx), RecipientOutput(tx)}
        /\ controllers' = (controllers \ {k}) \cup {ControllerOutput(tx)}
        /\ oldRoots' = oldRoots \cup {tx.successor.root}
        /\ payouts' = payouts \cup
             {[index |-> tx.index, owner |-> tx.recipient.owner,
               amount |-> tx.recipient.amount, op |-> <<txs, 1>>]}
        /\ txs' = txs + 1
        /\ UNCHANGED <<transfers, pending>>
  BY OneSuccessor DEF Accept
<1> DEFINE i == tx.index
           ro == ReserveOutput(tx)
           po == RecipientOutput(tx)
           co == ControllerOutput(tx)
           pay == [index |-> tx.index, owner |-> tx.recipient.owner,
                   amount |-> tx.recipient.amount, op |-> <<txs, 1>>]
<1>2. tx \in ClaimTx
  BY <1>1 DEF IInv, TypeOK
<1>3. /\ i \in Index
      /\ tx.owner = HolderOwner[i] /\ tx.amount = HolderAmount[i]
      /\ r.owner = Controller /\ r.amount >= HolderAmount[i]
      /\ ro \in TokenCell /\ po \in TokenCell /\ co \in ControllerCell
  BY <1>1, <1>2, AdmissibleFacts DEF IInv
<1>4. /\ Live
      /\ controllers = {k} /\ controllers' = {co}
      /\ i \in Unclaimed /\ Unclaimed' = Unclaimed \ {i}
      /\ RootShape'
  BY <1>1, <1>2, AcceptFacts
<1>5. /\ tx.recipient.amount = tx.amount /\ tx.recipient.owner = tx.owner
      /\ tx.reserveNext.amount = r.amount - tx.amount
      /\ tx.reserveNext.owner = Controller
      /\ tx.reserveNext.kas = CellKas
      /\ tx.successor.kas = k.kas
  BY <1>1 DEF Admissible, ControllerAccepts, ProvesEntitlement,
    SplitsReserve, PaysEntitlement, HandsOver
<1>6. ro.op[1] = txs /\ po.op[1] = txs /\ ro.op # po.op
  BY DEF ReserveOutput, RecipientOutput
<1>7. /\ AmountOf(cells') = AmountOf(cells)
      /\ IsFiniteSet(cells')
      /\ \A o \in cells' : o.op[1] < txs + 1
  <2> HIDE DEF ro, po
  <2>1. IsFiniteSet({ro, po})
    BY PairFinite
  <2>2. AmountOf({r}) = AmountOf({ro, po})
    BY <1>1 DEF Admissible, Conserve, ro, po
  <2>3. cells' = (cells \ {r}) \cup {ro, po}
    BY <1>1 DEF ro, po
  <2>4. {r} \in SUBSET cells /\ {ro, po} \in SUBSET TokenCell
    BY <1>3
  <2>5. \A o \in {ro, po} : o.op[1] = txs
    BY <1>6
  <2>6. /\ AmountOf((cells \ {r}) \cup {ro, po}) = AmountOf(cells)
        /\ IsFiniteSet((cells \ {r}) \cup {ro, po})
        /\ \A o \in (cells \ {r}) \cup {ro, po} : o.op[1] < txs + 1
    BY <2>1, <2>2, <2>4, <2>5, SpendConserves DEF IInv
  <2> QED BY <2>3, <2>6
<1>8. pay \in [index : Index, owner : Party, amount : Nat, op : Outpoint]
  <2>1. <<txs, 1>> \in Outpoint
    BY DEF IInv, TypeOK, Outpoint
  <2>2. tx.recipient.owner \in Party /\ tx.recipient.amount \in Nat
    BY <1>2 DEF ClaimTx
  <2> QED BY <1>3, <2>1, <2>2
<1>9. TypeOK'
  <2>1. cells' \subseteq TokenCell
    BY <1>1, <1>3 DEF IInv, TypeOK
  <2>2. controllers' \subseteq ControllerCell
    BY <1>3, <1>4
  <2>3. oldRoots' \subseteq Root
    BY <1>1, <1>2 DEF IInv, TypeOK, ClaimTx
  <2>4. payouts' \subseteq [index : Index, owner : Party, amount : Nat, op : Outpoint]
    BY <1>1, <1>8 DEF IInv, TypeOK
  <2>5. txs' \in Nat /\ transfers' \in 0..MaxTransfers
        /\ pending' \in [Clients -> SUBSET ClaimTx]
    BY <1>1 DEF IInv, TypeOK
  <2> QED BY <2>1, <2>2, <2>3, <2>4, <2>5 DEF TypeOK
<1>10. Fresh'
  BY <1>1, <1>7 DEF Fresh
<1>11. Bootstrap'
  <2>1. txs' >= 3 /\ txs' \in Nat
    BY <1>1, <1>4 DEF Live, IInv, TypeOK
  <2> QED BY <2>1, <1>4 DEF Bootstrap
<1>12. KasPinned'
  <2>1. k.kas = CellKas
    BY DEF IInv, KasPinned
  <2>2. co.kas = CellKas
    BY <1>5, <2>1 DEF ControllerOutput
  <2> HIDE DEF co
  <2> QED BY <1>4, <2>2 DEF KasPinned
<1>13. SupplyConserved'
  <2>1. AmountOf(cells) = Total
    BY <1>4 DEF IInv, SupplyConserved, Live, TypeOK
  <2> QED BY <1>7, <2>1 DEF SupplyConserved, AmountOf
<1>14. ReserveBacksUnclaimed'
  <2> DEFINE owed == Weight(Unclaimed, HolderAmount)
             left == Weight(Unclaimed \ {i}, HolderAmount)
  <2>1. Unclaimed \in SUBSET Index
    BY DEF Unclaimed
  <2>2. left \in Nat /\ owed = left + HolderAmount[i] /\ HolderAmount[i] \in Nat
    BY <2>1, <1>3, <1>4, OwedType, WeightRemove
  <2>3. PICK b \in cells : /\ b.owner = Controller /\ b.kas = CellKas
                           /\ b.amount >= owed
    BY <1>4 DEF IInv, ReserveBacksUnclaimed
  <2>4. b.amount \in Nat /\ r.amount \in Nat
    BY DEF IInv, TypeOK, TokenCell
  <2>5. \E s \in cells' : /\ s.owner = Controller /\ s.kas = CellKas
                          /\ s.amount >= left
    <3>1. CASE b = r
      <4>1. /\ ro.owner = Controller /\ ro.kas = CellKas
            /\ ro.amount = r.amount - HolderAmount[i]
        BY <1>3, <1>5 DEF ReserveOutput
      <4>2. ro.amount >= left
        BY <4>1, <2>2, <2>3, <2>4, <3>1
      <4> QED BY <1>1, <4>1, <4>2
    <3>2. CASE b # r
      <4>1. b \in cells'
        BY <1>1, <3>2
      <4> QED BY <4>1, <2>2, <2>3, <2>4
    <3> QED BY <3>1, <3>2
  <2> HIDE DEF left, owed
  <2>6. Weight(Unclaimed', HolderAmount) = left
    BY <1>4 DEF left
  <2> QED BY <2>5, <2>6 DEF ReserveBacksUnclaimed
<1>15. PaidExactlyOnce'
  <2>1. payouts' = payouts \cup {pay}
    BY <1>1
  <2>2. /\ pay.index = i /\ pay.owner = HolderOwner[i]
        /\ pay.amount = HolderAmount[i]
    BY <1>3, <1>5
  <2> HIDE DEF pay
  <2>3. \A p \in payouts : p.index # i
    <3>1. {p.index : p \in payouts} = Index \ Unclaimed
      BY DEF IInv, PaidExactlyOnce
    <3> QED BY <3>1, <1>4
  <2>4. /\ \A p, q \in payouts : p.index = q.index => p = q
        /\ \A p \in payouts : p.owner = HolderOwner[p.index]
                             /\ p.amount = HolderAmount[p.index]
        /\ {p.index : p \in payouts} = Index \ Unclaimed
    BY DEF IInv, PaidExactlyOnce
  <2>5. \A p, q \in payouts' : p.index = q.index => p = q
    BY <2>1, <2>2, <2>3, <2>4
  <2>6. \A p \in payouts' : p.owner = HolderOwner[p.index]
                           /\ p.amount = HolderAmount[p.index]
    BY <2>1, <2>2, <2>4
  <2>7. {p.index : p \in payouts'} = {p.index : p \in payouts} \cup {i}
    BY <2>1, <2>2
  <2>8. {p.index : p \in payouts'} = Index \ Unclaimed'
    BY <2>4, <2>7, <1>3, <1>4
  <2> QED BY <2>5, <2>6, <2>8 DEF PaidExactlyOnce
<1> QED BY <1>4, <1>9, <1>10, <1>11, <1>12, <1>13, <1>14, <1>15 DEF IInv

LEMMA TransferIInv == IInv /\ Transfer => IInv'
<1> SUFFICES ASSUME IInv, Transfer PROVE IInv'
  OBVIOUS
<1>1. PICK a \in cells, b \in cells :
        /\ Authorize({a, b}, Owners, FALSE)
        /\ \E keep \in 0..AmountOf({a, b}), to \in Owners \cup {Controller},
              rest \in Owners \cup {Controller}, kas \in TransferKas :
            LET first  == [op |-> <<txs, 0>>, amount |-> keep, owner |-> to,
                           kas |-> kas]
                second == [op |-> <<txs, 1>>, amount |-> AmountOf({a, b}) - keep,
                           owner |-> rest, kas |-> kas]
            IN  \E outs \in {{first}, {first, second}} :
                  /\ Conserve({a, b}, outs)
                  /\ cells' = (cells \ {a, b}) \cup outs
  BY DEF Transfer
<1> DEFINE ins == {a, b}
<1>2. PICK keep \in 0..AmountOf(ins), to \in Owners \cup {Controller},
           rest \in Owners \cup {Controller}, kas \in TransferKas :
         LET first  == [op |-> <<txs, 0>>, amount |-> keep, owner |-> to,
                        kas |-> kas]
             second == [op |-> <<txs, 1>>, amount |-> AmountOf(ins) - keep,
                        owner |-> rest, kas |-> kas]
         IN  \E outs \in {{first}, {first, second}} :
               /\ Conserve(ins, outs)
               /\ cells' = (cells \ ins) \cup outs
  BY <1>1
<1> DEFINE first  == [op |-> <<txs, 0>>, amount |-> keep, owner |-> to,
                      kas |-> kas]
           second == [op |-> <<txs, 1>>, amount |-> AmountOf(ins) - keep,
                      owner |-> rest, kas |-> kas]
<1>3. PICK outs \in {{first}, {first, second}} :
        /\ Conserve(ins, outs)
        /\ cells' = (cells \ ins) \cup outs
  BY <1>2
<1>4. /\ txs' = txs + 1 /\ transfers' = transfers + 1
      /\ transfers < MaxTransfers
      /\ UNCHANGED <<controllers, pending, oldRoots, payouts>>
  BY DEF Transfer
<1>5. AmountOf(ins) \in Nat
  <2>1. IsFiniteSet(ins)
    BY FS_Subset DEF IInv, Fresh
  <2>2. \A y \in ins : CellAmount[y] \in Nat
    BY CellAmountIs DEF IInv, TypeOK
  <2> QED BY <2>1, <2>2, UnitsFinite DEF AmountOf
<1>6. first \in TokenCell /\ second \in TokenCell
  <2>1. keep \in Nat /\ AmountOf(ins) - keep \in Nat
    BY <1>5
  <2>2. <<txs, 0>> \in Outpoint /\ <<txs, 1>> \in Outpoint
    BY DEF IInv, TypeOK, Outpoint
  <2>3. to \in Party /\ rest \in Party /\ kas \in Nat
    BY BoundAssumption DEF Party
  <2> HIDE DEF ins
  <2> QED BY <2>1, <2>2, <2>3 DEF TokenCell
<1>7. first.op[1] = txs /\ second.op[1] = txs
  OBVIOUS
<1> HIDE DEF first, second
<1>8. outs \in SUBSET TokenCell /\ IsFiniteSet(outs)
      /\ \A o \in outs : o.op[1] = txs
  <2>1. IsFiniteSet({first}) /\ IsFiniteSet({first, second})
    BY FS_Singleton, PairFinite
  <2> QED BY <1>3, <1>6, <1>7, <2>1
<1>9. ins \in SUBSET cells /\ \A y \in ins : y.owner \in Owners
  BY <1>1 DEF Authorize
<1>10. AmountOf(ins) = AmountOf(outs)
  BY <1>3 DEF Conserve
<1> HIDE DEF ins
<1>11. /\ AmountOf(cells') = AmountOf(cells)
       /\ IsFiniteSet(cells')
       /\ \A o \in cells' : o.op[1] < txs + 1
  <2>1. /\ AmountOf((cells \ ins) \cup outs) = AmountOf(cells)
        /\ IsFiniteSet((cells \ ins) \cup outs)
        /\ \A o \in (cells \ ins) \cup outs : o.op[1] < txs + 1
    BY <1>8, <1>9, <1>10, SpendConserves DEF IInv
  <2> QED BY <1>3, <2>1
<1>12. Live
  <2>1. txs \in Nat /\ txs # 0 /\ a.owner \in Owners
    BY <1>1, <1>9 DEF IInv, TypeOK, Bootstrap, ins
  <2>2. txs # 1 /\ txs # 2
    BY <2>1, PartyAssumption DEF IInv, Bootstrap
  <2> QED BY <2>1, <2>2 DEF Live
<1>13. TypeOK'
  <2>1. cells' \subseteq TokenCell
    BY <1>3, <1>8 DEF IInv, TypeOK
  <2>2. txs' \in Nat /\ transfers' \in 0..MaxTransfers
    BY <1>4, BoundAssumption DEF IInv, TypeOK
  <2> QED BY <1>4, <2>1, <2>2 DEF IInv, TypeOK
<1>14. Fresh'
  BY <1>4, <1>11 DEF Fresh
<1>15. Bootstrap'
  <2>1. txs' >= 3 /\ txs' \in Nat /\ txs >= 2
    BY <1>4, <1>12 DEF Live, IInv, TypeOK
  <2> QED BY <2>1, <1>4 DEF IInv, Bootstrap
<1>16. RootShape' /\ Unclaimed' = Unclaimed /\ PaidExactlyOnce'
  BY <1>4 DEF IInv, RootShape, Unclaimed, PaidExactlyOnce
<1>17. KasPinned'
  BY <1>4 DEF IInv, KasPinned
<1>18. SupplyConserved'
  <2>1. AmountOf(cells) = Total
    BY <1>12 DEF IInv, SupplyConserved, Live, TypeOK
  <2> QED BY <1>11, <2>1 DEF SupplyConserved, AmountOf
<1>19. ReserveBacksUnclaimed'
  <2>1. PICK r \in cells : /\ r.owner = Controller /\ r.kas = CellKas
                           /\ r.amount >= Weight(Unclaimed, HolderAmount)
    BY <1>12 DEF IInv, ReserveBacksUnclaimed
  <2>2. r \in cells'
    BY <2>1, <1>3, <1>9, PartyAssumption
  <2> QED BY <2>1, <2>2, <1>16 DEF ReserveBacksUnclaimed
<1> QED BY <1>13, <1>14, <1>15, <1>16, <1>17, <1>18, <1>19 DEF IInv

-------------------------------------------------------------------------------
(* The invariant holds. *)

LEMMA NextIInv == IInv /\ [Next]_vars => IInv'
<1> SUFFICES ASSUME IInv, [Next]_vars PROVE IInv'
  OBVIOUS
<1>1. CASE TokenGenesis
  BY <1>1, TokenGenesisIInv
<1>2. CASE ControllerGenesis
  BY <1>2, ControllerGenesisIInv
<1>3. CASE ReserveHandoff
  BY <1>3, ReserveHandoffIInv
<1>4. ASSUME NEW c \in Clients, NEW i \in Index, Claim(c, i) PROVE IInv'
  BY <1>4, ClaimIInv
<1>5. ASSUME NEW c \in Clients, NEW i \in Index, NEW tamper \in Tampers,
             Build(c, i, tamper)
      PROVE  IInv'
  BY <1>5, BuildIInv
<1>6. ASSUME NEW c \in Clients, Accept(c) PROVE IInv'
  BY <1>6, AcceptIInv
<1>7. ASSUME NEW c \in Clients, Refuse(c) \/ Lose(c) PROVE IInv'
  BY <1>7, ForgetIInv
<1>8. CASE Transfer
  BY <1>8, TransferIInv
<1>9. CASE UNCHANGED vars
  BY <1>9 DEF vars, IInv, TypeOK, Fresh, Bootstrap, RootShape, KasPinned,
     SupplyConserved, AmountOf, ReserveBacksUnclaimed, Live, Unclaimed,
     PaidExactlyOnce
<1> QED BY <1>1, <1>2, <1>3, <1>4, <1>5, <1>6, <1>7, <1>8, <1>9 DEF Next

LEMMA InductiveInvariant == Spec => []IInv
<1>1. Init => IInv
  BY InitIInv
<1>2. IInv /\ [Next]_vars => IInv'
  BY NextIInv
<1> QED BY <1>1, <1>2, PTL DEF Spec

(* Every state of every behaviour is well-typed: the amounts and native    *)
(* values of cells stay natural numbers and roots stay trees of leaves.    *)
THEOREM TypeCorrect == Spec => []TypeOK
<1>1. IInv => TypeOK
  BY DEF IInv
<1> QED BY <1>1, InductiveInvariant, PTL

(* One controller-owned cell always covers everything still owed, for any  *)
(* snapshot and any order of claims, transfers and donations.              *)
THEOREM ReserveBacks == Spec => []ReserveBacksUnclaimed
<1>1. IInv => ReserveBacksUnclaimed
  BY DEF IInv
<1> QED BY <1>1, InductiveInvariant, PTL

(* No claim the network can accept pays an entitlement a second time, pays *)
(* another owner or another amount.                                        *)
THEOREM PaidOnce == Spec => []PaidExactlyOnce
<1>1. IInv => PaidExactlyOnce
  BY DEF IInv
<1> QED BY <1>1, InductiveInvariant, PTL

(* Claims and transfers neither mint nor burn. *)
THEOREM SupplyKept == Spec => []SupplyConserved
<1>1. IInv => SupplyConserved
  BY DEF IInv
<1> QED BY <1>1, InductiveInvariant, PTL

(* The singleton controller and the native value in it survive every step. *)
THEOREM KasKept == Spec => []KasNeverDrained
<1>1. IInv => KasNeverDrained
  <2> SUFFICES ASSUME IInv PROVE KasNeverDrained
    OBVIOUS
  <2>1. Cardinality(controllers) = IF txs >= 2 THEN 1 ELSE 0
    <3>1. CASE txs >= 2
      <4>1. PICK k \in controllers : TRUE
        BY <3>1 DEF IInv, Bootstrap
      <4>2. controllers = {k}
        BY <3>1, <4>1 DEF IInv, Bootstrap
      <4>3. Cardinality({k}) = 1
        BY FS_Singleton
      <4> QED BY <3>1, <4>2, <4>3
    <3>2. CASE ~(txs >= 2)
      <4>1. controllers = {}
        BY <3>2 DEF IInv, Bootstrap, TypeOK
      <4>2. Cardinality({}) = 0
        BY FS_EmptySet
      <4> QED BY <3>2, <4>1, <4>2
    <3> QED BY <3>1, <3>2
  <2> QED BY <2>1 DEF IInv, KasPinned, KasNeverDrained
<1> QED BY <1>1, InductiveInvariant, PTL

(* Whoever has not been paid can be paid now: the honest claim built from  *)
(* the present state passes both covenants.                                *)
THEOREM Unstranded == Spec => []NobodyStranded
<1>1. IInv => NobodyStranded
  <2> SUFFICES ASSUME IInv, Live, NEW i \in Unclaimed
               PROVE  \E k \in controllers, r \in cells :
                        Admissible(BuiltClaim(i, k, r, k.root, "None"), k, r)
    BY DEF NobodyStranded
  <2>1. PICK k \in controllers : TRUE
    BY DEF Live, IInv, Bootstrap, TypeOK
  <2>2. PICK r \in cells : /\ r.owner = Controller
                           /\ r.amount >= Weight(Unclaimed, HolderAmount)
    BY DEF IInv, ReserveBacksUnclaimed
  <2> DEFINE tx == BuiltClaim(i, k, r, k.root, "None")
             ro == ReserveOutput(tx)
             po == RecipientOutput(tx)
  <2>3. i \in Index /\ i \in Position /\ Unclaimed \in SUBSET Index
    BY SnapshotAssumption DEF Unclaimed, Index, Position
  <2>4. /\ HolderAmount[i] \in Nat /\ HolderAmount[i] > 0
        /\ HolderOwner[i] \in Owners /\ r.amount \in Nat
    BY <2>3, SnapshotAssumption DEF IInv, TypeOK, TokenCell
  <2>5. r.amount >= HolderAmount[i]
    <3>1. /\ Weight(Unclaimed, HolderAmount) \in Nat
          /\ HolderAmount[i] <= Weight(Unclaimed, HolderAmount)
      BY <2>3, OwedType, WeightMember
    <3> QED BY <2>2, <2>4, <3>1
  <2>6. k.root[i] = EntitlementLeaf(i, HolderOwner[i], HolderAmount[i])
    <3>1. k.root[i].tag = "entitlement"
      BY DEF Unclaimed
    <3>2. ClaimedLeaf(i).tag = "claimed"
      BY DEF ClaimedLeaf
    <3> QED BY <2>3, <3>1, <3>2 DEF IInv, RootShape
  <2>7. k.root \in [Position -> Leaf] /\ k.kas = CellKas
    BY DEF IInv, TypeOK, ControllerCell, Root, KasPinned
  <2>8. /\ tx.controller = k.op /\ tx.reserve = r.op /\ tx.index = i
        /\ tx.owner = HolderOwner[i] /\ tx.amount = HolderAmount[i]
        /\ tx.siblings = Proof(k.root, i)
        /\ tx.tokenInputs = 1 /\ tx.tokenOutputs = 2 /\ tx.successors = 1
    BY DEF BuiltClaim
  <2>9. /\ tx.reserveNext.amount = r.amount - HolderAmount[i]
        /\ tx.reserveNext.owner = Controller
        /\ tx.reserveNext.kas = CellKas
        /\ tx.recipient.amount = HolderAmount[i]
        /\ tx.recipient.owner = HolderOwner[i]
        /\ tx.recipient.kas = CellKas
    BY <2>2, <2>4 DEF BuiltClaim
  <2>10. tx.successor.root = Retire(k.root, i) /\ tx.successor.kas = CellKas
    BY DEF BuiltClaim
  <2>11. Fold(EntitlementLeaf(i, HolderOwner[i], HolderAmount[i]),
              Proof(k.root, i), i) = k.root
    BY <2>3, <2>6, <2>7 DEF Fold, Proof
  <2>12. Fold(ClaimedLeaf(i), Proof(k.root, i), i) = Retire(k.root, i)
    BY <2>3, <2>7 DEF Fold, Proof, Retire
  <2>13. i < HolderCount
    BY <2>3, SnapshotAssumption DEF Index
  <2>14. CellKas >= CellKas
    BY BoundAssumption
  <2>15. ControllerAccepts(tx, k, r)
    <3> HIDE DEF tx
    <3> QED BY <2>2, <2>4, <2>5, <2>7, <2>8, <2>9, <2>10, <2>11, <2>12, <2>13,
               <2>14 DEF ControllerAccepts, ProvesEntitlement,
               SplitsReserve, PaysEntitlement, HandsOver
  <2>16. Authorize({r}, {}, TRUE)
    BY <2>2 DEF Authorize
  <2>17. /\ ro \in TokenCell /\ po \in TokenCell
         /\ ro.amount = r.amount - HolderAmount[i]
         /\ po.amount = HolderAmount[i]
    <3>1. /\ tx.reserveNext.amount \in Nat /\ tx.recipient.amount \in Nat
          /\ tx.reserveNext.owner \in Party /\ tx.recipient.owner \in Party
          /\ tx.reserveNext.kas \in Nat /\ tx.recipient.kas \in Nat
      BY <2>4, <2>5, <2>9, BoundAssumption DEF Party
    <3>2. <<txs, 0>> \in Outpoint /\ <<txs, 1>> \in Outpoint
      BY DEF IInv, TypeOK, Outpoint
    <3> HIDE DEF tx
    <3> QED BY <2>9, <3>1, <3>2 DEF ReserveOutput, RecipientOutput, TokenCell
  <2>18. ro # po
    <3>1. ro.op[2] = 0 /\ po.op[2] = 1
      BY DEF ReserveOutput, RecipientOutput
    <3> QED BY <3>1
  <2>19. Conserve({r}, {ro, po})
    <3> HIDE DEF ro, po
    <3>1. Cardinality({r}) = 1 /\ Cardinality({ro, po}) = 2
      BY <2>18, FS_Singleton, PairFinite
    <3>2. /\ CellAmount[r] = r.amount /\ CellAmount[ro] = ro.amount
          /\ CellAmount[po] = po.amount
          /\ ro.amount \in Nat /\ po.amount \in Nat
      BY <2>17, CellAmountIs DEF IInv, TypeOK
    <3>3. AmountOf({r}) = r.amount
      BY <2>4, <3>2, WeightSingleton DEF AmountOf
    <3>4. AmountOf({ro, po}) = ro.amount + po.amount
      <4>1. CellAmount[ro] \in Nat /\ CellAmount[po] \in Nat
        BY <3>2
      <4>2. Weight({ro, po}, CellAmount) = CellAmount[ro] + CellAmount[po]
        BY <2>18, <4>1, WeightPair
      <4> QED BY <3>2, <4>2 DEF AmountOf
    <3>5. AmountOf({r}) = AmountOf({ro, po})
      BY <2>4, <2>17, <3>3, <3>4
    <3>6. ro.amount >= 0 /\ po.amount >= 0
      BY <3>2
    <3> QED BY <3>1, <3>5, <3>6 DEF Conserve
  <2>20. Admissible(tx, k, r)
    <3> HIDE DEF tx
    <3> QED BY <2>8, <2>15, <2>16, <2>19 DEF Admissible
  <2> QED BY <2>20
<1> QED BY <1>1, InductiveInvariant, PTL

-------------------------------------------------------------------------------
(* What a step may never do. *)

(* The controller's tree changes only by retiring one entitlement. *)
THEOREM RootsRetire == Spec => RootOnlyRetires
<1> DEFINE Step == \A k \in controllers :
         \/ k \in controllers'
         \/ \E n \in controllers', i \in Index :
              /\ k.root[i] = EntitlementLeaf(i, HolderOwner[i], HolderAmount[i])
              /\ n.root = Retire(k.root, i)
<1>1. IInv /\ [Next]_vars => [Step]_vars
  <2> SUFFICES ASSUME IInv, Next PROVE Step
    BY DEF Step
  <2> USE DEF Step
  <2>1. CASE TokenGenesis
    BY <2>1 DEF TokenGenesis
  <2>2. CASE ControllerGenesis
    BY <2>2 DEF ControllerGenesis, IInv, Bootstrap
  <2>3. CASE ReserveHandoff
    BY <2>3 DEF ReserveHandoff
  <2>4. ASSUME NEW c \in Clients, NEW i \in Index, Claim(c, i) PROVE Step
    BY <2>4 DEF Claim
  <2>5. ASSUME NEW c \in Clients, NEW i \in Index, NEW tamper \in Tampers,
               Build(c, i, tamper)
        PROVE  Step
    BY <2>5 DEF Build
  <2>6. ASSUME NEW c \in Clients, Accept(c) PROVE Step
    <3>1. PICK tx \in pending[c], k \in controllers, r \in cells :
            /\ Admissible(tx, k, r)
            /\ controllers' = (controllers \ {k}) \cup {ControllerOutput(tx)}
      BY <2>6, OneSuccessor DEF Accept
    <3>2. tx \in ClaimTx
      BY <3>1, <2>6 DEF IInv, TypeOK
    <3>3. controllers = {k} /\ controllers' = {ControllerOutput(tx)}
      BY <3>1, <3>2, AcceptFacts
    <3>4. /\ tx.index \in Index
          /\ k.root[tx.index] = EntitlementLeaf(tx.index, HolderOwner[tx.index],
                                                HolderAmount[tx.index])
          /\ tx.successor.root = Retire(k.root, tx.index)
      BY <3>1, <3>2, AdmissibleFacts DEF IInv
    <3>5. ControllerOutput(tx).root = Retire(k.root, tx.index)
      BY <3>4 DEF ControllerOutput
    <3> QED BY <3>3, <3>4, <3>5
  <2>7. ASSUME NEW c \in Clients, Refuse(c) \/ Lose(c) PROVE Step
    BY <2>7 DEF Refuse, Lose
  <2>8. CASE Transfer
    BY <2>8 DEF Transfer
  <2> QED BY <2>1, <2>2, <2>3, <2>4, <2>5, <2>6, <2>7, <2>8 DEF Next
<1>2. Spec => [][Step]_vars
  BY <1>1, InductiveInvariant, PTL DEF Spec
<1> QED BY <1>2 DEF RootOnlyRetires

-------------------------------------------------------------------------------
(* The ledger implements the promise of SnapshotClaims. *)

Held == {r \in cells : r.owner = Controller}
Pool == IF Live THEN AmountOf(Held) ELSE Total
PaidSoFar == [i \in Index |-> Weight(PaidTo(i), PaidAmount)]

LEMMA SameIndex == Claims!Index = Index
BY DEF Claims!Index, Index

LEMMA HeldType ==
    ASSUME TypeOK, Fresh
    PROVE  /\ IsFiniteSet(Held)
           /\ \A r \in Held : CellAmount[r] = r.amount /\ CellAmount[r] \in Nat
           /\ AmountOf(Held) \in Nat
<1>1. IsFiniteSet(Held)
  BY FS_Subset DEF Held, Fresh
<1>2. \A r \in Held : CellAmount[r] = r.amount /\ CellAmount[r] \in Nat
  BY CellAmountIs DEF Held, TypeOK
<1> QED BY <1>1, <1>2, UnitsFinite DEF AmountOf

LEMMA RefinementInit == Init => Claims!Init
<1> SUFFICES ASSUME Init PROVE Claims!Init
  OBVIOUS
<1>1. Unclaimed = Index
  BY DEF Init, Unclaimed
<1>2. \A i \in Index : Weight(PaidTo(i), PaidAmount) = 0
  <2> TAKE i \in Index
  <2>1. PaidTo(i) = {}
    BY DEF Init, PaidTo
  <2> QED BY <2>1, WeightEmpty
<1>3. ~Live
  BY DEF Init, Live
<1> QED BY <1>1, <1>2, <1>3, SameIndex DEF Claims!Init

(* An accepted claim is one payment. *)
LEMMA AcceptPays ==
    ASSUME IInv, NEW c \in Clients, Accept(c)
    PROVE  \E i \in Index : Claims!Pay(i)
<1>1. PICK tx \in pending[c], k \in controllers, r \in cells :
        /\ Admissible(tx, k, r)
        /\ cells' = (cells \ {r}) \cup {ReserveOutput(tx), RecipientOutput(tx)}
        /\ controllers' = (controllers \ {k}) \cup {ControllerOutput(tx)}
        /\ payouts' = payouts \cup
             {[index |-> tx.index, owner |-> tx.recipient.owner,
               amount |-> tx.recipient.amount, op |-> <<txs, 1>>]}
        /\ txs' = txs + 1
  BY OneSuccessor DEF Accept
<1> DEFINE i == tx.index
           ro == ReserveOutput(tx)
           po == RecipientOutput(tx)
           pay == [index |-> tx.index, owner |-> tx.recipient.owner,
                   amount |-> tx.recipient.amount, op |-> <<txs, 1>>]
<1>2. tx \in ClaimTx
  BY <1>1 DEF IInv, TypeOK
<1>3. /\ i \in Index
      /\ tx.owner = HolderOwner[i] /\ tx.amount = HolderAmount[i]
      /\ r.owner = Controller /\ r.amount >= HolderAmount[i]
      /\ ro \in TokenCell /\ po \in TokenCell
  BY <1>1, <1>2, AdmissibleFacts DEF IInv
<1>4. Live /\ i \in Unclaimed /\ Unclaimed' = Unclaimed \ {i}
  BY <1>1, <1>2, AcceptFacts
<1>5. /\ tx.recipient.amount = tx.amount /\ tx.recipient.owner = tx.owner
      /\ tx.reserveNext.amount = r.amount - tx.amount
      /\ tx.reserveNext.owner = Controller
  BY <1>1 DEF Admissible, ControllerAccepts, ProvesEntitlement,
    SplitsReserve, PaysEntitlement, HandsOver
<1>6. Live'
  BY <1>1, <1>4 DEF Live, IInv, TypeOK
<1>7. /\ r.amount \in Nat /\ HolderAmount[i] \in Nat
      /\ r \in Held /\ CellAmount[r] = r.amount
  BY <1>3, OwedType, CellAmountIs DEF IInv, TypeOK, TokenCell, Held
<1>8. /\ ro.owner = Controller /\ ro.amount = r.amount - HolderAmount[i]
      /\ ro.op[1] = txs /\ CellAmount[ro] = ro.amount
  BY <1>3, <1>5, CellAmountIs DEF ReserveOutput
<1>9. po.owner # Controller
  <2>1. po.owner = HolderOwner[i]
    BY <1>3, <1>5 DEF RecipientOutput
  <2> QED BY <2>1, <1>3, SnapshotAssumption, PartyAssumption
<1>10. Pool = AmountOf(Held) /\ AmountOf(Held) \in Nat /\ Pool >= HolderAmount[i]
  <2>1. AmountOf(Held) \in Nat /\ CellAmount[r] <= AmountOf(Held)
    BY <1>7, HeldType, WeightMember DEF AmountOf, IInv
  <2> QED BY <2>1, <1>3, <1>4, <1>7 DEF Pool
<1>11. Pool' = Pool - HolderAmount[i]
  <2> HIDE DEF ro, po
  <2>1. cells' = (cells \ {r}) \cup {ro, po}
    BY <1>1 DEF ro, po
  <2>2. Held' = (Held \ {r}) \cup {ro}
    BY <2>1, <1>8, <1>9 DEF Held
  <2>3. ro \notin Held
    BY <1>8 DEF Held, IInv, Fresh, TypeOK
  <2>4. /\ IsFiniteSet(Held) /\ \A y \in Held : CellAmount[y] \in Nat
        /\ IsFiniteSet(Held \ {r}) /\ IsFiniteSet({ro})
    BY HeldType, FS_RemoveElement, FS_Singleton DEF IInv
  <2>5. /\ Weight(Held \ {r}, CellAmount) \in Nat
        /\ AmountOf(Held) = Weight(Held \ {r}, CellAmount) + r.amount
    BY <1>7, <2>4, WeightRemove DEF AmountOf
  <2>6. CellAmount[ro] \in Nat
    BY <1>3, CellAmountIs DEF ro
  <2>7. Weight((Held \ {r}) \cup {ro}, CellAmount)
          = Weight(Held \ {r}, CellAmount) + Weight({ro}, CellAmount)
    <3>1. (Held \ {r}) \cap {ro} = {}
      BY <2>3
    <3>2. \A y \in (Held \ {r}) \cup {ro} : CellAmount[y] \in Nat
      BY <2>4, <2>6
    <3> QED BY <2>4, <3>1, <3>2, WeightUnion
  <2>8. Weight({ro}, CellAmount) = r.amount - HolderAmount[i]
    BY <1>8, <2>6, WeightSingleton
  <2>9. Pool' = Weight((Held \ {r}) \cup {ro}, CellAmount)
    BY <1>6, <2>2 DEF Pool, AmountOf
  <2> QED BY <1>7, <1>10, <2>5, <2>7, <2>8, <2>9
<1>12. PaidSoFar' = [PaidSoFar EXCEPT ![i] = @ + HolderAmount[i]]
  <2>1. payouts' = payouts \cup {pay}
    BY <1>1
  <2>2. pay.index = i /\ pay.amount = HolderAmount[i]
    BY <1>3, <1>5
  <2> HIDE DEF pay
  <2>3. PaidTo(i) = {} /\ (PaidTo(i))' = {pay}
    <3>1. {p.index : p \in payouts} = Index \ Unclaimed
      BY DEF IInv, PaidExactlyOnce
    <3>2. \A p \in payouts : p.index # i
      BY <3>1, <1>4
    <3> QED BY <3>2, <2>1, <2>2 DEF PaidTo
  <2>4. PaidAmount'[pay] = HolderAmount[i]
    BY <2>1, <2>2 DEF PaidAmount
  <2>5. Weight(PaidTo(i), PaidAmount) = 0
    BY <2>3, WeightEmpty
  <2>6. Weight({pay}, PaidAmount') = HolderAmount[i]
    BY <2>4, <1>7, WeightSingleton
  <2>7. Weight(PaidTo(i), PaidAmount)' = HolderAmount[i]
    BY <2>3, <2>6
  <2>8. ASSUME NEW j \in Index, j # i
        PROVE  Weight(PaidTo(j), PaidAmount)' = Weight(PaidTo(j), PaidAmount)
    <3>1. (PaidTo(j))' = PaidTo(j)
      BY <2>1, <2>2, <2>8 DEF PaidTo
    <3>2. \A p \in PaidTo(j) : PaidAmount'[p] = PaidAmount[p]
      BY <2>1 DEF PaidTo, PaidAmount
    <3>3. Weight(PaidTo(j), PaidAmount') = Weight(PaidTo(j), PaidAmount)
      BY <3>2, WeightSame
    <3> QED BY <3>1, <3>3
  <2>9. \A j \in Index : PaidSoFar'[j] = [PaidSoFar EXCEPT ![i] = @ + HolderAmount[i]][j]
    BY <1>3, <1>7, <2>5, <2>7, <2>8 DEF PaidSoFar
  <2> QED BY <2>9 DEF PaidSoFar
<1> QED BY <1>3, <1>4, <1>10, <1>11, <1>12, SameIndex
     DEF Claims!Pay, Pool, Held, PaidSoFar

(* A transfer leaves the pool alone or gives to it. *)
LEMMA TransferFunds ==
    ASSUME IInv, Transfer
    PROVE  Claims!Fund \/ UNCHANGED <<Unclaimed, PaidSoFar, Pool>>
<1>1. /\ UNCHANGED <<controllers, payouts>>
      /\ txs' = txs + 1
  BY DEF Transfer
<1>2. UNCHANGED <<Unclaimed, PaidSoFar>>
  BY <1>1 DEF Unclaimed, PaidSoFar, PaidTo, PaidAmount
<1>3. IInv'
  BY TransferIInv
<1>4. PICK a \in cells, b \in cells :
        /\ Authorize({a, b}, Owners, FALSE)
        /\ \E outs : cells' = (cells \ {a, b}) \cup outs
  BY DEF Transfer
<1>5. Held \in SUBSET Held'
  BY <1>4, PartyAssumption DEF Held, Authorize
<1>6. /\ AmountOf(Held) \in Nat /\ AmountOf(Held)' \in Nat
      /\ AmountOf(Held) <= AmountOf(Held)'
  <2>1. /\ IsFiniteSet(Held') /\ \A y \in Held' : CellAmount[y] \in Nat
    <3>1. cells' \subseteq TokenCell /\ IsFiniteSet(cells')
      BY <1>3 DEF IInv, TypeOK, Fresh
    <3>2. Held' \in SUBSET cells'
      BY DEF Held
    <3> QED BY <3>1, <3>2, FS_Subset, CellAmountIs
  <2> QED BY <1>5, <2>1, WeightMonotone DEF AmountOf
<1>7. Pool' >= Pool /\ Pool' \in Nat /\ Pool \in Nat
  <2>1. CASE Live
    <3>1. Live'
      BY <1>1, <2>1 DEF Live, IInv, TypeOK
    <3> QED BY <1>6, <2>1, <3>1 DEF Pool
  <2>2. CASE ~Live
    <3>1. a.owner \in Owners /\ txs \in Nat /\ txs < 3
      BY <1>4, <2>2 DEF Authorize, Live, IInv, TypeOK
    <3> QED BY <3>1, PartyAssumption DEF IInv, Bootstrap
  <2> QED BY <2>1, <2>2
<1> QED BY <1>2, <1>7 DEF Claims!Fund, Pool, PaidSoFar, Held

LEMMA RefinementStep == IInv /\ [Next]_vars => [Claims!Next]_(Claims!vars)
<1> SUFFICES ASSUME IInv, [Next]_vars
             PROVE  Claims!Next \/ UNCHANGED <<Unclaimed, PaidSoFar, Pool>>
  BY DEF Claims!vars, PaidSoFar, Pool, Held
<1>1. CASE TokenGenesis
  <2>1. /\ UNCHANGED <<controllers, payouts>> /\ ~Live /\ ~Live'
    BY <1>1 DEF TokenGenesis, Live
  <2> QED BY <2>1 DEF Unclaimed, PaidSoFar, PaidTo, PaidAmount, Pool
<1>2. CASE ControllerGenesis
  <2>1. /\ UNCHANGED payouts /\ ~Live /\ ~Live'
    BY <1>2 DEF ControllerGenesis, Live
  <2>2. UNCHANGED <<PaidSoFar, Pool>>
    BY <2>1 DEF PaidSoFar, PaidTo, PaidAmount, Pool
  <2>3. PaidExactlyOnce /\ PaidExactlyOnce' /\ Unclaimed \in SUBSET Index
        /\ Unclaimed' \in SUBSET Index
    BY <1>2, ControllerGenesisIInv DEF IInv, Unclaimed
  <2>4. Unclaimed' = Unclaimed
    BY <2>1, <2>3 DEF PaidExactlyOnce
  <2> QED BY <2>2, <2>4
<1>3. CASE ReserveHandoff
  <2> DEFINE reserve == [op |-> <<2, 0>>, amount |-> Total, owner |-> Controller,
                         kas |-> CellKas]
  <2>1. PICK cell \in cells : cells' = (cells \ {cell}) \cup {reserve}
    BY <1>3 DEF ReserveHandoff
  <2>2. txs = 2 /\ txs' = 3 /\ UNCHANGED <<controllers, payouts>>
    BY <1>3 DEF ReserveHandoff
  <2>3. cells' = {reserve}
    BY <2>1, <2>2 DEF IInv, Bootstrap
  <2>4. Held' = {reserve}
    BY <2>3 DEF Held
  <2>5. reserve \in TokenCell
    BY OwedType, BoundAssumption DEF TokenCell, Outpoint, Party
  <2>6. CellAmount[reserve] = Total
    BY <2>5, CellAmountIs
  <2>7. Weight({reserve}, CellAmount) = Total
    BY <2>6, OwedType, WeightSingleton
  <2>8. Pool = Total /\ Pool' = Total
    BY <2>2, <2>4, <2>7 DEF Pool, Live, AmountOf
  <2>9. UNCHANGED <<Unclaimed, PaidSoFar>>
    BY <2>2 DEF Unclaimed, PaidSoFar, PaidTo, PaidAmount
  <2> QED BY <2>8, <2>9
<1>4. ASSUME NEW c \in Clients,
             \/ \E i \in Index : Claim(c, i)
             \/ \E i \in Index, tamper \in Tampers : Build(c, i, tamper)
             \/ Refuse(c) \/ Lose(c)
      PROVE  UNCHANGED <<Unclaimed, PaidSoFar, Pool>>
  <2>1. UNCHANGED <<cells, controllers, txs, payouts>>
    BY <1>4 DEF Claim, Build, Refuse, Lose
  <2> QED BY <2>1 DEF Unclaimed, PaidSoFar, PaidTo, PaidAmount, Pool, Held, Live,
          AmountOf
<1>5. ASSUME NEW c \in Clients, Accept(c) PROVE Claims!Next
  BY <1>5, AcceptPays, SameIndex DEF Claims!Next
<1>6. CASE Transfer
  BY <1>6, TransferFunds DEF Claims!Next
<1>7. CASE UNCHANGED vars
  BY <1>7 DEF vars, Unclaimed, PaidSoFar, PaidTo, PaidAmount, Pool, Held, Live,
     AmountOf
<1> QED BY <1>1, <1>2, <1>3, <1>4, <1>5, <1>6, <1>7 DEF Next

(* Every behaviour of the ledger is one of the promise: accepted claims    *)
(* are single full payments out of the pool, transfers at most add to it,  *)
(* and nothing else is visible.                                            *)
THEOREM ChainImplementsClaims == Spec => ImplementsClaims
<1>1. Spec => Claims!Init /\ [][Claims!Next]_(Claims!vars)
  BY RefinementInit, RefinementStep, InductiveInvariant, PTL DEF Spec
<1> QED BY <1>1 DEF ImplementsClaims, Claims!Spec
===============================================================================
