--------------------------- MODULE Tn10RunnerProofs ---------------------------
(***************************************************************************)
(* Theorems about Tn10Runner, for any funding, depth, fee and number of    *)
(* faults and reorganisations.  What the ledger file says is right for any *)
(* number of runners side by side; that there is one transaction for each  *)
(* stage is proved for one runner, and is not so for two.                  *)
(*                                                                         *)
(* A runner works on a copy of the ledger, so the invariant says of each   *)
(* copy what it says of the file, and what the runner knows at each label  *)
(* about the transaction it is carrying.                                   *)
(***************************************************************************)
EXTENDS Tn10Runner, FiniteSetTheorems, SequenceTheorems, TLAPS

AtMostOne(S) == \A x, y \in S : x = y

Round == [read : 0..4, scores : SUBSET (0..Depth), missing : BOOLEAN]

Typed ==
    /\ wallet \subseteq Funding /\ mempool \subseteq Txid
    /\ DOMAIN accepted \subseteq Txid
    /\ \A tx \in DOMAIN accepted : accepted[tx] \in 0..Depth
    /\ keys \in {"absent", "empty", "whole"}
    /\ disk \subseteq Ledger /\ artifacts \subseteq Txid
    /\ pc \in [Runners -> Labels] /\ arg \in [Runners -> Stages]
    /\ mem \in [Runners -> SUBSET Ledger] /\ draft \in [Runners -> SUBSET Txid]
    /\ round \in [Runners -> Round]
    /\ broadcast \subseteq Txid
    /\ faults \in 0..MaxFaults /\ reorgs \in 0..MaxReorgs

(* A ledger, on disk or in memory, tells of one chain of sent transactions.*)
LedgerOK(state) ==
    /\ AtMostOne(state.pending)
    /\ state.next = Len(state.receipts) + 1
    /\ \A s \in 1..Len(state.receipts) :
          /\ state.receipts[s][1] = s
          /\ state.receipts[s][2] = state.receipts[1][2]
          /\ state.receipts[s] \in broadcast
    /\ state.learned = UNION {Updates(s) : s \in 1..Len(state.receipts)}
    /\ \A p \in state.pending :
          /\ p.stage = state.next /\ p.tx[1] = state.next
          /\ state.next > 1 => p.tx[2] = state.receipts[1][2]
          /\ p.status = "submitted" => p.tx \in broadcast

Preparing == {"prepare", "artifact", "write_artifact", "save_pending"}
Carrying == {"artifact", "write_artifact", "save_pending"}

(* What a runner knows of the ledger and the transaction it has in memory. *)
RunnerOK(r) ==
    /\ AtMostOne(mem[r]) /\ AtMostOne(draft[r])
    /\ \A state \in mem[r] : LedgerOK(state)
    /\ pc[r] \in Preparing =>
          \A state \in mem[r] : state.pending = {} /\ state.next = arg[r]
    /\ pc[r] \in Carrying =>
          \A state \in mem[r], tx \in draft[r] :
              tx[1] = arg[r] /\ (arg[r] > 1 => tx[2] = state.receipts[1][2])
    /\ pc[r] \in {"save_pending", "submit"} => draft[r] \subseteq artifacts
    /\ pc[r] \in {"submit", "save_submitted"} =>
          \A state \in mem[r] : \A p \in state.pending : p.tx \in draft[r]
    /\ pc[r] = "save_submitted" => draft[r] \subseteq broadcast
    /\ pc[r] # "settle" => round[r].scores = {}
    /\ round[r].scores # {} =>
          \A state \in mem[r] : \A p \in state.pending : p.tx \in broadcast

NodeOK ==
    mempool \subseteq broadcast /\ DOMAIN accepted \subseteq broadcast
      /\ broadcast \subseteq artifacts

DiskOK == AtMostOne(disk) /\ \A state \in disk : LedgerOK(state)

IInv == Typed /\ NodeOK /\ DiskOK /\ \A r \in Runners : RunnerOK(r)

-------------------------------------------------------------------------------
(* What holds of a ledger goes on to hold while transactions are sent.     *)
LEMMA LedgerKeeps ==
    ASSUME NEW state, LedgerOK(state), broadcast \subseteq broadcast'
    PROVE  LedgerOK(state)'
BY DEF LedgerOK

(* A step of one runner leaves the others as they are. *)
OnlyAt(r) ==
    \A q \in Runners \ {r} :
        /\ pc'[q] = pc[q] /\ arg'[q] = arg[q] /\ mem'[q] = mem[q]
        /\ draft'[q] = draft[q] /\ round'[q] = round[q]

LEMMA OthersKeep ==
    ASSUME NEW q \in Runners, RunnerOK(q),
           broadcast \subseteq broadcast', artifacts \subseteq artifacts',
           pc'[q] = pc[q], arg'[q] = arg[q], mem'[q] = mem[q],
           draft'[q] = draft[q], round'[q] = round[q]
    PROVE  RunnerOK(q)'
<1>1. \A state \in mem'[q] : LedgerOK(state)'
  BY LedgerKeeps DEF RunnerOK
<1> QED BY <1>1 DEF RunnerOK

(* A step is an invariant step if what it writes is right. *)
LEMMA StepIInv ==
    ASSUME NEW r \in Runners, IInv, OnlyAt(r), Typed', NodeOK', DiskOK', RunnerOK(r)',
           broadcast \subseteq broadcast', artifacts \subseteq artifacts'
    PROVE  IInv'
<1>1. ASSUME NEW q \in Runners, q # r PROVE RunnerOK(q)'
  BY <1>1, OthersKeep DEF OnlyAt, IInv
<1> QED BY <1>1 DEF IInv

(* A runner that has ended knows nothing. *)
LEMMA ExitOK ==
    ASSUME Typed, NEW r \in Runners, Exit(r)
    PROVE  /\ OnlyAt(r) /\ RunnerOK(r)'
           /\ pc' \in [Runners -> Labels] /\ arg' \in [Runners -> Stages]
           /\ mem' \in [Runners -> SUBSET Ledger]
           /\ draft' \in [Runners -> SUBSET Txid]
           /\ round' \in [Runners -> Round]
<1>1. /\ pc'[r] = "idle" /\ mem'[r] = {} /\ draft'[r] = {} /\ round'[r] = FreshRound
      /\ OnlyAt(r)
  BY DEF Typed, Exit, Goto, OnlyAt
<1>2. FreshRound \in Round /\ FreshRound.scores = {}
  BY RunnerAssumption DEF FreshRound, Round
<1>3. RunnerOK(r)'
  BY <1>1, <1>2 DEF RunnerOK, AtMostOne, Preparing, Carrying
<1>4. /\ pc' \in [Runners -> Labels] /\ arg' \in [Runners -> Stages]
      /\ mem' \in [Runners -> SUBSET Ledger]
      /\ draft' \in [Runners -> SUBSET Txid]
      /\ round' \in [Runners -> Round]
  BY <1>2 DEF Typed, Exit, Goto, Labels, Stages
<1> QED BY <1>1, <1>3, <1>4

(* The file stays right when it is left alone. *)
LEMMA DiskKeeps ==
    ASSUME DiskOK, UNCHANGED disk, broadcast \subseteq broadcast'
    PROVE  DiskOK'
BY LedgerKeeps DEF DiskOK

LEMMA InitIInv == Init => IInv
<1> SUFFICES ASSUME Init PROVE IInv
  OBVIOUS
<1>1. FreshRound \in Round /\ FreshRound.scores = {}
  BY RunnerAssumption DEF FreshRound, Round
<1>2. Typed
  BY <1>1, RunnerAssumption DEF Init, Typed, Labels, Stages
<1>3. NodeOK /\ DiskOK
  BY DEF Init, NodeOK, DiskOK, AtMostOne
<1>4. \A r \in Runners : RunnerOK(r)
  BY <1>1 DEF Init, RunnerOK, AtMostOne, Preparing, Carrying
<1> QED BY <1>2, <1>3, <1>4 DEF IInv

-------------------------------------------------------------------------------
(* The node's steps: it only handles what was sent to it. *)

LEMMA NodeStep ==
    ASSUME IInv, UNCHANGED <<files, proc, broadcast>>, NodeOK',
           wallet' \subseteq Funding, mempool' \subseteq Txid,
           DOMAIN accepted' \subseteq Txid,
           \A tx \in DOMAIN accepted' : accepted'[tx] \in 0..Depth,
           faults' \in 0..MaxFaults, reorgs' \in 0..MaxReorgs
    PROVE  IInv'
<1>1. Typed'
  BY DEF IInv, Typed, files, proc
<1>2. DiskOK'
  BY DiskKeeps DEF IInv, files
<1>3. \A q \in Runners : RunnerOK(q)'
  BY OthersKeep DEF IInv, proc, files
<1> QED BY <1>1, <1>2, <1>3 DEF IInv

LEMMA FundingArrivesIInv == ASSUME IInv, NEW f \in Funding, FundingArrives(f) PROVE IInv'
<1>1. wallet' \subseteq Funding
  BY DEF FundingArrives, IInv, Typed
<1>2. UNCHANGED <<files, proc, broadcast>> /\ NodeOK'
  BY DEF FundingArrives, IInv, NodeOK, files
<1> QED BY <1>1, <1>2, NodeStep DEF FundingArrives, IInv, Typed

LEMMA AcceptTxIInv == ASSUME IInv, NEW tx \in mempool, AcceptTx(tx) PROVE IInv'
<1>1. /\ DOMAIN accepted' = DOMAIN accepted \cup {tx}
      /\ \A t \in DOMAIN accepted' : accepted'[t] = IF t = tx THEN 0 ELSE accepted[t]
      /\ mempool' = mempool \ {tx}
      /\ UNCHANGED <<wallet, files, proc, broadcast, faults, reorgs>>
  BY DEF AcceptTx
<1>2. tx \in Txid /\ tx \in broadcast
  BY DEF IInv, Typed, NodeOK
<1>3. \A t \in DOMAIN accepted' : accepted'[t] \in 0..Depth
  BY <1>1, RunnerAssumption DEF IInv, Typed
<1>4. NodeOK'
  BY <1>1, <1>2 DEF IInv, NodeOK, files
<1>5. wallet' \subseteq Funding /\ mempool' \subseteq Txid /\ DOMAIN accepted' \subseteq Txid
  BY <1>1, <1>2 DEF IInv, Typed
<1>6. faults' \in 0..MaxFaults /\ reorgs' \in 0..MaxReorgs
  BY <1>1 DEF IInv, Typed
<1> QED BY <1>1, <1>3, <1>4, <1>5, <1>6, NodeStep

LEMMA ReorgIInv == ASSUME IInv, NEW tx \in DOMAIN accepted, Reorg(tx) PROVE IInv'
<1> DEFINE undone == {t \in DOMAIN accepted : t[2] = tx[2] /\ t[1] >= tx[1]}
<1>1. /\ reorgs < MaxReorgs
      /\ accepted' = [t \in DOMAIN accepted \ undone |-> accepted[t]]
      /\ \E back \in {undone, {}} : mempool' = mempool \cup back
      /\ reorgs' = reorgs + 1
      /\ UNCHANGED <<wallet, files, proc, broadcast, faults>>
  BY DEF Reorg
<1>2. DOMAIN accepted' \subseteq DOMAIN accepted /\ mempool' \subseteq mempool \cup DOMAIN accepted
  BY <1>1
<1>3. \A t \in DOMAIN accepted' : accepted'[t] \in 0..Depth
  BY <1>1, <1>2 DEF IInv, Typed
<1>4. NodeOK'
  BY <1>1, <1>2 DEF IInv, NodeOK, files
<1>5. wallet' \subseteq Funding /\ mempool' \subseteq Txid /\ DOMAIN accepted' \subseteq Txid
  BY <1>1, <1>2 DEF IInv, Typed
<1>6. faults' \in 0..MaxFaults /\ reorgs' \in 0..MaxReorgs
  BY <1>1, RunnerAssumption DEF IInv, Typed
<1> QED BY <1>1, <1>3, <1>4, <1>5, <1>6, NodeStep

LEMMA DropIInv == ASSUME IInv, NEW tx \in mempool, Drop(tx) PROVE IInv'
<1>1. /\ faults < MaxFaults /\ mempool' = mempool \ {tx} /\ faults' = faults + 1
      /\ UNCHANGED <<wallet, accepted, files, proc, broadcast, reorgs>>
  BY DEF Drop
<1>2. NodeOK'
  BY <1>1 DEF IInv, NodeOK, files
<1>3. /\ wallet' \subseteq Funding /\ mempool' \subseteq Txid
      /\ DOMAIN accepted' \subseteq Txid
      /\ \A t \in DOMAIN accepted' : accepted'[t] \in 0..Depth
  BY <1>1 DEF IInv, Typed
<1>4. faults' \in 0..MaxFaults /\ reorgs' \in 0..MaxReorgs
  BY <1>1, RunnerAssumption DEF IInv, Typed
<1> QED BY <1>1, <1>2, <1>3, <1>4, NodeStep

LEMMA OlderType == \A a \in 0..Depth : Older(a) \in 0..Depth
BY RunnerAssumption DEF Older

LEMMA TickIInv == ASSUME IInv, Tick PROVE IInv'
<1>1. /\ DOMAIN accepted' = DOMAIN accepted
      /\ \A t \in DOMAIN accepted : accepted'[t] = Older(accepted[t])
      /\ UNCHANGED <<wallet, mempool, files, pc, arg, mem, draft, broadcast, faults, reorgs>>
  BY DEF Tick
<1>2. ASSUME NEW q \in Runners
      PROVE  /\ round'[q] = [round[q] EXCEPT !.scores = {Older(a) : a \in @}]
             /\ round'[q] \in Round
             /\ round'[q].scores = {} <=> round[q].scores = {}
  <2>1. round'[q] = [round[q] EXCEPT !.scores = {Older(a) : a \in round[q].scores}]
    BY DEF Tick
  <2>2. round[q] \in Round
    BY DEF IInv, Typed
  <2>3. {Older(a) : a \in round[q].scores} \in SUBSET (0..Depth)
    BY <2>2, OlderType DEF Round
  <2> QED BY <2>1, <2>2, <2>3 DEF Round
<1>3. round' \in [Runners -> Round]
  <2>1. round' = [q \in Runners |-> round'[q]]
    BY DEF Tick
  <2> QED BY <1>2, <2>1
<1>4. Typed'
  <2>1. \A t \in DOMAIN accepted' : accepted'[t] \in 0..Depth
    BY <1>1, OlderType DEF IInv, Typed
  <2> QED BY <1>1, <1>3, <2>1 DEF IInv, Typed, files
<1>5. NodeOK' /\ DiskOK'
  BY <1>1, DiskKeeps DEF IInv, NodeOK, files
<1>6. ASSUME NEW q \in Runners PROVE RunnerOK(q)'
  <2>1. \A state \in mem'[q] : LedgerOK(state)'
    BY <1>1, LedgerKeeps DEF IInv, RunnerOK
  <2>2. /\ pc'[q] = pc[q] /\ arg'[q] = arg[q] /\ mem'[q] = mem[q]
        /\ draft'[q] = draft[q] /\ artifacts' = artifacts /\ broadcast' = broadcast
    BY <1>1 DEF files
  <2>3. round'[q].scores = {} <=> round[q].scores = {}
    BY <1>2
  <2>4. RunnerOK(q)
    BY DEF IInv
  <2> QED BY <2>1, <2>2, <2>3, <2>4 DEF RunnerOK
<1> QED BY <1>4, <1>5, <1>6 DEF IInv

-------------------------------------------------------------------------------
(* The runner's steps. *)

(* A runner goes on to another label with what it has. *)
LEMMA GotoOK ==
    ASSUME Typed, NEW r \in Runners, NEW label \in Labels, Goto(r, label),
           UNCHANGED <<arg, mem, draft, round>>
    PROVE  /\ OnlyAt(r) /\ pc'[r] = label /\ pc' \in [Runners -> Labels]
           /\ arg' \in [Runners -> Stages] /\ mem' \in [Runners -> SUBSET Ledger]
           /\ draft' \in [Runners -> SUBSET Txid] /\ round' \in [Runners -> Round]
BY DEF Typed, Goto, OnlyAt

(* The process ends and the disk and the node stay as they are. *)
LEMMA ExitStep ==
    ASSUME IInv, NEW r \in Runners, Exit(r), UNCHANGED <<node, files, broadcast, reorgs>>,
           faults' \in 0..MaxFaults
    PROVE  IInv'
<1>1. /\ OnlyAt(r) /\ RunnerOK(r)'
      /\ pc' \in [Runners -> Labels] /\ arg' \in [Runners -> Stages]
      /\ mem' \in [Runners -> SUBSET Ledger]
      /\ draft' \in [Runners -> SUBSET Txid]
      /\ round' \in [Runners -> Round]
  BY ExitOK DEF IInv
<1>2. Typed'
  BY <1>1 DEF IInv, Typed, node, files
<1>3. NodeOK' /\ DiskOK'
  BY DiskKeeps DEF IInv, NodeOK, node, files
<1> QED BY <1>1, <1>2, <1>3, StepIInv DEF files

LEMMA EndsIInv ==
    ASSUME IInv, NEW r \in Runners,
           \/ InitUnfunded(r) \/ PrepareEnds(r) \/ ArtifactExists(r)
           \/ SubmitRefused(r) \/ GiveUp(r) \/ Crash(r)
    PROVE  IInv'
<1>1. Exit(r) /\ UNCHANGED <<node, files, broadcast, reorgs>>
  BY DEF InitUnfunded, PrepareEnds, ArtifactExists, SubmitRefused, GiveUp, Crash
<1>2. faults' \in 0..MaxFaults
  <2>1. faults' = faults \/ (faults < MaxFaults /\ faults' = faults + 1)
    BY DEF InitUnfunded, PrepareEnds, ArtifactExists, SubmitRefused, GiveUp, Crash
  <2> QED BY <2>1, RunnerAssumption DEF IInv, Typed
<1> QED BY <1>1, <1>2, ExitStep

LEMMA InitKeysIInv ==
    ASSUME IInv, NEW r \in Runners, InitOpenKey(r) \/ InitWriteKey(r) \/ InitResume(r)
    PROVE  IInv'
<1>1. PICK label \in {"init_write_key", "init_save"} :
        /\ Goto(r, label) /\ pc[r] # "settle"
        /\ UNCHANGED <<node, disk, artifacts, arg, mem, draft, round, broadcast,
                       faults, reorgs>>
        /\ keys' \in {keys, "empty", "whole"}
  BY DEF InitOpenKey, InitWriteKey, InitResume, files
<1>2. label \in Labels
  BY DEF Labels
<1>3. /\ OnlyAt(r) /\ pc'[r] = label /\ pc' \in [Runners -> Labels]
      /\ arg' \in [Runners -> Stages] /\ mem' \in [Runners -> SUBSET Ledger]
      /\ draft' \in [Runners -> SUBSET Txid] /\ round' \in [Runners -> Round]
  BY <1>1, <1>2, GotoOK DEF IInv
<1>4. Typed'
  BY <1>1, <1>3 DEF IInv, Typed, node
<1>5. NodeOK' /\ DiskOK'
  BY <1>1, DiskKeeps DEF IInv, NodeOK, node
<1>6. RunnerOK(r)'
  <2>1. RunnerOK(r)
    BY DEF IInv
  <2>2. \A state \in mem'[r] : LedgerOK(state)'
    BY <1>1, <2>1, LedgerKeeps DEF RunnerOK
  <2> QED BY <1>1, <1>3, <2>1, <2>2 DEF RunnerOK, Preparing, Carrying
<1> QED BY <1>1, <1>3, <1>4, <1>5, <1>6, StepIInv

(* The first ledger tells of nothing. *)
LEMMA InitSaveIInv == ASSUME IInv, NEW r \in Runners, InitSave(r) PROVE IInv'
<1> DEFINE new == [next |-> 1, pending |-> {}, receipts |-> <<>>, learned |-> {}]
<1>1. disk' = {new} /\ Exit(r) /\ UNCHANGED <<node, keys, artifacts, broadcast, faults, reorgs>>
  BY DEF InitSave, SaveState
<1>2. new \in Ledger
  <2>1. <<>> \in Seq(Txid)
    OBVIOUS
  <2> QED BY <2>1 DEF Ledger
<1>3. LedgerOK(new)'
  <2>1. Len(<<>>) = 0
    OBVIOUS
  <2>2. UNION {Updates(s) : s \in 1..0} = {}
    OBVIOUS
  <2> QED BY <2>1, <2>2 DEF LedgerOK, AtMostOne
<1>4. /\ OnlyAt(r) /\ RunnerOK(r)'
      /\ pc' \in [Runners -> Labels] /\ arg' \in [Runners -> Stages]
      /\ mem' \in [Runners -> SUBSET Ledger]
      /\ draft' \in [Runners -> SUBSET Txid]
      /\ round' \in [Runners -> Round]
  BY <1>1, ExitOK DEF IInv
<1>5. Typed'
  BY <1>1, <1>2, <1>4 DEF IInv, Typed, node
<1>6. NodeOK'
  BY <1>1 DEF IInv, NodeOK, node
<1>7. DiskOK'
  BY <1>1, <1>3 DEF DiskOK, AtMostOne
<1> QED BY <1>1, <1>4, <1>5, <1>6, <1>7, StepIInv

(* The runner's copy is the file as it was when it was read. *)
LEMMA StartIInv ==
    ASSUME IInv, NEW r \in Runners, NEW s \in Stages, Start(r, s) PROVE IInv'
<1>1. PICK state \in disk :
        /\ pc[r] = "idle"
        /\ mem' = [mem EXCEPT ![r] = {state}]
        /\ \/ /\ \E p \in state.pending : p.stage = s
              /\ Goto(r, "settle")
           \/ /\ state.pending = {} /\ state.next = s
              /\ Goto(r, "prepare")
        /\ arg' = [arg EXCEPT ![r] = s]
        /\ UNCHANGED <<node, files, draft, round, broadcast, faults, reorgs>>
  BY DEF Start
<1>2. /\ mem'[r] = {state} /\ arg'[r] = s
      /\ \/ pc'[r] = "settle"
         \/ pc'[r] = "prepare" /\ state.pending = {} /\ state.next = s
      /\ OnlyAt(r)
  BY <1>1 DEF IInv, Typed, Goto, OnlyAt
<1>3. Typed'
  BY <1>1 DEF IInv, Typed, Goto, Labels, node, files
<1>4. NodeOK' /\ DiskOK'
  BY <1>1, DiskKeeps DEF IInv, NodeOK, node, files
<1>5. RunnerOK(r)'
  <2>1. LedgerOK(state)'
    BY <1>1, LedgerKeeps DEF IInv, DiskOK
  <2>2. AtMostOne(draft[r]) /\ round[r].scores = {}
    BY <1>1 DEF IInv, RunnerOK
  <2> QED BY <1>1, <1>2, <2>1, <2>2 DEF RunnerOK, AtMostOne, Preparing, Carrying
<1> QED BY <1>1, <1>2, <1>3, <1>4, <1>5, StepIInv DEF files

(* The transaction prepared belongs to the stage asked for and to the chain*)
(* that the receipts tell of. *)
LEMMA PrepareIInv == ASSUME IInv, NEW r \in Runners, Prepare(r) PROVE IInv'
<1>1. PICK state \in mem[r] : \E tx \in Buildable(state, arg[r]) :
        draft' = [draft EXCEPT ![r] = {tx}]
  BY DEF Prepare
<1>2. PICK tx \in Buildable(state, arg[r]) : draft' = [draft EXCEPT ![r] = {tx}]
  BY <1>1
<1>3. /\ pc[r] = "prepare" /\ Goto(r, "artifact")
      /\ UNCHANGED <<node, files, arg, mem, round, broadcast, faults, reorgs>>
  BY DEF Prepare
<1>4. /\ AtMostOne(mem[r]) /\ LedgerOK(state) /\ state.next = arg[r]
      /\ \A t \in mem[r] : t.pending = {} /\ t.next = arg[r]
      /\ round[r].scores = {}
  BY <1>3 DEF IInv, RunnerOK, Preparing
<1>5. state \in Ledger /\ arg[r] \in Stages
  BY DEF IInv, Typed
<1>6. PICK f \in FundingFor(state, arg[r]) : tx = <<arg[r], f>>
  BY <1>2 DEF Buildable
<1>7. arg[r] > 1 => f = state.receipts[1][2]
  <2> SUFFICES ASSUME arg[r] > 1 PROVE f = state.receipts[1][2]
    OBVIOUS
  <2>1. arg[r] \in 2..5
    BY <1>5 DEF Stages
  <2>2. f = state.receipts[arg[r] - 1][2]
    BY <1>6, <2>1 DEF FundingFor
  <2>3. Len(state.receipts) \in Nat
    BY <1>5 DEF Ledger
  <2>4. arg[r] - 1 \in 1..Len(state.receipts)
    BY <1>4, <2>1, <2>3 DEF LedgerOK
  <2> QED BY <1>4, <2>2, <2>4 DEF LedgerOK
<1>8. f \in Funding
  <2>1. CASE arg[r] = 1
    BY <1>6, <2>1 DEF FundingFor, Eligible, IInv, Typed
  <2>2. CASE arg[r] # 1
    <3>1. arg[r] > 1 /\ arg[r] \in 2..5
      BY <1>5, <2>2 DEF Stages
    <3>2. state.receipts \in Seq(Txid) /\ Len(state.receipts) \in Nat
      BY <1>5 DEF Ledger
    <3>3. 1 \in 1..Len(state.receipts)
      BY <1>4, <3>1, <3>2 DEF LedgerOK
    <3>4. state.receipts[1] \in Txid
      BY <3>2, <3>3
    <3> QED BY <1>7, <3>1, <3>4 DEF Txid
  <2> QED BY <2>1, <2>2
<1>9. tx \in Txid /\ tx[1] = arg[r] /\ tx[2] = f
  BY <1>5, <1>6, <1>8 DEF Txid
<1>10. /\ draft'[r] = {tx} /\ pc'[r] = "artifact" /\ OnlyAt(r)
  BY <1>2, <1>3 DEF IInv, Typed, Goto, OnlyAt
<1>11. Typed'
  BY <1>2, <1>3, <1>9 DEF IInv, Typed, Goto, Labels, node, files
<1>12. NodeOK' /\ DiskOK'
  BY <1>3, DiskKeeps DEF IInv, NodeOK, node, files
<1>13. RunnerOK(r)'
  <2>1. \A t \in mem'[r] : LedgerOK(t)'
    BY <1>3, LedgerKeeps DEF IInv, RunnerOK
  <2>2. \A t \in mem[r] : t = state
    BY <1>4 DEF AtMostOne
  <2> QED BY <1>3, <1>4, <1>7, <1>9, <1>10, <2>1, <2>2 DEF RunnerOK, AtMostOne, Preparing, Carrying
<1> QED BY <1>3, <1>10, <1>11, <1>12, <1>13, StepIInv DEF files

LEMMA ArtifactAbsentIInv ==
    ASSUME IInv, NEW r \in Runners, ArtifactAbsent(r) PROVE IInv'
<1>1. /\ pc[r] = "artifact" /\ Goto(r, "write_artifact") /\ "write_artifact" \in Labels
      /\ UNCHANGED <<node, files, arg, mem, draft, round, broadcast, faults, reorgs>>
  BY DEF ArtifactAbsent, Labels
<1>2. /\ OnlyAt(r) /\ pc'[r] = "write_artifact" /\ pc' \in [Runners -> Labels]
      /\ arg' \in [Runners -> Stages] /\ mem' \in [Runners -> SUBSET Ledger]
      /\ draft' \in [Runners -> SUBSET Txid] /\ round' \in [Runners -> Round]
  BY <1>1, GotoOK DEF IInv
<1>3. Typed'
  BY <1>1, <1>2 DEF IInv, Typed, node, files
<1>4. NodeOK' /\ DiskOK'
  BY <1>1, DiskKeeps DEF IInv, NodeOK, node, files
<1>5. RunnerOK(r)'
  <2>1. RunnerOK(r)
    BY DEF IInv
  <2>2. \A state \in mem'[r] : LedgerOK(state)'
    BY <1>1, <2>1, LedgerKeeps DEF RunnerOK
  <2> QED BY <1>1, <1>2, <2>1, <2>2 DEF RunnerOK, Preparing, Carrying
<1> QED BY <1>1, <1>2, <1>3, <1>4, <1>5, StepIInv DEF files

LEMMA WriteArtifactIInv ==
    ASSUME IInv, NEW r \in Runners, WriteArtifact(r) PROVE IInv'
<1>1. /\ pc[r] = "write_artifact" /\ Goto(r, "save_pending") /\ "save_pending" \in Labels
      /\ artifacts' = artifacts \cup draft[r]
      /\ UNCHANGED <<node, keys, disk, arg, mem, draft, round, broadcast, faults, reorgs>>
  BY DEF WriteArtifact, Labels
<1>2. /\ OnlyAt(r) /\ pc'[r] = "save_pending" /\ pc' \in [Runners -> Labels]
      /\ arg' \in [Runners -> Stages] /\ mem' \in [Runners -> SUBSET Ledger]
      /\ draft' \in [Runners -> SUBSET Txid] /\ round' \in [Runners -> Round]
  BY <1>1, GotoOK DEF IInv
<1>3. Typed'
  BY <1>1, <1>2 DEF IInv, Typed, node
<1>4. NodeOK' /\ DiskOK'
  BY <1>1, DiskKeeps DEF IInv, NodeOK, node
<1>5. RunnerOK(r)'
  <2>1. RunnerOK(r)
    BY DEF IInv
  <2>2. \A state \in mem'[r] : LedgerOK(state)'
    BY <1>1, <2>1, LedgerKeeps DEF RunnerOK
  <2>3. draft'[r] \subseteq artifacts'
    BY <1>1
  <2> QED BY <1>1, <1>2, <2>1, <2>2, <2>3 DEF RunnerOK, Preparing, Carrying
<1> QED BY <1>1, <1>2, <1>3, <1>4, <1>5, StepIInv

(* Another unresolved transaction in a ledger is all that changes.         *)
LEMMA PendingLedger ==
    ASSUME NEW state \in Ledger, NEW p \in Pending
    PROVE  /\ [state EXCEPT !.pending = {p}] \in Ledger
           /\ [state EXCEPT !.pending = {p}].pending = {p}
           /\ [state EXCEPT !.pending = {p}].next = state.next
           /\ [state EXCEPT !.pending = {p}].receipts = state.receipts
           /\ [state EXCEPT !.pending = {p}].learned = state.learned
BY DEF Ledger

(* The runner writes down what it is about to send. *)
LEMMA SavePendingIInv == ASSUME IInv, NEW r \in Runners, SavePending(r) PROVE IInv'
<1>1. PICK state \in mem[r], tx \in draft[r] :
        LET saved == [state EXCEPT !.pending =
                        {[stage |-> arg[r], tx |-> tx, status |-> "prepared"]}]
        IN  /\ SaveState(saved)
            /\ mem' = [mem EXCEPT ![r] = {saved}]
  BY DEF SavePending
<1> DEFINE p == [stage |-> state.next, tx |-> tx, status |-> "prepared"]
           saved == [state EXCEPT !.pending = {p}]
<1>0. state.next = arg[r]
  BY DEF SavePending, IInv, RunnerOK, Preparing
<1>2. /\ pc[r] = "save_pending" /\ Goto(r, "submit") /\ disk' = {saved}
      /\ mem' = [mem EXCEPT ![r] = {saved}]
      /\ UNCHANGED <<node, keys, artifacts, arg, draft, round, broadcast, faults, reorgs>>
  BY <1>1, <1>0 DEF SavePending, SaveState
<1>3. /\ AtMostOne(draft[r]) /\ LedgerOK(state) /\ state.next = arg[r]
      /\ tx[1] = arg[r] /\ (arg[r] > 1 => tx[2] = state.receipts[1][2])
      /\ draft[r] \subseteq artifacts /\ round[r].scores = {}
  BY <1>2 DEF IInv, RunnerOK, Preparing, Carrying
<1>4. state \in Ledger /\ p \in Pending
  BY <1>0 DEF IInv, Typed, Pending
<1>5. /\ saved \in Ledger /\ saved.pending = {p} /\ saved.next = state.next
      /\ saved.receipts = state.receipts /\ saved.learned = state.learned
  BY <1>4, PendingLedger
<1>6. LedgerOK(saved)'
  <2>1. p.stage = state.next /\ p.tx = tx /\ p.status = "prepared"
    OBVIOUS
  <2> HIDE DEF p, saved
  <2>2. AtMostOne(saved.pending)
    BY <1>5 DEF AtMostOne
  <2>3. /\ saved.next = Len(saved.receipts) + 1
        /\ \A s \in 1..Len(saved.receipts) :
              /\ saved.receipts[s][1] = s
              /\ saved.receipts[s][2] = saved.receipts[1][2]
              /\ saved.receipts[s] \in broadcast'
    BY <1>2, <1>3, <1>5 DEF LedgerOK
  <2>4. saved.learned = UNION {Updates(s) : s \in 1..Len(saved.receipts)}
    BY <1>3, <1>5 DEF LedgerOK
  <2>5. ASSUME NEW q \in saved.pending
        PROVE  /\ q.stage = saved.next /\ q.tx[1] = saved.next
               /\ saved.next > 1 => q.tx[2] = saved.receipts[1][2]
               /\ q.status # "submitted"
    BY <1>3, <1>5, <2>1, <2>5
  <2> QED BY <2>2, <2>3, <2>4, <2>5 DEF LedgerOK
<1>7. mem'[r] = {saved} /\ pc'[r] = "submit" /\ OnlyAt(r)
  BY <1>2 DEF IInv, Typed, Goto, OnlyAt
<1>8. Typed'
  BY <1>2, <1>5 DEF IInv, Typed, Goto, Labels, node
<1>9. NodeOK' /\ DiskOK'
  BY <1>2, <1>6 DEF IInv, NodeOK, DiskOK, AtMostOne, node
<1>10. RunnerOK(r)'
  <2>1. \A q \in saved.pending : q.tx \in draft[r]
    BY <1>5
  <2> QED BY <1>2, <1>3, <1>6, <1>7, <2>1 DEF RunnerOK, AtMostOne, Preparing, Carrying
<1> QED BY <1>2, <1>7, <1>8, <1>9, <1>10, StepIInv

(* What the node receives was written down before. *)
LEMMA ReceiveOK ==
    ASSUME IInv, NEW r \in Runners, pc[r] = "submit", NEW tx \in draft[r], Receive(tx),
           UNCHANGED files
    PROVE  /\ NodeOK' /\ DiskOK' /\ broadcast' = broadcast \cup {tx}
           /\ broadcast' \subseteq Txid /\ mempool' \subseteq Txid
           /\ UNCHANGED <<wallet, accepted>>
<1>1. tx \in Txid /\ tx \in artifacts
  BY DEF IInv, Typed, RunnerOK
<1>2. /\ mempool' = mempool \cup {tx} /\ broadcast' = broadcast \cup {tx}
      /\ UNCHANGED <<wallet, accepted>>
  BY DEF Receive
<1>3. NodeOK'
  BY <1>1, <1>2 DEF IInv, NodeOK, files
<1>4. DiskOK'
  BY <1>2, DiskKeeps DEF IInv, files
<1> QED BY <1>1, <1>2, <1>3, <1>4 DEF IInv, Typed

LEMMA SubmitAnsweredIInv ==
    ASSUME IInv, NEW r \in Runners, SubmitAnswered(r) PROVE IInv'
<1>1. PICK tx \in draft[r] : Receive(tx)
  BY DEF SubmitAnswered
<1>2. /\ pc[r] = "submit" /\ Goto(r, "save_submitted") /\ "save_submitted" \in Labels
      /\ UNCHANGED <<files, arg, mem, draft, round, faults, reorgs>>
  BY DEF SubmitAnswered, Labels
<1>3. /\ NodeOK' /\ DiskOK' /\ broadcast' = broadcast \cup {tx}
      /\ broadcast' \subseteq Txid /\ mempool' \subseteq Txid
      /\ UNCHANGED <<wallet, accepted>>
  BY <1>1, <1>2, ReceiveOK
<1>4. /\ OnlyAt(r) /\ pc'[r] = "save_submitted" /\ pc' \in [Runners -> Labels]
      /\ arg' \in [Runners -> Stages] /\ mem' \in [Runners -> SUBSET Ledger]
      /\ draft' \in [Runners -> SUBSET Txid] /\ round' \in [Runners -> Round]
  BY <1>2, GotoOK DEF IInv
<1>5. Typed'
  BY <1>2, <1>3, <1>4 DEF IInv, Typed, files
<1>6. RunnerOK(r)'
  <2>1. RunnerOK(r)
    BY DEF IInv
  <2>2. \A state \in mem'[r] : LedgerOK(state)'
    BY <1>2, <1>3, <2>1, LedgerKeeps DEF RunnerOK
  <2>3. draft'[r] \subseteq broadcast'
    BY <1>2, <1>3, <2>1 DEF RunnerOK, AtMostOne
  <2> QED BY <1>2, <1>4, <2>1, <2>2, <2>3 DEF RunnerOK, Preparing, Carrying
<1> QED BY <1>2, <1>3, <1>4, <1>5, <1>6, StepIInv DEF files

LEMMA SubmitUnansweredIInv ==
    ASSUME IInv, NEW r \in Runners, SubmitUnanswered(r) PROVE IInv'
<1>1. PICK tx \in draft[r] : Receive(tx)
  BY DEF SubmitUnanswered
<1>2. /\ pc[r] = "submit" /\ Exit(r) /\ UNCHANGED <<files, reorgs>>
      /\ faults < MaxFaults /\ faults' = faults + 1
  BY DEF SubmitUnanswered
<1>3. /\ NodeOK' /\ DiskOK' /\ broadcast' = broadcast \cup {tx}
      /\ broadcast' \subseteq Txid /\ mempool' \subseteq Txid
      /\ UNCHANGED <<wallet, accepted>>
  BY <1>1, <1>2, ReceiveOK
<1>4. /\ OnlyAt(r) /\ RunnerOK(r)'
      /\ pc' \in [Runners -> Labels] /\ arg' \in [Runners -> Stages]
      /\ mem' \in [Runners -> SUBSET Ledger]
      /\ draft' \in [Runners -> SUBSET Txid]
      /\ round' \in [Runners -> Round]
  BY <1>2, ExitOK DEF IInv
<1>5. faults' \in 0..MaxFaults
  BY <1>2, RunnerAssumption DEF IInv, Typed
<1>6. Typed'
  BY <1>2, <1>3, <1>4, <1>5 DEF IInv, Typed, files
<1> QED BY <1>2, <1>3, <1>4, <1>6, StepIInv DEF files

(* The answer is written down. *)
LEMMA SaveSubmittedIInv == ASSUME IInv, NEW r \in Runners, SaveSubmitted(r) PROVE IInv'
<1>0. PICK state \in mem[r] : \E p \in state.pending :
        LET saved == [state EXCEPT !.pending = {[p EXCEPT !.status = "submitted"]}]
        IN  /\ SaveState(saved)
            /\ mem' = [mem EXCEPT ![r] = {saved}]
  BY DEF SaveSubmitted
<1>1. PICK p \in state.pending :
        LET saved == [state EXCEPT !.pending = {[p EXCEPT !.status = "submitted"]}]
        IN  /\ SaveState(saved)
            /\ mem' = [mem EXCEPT ![r] = {saved}]
  BY <1>0
<1> DEFINE q == [p EXCEPT !.status = "submitted"]
           saved == [state EXCEPT !.pending = {q}]
<1>2. /\ pc[r] = "save_submitted" /\ Goto(r, "settle") /\ disk' = {saved}
      /\ mem' = [mem EXCEPT ![r] = {saved}]
      /\ UNCHANGED <<node, keys, artifacts, arg, draft, round, broadcast, faults, reorgs>>
  BY <1>1 DEF SaveSubmitted, SaveState
<1>3. /\ AtMostOne(draft[r]) /\ LedgerOK(state) /\ p.tx \in broadcast
      /\ round[r].scores = {}
  BY <1>2 DEF IInv, RunnerOK
<1>4. state \in Ledger /\ p \in Pending
  BY DEF IInv, Typed, Ledger
<1>5. q \in Pending /\ q.stage = p.stage /\ q.tx = p.tx
  BY <1>4 DEF Pending
<1>6. /\ saved \in Ledger /\ saved.pending = {q} /\ saved.next = state.next
      /\ saved.receipts = state.receipts /\ saved.learned = state.learned
  BY <1>4, <1>5, PendingLedger
<1>7. LedgerOK(saved)'
  <2> HIDE DEF q, saved
  <2>1. AtMostOne(saved.pending)
    BY <1>6 DEF AtMostOne
  <2>2. /\ saved.next = Len(saved.receipts) + 1
        /\ \A s \in 1..Len(saved.receipts) :
              /\ saved.receipts[s][1] = s
              /\ saved.receipts[s][2] = saved.receipts[1][2]
              /\ saved.receipts[s] \in broadcast'
    BY <1>2, <1>3, <1>6 DEF LedgerOK
  <2>3. saved.learned = UNION {Updates(s) : s \in 1..Len(saved.receipts)}
    BY <1>3, <1>6 DEF LedgerOK
  <2>4. ASSUME NEW x \in saved.pending
        PROVE  /\ x.stage = saved.next /\ x.tx[1] = saved.next
               /\ saved.next > 1 => x.tx[2] = saved.receipts[1][2]
               /\ x.tx \in broadcast'
    BY <1>2, <1>3, <1>5, <1>6, <2>4 DEF LedgerOK
  <2> QED BY <2>1, <2>2, <2>3, <2>4 DEF LedgerOK
<1>8. mem'[r] = {saved} /\ pc'[r] = "settle" /\ OnlyAt(r)
  BY <1>2 DEF IInv, Typed, Goto, OnlyAt
<1>9. Typed'
  BY <1>2, <1>6 DEF IInv, Typed, Goto, Labels, node
<1>10. NodeOK' /\ DiskOK'
  BY <1>2, <1>7 DEF IInv, NodeOK, DiskOK, AtMostOne, node
<1>11. RunnerOK(r)'
  BY <1>2, <1>3, <1>7, <1>8 DEF RunnerOK, AtMostOne, Preparing, Carrying
<1> QED BY <1>2, <1>8, <1>9, <1>10, <1>11, StepIInv

-------------------------------------------------------------------------------
(* Settling. *)

LEMMA StageFacts ==
    \A s \in Stages :
        /\ Len(Roles(s)) \in 0..4
        /\ Updates(s) \subseteq {"token_id", "controller_id", "current_root",
                                 "reserve_amount"}
BY DEF Stages, Roles, Updates

(* A read finds an output only of a transaction that was sent. *)
LEMMA ReadOutputIInv == ASSUME IInv, NEW r \in Runners, ReadOutput(r) PROVE IInv'
<1>0. PICK state \in mem[r] : \E p \in state.pending :
        LET n == round[r].read + 1
            role == Roles(p.stage)[n]
            seen == round[r].scores \cup {accepted[p.tx]}
        IN  /\ n <= Len(Roles(p.stage))
            /\ round' = [round EXCEPT ![r] =
                 IF Unspent(p.stage, role, p.tx[2])
                 THEN [@ EXCEPT !.read = n, !.scores = seen]
                 ELSE [@ EXCEPT !.read = n, !.missing = TRUE]]
  BY DEF ReadOutput
<1>1. PICK p \in state.pending :
        LET n == round[r].read + 1
            role == Roles(p.stage)[n]
            seen == round[r].scores \cup {accepted[p.tx]}
        IN  /\ n <= Len(Roles(p.stage))
            /\ round' = [round EXCEPT ![r] =
                 IF Unspent(p.stage, role, p.tx[2])
                 THEN [@ EXCEPT !.read = n, !.scores = seen]
                 ELSE [@ EXCEPT !.read = n, !.missing = TRUE]]
  BY <1>0
<1> DEFINE n == round[r].read + 1
           found == [round[r] EXCEPT !.read = n,
                       !.scores = round[r].scores \cup {accepted[p.tx]}]
           lacking == [round[r] EXCEPT !.read = n, !.missing = TRUE]
<1>2. /\ pc[r] = "settle"
      /\ UNCHANGED <<node, files, pc, arg, mem, draft, broadcast, faults, reorgs>>
  BY DEF ReadOutput
<1>3. LedgerOK(state) /\ AtMostOne(mem[r]) /\ AtMostOne(state.pending)
  BY DEF IInv, RunnerOK, LedgerOK
<1>4. state \in Ledger /\ p \in Pending /\ round[r] \in Round
  BY DEF IInv, Typed, Ledger
<1>5. n \in 0..4
  <2>1. Len(Roles(p.stage)) \in 0..4
    BY <1>4, StageFacts DEF Pending
  <2>2. n <= Len(Roles(p.stage))
    BY <1>1
  <2>3. round[r].read \in 0..4
    BY <1>4 DEF Round
  <2>4. PICK k \in 0..4 : n <= k
    BY <2>1, <2>2
  <2> QED BY <2>3, <2>4
<1>6. Unspent(p.stage, Roles(p.stage)[n], p.tx[2]) => p.tx \in DOMAIN accepted
  <2>1. p.tx = <<p.stage, p.tx[2]>>
    BY <1>3, <1>4 DEF LedgerOK, Pending, Txid
  <2> QED BY <2>1 DEF Unspent, IsAccepted
<1>7. /\ round' \in [Runners -> Round]
      /\ OnlyAt(r)
      /\ round'[r].scores # {} => (round[r].scores # {} \/ p.tx \in broadcast)
  <2>1. CASE Unspent(p.stage, Roles(p.stage)[n], p.tx[2])
    <3>1. p.tx \in DOMAIN accepted /\ accepted[p.tx] \in 0..Depth /\ p.tx \in broadcast
      BY <1>6, <2>1 DEF IInv, Typed, NodeOK
    <3>2. found \in Round
      BY <1>4, <1>5, <3>1 DEF Round
    <3>3. round' = [round EXCEPT ![r] = found]
      BY <1>1, <2>1
    <3> QED BY <1>2, <3>1, <3>2, <3>3 DEF IInv, Typed, OnlyAt
  <2>2. CASE ~Unspent(p.stage, Roles(p.stage)[n], p.tx[2])
    <3>1. lacking \in Round /\ lacking.scores = round[r].scores
      BY <1>4, <1>5 DEF Round
    <3>2. round' = [round EXCEPT ![r] = lacking]
      BY <1>1, <2>2
    <3> QED BY <1>2, <3>1, <3>2 DEF IInv, Typed, OnlyAt
  <2> QED BY <2>1, <2>2
<1>8. Typed'
  BY <1>2, <1>7 DEF IInv, Typed, node, files
<1>9. NodeOK' /\ DiskOK'
  BY <1>2, DiskKeeps DEF IInv, NodeOK, node, files
<1>10. RunnerOK(r)'
  <2>1. RunnerOK(r)
    BY DEF IInv
  <2>2. \A t \in mem'[r] : LedgerOK(t)'
    BY <1>2, <2>1, LedgerKeeps DEF RunnerOK
  <2>3. \A t \in mem[r] : \A q \in t.pending : q = p
    BY <1>3 DEF AtMostOne
  <2> QED BY <1>2, <1>7, <2>1, <2>2, <2>3 DEF RunnerOK, Preparing, Carrying, files
<1> QED BY <1>2, <1>7, <1>8, <1>9, <1>10, StepIInv DEF files

LEMMA ReadAgainIInv == ASSUME IInv, NEW r \in Runners, ReadAgain(r) PROVE IInv'
<1>1. /\ pc[r] = "settle" /\ round' = [round EXCEPT ![r] = FreshRound]
      /\ UNCHANGED <<node, files, pc, arg, mem, draft, broadcast, faults, reorgs>>
  BY DEF ReadAgain
<1>2. FreshRound \in Round /\ FreshRound.scores = {}
  BY RunnerAssumption DEF FreshRound, Round
<1>3. /\ round' \in [Runners -> Round] /\ OnlyAt(r) /\ round'[r].scores = {}
  BY <1>1, <1>2 DEF IInv, Typed, OnlyAt
<1>4. Typed'
  BY <1>1, <1>3 DEF IInv, Typed, node, files
<1>5. NodeOK' /\ DiskOK'
  BY <1>1, DiskKeeps DEF IInv, NodeOK, node, files
<1>6. RunnerOK(r)'
  <2>1. RunnerOK(r)
    BY DEF IInv
  <2>2. \A t \in mem'[r] : LedgerOK(t)'
    BY <1>1, <2>1, LedgerKeeps DEF RunnerOK
  <2> QED BY <1>1, <1>3, <2>1, <2>2 DEF RunnerOK, Preparing, Carrying
<1> QED BY <1>1, <1>3, <1>4, <1>5, <1>6, StepIInv DEF files

(* The ledger with one more receipt. *)
Settled(state, p) ==
    [next |-> p.stage + 1, pending |-> {}, receipts |-> Append(state.receipts, p.tx),
     learned |-> state.learned \cup Updates(p.stage)]

LEMMA SettledOK ==
    ASSUME NEW state \in Ledger, NEW p \in state.pending, LedgerOK(state),
           p.tx \in broadcast
    PROVE  Settled(state, p) \in Ledger /\ LedgerOK(Settled(state, p))
<1> DEFINE new == Settled(state, p)
           n == Len(state.receipts)
<1>1. /\ p \in Pending /\ p.stage \in Stages /\ p.tx \in Txid
      /\ state.receipts \in Seq(Txid) /\ n \in Nat
      /\ state.learned \subseteq {"token_id", "controller_id", "current_root",
                                  "reserve_amount"}
  BY DEF Ledger, Pending
<1>2. p.stage = n + 1 /\ p.tx[1] = n + 1 /\ (n + 1 > 1 => p.tx[2] = state.receipts[1][2])
  BY DEF LedgerOK
<1>3. /\ new.next = p.stage + 1 /\ new.pending = {}
      /\ new.receipts = Append(state.receipts, p.tx)
      /\ new.learned = state.learned \cup Updates(p.stage)
  BY DEF Settled
<1>4. /\ new.receipts \in Seq(Txid) /\ Len(new.receipts) = n + 1
      /\ \A s \in 1..n : new.receipts[s] = state.receipts[s]
      /\ new.receipts[n + 1] = p.tx
  BY <1>1, <1>3
<1>5. new \in Ledger
  <2>1. new.next \in 1..6
    BY <1>1, <1>3 DEF Stages
  <2>2. new.learned \in SUBSET {"token_id", "controller_id", "current_root",
                                "reserve_amount"}
    BY <1>1, <1>3, StageFacts
  <2> QED BY <1>3, <1>4, <2>1, <2>2 DEF Ledger, Settled
<1>6. LedgerOK(new)
  <2>1. AtMostOne(new.pending) /\ new.next = Len(new.receipts) + 1
    BY <1>1, <1>2, <1>3, <1>4 DEF AtMostOne
  <2>2. ASSUME NEW s \in 1..Len(new.receipts)
        PROVE  /\ new.receipts[s][1] = s
               /\ new.receipts[s][2] = new.receipts[1][2]
               /\ new.receipts[s] \in broadcast
    <3>1. CASE s \in 1..n
      <4>1. 1 \in 1..n
        BY <1>1, <3>1
      <4> QED BY <1>4, <3>1, <4>1 DEF LedgerOK
    <3>2. CASE s = n + 1
      <4>1. CASE n = 0
        BY <1>2, <1>4, <3>2, <4>1
      <4>2. CASE n # 0
        <5>1. 1 \in 1..n
          BY <1>1, <4>2
        <5> QED BY <1>1, <1>2, <1>4, <3>2, <4>2, <5>1
      <4> QED BY <4>1, <4>2
    <3> QED BY <1>1, <1>4, <3>1, <3>2
  <2>3. new.learned = UNION {Updates(s) : s \in 1..Len(new.receipts)}
    <3>1. 1..(n + 1) = (1..n) \cup {n + 1}
      BY <1>1
    <3>2. UNION {Updates(s) : s \in 1..(n + 1)}
            = (UNION {Updates(s) : s \in 1..n}) \cup Updates(n + 1)
      BY <3>1
    <3>3. state.learned = UNION {Updates(s) : s \in 1..n}
      BY DEF LedgerOK
    <3> QED BY <1>2, <1>3, <1>4, <3>2, <3>3
  <2> QED BY <1>3, <2>1, <2>2, <2>3 DEF LedgerOK
<1> QED BY <1>5, <1>6

LEMMA SettleIInv == ASSUME IInv, NEW r \in Runners, Settle(r) PROVE IInv'
<1>0. PICK state \in mem[r] : \E p \in state.pending :
        Confirmed(r, p) /\ disk' = {Settled(state, p)}
  BY DEF Settle, SaveState, Settled
<1>1. PICK p \in state.pending : Confirmed(r, p) /\ disk' = {Settled(state, p)}
  BY <1>0
<1>2. Exit(r) /\ UNCHANGED <<node, keys, artifacts, broadcast, faults, reorgs>>
  BY DEF Settle
<1>3. p.tx \in broadcast /\ LedgerOK(state) /\ state \in Ledger
  BY <1>1 DEF IInv, Typed, RunnerOK, Confirmed
<1>4. Settled(state, p) \in Ledger /\ LedgerOK(Settled(state, p))
  BY <1>3, SettledOK
<1>5. LedgerOK(Settled(state, p))'
  BY <1>2, <1>4, LedgerKeeps
<1>6. /\ OnlyAt(r) /\ RunnerOK(r)'
      /\ pc' \in [Runners -> Labels] /\ arg' \in [Runners -> Stages]
      /\ mem' \in [Runners -> SUBSET Ledger]
      /\ draft' \in [Runners -> SUBSET Txid]
      /\ round' \in [Runners -> Round]
  BY <1>2, ExitOK DEF IInv
<1>7. Typed'
  BY <1>1, <1>2, <1>4, <1>6 DEF IInv, Typed, node
<1>8. NodeOK' /\ DiskOK'
  BY <1>1, <1>2, <1>5 DEF IInv, NodeOK, DiskOK, AtMostOne, node
<1> QED BY <1>2, <1>6, <1>7, <1>8, StepIInv

-------------------------------------------------------------------------------
(* Every step keeps the invariant. *)
LEMMA NextIInv == IInv /\ [Next]_vars => IInv'
<1> SUFFICES ASSUME IInv, [Next]_vars PROVE IInv'
  OBVIOUS
<1>1. CASE \E f \in Funding : FundingArrives(f)
  BY <1>1, FundingArrivesIInv
<1>2. CASE \E tx \in mempool : AcceptTx(tx) \/ Drop(tx)
  BY <1>2, AcceptTxIInv, DropIInv
<1>3. CASE \E tx \in DOMAIN accepted : Reorg(tx)
  BY <1>3, ReorgIInv
<1>4. CASE Tick
  BY <1>4, TickIInv
<1>5. ASSUME NEW r \in Runners, Step(r) PROVE IInv'
  <2>1. CASE InitOpenKey(r) \/ InitWriteKey(r) \/ InitResume(r)
    BY <2>1, InitKeysIInv
  <2>2. CASE \/ InitUnfunded(r) \/ PrepareEnds(r) \/ ArtifactExists(r)
             \/ SubmitRefused(r) \/ GiveUp(r)
    BY <2>2, EndsIInv
  <2>3. CASE InitSave(r)
    BY <2>3, InitSaveIInv
  <2>4. CASE Prepare(r) \/ ArtifactAbsent(r) \/ WriteArtifact(r)
    BY <2>4, PrepareIInv, ArtifactAbsentIInv, WriteArtifactIInv
  <2>5. CASE SavePending(r) \/ SubmitAnswered(r) \/ SaveSubmitted(r)
    BY <2>5, SavePendingIInv, SubmitAnsweredIInv, SaveSubmittedIInv
  <2>6. CASE ReadOutput(r) \/ Settle(r) \/ ReadAgain(r)
    BY <2>6, ReadOutputIInv, SettleIInv, ReadAgainIInv
  <2> QED BY <1>5, <2>1, <2>2, <2>3, <2>4, <2>5, <2>6 DEF Step
<1>6. ASSUME NEW r \in Runners, NEW s \in Stages, Start(r, s) PROVE IInv'
  BY <1>6, StartIInv
<1>7. ASSUME NEW r \in Runners, SubmitUnanswered(r) \/ Crash(r) PROVE IInv'
  BY <1>7, SubmitUnansweredIInv, EndsIInv
<1>8. CASE UNCHANGED vars
  <2>1. UNCHANGED <<node, files, proc, broadcast>> /\ NodeOK'
    BY <1>8 DEF vars, node, files, proc, IInv, NodeOK
  <2>2. Typed'
    BY <1>8 DEF vars, node, files, proc, IInv, Typed
  <2> QED BY <2>1, <2>2, NodeStep DEF Typed
<1> QED BY <1>1, <1>2, <1>3, <1>4, <1>5, <1>6, <1>7, <1>8 DEF Next

THEOREM Invariant == Spec => []IInv
BY InitIInv, NextIInv, PTL DEF Spec

LEMMA CountOne == ASSUME NEW S, AtMostOne(S) PROVE Cardinality(S) <= 1
<1>1. CASE S = {}
  BY <1>1, FS_EmptySet
<1>2. CASE S # {}
  <2>1. PICK x \in S : TRUE
    BY <1>2
  <2>2. S = {x}
    BY <2>1 DEF AtMostOne
  <2>3. Cardinality({x}) = 1
    BY FS_Singleton
  <2> QED BY <2>2, <2>3
<1> QED BY <1>1, <1>2

(* Each file and each copy holds at most one well-formed ledger.           *)
THEOREM RunnerTypes == Spec => []TypeOK
<1>1. IInv => TypeOK
  <2> SUFFICES ASSUME IInv PROVE TypeOK
    OBVIOUS
  <2>1. Cardinality(disk) <= 1
    BY CountOne DEF IInv, DiskOK
  <2>2. ASSUME NEW r \in Runners
        PROVE  /\ mem[r] \subseteq Ledger /\ Cardinality(mem[r]) <= 1
               /\ draft[r] \subseteq Txid /\ Cardinality(draft[r]) <= 1
               /\ round[r].read \in 0..4 /\ round[r].scores \subseteq 0..Depth
    <3>1. Cardinality(mem[r]) <= 1 /\ Cardinality(draft[r]) <= 1
      BY CountOne DEF IInv, RunnerOK
    <3> QED BY <3>1 DEF IInv, Typed, Round
  <2> QED BY <2>1, <2>2 DEF IInv, Typed, TypeOK
<1> QED BY <1>1, Invariant, PTL

(* Whatever crashed, was lost, or ran beside it, a run that loads the      *)
(* ledger file finds one chain of receipts and at most the next stage.     *)
THEOREM LedgerTellsOneChain == Spec => []LedgerConsistent
<1>1. IInv => LedgerConsistent
  BY DEF IInv, DiskOK, LedgerOK, LedgerConsistent
<1> QED BY <1>1, Invariant, PTL

(* With any number of runners over one directory: what was sent has its    *)
(* signed artifact on disk, and a receipt was sent.                        *)
THEOREM SentIsTraced == Spec => []NothingUntraced
<1>1. IInv => LedgerConsistent
  BY DEF IInv, DiskOK, LedgerOK, LedgerConsistent
<1>2. IInv => NothingUntraced
  BY <1>1 DEF IInv, NodeOK, DiskOK, LedgerOK, NothingUntraced
<1> QED BY <1>2, Invariant, PTL

(* What is left for each stage: the costs of the stages before it are gone.*)
LEMMA ChangeLeft ==
    ASSUME NEW f \in Funding
    PROVE  /\ Change(1, f) = FundingKas[f]
           /\ Change(2, f) = FundingKas[f] - Cost(1)
           /\ Change(3, f) = FundingKas[f] - Cost(1) - Cost(2)
           /\ Change(4, f) = FundingKas[f] - Cost(1) - Cost(2) - Cost(3)
           /\ Change(5, f) = FundingKas[f] - Cost(1) - Cost(2) - Cost(3) - Cost(4)
<1> DEFINE F == FundingKas[f]
           Is(g) == g = [n \in 1..6 |-> IF n = 1 THEN F ELSE g[n-1] - Cost(n-1)]
           x2 == F - Cost(1)
           x3 == x2 - Cost(2)
           x4 == x3 - Cost(3)
           x5 == x4 - Cost(4)
           x6 == x5 - Cost(5)
           h == [n \in 1..6 |-> IF n = 1 THEN F ELSE IF n = 2 THEN x2 ELSE IF n = 3 THEN x3
                                ELSE IF n = 4 THEN x4 ELSE IF n = 5 THEN x5 ELSE x6]
           left == CHOOSE g : Is(g)
<1>1. ASSUME NEW n \in 1..6 PROVE h[n] = IF n = 1 THEN F ELSE h[n-1] - Cost(n-1)
  <2> HIDE DEF F
  <2>1. /\ h[1] = F /\ h[2] = x2 /\ h[3] = x3 /\ h[4] = x4 /\ h[5] = x5 /\ h[6] = x6
    <3> HIDE DEF x2, x3, x4, x5, x6
    <3> QED OBVIOUS
  <2>2. /\ h[2] = h[1] - Cost(1) /\ h[3] = h[2] - Cost(2) /\ h[4] = h[3] - Cost(3)
        /\ h[5] = h[4] - Cost(4) /\ h[6] = h[5] - Cost(5)
    <3> HIDE DEF h
    <3> QED BY <2>1
  <2> HIDE DEF h
  <2>3. n = 1 \/ n = 2 \/ n = 3 \/ n = 4 \/ n = 5 \/ n = 6
    OBVIOUS
  <2> QED BY <2>1, <2>2, <2>3
<1>2. Is(h)
  <2>1. h = [n \in 1..6 |-> h[n]]
    OBVIOUS
  <2> HIDE DEF h
  <2> QED BY <1>1, <2>1
<1>3. Is(left)
  <2> HIDE DEF Is, h
  <2> QED BY <1>2
<1>4. \A s \in 1..5 : Change(s, f) = left[s]
  BY DEF Change
<1> HIDE DEF left
<1>5. /\ left[1] = F /\ left[2] = left[1] - Cost(1) /\ left[3] = left[2] - Cost(2)
      /\ left[4] = left[3] - Cost(3) /\ left[5] = left[4] - Cost(4)
  BY <1>3
<1> QED BY <1>4, <1>5

(* A run that started from enough never stops for lack of KAS after its    *)
(* genesis: the five fees, the cells kept and the floor are all there is   *)
(* to pay, whoever shares the directory.                                   *)
THEOREM EnoughLasts == Spec => []FundingSuffices
<1>1. IInv => FundingSuffices
  <2> SUFFICES ASSUME IInv, NEW state \in disk, state.receipts # <<>>, state.next <= 5,
                      FundingKas[state.receipts[1][2]] >= EnoughKas
               PROVE  CanPay(state.next, state.receipts[1][2])
    BY DEF FundingSuffices
  <2> DEFINE f == state.receipts[1][2]
  <2>1. state \in Ledger /\ state.next = Len(state.receipts) + 1
    BY DEF IInv, Typed, DiskOK, LedgerOK
  <2>2. Len(state.receipts) \in Nat \ {0} /\ state.receipts[1] \in Txid
    BY <2>1 DEF Ledger
  <2>3. f \in Funding /\ state.next \in 2..5
    BY <2>1, <2>2 DEF Txid
  <2>4. /\ FundingKas[f] \in Nat /\ FundingKas[f] >= 5 * Fee + 5 * CellKas
        /\ Fee \in Nat /\ CellKas \in Nat
    BY <2>3, RunnerAssumption DEF EnoughKas
  <2> HIDE DEF f
  <2>5. CanPay(2, f) /\ CanPay(3, f) /\ CanPay(4, f) /\ CanPay(5, f)
    <3>1. /\ Cost(1) = Fee + CellKas /\ Cost(2) = Fee + CellKas /\ Cost(3) = Fee
          /\ Cost(4) = Fee + CellKas /\ Cost(5) = Fee + CellKas
      BY <2>4 DEF Cost
    <3> QED BY <2>3, <2>4, <3>1, ChangeLeft DEF CanPay
  <2>6. CanPay(state.next, f)
    BY <2>3, <2>5
  <2> QED BY <2>6 DEF f
<1> QED BY <1>1, Invariant, PTL

-------------------------------------------------------------------------------
(* While nothing is reorganised, every ledger anybody holds has receipts   *)
(* only of transactions at full depth, and the scores a runner has read are*)
(* the present score of the transaction it is settling. *)
Deep(state) ==
    \A s \in 1..Len(state.receipts) :
        IsAccepted(state.receipts[s]) /\ accepted[state.receipts[s]] = Depth

ReadsOK(r) ==
    \A state \in mem[r] :
        /\ Deep(state)
        /\ \A p \in state.pending : \A a \in round[r].scores :
              IsAccepted(p.tx) /\ accepted[p.tx] = a

DeepInv ==
    reorgs = 0 => /\ \A state \in disk : Deep(state)
                  /\ \A r \in Runners : ReadsOK(r)

(* A transaction whose inputs are unspent has not been accepted. *)
LEMMA UnspentIsNew ==
    ASSUME NEW tx \in Txid, InputsUnspent(tx)
    PROVE  tx \notin DOMAIN accepted
<1>1. tx = <<tx[1], tx[2]>> /\ tx[1] \in Stages
  BY DEF Txid
<1>2. CASE tx[1] = 1
  BY <1>1, <1>2 DEF InputsUnspent, FundingUnspent, IsAccepted
<1>3. CASE tx[1] # 1
  <2>1. PICK in \in Spends(tx[1]) : in = <<in[1], in[2]>>
    <3>1. \/ tx[1] = 2 /\ <<1, "change">> \in Spends(tx[1])
          \/ tx[1] = 3 /\ <<2, "change">> \in Spends(tx[1])
          \/ tx[1] = 4 /\ <<3, "change">> \in Spends(tx[1])
          \/ tx[1] = 5 /\ <<4, "change">> \in Spends(tx[1])
      BY <1>1, <1>3 DEF Stages, Spends
    <3>2. PICK n \in 1..4 : <<n, "change">> \in Spends(tx[1])
      BY <3>1
    <3> QED BY <3>2
  <2>2. ~SpentBy(in[1], in[2], tx[2])
    BY <1>3, <2>1 DEF InputsUnspent, Unspent
  <2> QED BY <1>1, <2>1, <2>2 DEF SpentBy, IsAccepted
<1> QED BY <1>2, <1>3

(* A step of one runner, to which the node does not listen. *)
LEMMA DeepStep ==
    ASSUME NEW r \in Runners, DeepInv, UNCHANGED <<accepted, reorgs>>, OnlyAt(r),
           reorgs = 0 => (\A state \in disk' : Deep(state)) /\ ReadsOK(r)'
    PROVE  DeepInv'
<1> SUFFICES ASSUME reorgs' = 0
             PROVE  (\A state \in disk : Deep(state))' /\ \A q \in Runners : ReadsOK(q)'
  BY DEF DeepInv
<1>1. (\A state \in disk : Deep(state))'
  BY DEF Deep, IsAccepted
<1>2. ASSUME NEW q \in Runners, q # r PROVE ReadsOK(q)'
  <2>1. ReadsOK(q) /\ mem'[q] = mem[q] /\ round'[q] = round[q]
    BY <1>2 DEF DeepInv, OnlyAt
  <2> QED BY <2>1 DEF ReadsOK, Deep, IsAccepted
<1> QED BY <1>1, <1>2

(* A runner that has ended has read nothing. *)
LEMMA ExitReads == ASSUME Typed, NEW r \in Runners, Exit(r) PROVE ReadsOK(r)' /\ OnlyAt(r)
<1>1. mem'[r] = {}
  BY DEF Exit, Typed
<1> QED BY <1>1, ExitOK DEF ReadsOK

LEMMA DeepNode ==
    ASSUME IInv, DeepInv, UNCHANGED <<disk, mem, round>>, reorgs' = reorgs,
           DOMAIN accepted \subseteq DOMAIN accepted',
           \A tx \in DOMAIN accepted : accepted'[tx] = accepted[tx]
    PROVE  DeepInv'
<1>1. \A state : Deep(state) => Deep(state)'
  BY DEF Deep, IsAccepted
<1> QED BY <1>1 DEF DeepInv, ReadsOK, IsAccepted

LEMMA DeepTick == ASSUME IInv, DeepInv, Tick PROVE DeepInv'
<1>1. /\ DOMAIN accepted' = DOMAIN accepted
      /\ \A t \in DOMAIN accepted : accepted'[t] = Older(accepted[t])
      /\ UNCHANGED <<disk, mem, reorgs>>
  BY DEF Tick, files
<1>2. \A r \in Runners : round'[r].scores = {Older(a) : a \in round[r].scores}
  BY DEF Tick, IInv, Typed, Round
<1>3. Older(Depth) = Depth
  BY RunnerAssumption DEF Older
<1>4. \A state : Deep(state) => Deep(state)'
  BY <1>1, <1>3 DEF Deep, IsAccepted
<1>5. ASSUME NEW r \in Runners, ReadsOK(r) PROVE ReadsOK(r)'
  BY <1>1, <1>2, <1>4, <1>5 DEF ReadsOK, IsAccepted
<1> QED BY <1>1, <1>4, <1>5 DEF DeepInv

LEMMA DeepReorg == ASSUME IInv, NEW tx \in DOMAIN accepted, Reorg(tx) PROVE DeepInv'
<1>1. reorgs' = reorgs + 1 /\ reorgs \in Nat
  BY RunnerAssumption DEF Reorg, IInv, Typed
<1> QED BY <1>1 DEF DeepInv

(* Steps that leave the file and the runner's copy as they are, and start  *)
(* no new reading. *)
LEMMA DeepQuiet ==
    ASSUME NEW r \in Runners, DeepInv, UNCHANGED <<accepted, reorgs, disk, mem>>,
           OnlyAt(r), round'[r].scores \subseteq round[r].scores
    PROVE  DeepInv'
<1>1. reorgs = 0 => ReadsOK(r)'
  BY DEF DeepInv, ReadsOK, Deep, IsAccepted
<1> QED BY <1>1, DeepStep DEF DeepInv

(* Steps that write a ledger with the receipts of the copy in memory. *)
LEMMA DeepRewrite ==
    ASSUME IInv, NEW r \in Runners, DeepInv, UNCHANGED <<accepted, reorgs, round>>,
           OnlyAt(r), pc[r] # "settle", NEW state \in mem[r], NEW new,
           new.receipts = state.receipts, disk' = {new}, mem'[r] = {new}
    PROVE  DeepInv'
<1>1. round[r].scores = {}
  BY DEF IInv, RunnerOK
<1>2. reorgs = 0 => Deep(new) /\ Deep(new)'
  BY DEF DeepInv, ReadsOK, Deep, IsAccepted
<1>3. reorgs = 0 => ReadsOK(r)'
  BY <1>1, <1>2 DEF ReadsOK
<1> QED BY <1>2, <1>3, DeepStep

LEMMA DeepRead == ASSUME IInv, DeepInv, NEW r \in Runners, ReadOutput(r) PROVE DeepInv'
<1>0. PICK state \in mem[r] : \E p \in state.pending :
        round' = [round EXCEPT ![r] =
           IF Unspent(p.stage, Roles(p.stage)[round[r].read + 1], p.tx[2])
           THEN [@ EXCEPT !.read = round[r].read + 1,
                          !.scores = round[r].scores \cup {accepted[p.tx]}]
           ELSE [@ EXCEPT !.read = round[r].read + 1, !.missing = TRUE]]
  BY DEF ReadOutput
<1>1. PICK p \in state.pending :
        round' = [round EXCEPT ![r] =
           IF Unspent(p.stage, Roles(p.stage)[round[r].read + 1], p.tx[2])
           THEN [@ EXCEPT !.read = round[r].read + 1,
                          !.scores = round[r].scores \cup {accepted[p.tx]}]
           ELSE [@ EXCEPT !.read = round[r].read + 1, !.missing = TRUE]]
  BY <1>0
<1>2. UNCHANGED <<accepted, reorgs, disk, mem, pc, arg, draft>>
  BY DEF ReadOutput, node, files
<1>3. round[r] \in Round /\ LedgerOK(state) /\ p \in Pending
  BY DEF IInv, Typed, RunnerOK, Ledger
<1>4. OnlyAt(r)
  BY <1>1, <1>2 DEF OnlyAt, IInv, Typed
<1>5. CASE Unspent(p.stage, Roles(p.stage)[round[r].read + 1], p.tx[2])
  <2>1. p.tx \in DOMAIN accepted
    <3>1. p.tx = <<p.stage, p.tx[2]>>
      BY <1>3 DEF LedgerOK, Pending, Txid
    <3> QED BY <1>5, <3>1 DEF Unspent, IsAccepted
  <2>2. round'[r].scores = round[r].scores \cup {accepted[p.tx]}
    BY <1>1, <1>3, <1>5 DEF IInv, Typed, Round
  <2>3. \A t \in mem[r] : \A q \in t.pending : q = p
    BY DEF IInv, RunnerOK, LedgerOK, AtMostOne
  <2>4. reorgs = 0 => ReadsOK(r)'
    BY <1>2, <2>1, <2>2, <2>3 DEF DeepInv, ReadsOK, Deep, IsAccepted
  <2> QED BY <1>2, <1>4, <2>4, DeepStep DEF DeepInv
<1>6. CASE ~Unspent(p.stage, Roles(p.stage)[round[r].read + 1], p.tx[2])
  <2>1. round'[r].scores = round[r].scores
    BY <1>1, <1>3, <1>6 DEF IInv, Typed, Round
  <2> QED BY <1>2, <1>4, <2>1, DeepQuiet
<1> QED BY <1>5, <1>6

LEMMA DeepSettle == ASSUME IInv, DeepInv, NEW r \in Runners, Settle(r) PROVE DeepInv'
<1>0. PICK state \in mem[r] : \E p \in state.pending :
        Confirmed(r, p) /\ disk' = {Settled(state, p)}
  BY DEF Settle, SaveState, Settled
<1>1. PICK p \in state.pending : Confirmed(r, p) /\ disk' = {Settled(state, p)}
  BY <1>0
<1>2. Exit(r) /\ UNCHANGED <<accepted, reorgs>>
  BY DEF Settle, node
<1>3. Settled(state, p).receipts = Append(state.receipts, p.tx)
      /\ state.receipts \in Seq(Txid) /\ p.tx \in Txid
  BY DEF Settled, IInv, Typed, Ledger, Pending
<1>4. reorgs = 0 => Deep(Settled(state, p))
  <2> SUFFICES ASSUME reorgs = 0, NEW s \in 1..Len(Append(state.receipts, p.tx))
               PROVE  /\ IsAccepted(Append(state.receipts, p.tx)[s])
                      /\ accepted[Append(state.receipts, p.tx)[s]] = Depth
    BY <1>3 DEF Deep
  <2>1. CASE s \in 1..Len(state.receipts)
    <3>1. Append(state.receipts, p.tx)[s] = state.receipts[s]
      BY <1>3, <2>1
    <3> QED BY <2>1, <3>1 DEF DeepInv, ReadsOK, Deep
  <2>2. CASE s = Len(state.receipts) + 1
    <3>1. Append(state.receipts, p.tx)[s] = p.tx
      BY <1>3, <2>2
    <3>2. Depth \in round[r].scores
      BY <1>1 DEF Confirmed
    <3> QED BY <3>1, <3>2 DEF DeepInv, ReadsOK
  <2> QED BY <1>3, <2>1, <2>2
<1> QED BY <1>1, <1>2, <1>4, ExitReads, DeepStep DEF IInv

LEMMA DeepNext == IInv /\ DeepInv /\ [Next]_vars => DeepInv'
<1> SUFFICES ASSUME IInv, DeepInv, [Next]_vars PROVE DeepInv'
  OBVIOUS
<1>1. CASE \E f \in Funding : FundingArrives(f)
  BY <1>1, DeepNode DEF FundingArrives, files, proc
<1>2. ASSUME NEW tx \in mempool, AcceptTx(tx) PROVE DeepInv'
  <2>1. tx \notin DOMAIN accepted
    BY <1>2, UnspentIsNew DEF AcceptTx, IInv, Typed
  <2> QED BY <1>2, <2>1, DeepNode DEF AcceptTx, files, proc
<1>3. CASE \E tx \in mempool : Drop(tx)
  BY <1>3, DeepNode DEF Drop, files, proc
<1>4. CASE Tick \/ \E tx \in DOMAIN accepted : Reorg(tx)
  BY <1>4, DeepTick, DeepReorg
<1>5. ASSUME NEW r \in Runners, Exit(r), UNCHANGED <<accepted, reorgs, disk>>
      PROVE  DeepInv'
  <2>1. reorgs = 0 => \A state \in disk' : Deep(state)
    BY <1>5 DEF DeepInv
  <2> QED BY <1>5, <2>1, ExitReads, DeepStep DEF IInv
<1>6. ASSUME NEW r \in Runners, NEW label \in Labels, Goto(r, label),
             UNCHANGED <<accepted, reorgs, disk, arg, mem, draft, round>>
      PROVE  DeepInv'
  BY <1>6, GotoOK, DeepQuiet DEF IInv
<1>7. ASSUME NEW r \in Runners, Step(r) PROVE DeepInv'
  <2>1. CASE \/ InitUnfunded(r) \/ PrepareEnds(r) \/ ArtifactExists(r)
             \/ SubmitRefused(r) \/ GiveUp(r)
    BY <1>5, <2>1 DEF InitUnfunded, PrepareEnds, ArtifactExists, SubmitRefused,
                      GiveUp, node, files
  <2>2. CASE \/ InitOpenKey(r) \/ InitWriteKey(r) \/ InitResume(r)
             \/ ArtifactAbsent(r) \/ WriteArtifact(r) \/ SubmitAnswered(r)
    BY <1>6, <2>2 DEF InitOpenKey, InitWriteKey, InitResume, ArtifactAbsent,
         WriteArtifact, SubmitAnswered, Receive, node, files, Labels
  <2>3. CASE InitSave(r)
    <3>1. /\ disk' = {[next |-> 1, pending |-> {}, receipts |-> <<>>, learned |-> {}]}
          /\ Exit(r) /\ UNCHANGED <<accepted, reorgs>>
      BY <2>3 DEF InitSave, SaveState, node
    <3>2. Deep([next |-> 1, pending |-> {}, receipts |-> <<>>, learned |-> {}])
      BY DEF Deep
    <3> QED BY <3>1, <3>2, ExitReads, DeepStep DEF IInv
  <2>4. CASE Prepare(r)
    <3>1. /\ UNCHANGED <<accepted, reorgs, disk, mem, arg, round>>
          /\ Goto(r, "artifact")
          /\ \E tx : draft' = [draft EXCEPT ![r] = {tx}]
      BY <2>4 DEF Prepare, node, files
    <3>2. OnlyAt(r)
      BY <3>1 DEF OnlyAt, Goto, IInv, Typed
    <3> QED BY <3>1, <3>2, DeepQuiet
  <2>5. CASE SavePending(r)
    <3>1. PICK state \in mem[r] : \E p :
            /\ SaveState([state EXCEPT !.pending = p])
            /\ mem' = [mem EXCEPT ![r] = {[state EXCEPT !.pending = p]}]
      BY <2>5 DEF SavePending
    <3>2. PICK new : disk' = {new} /\ mem' = [mem EXCEPT ![r] = {new}]
                       /\ new.receipts = state.receipts
      <4>1. PICK p : disk' = {[state EXCEPT !.pending = p]}
                       /\ mem' = [mem EXCEPT ![r] = {[state EXCEPT !.pending = p]}]
        BY <3>1 DEF SaveState
      <4>2. state \in Ledger
        BY DEF IInv, Typed
      <4>3. [state EXCEPT !.pending = p].receipts = state.receipts
        BY <4>2 DEF Ledger
      <4> QED BY <4>1, <4>3
    <3>3. /\ pc[r] = "save_pending" /\ Goto(r, "submit")
          /\ UNCHANGED <<accepted, reorgs, arg, draft, round>>
      BY <2>5 DEF SavePending, node
    <3>4. OnlyAt(r) /\ mem'[r] = {new}
      BY <3>2, <3>3 DEF OnlyAt, Goto, IInv, Typed
    <3> QED BY <3>2, <3>3, <3>4, DeepRewrite
  <2>6. CASE SaveSubmitted(r)
    <3>1. PICK state \in mem[r] : \E p :
            /\ SaveState([state EXCEPT !.pending = p])
            /\ mem' = [mem EXCEPT ![r] = {[state EXCEPT !.pending = p]}]
      BY <2>6 DEF SaveSubmitted
    <3>2. PICK new : disk' = {new} /\ mem' = [mem EXCEPT ![r] = {new}]
                       /\ new.receipts = state.receipts
      <4>1. PICK p : disk' = {[state EXCEPT !.pending = p]}
                       /\ mem' = [mem EXCEPT ![r] = {[state EXCEPT !.pending = p]}]
        BY <3>1 DEF SaveState
      <4>2. state \in Ledger
        BY DEF IInv, Typed
      <4>3. [state EXCEPT !.pending = p].receipts = state.receipts
        BY <4>2 DEF Ledger
      <4> QED BY <4>1, <4>3
    <3>3. /\ pc[r] = "save_submitted" /\ Goto(r, "settle")
          /\ UNCHANGED <<accepted, reorgs, arg, draft, round>>
      BY <2>6 DEF SaveSubmitted, node
    <3>4. OnlyAt(r) /\ mem'[r] = {new}
      BY <3>2, <3>3 DEF OnlyAt, Goto, IInv, Typed
    <3> QED BY <3>2, <3>3, <3>4, DeepRewrite
  <2>7. CASE ReadOutput(r) \/ Settle(r)
    BY <2>7, DeepRead, DeepSettle
  <2>8. CASE ReadAgain(r)
    <3>1. /\ UNCHANGED <<accepted, reorgs, disk, mem, pc, arg, draft>>
          /\ round' = [round EXCEPT ![r] = FreshRound]
      BY <2>8 DEF ReadAgain, node, files
    <3>2. OnlyAt(r) /\ round'[r].scores = {}
      BY <3>1 DEF OnlyAt, FreshRound, IInv, Typed
    <3> QED BY <3>1, <3>2, DeepQuiet
  <2> QED BY <1>7, <2>1, <2>2, <2>3, <2>4, <2>5, <2>6, <2>7, <2>8 DEF Step
<1>8. ASSUME NEW r \in Runners, NEW s \in Stages, Start(r, s) PROVE DeepInv'
  <2>1. PICK state \in disk : mem' = [mem EXCEPT ![r] = {state}]
    BY <1>8 DEF Start
  <2>2. /\ pc[r] = "idle" /\ UNCHANGED <<accepted, reorgs, disk, draft, round>>
        /\ \E label : Goto(r, label)
        /\ arg' = [arg EXCEPT ![r] = s]
    BY <1>8 DEF Start, node, files
  <2>3. OnlyAt(r) /\ mem'[r] = {state}
    BY <2>1, <2>2 DEF OnlyAt, Goto, IInv, Typed
  <2>4. round'[r].scores = {}
    BY <2>2 DEF IInv, RunnerOK
  <2>5. reorgs = 0 => (\A t \in disk' : Deep(t)) /\ ReadsOK(r)'
    BY <2>2, <2>3, <2>4 DEF DeepInv, ReadsOK, Deep, IsAccepted
  <2> QED BY <2>2, <2>3, <2>5, DeepStep
<1>9. ASSUME NEW r \in Runners, SubmitUnanswered(r) \/ Crash(r) PROVE DeepInv'
  BY <1>5, <1>9 DEF SubmitUnanswered, Crash, Receive, node, files
<1>10. CASE UNCHANGED vars
  BY <1>10, DeepNode DEF vars, node, files, proc
<1> QED BY <1>1, <1>2, <1>3, <1>4, <1>7, <1>8, <1>9, <1>10 DEF Next

(* However many runners there are, a receipt is written only at full depth.*)
THEOREM ReceiptsAreDeep == Spec => []SettledIsDeep
<1>1. Init => DeepInv
  BY DEF Init, DeepInv, ReadsOK
<1>2. DeepInv => SettledIsDeep
  BY DEF DeepInv, SettledIsDeep, Deep
<1> QED BY <1>1, <1>2, Invariant, DeepNext, PTL DEF Spec

-------------------------------------------------------------------------------
(* One runner: nobody replaces the file it works from, so what it holds is *)
(* the file, and what it is about to send is what the file expects.        *)
OneRunner == \A r, q \in Runners : r = q

Owns(r) ==
    /\ mem[r] \subseteq disk
    /\ pc[r] \in {"init_write_key", "init_save"} => disk = {}
    /\ pc[r] = "submit" => \A tx \in draft[r] : PendingTx(tx)

OnRecord(tx) ==
    \E state \in disk :
        \/ \E p \in state.pending : p.tx = tx
        \/ tx[1] <= Len(state.receipts) /\ state.receipts[tx[1]] = tx

SoloInv == (\A tx \in broadcast : OnRecord(tx)) /\ \A r \in Runners : Owns(r)

(* A step of the runner that leaves the file alone. *)
LEMMA SoloQuiet ==
    ASSUME OneRunner, SoloInv, NEW r \in Runners, UNCHANGED disk,
           mem'[r] \subseteq disk,
           pc'[r] \in {"init_write_key", "init_save"} => disk = {},
           pc'[r] = "submit" => \A tx \in draft'[r] : PendingTx(tx),
           \A tx \in broadcast' : tx \in broadcast \/ PendingTx(tx)
    PROVE  SoloInv'
<1>1. \A tx \in broadcast' : OnRecord(tx)'
  BY DEF SoloInv, OnRecord, PendingTx
<1>2. Owns(r)'
  BY DEF Owns, PendingTx
<1> QED BY <1>1, <1>2 DEF SoloInv, OneRunner

(* Where the node has a step, the runner has none. *)
LEMMA SoloNode ==
    ASSUME SoloInv, UNCHANGED <<disk, broadcast, mem, pc, draft>> PROVE SoloInv'
BY DEF SoloInv, Owns, OnRecord, PendingTx

LEMMA SoloExit ==
    ASSUME IInv, OneRunner, SoloInv, NEW r \in Runners, Exit(r), UNCHANGED disk,
           \A tx \in broadcast' : tx \in broadcast \/ PendingTx(tx)
    PROVE  SoloInv'
<1>1. mem'[r] = {} /\ pc'[r] = "idle"
  BY DEF Exit, Goto, IInv, Typed
<1> QED BY <1>1, SoloQuiet

LEMMA SoloGoto ==
    ASSUME IInv, OneRunner, SoloInv, NEW r \in Runners, NEW label, label # "submit",
           Goto(r, label), label \in {"init_write_key", "init_save"} => disk = {},
           mem' = mem, UNCHANGED <<disk, broadcast>>
    PROVE  SoloInv'
<1>1. mem'[r] \subseteq disk /\ pc'[r] = label
  BY DEF Goto, IInv, Typed, SoloInv, Owns
<1> QED BY <1>1, SoloQuiet

LEMMA SoloInitSave ==
    ASSUME IInv, OneRunner, SoloInv, NEW r \in Runners, InitSave(r) PROVE SoloInv'
<1>1. disk = {} /\ broadcast' = broadcast /\ Exit(r)
  BY DEF InitSave, SoloInv, Owns
<1>2. broadcast = {}
  BY <1>1 DEF SoloInv, OnRecord
<1>3. mem'[r] = {} /\ pc'[r] = "idle"
  BY <1>1 DEF Exit, Goto, IInv, Typed
<1> QED BY <1>1, <1>2, <1>3 DEF SoloInv, Owns, OneRunner

LEMMA SoloSavePending ==
    ASSUME IInv, OneRunner, SoloInv, NEW r \in Runners, SavePending(r) PROVE SoloInv'
<1>0. PICK state \in mem[r], tx \in draft[r] :
        LET saved == [state EXCEPT !.pending =
                        {[stage |-> arg[r], tx |-> tx, status |-> "prepared"]}]
        IN  SaveState(saved) /\ mem' = [mem EXCEPT ![r] = {saved}]
  BY DEF SavePending
<1> DEFINE p == [stage |-> arg[r], tx |-> tx, status |-> "prepared"]
           saved == [state EXCEPT !.pending = {p}]
<1>1. disk' = {saved} /\ mem' = [mem EXCEPT ![r] = {saved}]
  BY <1>0 DEF SaveState
<1>2. /\ pc[r] = "save_pending" /\ Goto(r, "submit")
      /\ UNCHANGED <<draft, broadcast>>
  BY DEF SavePending
<1>3. state \in Ledger /\ state \in disk /\ state.pending = {}
  BY <1>2 DEF IInv, Typed, SoloInv, Owns, RunnerOK, Preparing
<1>4. saved.pending = {p} /\ saved.receipts = state.receipts /\ p.tx = tx
  BY <1>3 DEF Ledger
<1>5. \A t \in broadcast : OnRecord(t)'
  <2>1. ASSUME NEW t \in broadcast
        PROVE  t[1] <= Len(state.receipts) /\ state.receipts[t[1]] = t
    BY <1>3 DEF SoloInv, OnRecord, IInv, DiskOK, AtMostOne
  <2> QED BY <1>1, <1>4, <2>1 DEF OnRecord
<1>6. \A t \in draft[r] : t = tx
  BY DEF IInv, RunnerOK, AtMostOne
<1>7. /\ mem'[r] = {saved} /\ pc'[r] = "submit" /\ draft'[r] = draft[r]
  BY <1>1, <1>2 DEF IInv, Typed, Goto
<1>8. Owns(r)'
  BY <1>1, <1>4, <1>6, <1>7 DEF Owns, PendingTx
<1> QED BY <1>2, <1>5, <1>8 DEF SoloInv, OneRunner

LEMMA SoloSaveSubmitted ==
    ASSUME IInv, OneRunner, SoloInv, NEW r \in Runners, SaveSubmitted(r) PROVE SoloInv'
<1>0. PICK state \in mem[r] : \E p \in state.pending :
        LET saved == [state EXCEPT !.pending = {[p EXCEPT !.status = "submitted"]}]
        IN  SaveState(saved) /\ mem' = [mem EXCEPT ![r] = {saved}]
  BY DEF SaveSubmitted
<1>1. PICK p \in state.pending :
        LET saved == [state EXCEPT !.pending = {[p EXCEPT !.status = "submitted"]}]
        IN  SaveState(saved) /\ mem' = [mem EXCEPT ![r] = {saved}]
  BY <1>0
<1> DEFINE q == [p EXCEPT !.status = "submitted"]
           saved == [state EXCEPT !.pending = {q}]
<1>2. disk' = {saved} /\ mem' = [mem EXCEPT ![r] = {saved}]
  BY <1>1 DEF SaveState
<1>3. Goto(r, "settle") /\ UNCHANGED broadcast
  BY DEF SaveSubmitted
<1>4. state \in Ledger /\ state \in disk /\ p \in Pending /\ AtMostOne(state.pending)
  BY DEF IInv, Typed, SoloInv, Owns, Ledger, RunnerOK, LedgerOK
<1>5. saved.pending = {q} /\ saved.receipts = state.receipts /\ q.tx = p.tx
  BY <1>4 DEF Ledger, Pending
<1>6. \A t \in broadcast : OnRecord(t)'
  <2>1. ASSUME NEW t \in broadcast
        PROVE  \/ p.tx = t
               \/ t[1] <= Len(state.receipts) /\ state.receipts[t[1]] = t
    BY <1>4 DEF SoloInv, OnRecord, IInv, DiskOK, AtMostOne
  <2> QED BY <1>2, <1>5, <2>1 DEF OnRecord
<1>7. mem'[r] = {saved} /\ pc'[r] = "settle"
  BY <1>2, <1>3 DEF IInv, Typed, Goto
<1>8. Owns(r)'
  BY <1>2, <1>7 DEF Owns
<1> QED BY <1>3, <1>6, <1>8 DEF SoloInv, OneRunner

LEMMA SoloSettle ==
    ASSUME IInv, OneRunner, SoloInv, NEW r \in Runners, Settle(r) PROVE SoloInv'
<1>0. PICK state \in mem[r] : \E p \in state.pending : disk' = {Settled(state, p)}
  BY DEF Settle, SaveState, Settled
<1>1. PICK p \in state.pending : disk' = {Settled(state, p)}
  BY <1>0
<1>2. Exit(r) /\ UNCHANGED broadcast
  BY DEF Settle
<1>3. /\ state \in Ledger /\ state \in disk /\ LedgerOK(state) /\ AtMostOne(state.pending)
      /\ p \in Pending
  BY DEF IInv, Typed, SoloInv, Owns, Ledger, RunnerOK, LedgerOK
<1>4. /\ Settled(state, p).receipts = Append(state.receipts, p.tx)
      /\ state.receipts \in Seq(Txid) /\ p.tx \in Txid
      /\ p.tx[1] = Len(state.receipts) + 1
  BY <1>3 DEF Settled, Ledger, Pending, LedgerOK
<1>5. ASSUME NEW t \in broadcast PROVE OnRecord(t)'
  <2>1. \/ p.tx = t
        \/ t[1] <= Len(state.receipts) /\ state.receipts[t[1]] = t
    BY <1>3 DEF SoloInv, OnRecord, IInv, DiskOK, AtMostOne
  <2>2. t[1] \in 1..5
    BY DEF IInv, Typed, Txid, Stages
  <2>3. /\ t[1] <= Len(Append(state.receipts, p.tx))
        /\ Append(state.receipts, p.tx)[t[1]] = t
    BY <1>4, <2>1, <2>2
  <2> QED BY <1>1, <1>4, <2>3 DEF OnRecord
<1>6. mem'[r] = {} /\ pc'[r] = "idle"
  BY <1>2 DEF Exit, Goto, IInv, Typed
<1>7. Owns(r)'
  BY <1>6 DEF Owns
<1> QED BY <1>2, <1>5, <1>7 DEF SoloInv, OneRunner

LEMMA SoloStep ==
    ASSUME IInv, OneRunner, SoloInv, NEW r \in Runners, Step(r) PROVE SoloInv'
<1>1. CASE \/ InitUnfunded(r) \/ PrepareEnds(r) \/ ArtifactExists(r)
           \/ SubmitRefused(r) \/ GiveUp(r)
  BY <1>1, SoloExit DEF InitUnfunded, PrepareEnds, ArtifactExists, SubmitRefused,
                        GiveUp, files
<1>2. CASE InitOpenKey(r) \/ InitResume(r)
  BY <1>2, SoloGoto DEF InitOpenKey, InitResume, files
<1>3. CASE InitWriteKey(r)
  <2>1. disk = {}
    BY <1>3 DEF InitWriteKey, SoloInv, Owns
  <2> QED BY <1>3, <2>1, SoloGoto DEF InitWriteKey
<1>4. CASE Prepare(r) \/ ArtifactAbsent(r) \/ WriteArtifact(r)
  BY <1>4, SoloGoto DEF Prepare, ArtifactAbsent, WriteArtifact, files
<1>5. CASE SubmitAnswered(r)
  <2>1. PICK tx \in draft[r] : broadcast' = broadcast \cup {tx}
    BY <1>5 DEF SubmitAnswered, Receive
  <2>2. PendingTx(tx)
    BY <1>5, <2>1 DEF SubmitAnswered, SoloInv, Owns
  <2>3. /\ UNCHANGED <<disk, mem>> /\ pc'[r] = "save_submitted"
    BY <1>5 DEF SubmitAnswered, files, Goto, IInv, Typed
  <2>4. mem'[r] \subseteq disk
    BY <2>3 DEF SoloInv, Owns
  <2> QED BY <2>1, <2>2, <2>3, <2>4, SoloQuiet
<1>6. CASE InitSave(r) \/ SavePending(r) \/ SaveSubmitted(r) \/ Settle(r)
  BY <1>6, SoloInitSave, SoloSavePending, SoloSaveSubmitted, SoloSettle
<1>7. CASE ReadOutput(r) \/ ReadAgain(r)
  BY <1>7, SoloNode DEF ReadOutput, ReadAgain, files
<1> QED BY <1>1, <1>2, <1>3, <1>4, <1>5, <1>6, <1>7 DEF Step

LEMMA SoloNext == OneRunner /\ IInv /\ SoloInv /\ [Next]_vars => SoloInv'
<1> SUFFICES ASSUME OneRunner, IInv, SoloInv, [Next]_vars PROVE SoloInv'
  OBVIOUS
<1>1. CASE \/ \E f \in Funding : FundingArrives(f)
           \/ \E tx \in mempool : AcceptTx(tx) \/ Drop(tx)
           \/ \E tx \in DOMAIN accepted : Reorg(tx)
           \/ Tick \/ UNCHANGED vars
  BY <1>1, SoloNode
     DEF FundingArrives, AcceptTx, Drop, Reorg, Tick, vars, files, proc
<1>2. ASSUME NEW r \in Runners, Step(r) PROVE SoloInv'
  BY <1>2, SoloStep
<1>3. ASSUME NEW r \in Runners, NEW s \in Stages, Start(r, s) PROVE SoloInv'
  <2>1. PICK state \in disk : mem' = [mem EXCEPT ![r] = {state}]
    BY <1>3 DEF Start
  <2>2. UNCHANGED <<disk, broadcast>> /\ pc'[r] \in {"settle", "prepare"}
    BY <1>3 DEF Start, files, Goto, IInv, Typed
  <2>3. mem'[r] = {state}
    BY <2>1 DEF IInv, Typed
  <2> QED BY <2>2, <2>3, SoloQuiet
<1>4. ASSUME NEW r \in Runners, SubmitUnanswered(r) PROVE SoloInv'
  <2>1. PICK tx \in draft[r] : broadcast' = broadcast \cup {tx}
    BY <1>4 DEF SubmitUnanswered, Receive
  <2>2. PendingTx(tx)
    BY <1>4, <2>1 DEF SubmitUnanswered, SoloInv, Owns
  <2>3. UNCHANGED disk /\ Exit(r)
    BY <1>4 DEF SubmitUnanswered, files
  <2> QED BY <2>1, <2>2, <2>3, SoloExit
<1>5. ASSUME NEW r \in Runners, Crash(r) PROVE SoloInv'
  BY <1>5, SoloExit DEF Crash, files
<1> QED BY <1>1, <1>2, <1>3, <1>4, <1>5 DEF Next

LEMMA InitSolo == Init => SoloInv
BY DEF Init, SoloInv, Owns

(* Alone, a runner sends nothing the ledger file does not account for.     *)
THEOREM SentIsOnRecord ==
    ASSUME OneRunner PROVE Spec => []BroadcastIsOnRecord
<1>1. IInv /\ SoloInv => BroadcastIsOnRecord
  BY DEF IInv, NodeOK, SoloInv, OnRecord, BroadcastIsOnRecord
<1>2. IInv /\ SoloInv /\ [Next]_vars => SoloInv'
  BY SoloNext
<1> QED BY <1>1, <1>2, InitSolo, Invariant, PTL DEF Spec

LEMMA OneEach == IInv /\ SoloInv => OneTransactionPerStage
<1> SUFFICES ASSUME IInv, SoloInv, NEW tx \in broadcast, NEW other \in broadcast,
                    tx[1] = other[1]
             PROVE  tx = other
  BY DEF OneTransactionPerStage
<1>1. PICK state \in disk :
        \/ \E p \in state.pending : p.tx = tx
        \/ tx[1] <= Len(state.receipts) /\ state.receipts[tx[1]] = tx
  BY DEF SoloInv, OnRecord
<1>2. \/ \E p \in state.pending : p.tx = other
      \/ other[1] <= Len(state.receipts) /\ state.receipts[other[1]] = other
  BY DEF SoloInv, OnRecord, IInv, DiskOK, AtMostOne
<1>3. /\ AtMostOne(state.pending) /\ Len(state.receipts) \in Nat
      /\ \A p \in state.pending : p.tx[1] = Len(state.receipts) + 1
  BY DEF IInv, Typed, DiskOK, LedgerOK, Ledger
<1> QED BY <1>1, <1>2, <1>3 DEF AtMostOne

(* Alone, a runner never has two transactions sent for one stage, whatever *)
(* was lost, retried or interrupted. *)
THEOREM OneSentForEachStage ==
    ASSUME OneRunner PROVE Spec => []OneTransactionPerStage
<1>1. IInv /\ SoloInv /\ [Next]_vars => SoloInv'
  BY SoloNext
<1> QED BY <1>1, OneEach, InitSolo, Invariant, PTL DEF Spec

Advances ==
    \A old \in disk : \E new \in disk' :
        \/ new.receipts = old.receipts /\ \A p \in old.pending :
              \E q \in new.pending : q.tx = p.tx
        \/ \E p \in old.pending : new.receipts = Append(old.receipts, p.tx)

LEMMA AdvanceSteps == OneRunner /\ IInv /\ SoloInv /\ [Next]_vars => [Advances]_vars
<1> SUFFICES ASSUME OneRunner, IInv, SoloInv, Next PROVE Advances
  OBVIOUS
<1>1. CASE UNCHANGED disk
  BY <1>1 DEF Advances
<1>2. ASSUME NEW r \in Runners, Step(r), ~UNCHANGED disk PROVE Advances
  <2>1. InitSave(r) \/ SavePending(r) \/ SaveSubmitted(r) \/ Settle(r)
    BY <1>2 DEF Step, InitOpenKey, InitWriteKey, InitResume, InitUnfunded, Prepare,
         PrepareEnds, ArtifactAbsent, WriteArtifact, ArtifactExists, SubmitAnswered,
         SubmitRefused, ReadOutput, ReadAgain, GiveUp, files
  <2>2. CASE InitSave(r)
    BY <2>2 DEF InitSave, SoloInv, Owns, Advances
  <2>3. \A state \in mem[r] : /\ state \in Ledger /\ AtMostOne(state.pending)
                              /\ \A old \in disk : old = state
    BY DEF IInv, Typed, RunnerOK, LedgerOK, DiskOK, AtMostOne, SoloInv, Owns
  <2>4. CASE SavePending(r)
    <3>1. PICK state \in mem[r] : \E P : disk' = {[state EXCEPT !.pending = P]}
      BY <2>4 DEF SavePending, SaveState
    <3>2. PICK P : disk' = {[state EXCEPT !.pending = P]}
      BY <3>1
    <3>3. [state EXCEPT !.pending = P].receipts = state.receipts
      BY <2>3 DEF Ledger
    <3>4. state.pending = {}
      BY <2>4 DEF SavePending, IInv, RunnerOK, Preparing
    <3> QED BY <2>3, <3>2, <3>3, <3>4 DEF Advances
  <2>5. CASE SaveSubmitted(r)
    <3>1. PICK state \in mem[r] : \E p \in state.pending :
            disk' = {[state EXCEPT !.pending = {[p EXCEPT !.status = "submitted"]}]}
      BY <2>5 DEF SaveSubmitted, SaveState
    <3>2. PICK p \in state.pending :
            disk' = {[state EXCEPT !.pending = {[p EXCEPT !.status = "submitted"]}]}
      BY <3>1
    <3> DEFINE q == [p EXCEPT !.status = "submitted"]
               new == [state EXCEPT !.pending = {q}]
    <3>3. new.receipts = state.receipts /\ new.pending = {q} /\ q.tx = p.tx
      BY <2>3 DEF Ledger, Pending
    <3>4. \A o \in state.pending : o = p
      BY <2>3 DEF AtMostOne
    <3> QED BY <2>3, <3>2, <3>3, <3>4 DEF Advances
  <2>6. CASE Settle(r)
    <3>1. PICK state \in mem[r] : \E p \in state.pending : disk' = {Settled(state, p)}
      BY <2>6 DEF Settle, SaveState, Settled
    <3>2. PICK p \in state.pending : disk' = {Settled(state, p)}
      BY <3>1
    <3>3. Settled(state, p).receipts = Append(state.receipts, p.tx)
      BY DEF Settled
    <3> QED BY <2>3, <3>2, <3>3 DEF Advances
  <2> QED BY <2>1, <2>2, <2>4, <2>5, <2>6
<1>3. ASSUME NEW r \in Runners, ~Step(r),
             \/ \E s \in Stages : Start(r, s)
             \/ SubmitUnanswered(r) \/ Crash(r)
      PROVE  Advances
  BY <1>1, <1>3 DEF Start, SubmitUnanswered, Crash, files
<1>4. CASE \/ \E f \in Funding : FundingArrives(f)
           \/ \E tx \in mempool : AcceptTx(tx) \/ Drop(tx)
           \/ \E tx \in DOMAIN accepted : Reorg(tx)
           \/ Tick
  BY <1>1, <1>4 DEF FundingArrives, AcceptTx, Drop, Reorg, Tick, files
<1> QED BY <1>1, <1>2, <1>3, <1>4 DEF Next

(* Alone, a runner never rewrites the ledger's history. *)
THEOREM HistoryStands == ASSUME OneRunner PROVE Spec => LedgerOnlyAdvances
<1>1. IInv /\ SoloInv /\ [Next]_vars => SoloInv'
  BY SoloNext
<1>2. IInv /\ SoloInv /\ [Next]_vars => [Advances]_vars
  BY AdvanceSteps
<1>3. Spec => [][Advances]_vars
  BY <1>1, <1>2, InitSolo, Invariant, PTL DEF Spec
<1> QED BY <1>3 DEF LedgerOnlyAdvances, Advances
===============================================================================
