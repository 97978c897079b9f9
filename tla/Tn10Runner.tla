------------------------------ MODULE Tn10Runner ------------------------------
(***************************************************************************)
(* The testnet runner, deploy/src/bin/snapshot_tn10.rs: a command-line     *)
(* program run once per step, that takes a snapshot through five           *)
(* transactions (token genesis, controller genesis, reserve handoff, claim,*)
(* recipient split).  Each run loads a ledger file, does one thing and     *)
(* ends; it may end anywhere, on an RPC error, a crash or its own time     *)
(* limit, and what is on disk and what the node knows is all that remains. *)
(*                                                                         *)
(* Abstractions.                                                           *)
(*  - A transaction is named by its stage and the funding cell its chain   *)
(*    started from: every other input of a stage is an output recorded in  *)
(*    a receipt, and building is deterministic (a txid leaves signatures   *)
(*    out), so building it again gives the same txid.                      *)
(*  - Time is the AGE of an acceptance: virtual DAA score less accepting   *)
(*    score, counted up to Depth, since only "at least Depth" is asked.    *)
(*  - KAS is counted in whole KAS (the unit of CELL_KAS).                  *)
(*  - The reads that prepare a stage are one step: nobody else spends      *)
(*    those cells.  The reads that confirm one are a step each.            *)
(*  - A node that answers with wrong amounts or scripts is not modelled:   *)
(*    the runner stops on the first such answer.                           *)
(***************************************************************************)
EXTENDS Integers, Sequences, FiniteSets

CONSTANTS
    Runners,      \* processes; one unless instances are run side by side
    Funding,      \* plain cells that may be sent to the funding address
    FundingKas,   \* [Funding -> KAS in the cell]
    CellKas,      \* CELL_KAS
    Fee,          \* LIVE_TN10_FEE
    Depth,        \* CONFIRMATION_DEPTH_DAA, in time steps of the model
    MaxFaults,    \* bound: crashes, lost requests and dropped transactions
    MaxReorgs     \* bound: reorganisations

Stages == 1..5
Txid == Stages \X Funding

ASSUME RunnerAssumption ==
    /\ FundingKas \in [Funding -> Nat]
    /\ CellKas \in Nat \ {0} /\ Fee \in Nat \ {0}
    /\ Depth \in Nat \ {0}
    /\ MaxFaults \in Nat /\ MaxReorgs \in Nat

-------------------------------------------------------------------------------
(* The five transactions (prepare_* in harness/src/snapshot.rs and the     *)
(* match in `stage`). *)

(* What a stage spends, as <<stage, role>> of earlier outputs. *)
Spends(s) ==
    CASE s = 1 -> {}
      [] s = 2 -> {<<1, "change">>}
      [] s = 3 -> {<<1, "token">>, <<2, "change">>}
      [] s = 4 -> {<<2, "controller">>, <<3, "reserve">>, <<3, "change">>}
      [] s = 5 -> {<<4, "recipient">>, <<4, "change">>}

Roles(s) ==
    CASE s = 1 -> <<"token", "change">>
      [] s = 2 -> <<"controller", "change">>
      [] s = 3 -> <<"reserve", "change">>
      [] s = 4 -> <<"reserve", "recipient", "controller", "change">>
      [] s = 5 -> <<"claimant-half", "funding-half", "change">>

(* Mutant: the controller genesis does not record the controller id.       *)
UpdatesNoController(s) ==
    CASE s = 1 -> {"token_id"}
      [] s = 4 -> {"current_root", "reserve_amount"}
      [] OTHER -> {}

(* Fields of the ledger a settled stage fills in (PendingUpdates). *)
Updates(s) ==
    CASE s = 1 -> {"token_id"}
      [] s = 2 -> {"controller_id"}
      [] s = 4 -> {"current_root", "reserve_amount"}
      [] OTHER -> {}

(* Fields a stage cannot be prepared without. *)
Needs(s) == (IF s >= 2 THEN {"token_id"} ELSE {})
              \cup (IF s \in {3, 4} THEN {"controller_id"} ELSE {})

(* Mutant: every stage is charged a cell.                                  *)
CostFlat(s) == Fee + CellKas

(* Native value a stage takes from the funding chain: the fee, and a cell  *)
(* where it makes one more covenant cell than it spends. *)
Cost(s) == Fee + (IF s = 3 THEN 0 ELSE CellKas)

(* The change left to stage s by the stages before it. *)
Change(s, f) ==
    LET left[n \in 1..6] == IF n = 1 THEN FundingKas[f]
                            ELSE left[n-1] - Cost(n-1)
    IN  left[s]

(* validate_live_funding and checked_change: a cell's worth must remain. *)
CanPay(s, f) == Change(s, f) - Cost(s) >= CellKas

-------------------------------------------------------------------------------
VARIABLES
    \* the node
    wallet,      \* funding cells that have arrived and settled
    mempool,     \* transactions received and not accepted
    accepted,    \* [accepted transaction -> age of its acceptance]
    \* the disk
    keys,        \* the role key files: "absent", "empty" or "whole"
    disk,        \* the ledger file: a set of at most one Ledger
    artifacts,   \* signed-artifact files, by txid
    \* each process
    pc,          \* [Runners -> where it is]
    arg,         \* [Runners -> the stage it was asked for]
    mem,         \* [Runners -> its copy of the ledger, at most one]
    draft,       \* [Runners -> the transaction it prepared, at most one]
    round,       \* [Runners -> the confirmation reads of the present round]
    \* bookkeeping of the model
    broadcast,   \* history: every transaction the node ever received
    faults, reorgs

node == <<wallet, mempool, accepted>>
files == <<keys, disk, artifacts>>
proc == <<pc, arg, mem, draft, round>>
vars == <<node, files, proc, broadcast, faults, reorgs>>

Pending == [stage : Stages, tx : Txid, status : {"prepared", "submitted"}]
Ledger == [next : 1..6, pending : SUBSET Pending, receipts : Seq(Txid),
           learned : SUBSET {"token_id", "controller_id", "current_root",
                             "reserve_amount"}]

FreshRound == [read |-> 0, scores |-> {}, missing |-> FALSE]

Init ==
    /\ wallet = {} /\ mempool = {} /\ accepted = <<>>
    /\ keys = "absent" /\ disk = {} /\ artifacts = {}
    /\ pc = [r \in Runners |-> "idle"]
    /\ arg = [r \in Runners |-> 1]
    /\ mem = [r \in Runners |-> {}]
    /\ draft = [r \in Runners |-> {}]
    /\ round = [r \in Runners |-> FreshRound]
    /\ broadcast = {} /\ faults = 0 /\ reorgs = 0

Goto(r, label) == pc' = [pc EXCEPT ![r] = label]

(* write_json_atomic: the ledger file is replaced whole or not at all.     *)
SaveState(state) == disk' = {state}

(* The process ends; only the disk and the node remember. *)
Exit(r) ==
    /\ Goto(r, "idle")
    /\ arg' = [arg EXCEPT ![r] = 1]
    /\ mem' = [mem EXCEPT ![r] = {}]
    /\ draft' = [draft EXCEPT ![r] = {}]
    /\ round' = [round EXCEPT ![r] = FreshRound]

-------------------------------------------------------------------------------
(* The node, external: how the runner's calls need it to behave. *)

IsAccepted(tx) == tx \in DOMAIN accepted
SpentBy(s, role, f) == \E t \in Stages : IsAccepted(<<t, f>>) /\ <<s, role>> \in Spends(t)
Unspent(s, role, f) == IsAccepted(<<s, f>>) /\ ~SpentBy(s, role, f)
FundingUnspent(f) == f \in wallet /\ ~IsAccepted(<<1, f>>)

InputsUnspent(tx) ==
    IF tx[1] = 1 THEN FundingUnspent(tx[2])
    ELSE \A in \in Spends(tx[1]) : Unspent(in[1], in[2], tx[2])

(* A funding cell arrives and settles. *)
FundingArrives(f) ==
    /\ f \notin wallet
    /\ wallet' = wallet \cup {f}
    /\ UNCHANGED <<mempool, accepted, files, proc, broadcast, faults, reorgs>>

AcceptTx(tx) ==
    /\ tx \in mempool
    /\ InputsUnspent(tx)
    /\ mempool' = mempool \ {tx}
    /\ accepted' = [t \in DOMAIN accepted \cup {tx} |->
                      IF t = tx THEN 0 ELSE accepted[t]]
    /\ UNCHANGED <<wallet, files, proc, broadcast, faults, reorgs>>

Older(age) == IF age < Depth THEN age + 1 ELSE Depth

(* Time passes: for acceptances, and for those already read. *)
Tick ==
    /\ \E tx \in DOMAIN accepted : accepted[tx] < Depth
    /\ accepted' = [tx \in DOMAIN accepted |-> Older(accepted[tx])]
    /\ round' = [r \in Runners |->
                   [round[r] EXCEPT !.scores = {Older(a) : a \in @}]]
    /\ UNCHANGED <<wallet, mempool, files, pc, arg, mem, draft, broadcast,
                   faults, reorgs>>

(* A reorganisation takes back a young acceptance and what depends on it;  *)
(* the transactions return to the mempool or are forgotten.                *)
Reorg(tx) ==
    LET undone == {t \in DOMAIN accepted : t[2] = tx[2] /\ t[1] >= tx[1]} IN
    /\ reorgs < MaxReorgs
    /\ IsAccepted(tx) /\ accepted[tx] < Depth
    /\ accepted' = [t \in DOMAIN accepted \ undone |-> accepted[t]]
    /\ \E back \in {undone, {}} : mempool' = mempool \cup back
    /\ reorgs' = reorgs + 1
    /\ UNCHANGED <<wallet, files, proc, broadcast, faults>>

(* The node forgets an unaccepted transaction. *)
Drop(tx) ==
    /\ tx \in mempool
    /\ faults < MaxFaults
    /\ mempool' = mempool \ {tx}
    /\ faults' = faults + 1
    /\ UNCHANGED <<wallet, accepted, files, proc, broadcast, reorgs>>

-------------------------------------------------------------------------------
(* init *)

(* load_or_create_role_key, first half: the file is created. *)
InitOpenKey(r) ==
    /\ pc[r] = "idle" /\ disk = {} /\ keys = "absent"
    /\ keys' = "empty"
    /\ Goto(r, "init_write_key")
    /\ UNCHANGED <<node, disk, artifacts, arg, mem, draft, round, broadcast,
                   faults, reorgs>>

(* Second half: the key is written and synced. *)
InitWriteKey(r) ==
    /\ pc[r] = "init_write_key"
    /\ keys' = "whole"
    /\ Goto(r, "init_save")
    /\ UNCHANGED <<node, disk, artifacts, arg, mem, draft, round, broadcast,
                   faults, reorgs>>

(* A later init finds the keys (an empty key file makes it stop). *)
InitResume(r) ==
    /\ pc[r] = "idle" /\ disk = {} /\ keys = "whole"
    /\ Goto(r, "init_save")
    /\ UNCHANGED <<node, files, arg, mem, draft, round, broadcast, faults, reorgs>>

(* select_initial_funding: unspent, settled, plain, and above the floor. *)
Eligible == {f \in wallet : FundingUnspent(f)
                              /\ FundingKas[f] > CellKas + Fee + CellKas}

(* The ledger file is created, once some funding is eligible. *)
InitSave(r) ==
    /\ pc[r] = "init_save"
    /\ Eligible # {}
    /\ SaveState([next |-> 1, pending |-> {}, receipts |-> <<>>, learned |-> {}])
    /\ Exit(r)
    /\ UNCHANGED <<node, keys, artifacts, broadcast, faults, reorgs>>

InitUnfunded(r) ==
    /\ pc[r] = "init_save"
    /\ Eligible = {}
    /\ Exit(r)
    /\ UNCHANGED <<node, files, broadcast, faults, reorgs>>

-------------------------------------------------------------------------------
(* stage N *)

(* Mutant: a pending stage does not stop another attempt.                  *)
StartAnyway(r, s) ==
    /\ pc[r] = "idle"
    /\ \E state \in disk :
        /\ mem' = [mem EXCEPT ![r] = {state}]
        /\ state.next = s
        /\ Goto(r, "prepare")
    /\ arg' = [arg EXCEPT ![r] = s]
    /\ UNCHANGED <<node, files, draft, round, broadcast, faults, reorgs>>

(* Mutant: only a stage known to be submitted is settled.                  *)
StartSubmittedOnly(r, s) ==
    /\ pc[r] = "idle"
    /\ \E state \in disk :
        /\ mem' = [mem EXCEPT ![r] = {state}]
        /\ \/ /\ \E p \in state.pending : p.stage = s /\ p.status = "submitted"
              /\ Goto(r, "settle")
           \/ /\ state.pending = {} /\ state.next = s
              /\ Goto(r, "prepare")
    /\ arg' = [arg EXCEPT ![r] = s]
    /\ UNCHANGED <<node, files, draft, round, broadcast, faults, reorgs>>

(* The ledger is loaded.  An unresolved stage is settled and nothing else; *)
(* otherwise only the next stage is prepared.  Any other request ends.     *)
Start(r, s) ==
    /\ pc[r] = "idle"
    /\ \E state \in disk :
        /\ mem' = [mem EXCEPT ![r] = {state}]
        /\ \/ /\ \E p \in state.pending : p.stage = s
              /\ Goto(r, "settle")
           \/ /\ state.pending = {} /\ state.next = s
              /\ Goto(r, "prepare")
    /\ arg' = [arg EXCEPT ![r] = s]
    /\ UNCHANGED <<node, files, draft, round, broadcast, faults, reorgs>>

(* The funding a stage builds on: the largest eligible cell for the first, *)
(* then the change in the last receipt.                                    *)
FundingFor(state, s) ==
    IF s = 1
    THEN {f \in Eligible : \A g \in Eligible : FundingKas[g] <= FundingKas[f]}
    ELSE {state.receipts[s-1][2]}

Buildable(state, s) ==
    {<<s, f>> : f \in {g \in FundingFor(state, s) :
        /\ Needs(s) \subseteq state.learned
        /\ InputsUnspent(<<s, g>>)
        /\ CanPay(s, g)}}

Prepare(r) ==
    /\ pc[r] = "prepare"
    /\ \E state \in mem[r] : \E tx \in Buildable(state, arg[r]) :
        draft' = [draft EXCEPT ![r] = {tx}]
    /\ Goto(r, "artifact")
    /\ UNCHANGED <<node, files, arg, mem, round, broadcast, faults, reorgs>>

(* Without --submit, or when something is missing or spent, nothing is     *)
(* written.                                                                *)
PrepareEnds(r) ==
    /\ pc[r] = "prepare"
    /\ Exit(r)
    /\ UNCHANGED <<node, files, broadcast, faults, reorgs>>

(* write_artifact: never over one that was there when it looked. *)
ArtifactAbsent(r) ==
    /\ pc[r] = "artifact"
    /\ draft[r] \cap artifacts = {}
    /\ Goto(r, "write_artifact")
    /\ UNCHANGED <<node, files, arg, mem, draft, round, broadcast, faults, reorgs>>

WriteArtifact(r) ==
    /\ pc[r] = "write_artifact"
    /\ artifacts' = artifacts \cup draft[r]
    /\ Goto(r, "save_pending")
    /\ UNCHANGED <<node, keys, disk, arg, mem, draft, round, broadcast, faults,
                   reorgs>>

ArtifactExists(r) ==
    /\ pc[r] = "artifact"
    /\ draft[r] \subseteq artifacts
    /\ Exit(r)
    /\ UNCHANGED <<node, files, broadcast, faults, reorgs>>

(* Mutant: the stage is recorded in memory and not on disk.                *)
SavePendingLater(r) ==
    /\ pc[r] = "save_pending"
    /\ \E state \in mem[r], tx \in draft[r] :
        mem' = [mem EXCEPT ![r] = {[state EXCEPT !.pending =
                  {[stage |-> arg[r], tx |-> tx, status |-> "prepared"]}]}]
    /\ Goto(r, "submit")
    /\ UNCHANGED <<node, files, arg, draft, round, broadcast, faults, reorgs>>

SavePending(r) ==
    /\ pc[r] = "save_pending"
    /\ \E state \in mem[r], tx \in draft[r] :
        LET saved == [state EXCEPT !.pending =
                        {[stage |-> arg[r], tx |-> tx, status |-> "prepared"]}]
        IN  /\ SaveState(saved)
            /\ mem' = [mem EXCEPT ![r] = {saved}]
    /\ Goto(r, "submit")
    /\ UNCHANGED <<node, keys, artifacts, arg, draft, round, broadcast, faults,
                   reorgs>>

Receive(tx) ==
    /\ tx \notin mempool /\ InputsUnspent(tx)
    /\ mempool' = mempool \cup {tx}
    /\ broadcast' = broadcast \cup {tx}
    /\ UNCHANGED <<wallet, accepted>>

(* The node takes the transaction and says so. *)
SubmitAnswered(r) ==
    /\ pc[r] = "submit"
    /\ \E tx \in draft[r] : Receive(tx)
    /\ Goto(r, "save_submitted")
    /\ UNCHANGED <<files, arg, mem, draft, round, faults, reorgs>>

(* It takes it and the answer is lost: the runner stops. *)
SubmitUnanswered(r) ==
    /\ pc[r] = "submit"
    /\ faults < MaxFaults
    /\ \E tx \in draft[r] : Receive(tx)
    /\ Exit(r)
    /\ faults' = faults + 1
    /\ UNCHANGED <<files, reorgs>>

(* Mutant: a refused submission is struck off the ledger.                  *)
SubmitRefusedForgets(r) ==
    /\ pc[r] = "submit"
    /\ \E tx \in draft[r] : tx \in mempool \/ ~InputsUnspent(tx)
    /\ \E state \in mem[r] : SaveState([state EXCEPT !.pending = {}])
    /\ Exit(r)
    /\ UNCHANGED <<node, keys, artifacts, broadcast, faults, reorgs>>

(* The node refuses: an input is gone, or it has the transaction already. *)
SubmitRefused(r) ==
    /\ pc[r] = "submit"
    /\ \E tx \in draft[r] : tx \in mempool \/ ~InputsUnspent(tx)
    /\ Exit(r)
    /\ UNCHANGED <<node, files, broadcast, faults, reorgs>>

(* Mutant: a status the loader does not know.                              *)
SaveSubmittedMisnamed(r) ==
    /\ pc[r] = "save_submitted"
    /\ \E state \in mem[r] : \E p \in state.pending :
        LET saved == [state EXCEPT !.pending = {[p EXCEPT !.status = "sent"]}]
        IN  /\ SaveState(saved)
            /\ mem' = [mem EXCEPT ![r] = {saved}]
    /\ Goto(r, "settle")
    /\ UNCHANGED <<node, keys, artifacts, arg, draft, round, broadcast, faults,
                   reorgs>>

SaveSubmitted(r) ==
    /\ pc[r] = "save_submitted"
    /\ \E state \in mem[r] : \E p \in state.pending :
        LET saved == [state EXCEPT !.pending = {[p EXCEPT !.status = "submitted"]}]
        IN  /\ SaveState(saved)
            /\ mem' = [mem EXCEPT ![r] = {saved}]
    /\ Goto(r, "settle")
    /\ UNCHANGED <<node, keys, artifacts, arg, draft, round, broadcast, faults,
                   reorgs>>

-------------------------------------------------------------------------------
(* settle_pending: rounds of reads, one call for each expected output. *)

ReadOutput(r) ==
    /\ pc[r] = "settle"
    /\ \E state \in mem[r] : \E p \in state.pending :
        LET n == round[r].read + 1
            role == Roles(p.stage)[n]
            seen == round[r].scores \cup {accepted[p.tx]}
        IN  /\ n <= Len(Roles(p.stage))
            /\ round' = [round EXCEPT ![r] =
                 IF Unspent(p.stage, role, p.tx[2])
                 THEN [@ EXCEPT !.read = n, !.scores = seen]
                 ELSE [@ EXCEPT !.read = n, !.missing = TRUE]]
    /\ UNCHANGED <<node, files, pc, arg, mem, draft, broadcast, faults, reorgs>>

RoundComplete(r, p) == round[r].read = Len(Roles(p.stage))

(* Mutant: one score is enough, however young.                             *)
ConfirmedAtOnce(r, p) ==
    /\ RoundComplete(r, p)
    /\ ~round[r].missing
    /\ Cardinality(round[r].scores) = 1

(* Every output is there, with one accepting score that is deep enough by  *)
(* the virtual score asked for afterwards.                                 *)
Confirmed(r, p) ==
    /\ RoundComplete(r, p)
    /\ ~round[r].missing
    /\ round[r].scores = {Depth}

(* Mutant: the file is replaced before the stage's fields are filled in.   *)
SettleEarly(r) ==
    /\ pc[r] = "settle"
    /\ \E state \in mem[r] : \E p \in state.pending :
        /\ Confirmed(r, p)
        /\ SaveState([next |-> p.stage + 1, pending |-> {},
                      receipts |-> Append(state.receipts, p.tx),
                      learned |-> state.learned])
    /\ Exit(r)
    /\ UNCHANGED <<node, keys, artifacts, broadcast, faults, reorgs>>

(* Mutant: the receipt is appended to the ledger as it now is on disk.     *)
SettleOntoDisk(r) ==
    /\ pc[r] = "settle"
    /\ \E state \in mem[r], now \in disk : \E p \in state.pending :
        /\ Confirmed(r, p)
        /\ SaveState([next |-> p.stage + 1, pending |-> {},
                      receipts |-> Append(now.receipts, p.tx),
                      learned |-> state.learned \cup Updates(p.stage)])
    /\ Exit(r)
    /\ UNCHANGED <<node, keys, artifacts, broadcast, faults, reorgs>>

(* The receipt is appended, the stage's fields are filled in, the stage is *)
(* no longer pending, and the file is replaced.                            *)
Settle(r) ==
    /\ pc[r] = "settle"
    /\ \E state \in mem[r] : \E p \in state.pending :
        /\ Confirmed(r, p)
        /\ SaveState([next |-> p.stage + 1, pending |-> {},
                      receipts |-> Append(state.receipts, p.tx),
                      learned |-> state.learned \cup Updates(p.stage)])
    /\ Exit(r)
    /\ UNCHANGED <<node, keys, artifacts, broadcast, faults, reorgs>>

(* Not yet: sleep a second and read again. *)
ReadAgain(r) ==
    /\ pc[r] = "settle"
    /\ \E state \in mem[r] : \E p \in state.pending :
        /\ RoundComplete(r, p)
        /\ ~Confirmed(r, p)
        /\ round[r].missing \/ Cardinality(round[r].scores) = 1
    /\ round' = [round EXCEPT ![r] = FreshRound]
    /\ UNCHANGED <<node, files, pc, arg, mem, draft, broadcast, faults, reorgs>>

(* The time limit, or outputs with different accepting scores: the runner  *)
(* stops and the stage stays pending.                                      *)
GiveUp(r) ==
    /\ pc[r] = "settle"
    /\ \E state \in mem[r] : \E p \in state.pending :
        RoundComplete(r, p) /\ ~Confirmed(r, p)
    /\ Exit(r)
    /\ UNCHANGED <<node, files, broadcast, faults, reorgs>>

(* A crash, a failed write or a failed call: the process ends where it is. *)
Crash(r) ==
    /\ pc[r] # "idle"
    /\ faults < MaxFaults
    /\ Exit(r)
    /\ faults' = faults + 1
    /\ UNCHANGED <<node, files, broadcast, reorgs>>

-------------------------------------------------------------------------------
Step(r) ==
    \/ InitOpenKey(r) \/ InitWriteKey(r) \/ InitResume(r)
    \/ InitSave(r) \/ InitUnfunded(r)
    \/ Prepare(r) \/ PrepareEnds(r)
    \/ ArtifactAbsent(r) \/ WriteArtifact(r) \/ ArtifactExists(r)
    \/ SavePending(r)
    \/ SubmitAnswered(r) \/ SubmitRefused(r) \/ SaveSubmitted(r)
    \/ ReadOutput(r) \/ Settle(r) \/ ReadAgain(r) \/ GiveUp(r)

Next ==
    \/ \E f \in Funding : FundingArrives(f)
    \/ \E tx \in mempool : AcceptTx(tx) \/ Drop(tx)
    \/ \E tx \in DOMAIN accepted : Reorg(tx)
    \/ Tick
    \/ \E r \in Runners : \/ Step(r)
                          \/ \E s \in Stages : Start(r, s)
                          \/ SubmitUnanswered(r)
                          \/ Crash(r)

Spec == Init /\ [][Next]_vars

(* Funding arrives, the node accepts what it holds and time passes.  The   *)
(* operator keeps running the stage the ledger asks for, not always as a   *)
(* dry run, and a process that is running goes on.                         *)
Fairness ==
    /\ \A f \in Funding : WF_vars(FundingArrives(f))
    /\ \A tx \in Txid : WF_vars(AcceptTx(tx))
    /\ WF_vars(Tick)
    /\ \A r \in Runners :
        /\ WF_vars(Step(r))
        /\ WF_vars(\E s \in Stages : Start(r, s))
        /\ SF_vars(Prepare(r))

FairSpec == Spec /\ Fairness

-------------------------------------------------------------------------------
(* Properties. *)

Labels == {"idle", "init_write_key", "init_save", "prepare", "artifact",
           "write_artifact", "save_pending", "submit", "save_submitted", "settle"}

TypeOK ==
    /\ wallet \subseteq Funding
    /\ mempool \subseteq Txid
    /\ DOMAIN accepted \subseteq Txid
    /\ \A tx \in DOMAIN accepted : accepted[tx] \in 0..Depth
    /\ keys \in {"absent", "empty", "whole"}
    /\ disk \subseteq Ledger /\ Cardinality(disk) <= 1
    /\ artifacts \subseteq Txid
    /\ pc \in [Runners -> Labels]
    /\ arg \in [Runners -> Stages]
    /\ \A r \in Runners : /\ mem[r] \subseteq Ledger /\ Cardinality(mem[r]) <= 1
                          /\ draft[r] \subseteq Txid /\ Cardinality(draft[r]) <= 1
                          /\ round[r].read \in 0..4
                          /\ round[r].scores \subseteq 0..Depth
    /\ broadcast \subseteq Txid
    /\ faults \in 0..MaxFaults /\ reorgs \in 0..MaxReorgs

(* However often a stage is retried, and whatever was lost, timed out or   *)
(* crashed, at most one transaction is ever broadcast for it: there is no  *)
(* second genesis and no conflicting spend.                                *)
OneTransactionPerStage ==
    \A tx, other \in broadcast : tx[1] = other[1] => tx = other

(* Nothing reaches the node before its signed artifact and the expected    *)
(* txid are on disk, and it stays accounted for, pending or with a receipt.*)
BroadcastIsOnRecord ==
    \A tx \in broadcast :
        /\ tx \in artifacts
        /\ \E state \in disk :
            \/ \E p \in state.pending : p.tx = tx
            \/ tx[1] <= Len(state.receipts) /\ state.receipts[tx[1]] = tx

(* The ledger file, at every instant another run may load it, describes    *)
(* one chain of transactions, in order, with exactly the fields its        *)
(* settled stages provide and at most the next stage unresolved.           *)
LedgerConsistent ==
    \A state \in disk :
        /\ state.next = Len(state.receipts) + 1
        /\ \A s \in 1..Len(state.receipts) :
              /\ state.receipts[s][1] = s
              /\ state.receipts[s][2] = state.receipts[1][2]
        /\ state.learned = UNION {Updates(s) : s \in 1..Len(state.receipts)}
        /\ \A p \in state.pending :
              /\ p.stage = state.next /\ p.tx[1] = state.next
              /\ state.next > 1 => p.tx[2] = state.receipts[1][2]
              /\ p.status = "submitted" => p.tx \in broadcast

(* Runners side by side lose each other's updates.  Even so nothing is sent *)
(* whose signed artifact is not on disk, the ledger file never mixes two   *)
(* runs, and a receipt is written only for what was sent.                  *)
NothingUntraced ==
    /\ broadcast \subseteq artifacts
    /\ LedgerConsistent
    /\ \A state \in disk : \A s \in 1..Len(state.receipts) :
          state.receipts[s] \in broadcast

(* As long as the chain is not reorganised, a receipt is written only for  *)
(* a transaction whose acceptance has the full depth.                      *)
SettledIsDeep ==
    reorgs = 0 =>
        \A state \in disk : \A s \in 1..Len(state.receipts) :
            /\ IsAccepted(state.receipts[s])
            /\ accepted[state.receipts[s]] = Depth

(* A run that started from enough (a cell for every one of the covenant    *)
(* cells kept, five fees and the floor) never stops for lack of KAS after  *)
(* its genesis was made.                                                   *)
EnoughKas == 5 * Fee + 5 * CellKas
FundingSuffices ==
    \A state \in disk :
        (state.receipts # <<>> /\ state.next <= 5
           /\ FundingKas[state.receipts[1][2]] >= EnoughKas)
        => CanPay(state.next, state.receipts[1][2])

(* A step never rewrites history: receipts only grow, by the transaction   *)
(* that was pending, and a pending transaction is never exchanged.         *)
LedgerOnlyAdvances ==
    [][\A old \in disk : \E new \in disk' :
        \/ new.receipts = old.receipts /\ \A p \in old.pending :
              \E q \in new.pending : q.tx = p.tx
        \/ \E p \in old.pending : new.receipts = Append(old.receipts, p.tx)]_vars

(* A submission the node received is settled, however the run that sent it *)
(* ended, unless the node loses the transaction.                           *)
Known(tx) == tx \in mempool \/ IsAccepted(tx)
PendingTx(tx) == \E state \in disk : \E p \in state.pending : p.tx = tx
HasReceipt(tx) == \E state \in disk : \E s \in 1..Len(state.receipts) :
                     state.receipts[s] = tx
ReceivedSettles ==
    \A tx \in Txid : (PendingTx(tx) /\ Known(tx)) ~> (HasReceipt(tx) \/ ~Known(tx))

(* Every way a run can end short of five receipts: a submission the node   *)
(* does not have (it is never sent again), an artifact left by a run that  *)
(* ended before it recorded the stage, a key file left empty, not enough   *)
(* KAS, or a settled transaction taken back by the node.                   *)
Complete == \E state \in disk : Len(state.receipts) = 5
Unsent == \E state \in disk : \E p \in state.pending : ~Known(p.tx)
ArtifactInTheWay ==
    \E state \in disk :
        /\ state.pending = {} /\ state.next <= 5
        /\ \E f \in FundingFor(state, state.next) : <<state.next, f>> \in artifacts
KeyFileEmpty == keys = "empty"
Underfunded ==
    \/ disk = {} /\ Eligible = {}
    \/ \E state \in disk :
        /\ state.pending = {} /\ state.next <= 5
        /\ \A f \in FundingFor(state, state.next) : ~CanPay(state.next, f)
TakenBack == \E state \in disk : \E s \in 1..Len(state.receipts) :
                ~Known(state.receipts[s])

EndsCompleteOrExplained ==
    <>[](Complete \/ Unsent \/ ArtifactInTheWay \/ KeyFileEmpty \/ Underfunded
           \/ TakenBack)
===============================================================================
