------------------------------- MODULE BuildPins -------------------------------
(***************************************************************************)
(* How the testnet runner (deploy/src/bin/snapshot_tn10.rs) ties five      *)
(* transactions, made by separate runs days apart, to one build.  `init`   *)
(* compiles the token contract and records hashes of the checkout; each    *)
(* stage compares the hashes, waits for a node, and only then reads the    *)
(* contracts again to compile them, while somebody may edit the checkout.  *)
(*                                                                         *)
(* Abstractions.                                                           *)
(*  - A file has two versions that compile differently; "other" stands for *)
(*    what is hashed and not compiled here: HEAD and the diff, the binary, *)
(*    the harness, the lockfile.                                           *)
(*  - Hashing the checkout, and one call of the compiler, are one step.    *)
(*  - Ledger, submission and confirmation are Tn10Runner's: here a stage   *)
(*    is sent as it is recorded, and confirmed at some time.               *)
(***************************************************************************)
EXTENDS Integers, FiniteSets

CONSTANTS MaxEdits   \* bound: edits of the checkout, restoring ones included

Files == {"token", "controller", "compiler", "other"}
Stages == 1..5

ASSUME PinsAssumption == MaxEdits \in Nat

VARIABLES
    tree,      \* [Files -> version on disk]
    ledger,    \* the saved state, a set of at most one
    pc,        \* the process: where it is
    plan,      \* what it has compiled so far
    sent,      \* the programs in every transaction broadcast
    edits

vars == <<tree, ledger, pc, plan, sent, edits>>

(* `compile`: a program is its source, the compiler and the arguments.     *)
TokenProgram == [source |-> tree["token"], compiler |-> tree["compiler"]]
ControllerProgram(token) ==
    [source |-> tree["controller"], compiler |-> tree["compiler"], token |-> token]

Init ==
    /\ tree = [f \in Files |-> 0]
    /\ ledger = {} /\ pc = "idle" /\ plan = {} /\ sent = {} /\ edits = 0

Edit(f) ==
    /\ edits < MaxEdits
    /\ tree' = [tree EXCEPT ![f] = 1 - @]
    /\ edits' = edits + 1
    /\ UNCHANGED <<ledger, pc, plan, sent>>

Goto(label) == pc' = label
End == Goto("idle") /\ plan' = {}

-------------------------------------------------------------------------------
(* init: SnapshotNetworkPlan::new compiles, then the pins are captured.    *)

InitCompile ==
    /\ pc = "idle" /\ ledger = {}
    /\ plan' = {[token |-> TokenProgram, controller |-> {}]}
    /\ Goto("init")
    /\ UNCHANGED <<tree, ledger, sent, edits>>

InitSave ==
    /\ pc = "init"
    /\ \E p \in plan :
        ledger' = {[next |-> 1, pending |-> {}, pins |-> tree, token |-> p.token,
                    controller |-> {}]}
    /\ End
    /\ UNCHANGED <<tree, sent, edits>>

-------------------------------------------------------------------------------
(* stage *)

(* load_state and verify_pins, before anything else. *)
Verify ==
    /\ pc = "idle"
    /\ \E state \in ledger : state.next <= 5 /\ state.pins = tree
    /\ Goto("connect")
    /\ UNCHANGED <<tree, ledger, plan, sent, edits>>

(* The node answered, and a stage is unresolved: settle it and end. *)
Settle ==
    /\ pc = "connect"
    /\ \E state \in ledger : \E tx \in state.pending :
        ledger' = {[state EXCEPT !.next = @ + 1, !.pending = {},
                      !.controller = IF tx.stage = 2 THEN tx.controller ELSE @]}
    /\ End
    /\ UNCHANGED <<tree, sent, edits>>

(* Mutant: the token program is not compared with the recorded one.        *)
BuildPlanUnchecked ==
    /\ pc = "connect"
    /\ \E state \in ledger :
        /\ state.pending = {}
        /\ plan' = {[token |-> TokenProgram, controller |-> {}]}
    /\ Goto("plan")
    /\ UNCHANGED <<tree, ledger, sent, edits>>

(* build_plan: the token contract is compiled again and must give the      *)
(* recorded program. *)
BuildPlan ==
    /\ pc = "connect"
    /\ \E state \in ledger :
        /\ state.pending = {} /\ TokenProgram = state.token
        /\ plan' = {[token |-> TokenProgram, controller |-> {}]}
    /\ Goto("plan")
    /\ UNCHANGED <<tree, ledger, sent, edits>>

(* Mutant: a controller program is expected before there is one.           *)
CheckControllerAlways ==
    /\ pc = "plan"
    /\ \E state \in ledger, p \in plan :
        state.controller = {ControllerProgram(p.token)}
    /\ Goto("prepare")
    /\ UNCHANGED <<tree, ledger, plan, sent, edits>>

(* So must the controller, once its genesis has been settled. *)
CheckController ==
    /\ pc = "plan"
    /\ \E state \in ledger, p \in plan :
        state.controller \subseteq {ControllerProgram(p.token)}
    /\ Goto("prepare")
    /\ UNCHANGED <<tree, ledger, plan, sent, edits>>

(* prepare_*: stages 2 and 4 compile the controller once more; stage 4     *)
(* compares it with the script of the controller cell (validate_live_cell).*)
Prepare ==
    /\ pc = "prepare"
    /\ \E state \in ledger, p \in plan :
        /\ state.next = 4 => \E tx \in sent : /\ tx.stage = 2
                                              /\ tx.controller = {ControllerProgram(p.token)}
        /\ plan' = {[p EXCEPT !.controller = IF state.next \in {2, 4}
                                             THEN {ControllerProgram(p.token)} ELSE {}]}
    /\ Goto("send")
    /\ UNCHANGED <<tree, ledger, sent, edits>>

(* submit_prepared: recorded as pending, then broadcast. *)
Send ==
    /\ pc = "send"
    /\ \E state \in ledger, p \in plan :
        LET tx == [stage |-> state.next, token |-> p.token, controller |-> p.controller]
        IN  /\ ledger' = {[state EXCEPT !.pending = {tx}]}
            /\ sent' = sent \cup {tx}
    /\ End
    /\ UNCHANGED <<tree, edits>>

(* A dry run, a failed comparison, call or compilation: nothing is kept.   *)
Stop ==
    /\ pc # "idle"
    /\ End
    /\ UNCHANGED <<tree, ledger, sent, edits>>

Run == \/ InitCompile \/ InitSave \/ Verify \/ Settle
       \/ BuildPlan \/ CheckController \/ Prepare \/ Send
Next == Run \/ Stop \/ \E f \in Files : Edit(f)

Spec == Init /\ [][Next]_vars

(* The operator keeps running the next stage, and a run that is not stopped*)
(* over and over reaches its end. *)
Fairness ==
    /\ WF_vars(InitCompile) /\ WF_vars(Verify) /\ WF_vars(Stop)
    /\ SF_vars(InitSave) /\ SF_vars(Settle) /\ SF_vars(BuildPlan)
    /\ SF_vars(CheckController) /\ SF_vars(Prepare) /\ SF_vars(Send)

FairSpec == Spec /\ Fairness

-------------------------------------------------------------------------------
(* Properties. *)

TypeOK ==
    /\ tree \in [Files -> {0, 1}]
    /\ pc \in {"idle", "init", "connect", "plan", "prepare", "send"}
    /\ Cardinality(ledger) <= 1 /\ Cardinality(plan) <= 1
    /\ \A state \in ledger : /\ state.next \in 1..6
                             /\ state.pins \in [Files -> {0, 1}]
                             /\ Cardinality(state.pending) <= 1
                             /\ Cardinality(state.controller) <= 1
    /\ edits \in 0..MaxEdits

(* Whatever was edited and when, transactions that hold token cells all    *)
(* hold them under one program, and those that hold the controller under   *)
(* one: no stage sends assets to a script the next one cannot spend.       *)
OneProgramEach ==
    \A tx, other \in sent :
        /\ tx.token = other.token
        /\ (tx.controller # {} /\ other.controller # {})
             => tx.controller = other.controller

(* There is one ledger, at most one plan and one unresolved stage, and     *)
(* every transaction sent carries the same programs.                       *)
OneBuildInv == TypeOK /\ OneProgramEach

(* Restoring the checkout is enough: five stages are completed, unless an  *)
(* edit slipped in between the pins and a program recorded beside them.    *)
Mismatched ==
    \E state \in ledger :
        LET pinned == [token |-> [source |-> state.pins["token"],
                                  compiler |-> state.pins["compiler"]],
                       controller |-> [source |-> state.pins["controller"],
                                       compiler |-> state.pins["compiler"],
                                       token |-> state.token]]
        IN  \/ state.token # pinned.token
            \/ ~(state.controller \subseteq {pinned.controller})
            \/ \E tx \in state.pending : ~(tx.controller \subseteq {pinned.controller})
Complete == \E state \in ledger : state.next = 6
Restored == \E state \in ledger : tree = state.pins
RestoredCompletes == <>[]Restored => <>[](Complete \/ Mismatched)
===============================================================================
