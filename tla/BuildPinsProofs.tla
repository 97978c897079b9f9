---------------------------- MODULE BuildPinsProofs ----------------------------
(***************************************************************************)
(* Theorems about BuildPins, for any number of edits of the checkout.      *)
(*                                                                         *)
(* That all transactions carry one controller program does not follow from *)
(* the state a stage starts in: stage 4 is compared with what stage 2 put  *)
(* on chain, so the invariant says which stages have been sent, that none  *)
(* was sent twice, and what a plan was compared with before it is sent.    *)
(***************************************************************************)
EXTENDS BuildPins, FiniteSetTheorems, TLAPS

AtMostOne(S) == \A x, y \in S : x = y

Program == [source : {0, 1}, compiler : {0, 1}]
CtlProgram == [source : {0, 1}, compiler : {0, 1}, token : Program]
Tx == [stage : Stages, token : Program, controller : SUBSET CtlProgram]
State == [next : 1..6, pending : SUBSET Tx, pins : [Files -> {0, 1}],
          token : Program, controller : SUBSET CtlProgram]
Plan == [token : Program, controller : SUBSET CtlProgram]

Typed ==
    /\ tree \in [Files -> {0, 1}]
    /\ pc \in {"idle", "init", "connect", "plan", "prepare", "send"}
    /\ edits \in 0..MaxEdits
    /\ ledger \subseteq State /\ plan \subseteq Plan /\ sent \subseteq Tx

Single ==
    /\ AtMostOne(ledger) /\ AtMostOne(plan)
    /\ \A s \in ledger : AtMostOne(s.pending) /\ AtMostOne(s.controller)
    /\ \A p \in plan : AtMostOne(p.controller)
    /\ \A tx \in sent : AtMostOne(tx.controller)

(* What has been sent, as the ledger tells it. *)
Recorded ==
    /\ ledger = {} => sent = {}
    /\ \A s \in ledger :
        /\ s.pending \subseteq sent
        /\ s.pending # {} => s.next <= 5
        /\ \A tx \in sent : /\ tx.token = s.token
                            /\ tx.stage <= s.next
                            /\ tx.stage = s.next => tx \in s.pending
    /\ \A tx, other \in sent : tx.stage = other.stage => tx = other
    /\ \A tx \in sent : tx.controller # {} => tx.stage \in {2, 4}

MatchesStage2(c) == \E tx \in sent : tx.stage = 2 /\ tx.controller = c

(* What the program counter stands for. *)
Compared ==
    /\ pc = "init" => ledger = {}
    /\ pc \in {"connect", "plan", "prepare", "send"} => \A s \in ledger : s.next <= 5
    /\ pc \in {"plan", "prepare", "send"} =>
        \A s \in ledger : s.pending = {} /\ \A p \in plan : p.token = s.token
    /\ pc = "send" => \A s \in ledger, p \in plan :
        /\ p.controller # {} => s.next \in {2, 4}
        /\ s.next = 4 => MatchesStage2(p.controller)
    /\ \A tx \in sent : tx.stage = 4 => MatchesStage2(tx.controller)

IInv == Typed /\ Single /\ Recorded /\ Compared

-------------------------------------------------------------------------------
LEMMA CountOne == ASSUME NEW S, AtMostOne(S) PROVE Cardinality(S) <= 1
<1>1. CASE S = {}
  BY <1>1, FS_EmptySet
<1>2. CASE S # {}
  <2>1. PICK x \in S : TRUE
    BY <1>2
  <2>2. S = {x}
    BY <2>1 DEF AtMostOne
  <2>3. Cardinality({x}) = 1
    BY FS_Singleton
  <2> QED BY <2>2, <2>3
<1> QED BY <1>1, <1>2

(* What the compiler returns is a program. *)
LEMMA CompiledType ==
    ASSUME tree \in [Files -> {0, 1}]
    PROVE  /\ TokenProgram \in Program
           /\ \A token \in Program : ControllerProgram(token) \in CtlProgram
BY DEF TokenProgram, ControllerProgram, Program, CtlProgram, Files

LEMMA InitIInv == Init => IInv
BY PinsAssumption DEF Init, IInv, Typed, Single, Recorded, Compared, AtMostOne, Files

LEMMA EditIInv == ASSUME IInv, NEW f \in Files, Edit(f) PROVE IInv'
<1> USE PinsAssumption
<1>1. tree' \in [Files -> {0, 1}] /\ edits' \in 0..MaxEdits
  BY DEF IInv, Typed, Edit
<1> QED BY <1>1 DEF IInv, Typed, Single, Recorded, Compared, AtMostOne, Edit, MatchesStage2

LEMMA InitRunIInv == ASSUME IInv, InitCompile \/ InitSave PROVE IInv'
<1>1. CASE InitCompile
  <2>1. plan' \subseteq Plan /\ AtMostOne(plan') /\ \A p \in plan' : p.controller = {}
    BY <1>1, CompiledType DEF InitCompile, Plan, AtMostOne, IInv, Typed
  <2> QED BY <1>1, <2>1 DEF IInv, Typed, Single, Recorded, Compared, AtMostOne,
             InitCompile, Goto, MatchesStage2
<1>2. CASE InitSave
  <2>1. ledger = {} /\ sent = {} /\ pc' = "idle" /\ plan' = {}
    BY <1>2 DEF InitSave, IInv, Recorded, Compared, End, Goto
  <2>2. PICK p \in plan :
          ledger' = {[next |-> 1, pending |-> {}, pins |-> tree, token |-> p.token,
                      controller |-> {}]}
    BY <1>2 DEF InitSave
  <2>3. p.token \in Program
    BY DEF IInv, Typed, Plan
  <2>4. ledger' \subseteq State
    BY <2>2, <2>3 DEF IInv, Typed, State
  <2>5. /\ AtMostOne(ledger')
        /\ \A s \in ledger' : s.pending = {} /\ s.controller = {}
    BY <2>2 DEF AtMostOne
  <2> QED BY <1>2, <2>1, <2>4, <2>5 DEF IInv, Typed, Single, Recorded, Compared,
             AtMostOne, InitSave, MatchesStage2
<1> QED BY <1>1, <1>2

(* The steps of a stage that only read. *)
LEMMA ReadIInv ==
    ASSUME IInv, Verify \/ BuildPlan \/ CheckController \/ Stop PROVE IInv'
<1>1. CASE Verify
  BY <1>1 DEF IInv, Typed, Single, Recorded, Compared, AtMostOne, Verify, Goto, MatchesStage2
<1>2. CASE BuildPlan
  <2>1. PICK s \in ledger : /\ s.pending = {} /\ TokenProgram = s.token
                            /\ plan' = {[token |-> TokenProgram, controller |-> {}]}
    BY <1>2 DEF BuildPlan
  <2>2. /\ plan' \subseteq Plan /\ AtMostOne(plan')
        /\ \A p \in plan' : p.controller = {} /\ p.token = s.token
    BY <2>1, CompiledType DEF Plan, AtMostOne, IInv, Typed
  <2>3. \A t \in ledger : t = s
    BY DEF IInv, Single, AtMostOne
  <2> QED BY <1>2, <2>1, <2>2, <2>3 DEF IInv, Typed, Single, Recorded, Compared,
             AtMostOne, BuildPlan, Goto, MatchesStage2
<1>3. CASE CheckController
  BY <1>3 DEF IInv, Typed, Single, Recorded, Compared, AtMostOne, CheckController, Goto, MatchesStage2
<1>4. CASE Stop
  BY <1>4 DEF IInv, Typed, Single, Recorded, Compared, AtMostOne, Stop, End, Goto, MatchesStage2
<1> QED BY <1>1, <1>2, <1>3, <1>4

LEMMA SettledState ==
    ASSUME NEW s \in State, NEW n \in 1..6, NEW c \in SUBSET CtlProgram
    PROVE  [s EXCEPT !.next = n, !.pending = {}, !.controller = c] \in State
BY DEF State

(* A stage is settled: what was pending is behind the ledger. *)
LEMMA SettleIInv == ASSUME IInv, Settle PROVE IInv'
<1>1. PICK s \in ledger : \E tx \in s.pending :
        ledger' = {[s EXCEPT !.next = @ + 1, !.pending = {},
                      !.controller = IF tx.stage = 2 THEN tx.controller ELSE @]}
  BY DEF Settle
<1>2. PICK tx \in s.pending :
        ledger' = {[s EXCEPT !.next = @ + 1, !.pending = {},
                      !.controller = IF tx.stage = 2 THEN tx.controller ELSE @]}
  BY <1>1
<1> DEFINE t == [s EXCEPT !.next = @ + 1, !.pending = {},
                   !.controller = IF tx.stage = 2 THEN tx.controller ELSE @]
<1>3. s \in State /\ tx \in Tx /\ tx \in sent /\ s.next \in 1..5
  BY DEF IInv, Typed, Recorded, State
<1>4. /\ t \in State /\ t.next = s.next + 1 /\ t.pending = {} /\ t.token = s.token
      /\ t.controller = tx.controller \/ t.controller = s.controller
  <2>1. tx.controller \in SUBSET CtlProgram
    BY <1>3 DEF Tx
  <2>2. /\ DOMAIN s = {"next", "pending", "pins", "token", "controller"}
        /\ s.controller \in SUBSET CtlProgram
    BY <1>3 DEF State
  <2>3. /\ t.next = s.next + 1 /\ t.pending = {} /\ t.token = s.token
        /\ t.pins = s.pins
        /\ t.controller = IF tx.stage = 2 THEN tx.controller ELSE s.controller
    BY <2>2
  <2>4. t \in State
    <3> DEFINE c == IF tx.stage = 2 THEN tx.controller ELSE s.controller
    <3>1. c \in SUBSET CtlProgram /\ s.next + 1 \in 1..6
      BY <1>3, <2>1, <2>2
    <3> QED BY <1>3, <3>1, SettledState
  <2> QED BY <2>3, <2>4
<1>5. AtMostOne(t.controller)
  BY <1>3, <1>4 DEF IInv, Single
<1>6. ledger' = {t} /\ pc' = "idle" /\ plan' = {} /\ UNCHANGED <<tree, sent, edits>>
  BY <1>2 DEF Settle, End, Goto
<1>7. Typed'
  BY <1>4, <1>6 DEF IInv, Typed
<1>8. Single'
  BY <1>4, <1>5, <1>6 DEF IInv, Single, AtMostOne
<1>9. Recorded'
  <2>1. \A x \in sent : x.token = t.token /\ x.stage < t.next
    BY <1>3, <1>4 DEF IInv, Recorded, Typed, Tx, Stages
  <2>2. \A x \in sent : x.stage <= t.next /\ x.stage # t.next
    BY <2>1, <1>3, <1>4 DEF IInv, Typed, Tx, Stages
  <2> QED BY <1>4, <1>6, <2>1, <2>2 DEF IInv, Recorded
<1>10. Compared'
  BY <1>6 DEF IInv, Compared, MatchesStage2
<1> QED BY <1>7, <1>8, <1>9, <1>10 DEF IInv

(* The controller of stages 2 and 4 is compiled; that of stage 4 is the    *)
(* one stage 2 sent. *)
LEMMA PrepareIInv == ASSUME IInv, Prepare PROVE IInv'
<1>1. PICK s \in ledger, p \in plan :
        /\ s.next = 4 => \E tx \in sent : /\ tx.stage = 2
                                          /\ tx.controller = {ControllerProgram(p.token)}
        /\ plan' = {[p EXCEPT !.controller = IF s.next \in {2, 4}
                                             THEN {ControllerProgram(p.token)} ELSE {}]}
  BY DEF Prepare
<1> DEFINE q == [p EXCEPT !.controller = IF s.next \in {2, 4}
                                         THEN {ControllerProgram(p.token)} ELSE {}]
<1>2. p \in Plan /\ ControllerProgram(p.token) \in CtlProgram
  BY CompiledType DEF IInv, Typed, Plan
<1>3. /\ q \in Plan /\ q.token = p.token
      /\ q.controller = IF s.next \in {2, 4} THEN {ControllerProgram(p.token)} ELSE {}
  BY <1>2 DEF Plan
<1>4. /\ plan' = {q} /\ pc = "prepare" /\ pc' = "send"
      /\ UNCHANGED <<tree, ledger, sent, edits>>
  BY <1>1 DEF Prepare, Goto
<1>5. Typed'
  BY <1>3, <1>4 DEF IInv, Typed
<1>6. Single'
  BY <1>3, <1>4 DEF IInv, Single, AtMostOne
<1>7. Recorded'
  BY <1>4 DEF IInv, Recorded
<1>8. Compared'
  <2>1. \A t \in ledger : t = s
    BY DEF IInv, Single, AtMostOne
  <2>2. s.pending = {} /\ q.token = s.token /\ s.next <= 5
    BY <1>3, <1>4 DEF IInv, Compared
  <2>3. q.controller # {} => s.next \in {2, 4}
    BY <1>3
  <2>4. s.next = 4 => MatchesStage2(q.controller)
    BY <1>1, <1>3 DEF MatchesStage2
  <2> QED BY <1>4, <2>1, <2>2, <2>3, <2>4 DEF IInv, Compared, MatchesStage2
<1> QED BY <1>5, <1>6, <1>7, <1>8 DEF IInv

(* A stage is sent: the first transaction of its number. *)
LEMMA SendIInv == ASSUME IInv, Send PROVE IInv'
<1>1. PICK s \in ledger, p \in plan :
        LET tx == [stage |-> s.next, token |-> p.token, controller |-> p.controller]
        IN  /\ ledger' = {[s EXCEPT !.pending = {tx}]}
            /\ sent' = sent \cup {tx}
  BY DEF Send
<1> DEFINE tx == [stage |-> s.next, token |-> p.token, controller |-> p.controller]
           t == [s EXCEPT !.pending = {tx}]
<1>2. ledger' = {t} /\ sent' = sent \cup {tx} /\ pc = "send" /\ pc' = "idle" /\ plan' = {}
      /\ UNCHANGED <<tree, edits>>
  BY <1>1 DEF Send, End, Goto
<1>3. /\ s \in State /\ p \in Plan /\ s.next \in 1..5 /\ s.pending = {}
      /\ p.token = s.token
  BY <1>2 DEF IInv, Typed, Compared, State
<1>4. /\ tx \in Tx /\ tx.stage = s.next /\ tx.token = s.token
      /\ tx.controller = p.controller
  BY <1>3 DEF Tx, Plan, Stages
<1>5. /\ t \in State /\ t.next = s.next /\ t.pending = {tx} /\ t.token = s.token
      /\ t.controller = s.controller
  BY <1>3, <1>4 DEF State
<1>6. Typed'
  BY <1>2, <1>4, <1>5 DEF IInv, Typed
<1>7. Single'
  BY <1>2, <1>4, <1>5 DEF IInv, Single, AtMostOne
<1>8. Recorded'
  <2>1. \A x \in sent : x.token = s.token /\ x.stage <= s.next /\ x.stage # s.next
    BY <1>3 DEF IInv, Recorded
  <2>2. tx.controller # {} => tx.stage \in {2, 4}
    BY <1>2, <1>4 DEF IInv, Compared
  <2> QED BY <1>2, <1>3, <1>4, <1>5, <2>1, <2>2 DEF IInv, Recorded
<1>9. Compared'
  <2>1. tx.stage = 4 => MatchesStage2(tx.controller)
    BY <1>2, <1>4 DEF IInv, Compared
  <2> QED BY <1>2, <2>1 DEF IInv, Compared, MatchesStage2
<1> QED BY <1>6, <1>7, <1>8, <1>9 DEF IInv

LEMMA NextIInv == IInv /\ [Next]_vars => IInv'
<1> SUFFICES ASSUME IInv, [Next]_vars PROVE IInv'
  OBVIOUS
<1>1. CASE InitCompile \/ InitSave
  BY <1>1, InitRunIInv
<1>2. CASE Verify \/ BuildPlan \/ CheckController \/ Stop
  BY <1>2, ReadIInv
<1>3. CASE Settle
  BY <1>3, SettleIInv
<1>4. CASE Prepare
  BY <1>4, PrepareIInv
<1>5. CASE Send
  BY <1>5, SendIInv
<1>6. ASSUME NEW f \in Files, Edit(f) PROVE IInv'
  BY <1>6, EditIInv
<1>7. CASE UNCHANGED vars
  BY <1>7 DEF vars, IInv, Typed, Single, Recorded, Compared, AtMostOne, MatchesStage2
<1> QED BY <1>1, <1>2, <1>3, <1>4, <1>5, <1>6, <1>7 DEF Next, Run

(* However often and whenever the checkout is edited, every transaction    *)
(* that is broadcast holds its token cells under one program and the       *)
(* controller under one, and at most one stage is unresolved.              *)
THEOREM OneBuild == Spec => []OneBuildInv
<1>1. Init => IInv
  BY InitIInv
<1>2. IInv /\ [Next]_vars => IInv'
  BY NextIInv
<1>3. IInv => OneBuildInv
  <2> SUFFICES ASSUME IInv PROVE OneBuildInv
    OBVIOUS
  <2>1. TypeOK
    <3>1. Cardinality(ledger) <= 1 /\ Cardinality(plan) <= 1
      BY CountOne DEF IInv, Single
    <3>2. \A s \in ledger : Cardinality(s.pending) <= 1 /\ Cardinality(s.controller) <= 1
      BY CountOne DEF IInv, Single
    <3> QED BY <3>1, <3>2 DEF IInv, Typed, State, TypeOK
  <2>2. OneProgramEach
    <3> SUFFICES ASSUME NEW tx \in sent, NEW other \in sent
                 PROVE  /\ tx.token = other.token
                        /\ (tx.controller # {} /\ other.controller # {})
                             => tx.controller = other.controller
      BY DEF OneProgramEach
    <3>1. tx.token = other.token
      BY DEF IInv, Recorded
    <3>2. ASSUME tx.controller # {}, other.controller # {}
          PROVE  tx.controller = other.controller
      <4>1. MatchesStage2(tx.controller)
        BY <3>2 DEF IInv, Recorded, Compared, MatchesStage2
      <4>2. MatchesStage2(other.controller)
        BY <3>2 DEF IInv, Recorded, Compared, MatchesStage2
      <4> QED BY <4>1, <4>2 DEF IInv, Recorded, MatchesStage2
    <3> QED BY <3>1, <3>2
  <2> QED BY <2>1, <2>2 DEF OneBuildInv
<1> QED BY <1>1, <1>2, <1>3, PTL DEF Spec
===============================================================================
