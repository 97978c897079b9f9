------------------------------ MODULE NetworkPlan ------------------------------
(***************************************************************************)
(* SnapshotNetworkPlan in harness/src/snapshot.rs: a caller hands it cells *)
(* it read from a node some time ago, keys, ids and a fee, and gets either *)
(* a signed transaction or a refusal.  The plan looks at nothing but its   *)
(* arguments, so a cell may be a decoy, young, spent or of another pool.   *)
(*                                                                         *)
(* Abstractions.                                                           *)
(*  - A script is what it says: <<"pays", key>>, <<"token", state>> or     *)
(*    <<"controller", token id, root>>; hashing keeps scripts apart.       *)
(*  - A root is the set of indices retired from the tree (MerkleTree), and *)
(*    a proof the index; a covenant id is the outpoint and output it was   *)
(*    made from.  Owners are keys <<"key", k>> or covenant ids.            *)
(*  - Borrow fields and the manifest are the same everywhere and left out. *)
(*  - Mass is left out; the fee estimate is a constant floor.              *)
(***************************************************************************)
EXTENDS Integers, Sequences, FiniteSets, Functions

CONSTANTS
    Snapshots,      \* sequences of holders [owner, scheme, amount]
    Deposits,       \* plain and other cells on the chain at the start
    Keys,           \* keys a caller may sign with or name
    FundingKey,     \* the key of the caller's own cells
    FixtureKeys,    \* fixture_public_key
    FixtureAt,      \* fixture_outpoint
    Fees,           \* fees a caller may ask for
    CellKas,        \* CELL_KAS
    MaxFee,         \* LIVE_TN10_FEE
    FeeFloor,       \* the lab's estimate of the fee, external
    Width,          \* amounts of KAS are below this (2^64)
    MaxLanded,      \* bound: transactions given to the node
    MaxStrangers    \* bound: steps of others

ASSUME PlanAssumption ==
    /\ FixtureKeys \subseteq Keys /\ FundingKey \in Keys \ FixtureKeys
    /\ Fees \subseteq Nat
    /\ {CellKas, MaxFee, FeeFloor, Width} \subseteq Nat \ {0}
    /\ FeeFloor <= MaxFee
    /\ {MaxLanded, MaxStrangers} \subseteq Nat

(* Snapshots are finite and amounts are amounts, holders and cells have    *)
(* their fields, and an outpoint says who made it. *)
ASSUME DataAssumption ==
    /\ \A s \in Snapshots :
          /\ Len(s) \in Nat /\ DOMAIN s = 1..Len(s)
          /\ \A i \in DOMAIN s :
                DOMAIN s[i] = {"amount", "owner", "scheme"} /\ s[i].amount \in Nat
    /\ \A d \in Deposits :
          /\ DOMAIN d = {"at", "kas", "script", "confirmed", "covenant", "coinbase"}
          /\ d.at[1] = "deposit" /\ d.kas \in 0..Width-1
          /\ d.covenant # <<>> => d.covenant[1] = "id"

VARIABLES
    plan,       \* the plan built, at most one: [holders, deploy]
    cells,      \* unspent cells
    gone,       \* spent cells, which a caller may still hold
    flight,     \* the transaction received and not accepted, at most one
    draft,      \* the transaction last prepared, at most one
    outcome,    \* of the last call: "none", "ready", "refused" or "preflight"
    landed, strangers
vars == <<plan, cells, gone, flight, draft, outcome, landed, strangers>>

-------------------------------------------------------------------------------
NoCovenant == <<>>
Pays(key) == <<"pays", key>>
TokenScript(state) == <<"token", state>>
ControllerScript(token, root) == <<"controller", token, root>>
CovenantId(at, script) == <<"id", at, script>>

Token(amount, owner, scheme) == [amount |-> amount, owner |-> owner, scheme |-> scheme]

TokenSupply(p) == FoldFunction(LAMBDA h, n : h.amount + n, 0, p.holders)

GenesisState(p) == Token(TokenSupply(p), <<"key", p.deploy>>, "p2pk")
ReserveState(p, controller, amount) == Token(amount, controller, "covenant")
RecipientState(p, i) == p.holders[i]

Out(kas, script, binding) == [kas |-> kas, script |-> script, binding |-> binding]
Witness(reveals, signer) == [reveals |-> reveals, signer |-> signer, index |-> 0]
Plain(key) == Witness(Pays(key), key)
Nobody == ""

-------------------------------------------------------------------------------
(* The checks a call makes on its arguments. *)

ValidKey(key) == key \notin FixtureKeys

(* validate_live_funding; the sum of its minimum may wrap. *)
ValidFunding(cell, key, minimum) ==
    /\ ValidKey(key)
    /\ cell.at \notin FixtureAt
    /\ cell.covenant = NoCovenant
    /\ ~cell.coinbase
    /\ cell.confirmed
    /\ cell.script = Pays(key)
    /\ cell.kas >= minimum % Width

(* Mutant: any cell of the script will do.                                 *)
ValidCellAnyId(cell, script, id) ==
    /\ cell.at \notin FixtureAt
    /\ cell.confirmed
    /\ cell.kas = CellKas
    /\ cell.script = script

(* Mutant: a cell that is not accepted yet will do.                        *)
ValidCellYoung(cell, script, id) ==
    /\ cell.at \notin FixtureAt
    /\ cell.kas = CellKas
    /\ cell.script = script
    /\ cell.covenant = id

(* validate_live_cell *)
ValidCell(cell, script, id) ==
    /\ cell.at \notin FixtureAt
    /\ cell.confirmed
    /\ cell.kas = CellKas
    /\ cell.script = script
    /\ cell.covenant = id

(* checked_change: the change, if there is any to give. *)
Change(amount, extra, fee) ==
    LET change == amount - extra - fee
    IN  IF fee \in 1..MaxFee /\ change >= CellKas THEN {change} ELSE {}

-------------------------------------------------------------------------------
(* The scripts, external: what the engine accepts (SnapshotChain has them  *)
(* in full). *)

Sum(kas) == FoldFunction(+, 0, kas)
KasIn(tx) == Sum([i \in DOMAIN tx.inputs |-> tx.inputs[i].kas])
KasOut(tx) == Sum([o \in DOMAIN tx.outputs |-> tx.outputs[o].kas])

InputsOf(tx, id) == {i \in DOMAIN tx.inputs : tx.inputs[i].covenant = id}
OutputsOf(tx, id) == {o \in DOMAIN tx.outputs :
                        tx.outputs[o].binding # <<>> /\ tx.outputs[o].binding[2] = id}

(* A covenant output continues the covenant of the input that authorizes   *)
(* it, or starts the one its outpoint and script give. *)
Bound(tx, o) ==
    LET out == tx.outputs[o] IN
    \/ out.binding = <<>>
    \/ /\ out.binding[1] \in DOMAIN tx.inputs
       /\ LET input == tx.inputs[out.binding[1]]
          IN  out.binding[2] \in {input.covenant, CovenantId(input.at, out.script)}

Carried(script) == IF script[1] = "token" THEN script[2].amount ELSE 0

(* authorize and conserve *)
TokenUnlocks(tx, i) ==
    LET state == tx.inputs[i].script[2]
        id == tx.inputs[i].covenant
        ins == InputsOf(tx, id)
        outs == OutputsOf(tx, id)
    IN  /\ id # NoCovenant /\ Cardinality(ins) <= 2 /\ Cardinality(outs) <= 2
        /\ \/ state.scheme = "p2pk" /\ state.owner = <<"key", tx.witness[i].signer>>
           \/ state.scheme = "covenant" /\ InputsOf(tx, state.owner) # {}
        /\ \A o \in outs : /\ tx.outputs[o].script[1] = "token"
                          /\ tx.outputs[o].script[2].amount >= 0
        /\ Sum([j \in ins |-> Carried(tx.inputs[j].script)])
             = Sum([o \in outs |-> Carried(tx.outputs[o].script)])

(* claim *)
ControllerUnlocks(tx, i) ==
    LET cell == tx.inputs[i]
        token == cell.script[2]
        root == cell.script[3]
        index == tx.witness[i].index
        paid == tx.outputs[2].script[2]
    IN  /\ cell.covenant # NoCovenant
        /\ OutputsOf(tx, token) = {1, 2} /\ OutputsOf(tx, cell.covenant) = {3}
        /\ tx.outputs[3].script = ControllerScript(token, root \cup {index})
        /\ tx.outputs[3].kas = cell.kas
        /\ tx.outputs[1].kas = CellKas /\ tx.outputs[2].kas >= CellKas
        /\ index \notin root
        /\ \E p \in plan : paid = p.holders[index]
        /\ \E r \in DOMAIN tx.inputs :
             LET old == tx.inputs[r].script[2]
             IN  /\ InputsOf(tx, token) = {r}
                 /\ old.owner = cell.covenant /\ old.amount >= paid.amount
                 /\ tx.outputs[1].script = TokenScript([old EXCEPT !.amount = @ - paid.amount])

Unlocks(tx, i) ==
    /\ tx.witness[i].reveals = tx.inputs[i].script
    /\ CASE tx.inputs[i].script[1] = "pays" -> tx.witness[i].signer = tx.inputs[i].script[2]
         [] tx.inputs[i].script[1] = "token" -> TokenUnlocks(tx, i)
         [] tx.inputs[i].script[1] = "controller" -> ControllerUnlocks(tx, i)

ScriptsAccept(tx) ==
    /\ \A i \in DOMAIN tx.inputs : Unlocks(tx, i)
    /\ \A o \in DOMAIN tx.outputs : Bound(tx, o)

FeeCovered(tx) == KasIn(tx) - KasOut(tx) >= FeeFloor

-------------------------------------------------------------------------------
(* The calls.  A call goes through its checks in order and returns an      *)
(* error at the first that fails. *)

(* Some argument does not pass (a fee of zero never does). *)
Refuse ==
    /\ plan # {}
    /\ draft' = {} /\ outcome' = "refused"
    /\ UNCHANGED <<plan, cells, gone, flight, landed, strangers>>

(* live_ready: the signed transaction is run before anyone gets it. *)
Ready(tx) ==
    /\ FeeCovered(tx)
    /\ IF ScriptsAccept(tx) THEN draft' = {tx} /\ outcome' = "ready"
                            ELSE draft' = {} /\ outcome' = "preflight"
    /\ UNCHANGED <<plan, cells, gone, flight, landed, strangers>>

(* live_build, and what each input is given to unlock it. *)
Build(inputs, witness, outputs, fee) ==
    [inputs |-> inputs, witness |-> witness, outputs |-> outputs, fee |-> fee]

Held == cells \cup gone

(* The ids a caller has are those the two geneses returned to it. *)
HeldIds(kind) == {id \in {c.covenant : c \in Held} \ {NoCovenant} :
                    id[2][1] # "elsewhere" /\ id[3][1] = kind}
TokenIds == HeldIds("token")
ControllerIds == HeldIds("controller")

(* Mutant: the owners in the snapshot are not looked at.                   *)
NewAnyHolder(network, deploy, holders) ==
    /\ plan = {}
    /\ network = "testnet-10" /\ ValidKey(deploy)
    /\ plan' = {[holders |-> holders, deploy |-> deploy]}
    /\ UNCHANGED <<cells, gone, flight, draft, outcome, landed, strangers>>

(* SnapshotNetworkPlan::new *)
New(network, deploy, holders) ==
    /\ plan = {}
    /\ network = "testnet-10" /\ ValidKey(deploy)
    /\ \A i \in DOMAIN holders : \A k \in FixtureKeys : holders[i].owner # <<"key", k>>
    /\ plan' = {[holders |-> holders, deploy |-> deploy]}
    /\ UNCHANGED <<cells, gone, flight, draft, outcome, landed, strangers>>

(* The funding input and the change it pays back, for a call that adds     *)
(* `extra` KAS of cells to those it spends. *)
Funded(funding, key, extra, fee, change) ==
    /\ ValidFunding(funding, key, extra + fee + CellKas)
    /\ change \in Change(funding.kas, extra, fee)

(* A genesis: a plain cell becomes a covenant cell and change. *)
Genesis(script) ==
    \E funding \in Held, key \in Keys, fee \in Fees :
        \E change \in Change(funding.kas, CellKas, fee) :
            /\ Funded(funding, key, CellKas, fee, change)
            /\ Ready(Build(<<funding>>, <<Plain(key)>>,
                  <<Out(CellKas, script, <<1, CovenantId(funding.at, script)>>),
                    Out(change, funding.script, <<>>)>>, fee))

PrepareTokenGenesis == \E p \in plan : Genesis(TokenScript(GenesisState(p)))

PrepareControllerGenesis ==
    \E p \in plan, token \in TokenIds : Genesis(ControllerScript(token, {}))

(* Mutant: the handoff is charged a cell it does not make.                 *)
HandoffExtraCharged == CellKas

(* The cells of native value the handoff adds. *)
HandoffExtra == 0

PrepareReserveHandoff ==
    \E p \in plan, token \in TokenIds, controller \in ControllerIds, cell \in Held, deploy \in Keys :
        /\ ValidKey(deploy) /\ deploy = p.deploy
        /\ ValidCell(cell, TokenScript(GenesisState(p)), token)
        /\ \E funding \in Held, key \in Keys, fee \in Fees :
            \E change \in Change(funding.kas, HandoffExtra, fee) :
                /\ Funded(funding, key, HandoffExtra, fee, change)
                /\ Ready(Build(<<cell, funding>>,
                      <<Witness(cell.script, deploy), Plain(key)>>,
                      <<Out(CellKas, TokenScript(ReserveState(p, controller, TokenSupply(p))),
                            <<1, token>>),
                        Out(change, funding.script, <<>>)>>, fee))

(* Only ever the first claim: the full reserve and the first root. *)
PrepareClaim ==
    \E p \in plan, token \in TokenIds, controller \in ControllerIds, controllerCell \in Held :
        LET program == ControllerScript(token, {})
            reserve == ReserveState(p, controller, TokenSupply(p))
            witness(i) == [Witness(program, Nobody) EXCEPT !.index = i]
        IN
        /\ ValidCell(controllerCell, program, controller)
        /\ \E reserveCell \in Held :
            /\ ValidCell(reserveCell, TokenScript(reserve), token)
            /\ \E funding \in Held, key \in Keys, fee \in Fees, i \in DOMAIN p.holders :
               LET left == [reserve EXCEPT !.amount = @ - p.holders[i].amount] IN
               \E change \in Change(funding.kas, CellKas, fee) :
                /\ Funded(funding, key, CellKas, fee, change)
                /\ Ready(Build(<<controllerCell, reserveCell, funding>>,
                      <<witness(i), Witness(TokenScript(reserve), Nobody), Plain(key)>>,
                      <<Out(CellKas, TokenScript(left), <<2, token>>),
                        Out(CellKas, TokenScript(RecipientState(p, i)), <<2, token>>),
                        Out(CellKas, ControllerScript(token, {i}), <<1, controller>>),
                        Out(change, funding.script, <<>>)>>, fee))

(* The claimed cell in two halves, the second to another owner. *)
PrepareRecipientSplit ==
    \E p \in plan, token \in TokenIds, cell \in Held, holderKey, destination \in Keys :
    \E i \in DOMAIN p.holders :
        LET holder == RecipientState(p, i)
            first == [holder EXCEPT !.amount = @ \div 2]
            second == [holder EXCEPT !.amount = @ - first.amount,
                                     !.owner = <<"key", destination>>]
        IN
        /\ holder.scheme = "p2pk"
        /\ ValidKey(holderKey) /\ holder.owner = <<"key", holderKey>>
        /\ ValidKey(destination)
        /\ holder.amount >= 2
        /\ ValidCell(cell, TokenScript(holder), token)
        /\ \E funding \in Held, key \in Keys, fee \in Fees :
            \E change \in Change(funding.kas, CellKas, fee) :
                /\ Funded(funding, key, CellKas, fee, change)
                /\ Ready(Build(<<cell, funding>>,
                      <<Witness(TokenScript(holder), holderKey), Plain(key)>>,
                      <<Out(CellKas, TokenScript(first), <<1, token>>),
                        Out(CellKas, TokenScript(second), <<1, token>>),
                        Out(change, funding.script, <<>>)>>, fee))

-------------------------------------------------------------------------------
(* The node and everyone else, external. *)

Cell(at, out, confirmed) ==
    [at |-> at, kas |-> out.kas, script |-> out.script, confirmed |-> confirmed,
     covenant |-> IF out.binding = <<>> THEN NoCovenant ELSE out.binding[2],
     coinbase |-> FALSE]

MadeBy(n) == {c \in cells : c.at[1] = "tx" /\ c.at[2] = n}

(* The node receives the draft, if nothing it spends is spent. *)
Land ==
    /\ landed < MaxLanded /\ flight = {}
    /\ \E tx \in draft :
        LET spends == {tx.inputs[i] : i \in DOMAIN tx.inputs}
            n == landed + 1
        IN  /\ spends \subseteq cells
            /\ cells' = (cells \ spends) \cup {Cell(<<"tx", n, o>>, tx.outputs[o], FALSE) :
                                                o \in DOMAIN tx.outputs}
            /\ gone' = gone \cup spends
            /\ flight' = {[n |-> n, spends |-> spends]}
    /\ landed' = landed + 1
    /\ draft' = {} /\ outcome' = "none"
    /\ UNCHANGED <<plan, strangers>>

Confirm ==
    /\ \E tx \in flight :
        cells' = (cells \ MadeBy(tx.n)) \cup {[c EXCEPT !.confirmed = TRUE] : c \in MadeBy(tx.n)}
    /\ flight' = {}
    /\ UNCHANGED <<plan, gone, draft, outcome, landed, strangers>>

(* The node forgets what it had not accepted. *)
Vanish ==
    /\ \E tx \in flight : /\ cells' = (cells \ MadeBy(tx.n)) \cup tx.spends
                          /\ gone' = gone \ tx.spends
    /\ flight' = {}
    /\ UNCHANGED <<plan, draft, outcome, landed, strangers>>

(* Anyone can send KAS to the address of a covenant cell, as a plain       *)
(* output or in a covenant of their own. *)
Decoy ==
    /\ strangers < MaxStrangers
    /\ \E c \in cells : \E id \in {NoCovenant, CovenantId(<<"elsewhere", 0>>, c.script)} :
        /\ c.covenant # NoCovenant /\ c.confirmed
        /\ cells' = cells \cup {[c EXCEPT !.at = <<"stranger", strangers>>, !.covenant = id]}
    /\ strangers' = strangers + 1
    /\ UNCHANGED <<plan, gone, flight, draft, outcome, landed>>

(* Anyone can claim for a holder, with funding of their own. *)
StrangerClaims ==
    /\ strangers < MaxStrangers
    /\ \E p \in plan, c \in {k \in cells : k.script[1] = "controller"} :
       \E r \in cells, i \in DOMAIN p.holders \ c.script[3] :
        /\ c.confirmed
        /\ r.script[1] = "token" /\ r.confirmed /\ r.covenant = c.script[2]
        /\ r.script[2].owner = c.covenant
        /\ cells' = (cells \ {c, r})
             \cup {[c EXCEPT !.at = <<"stranger", strangers, 1>>, !.script[3] = @ \cup {i}],
                   [r EXCEPT !.at = <<"stranger", strangers, 2>>,
                             !.script[2].amount = @ - p.holders[i].amount],
                   [r EXCEPT !.at = <<"stranger", strangers, 3>>,
                             !.script = TokenScript(RecipientState(p, i))]}
        /\ gone' = gone \cup {c, r}
    /\ strangers' = strangers + 1
    /\ UNCHANGED <<plan, flight, draft, outcome, landed>>

-------------------------------------------------------------------------------
Init ==
    /\ plan = {} /\ cells = Deposits /\ gone = {} /\ flight = {}
    /\ draft = {} /\ outcome = "none" /\ landed = 0 /\ strangers = 0

Next ==
    \/ \E network \in {"testnet-10", "mainnet"}, deploy \in Keys, holders \in Snapshots :
         New(network, deploy, holders)
    \/ Refuse
    \/ PrepareTokenGenesis \/ PrepareControllerGenesis \/ PrepareReserveHandoff
    \/ PrepareClaim \/ PrepareRecipientSplit
    \/ Land \/ Confirm \/ Vanish
    \/ Decoy \/ StrangerClaims

Spec == Init /\ [][Next]_vars

-------------------------------------------------------------------------------
(* Properties. *)

TypeOK ==
    /\ Cardinality(plan) <= 1 /\ Cardinality(flight) <= 1 /\ Cardinality(draft) <= 1
    /\ outcome \in {"none", "ready", "refused", "preflight"}
    /\ outcome = "ready" <=> draft # {}
    /\ cells \cap gone = {}
    /\ landed \in 0..MaxLanded /\ strangers \in 0..MaxStrangers

(* Whatever cells, ids and keys it is handed, a transaction that passes    *)
(* the plan's own checks is one the contracts accept: decoys, cells of     *)
(* another pool and states another claim has moved on are refused before   *)
(* anything is signed.                                                     *)
ChecksAreEnough == outcome # "preflight"

(* Nothing is left to submit unless it is ready, no spent cell comes back, *)
(* and what passes the checks is accepted.                                 *)
PlanInv == TypeOK /\ ChecksAreEnough

(* What a prepared transaction leaves to the miner is the fee asked for,   *)
(* at most the maximum and never a cell more, however the caller's numbers *)
(* wrap.                                                                   *)
FeeIsExact ==
    \A tx \in draft : /\ KasIn(tx) = KasOut(tx) + tx.fee
                      /\ tx.fee \in 1..MaxFee

(* Nothing is prepared that pays or hands tokens to a key anyone can derive*)
NoPublicOwner ==
    \A tx \in draft : \A o \in DOMAIN tx.outputs : \A k \in FixtureKeys :
        /\ tx.outputs[o].script # Pays(k)
        /\ tx.outputs[o].script[1] = "token" =>
             tx.outputs[o].script[2].owner # <<"key", k>>

(* No cell a prepared transaction spends is ever forgotten by the node: it *)
(* can be spent by someone else, but what it was built on has happened.    *)
BuiltOnAccepted ==
    \A tx \in draft : \A i \in DOMAIN tx.inputs : tx.inputs[i] \in Held
===============================================================================
