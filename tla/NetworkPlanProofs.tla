--------------------------- MODULE NetworkPlanProofs ---------------------------
(***************************************************************************)
(* Theorems about NetworkPlan, for any snapshots, deposits, keys and fees, *)
(* and any number of transactions and strangers: what a call prepares is   *)
(* accepted by every script it meets, leaves the miner exactly the fee, is *)
(* built on what has happened, and pays no key that anyone can derive.     *)
(* Why a script accepts: a token covenant and a controller covenant are    *)
(* named by ids of two kinds, and funding is in no covenant, so each       *)
(* script counts the cells the call meant and no others.                   *)
(***************************************************************************)
EXTENDS NetworkPlan, TokenUnitsProofs

(* A sum over a finite domain is the weight of that domain. *)
LEMMA SumIsWeight ==
    ASSUME NEW f, IsFiniteSet(DOMAIN f), \A x \in DOMAIN f : f[x] \in Nat
    PROVE  Sum(f) = Weight(DOMAIN f, f)
<1> DEFINE sum == CHOOSE g : Adds(g, DOMAIN f, f)
<1>1. Sum(f) = sum[DOMAIN f]
  BY DEF Sum, FoldFunction, FoldFunctionOnSet, MapThenFoldSet, Adds
<1>2. Adds(sum, DOMAIN f, f)
  BY AddsExists
<1> HIDE DEF sum
<1> QED BY <1>1, <1>2, AddsIsWeight

(* The supply is a fold over the holders, and no holder is owed more.      *)
LEMMA SupplyIsWeight ==
    ASSUME NEW p, IsFiniteSet(DOMAIN p.holders),
           \A i \in DOMAIN p.holders : p.holders[i].amount \in Nat
    PROVE  /\ TokenSupply(p) \in Nat
           /\ \A i \in DOMAIN p.holders : p.holders[i].amount <= TokenSupply(p)
<1> DEFINE D == DOMAIN p.holders
           w == [i \in D |-> p.holders[i].amount]
           Is(g) == g = [s \in SUBSET D |->
                IF s = {} THEN 0
                ELSE p.holders[CHOOSE x \in s : TRUE].amount + g[s \ {CHOOSE x \in s : TRUE}]]
           sum == CHOOSE g : Is(g)
<1>1. TokenSupply(p) = sum[D]
  BY DEF TokenSupply, FoldFunction, FoldFunctionOnSet, MapThenFoldSet
<1>2. ASSUME NEW g PROVE Is(g) <=> Adds(g, D, w)
  <2>1. [s \in SUBSET D |-> IF s = {} THEN 0
            ELSE p.holders[CHOOSE x \in s : TRUE].amount + g[s \ {CHOOSE x \in s : TRUE}]]
        = [s \in SUBSET D |-> IF s = {} THEN 0
            ELSE w[CHOOSE x \in s : TRUE] + g[s \ {CHOOSE x \in s : TRUE}]]
    <3>1. \A s \in SUBSET D : s # {} =>
            w[CHOOSE x \in s : TRUE] = p.holders[CHOOSE x \in s : TRUE].amount
      OBVIOUS
    <3> HIDE DEF w
    <3> QED BY <3>1
  <2> QED BY <2>1 DEF Adds
<1>3. \A i \in D : w[i] = p.holders[i].amount /\ w[i] \in Nat
  OBVIOUS
<1> HIDE DEF w, Is
<1>4. Adds(sum, D, w)
  <2>1. \E g : Is(g)
    BY <1>2, <1>3, AddsExists
  <2>2. Is(sum)
    BY <2>1
  <2> QED BY <1>2, <2>2
<1>5. sum[D] = Weight(D, w)
  <2> HIDE DEF sum
  <2> QED BY <1>3, <1>4, AddsIsWeight
<1> HIDE DEF sum, D
<1>6. IsFiniteSet(D)
  BY DEF D
<1>7. Weight(D, w) \in Nat /\ \A i \in D : w[i] <= Weight(D, w)
  BY <1>3, <1>6, UnitsFinite, WeightMember
<1> QED BY <1>1, <1>3, <1>5, <1>7 DEF D

(* What the scripts add up has one, two, three or four entries. *)
LEMMA SumOne ==
    ASSUME NEW x, NEW f, DOMAIN f = {x}, f[x] \in Nat
    PROVE  Sum(f) = f[x]
<1>1. IsFiniteSet(DOMAIN f)
  BY FS_Singleton
<1>2. Sum(f) = Weight({x}, f)
  BY <1>1, SumIsWeight
<1> QED BY <1>2, WeightSingleton

LEMMA SumTwo ==
    ASSUME NEW x, NEW y, x # y, NEW f, DOMAIN f = {x, y}, f[x] \in Nat, f[y] \in Nat
    PROVE  Sum(f) = f[x] + f[y]
<1>1. IsFiniteSet(DOMAIN f)
  BY PairFinite
<1>2. Sum(f) = Weight({x, y}, f)
  BY <1>1, SumIsWeight
<1> QED BY <1>2, WeightPair

LEMMA SumThree ==
    ASSUME NEW f, DOMAIN f = {1, 2, 3}, \A n \in {1, 2, 3} : f[n] \in Nat
    PROVE  Sum(f) = f[1] + f[2] + f[3]
<1>0. {1, 2, 3} = {1, 2} \cup {3} /\ {1, 2} \cap {3} = {}
  OBVIOUS
<1>1. IsFiniteSet({1, 2}) /\ IsFiniteSet({3})
  BY PairFinite, FS_Singleton
<1>2. IsFiniteSet({1, 2} \cup {3})
  BY <1>1, FS_Union
<1>3. Sum(f) = Weight({1, 2} \cup {3}, f)
  BY <1>0, <1>2, SumIsWeight
<1>4. Weight({1, 2} \cup {3}, f) = Weight({1, 2}, f) + Weight({3}, f)
  <2>1. \A n \in {1, 2} \cup {3} : f[n] \in Nat
    OBVIOUS
  <2> QED BY <1>0, <1>1, <2>1, WeightUnion
<1>5. Weight({1, 2}, f) = f[1] + f[2] /\ Weight({3}, f) = f[3]
  BY WeightPair, WeightSingleton
<1>6. f[1] \in Nat /\ f[2] \in Nat /\ f[3] \in Nat
  OBVIOUS
<1> QED BY <1>3, <1>4, <1>5, <1>6

LEMMA SumFour ==
    ASSUME NEW f, DOMAIN f = {1, 2, 3, 4}, \A n \in {1, 2, 3, 4} : f[n] \in Nat
    PROVE  Sum(f) = f[1] + f[2] + f[3] + f[4]
<1>0. {1, 2, 3, 4} = {1, 2} \cup {3, 4} /\ {1, 2} \cap {3, 4} = {}
  OBVIOUS
<1>1. IsFiniteSet({1, 2}) /\ IsFiniteSet({3, 4})
  BY PairFinite
<1>2. IsFiniteSet({1, 2} \cup {3, 4})
  BY <1>1, FS_Union
<1>3. Sum(f) = Weight({1, 2} \cup {3, 4}, f)
  BY <1>0, <1>2, SumIsWeight
<1>4. Weight({1, 2} \cup {3, 4}, f) = Weight({1, 2}, f) + Weight({3, 4}, f)
  <2>1. \A n \in {1, 2} \cup {3, 4} : f[n] \in Nat
    OBVIOUS
  <2> QED BY <1>0, <1>1, <2>1, WeightUnion
<1>5. Weight({1, 2}, f) = f[1] + f[2] /\ Weight({3, 4}, f) = f[3] + f[4]
  BY WeightPair
<1>6. f[1] \in Nat /\ f[2] \in Nat /\ f[3] \in Nat /\ f[4] \in Nat
  OBVIOUS
<1>7. (f[1] + f[2]) + (f[3] + f[4]) = f[1] + f[2] + f[3] + f[4]
  BY <1>6
<1> QED BY <1>3, <1>4, <1>5, <1>7

(* What a transaction of one to three inputs takes in, and what one of two *)
(* to four outputs gives out. *)
LEMMA KasInOne ==
    ASSUME NEW a, a.kas \in Nat,
           NEW witness, NEW outputs, NEW fee
    PROVE  KasIn(Build(<<a>>, witness, outputs, fee)) = a.kas
<1> DEFINE f == [i \in {1} |-> a.kas]
<1>1. [i \in DOMAIN <<a>> |-> <<a>>[i].kas] = f
  OBVIOUS
<1>2. KasIn(Build(<<a>>, witness, outputs, fee)) = Sum(f)
  BY <1>1 DEF KasIn, Build
<1>3. /\ DOMAIN f = {1}
      /\ f[1] = a.kas
  OBVIOUS
<1> HIDE DEF f
<1>4. Sum(f) = f[1]
  BY <1>3, SumOne
<1> QED BY <1>2, <1>3, <1>4

LEMMA KasInTwo ==
    ASSUME NEW a, a.kas \in Nat, NEW b, b.kas \in Nat,
           NEW witness, NEW outputs, NEW fee
    PROVE  KasIn(Build(<<a, b>>, witness, outputs, fee)) = a.kas + b.kas
<1> DEFINE f == [i \in {1, 2} |-> IF i = 1 THEN a.kas ELSE b.kas]
<1>1. [i \in DOMAIN <<a, b>> |-> <<a, b>>[i].kas] = f
  OBVIOUS
<1>2. KasIn(Build(<<a, b>>, witness, outputs, fee)) = Sum(f)
  BY <1>1 DEF KasIn, Build
<1>3. /\ DOMAIN f = {1, 2}
      /\ f[1] = a.kas /\ f[2] = b.kas /\ 1 # 2
      /\ f[1] \in Nat /\ f[2] \in Nat
  OBVIOUS
<1> HIDE DEF f
<1>4. Sum(f) = f[1] + f[2]
  BY <1>3, SumTwo
<1> QED BY <1>2, <1>3, <1>4

LEMMA KasInThree ==
    ASSUME NEW a, a.kas \in Nat, NEW b, b.kas \in Nat,
           NEW c, c.kas \in Nat,
           NEW witness, NEW outputs, NEW fee
    PROVE  KasIn(Build(<<a, b, c>>, witness, outputs, fee)) = a.kas + b.kas + c.kas
<1> DEFINE f == [i \in {1, 2, 3} |-> IF i = 1 THEN a.kas ELSE IF i = 2 THEN b.kas ELSE c.kas]
<1>1. [i \in DOMAIN <<a, b, c>> |-> <<a, b, c>>[i].kas] = f
  OBVIOUS
<1>2. KasIn(Build(<<a, b, c>>, witness, outputs, fee)) = Sum(f)
  BY <1>1 DEF KasIn, Build
<1>3. /\ DOMAIN f = {1, 2, 3}
      /\ f[1] = a.kas /\ f[2] = b.kas /\ f[3] = c.kas
  OBVIOUS
<1> HIDE DEF f
<1>4. Sum(f) = f[1] + f[2] + f[3]
  BY <1>3, SumThree
<1> QED BY <1>2, <1>3, <1>4

LEMMA KasOutTwo ==
    ASSUME NEW a, a.kas \in Nat, NEW b, b.kas \in Nat,
           NEW inputs, NEW witness, NEW fee
    PROVE  KasOut(Build(inputs, witness, <<a, b>>, fee)) = a.kas + b.kas
<1> DEFINE f == [i \in {1, 2} |-> IF i = 1 THEN a.kas ELSE b.kas]
<1>1. [i \in DOMAIN <<a, b>> |-> <<a, b>>[i].kas] = f
  OBVIOUS
<1>2. KasOut(Build(inputs, witness, <<a, b>>, fee)) = Sum(f)
  BY <1>1 DEF KasOut, Build
<1>3. /\ DOMAIN f = {1, 2}
      /\ f[1] = a.kas /\ f[2] = b.kas /\ 1 # 2
      /\ f[1] \in Nat /\ f[2] \in Nat
  OBVIOUS
<1> HIDE DEF f
<1>4. Sum(f) = f[1] + f[2]
  BY <1>3, SumTwo
<1> QED BY <1>2, <1>3, <1>4

LEMMA KasOutThree ==
    ASSUME NEW a, a.kas \in Nat, NEW b, b.kas \in Nat,
           NEW c, c.kas \in Nat,
           NEW inputs, NEW witness, NEW fee
    PROVE  KasOut(Build(inputs, witness, <<a, b, c>>, fee)) = a.kas + b.kas + c.kas
<1> DEFINE f == [i \in {1, 2, 3} |-> IF i = 1 THEN a.kas ELSE IF i = 2 THEN b.kas ELSE c.kas]
<1>1. [i \in DOMAIN <<a, b, c>> |-> <<a, b, c>>[i].kas] = f
  OBVIOUS
<1>2. KasOut(Build(inputs, witness, <<a, b, c>>, fee)) = Sum(f)
  BY <1>1 DEF KasOut, Build
<1>3. /\ DOMAIN f = {1, 2, 3}
      /\ f[1] = a.kas /\ f[2] = b.kas /\ f[3] = c.kas
  OBVIOUS
<1> HIDE DEF f
<1>4. Sum(f) = f[1] + f[2] + f[3]
  BY <1>3, SumThree
<1> QED BY <1>2, <1>3, <1>4

LEMMA KasOutFour ==
    ASSUME NEW a, a.kas \in Nat, NEW b, b.kas \in Nat,
           NEW c, c.kas \in Nat, NEW d, d.kas \in Nat,
           NEW inputs, NEW witness, NEW fee
    PROVE  KasOut(Build(inputs, witness, <<a, b, c, d>>, fee))
             = a.kas + b.kas + c.kas + d.kas
<1> DEFINE f == [i \in {1, 2, 3, 4} |-> IF i = 1 THEN a.kas ELSE IF i = 2 THEN b.kas
                   ELSE IF i = 3 THEN c.kas ELSE d.kas]
<1>1. [i \in DOMAIN <<a, b, c, d>> |-> <<a, b, c, d>>[i].kas] = f
  OBVIOUS
<1>2. KasOut(Build(inputs, witness, <<a, b, c, d>>, fee)) = Sum(f)
  BY <1>1 DEF KasOut, Build
<1>3. /\ DOMAIN f = {1, 2, 3, 4}
      /\ f[1] = a.kas /\ f[2] = b.kas /\ f[3] = c.kas /\ f[4] = d.kas
  OBVIOUS
<1> HIDE DEF f
<1>4. Sum(f) = f[1] + f[2] + f[3] + f[4]
  BY <1>3, SumFour
<1> QED BY <1>2, <1>3, <1>4

-------------------------------------------------------------------------------
(* What each kind of input needs in order to unlock. *)
LEMMA FundingUnlocks ==
    ASSUME NEW tx, NEW i, NEW key, tx.inputs[i].script = Pays(key),
           tx.witness[i] = Plain(key)
    PROVE  Unlocks(tx, i)
BY DEF Unlocks, Pays, Plain, Witness

LEMMA TokenUnlocked ==
    ASSUME NEW tx, NEW i, NEW state, tx.inputs[i].script = TokenScript(state),
           tx.witness[i].reveals = TokenScript(state), TokenUnlocks(tx, i)
    PROVE  Unlocks(tx, i)
BY DEF Unlocks, TokenScript

LEMMA ControllerUnlocked ==
    ASSUME NEW tx, NEW i, NEW token, NEW root,
           tx.inputs[i].script = ControllerScript(token, root),
           tx.witness[i].reveals = ControllerScript(token, root), ControllerUnlocks(tx, i)
    PROVE  Unlocks(tx, i)
BY DEF Unlocks, ControllerScript

LEMMA CardOneTwo ==
    /\ Cardinality({1}) = 1 /\ Cardinality({2}) = 1 /\ Cardinality({1, 2}) = 2
BY FS_Singleton, PairFinite

Authorized(tx, i, state) ==
    \/ state.scheme = "p2pk" /\ state.owner = <<"key", tx.witness[i].signer>>
    \/ state.scheme = "covenant" /\ InputsOf(tx, state.owner) # {}

LEMMA CarriedToken ==
    ASSUME NEW state PROVE Carried(TokenScript(state)) = state.amount
BY DEF Carried, TokenScript

(* A token cell into one cell, or into two. *)
LEMMA TokenIntoOne ==
    ASSUME NEW tx, NEW i, NEW state, NEW id, id # NoCovenant,
           tx.inputs[i].script = TokenScript(state), tx.inputs[i].covenant = id,
           InputsOf(tx, id) = {i}, OutputsOf(tx, id) = {1},
           Authorized(tx, i, state), state.amount \in Nat,
           NEW made, tx.outputs[1].script = TokenScript(made), made.amount = state.amount
    PROVE  TokenUnlocks(tx, i)
<1> DEFINE taken == [j \in InputsOf(tx, id) |-> Carried(tx.inputs[j].script)]
           given == [o \in OutputsOf(tx, id) |-> Carried(tx.outputs[o].script)]
<1>1. Cardinality(InputsOf(tx, id)) <= 2 /\ Cardinality(OutputsOf(tx, id)) <= 2
  <2>1. Cardinality({i}) = 1
    BY FS_Singleton
  <2> QED BY <2>1, CardOneTwo
<1>2. Sum(taken) = state.amount
  <2>1. DOMAIN taken = {i} /\ taken[i] = state.amount
    BY CarriedToken
  <2> HIDE DEF taken
  <2> QED BY <2>1, SumOne
<1>3. Sum(given) = state.amount
  <2>1. DOMAIN given = {1} /\ given[1] = state.amount
    BY CarriedToken
  <2> HIDE DEF given
  <2> QED BY <2>1, SumOne
<1>4. \A o \in OutputsOf(tx, id) : /\ tx.outputs[o].script[1] = "token"
                                 /\ tx.outputs[o].script[2].amount >= 0
  BY DEF TokenScript
<1> QED BY <1>1, <1>2, <1>3, <1>4 DEF TokenUnlocks, Authorized, TokenScript

LEMMA TokenIntoTwo ==
    ASSUME NEW tx, NEW i, NEW state, NEW id, id # NoCovenant,
           tx.inputs[i].script = TokenScript(state), tx.inputs[i].covenant = id,
           InputsOf(tx, id) = {i}, OutputsOf(tx, id) = {1, 2},
           Authorized(tx, i, state), state.amount \in Nat,
           NEW first, tx.outputs[1].script = TokenScript(first), first.amount \in Nat,
           NEW second, tx.outputs[2].script = TokenScript(second), second.amount \in Nat,
           state.amount = first.amount + second.amount
    PROVE  TokenUnlocks(tx, i)
<1> DEFINE taken == [j \in InputsOf(tx, id) |-> Carried(tx.inputs[j].script)]
           given == [o \in OutputsOf(tx, id) |-> Carried(tx.outputs[o].script)]
<1>1. Cardinality(InputsOf(tx, id)) <= 2 /\ Cardinality(OutputsOf(tx, id)) <= 2
  <2>1. Cardinality({i}) = 1
    BY FS_Singleton
  <2> QED BY <2>1, CardOneTwo
<1>2. Sum(taken) = state.amount
  <2>1. DOMAIN taken = {i} /\ taken[i] = state.amount
    BY CarriedToken
  <2> HIDE DEF taken
  <2> QED BY <2>1, SumOne
<1>3. Sum(given) = state.amount
  <2>1. /\ DOMAIN given = {1, 2} /\ 1 # 2
        /\ given[1] = first.amount /\ given[2] = second.amount
    BY CarriedToken
  <2>2. Sum(given) = given[1] + given[2]
    <3> HIDE DEF given
    <3> QED BY <2>1, SumTwo
  <2> QED BY <2>1, <2>2
<1>4. \A o \in OutputsOf(tx, id) : /\ tx.outputs[o].script[1] = "token"
                                 /\ tx.outputs[o].script[2].amount >= 0
  BY DEF TokenScript
<1> QED BY <1>1, <1>2, <1>3, <1>4 DEF TokenUnlocks, Authorized, TokenScript

(* A binding is no empty tuple, and names the covenant. *)
LEMMA Binding ==
    ASSUME NEW n, NEW id
    PROVE  <<n, id>> # <<>> /\ <<n, id>>[1] = n /\ <<n, id>>[2] = id
OBVIOUS

(* The outputs of a covenant are those that name it. *)
Names(tx, o, id) == tx.outputs[o].binding # <<>> /\ tx.outputs[o].binding[2] = id

LEMMA OutputsAre ==
    ASSUME NEW tx, NEW id, NEW S \in SUBSET DOMAIN tx.outputs,
           \A o \in S : Names(tx, o, id), \A o \in DOMAIN tx.outputs \ S : ~Names(tx, o, id)
    PROVE  OutputsOf(tx, id) = S
BY DEF OutputsOf, Names

(* Funding in the last place, which belongs to no covenant. *)
LEMMA GenesisAccepted ==
    ASSUME NEW funding, NEW key, funding.script = Pays(key),
           NEW script, NEW change, NEW fee
    PROVE  ScriptsAccept(Build(<<funding>>, <<Plain(key)>>,
               <<Out(CellKas, script, <<1, CovenantId(funding.at, script)>>),
                 Out(change, funding.script, <<>>)>>, fee))
<1> DEFINE tx == Build(<<funding>>, <<Plain(key)>>,
               <<Out(CellKas, script, <<1, CovenantId(funding.at, script)>>),
                 Out(change, funding.script, <<>>)>>, fee)
<1>1. /\ DOMAIN tx.inputs = {1} /\ tx.inputs[1] = funding /\ tx.witness[1] = Plain(key)
      /\ DOMAIN tx.outputs = {1, 2}
      /\ tx.outputs[1].binding = <<1, CovenantId(funding.at, script)>>
      /\ tx.outputs[1].script = script
      /\ tx.outputs[2].binding = <<>>
  BY DEF Build, Out
<1> HIDE DEF tx
<1>2. Unlocks(tx, 1)
  BY <1>1, FundingUnlocks
<1>3. Bound(tx, 1)
  BY <1>1 DEF Bound
<1>4. Bound(tx, 2)
  BY <1>1 DEF Bound
<1>5. ScriptsAccept(tx)
  BY <1>1, <1>2, <1>3, <1>4 DEF ScriptsAccept
<1> QED BY <1>5 DEF tx

(* The whole supply from the key that made it to the controller's reserve. *)
LEMMA HandoffAccepted ==
    ASSUME NEW cell, NEW state, NEW token, cell.script = TokenScript(state),
           cell.covenant = token, token # NoCovenant,
           NEW signer, state.scheme = "p2pk", state.owner = <<"key", signer>>,
           NEW made, made.amount = state.amount, state.amount \in Nat,
           NEW funding, NEW key, funding.script = Pays(key), funding.covenant = NoCovenant,
           NEW change, NEW fee
    PROVE  ScriptsAccept(Build(<<cell, funding>>, <<Witness(cell.script, signer), Plain(key)>>,
               <<Out(CellKas, TokenScript(made), <<1, token>>),
                 Out(change, funding.script, <<>>)>>, fee))
<1> DEFINE tx == Build(<<cell, funding>>, <<Witness(cell.script, signer), Plain(key)>>,
               <<Out(CellKas, TokenScript(made), <<1, token>>),
                 Out(change, funding.script, <<>>)>>, fee)
<1>1. /\ DOMAIN tx.inputs = {1, 2} /\ tx.inputs[1] = cell /\ tx.inputs[2] = funding
      /\ tx.witness[1] = Witness(cell.script, signer) /\ tx.witness[2] = Plain(key)
      /\ DOMAIN tx.outputs = {1, 2}
      /\ tx.outputs[1].script = TokenScript(made) /\ tx.outputs[1].binding = <<1, token>>
      /\ tx.outputs[2].binding = <<>>
  BY DEF Build, Out
<1>2. Witness(cell.script, signer).reveals = cell.script
      /\ Witness(cell.script, signer).signer = signer
  BY DEF Witness
<1> HIDE DEF tx
<1>3. InputsOf(tx, token) = {1} /\ OutputsOf(tx, token) = {1}
  <2>1. InputsOf(tx, token) = {1}
    BY <1>1 DEF InputsOf
  <2>2. OutputsOf(tx, token) = {1}
    BY <1>1, Binding DEF OutputsOf
  <2> QED BY <2>1, <2>2
<1>4. TokenUnlocks(tx, 1)
  <2>1. Authorized(tx, 1, state)
    BY <1>1, <1>2 DEF Authorized
  <2> QED BY <1>1, <1>3, <2>1, TokenIntoOne
<1>5. Unlocks(tx, 1) /\ Unlocks(tx, 2)
  BY <1>1, <1>2, <1>4, TokenUnlocked, FundingUnlocks
<1>6. Bound(tx, 1) /\ Bound(tx, 2)
  BY <1>1 DEF Bound
<1>7. ScriptsAccept(tx)
  BY <1>1, <1>5, <1>6 DEF ScriptsAccept
<1> QED BY <1>7 DEF tx

(* A holder's cell, halved by the key that owns it. *)
LEMMA SplitAccepted ==
    ASSUME NEW cell, NEW state, NEW token, cell.script = TokenScript(state),
           cell.covenant = token, token # NoCovenant,
           NEW signer, state.scheme = "p2pk", state.owner = <<"key", signer>>,
           NEW first, NEW second, first.amount \in Nat, second.amount \in Nat,
           state.amount = first.amount + second.amount, state.amount \in Nat,
           NEW funding, NEW key, funding.script = Pays(key), funding.covenant = NoCovenant,
           NEW change, NEW fee
    PROVE  ScriptsAccept(Build(<<cell, funding>>,
               <<Witness(TokenScript(state), signer), Plain(key)>>,
               <<Out(CellKas, TokenScript(first), <<1, token>>),
                 Out(CellKas, TokenScript(second), <<1, token>>),
                 Out(change, funding.script, <<>>)>>, fee))
<1> DEFINE tx == Build(<<cell, funding>>,
               <<Witness(TokenScript(state), signer), Plain(key)>>,
               <<Out(CellKas, TokenScript(first), <<1, token>>),
                 Out(CellKas, TokenScript(second), <<1, token>>),
                 Out(change, funding.script, <<>>)>>, fee)
<1>1. /\ DOMAIN tx.inputs = {1, 2} /\ tx.inputs[1] = cell /\ tx.inputs[2] = funding
      /\ tx.witness[1] = Witness(TokenScript(state), signer) /\ tx.witness[2] = Plain(key)
      /\ DOMAIN tx.outputs = {1, 2, 3}
      /\ tx.outputs[1].script = TokenScript(first) /\ tx.outputs[1].binding = <<1, token>>
      /\ tx.outputs[2].script = TokenScript(second) /\ tx.outputs[2].binding = <<1, token>>
      /\ tx.outputs[3].binding = <<>>
  BY DEF Build, Out
<1>2. Witness(TokenScript(state), signer).reveals = TokenScript(state)
      /\ Witness(TokenScript(state), signer).signer = signer
  BY DEF Witness
<1> HIDE DEF tx
<1>3. InputsOf(tx, token) = {1} /\ OutputsOf(tx, token) = {1, 2}
  <2>1. InputsOf(tx, token) = {1}
    BY <1>1 DEF InputsOf
  <2>2. Names(tx, 1, token) /\ Names(tx, 2, token) /\ ~Names(tx, 3, token)
    BY <1>1, Binding DEF Names
  <2>3. OutputsOf(tx, token) = {1, 2}
    <3>1. /\ {1, 2} \in SUBSET DOMAIN tx.outputs
          /\ \A o \in {1, 2} : Names(tx, o, token)
          /\ \A o \in DOMAIN tx.outputs \ {1, 2} : ~Names(tx, o, token)
      BY <1>1, <2>2
    <3> QED BY <3>1, OutputsAre
  <2> QED BY <2>1, <2>3
<1>4. TokenUnlocks(tx, 1)
  <2>1. Authorized(tx, 1, state)
    BY <1>1, <1>2 DEF Authorized
  <2> QED BY <1>1, <1>3, <2>1, TokenIntoTwo
<1>5. Unlocks(tx, 1) /\ Unlocks(tx, 2)
  BY <1>1, <1>2, <1>4, TokenUnlocked, FundingUnlocks
<1>6. Bound(tx, 1) /\ Bound(tx, 2) /\ Bound(tx, 3)
  BY <1>1 DEF Bound
<1>7. ScriptsAccept(tx)
  BY <1>1, <1>5, <1>6 DEF ScriptsAccept
<1> QED BY <1>7 DEF tx

(* In a claim the reserve is the second input, and pays what it loses.     *)
LEMMA ClaimTokens ==
    ASSUME NEW tx, NEW token, token # NoCovenant, NEW reserve, NEW left, NEW paid,
           tx.inputs[2].script = TokenScript(reserve), tx.inputs[2].covenant = token,
           InputsOf(tx, token) = {2}, OutputsOf(tx, token) = {1, 2},
           Authorized(tx, 2, reserve), reserve.amount \in Nat,
           tx.outputs[1].script = TokenScript(left), left.amount \in Nat,
           tx.outputs[2].script = TokenScript(paid), paid.amount \in Nat,
           reserve.amount = left.amount + paid.amount
    PROVE  TokenUnlocks(tx, 2)
BY TokenIntoTwo

(* What a claim of n units leaves of the reserve. *)
Less(state, n) == [state EXCEPT !.amount = @ - n]

(* The claim a call builds. *)
ClaimTx(p, i, token, controller, a, b, reserve, left, funding, key, w, change, fee) ==
    Build(<<a, b, funding>>,
          <<w, Witness(TokenScript(reserve), Nobody), Plain(key)>>,
          <<Out(CellKas, TokenScript(left), <<2, token>>),
            Out(CellKas, TokenScript(RecipientState(p, i)), <<2, token>>),
            Out(CellKas, ControllerScript(token, {i}), <<1, controller>>),
            Out(change, funding.script, <<>>)>>, fee)

(* The claim of a fresh controller: token and controller name different    *)
(* covenants, so each finds the other's cells where the program looks.     *)
LEMMA ClaimAccepted ==
    ASSUME NEW p \in plan, NEW i \in DOMAIN p.holders, NEW token, NEW controller,
           token # NoCovenant, controller # NoCovenant, token # controller,
           NEW a, a.script = ControllerScript(token, {}), a.covenant = controller,
           a.kas = CellKas, CellKas \in Nat,
           NEW b, NEW reserve, b.script = TokenScript(reserve), b.covenant = token,
           reserve.scheme = "covenant", reserve.owner = controller, reserve.amount \in Nat,
           p.holders[i].amount \in Nat, p.holders[i].amount <= reserve.amount,
           NEW left, left = Less(reserve, p.holders[i].amount),
           left.amount = reserve.amount - p.holders[i].amount,
           NEW funding, NEW key, funding.script = Pays(key), funding.covenant = NoCovenant,
           NEW w, w.reveals = ControllerScript(token, {}), w.index = i,
           NEW change, NEW fee
    PROVE  ScriptsAccept(ClaimTx(p, i, token, controller, a, b, reserve, left,
                                 funding, key, w, change, fee))
<1> DEFINE paid == RecipientState(p, i)
           tx == Build(<<a, b, funding>>,
               <<w, Witness(TokenScript(reserve), Nobody), Plain(key)>>,
               <<Out(CellKas, TokenScript(left), <<2, token>>),
                 Out(CellKas, TokenScript(paid), <<2, token>>),
                 Out(CellKas, ControllerScript(token, {i}), <<1, controller>>),
                 Out(change, funding.script, <<>>)>>, fee)
<1>1. /\ DOMAIN tx.inputs = {1, 2, 3}
      /\ tx.inputs[1] = a /\ tx.inputs[2] = b /\ tx.inputs[3] = funding
      /\ tx.witness[1] = w /\ tx.witness[2] = Witness(TokenScript(reserve), Nobody)
      /\ tx.witness[3] = Plain(key)
  BY DEF Build
<1>2. /\ DOMAIN tx.outputs = {1, 2, 3, 4}
      /\ tx.outputs[1] = Out(CellKas, TokenScript(left), <<2, token>>)
      /\ tx.outputs[2] = Out(CellKas, TokenScript(paid), <<2, token>>)
      /\ tx.outputs[3] = Out(CellKas, ControllerScript(token, {i}), <<1, controller>>)
      /\ tx.outputs[4] = Out(change, funding.script, <<>>)
  BY DEF Build
<1> HIDE DEF tx, paid
<1>3. /\ tx.outputs[1].script = TokenScript(left) /\ tx.outputs[1].binding = <<2, token>>
      /\ tx.outputs[1].kas = CellKas
      /\ tx.outputs[2].script = TokenScript(paid) /\ tx.outputs[2].binding = <<2, token>>
      /\ tx.outputs[2].kas = CellKas
      /\ tx.outputs[3].script = ControllerScript(token, {i})
      /\ tx.outputs[3].binding = <<1, controller>> /\ tx.outputs[3].kas = CellKas
      /\ tx.outputs[4].binding = <<>>
  BY <1>2 DEF Out
<1>4. Witness(TokenScript(reserve), Nobody).reveals = TokenScript(reserve)
  BY DEF Witness
<1>5. paid = p.holders[i]
  BY DEF RecipientState, paid
<1>6. /\ InputsOf(tx, token) = {2} /\ InputsOf(tx, controller) = {1}
      /\ OutputsOf(tx, token) = {1, 2} /\ OutputsOf(tx, controller) = {3}
  <2>1. InputsOf(tx, token) = {2}
    BY <1>1 DEF InputsOf
  <2>2. InputsOf(tx, controller) = {1}
    BY <1>1 DEF InputsOf
  <2>3. OutputsOf(tx, token) = {1, 2}
    <3>1. /\ Names(tx, 1, token) /\ Names(tx, 2, token)
          /\ ~Names(tx, 3, token) /\ ~Names(tx, 4, token)
      BY <1>3, Binding DEF Names
    <3> DEFINE S == {1, 2}
    <3>2. /\ S \in SUBSET DOMAIN tx.outputs
          /\ \A o \in S : Names(tx, o, token)
          /\ \A o \in DOMAIN tx.outputs \ S : ~Names(tx, o, token)
      BY <1>2, <3>1
    <3> HIDE DEF S
    <3>3. OutputsOf(tx, token) = S
      BY <3>2, OutputsAre
    <3> QED BY <3>3 DEF S
  <2>4. OutputsOf(tx, controller) = {3}
    <3>1. /\ ~Names(tx, 1, controller) /\ ~Names(tx, 2, controller)
          /\ Names(tx, 3, controller) /\ ~Names(tx, 4, controller)
      BY <1>3, Binding DEF Names
    <3>2. /\ {3} \in SUBSET DOMAIN tx.outputs
          /\ \A o \in {3} : Names(tx, o, controller)
          /\ \A o \in DOMAIN tx.outputs \ {3} : ~Names(tx, o, controller)
      BY <1>2, <3>1
    <3> QED BY <3>2, OutputsAre
  <2> QED BY <2>1, <2>2, <2>3, <2>4
<1>7. TokenUnlocks(tx, 2)
  <2>1. Authorized(tx, 2, reserve)
    BY <1>6 DEF Authorized
  <2>2. /\ left.amount \in Nat /\ paid.amount \in Nat
        /\ reserve.amount = left.amount + paid.amount
    BY <1>5
  <2>3. /\ tx.inputs[2].script = TokenScript(reserve) /\ tx.inputs[2].covenant = token
        /\ tx.outputs[1].script = TokenScript(left) /\ tx.outputs[2].script = TokenScript(paid)
        /\ OutputsOf(tx, token) = {1, 2} /\ InputsOf(tx, token) = {2}
    BY <1>1, <1>3, <1>6
  <2> QED BY <2>1, <2>2, <2>3, ClaimTokens
<1>8. ControllerUnlocks(tx, 1)
  <2>1. /\ a.script[2] = token /\ a.script[3] = {} /\ tx.witness[1].index = i
        /\ tx.outputs[2].script[2] = paid /\ {} \cup {i} = {i}
        /\ tx.inputs[2].script[2] = reserve
    BY <1>1, <1>3 DEF ControllerScript, TokenScript
  <2>2. tx.outputs[1].script = TokenScript([reserve EXCEPT !.amount = @ - paid.amount])
    BY <1>3, <1>5 DEF Less
  <2>3. /\ 2 \in DOMAIN tx.inputs /\ InputsOf(tx, token) = {2}
        /\ reserve.owner = controller /\ reserve.amount >= paid.amount
    BY <1>1, <1>5, <1>6
  <2>4. \E q \in plan : paid = q.holders[i]
    BY <1>5
  <2>5. a.kas = tx.outputs[3].kas /\ tx.outputs[2].kas >= CellKas /\ tx.outputs[1].kas = CellKas
    BY <1>3
  <2> QED BY <1>1, <1>3, <1>6, <2>1, <2>2, <2>3, <2>4, <2>5 DEF ControllerUnlocks
<1>9. Unlocks(tx, 1) /\ Unlocks(tx, 2) /\ Unlocks(tx, 3)
  BY <1>1, <1>4, <1>7, <1>8, ControllerUnlocked, TokenUnlocked, FundingUnlocks
<1>10. Bound(tx, 1) /\ Bound(tx, 2) /\ Bound(tx, 3) /\ Bound(tx, 4)
  BY <1>1, <1>3 DEF Bound
<1>11. ScriptsAccept(tx)
  BY <1>1, <1>2, <1>9, <1>10 DEF ScriptsAccept
<1> QED BY <1>11 DEF ClaimTx, tx, paid

-------------------------------------------------------------------------------
(* The invariant. *)

Fields == {"at", "kas", "script", "confirmed", "covenant", "coinbase"}

IdOK(id) == id # NoCovenant => id[1] = "id"

(* A cell has its fields, and if one of ours or a stranger's transaction   *)
(* made it, it is one that has been made. *)
CellOK(c) ==
    /\ DOMAIN c = Fields /\ c.kas \in Nat
    /\ IdOK(c.covenant)
    /\ c.at[1] = "tx" => c.at[2] \in 1..landed
    /\ c.at[1] = "stranger" => c.at[2] \in 0..strangers-1

PlanOK(p) ==
    /\ ValidKey(p.deploy) /\ p.holders \in Snapshots
    /\ \A i \in DOMAIN p.holders : \A k \in FixtureKeys : p.holders[i].owner # <<"key", k>>

OutputOK(out) ==
    /\ out.kas \in Nat
    /\ \A k \in FixtureKeys :
        /\ out.script # Pays(k)
        /\ out.script[1] = "token" => out.script[2].owner # <<"key", k>>
    /\ out.binding # <<>> => out.binding[2][1] = "id"

(* What it spends is accepted, and stays known to the node. *)
TxOK(tx) ==
    /\ \A i \in DOMAIN tx.inputs : tx.inputs[i] \in Held /\ tx.inputs[i].confirmed
    /\ \A o \in DOMAIN tx.outputs : OutputOK(tx.outputs[o])

FeeOK(tx) == KasIn(tx) = KasOut(tx) + tx.fee /\ tx.fee \in 1..MaxFee

(* What a call may build. *)
Good(tx) == TxOK(tx) /\ FeeOK(tx) /\ ScriptsAccept(tx)

(* What a transaction in flight makes is not accepted yet, and what it     *)
(* spends is kept until it is. *)
FlightOK(tx) ==
    /\ tx.n \in 1..landed /\ tx.spends \subseteq gone
    /\ \A c \in Held : (c.at[1] = "tx" /\ c.at[2] = tx.n) => ~c.confirmed

IInv ==
    /\ PlanInv
    /\ \A c \in Held : CellOK(c)
    /\ \A p \in plan : PlanOK(p)
    /\ \A tx \in draft : TxOK(tx) /\ FeeOK(tx)
    /\ \A tx \in flight : FlightOK(tx)

Bounded == landed \in Nat /\ strangers \in Nat /\ MaxLanded \in Nat /\ MaxStrangers \in Nat

(* The counters stay numbers within their bounds. *)
LEMMA BoundedHolds == ASSUME IInv PROVE Bounded
BY PlanAssumption DEF IInv, PlanInv, TypeOK, Bounded

LEMMA AtMostOne ==
    /\ Cardinality({}) <= 1
    /\ \A x : Cardinality({x}) <= 1
<1>1. Cardinality({}) = 0
  BY FS_EmptySet
<1>2. \A x : Cardinality({x}) = 1
  BY FS_Singleton
<1> QED BY <1>1, <1>2

LEMMA CellKasNat == CellKas \in Nat /\ CellKas > 0
BY PlanAssumption

-------------------------------------------------------------------------------
(* The invariant holds at first, and New, the calls and refusals keep it.  *)
LEMMA InitIInv == Init => IInv
<1> SUFFICES ASSUME Init PROVE IInv
  OBVIOUS
<1>1. PlanInv
  BY AtMostOne, PlanAssumption DEF Init, PlanInv, TypeOK, ChecksAreEnough
<1>2. ASSUME NEW c \in Held PROVE CellOK(c)
  <2>1. c \in Deposits
    BY DEF Init, Held
  <2> QED BY <2>1, DataAssumption, PlanAssumption DEF CellOK, IdOK, NoCovenant, Fields
<1> QED BY <1>1, <1>2 DEF Init, IInv

LEMMA NewIInv ==
    ASSUME IInv, NEW network, NEW deploy, NEW holders \in Snapshots,
           New(network, deploy, holders)
    PROVE  IInv'
<1> DEFINE p == [holders |-> holders, deploy |-> deploy]
<1>1. /\ plan' = {p}
      /\ UNCHANGED <<cells, gone, flight, draft, outcome, landed, strangers>>
      /\ PlanOK(p)
  BY DEF New, PlanOK
<1>2. PlanInv'
  <2>1. Cardinality(plan') <= 1
    BY <1>1, AtMostOne
  <2> QED BY <1>1, <2>1 DEF IInv, PlanInv, TypeOK, ChecksAreEnough
<1> HIDE DEF p
<1> QED BY <1>1, <1>2 DEF IInv, Held, CellOK, PlanOK, TxOK, FlightOK

(* A call leaves at most the transaction it built, and none that fails.    *)
LEMMA ReadyIInv ==
    ASSUME IInv, NEW tx, Good(tx), Ready(tx)
    PROVE  IInv'
<1>1. /\ draft' = {tx} /\ outcome' = "ready"
      /\ UNCHANGED <<plan, cells, gone, flight, landed, strangers>>
  BY DEF Ready, Good
<1>2. PlanInv'
  <2>1. Cardinality(draft') <= 1
    BY <1>1, AtMostOne
  <2> QED BY <1>1, <2>1 DEF IInv, PlanInv, TypeOK, ChecksAreEnough
<1>3. TxOK(tx)' /\ FeeOK(tx)
  BY <1>1 DEF Good, TxOK, Held
<1> QED BY <1>1, <1>2, <1>3 DEF IInv, Held, CellOK, FlightOK

LEMMA RefuseIInv == ASSUME IInv, Refuse PROVE IInv'
<1>1. /\ draft' = {} /\ outcome' = "refused"
      /\ UNCHANGED <<plan, cells, gone, flight, landed, strangers>>
  BY DEF Refuse
<1>2. PlanInv'
  BY <1>1, AtMostOne DEF IInv, PlanInv, TypeOK, ChecksAreEnough
<1> QED BY <1>1, <1>2 DEF IInv, Held, CellOK, FlightOK

(* Funding that passes is accepted, pays a key of the caller's and is in no*)
(* covenant; what it pays back is what the fee and the cells leave of it.  *)
LEMMA FundedOK ==
    ASSUME IInv, NEW funding \in Held, NEW key, NEW extra \in Nat, NEW fee \in Fees,
           NEW change, Funded(funding, key, extra, fee, change)
    PROVE  /\ funding.confirmed /\ funding.kas \in Nat
           /\ funding.script = Pays(key) /\ funding.covenant = NoCovenant
           /\ change \in Nat /\ fee \in 1..MaxFee
           /\ funding.kas = change + extra + fee
           /\ OutputOK(Out(change, funding.script, <<>>))
           /\ Out(change, funding.script, <<>>).kas = change
<1>1. /\ funding.confirmed /\ funding.script = Pays(key) /\ funding.covenant = NoCovenant
      /\ key \notin FixtureKeys
  BY DEF Funded, ValidFunding, ValidKey
<1>2. funding.kas \in Nat /\ fee \in Nat
  BY PlanAssumption DEF IInv, CellOK
<1>3. fee \in 1..MaxFee /\ change = funding.kas - extra - fee /\ change >= CellKas
  BY DEF Funded, Change
<1>4. change \in Nat /\ funding.kas = change + extra + fee
  BY <1>2, <1>3, CellKasNat
<1>5. Out(change, funding.script, <<>>).kas = change
  BY DEF Out
<1>6. OutputOK(Out(change, funding.script, <<>>))
  BY <1>1, <1>4 DEF OutputOK, Out, Pays
<1> QED BY <1>1, <1>2, <1>3, <1>4, <1>5, <1>6

(* The ids a caller holds are covenant ids, no keys, and of one kind. *)
LEMMA IdsOK ==
    ASSUME IInv
    PROVE  /\ \A id \in TokenIds \cup ControllerIds : id # NoCovenant /\ id[1] = "id"
           /\ \A id \in TokenIds : id[3][1] = "token"
           /\ \A id \in ControllerIds : id[3][1] = "controller"
BY DEF IInv, CellOK, IdOK, TokenIds, ControllerIds, HeldIds

(* A cell that passes is worth what every covenant cell is.                *)
LEMMA CellFacts ==
    ASSUME NEW cell, NEW script, NEW id, ValidCell(cell, script, id)
    PROVE  /\ cell.confirmed /\ cell.script = script /\ cell.covenant = id
           /\ cell.kas = CellKas
BY DEF ValidCell

(* The holders of the plan, and their total. *)
LEMMA HoldersOK ==
    ASSUME IInv, NEW p \in plan
    PROVE  /\ TokenSupply(p) \in Nat
           /\ \A i \in DOMAIN p.holders :
                /\ DOMAIN p.holders[i] = {"amount", "owner", "scheme"}
                /\ p.holders[i].amount \in Nat /\ p.holders[i].amount <= TokenSupply(p)
                /\ \A k \in FixtureKeys : p.holders[i].owner # <<"key", k>>
<1>1. p.holders \in Snapshots
  BY DEF IInv, PlanOK
<1>2. /\ Len(p.holders) \in Nat /\ DOMAIN p.holders = 1..Len(p.holders)
      /\ \A i \in DOMAIN p.holders :
           DOMAIN p.holders[i] = {"amount", "owner", "scheme"} /\ p.holders[i].amount \in Nat
  BY <1>1, DataAssumption
<1>3. IsFiniteSet(DOMAIN p.holders)
  <2>1. 1 \in Int /\ Len(p.holders) \in Int
    BY <1>2
  <2>2. IsFiniteSet(1..Len(p.holders))
    BY <2>1, FS_Interval
  <2> QED BY <1>2, <2>2
<1>4. /\ TokenSupply(p) \in Nat
      /\ \A i \in DOMAIN p.holders : p.holders[i].amount <= TokenSupply(p)
  BY <1>2, <1>3, SupplyIsWeight
<1> QED BY <1>2, <1>4 DEF IInv, PlanOK

(* The calls, each of which leaves an accepted, exactly paid transaction.  *)
LEMMA GenesisIInv ==
    ASSUME IInv, NEW script, script[1] \in {"token", "controller"},
           script[1] = "token" => \A k \in FixtureKeys : script[2].owner # <<"key", k>>,
           Genesis(script)
    PROVE  IInv'
<1>1. PICK funding \in Held, key \in Keys, fee \in Fees :
        \E change \in Change(funding.kas, CellKas, fee) :
            /\ Funded(funding, key, CellKas, fee, change)
            /\ Ready(Build(<<funding>>, <<Plain(key)>>,
                  <<Out(CellKas, script, <<1, CovenantId(funding.at, script)>>),
                    Out(change, funding.script, <<>>)>>, fee))
  BY DEF Genesis
<1>2. PICK change :
        /\ Funded(funding, key, CellKas, fee, change)
        /\ Ready(Build(<<funding>>, <<Plain(key)>>,
              <<Out(CellKas, script, <<1, CovenantId(funding.at, script)>>),
                Out(change, funding.script, <<>>)>>, fee))
  BY <1>1
<1> DEFINE made == Out(CellKas, script, <<1, CovenantId(funding.at, script)>>)
           back == Out(change, funding.script, <<>>)
           tx == Build(<<funding>>, <<Plain(key)>>, <<made, back>>, fee)
<1>3. /\ funding.confirmed /\ funding.kas \in Nat /\ funding.script = Pays(key)
      /\ change \in Nat /\ fee \in 1..MaxFee /\ funding.kas = change + CellKas + fee
      /\ OutputOK(back) /\ back.kas = change
  BY <1>2, CellKasNat, FundedOK
<1>4. OutputOK(made) /\ made.kas = CellKas
  BY CellKasNat DEF OutputOK, Out, Pays, CovenantId
<1>5. ScriptsAccept(tx)
  BY <1>3, GenesisAccepted
<1> HIDE DEF made, back
<1>6. TxOK(tx)
  BY <1>3, <1>4 DEF TxOK, Build
<1>7. FeeOK(tx)
  <2>1. KasIn(tx) = funding.kas
    BY <1>3, KasInOne
  <2>2. KasOut(tx) = CellKas + change
    BY <1>3, <1>4, CellKasNat, KasOutTwo
  <2>3. tx.fee = fee
    BY DEF Build
  <2> HIDE DEF tx
  <2> QED BY <1>3, <2>1, <2>2, <2>3, CellKasNat DEF FeeOK
<1>8. Good(tx)
  BY <1>5, <1>6, <1>7 DEF Good
<1>9. Ready(tx)
  BY <1>2 DEF made, back
<1> HIDE DEF tx
<1> QED BY <1>8, <1>9, ReadyIInv

LEMMA TokenGenesisIInv == ASSUME IInv, PrepareTokenGenesis PROVE IInv'
<1>1. PICK p \in plan : Genesis(TokenScript(GenesisState(p)))
  BY DEF PrepareTokenGenesis
<1>2. GenesisState(p).owner = <<"key", p.deploy>> /\ p.deploy \notin FixtureKeys
  BY DEF GenesisState, Token, IInv, PlanOK, ValidKey
<1>3. TokenScript(GenesisState(p))[1] = "token"
      /\ TokenScript(GenesisState(p))[2] = GenesisState(p)
  BY DEF TokenScript
<1> QED BY <1>1, <1>2, <1>3, GenesisIInv

LEMMA ControllerGenesisIInv == ASSUME IInv, PrepareControllerGenesis PROVE IInv'
<1>1. PICK token \in TokenIds : Genesis(ControllerScript(token, {}))
  BY DEF PrepareControllerGenesis
<1>2. ControllerScript(token, {})[1] = "controller"
  BY DEF ControllerScript
<1> QED BY <1>1, <1>2, GenesisIInv

(* Tokens at a program's id, of an owner nobody can derive. *)
LEMMA TokenOutputOK ==
    ASSUME IInv, NEW token \in TokenIds, NEW n, NEW state,
           \A k \in FixtureKeys : state.owner # <<"key", k>>
    PROVE  /\ OutputOK(Out(CellKas, TokenScript(state), <<n, token>>))
           /\ Out(CellKas, TokenScript(state), <<n, token>>).kas = CellKas
BY IdsOK, CellKasNat DEF OutputOK, Out, TokenScript, Pays

LEMMA ReserveOwner ==
    ASSUME IInv, NEW p, NEW controller \in ControllerIds, NEW amount, NEW other
    PROVE  \A k \in FixtureKeys :
             /\ ReserveState(p, controller, amount).owner # <<"key", k>>
             /\ [ReserveState(p, controller, amount) EXCEPT !.amount = other].owner
                  # <<"key", k>>
BY IdsOK DEF ReserveState, Token

(* The reserve a controller holds. *)
LEMMA ReserveFacts ==
    ASSUME NEW p, NEW controller, NEW amount
    PROVE  /\ ReserveState(p, controller, amount).amount = amount
           /\ ReserveState(p, controller, amount).owner = controller
           /\ ReserveState(p, controller, amount).scheme = "covenant"
BY DEF ReserveState, Token

(* The state the plan's first transaction mints. *)
LEMMA GenesisFacts ==
    ASSUME NEW p
    PROVE  /\ GenesisState(p).amount = TokenSupply(p)
           /\ GenesisState(p).owner = <<"key", p.deploy>>
           /\ GenesisState(p).scheme = "p2pk"
BY DEF GenesisState, Token

LEMMA HandoffIInv == ASSUME IInv, PrepareReserveHandoff PROVE IInv'
<1>1. PICK p \in plan, token \in TokenIds, controller \in ControllerIds,
           cell \in Held, deploy \in Keys :
        /\ deploy = p.deploy
        /\ ValidCell(cell, TokenScript(GenesisState(p)), token)
        /\ \E funding \in Held, key \in Keys, fee \in Fees :
            \E change \in Change(funding.kas, HandoffExtra, fee) :
                /\ Funded(funding, key, HandoffExtra, fee, change)
                /\ Ready(Build(<<cell, funding>>,
                      <<Witness(cell.script, deploy), Plain(key)>>,
                      <<Out(CellKas, TokenScript(ReserveState(p, controller, TokenSupply(p))),
                            <<1, token>>),
                        Out(change, funding.script, <<>>)>>, fee))
  BY DEF PrepareReserveHandoff
<1> DEFINE reserve == ReserveState(p, controller, TokenSupply(p))
           made == Out(CellKas, TokenScript(reserve), <<1, token>>)
<1>2. PICK funding, key, fee, change :
        /\ funding \in Held /\ key \in Keys /\ fee \in Fees
        /\ Funded(funding, key, HandoffExtra, fee, change)
        /\ Ready(Build(<<cell, funding>>, <<Witness(cell.script, deploy), Plain(key)>>,
                       <<made, Out(change, funding.script, <<>>)>>, fee))
  BY <1>1
<1> DEFINE back == Out(change, funding.script, <<>>)
           tx == Build(<<cell, funding>>, <<Witness(cell.script, deploy), Plain(key)>>,
                       <<made, back>>, fee)
<1>3. /\ funding.confirmed /\ funding.kas \in Nat
      /\ funding.script = Pays(key) /\ funding.covenant = NoCovenant
      /\ change \in Nat /\ fee \in 1..MaxFee /\ funding.kas = change + fee
      /\ OutputOK(back) /\ back.kas = change
  <2>1. HandoffExtra \in Nat /\ HandoffExtra = 0
    BY DEF HandoffExtra
  <2>2. /\ funding.confirmed /\ funding.kas \in Nat
        /\ funding.script = Pays(key) /\ funding.covenant = NoCovenant
        /\ change \in Nat /\ fee \in 1..MaxFee /\ funding.kas = change + HandoffExtra + fee
        /\ OutputOK(back) /\ back.kas = change
    BY <1>2, <2>1, FundedOK
  <2> HIDE DEF back
  <2> QED BY <2>1, <2>2
<1>4. OutputOK(made) /\ made.kas = CellKas
  BY ReserveOwner, TokenOutputOK
<1>5. /\ cell.confirmed /\ cell.script = TokenScript(GenesisState(p))
      /\ cell.covenant = token /\ cell.kas = CellKas
  BY <1>1, CellFacts
<1>6. ScriptsAccept(tx)
  <2>1. /\ GenesisState(p).amount = TokenSupply(p) /\ TokenSupply(p) \in Nat
        /\ reserve.amount = TokenSupply(p)
        /\ GenesisState(p).scheme = "p2pk" /\ GenesisState(p).owner = <<"key", deploy>>
        /\ token # NoCovenant
    BY <1>1, HoldersOK, ReserveFacts, GenesisFacts, IdsOK
  <2> DEFINE genesis == GenesisState(p)
  <2>2. /\ cell.script = TokenScript(genesis) /\ cell.covenant = token
        /\ token # NoCovenant /\ genesis.scheme = "p2pk" /\ genesis.owner = <<"key", deploy>>
        /\ reserve.amount = genesis.amount /\ genesis.amount \in Nat
        /\ funding.script = Pays(key) /\ funding.covenant = NoCovenant
    BY <1>3, <1>5, <2>1
  <2> HIDE DEF reserve, genesis
  <2> QED BY <2>2, HandoffAccepted
<1> HIDE DEF made, back
<1>7. TxOK(tx)
  BY <1>2, <1>3, <1>4, <1>5 DEF TxOK, Build
<1>8. FeeOK(tx)
  <2>1. KasIn(tx) = CellKas + funding.kas
    BY <1>3, <1>5, CellKasNat, KasInTwo
  <2>2. KasOut(tx) = CellKas + change
    BY <1>3, <1>4, CellKasNat, KasOutTwo
  <2>3. tx.fee = fee
    BY DEF Build
  <2> HIDE DEF tx
  <2> QED BY <1>3, <2>1, <2>2, <2>3, CellKasNat DEF FeeOK
<1>9. Good(tx)
  BY <1>6, <1>7, <1>8 DEF Good
<1>10. Ready(tx)
  BY <1>2 DEF back
<1> HIDE DEF tx
<1> QED BY <1>9, <1>10, ReadyIInv


LEMMA ClaimIInv == ASSUME IInv, PrepareClaim PROVE IInv'
<1>1. PICK p \in plan, token \in TokenIds, controller \in ControllerIds,
           controllerCell \in Held :
        LET program == ControllerScript(token, {})
            reserve == ReserveState(p, controller, TokenSupply(p))
            witness(i) == [Witness(program, Nobody) EXCEPT !.index = i]
        IN
        /\ ValidCell(controllerCell, program, controller)
        /\ \E reserveCell \in Held :
            /\ ValidCell(reserveCell, TokenScript(reserve), token)
            /\ \E funding \in Held, key \in Keys, fee \in Fees, i \in DOMAIN p.holders :
               LET left == [reserve EXCEPT !.amount = @ - p.holders[i].amount] IN
               \E change \in Change(funding.kas, CellKas, fee) :
                /\ Funded(funding, key, CellKas, fee, change)
                /\ Ready(Build(<<controllerCell, reserveCell, funding>>,
                      <<witness(i), Witness(TokenScript(reserve), Nobody), Plain(key)>>,
                      <<Out(CellKas, TokenScript(left), <<2, token>>),
                        Out(CellKas, TokenScript(RecipientState(p, i)), <<2, token>>),
                        Out(CellKas, ControllerScript(token, {i}), <<1, controller>>),
                        Out(change, funding.script, <<>>)>>, fee))
  BY DEF PrepareClaim
<1> DEFINE program == ControllerScript(token, {})
           reserve == ReserveState(p, controller, TokenSupply(p))
           witness(i) == [Witness(program, Nobody) EXCEPT !.index = i]
           left(i) == Less(reserve, p.holders[i].amount)
           made(i, change, script) ==
               <<Out(CellKas, TokenScript(left(i)), <<2, token>>),
                 Out(CellKas, TokenScript(RecipientState(p, i)), <<2, token>>),
                 Out(CellKas, ControllerScript(token, {i}), <<1, controller>>),
                 Out(change, script, <<>>)>>
<1>2. PICK reserveCell, funding, key, fee, i, change :
        /\ reserveCell \in Held /\ funding \in Held /\ key \in Keys /\ fee \in Fees
        /\ i \in DOMAIN p.holders
        /\ ValidCell(reserveCell, TokenScript(reserve), token)
        /\ Funded(funding, key, CellKas, fee, change)
        /\ Ready(Build(<<controllerCell, reserveCell, funding>>,
                       <<witness(i), Witness(TokenScript(reserve), Nobody), Plain(key)>>,
                       made(i, change, funding.script), fee))
  BY <1>1 DEF Less
<1> DEFINE w == witness(i)
           rest == left(i)
           o1 == Out(CellKas, TokenScript(rest), <<2, token>>)
           o2 == Out(CellKas, TokenScript(RecipientState(p, i)), <<2, token>>)
           o3 == Out(CellKas, ControllerScript(token, {i}), <<1, controller>>)
           o4 == Out(change, funding.script, <<>>)
           tx == ClaimTx(p, i, token, controller, controllerCell, reserveCell, reserve, rest,
                         funding, key, w, change, fee)
<1>3. /\ funding.confirmed /\ funding.kas \in Nat
      /\ funding.script = Pays(key) /\ funding.covenant = NoCovenant
      /\ change \in Nat /\ fee \in 1..MaxFee /\ funding.kas = change + CellKas + fee
      /\ OutputOK(o4) /\ o4.kas = change
  <2>1. funding \in Held /\ fee \in Fees /\ Funded(funding, key, CellKas, fee, change)
    BY <1>2
  <2> QED BY <2>1, CellKasNat, FundedOK
<1>4. /\ controllerCell.confirmed /\ controllerCell.script = program
      /\ controllerCell.covenant = controller /\ controllerCell.kas = CellKas
      /\ reserveCell.confirmed /\ reserveCell.script = TokenScript(reserve)
      /\ reserveCell.covenant = token /\ reserveCell.kas = CellKas
  BY <1>1, <1>2, CellFacts
<1>5. /\ reserve.amount = TokenSupply(p) /\ reserve.owner = controller
      /\ reserve.scheme = "covenant"
  BY ReserveFacts
<1>6. /\ TokenSupply(p) \in Nat /\ p.holders[i].amount \in Nat
      /\ p.holders[i].amount <= TokenSupply(p)
      /\ \A k \in FixtureKeys : RecipientState(p, i).owner # <<"key", k>>
  BY <1>2, HoldersOK DEF RecipientState
<1>7. /\ rest.amount = reserve.amount - p.holders[i].amount
      /\ \A k \in FixtureKeys : rest.owner # <<"key", k>>
  <2>1. \A k \in FixtureKeys : rest.owner # <<"key", k>>
    BY ReserveOwner DEF Less
  <2>2. rest.amount = reserve.amount - p.holders[i].amount
    BY DEF Less, ReserveState, Token
  <2> QED BY <2>1, <2>2
<1>8. /\ token # NoCovenant /\ controller # NoCovenant /\ token # controller
      /\ controller[1] = "id"
  BY IdsOK
<1>9. w.reveals = program /\ w.index = i
  BY DEF Witness
<1>10. OutputOK(o1) /\ o1.kas = CellKas
  <2> HIDE DEF rest
  <2> QED BY <1>7, TokenOutputOK
<1>11. OutputOK(o2) /\ o2.kas = CellKas
  BY <1>6, TokenOutputOK
<1>12. OutputOK(o3) /\ o3.kas = CellKas
  BY <1>8, CellKasNat DEF OutputOK, Out, ControllerScript, Pays
<1>13. ScriptsAccept(tx)
  <2>1. /\ i \in DOMAIN p.holders /\ controllerCell.script = ControllerScript(token, {})
        /\ w.reveals = ControllerScript(token, {}) /\ w.index = i
        /\ reserve.amount \in Nat /\ p.holders[i].amount <= reserve.amount
        /\ rest = Less(reserve, p.holders[i].amount)
    BY <1>2, <1>4, <1>5, <1>6, <1>9
  <2>2. /\ token # NoCovenant /\ controller # NoCovenant /\ token # controller
        /\ controllerCell.covenant = controller /\ controllerCell.kas = CellKas
        /\ reserveCell.script = TokenScript(reserve) /\ reserveCell.covenant = token
        /\ reserve.scheme = "covenant" /\ reserve.owner = controller
        /\ p.holders[i].amount \in Nat /\ rest.amount = reserve.amount - p.holders[i].amount
        /\ funding.script = Pays(key) /\ funding.covenant = NoCovenant /\ CellKas \in Nat
    BY <1>3, <1>4, <1>5, <1>6, <1>7, <1>8, CellKasNat
  <2> HIDE DEF reserve, rest, w, program
  <2> QED BY <2>1, <2>2, ClaimAccepted
<1>14. Ready(tx)
  BY <1>2 DEF ClaimTx
<1>15. tx = Build(<<controllerCell, reserveCell, funding>>,
                 <<w, Witness(TokenScript(reserve), Nobody), Plain(key)>>,
                 <<o1, o2, o3, o4>>, fee)
  BY DEF ClaimTx
<1> HIDE DEF o1, o2, o3, o4, w, rest, tx
<1>16. TxOK(tx)
  BY <1>2, <1>3, <1>4, <1>10, <1>11, <1>12, <1>15 DEF TxOK, Build
<1>17. FeeOK(tx)
  <2>1. KasIn(tx) = CellKas + CellKas + funding.kas
    BY <1>3, <1>4, <1>15, CellKasNat, KasInThree
  <2>2. KasOut(tx) = CellKas + CellKas + CellKas + change
    BY <1>3, <1>10, <1>11, <1>12, <1>15, CellKasNat, KasOutFour
  <2>3. tx.fee = fee
    BY <1>15 DEF Build
  <2> QED BY <1>3, <2>1, <2>2, <2>3, CellKasNat DEF FeeOK
<1>18. Good(tx)
  BY <1>13, <1>16, <1>17 DEF Good
<1> QED BY <1>14, <1>18, ReadyIInv

(* The holder's own state, and what the two halves of it are. *)
LEMMA Halves ==
    ASSUME NEW h, DOMAIN h = {"amount", "owner", "scheme"}, h.amount \in Nat, NEW owner
    PROVE  LET first == [h EXCEPT !.amount = @ \div 2]
               second == [h EXCEPT !.amount = @ - first.amount, !.owner = owner]
           IN  /\ first.amount \in Nat /\ second.amount \in Nat
               /\ h.amount = first.amount + second.amount
               /\ first.owner = h.owner /\ second.owner = owner
<1> DEFINE first == [h EXCEPT !.amount = @ \div 2]
           second == [h EXCEPT !.amount = @ - first.amount, !.owner = owner]
<1>1. first.amount = h.amount \div 2 /\ first.owner = h.owner
  OBVIOUS
<1>2. second.amount = h.amount - first.amount /\ second.owner = owner
  OBVIOUS
<1>3. h.amount \div 2 \in Nat /\ h.amount \div 2 <= h.amount
  OBVIOUS
<1> HIDE DEF first, second
<1>4. \A m, n \in Nat : n <= m => m - n \in Nat /\ m = n + (m - n)
  OBVIOUS
<1>5. first.amount \in Nat /\ second.amount \in Nat /\ h.amount = first.amount + second.amount
  BY <1>1, <1>2, <1>3, <1>4
<1> QED BY <1>1, <1>2, <1>5 DEF first, second

LEMMA SplitIInv == ASSUME IInv, PrepareRecipientSplit PROVE IInv'
<1> DEFINE First(h) == [h EXCEPT !.amount = @ \div 2]
           Second(h, key) == [h EXCEPT !.amount = @ - First(h).amount,
                                       !.owner = <<"key", key>>]
<1>0. PICK p \in plan, token \in TokenIds, cell \in Held, holderKey \in Keys,
           destination \in Keys : \E i \in DOMAIN p.holders :
        LET h == RecipientState(p, i)
            first == [h EXCEPT !.amount = @ \div 2]
            second == [h EXCEPT !.amount = @ - first.amount,
                                !.owner = <<"key", destination>>]
        IN
        /\ h.scheme = "p2pk"
        /\ ValidKey(holderKey) /\ h.owner = <<"key", holderKey>>
        /\ ValidKey(destination)
        /\ h.amount >= 2
        /\ ValidCell(cell, TokenScript(h), token)
        /\ \E funding \in Held, key \in Keys, fee \in Fees :
            \E change \in Change(funding.kas, CellKas, fee) :
                /\ Funded(funding, key, CellKas, fee, change)
                /\ Ready(Build(<<cell, funding>>,
                      <<Witness(TokenScript(h), holderKey), Plain(key)>>,
                      <<Out(CellKas, TokenScript(first), <<1, token>>),
                        Out(CellKas, TokenScript(second), <<1, token>>),
                        Out(change, funding.script, <<>>)>>, fee))
  BY DEF PrepareRecipientSplit
<1>1. PICK i \in DOMAIN p.holders :
        LET h == RecipientState(p, i) IN
        /\ h.scheme = "p2pk" /\ h.owner = <<"key", holderKey>>
        /\ ValidKey(destination)
        /\ ValidCell(cell, TokenScript(h), token)
        /\ \E funding \in Held, key \in Keys, fee \in Fees :
            \E change \in Change(funding.kas, CellKas, fee) :
                /\ Funded(funding, key, CellKas, fee, change)
                /\ Ready(Build(<<cell, funding>>,
                      <<Witness(TokenScript(h), holderKey), Plain(key)>>,
                      <<Out(CellKas, TokenScript(First(h)), <<1, token>>),
                        Out(CellKas, TokenScript(Second(h, destination)), <<1, token>>),
                        Out(change, funding.script, <<>>)>>, fee))
  BY <1>0
<1> DEFINE h == RecipientState(p, i)
<1>2. PICK funding, key, fee, change :
        /\ funding \in Held /\ key \in Keys /\ fee \in Fees
        /\ Funded(funding, key, CellKas, fee, change)
        /\ Ready(Build(<<cell, funding>>,
              <<Witness(TokenScript(h), holderKey), Plain(key)>>,
              <<Out(CellKas, TokenScript(First(h)), <<1, token>>),
                Out(CellKas, TokenScript(Second(h, destination)), <<1, token>>),
                Out(change, funding.script, <<>>)>>, fee))
  BY <1>1
<1> DEFINE first == First(h)
           second == Second(h, destination)
<1>3. /\ DOMAIN h = {"amount", "owner", "scheme"} /\ h.amount \in Nat
      /\ \A k \in FixtureKeys : h.owner # <<"key", k>>
  BY HoldersOK DEF RecipientState
<1> HIDE DEF h
<1>4. /\ first.amount \in Nat /\ second.amount \in Nat
      /\ h.amount = first.amount + second.amount
      /\ first.owner = h.owner /\ second.owner = <<"key", destination>>
  BY <1>3, Halves
<1> HIDE DEF First, Second
<1> DEFINE o1 == Out(CellKas, TokenScript(first), <<1, token>>)
           o2 == Out(CellKas, TokenScript(second), <<1, token>>)
           o3 == Out(change, funding.script, <<>>)
           tx == Build(<<cell, funding>>,
                       <<Witness(TokenScript(h), holderKey), Plain(key)>>, <<o1, o2, o3>>, fee)
<1>5. /\ funding.confirmed /\ funding.kas \in Nat
      /\ funding.script = Pays(key) /\ funding.covenant = NoCovenant
      /\ change \in Nat /\ fee \in 1..MaxFee /\ funding.kas = change + CellKas + fee
      /\ OutputOK(o3) /\ o3.kas = change
  <2>1. funding \in Held /\ fee \in Fees /\ Funded(funding, key, CellKas, fee, change)
    BY <1>2
  <2> QED BY <2>1, CellKasNat, FundedOK
<1>6. /\ cell.confirmed /\ cell.script = TokenScript(h)
      /\ cell.covenant = token /\ cell.kas = CellKas
  BY <1>1, CellFacts DEF h
<1>7. OutputOK(o1) /\ o1.kas = CellKas
  <2> HIDE DEF first
  <2> QED BY <1>3, <1>4, TokenOutputOK
<1>8. OutputOK(o2) /\ o2.kas = CellKas
  <2>1. \A k \in FixtureKeys : second.owner # <<"key", k>>
    BY <1>1, <1>4 DEF ValidKey
  <2> HIDE DEF second
  <2> QED BY <2>1, TokenOutputOK
<1>9. ScriptsAccept(tx)
  <2>1. /\ h.scheme = "p2pk" /\ h.owner = <<"key", holderKey>> /\ token # NoCovenant
        /\ h.amount \in Nat
    BY <1>1, <1>3, IdsOK DEF h
  <2> HIDE DEF first, second
  <2> QED BY <1>4, <1>5, <1>6, <2>1, SplitAccepted
<1>10. Ready(tx)
  BY <1>2
<1> HIDE DEF o1, o2, o3
<1>11. TxOK(tx)
  BY <1>2, <1>5, <1>6, <1>7, <1>8 DEF TxOK, Build
<1>12. FeeOK(tx)
  <2>1. KasIn(tx) = CellKas + funding.kas
    BY <1>5, <1>6, CellKasNat, KasInTwo
  <2>2. KasOut(tx) = CellKas + CellKas + change
    BY <1>5, <1>7, <1>8, CellKasNat, KasOutThree
  <2>3. tx.fee = fee
    BY DEF Build
  <2> HIDE DEF tx
  <2> QED BY <1>5, <2>1, <2>2, <2>3, CellKasNat DEF FeeOK
<1>13. Good(tx)
  BY <1>9, <1>11, <1>12 DEF Good
<1> HIDE DEF tx
<1> QED BY <1>10, <1>13, ReadyIInv


-------------------------------------------------------------------------------
(* The node and others. *)

LEMMA LandIInv == ASSUME IInv, Land PROVE IInv'
<1> DEFINE n == landed + 1
           spends(tx) == {tx.inputs[i] : i \in DOMAIN tx.inputs}
           made(tx) == {Cell(<<"tx", n, o>>, tx.outputs[o], FALSE) : o \in DOMAIN tx.outputs}
<1>1. PICK tx \in draft :
        /\ spends(tx) \subseteq cells
        /\ cells' = (cells \ spends(tx)) \cup made(tx)
        /\ gone' = gone \cup spends(tx)
        /\ flight' = {[n |-> n, spends |-> spends(tx)]}
  BY DEF Land
<1>2. /\ flight = {} /\ landed' = n /\ draft' = {} /\ plan' = plan
      /\ outcome' = "none" /\ strangers' = strangers
      /\ landed \in Nat /\ n \in Nat /\ n <= MaxLanded /\ MaxLanded \in Nat
  BY BoundedHolds DEF Land, Bounded
<1>3. Held' = Held \cup made(tx)
  BY <1>1 DEF Held
<1>4. ASSUME NEW c \in made(tx)
      PROVE  CellOK(c)' /\ ~c.confirmed /\ c.at[1] = "tx" /\ c.at[2] = n
  <2>1. PICK o \in DOMAIN tx.outputs : c = Cell(<<"tx", n, o>>, tx.outputs[o], FALSE)
    OBVIOUS
  <2>2. OutputOK(tx.outputs[o])
    BY DEF IInv, TxOK
  <2>3. IdOK(c.covenant)
    BY <2>1, <2>2 DEF OutputOK, IdOK, Cell, NoCovenant
  <2>4. DOMAIN c = Fields /\ c.at = <<"tx", n, o>> /\ ~c.confirmed /\ c.kas \in Nat
    BY <2>1, <2>2 DEF Cell, Fields, OutputOK
  <2>5. c.at[1] = "tx" /\ c.at[2] = n
    BY <2>4
  <2>6. n \in 1..landed'
    BY <1>2
  <2> QED BY <2>3, <2>4, <2>5, <2>6 DEF CellOK, IdOK
<1>5. \A c \in Held : CellOK(c)' /\ (c.at[1] = "tx" => c.at[2] # n)
  BY <1>2 DEF IInv, CellOK
<1>6. \A c \in Held' : CellOK(c)'
  BY <1>3, <1>4, <1>5
<1>7. ASSUME NEW f \in flight' PROVE FlightOK(f)'
  <2>1. f.n = n /\ f.spends = spends(tx)
    BY <1>1
  <2>2. \A c \in Held' : (c.at[1] = "tx" /\ c.at[2] = n) => ~c.confirmed
    BY <1>3, <1>4, <1>5
  <2>3. n \in 1..landed' /\ spends(tx) \subseteq gone'
    BY <1>1, <1>2
  <2> QED BY <2>1, <2>2, <2>3 DEF FlightOK
<1>8. PlanInv'
  <2>1. cells' \cap gone' = {}
    <3>1. \A c \in made(tx) : c \notin Held
      BY <1>4, <1>5
    <3>2. cells \cap gone = {}
      BY DEF IInv, PlanInv, TypeOK
    <3> HIDE DEF made, spends
    <3> QED BY <1>1, <3>1, <3>2 DEF Held
  <2>2. Cardinality(flight') <= 1 /\ Cardinality(draft') <= 1
    <3> HIDE DEF spends
    <3> QED BY <1>1, <1>2, AtMostOne
  <2> QED BY <1>2, <2>1, <2>2 DEF IInv, PlanInv, TypeOK, ChecksAreEnough
<1> HIDE DEF made, spends
<1> QED BY <1>2, <1>6, <1>7, <1>8 DEF IInv, PlanOK

LEMMA ConfirmIInv == ASSUME IInv, Confirm PROVE IInv'
<1> DEFINE accepted(tx) == {[c EXCEPT !.confirmed = TRUE] : c \in MadeBy(tx.n)}
<1>1. PICK tx \in flight : cells' = (cells \ MadeBy(tx.n)) \cup accepted(tx)
  BY DEF Confirm
<1>2. flight' = {} /\ UNCHANGED <<plan, gone, draft, outcome, landed, strangers>>
  BY DEF Confirm
<1>3. \A c \in accepted(tx) : /\ CellOK(c) /\ c.confirmed = TRUE
                              /\ c.at[1] = "tx" /\ c.at[2] = tx.n
  <2>1. ASSUME NEW c \in MadeBy(tx.n)
        PROVE  LET d == [c EXCEPT !.confirmed = TRUE]
               IN  /\ CellOK(d) /\ d.confirmed = TRUE
                   /\ d.at[1] = "tx" /\ d.at[2] = tx.n
    <3>1. CellOK(c) /\ c.at[1] = "tx" /\ c.at[2] = tx.n
      BY DEF MadeBy, IInv, Held
    <3> QED BY <3>1 DEF CellOK, Fields
  <2> QED BY <2>1
<1>4. \A c \in Held' : CellOK(c)'
  BY <1>1, <1>2, <1>3 DEF IInv, Held, CellOK
<1>5. \A c \in Held : (c.at[1] = "tx" /\ c.at[2] = tx.n) => ~c.confirmed
  BY DEF IInv, FlightOK
<1>6. \A t \in draft' : TxOK(t)' /\ FeeOK(t)
  <2>1. \A c \in MadeBy(tx.n) : ~c.confirmed
    BY <1>5 DEF MadeBy, Held
  <2> QED BY <1>1, <1>2, <2>1 DEF IInv, TxOK, Held
<1>7. PlanInv'
  <2>1. cells' \cap gone' = {}
    <3>1. \A c \in accepted(tx) : c \notin Held
      BY <1>3, <1>5
    <3>2. cells \cap gone = {}
      BY DEF IInv, PlanInv, TypeOK
    <3> HIDE DEF accepted
    <3> QED BY <1>1, <1>2, <3>1, <3>2 DEF Held
  <2> QED BY <1>2, <2>1, AtMostOne DEF IInv, PlanInv, TypeOK, ChecksAreEnough
<1> QED BY <1>2, <1>4, <1>6, <1>7 DEF IInv, PlanOK

LEMMA VanishIInv == ASSUME IInv, Vanish PROVE IInv'
<1>1. PICK tx \in flight : /\ cells' = (cells \ MadeBy(tx.n)) \cup tx.spends
                           /\ gone' = gone \ tx.spends
  BY DEF Vanish
<1>2. flight' = {} /\ UNCHANGED <<plan, draft, outcome, landed, strangers>>
  BY DEF Vanish
<1>3. tx.spends \subseteq gone /\ \A c \in MadeBy(tx.n) : ~c.confirmed
  BY DEF IInv, FlightOK, MadeBy, Held
<1>4. \A c \in Held' : CellOK(c)'
  BY <1>1, <1>2, <1>3 DEF IInv, Held, CellOK
<1>5. \A t \in draft' : TxOK(t)' /\ FeeOK(t)
  BY <1>1, <1>2, <1>3 DEF IInv, TxOK, Held
<1>6. PlanInv'
  <2>1. cells \cap gone = {}
    BY DEF IInv, PlanInv, TypeOK
  <2>2. cells' \cap gone' = {}
    BY <1>1, <1>3, <2>1
  <2> QED BY <1>2, <2>2, AtMostOne DEF IInv, PlanInv, TypeOK, ChecksAreEnough
<1> QED BY <1>2, <1>4, <1>5, <1>6 DEF IInv, PlanOK

(* A cell that a stranger's next transaction makes. *)
ForeignOK(c) ==
    /\ DOMAIN c = Fields /\ c.kas \in Nat /\ IdOK(c.covenant)
    /\ c.at[1] = "stranger" /\ c.at[2] = strangers

(* Strangers make cells, and spend some. *)
LEMMA StrangersIInv ==
    ASSUME IInv, NEW made, NEW spent \in SUBSET cells,
           cells' = (cells \ spent) \cup made, gone' = gone \cup spent,
           \A c \in made : ForeignOK(c),
           strangers < MaxStrangers, strangers' = strangers + 1,
           UNCHANGED <<plan, flight, draft, outcome, landed>>
    PROVE  IInv'
<1>0. Bounded
  BY BoundedHolds
<1>1. Held' = Held \cup made
  BY DEF Held
<1>2. \A c \in Held : CellOK(c)' /\ (c.at[1] = "stranger" => c.at[2] # strangers)
  BY <1>0 DEF IInv, CellOK, Bounded
<1>3. \A c \in made : CellOK(c)'
  BY <1>0 DEF ForeignOK, CellOK, Bounded
<1>4. \A t \in draft' : TxOK(t)' /\ FeeOK(t)
  BY <1>1 DEF IInv, TxOK
<1>5. \A t \in flight' : FlightOK(t)'
  BY <1>1 DEF IInv, FlightOK, ForeignOK
<1>6. PlanInv'
  <2>1. \A c \in made : c \notin Held
    BY <1>2 DEF ForeignOK
  <2>2. cells \cap gone = {}
    BY DEF IInv, PlanInv, TypeOK
  <2>3. cells' \cap gone' = {}
    BY <2>1, <2>2 DEF Held
  <2>4. strangers' \in 0..MaxStrangers
    BY <1>0 DEF Bounded
  <2> QED BY <2>3, <2>4 DEF IInv, PlanInv, TypeOK, ChecksAreEnough
<1> QED BY <1>1, <1>2, <1>3, <1>4, <1>5, <1>6 DEF IInv, PlanOK

LEMMA DecoyIInv == ASSUME IInv, Decoy PROVE IInv'
<1>1. PICK c \in cells : \E id \in {NoCovenant, CovenantId(<<"elsewhere", 0>>, c.script)} :
        cells' = cells \cup {[c EXCEPT !.at = <<"stranger", strangers>>, !.covenant = id]}
  BY DEF Decoy
<1>2. PICK id \in {NoCovenant, CovenantId(<<"elsewhere", 0>>, c.script)} :
        cells' = cells \cup {[c EXCEPT !.at = <<"stranger", strangers>>, !.covenant = id]}
  BY <1>1
<1> DEFINE decoy == [c EXCEPT !.at = <<"stranger", strangers>>, !.covenant = id]
           made == {decoy}
<1>3. DOMAIN c = Fields /\ c.kas \in Nat /\ IdOK(id)
  BY DEF IInv, Held, CellOK, IdOK, CovenantId, NoCovenant
<1>4. /\ decoy.at = <<"stranger", strangers>> /\ decoy.covenant = id
      /\ DOMAIN decoy = Fields /\ decoy.kas = c.kas
  BY <1>3 DEF Fields
<1>5. ForeignOK(decoy)
  BY <1>3, <1>4 DEF ForeignOK
<1>6. /\ strangers < MaxStrangers /\ strangers' = strangers + 1
      /\ gone' = gone /\ UNCHANGED <<plan, flight, draft, outcome, landed>>
  BY DEF Decoy
<1> DEFINE spent == {}
<1> HIDE DEF decoy
<1>7. /\ spent \in SUBSET cells
      /\ cells' = (cells \ spent) \cup made /\ gone' = gone \cup spent
      /\ \A d \in made : ForeignOK(d)
  BY <1>2, <1>5, <1>6 DEF decoy
<1> HIDE DEF made, spent
<1> QED BY <1>6, <1>7, StrangersIInv

LEMMA StrangerClaimsIInv == ASSUME IInv, StrangerClaims PROVE IInv'
<1> DEFINE next(c, i) == [c EXCEPT !.at = <<"stranger", strangers, 1>>,
                                   !.script[3] = @ \cup {i}]
           left(p, r, i) == [r EXCEPT !.at = <<"stranger", strangers, 2>>,
                                      !.script[2].amount = @ - p.holders[i].amount]
           paid(p, r, i) == [r EXCEPT !.at = <<"stranger", strangers, 3>>,
                                      !.script = TokenScript(RecipientState(p, i))]
<1>0. PICK p \in plan, c \in {k \in cells : k.script[1] = "controller"} :
       \E r \in cells, i \in DOMAIN p.holders \ c.script[3] :
        /\ c.confirmed
        /\ r.script[1] = "token" /\ r.confirmed /\ r.covenant = c.script[2]
        /\ r.script[2].owner = c.covenant
        /\ cells' = (cells \ {c, r})
             \cup {[c EXCEPT !.at = <<"stranger", strangers, 1>>, !.script[3] = @ \cup {i}],
                   [r EXCEPT !.at = <<"stranger", strangers, 2>>,
                             !.script[2].amount = @ - p.holders[i].amount],
                   [r EXCEPT !.at = <<"stranger", strangers, 3>>,
                             !.script = TokenScript(RecipientState(p, i))]}
        /\ gone' = gone \cup {c, r}
  BY DEF StrangerClaims
<1>1. PICK r \in cells, i \in DOMAIN p.holders \ c.script[3] :
        /\ cells' = (cells \ {c, r}) \cup {next(c, i), left(p, r, i), paid(p, r, i)}
        /\ gone' = gone \cup {c, r}
  BY <1>0
<1>2. CellOK(c) /\ CellOK(r)
  BY DEF IInv, Held
<1>3. ForeignOK(next(c, i))
  BY <1>2 DEF CellOK, ForeignOK, Fields
<1>4. ForeignOK(left(p, r, i))
  BY <1>2 DEF CellOK, ForeignOK, Fields
<1>5. ForeignOK(paid(p, r, i))
  BY <1>2 DEF CellOK, ForeignOK, Fields
<1> HIDE DEF next, left, paid
<1>6. /\ strangers < MaxStrangers /\ strangers' = strangers + 1
      /\ UNCHANGED <<plan, flight, draft, outcome, landed>>
  BY DEF StrangerClaims
<1> DEFINE made == {next(c, i), left(p, r, i), paid(p, r, i)}
           spent == {c, r}
<1>7. \A d \in made : ForeignOK(d)
  BY <1>3, <1>4, <1>5
<1>8. /\ spent \in SUBSET cells
      /\ cells' = (cells \ spent) \cup made /\ gone' = gone \cup spent
  BY <1>1
<1> HIDE DEF made, spent
<1> QED BY <1>6, <1>7, <1>8, StrangersIInv

-------------------------------------------------------------------------------
(* Every step keeps the invariant. *)
LEMMA NextIInv == ASSUME IInv, [Next]_vars PROVE IInv'
<1>1. CASE UNCHANGED vars
  BY <1>1 DEF vars, IInv, PlanInv, TypeOK, ChecksAreEnough, Held, CellOK, PlanOK, TxOK, FlightOK
<1>2. CASE Refuse \/ \E network \in {"testnet-10", "mainnet"}, deploy \in Keys,
                        holders \in Snapshots : New(network, deploy, holders)
  BY <1>2, NewIInv, RefuseIInv
<1>3. CASE \/ PrepareTokenGenesis \/ PrepareControllerGenesis \/ PrepareReserveHandoff
           \/ PrepareClaim \/ PrepareRecipientSplit
  BY <1>3, TokenGenesisIInv, ControllerGenesisIInv, HandoffIInv, ClaimIInv, SplitIInv
<1>4. CASE Land \/ Confirm \/ Vanish
  BY <1>4, LandIInv, ConfirmIInv, VanishIInv
<1>5. CASE Decoy \/ StrangerClaims
  BY <1>5, DecoyIInv, StrangerClaimsIInv
<1> QED BY <1>1, <1>2, <1>3, <1>4, <1>5 DEF Next

(* Whatever keys a caller names, no call prepares a transaction that pays  *)
(* KAS or hands tokens to a fixture key.                                   *)
THEOREM FixturesGetNothing == Spec => []NoPublicOwner
<1>1. IInv => NoPublicOwner
  BY DEF IInv, TxOK, OutputOK, NoPublicOwner
<1> QED BY <1>1, InitIInv, NextIInv, PTL DEF Spec

(* The node never forgets a cell that a prepared transaction spends.       *)
THEOREM InputsHappened == Spec => []BuiltOnAccepted
<1>1. IInv => BuiltOnAccepted
  BY DEF IInv, TxOK, BuiltOnAccepted
<1> QED BY <1>1, InitIInv, NextIInv, PTL DEF Spec

(* Whatever a caller hands it, a call that passes the plan's checks builds *)
(* a transaction that every script accepts: the preflight never fails.     *)
THEOREM ChecksSuffice == Spec => []PlanInv
<1>1. IInv => PlanInv
  BY DEF IInv
<1> QED BY <1>1, InitIInv, NextIInv, PTL DEF Spec

(* Whatever funding and fee a caller names, and however the minimum wraps, *)
(* a prepared transaction leaves the fee to the miner and nothing else.    *)
THEOREM FeeAsAsked == Spec => []FeeIsExact
<1>1. IInv => FeeIsExact
  BY DEF IInv, FeeOK, FeeIsExact
<1> QED BY <1>1, InitIInv, NextIInv, PTL DEF Spec

================================================================================
