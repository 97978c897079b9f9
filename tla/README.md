# Kasmelt snapshot: specifications, model checks and proofs

Kasmelt turns a frozen list of holders into tokens on Kaspa testnet-10. The whole supply is
minted once, a singleton *controller* covenant holds it, and anybody may submit a claim that
pays one holder out of it. This directory keeps TLA+ specifications of that system beside the
code, the TLC configurations that check them on small instances, and theorems that the TLA+
proof system checks for every value of the constants.

    tlc -workers 2 -config ChainTampers.cfg MCSnapshotChain   # model-check one run
    tlapm Tn10RunnerProofs.tla                                # check the proofs of a module

`PROJECT.json` lists the runs, the source lines each definition stands for, one mutated
definition per property that the property detects, and the hazards the properties aim at.
Source paths in this file are relative to `src/`.

## 1. Inventory

| Component | Source | State it keeps | Operations |
|---|---|---|---|
| Controller contract | `contracts/kasmelt-snapshot-controller.sil` | entitlement root, token id, cell KAS, holder count (one unspent cell) | `claim`, `fold` |
| Token contract | `contracts/kasmelt-snapshot-token.sil` | owner scheme and bytes, amount (each unspent cell) | `transfer` = `authorize` + `conserve` |
| Entitlement tree | `harness/src/snapshot.rs` `MerkleTree` | the layers of hashes | `from_holders`, `root`, `proof`, `retire` |
| Lab transaction builder | `harness/src/snapshot.rs` `SnapshotLab` | tree, reserve, current controller, payouts | `new`, `claim`, `execute` with a `ClaimTamper`, recipient split |
| Network plan | `harness/src/snapshot.rs` `SnapshotNetworkPlan` | none but the snapshot and the deploy key | `new`, five `prepare_*`, cell and funding checks, signed preflight |
| Testnet runner | `deploy/src/bin/snapshot_tn10.rs` | key files, ledger file, artifact files; a node it talks to | `init`, `stage 1..5`, pins, submission, confirmation |
| Canonicalisation | `harness/src/snapshot.rs` `Snapshot` | none | `parse_decimal`, `parse_hex32`, `owner_from_address`, `from_source`, the context |
| Codecs | `harness/src/{lib,token_state,snapshot}.rs` | none | pushes, script numbers, witnesses, the token state, both program templates |
| Local console and page | `deploy/src/bin/snapshot_console.rs`, `deploy/web/snapshot.html` | one `App` (snapshot, lab, events); what each page shows | state, commit, reset, claim; select, type, resynchronise |
| Manifest CLI | `deploy/src/bin/snapshot_manifest.rs` | none | reads a file, prints a manifest and a proof |
| Engine adapter | `harness/src/engine.rs` | none | calls the script engine and the mass calculator |
| Compiler boundary | `compiler/src/main.rs` | none | wraps the SilverScript compiler |
| Vendored `block` crate | `vendor/block` | - | third-party bindings |

### How the parts interact

- A **claim transaction** spends three cells: the controller, the reserve (a token cell owned by
  the controller's covenant id), and a plain cell for the fee. Two scripts judge it
  separately. The controller checks the proof, how the reserve is split, who is paid and its own
  successor; the token checks that every token input is authorised by its owner and that amounts
  are conserved. Neither sees everything; the whole is only right if the two fit.
- The **tree** is computed twice: layer by layer in Rust, and as a fold inside the contract. The
  contract derives its next root from the claimant's proof, never from the off-chain tree, so
  the two have to agree after any order of claims.
- A **program** is compiled once for one state; Rust cuts the state out and puts another in its
  place, and the contracts find it again by the lengths of the two parts. **Witness** arguments
  are pushed by Rust and read by the engine.
- The **plan** is handed cells that somebody read from a node some time ago. It has only its own
  checks to tell a cell of this pool from a decoy.
- The **runner** is one process per step. Between two steps only the disk (role keys, ledger,
  signed artifacts), the checkout it compiles from and the node remember anything.
- The **console** keeps one lab and answers one connection at a time; every page that is open works
  on a copy of what it was last told.

### What is hard, and what makes each part correct

| Part | Hard behaviour | What must hold |
|---|---|---|
| Controller and token | claims race for one controller cell; proofs go stale at the first other claim; transactions are lost, repeated, altered; owners merge, split and donate cells | one cell always backs what is owed; each entitlement is paid once, in full, to its owner; the supply and the pinned KAS survive; nobody is stranded; claimants who keep trying are all paid |
| Tree | odd sizes, padding, order of claims, positions past the width, stale proofs | both computations agree; exactly the current entitlements fold to the root |
| Plan | cells that are young, spent, of another pool or sent by a stranger; sums that wrap | what passes the plan's checks passes the contracts; the fee is exact; no public key is paid |
| Runner | crashes between the artifact, the ledger and the submission; a lost answer; a transaction dropped or reorganised; outputs polled one by one while time goes on; two processes on one directory | one transaction per stage, on record before it is sent; the ledger describes one chain; a receipt means depth; a received submission is settled; a run that stops short stops for a known reason |
| Pins | the checkout edited between two runs, or between the comparison and the compilation of one | all transactions carry one token and one controller program; restoring is enough |
| Canonicalisation | 64-bit limits, malformed hashes and scores, duplicates, order, capitals, text that runs together | accepted exactly when it should be; the same declaration commits to the same; different ones do not |
| Codecs | lengths and signs at their boundaries; code that looks like a state | what is written is what is read; a template is cut where the compiler put the state |
| Console | tabs that replace each other's snapshot; requests and answers lost; connections that send nothing | every view is one consistent history; a page alone shows the present; no page stays busy |

## 2. Modules

| Module | Models | Composition |
|---|---|---|
| `TokenUnits` | amounts as sums over sets of cells (`Weight`) | used by the next two |
| `SnapshotClaims` | **abstract**: what the system promises the holders | refined by `SnapshotChain` |
| `SnapshotChain` | both contracts, the transactions that spend them, claimants and owners | `INSTANCE SnapshotClaims WITH ...` |
| `MerkleTree` | the layered tree and the contract's fold | discharges what `SnapshotChain` assumes about roots |
| `NetworkPlan` | the plan's calls, the cells a caller may hand it, the node and strangers | contracts as external predicates |
| `Tn10Runner` | the runner, its files and the node it talks to | - |
| `BuildPins` | the checkout, the pins and the recompilations of a run | the runner's stages, submission in one step |
| `ConsoleSession` | the console server, its backlog, and pages in tabs | - |
| `SnapshotCanon` | from a declaration to what is committed to | sums by `TokenUnits` |
| `ScriptBytes`, `WitnessCodec` | pushes and script numbers; the witnesses, and the engine's reading of them | `WitnessCodec` extends `ScriptBytes` |
| `ProgramTemplate` | templates and the token state codec | extends `ScriptBytes` |
| `SnapshotFormats` | `MerkleTree`, `SnapshotCanon`, `ProgramTemplate`, `WitnessCodec`, as disjoint parts of one specification | extends the first, `INSTANCE` of the rest |
| `MCSnapshotChain`, `MCTn10Runner`, `MCNetworkPlan`, `MCConsoleSession`, `MCSnapshotFormats` | instances for TLC | extend the module of that name |
| `TokenUnitsProofs`, `SnapshotChainProofs`, `MerkleTreeProofs`, `NetworkPlanProofs`, `Tn10RunnerProofs`, `BuildPinsProofs`, `ConsoleSessionProofs`, `SnapshotFormatsProofs` | theorems | extend the module of that name; all that add or loop also extend `TokenUnitsProofs` |

### `SnapshotClaims`

Three variables: who is still owed, what each holder was paid, and the pool. `Pay(i)` pays one
holder everything, once, out of the pool; `Fund` lets the pool grow. Its only liveness property
is that all are paid.

### `SnapshotChain`

State: the unspent token cells (`cells`), the unspent controller cells (`controllers`, a set, so
that "exactly one" is something to check), a transaction counter that also makes transaction ids,
each client's claim in flight, the roots that were ever current (old proofs are made of them),
and a history of recipient outputs.

- `TokenGenesis`, `ControllerGenesis`, `ReserveHandoff` are `SnapshotLab::new` and the runner's
  first three stages.
- `Claim(c, i)` is `SnapshotLab::claim`: an honest transaction from the current state.
  `Build(c, i, tamper)` is `execute`: any of the twelve `ClaimTamper` deviations, for any holder
  (claimed or not), with a proof from *any* root of the past, spending any reserve-shaped cell.
- `Accept(c)` judges the transaction against the state it then meets. `Admissible` is
  the controller's `claim` (`ProvesEntitlement`, `SplitsReserve`, `PaysEntitlement`, `HandsOver`,
  its guards grouped by what they protect) together with the token's `Authorize` and `Conserve`. A claim
  stays in flight after it was accepted, so a replay is an ordinary step.
- `Refuse(c)` and `Lose(c)`: the transaction is rejected, or disappears.
- `Transfer`: owners spend one or two of their cells into one or two cells of any native value,
  to each other or to the controller.

Hashes are free: a root *is* the vector of its leaves and a proof is that vector with the
claimed position blanked. `MerkleTree` checks that the program's tree is such an encoding.

### `MerkleTree`

`FromHolders`, `Layers`, `TreeRoot`, `Proof`, `Retire` are the Rust functions; `Fold` is the
contract's loop. Each of its steps up is in `Nodes`. The two keep separate state (`leaves`, `root`) and only `Claim` moves both, by
its own rule each. `seen` is the tree a claimant last looked at. Hashes are free constructors,
so a collision is out of the model.

### `Tn10Runner`

State: the node (funding cells, mempool, accepted transactions with the age of the
acceptance), the disk (keys, ledger, artifacts), and for each process where it is and what it
holds in memory. A transaction is named `<<stage, funding cell>>`: every other input comes out
of a receipt and building is deterministic (ids leave signatures out), so building the same
stage again gives the same id.

| Code | Actions |
|---|---|
| `init`, `load_or_create_role_key` | `InitOpenKey`, `InitWriteKey`, `InitResume`, `InitSave`, `InitUnfunded` |
| `stage`: load, dispatch | `Start` |
| `stage`: the `match` that prepares, `--submit` | `Prepare`, `PrepareEnds` |
| `write_artifact` (looks, then renames) | `ArtifactAbsent`, `WriteArtifact`, `ArtifactExists` |
| `pending` saved, then submission | `SavePending`, `SubmitAnswered`, `SubmitUnanswered`, `SubmitRefused`, `SaveSubmitted` |
| the confirmation loop | `ReadOutput`, `Settle`, `ReadAgain`, `GiveUp` |
| the process ends anywhere | `Crash` |
| the node (external) | `FundingArrives`, `AcceptTx`, `Tick`, `Drop`, `Reorg` |

Each write to disk is its own step, so a crash falls between any two. Each output read of the
confirmation loop is its own step, so time and reorganisations fall between them.

With `Runners` a set of two, the same actions interleave on one disk.

### `NetworkPlan`

State: the plan, the unspent and the spent cells (a caller may still hold a spent one), the
transaction in flight, the one last prepared, and how the last call ended. Scripts are what they
say (`<<"pays", key>>`, `<<"token", state>>`, `<<"controller", token, root>>`).

`New` and the five `Prepare...` actions are `SnapshotNetworkPlan::new` and the `prepare_*` calls,
each check in its place (`ValidKey`, `ValidFunding`, `ValidCell`, `Change` are the functions they
share); `Ready` is `live_ready`, which runs the signed transaction before it returns it;
`ScriptsAccept` is what the engine makes of it. `Refuse` is any call that fails a check. `Land`,
`Confirm`, `Vanish` are the node; `Decoy` and `StrangerClaims` are everyone else.

### `BuildPins`

State: a version of each group of files in the checkout, the ledger with its pins and recorded
programs, and what the process has compiled so far. A program is its source, the compiler and
its arguments. `Edit` may come between any two steps: between the pins and the program that
`init` records, and between a stage's comparison of the pins (`Verify`) and the compilation that
follows the wait for a node (`BuildPlan`, `CheckController`, `Prepare`), where the hashes no
longer protect it and only the comparisons of programs do.

### `ConsoleSession`

State: the lab, the backlog of connections, the answer on its way to each tab, and what each page
keeps (the view, the selected leaf, the editor's text, what it says of the connection, and the
phase of its exchange). `Serve...` and `Refuse...` are the routes of `handle`; `Post`, `PostAnswered`,
`StateAnswered` are the page's `post`, `load` and resynchronisation; `ConnectionBreaks` loses an
answer or the request; `Stray` is a foreign form post or a connection that sends no request.

### `SnapshotCanon`, `ProgramTemplate`, `WitnessCodec`, `SnapshotFormats`

`FromSource` is `from_source`, its checks in the order of the code; the actions declare one source
after another, permuted, respelled (either hash in capitals or not) or recommitted. `MetaAccepted` is what is asked of
the other fields: the ticker, both hashes (`ParsesHex32`), the score (`ParsesScore`, a `u64` spelled canonically) and the
indexer; `AcceptedExactly` states these conditions again, without it. `Context` is the preimage without its fixed tag: network, ticker, deploy id,
score, muhash and indexer, the texts behind their lengths. The network names are texts too, for that reason. `ProgramTemplate` compiles a program around a state,
cuts it (`TokenTemplate`, `ControllerTemplate`) and puts later states in its place.
`WitnessCodec` builds each witness from arguments; the engine's reading (`ReadScript`) is written
independently, with its rule that every push is minimal. Numbers are taken apart by repeated division (`Quotients`), as
`to_le_bytes` and `script_num` do.

`SnapshotFormats` puts these and the tree beside each other: a behaviour is of one part, the others are at rest. Declarations come in
two forms, any entries under a few sets of other fields (`"lists"`) and few entries under any other fields (`"fields"`), because
TLC cannot enumerate both at once. The theorems have both.

## 3. What the runs show

| Run | Instance | Shows |
|---|---|---|
| `chain_tampers` | 2 clients, all 12 tampers, current and stale proofs, losses, replays | `PaidExactlyOnce`: nobody is paid twice, and the retired leaves are exactly the paid ones. `KasNeverDrained`: one controller, with its native value. `RootOnlyRetires`: each step retires one leaf or leaves the controller alone. `ImplementsClaims`: every step is a full payment of the abstract promise or invisible to it |
| `chain_transfers` | 1 client, one transfer, native values 1 and 2 | transfers and donations, in cells a claim can use and in cells it cannot, never reduce the reserve (`ReserveBacksUnclaimed`), never strand anybody (`NobodyStranded`); `SupplyConserved` across claims and transfers |
| `chain_liveness` | 3 clients, honest claims, losses, fairness | `EveryonePaid` |
| `runner_crashes` | 2 faults, 2 reorganisations, depth 2 | `OneTransactionPerStage`, `BroadcastIsOnRecord`, `LedgerConsistent`, `LedgerOnlyAdvances`, `FundingSuffices`, and, until a reorganisation, `SettledIsDeep` |
| `runner_settles` | 1 fault, 1 reorganisation, fairness | `ReceivedSettles`: what the node has received gets its receipt, whichever run sent it. `EndsCompleteOrExplained`: five receipts, or one of five named states |
| `runner_pair` | 2 runners, one directory | `NothingUntraced`: updates are lost, but no file mixes two runs and nothing is sent without its artifact |
| `build_pins` | 4 edits, fairness | `OneBuildInv`: one token and one controller program in everything sent. `RestoredCompletes`: restoring the checkout lets the run complete, unless an edit slipped in between the pins and the program recorded beside them |
| `network_plan` | 3 transactions, 1 stranger, wrapping fees | `PlanInv`: no call gets as far as a failing preflight. `FeeIsExact`, `NoPublicOwner`, `BuiltOnAccepted` |
| `console_tabs` | 2 tabs, 1 broken connection | `ConsoleInv`: every view shown leads, event by event, from the snapshot's commitment to the root shown, paying each leaf at most once |
| `console_alone` | 1 tab, every kind of text, 2 broken connections, 1 stray, fairness | `ReadyShowsCurrent`: an idle page that says "ready" shows the present. `BusyEnds` |
| `console_displayed` | 2 tabs; **expected violation** | `ClaimPaysDisplayed` fails: see below |
| `snapshot_formats` | five parts, each by itself | `AcceptedExactly`, `SameDeclarationSameSnapshot`, `ContextSaysAll`; `TreeInv` (both computations of the root agree), `UnclaimedProvable`, `OnlyCurrentEntitlementFolds`, `RootIsLeafVector` (the abstraction `SnapshotChain` rests on); `CutsWhereCompiled`, `ReadsCurrent`, `DecodesOnlyEncodings`; `ReadsBack`, `NumbersExact` |

**A disagreement.** The page says above its claim button that "the covenant must pay this exact
address and amount" (`deploy/web/snapshot.html:2113`), but `POST /api/claim/<index>` carries an
index only (`deploy/src/bin/snapshot_console.rs:224`). When another tab has committed a snapshot
in between, the claim succeeds and pays the leaf with that index in the other snapshot. It is a
local lab; the covenant still pays what *its* snapshot says, and the next state the page reads tells the true
story (`console_tabs`).

`SettledIsDeep` is stated until the first reorganisation because the runner promises no more: the
runbook calls the depth an "observation margin, not protocol finality"
(`docs/testnet-runbook.md`) and says that recovery from a reorganisation is not implemented.
`EndsCompleteOrExplained` names what that leaves: a submission the node does not have (it is
reconciled and never sent again), an artifact left by a run that ended before the stage was
recorded, a key file created and not written, too little KAS, and a settled transaction taken back.

`OneTransactionPerStage`, `BroadcastIsOnRecord` and `LedgerOnlyAdvances` do not hold of two runners
on one directory: each replaces the ledger with its own copy. `SECURITY.md:20` tells operators to
avoid simultaneous instances, so that is no finding; `runner_pair` shows what is left.

## 4. Bounds, and why they are enough

- **Chain: three holders, width 4, amounts 1, 2, 1.** One padding leaf beside a holder, an odd holder
  count, two equal amounts (a leaf that forgot its owner or index would be mistaken) and an
  unequal one. With three holders a claim can be stale by one and by two other claims, and there is a
  first, a middle and a last claim (the last empties the reserve). `Width` need not be
  a power of two in `SnapshotChain`: nothing there depends on it, and the proofs are for every one.
- **Chain: one to three clients.** A race needs two transactions built from one state; the third
  client, in the liveness run, adds one that was built before both. `MaxTransfers` = 1: one transfer
  already merges a donation with nothing, splits a payout or gives the controller a second cell.
  `CellKas` = 2 leaves room for a lower value, which the tampers use. The two tampers with an extra
  token cell change nothing but the number of cells, which the controller's guards refuse; no property would
  notice if they did not. Amounts are added as integers; 64 bits are not modelled in the contracts.
- **Runner: two funding cells**, so that a second genesis could be made from another cell, with
  unequal values, so that "the largest" matters. `Depth` 2 distinguishes "accepted",
  "accepted some time ago" and "deep". `MaxFaults` 2 allows a crash in a run that recovers from a crash;
  `MaxReorgs` 2 allows the recovery to be undone. `Fee` 2 and `CellKas` 1 keep the ratio that decides
  `FundingSuffices`. Two runners are enough for a lost update; that instance has no faults, since the
  interleaving is what it is about.
- **Pins: four edits.** One edit and its restoration, twice: once around `init` and once around a stage.
- **Plan: three transactions** reach the claim (two geneses and the handoff) and leave cells of each
  stage spent, young and vanished; the split is reached through a stranger's claim. `MaxStrangers` 1 is a decoy or a
  foreign claim. The deposits are one good cell and one of each kind that must be refused. KAS wraps
  at 64, and the fee 63 makes the unchecked minimum wrap.
- **Console: two snapshots** of two and one leaf that disagree on the first, so that an index can mean
  another leaf or none; two tabs, because a third adds no new relation between two copies of the lab.
- **Formats.** Trees of one to five holders reach depths 1, 2 and 3 and both kinds of odd count.
  Declarations of up to three holders out of two keys under two schemes, with a ceiling of three on
  the total, reach duplicates, overflow and every order. The other fields are every combination of four
  tickers, four indexers and two values of each hash and of the score, on the test network, four tickers on the
  main network, and one field at a time that is malformed or at a limit: hashes of 63 and 65 digits or with a digit that is none,
  scores on both sides of `MaxScore`, texts that are empty, too long, or have a space or another symbol in them. Programs have fields of two bytes and
  surroundings that contain pieces of a state, and whole states. Witness values sit on both sides of
  each length at which an encoding changes; pushes of 65535 bytes and more are not reached, and no
  program of this system nears that.
- **Symmetry** of the tabs and of the runners is declared in the two runs with safety properties only
  where it makes a difference.
- **Deadlock** is checked in the console runs and `network_plan`. Elsewhere the system may stop: when all are
  paid, the last claim in flight may have been lost and no transfer be left; a runner ends complete or as
  explained above; a run of `build_pins` is over after the fifth receipt; a template or a witness is built once.

## 5. Fairness

- *Chain.* The deployer's three steps are weakly fair: they are one command each. A client's
  `Claim` is strongly fair because `docs/integration.md` requires it ("losing clients must discover
  the accepted state and rebuild their proofs") and because a client whose claim is refused is
  ready again only from time to time. `Accept` is strongly fair (other claims make it
  unacceptable again and again), which says that the network does not reject the same
  claimant forever. `Refuse` is weakly fair. `Lose`, `Build` and `Transfer` have none: a
  malformed claim is never *needed*.
- *Runner.* A running process goes on (`Step` weakly fair), and the operator keeps running the stage
  the ledger asks for (`Start` weakly fair), as the runbook prescribes. `Prepare` is strongly
  fair: not every retry is a dry run. Funding arrives, the node accepts what it
  holds and can accept, and time passes. `Crash`, `Drop`, `Reorg` and `SubmitUnanswered` have none
  and are bounded.
- *Pins.* The operator keeps running the next stage, and a run is not stopped at the same place for ever (each
  step strongly fair). A run ends when it is refused (`Stop` weakly fair). `Edit` has none.
- *Console.* The listener goes on to the next connection, because every read of one times out
  (`Serve` weakly fair), and a page runs the callbacks of what was answered. Nobody has to click, type
  or lose a connection.

## 6. What is proved

| Theorem | Property | Of |
|---|---|---|
| `TypeCorrect`, `ReserveBacks`, `PaidOnce`, `SupplyKept`, `KasKept`, `Unstranded`, `RootsRetire` | `TypeOK`, `ReserveBacksUnclaimed`, `PaidExactlyOnce`, `SupplyConserved`, `KasNeverDrained`, `NobodyStranded`, `RootOnlyRetires` | `SnapshotChain`: any holders, width, owners, amounts, clients, tampers, transfers |
| `ChainImplementsClaims` | `ImplementsClaims` (initial states and steps; the abstract fairness is not part of it) | the same |
| `TreeInvHolds`, `UnclaimedProvableHolds`, `OnlyCurrentEntitlementFoldsHolds`, `RootIsLeafVectorHolds` | `TreeInv`, `UnclaimedProvable`, `OnlyCurrentEntitlementFolds`, `RootIsLeafVector` | `MerkleTree`: any number of holders, any order of claims |
| `NoForgedProof` | no siblings whatever fold a leaf to the root of a tree that does not have it there | the same |
| `ChecksSuffice`, `FeeAsAsked`, `FixturesGetNothing`, `InputsHappened` | `PlanInv`, `FeeIsExact`, `NoPublicOwner`, `BuiltOnAccepted` | `NetworkPlan`: any snapshots, deposits, keys, fees, transactions and strangers |
| `RunnerTypes`, `LedgerTellsOneChain`, `SentIsTraced`, `ReceiptsAreDeep`, `EnoughLasts` | `TypeOK`, `LedgerConsistent`, `NothingUntraced`, `SettledIsDeep`, `FundingSuffices` | `Tn10Runner`: any number of runners side by side, any funding, depth, fee, faults and reorganisations |
| `SentIsOnRecord`, `OneSentForEachStage`, `HistoryStands` | `BroadcastIsOnRecord`, `OneTransactionPerStage`, `LedgerOnlyAdvances` | `Tn10Runner` with one runner (`OneRunner`) |
| `OneBuild` | `OneBuildInv` | `BuildPins`: any number of edits |
| `EveryPageTellsOneStory` | `ConsoleInv` | `ConsoleSession`: any tabs, snapshots, holders and broken connections |
| `AloneShowsCurrent` | `ReadyShowsCurrent` | `ConsoleSession` with one tab (`OneTab`) |
| `AcceptedExactlyHolds`, `ContextSaysAllHolds`, `SameDeclarationHolds` | `AcceptedExactly`, `ContextSaysAll`, `SameDeclarationSameSnapshot` | `SnapshotFormats`: any entries, fields and limits |
| `CutsWhereCompiledHolds`, `ReadsCurrentHolds`, `DecodesOnlyEncodingsHolds` | `CutsWhereCompiled`, `ReadsCurrent`, `DecodesOnlyEncodings` | the same: any programs, states and field widths |
| `ReadsBackHolds`, `NumbersExactHolds` | `ReadsBack`, `NumbersExact` | the same: any arguments that can be pushed |
| `FormatsInvHolds`, `PartsKeepTheirSpecs` | - | the same: what the others rest on; the whole implements the specifications of the declarations and of the tree |

### The chain

Assumptions: the three named `ASSUME`s of `SnapshotChain`. There is at least one holder, the tree is
wide enough, amounts are positive, and the deployer, the controller and the owners are
different parties. Nothing is assumed about the set of tampers: an unknown tamper builds an honest
claim, and the proof does not look at how a claim in flight was built, only at its shape. The
theorems therefore hold for *every* well-typed claim the builder can put in flight.

None of these properties is inductive alone. `IInv` has eight parts:

- `TypeOK`;
- `Fresh`: an unspent or paid output belongs to a past transaction, so a new cell never coincides
  with an old one and sums over *sets* of cells are sums over cells;
- `Bootstrap`: the exact state before the handoff, which gives the base case of the rest;
- `RootShape`: each position of the current root holds its own entitlement, its tombstone or its padding. Without it,
  "the fold equals the root" would not say *which* entitlement was proved;
- `KasPinned`: exactly one controller, with the native value of every covenant cell;
- `SupplyConserved`, `ReserveBacksUnclaimed`, `PaidExactlyOnce`.

Each action has one step, and `Accept` has its own lemma chain: the fold
equation and `RootShape` give the claimed index and its full entitlement; `SplitsReserve` and the sum
lemmas give the amounts; if the claim spends another controller cell than the
reserve, the reserve stays; if it spends the reserve, what is left backs everything but the
paid leaf. `NobodyStranded` follows from `IInv` without induction of its own. The refinement uses the same facts:
an accepted claim is `Pay` of its index, a donation is `Fund`, everything else stutters.

`TokenUnitsProofs` has the arithmetic: `Weight(S, f)` is defined as the cardinality of the set
of units `<<x, n>>`, so that it can be reasoned about with the library's theorems on finite
sets. The module ties the two other ways to add to it. The library's induction takes an
operator as a parameter, which the provers cannot instantiate, so the module states induction of a *set*
(`InductionTo`: a set with 0 in it, closed under successors up to `n`, has all of `0..n`, by the
well-foundedness of the naturals). `AddsExists` is that induction over the size of a set: it shows that a function
which adds up a set by taking one element away exists, so the `CHOOSE` in the library's folds
chooses it. `AddsIsWeight` shows that any such function is `Weight`. Whatever is a
fold or a recursive function over a finite set of amounts is thereby a number the provers can do arithmetic with.

### The tree

`PowerOf2`, `Layers`, `Cursor` and `Nodes` are recursive functions, so four lemmas first show, by induction
along the levels, that each is what its loop computes (`PowerLoop`, `CursorLoop`, `LayersLoop`, `NodesLoop`). Two facts carry
the rest. `FoldReplaces`: folding a leaf with a proof from a tree gives, level by level, the nodes
above that leaf in the tree *with the leaf put in*; so the contract's next root is the root the harness gets when it
rebuilds its layers. `OnlyLeafFolds`: if a leaf and any siblings fold to the root of a tree, then, from
the root down, each node and each sibling is the tree's own. The free hash is what makes a node tell its children;
a collision is outside. An index past the width folds along the path of its low bits (`FoldPast`), to a root whose leaf
there is of another index; with that the two say exactly which leaves fold. The only assumption is that the largest snapshot has
a holder.

### The runner

A runner works on a copy of the ledger, so the invariant `IInv` says of every copy what it says of the file
(`LedgerOK`: one chain of *sent* transactions), and what the runner knows at each label of the transaction it carries
(`RunnerOK`: it is for the ledger's next stage; from `save_pending` on its artifact is on disk; scores were only read of
a transaction that was sent). It holds however many runners replace each other's file, which is why
`LedgerConsistent` and `NothingUntraced` do. `DeepInv` adds that, until a reorganisation, every copy's receipts are deep and
the scores a runner has read are the present score of what it is settling: time ages both alike, and nothing is accepted twice
(`UnspentIsNew`: an accepted transaction has spent its own inputs).

For one runner, `SoloInv` adds that its copy *is* the file, that what it is about to send is what the file
expects, and that everything sent is on record. `OneTransactionPerStage` follows: two transactions of one stage would
both be the receipt, both be pending, or one of them be pending for a stage that has its receipt. The only assumption
is `RunnerAssumption`.

`EnoughLasts` needs of `IInv` that a ledger's receipts are one chain, so that what the next stage may spend is the funding
less what the stages before it cost (`ChangeLeft`), however often they were tried.

### Pins

`OneBuild` rests on what each label of the process has compared: after `BuildPlan` the program in hand is the recorded one,
and a controller program is in hand only if it is that of the settled genesis, or there is none yet.

### The plan

Each of the five calls has a lemma that whatever passes its checks is `Good`: its inputs are confirmed cells, its
outputs pay nobody's fixture key, its KAS in is its KAS out and the fee, and every script it meets accepts it. `ReadyIInv`
then says that a `Good` transaction never ends in a failing preflight.

Why a script accepts (`GenesisAccepted`, `HandoffAccepted`, `ClaimAccepted`, `SplitAccepted`): it counts the inputs and outputs of its
covenant and adds up their tokens, so the proof has to say which those are. A token id and a controller id differ in kind
(`IdsOK`), and `ValidFunding` lets no cell of a covenant in, so each script counts the cells the call meant
and no others. `SupplyIsWeight` bounds each holder's
amount by the supply, so that what a claim leaves of the reserve is no negative number. `FundedOK` has the KAS: `Change` may compare with
a minimum that wrapped, but it subtracts exactly and leaves at least a cell.

`InputsHappened` needs to know that what a transaction in flight makes is still unconfirmed and that what it spends is kept
until it is accepted; a call takes confirmed cells only, so a vanishing transaction takes none of its inputs along.
`FixturesGetNothing` follows each output back to the snapshot, the deploy key, the funding key, the destination or a covenant
id. That no spent cell is unspent again needs outpoints to be new: each names the transaction that made it, ours by
its number and a stranger's by its own. `DataAssumption` says that holders and deposits have their fields, with amounts that are
natural numbers, and that no deposit poses as a later transaction's output.

### The console

A page is a copy of an answer, an answer is a copy of the lab, and a lab only changes by a claim or by starting over. `IInv` says of the lab and
of each answer on its way what `ConsoleInv` says of pages: the events lead from the commitment to the root, one leaf each, and
the reserve is what they left. `Serve...` gives the step that extends a history by one event; the sum in it is a recursive function, which
`AddsIsWeight` turns into one that a single leaf can be taken out of.

`ReadyShowsCurrent` is about one tab and needs the order of the backlog. `SoloInv` says that the page has one exchange under way at
most; that while it reads or is ready, nothing in the backlog can change the lab, and any state on its way to it is the present
one; and that nothing which could change the lab waits behind the request it posted. A lost connection makes the page read again
or leaves it short of "ready". With two tabs the property is false, and `OneTab` is its hypothesis.

### The formats

The assumptions are those of `FormatsAssumption`: the constants have their types; a field has 1 to 75 bytes (an owner or root at
least 2), so that one opcode pushes it; an amount in a program leaves the sign bit of its field free; indices and amounts have at
most eight bytes; and no string is longer than a push can be. In the code these are the Rust types. `FormatsInv` has one part for each
kind of data, and each says that what is at hand is what it was made from: the result is `FromSource` of the source, the program is its two
parts around the state last put in, the witness is the pushes of its arguments. That is kept by a step almost by definition. The
work is in showing that what is made that way has the property. All the loops of the code are recursive functions
in the model. One lemma (`Loop`, by `InductionTo`) gives the function a loop computes, from which each loop gets its own
(`TotalExact`, `QuotientsLoop`, `ValuesLoop`, `FlattenLoop`).

*Declarations.* A place in the stable sort is the number of holders that precede one. `PlaceBijection` shows that each place is taken
once, because what precedes is a strict total order, so that sorting is a rearrangement (`SortedFacts`) and, when no owner occurs twice, the only
one in order (`SortedUnique`). `FromSourceExact` then removes order and loops from `from_source`: it accepts when the entries
parse, no owner is listed twice and the sum, as a sum of integers, is below the ceiling; the failed
`checked_add` cannot recover. `AcceptedExactly` follows. Two declarations that differ in order or spelling have bijective entries, so
the same owners, the same sum and the same sorted list (`SameSource`); swapping two entries, capitals, and the written source
are three cases of that. That the other fields are accepted when they should be is `MetaExact`.
`ContextInjective` reads a text behind its length whatever follows it (`PrefixedEqual`), the network and the ticker first; then the
deploy id, the score and the muhash, each of fixed width, and what is left is the indexer: if the preimages are equal, so is each.

*Programs.* `EncodeDecoded` and `DecodeEncoded` say that encoding and decoding are inverse: bytes that decode are the encoding of what they decode
to. A cut is taken only if exactly one window is the state (`OneCut`), and the window where the compiler put it
always is one, so the cut is there. All encodings of a kind have one length, so the two parts keep their place for every later state.

*Witnesses.* `NumberExact` follows a number through its bytes, with the sign in the highest bit or in a byte of its own. `HeaderReads` and
`PushReads` say that a push is read as its value *whatever follows it*; `ReadPushes` turns that, by an induction along the arguments, into a
script read back whole. The engine's reading is a recursion that ends because each push has at least one byte (`ReadingOn`).
`PushShortest` compares a push with every form that is read as the same value. Arrays are cut by element width
(`ArrayOf`, for the one or two states a transfer has).

`PartsKeepTheirSpecs` carries the theorems of `MerkleTreeProofs` over to the tree in the run.

## 7. What is model-checked only, and why

- `EveryonePaid`, `ReceivedSettles`, `EndsCompleteOrExplained`, `RestoredCompletes`, `BusyEnds`: liveness under
  fairness is beyond the prover. Every other property that a passing run checks is a theorem.
- A theorem is about the model. What ties the model to the code is the map in `PROJECT.json` and the mutants.

## 8. What is not modelled, and what is left

- Hash collisions, and the borrow fields and the extension commitment (constants in every cell).
- The script engine and the mass calculator (`harness/src/engine.rs` calls them), the
  SilverScript compiler (`compiler/src/main.rs` wraps it) and the vendored crate: third-party code. What
  they decide is in `SnapshotChain`, `NetworkPlan` (`ScriptsAccept`) and `BuildPins` (`TokenProgram`).
- The manifest CLI: it reads a file and prints.
- The runner's `keygen` and `status`, and the console's display of testnet receipts: they only read or print. A node that
  answers with wrong data: the runner stops on the first such answer.
- JSON and address parsing (libraries), formatting, styles and logging. A tab that is closed or reloaded starts over as a new one.

What could follow: a composition of the runner's stages with `NetworkPlan` (each models the
other as external), and larger chain instances with transfers and tampers together.
