---------------------------- MODULE SnapshotFormats ----------------------------
(***************************************************************************)
(* The formats of a snapshot in one specification: what is declared and    *)
(* committed to (SnapshotCanon), the entitlement tree (MerkleTree), the    *)
(* programs made for each state (ProgramTemplate) and the witnesses that   *)
(* spend them (WitnessCodec).  They share no state; a behaviour is of one  *)
(* part, and what the others keep is at rest.                              *)
(***************************************************************************)
EXTENDS MerkleTree, Sequences, Functions

CONSTANTS
    \* Declarations: any entries under a few sets of other fields (part
    \* "lists"), or a few entries under any other fields (part "fields").
    Raws, FewRaws, Metas, FewMetas, Garbage,
    MaxListed,              \* MAX_HOLDERS
    Mainnet, Testnet10, MaxInt, MaxScore, MaxTicker, MaxIndexer,
    \* Programs and the states in them
    TokenStates, Roots, Surroundings, Bytes,
    AmountWidth, OwnerWidth,
    \* Witnesses
    Indices, Amounts, Strings, Programs, States

VARIABLES part, source, result,                     \* SnapshotCanon
          kind, compiled, template, current, program,   \* ProgramTemplate
          meant, states, witness                    \* WitnessCodec

Canon == INSTANCE SnapshotCanon WITH MaxHolders <- MaxListed
Templates == INSTANCE ProgramTemplate
Witnesses == INSTANCE WitnessCodec

canonVars == <<source, result>>
templateVars == <<kind, compiled, template, current, program>>
witnessVars == <<meant, states, witness>>
formatVars == <<part, canonVars, vars, templateVars, witnessVars>>

ASSUME FormatsAssumption ==
    /\ FewRaws \subseteq Raws /\ FewMetas \subseteq Metas
    /\ Canon!CanonAssumption
    /\ Templates!TemplateAssumption
    /\ Witnesses!CodecAssumption

-------------------------------------------------------------------------------
(* At rest: what a part keeps while another is looked at.                  *)
CanonRests == Canon!Init /\ source.meta \in FewMetas
TreeRests == holders = 1 /\ Init
TemplateRests ==
    kind = "" /\ compiled = <<>> /\ template = {} /\ current = <<>> /\ program = <<>>
WitnessRests == Witnesses!Init

FormatsInit ==
    \/ part = "lists" /\ CanonRests /\ TreeRests /\ TemplateRests /\ WitnessRests
    \/ part = "fields" /\ Canon!Init /\ TreeRests /\ TemplateRests /\ WitnessRests
    \/ part = "tree" /\ Init /\ CanonRests /\ TemplateRests /\ WitnessRests
    \/ part = "template" /\ Templates!Init /\ CanonRests /\ TreeRests /\ WitnessRests
    \/ part = "witness" /\ Witnesses!Init /\ CanonRests /\ TreeRests /\ TemplateRests

FormatsNext ==
    /\ UNCHANGED part
    /\ \/ /\ part = "lists" /\ Canon!Next
          /\ UNCHANGED <<vars, templateVars, witnessVars>>
       \/ /\ part = "fields" /\ Canon!Next
          /\ Range(source'.holders) \subseteq FewRaws
          /\ UNCHANGED <<vars, templateVars, witnessVars>>
       \/ /\ part = "tree" /\ Next
          /\ UNCHANGED <<canonVars, templateVars, witnessVars>>
       \/ /\ part = "template" /\ Templates!Next
          /\ UNCHANGED <<canonVars, vars, witnessVars>>
       \/ /\ part = "witness" /\ Witnesses!Next
          /\ UNCHANGED <<canonVars, vars, templateVars>>

FormatsSpec == FormatsInit /\ [][FormatsNext]_formatVars

-------------------------------------------------------------------------------
(* Properties: those of the parts, each stated in its module; the tree's   *)
(* (TreeInv to RootIsLeafVector) hold of a tree at rest too.               *)

(* A source is accepted exactly when it is one that from_source should.    *)
AcceptedExactly == Canon!AcceptedExactly

(* What a source is committed to does not depend on order or spelling.     *)
SameDeclarationSameSnapshot == Canon!SameDeclarationSameSnapshot

(* Sources that say different things have different contexts.              *)
ContextSaysAll == Canon!ContextSaysAll

(* The cut of a program is where the compiler put the state.               *)
CutsWhereCompiled == part = "template" => Templates!CutsWhereCompiled

(* The state read from a program is the one last put in.                   *)
ReadsCurrent == part = "template" => Templates!ReadsCurrent

(* Nothing but the encoding of a state decodes.                            *)
DecodesOnlyEncodings == part = "template" => Templates!DecodesOnlyEncodings

(* The engine, which refuses a push that has a shorter form, reads the     *)
(* arguments of a witness back as they were meant, and the contract cuts   *)
(* its array arguments into the states they were made of.                  *)
ReadsBack ==
    part = "witness" =>
        Witnesses!ReadsBack /\ Witnesses!PushesMinimal /\ Witnesses!ArraysReadBack

(* Script numbers keep sign and value in as few bytes as can be.           *)
NumbersExact == part = "witness" => Witnesses!NumbersExact
===============================================================================
