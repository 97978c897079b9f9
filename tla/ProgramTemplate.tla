---------------------------- MODULE ProgramTemplate ----------------------------
(***************************************************************************)
(* Where the state is in a compiled program.  The compiler gives one       *)
(* program for one state; TokenTemplate and ControllerTemplate in          *)
(* harness/src/snapshot.rs find the state in it, cut it out, and make the  *)
(* programs of every later state by putting another in its place.  The     *)
(* state codec is harness/src/token_state.rs.  The contracts find the      *)
(* state again by the lengths of the two parts.                            *)
(*                                                                         *)
(* Abstractions.  A token state has three of its six fields; amounts are   *)
(* AmountWidth bytes for 8, and owners and roots OwnerWidth for 32.  The   *)
(* rest of a program is any bytes, the state's own among them.             *)
(***************************************************************************)
EXTENDS ScriptBytes

CONSTANTS
    TokenStates,    \* [amount, owner, scheme]
    Roots,          \* states of a controller
    Surroundings,   \* what a compiler may put before and after the state
    Bytes,          \* what a byte of a state may be altered to
    AmountWidth, OwnerWidth

TokenState == [amount : Nat, owner : Seq(Byte), scheme : Byte]

(* An amount is signed, so it leaves one bit of its bytes unused; a root or*)
(* an owner is pushed by a length opcode.                                  *)
TemplateAssumption ==
    /\ AmountWidth \in 1..75 /\ OwnerWidth \in 2..75
    /\ TokenStates \subseteq TokenState
    /\ \A s \in TokenStates : Fits(2 * s.amount, AmountWidth) /\ Len(s.owner) = OwnerWidth
    /\ Roots \subseteq Seq(Byte) /\ \A r \in Roots : Len(r) = OwnerWidth
    /\ Surroundings \subseteq Seq(Byte)
    /\ Bytes \subseteq Byte

VARIABLES
    kind,       \* "token" or "controller"
    compiled,   \* the program as compiled: before, state, after
    template,   \* the template cut from it, at most one: [prefix, suffix]
    current,    \* the state last put into the template
    program     \* the program made of it
vars == <<kind, compiled, template, current, program>>

-------------------------------------------------------------------------------
(* token_state.rs *)

StateLen == 1 + AmountWidth + 1 + OwnerWidth + 1 + 1
OwnerAt == 2 + AmountWidth
SchemeAt == OwnerAt + 1 + OwnerWidth

(* encode: each field behind the opcode that pushes its width. *)
Encode(s) ==
    <<AmountWidth>> \o LittleEndian(s.amount, AmountWidth)
      \o <<OwnerWidth>> \o s.owner \o <<1, s.scheme>>

Fields(bytes) ==
    [amount |-> Unsigned(SubSeq(bytes, 2, 1 + AmountWidth)),
     owner |-> SubSeq(bytes, OwnerAt + 1, OwnerAt + OwnerWidth),
     scheme |-> bytes[SchemeAt + 1]]

(* Mutant: the opcodes are not compared.                                   *)
DecodeAnyOpcodes(bytes) ==
    IF Len(bytes) = StateLen /\ bytes[1 + AmountWidth] < 128 THEN {Fields(bytes)} ELSE {}

(* decode: the state, if the bytes are one: no negative amount, and every  *)
(* opcode in place. *)
Decode(bytes) ==
    IF /\ Len(bytes) = StateLen
       /\ bytes[1 + AmountWidth] < 128
       /\ bytes[1] = AmountWidth /\ bytes[OwnerAt] = OwnerWidth /\ bytes[SchemeAt] = 1
    THEN {Fields(bytes)} ELSE {}

Window(bytes, at, n) == SubSeq(bytes, at + 1, at + n)

(* locate_state_cuts *)
LocateStateCuts(bytes) ==
    {at \in 0..(Len(bytes) - StateLen) : Decode(Window(bytes, at, StateLen)) # {}}

-------------------------------------------------------------------------------
(* The templates. *)

EncodeState(k, s) == IF k = "token" THEN Encode(s) ELSE Push(s)

Matching(k, bytes, s) ==
    LET encoded == EncodeState(k, s)
        n == Len(encoded)
    IN  {at \in IF k = "token" THEN LocateStateCuts(bytes) ELSE 0..(Len(bytes) - n) :
           Window(bytes, at, n) = encoded}

CutAt(k, bytes, s, at) ==
    [prefix |-> SubSeq(bytes, 1, at),
     suffix |-> SubSeq(bytes, at + Len(EncodeState(k, s)) + 1, Len(bytes))]

(* Mutant: the first of several windows is taken.                          *)
FromProgramFirst(k, bytes, s) ==
    {CutAt(k, bytes, s, at) : at \in {a \in Matching(k, bytes, s) :
                                       \A b \in Matching(k, bytes, s) : a <= b}}

(* from_program: the one window that is the state, or an error. *)
FromProgram(k, bytes, s) ==
    {CutAt(k, bytes, s, at) : at \in {a \in Matching(k, bytes, s) :
                                       Matching(k, bytes, s) = {a}}}

(* Mutant: a root is put in without its push.                              *)
ProgramBare(k, t, s) == t.prefix \o (IF k = "token" THEN Encode(s) ELSE s) \o t.suffix

(* program *)
Program(k, t, s) == t.prefix \o EncodeState(k, s) \o t.suffix

-------------------------------------------------------------------------------
StatesOf(k) == IF k = "token" THEN TokenStates ELSE Roots

Init ==
    /\ kind \in {"token", "controller"}
    /\ compiled \in [before : Surroundings, state : StatesOf(kind), after : Surroundings]
    /\ template = {} /\ current = compiled.state
    /\ program = compiled.before \o EncodeState(kind, compiled.state) \o compiled.after

Cut ==
    /\ template = {}
    /\ template' = FromProgram(kind, program, current)
    /\ template' # {}
    /\ UNCHANGED <<kind, compiled, current, program>>

(* A claim, a handoff or a split moves on to another state. *)
Advance ==
    /\ \E t \in template, s \in StatesOf(kind) :
        /\ s # current
        /\ current' = s
        /\ program' = Program(kind, t, s)
    /\ UNCHANGED <<kind, compiled, template>>

Next == Cut \/ Advance

Spec == Init /\ [][Next]_vars

-------------------------------------------------------------------------------
(* Properties. *)

(* The cut is where the compiler put the state, never at bytes that look   *)
(* like it: a program in which they do is refused.                         *)
CutsWhereCompiled ==
    \A t \in template : t.prefix = compiled.before /\ t.suffix = compiled.after

(* Whatever the state becomes, the contract, which knows the program by    *)
(* the lengths of the two parts, reads that state from it: from a token its*)
(* fields, from a controller the push of its root.                         *)
ReadsCurrent ==
    \A t \in template :
        LET n == Len(program) - Len(t.prefix) - Len(t.suffix)
            window == Window(program, Len(t.prefix), n)
        IN  /\ n = IF kind = "token" THEN StateLen ELSE OwnerWidth + 1
            /\ IF kind = "token" THEN Decode(window) = {current}
                                 ELSE window = <<OwnerWidth>> \o current

(* Bytes stand for at most one state and a state has one form: nothing but *)
(* an encoding decodes, so an altered program is never taken for a state.  *)
DecodesOnlyEncodings ==
    \A s \in TokenStates, i \in 1..StateLen, b \in Bytes :
        LET altered == [Encode(s) EXCEPT ![i] = b] IN
        /\ Decode(Encode(s)) = {s}
        /\ \A decoded \in Decode(altered) : Encode(decoded) = altered
===============================================================================
