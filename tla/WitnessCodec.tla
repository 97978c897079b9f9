------------------------------ MODULE WitnessCodec ------------------------------
(***************************************************************************)
(* How arguments are put into a signature script: push in                  *)
(* harness/src/lib.rs, and script_num, state_args, token_array_args and    *)
(* the two witnesses in harness/src/snapshot.rs.  The engine reads the     *)
(* pushes back from the last byte string to the first opcode and refuses   *)
(* one that is not minimal, so a value at a length boundary that is pushed *)
(* wrongly makes a claim unspendable and no type checker objects.          *)
(*                                                                         *)
(* Abstractions.  Bytes are 0..255 as in the code.  A 32-byte field is one *)
(* of OwnerWidth bytes, an 8-byte amount one of AmountWidth, borrow and    *)
(* extension fields, which are encoded like an owner, are left out.        *)
(***************************************************************************)
EXTENDS ScriptBytes, SequencesExt

CONSTANTS
    Indices,      \* places of a holder in the snapshot
    Amounts,      \* what a holder is entitled to
    Strings,      \* byte strings: signatures and joined siblings
    Programs,     \* byte strings: compiled programs
    States,       \* token states: [amount, owner, scheme]
    AmountWidth, OwnerWidth

(* Numbers are i64, of at most eight bytes.                                *)
CodecAssumption ==
    /\ AmountWidth \in 1..75 /\ OwnerWidth \in 2..75
    /\ \A n \in Indices \cup Amounts : n \in Nat /\ Fits(n, 8)
    /\ Strings \subseteq Seq(Byte) /\ Programs \subseteq Seq(Byte)
    /\ \A s \in Strings \cup Programs : Fits(Len(s), 4)
    /\ States \subseteq [amount : Nat, owner : Seq(Byte), scheme : Byte]
    /\ \A s \in States : /\ Len(s.owner) = OwnerWidth
                         /\ Fits(s.amount, AmountWidth) /\ Fits(s.amount, 8)

VARIABLES
    meant,      \* the arguments a witness was built from, in order
    states,     \* the token states among them
    witness     \* its bytes
vars == <<meant, states, witness>>

-------------------------------------------------------------------------------
(* How many bytes a magnitude takes: the loop ends when nothing is left.   *)
ByteCount(m) == CHOOSE k \in 0..8 : Fits(m, k) /\ \A j \in 0..k-1 : ~Fits(m, j)

(* Mutant: no byte is added for the sign.                                  *)
ScriptNumUnsigned(n) ==
    LET m == IF n < 0 THEN -n ELSE n IN LittleEndian(m, ByteCount(m))

(* script_num: sign and magnitude, the sign in the highest bit. *)
ScriptNum(n) ==
    LET m == IF n < 0 THEN -n ELSE n
        bytes == LittleEndian(m, ByteCount(m))
        high == IF n < 0 THEN 128 ELSE 0
    IN  IF n = 0 THEN <<>>
        ELSE IF Last(bytes) >= 128 THEN Append(bytes, high)
        ELSE [bytes EXCEPT ![Len(bytes)] = @ + high]

PushAll(values) == FlattenSeq([i \in DOMAIN values |-> Push(values[i])])

(* state_args *)
StateArgs(s) == <<ScriptNum(s.amount), s.owner, <<s.scheme>>>>

(* token_array_args: an array argument is its elements in a row. *)
TokenArrayArgs(ss) ==
    <<FlattenSeq([i \in DOMAIN ss |-> LittleEndian(ss[i].amount, AmountWidth)]),
      FlattenSeq([i \in DOMAIN ss |-> ss[i].owner]),
      [i \in DOMAIN ss |-> ss[i].scheme]>>

-------------------------------------------------------------------------------
Init == meant = <<>> /\ states = <<>> /\ witness = <<>>

Build(values, ss) ==
    /\ witness = <<>>
    /\ meant' = values /\ states' = ss /\ witness' = PushAll(values)

TokenWitness ==
    \E ss \in UNION {[1..k -> States] : k \in 1..2}, signatures \in Strings, program \in Programs :
        \E input \in {0, 1} :
            Build(TokenArrayArgs(ss) \o <<signatures, <<input>>, <<>>, program>>, ss)

ControllerWitness ==
    \E index \in Indices, amount \in Amounts, reserve, recipient \in States :
        \E siblings \in Strings, program \in Programs :
            Build(<<ScriptNum(index), <<recipient.scheme>>, recipient.owner,
                    ScriptNum(amount), siblings>>
                    \o StateArgs(reserve) \o StateArgs(recipient) \o <<program>>, <<>>)

(* sign_plain_input *)
PlainWitness == \E signature \in Strings : Build(<<signature>>, <<>>)

Next == TokenWitness \/ ControllerWitness \/ PlainWitness

Spec == Init /\ [][Next]_vars

-------------------------------------------------------------------------------
(* The engine, external: what it reads, and what it takes to be minimal.   *)

(* A read beyond the end returns what is there. *)
Cut(bytes, from, to) ==
    SubSeq(bytes, from, IF to <= Len(bytes) THEN to ELSE Len(bytes))

LengthBytes(op) == CASE op = 76 -> 1 [] op = 77 -> 2 [] op = 78 -> 4 [] OTHER -> 0

(* The value a script begins with, and how many bytes say so. *)
FirstPush(script) ==
    LET op == script[1]
        header == 1 + LengthBytes(op)
        n == IF op <= 75 THEN op ELSE Unsigned(Cut(script, 2, header))
    IN  CASE op = 79 -> [value |-> <<129>>, size |-> 1]
          [] op \in 81..96 -> [value |-> <<op - 80>>, size |-> 1]
          [] OTHER -> [value |-> Cut(script, header + 1, header + n),
                       size |-> header + n]

(* One push after another, from the first byte to beyond the last.         *)
ReadScript(script) ==
    LET read[at \in Nat] ==
          IF at >= Len(script) THEN <<>>
          ELSE LET p == FirstPush(SubSeq(script, at + 1, Len(script)))
               IN  <<p.value>> \o read[at + p.size]
    IN  read[0]

(* Sign and magnitude, least significant byte first. *)
NumberOf(bytes) ==
    IF bytes = <<>> THEN 0
    ELSE LET magnitude == [bytes EXCEPT ![Len(bytes)] = @ % 128]
         IN  IF Last(bytes) >= 128 THEN -Unsigned(magnitude) ELSE Unsigned(magnitude)

-------------------------------------------------------------------------------
(* Properties. *)

(* The engine reads back from every witness the arguments it was built     *)
(* from, each whole, none joined to or cut off by its neighbour.           *)
ReadsBack == ReadScript(witness) = meant

(* No other form of any of its pushes is shorter: the engine refuses a push*)
(* that is not minimal.                                                   *)
Headers(n) ==
    (IF n <= 75 THEN {<<n>>} ELSE {}) \cup (IF n <= 255 THEN {<<76, n>>} ELSE {})
      \cup (IF n <= 65535 THEN {<<77>> \o LittleEndian(n, 2)} ELSE {})
Forms(value) ==
    {h \o value : h \in Headers(Len(value))} \cup {<<op>> : op \in {79} \cup 81..96}
PushesMinimal ==
    \A i \in DOMAIN meant : \A form \in Forms(meant[i]) :
        FirstPush(form).value = meant[i] => Len(Push(meant[i])) <= Len(form)

(* Numbers keep their sign and value, and have no byte to spare. *)
NumbersExact ==
    \A n \in Indices \cup Amounts \cup {-a : a \in Amounts} :
        LET bytes == ScriptNum(n) IN
        /\ NumberOf(bytes) = n
        /\ \/ bytes = <<>>
           \/ Last(bytes) % 128 # 0
           \/ Len(bytes) > 1 /\ bytes[Len(bytes) - 1] >= 128

(* The contract cuts its array arguments into elements of fixed width: it  *)
(* finds each state as it was.                                             *)
ElementAt(array, i, width) == Cut(array, (i - 1) * width + 1, i * width)
ArraysReadBack ==
    states # <<>> =>
        LET args == ReadScript(witness) IN
        \A i \in DOMAIN states :
            /\ Unsigned(ElementAt(args[1], i, AmountWidth)) = states[i].amount
            /\ ElementAt(args[2], i, OwnerWidth) = states[i].owner
            /\ args[3][i] = states[i].scheme
===============================================================================
