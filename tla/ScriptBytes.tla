------------------------------ MODULE ScriptBytes ------------------------------
(***************************************************************************)
(* Bytes as the scripts have them: little-endian numbers, and push of      *)
(* harness/src/lib.rs.                                                     *)
(***************************************************************************)
EXTENDS Integers, Sequences

Byte == 0..255

(* What is left of n when its i lowest bytes are gone.                     *)
Quotients(n, width) ==
    LET left[i \in 0..width] == IF i = 0 THEN n ELSE left[i-1] \div 256
    IN  left

(* n in `width` bytes, least significant first: to_le_bytes. *)
LittleEndian(n, width) ==
    LET left == Quotients(n, width) IN [i \in 1..width |-> left[i-1] % 256]

(* No part of n is lost in `width` bytes.                                  *)
Fits(n, width) == Quotients(n, width)[width] = 0

(* The number some bytes stand for, least significant first: the values of *)
(* the k highest bytes, for each k, and of all: from_le_bytes.             *)
Values(bytes) ==
    LET value[k \in 0..Len(bytes)] ==
          IF k = 0 THEN 0 ELSE bytes[Len(bytes) + 1 - k] + 256 * value[k-1]
    IN  value
Unsigned(bytes) == Values(bytes)[Len(bytes)]

(* Mutant: direct pushes up to the opcode of the next form.                *)
HeaderOffByOne(n) ==
    CASE n <= 76 -> <<n>>
      [] 76 < n /\ n <= 255 -> <<76, n>>
      [] 255 < n /\ n <= 65535 -> <<77>> \o LittleEndian(n, 2)
      [] OTHER -> <<78>> \o LittleEndian(n, 4)

(* push: the shortest opcode and length for a byte string. *)
Header(n) ==
    CASE n <= 75 -> <<n>>
      [] 75 < n /\ n <= 255 -> <<76, n>>
      [] 255 < n /\ n <= 65535 -> <<77>> \o LittleEndian(n, 2)
      [] OTHER -> <<78>> \o LittleEndian(n, 4)

Push(value) ==
    IF value = <<>> THEN <<0>>
    ELSE IF value = <<129>> THEN <<79>>
    ELSE IF Len(value) = 1 /\ value[1] \in 1..16 THEN <<80 + value[1]>>
    ELSE Header(Len(value)) \o value
===============================================================================
