---------------------------- MODULE MCSnapshotFormats ----------------------------
(* Values for the formats of a snapshot: see SnapshotFormats.cfg.          *)
EXTENDS SnapshotFormats

(* Declarations: two keys under two schemes, amounts up to a ceiling of    *)
(* three, and one entry of each kind that must be refused.                 *)
MCMainnet == <<-1>>
MCTestnet10 == <<-2, 1>>
Raw(network, version, payload, value, canonical) ==
    [address |-> [network |-> network, version |-> version, payload |-> payload],
     amount |-> [value |-> value, canonical |-> canonical]]
OnTestnet(version, payload, value) == Raw(MCTestnet10, version, payload, value, TRUE)
MCFewRaws == {OnTestnet("pubkey", 1, 1), Raw(MCMainnet, "pubkey", 1, 1, TRUE)}
MCRaws ==
    {OnTestnet("pubkey", p, a) : p \in 1..2, a \in 1..2}
      \cup {OnTestnet("scripthash", p, 1) : p \in 1..2}
      \cup {OnTestnet("pubkey", 1, a) : a \in {0, 4}}
      \cup {Raw(MCTestnet10, "pubkey", 2, 1, FALSE), Raw(MCMainnet, "pubkey", 1, 1, TRUE),
            OnTestnet("ecdsa", 1, 1),
            [address |-> Garbage, amount |-> [value |-> 1, canonical |-> TRUE]]}

(* The other fields: every combination of a few good ones, and one field   *)
(* at a time that is at a limit or must be refused.                        *)
Hex(value, length, hex) ==
    [value |-> value, length |-> length, hex |-> hex, capitals |-> FALSE]
Good == [network |-> MCTestnet10, ticker |-> <<1>>, indexer |-> <<2>>,
         deploy |-> Hex(1, 64, TRUE), muhash |-> Hex(1, 64, TRUE),
         daa |-> [value |-> 1, canonical |-> TRUE]]
Texts == {<<1>>, <<2>>, <<1, 2>>, <<2, 1>>}
Hashes == {Hex(v, 64, TRUE) : v \in 1..2}
OddTexts == {<<>>, <<0>>, <<-1>>, <<1, 0>>, <<0, 1>>, <<1, 1, 1>>}
OddHexes == {Hex(1, 63, TRUE), Hex(1, 65, TRUE), Hex(1, 64, FALSE)}
MCFewMetas == {Good}
MCMetas ==
    [network : {MCTestnet10}, ticker : Texts, indexer : Texts,
     deploy : Hashes, muhash : Hashes, daa : [value : 1..2, canonical : {TRUE}]]
      \cup {[Good EXCEPT !.network = MCMainnet, !.ticker = t] : t \in Texts}
      \cup {[Good EXCEPT !.network = <<-3>>]}
      \cup {[Good EXCEPT !.ticker = t] : t \in OddTexts}
      \cup {[Good EXCEPT !.indexer = t] : t \in OddTexts}
      \cup {[Good EXCEPT !.deploy = h] : h \in OddHexes}
      \cup {[Good EXCEPT !.muhash = h] : h \in OddHexes}
      \cup {[Good EXCEPT !.daa = d] : d \in [value : {0, 1, 7, 8}, canonical : BOOLEAN]}

(* Programs: amounts, owners and roots of two bytes.  The surroundings hold*)
(* pieces of states, bytes that continue one, and a whole state, that of   *)
(* amount 513, owner <<2, 2>> and scheme 1.                                *)
MCTokenStates ==
    {[amount |-> a, owner |-> o, scheme |-> s] :
        a \in {0, 513, 32767}, o \in {<<2, 2>>, <<0, 1>>}, s \in {1, 3}}
MCRoots == {<<2, 2>>, <<2, 1>>, <<0, 2>>}
Pieces == {<<>>, <<2>>, <<2, 2>>, <<1>>, <<1, 2>>, <<0, 2, 1>>}
MCSurroundings == Pieces \cup {p \o <<2, 1, 2, 2, 2, 2, 1, 1>> : p \in Pieces}
MCBytes == {0, 1, 2, 3, 127, 128, 129, 255}

(* Witnesses: values on both sides of every length at which an encoding    *)
(* changes: the sign bit of one, two and three bytes, a single byte that   *)
(* has an opcode of its own, and 75 and 255 bytes.  No program of this     *)
(* system nears 65535.                                                     *)
Filled(n, byte) == SubSeq([i \in 1..n |-> byte], 1, n)
MCIndices == {0, 16, 17, 127, 128, 255, 256, 1023}
MCAmounts == {1, 129, 32767, 32768, 65536, 8388608}
MCStrings == {Filled(0, 0)} \cup {<<b>> : b \in {0, 1, 17, 129}}
               \cup {Filled(n, 200) : n \in {65, 128}}
MCPrograms == {Filled(n, 81) : n \in {75, 76, 77, 255, 256}}
MCStates == {[amount |-> 0, owner |-> <<0, 0>>, scheme |-> 3],
             [amount |-> 127, owner |-> <<1, 129>>, scheme |-> 0]}
===============================================================================
