----------------------------- MODULE SnapshotCanon -----------------------------
(***************************************************************************)
(* How a declared snapshot becomes the one that is committed to:           *)
(* Snapshot::from_source in harness/src/snapshot.rs, with parse_decimal,   *)
(* owner_from_address and push_len_prefixed.  Two people who declare the   *)
(* same holders must get the same root and manifest, and what they commit  *)
(* to must say everything.                                                 *)
(*                                                                         *)
(* Abstractions.                                                           *)
(*  - A decimal text is its value and whether it is spelled canonically; a *)
(*    text that is no number is one that is not.                           *)
(*  - A hexadecimal text is its length, whether it has hexadecimal digits  *)
(*    only, its value and whether it has capitals.                         *)
(*  - An address is what the address library makes of it, or Garbage; the  *)
(*    network it belongs to is named as a source names it.                 *)
(*  - Network, ticker and indexer are sequences of symbols: a positive one *)
(*    is a capital or a digit, 0 white space, a negative one any other.    *)
(*  - Hashes are their preimages; the tree over the holders is MerkleTree's*)
(*  - In the preimage of the context the fixed tag that begins it is left  *)
(*    out, and a length, a score or a hash, of fixed width, is one symbol. *)
(***************************************************************************)
EXTENDS Integers, Sequences, Functions, TokenUnits

CONSTANTS
    Raws,         \* [address, amount] entries a source may list
    Metas,        \* the other fields a source may have
    MaxHolders,   \* MAX_HOLDERS
    Mainnet, Testnet10,   \* "mainnet" and "testnet-10"
    MaxInt,       \* i64::MAX
    MaxScore,     \* u64::MAX
    MaxTicker, MaxIndexer,
    Garbage       \* an address that does not parse

Text == Seq(Int)
DecimalType == [value : Nat, canonical : BOOLEAN]
HexType == [value : Nat, length : Nat, hex : BOOLEAN, capitals : BOOLEAN]
AddressType ==
    [network : Text, version : {"pubkey", "ecdsa", "scripthash"}, payload : Int]
RawType == [address : {Garbage} \cup AddressType, amount : DecimalType]
MetaType ==
    [network : Text, ticker : Text, indexer : Text,
     deploy : HexType, muhash : HexType, daa : DecimalType]

CanonAssumption ==
    /\ MaxInt \in Nat /\ MaxScore \in Nat
    /\ MaxHolders \in Nat /\ MaxTicker \in Nat /\ MaxIndexer \in Nat
    /\ Mainnet \in Text /\ Testnet10 \in Text /\ Mainnet # Testnet10
    /\ Raws \subseteq RawType /\ Metas \subseteq MetaType
    /\ Garbage \notin AddressType

VARIABLES source, result
vars == <<source, result>>

-------------------------------------------------------------------------------
(* parse_decimal, parse_hex32, the score and owner_from_address *)

ParsesDecimal(text) == text.canonical /\ text.value \in 1..MaxInt
ParsesHex32(text) == text.length = 64 /\ text.hex
ParsesScore(text) == text.value \in 0..MaxScore /\ text.canonical

(* OWNER_P2PK_SCHNORR, OWNER_P2SH *)
Schemes == [v \in {"pubkey", "scripthash"} |-> IF v = "pubkey" THEN 0 ELSE 3]

ParsesOwner(network, address) ==
    /\ address # Garbage
    /\ network \in {Mainnet, Testnet10} /\ address.network = network
    /\ address.version \in DOMAIN Schemes

Holder(raw) == [scheme |-> Schemes[raw.address.version], owner |-> raw.address.payload,
                amount |-> raw.amount.value]

(* The fields besides the holders. *)
MetaAccepted(m) ==
    /\ Len(m.ticker) \in 1..MaxTicker
    /\ \A i \in DOMAIN m.ticker : m.ticker[i] > 0
    /\ ParsesHex32(m.deploy) /\ ParsesHex32(m.muhash)
    /\ ParsesScore(m.daa)
    /\ Len(m.indexer) \in 1..MaxIndexer
    /\ m.indexer[1] # 0 /\ m.indexer[Len(m.indexer)] # 0

(* Mutant: holders are sorted by owner alone.                              *)
BeforeByOwner(h, k) == h.owner < k.owner

(* The key of sort_by_key: by scheme, then by owner. *)
Before(h, k) == h.scheme < k.scheme \/ (h.scheme = k.scheme /\ h.owner < k.owner)

(* sort_by_key is stable: holders of one key stay in the order they had.   *)
Precedes(hs, i, j) == Before(hs[i], hs[j]) \/ (~Before(hs[j], hs[i]) /\ i < j)
Place(hs, i) == Cardinality({j \in DOMAIN hs : Precedes(hs, j, i)}) + 1
Sorted(hs) == [k \in DOMAIN hs |-> hs[CHOOSE i \in DOMAIN hs : Place(hs, i) = k]]

SameOwner(h, k) == h.scheme = k.scheme /\ h.owner = k.owner

(* Mutant: the total wraps.                                                *)
AddWrapping(sum, amount) ==
    IF sum + amount > MaxInt THEN sum + amount - 2 * (MaxInt + 1) ELSE sum + amount

(* checked_add: once it has failed there is no total; -1 says so. *)
CheckedAdd(sum, amount) ==
    IF sum = -1 \/ sum + amount > MaxInt THEN -1 ELSE sum + amount

(* try_fold over the holders *)
Total(hs) ==
    LET sum[k \in 0..Len(hs)] == IF k = 0 THEN 0 ELSE CheckedAdd(sum[k-1], hs[k].amount)
    IN  sum[Len(hs)]

HexEncode(hash) == [value |-> hash, length |-> 64, hex |-> TRUE, capitals |-> FALSE]

(* Mutant: the parts are written one after the other.                      *)
LenPrefixedNot(text) == text

(* push_len_prefixed *)
LenPrefixed(text) == <<Len(text)>> \o text

(* Mutant: the muhash is left out.                                         *)
ContextNoMuhash(m) ==
    LenPrefixed(m.network) \o LenPrefixed(m.ticker)
      \o <<m.deploy.value, m.daa.value>> \o LenPrefixed(m.indexer)

(* The preimage of the context. *)
Context(m) ==
    LenPrefixed(m.network) \o LenPrefixed(m.ticker)
      \o <<m.deploy.value, m.daa.value, m.muhash.value>> \o LenPrefixed(m.indexer)

Rejected == [accepted |-> FALSE]

(* from_source *)
FromSource(src) ==
    LET m == src.meta
        parsed == [i \in DOMAIN src.holders |-> Holder(src.holders[i])]
        sorted == Sorted(parsed)
        total == Total(sorted)
        written == [m EXCEPT !.deploy = HexEncode(@.value), !.muhash = HexEncode(@.value)]
    IN  IF \/ Len(src.holders) \notin 1..MaxHolders
           \/ ~MetaAccepted(m)
           \/ \E i \in DOMAIN src.holders :
                ~(/\ ParsesDecimal(src.holders[i].amount)
                  /\ ParsesOwner(m.network, src.holders[i].address))
           \/ \E i, j \in DOMAIN sorted : i < j /\ SameOwner(sorted[i], sorted[j])
           \/ total = -1
        THEN Rejected
        ELSE [accepted |-> TRUE, holders |-> sorted, total |-> total,
              context |-> Context(m),
              manifest |-> [meta |-> written, holders |-> sorted]]

-------------------------------------------------------------------------------
(* One source after another is declared. *)

Declare(src) == source' = src /\ result' = FromSource(src)

Init ==
    /\ \E m \in Metas : source = [meta |-> m, holders |-> <<>>]
    /\ result = FromSource(source)

AddHolder(raw) ==
    /\ Len(source.holders) <= MaxHolders
    /\ Declare([source EXCEPT !.holders = Append(@, raw)])

(* The same declaration again, listed in another order ... *)
Shuffle ==
    \E i, j \in DOMAIN source.holders :
        /\ i < j
        /\ Declare([source EXCEPT !.holders[i] = source.holders[j],
                                  !.holders[j] = source.holders[i]])

(* ... with either of its hashes in capitals or not ... *)
Respell ==
    \/ Declare([source EXCEPT !.meta.deploy.capitals = ~@])
    \/ Declare([source EXCEPT !.meta.muhash.capitals = ~@])

(* ... or as the canonical source that was written for it (source_json).   *)
RawOf(network, h) ==
    [address |-> [network |-> network, payload |-> h.owner,
                  version |-> CHOOSE v \in DOMAIN Schemes : Schemes[v] = h.scheme],
     amount |-> [value |-> h.amount, canonical |-> TRUE]]
Recommit ==
    /\ result.accepted
    /\ Declare([meta |-> result.manifest.meta,
                holders |-> [i \in DOMAIN result.holders |->
                               RawOf(source.meta.network, result.holders[i])]])

Next == (\E raw \in Raws : AddHolder(raw)) \/ Shuffle \/ Respell \/ Recommit

Spec == Init /\ [][Next]_vars

-------------------------------------------------------------------------------
(* Properties. *)

(* The order in which holders are declared, the capitals of a hash, and    *)
(* declaring the canonical source itself change nothing that is committed  *)
(* to: root, context, manifest and total.                                  *)
SameDeclarationSameSnapshot ==
    [][(Shuffle \/ Respell \/ Recommit) => result' = result]_vars

(* A source is accepted exactly when its ticker is capitals and digits, its*)
(* indexer begins and ends in no space, both hashes are 32 bytes in hex and*)
(* the score is a u64; each entry is an address of the network with a      *)
(* supported owner and a canonical positive amount, no owner appears twice,*)
(* and the amounts fit together.  Then each declared holder has one leaf,  *)
(* and the total is what the leaves add up to, in integers.                *)
Owners == {<<raw.address.version, raw.address.payload>> : raw \in Range(source.holders)}
Sum == Weight(DOMAIN source.holders,
              [i \in DOMAIN source.holders |-> source.holders[i].amount.value])
AcceptedExactly ==
    LET n == Len(source.holders)
        m == source.meta
    IN
    /\ result.accepted <=>
        /\ n \in 1..MaxHolders
        /\ m.ticker # <<>> /\ Len(m.ticker) <= MaxTicker
        /\ \A symbol \in Range(m.ticker) : symbol > 0
        /\ m.indexer # <<>> /\ Len(m.indexer) <= MaxIndexer
        /\ 0 \notin {Head(m.indexer), m.indexer[Len(m.indexer)]}
        /\ \A hash \in {m.deploy, m.muhash} : hash.length = 64 /\ hash.hex
        /\ m.daa.canonical /\ m.daa.value <= MaxScore
        /\ m.network \in {Mainnet, Testnet10}
        /\ \A raw \in Range(source.holders) :
            /\ raw.address # Garbage /\ raw.address.network = m.network
            /\ raw.address.version \in {"pubkey", "scripthash"}
            /\ raw.amount.canonical /\ raw.amount.value > 0
        /\ Cardinality(Owners) = n
        /\ Sum <= MaxInt
    /\ result.accepted =>
        /\ result.total = Sum
        /\ Range(result.holders) = {Holder(raw) : raw \in Range(source.holders)}
        /\ Len(result.holders) = n

(* Fields that differ in the network, the ticker, the deploy id, the score,*)
(* the muhash or the indexer get another context than what was committed   *)
(* to, and with it other leaves: an entitlement of one declaration is no   *)
(* entitlement of another.                                                 *)
ContextSaysAll ==
    result.accepted =>
        \A m \in Metas :
            MetaAccepted(m) /\ Context(m) = result.context =>
                LET n == source.meta IN
                /\ m.network = n.network /\ m.ticker = n.ticker
                /\ m.deploy.value = n.deploy.value /\ m.daa.value = n.daa.value
                /\ m.muhash.value = n.muhash.value /\ m.indexer = n.indexer
===============================================================================
