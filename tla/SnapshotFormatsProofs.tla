-------------------------- MODULE SnapshotFormatsProofs --------------------------
(***************************************************************************)
(* Theorems about SnapshotFormats, for any declarations, any programs and  *)
(* the states in them, and any arguments of a witness, each field as wide  *)
(* as it may be pushed.  The loops of the code (the sort, the checked      *)
(* total, bytes of numbers, the reading of a script) are shown to be what  *)
(* they say; then a snapshot depends on what was declared and on nothing   *)
(* else, a program is its two parts around one state, and the pushes of a  *)
(* witness are read one after the other as the values they are of.         *)
(***************************************************************************)
EXTENDS SnapshotFormats, ScriptBytes, TokenUnitsProofs, SequenceTheorems

-------------------------------------------------------------------------------
(* The stable sort of sort_by_key.                                         *)

(* A total does not depend on what the units are held by.                  *)
LEMMA WeightBijection ==
    ASSUME NEW S, NEW T, IsFiniteSet(S), NEW f \in Bijection(S, T),
           NEW v, NEW w, \A x \in S : v[x] \in Nat /\ w[f[x]] = v[x]
    PROVE  Weight(T, w) = Weight(S, v)
<1> DEFINE g == [u \in Units(S, v) |-> <<f[u[1]], u[2]>>]
<1>1. /\ f \in [S -> T] /\ \A a, b \in S : f[a] = f[b] => a = b
      /\ \A t \in T : \E s \in S : f[s] = t
  BY Fun_BijectionProperties
<1>2. \A u : u \in Units(S, v) <=> u = <<u[1], u[2]>> /\ u[1] \in S /\ u[2] \in 1..v[u[1]]
  BY DEF Units
<1>3. \A u : u \in Units(T, w) <=> u = <<u[1], u[2]>> /\ u[1] \in T /\ u[2] \in 1..w[u[1]]
  BY DEF Units
<1>4. g \in [Units(S, v) -> Units(T, w)]
  <2> SUFFICES ASSUME NEW u \in Units(S, v) PROVE <<f[u[1]], u[2]>> \in Units(T, w)
    OBVIOUS
  <2>1. u[1] \in S /\ u[2] \in 1..v[u[1]]
    BY <1>2
  <2>2. f[u[1]] \in T /\ u[2] \in 1..w[f[u[1]]]
    BY <2>1, <1>1
  <2> QED BY <2>2, <1>3
<1>5. ASSUME NEW a \in Units(S, v), NEW b \in Units(S, v), g[a] = g[b] PROVE a = b
  <2>1. <<f[a[1]], a[2]>> = <<f[b[1]], b[2]>>
    BY <1>5
  <2>2. f[a[1]] = f[b[1]] /\ a[2] = b[2]
    BY <2>1
  <2>3. a[1] \in S /\ b[1] \in S /\ a = <<a[1], a[2]>> /\ b = <<b[1], b[2]>>
    BY <1>2
  <2>4. a[1] = b[1]
    BY <2>2, <2>3, <1>1
  <2> QED BY <2>2, <2>3, <2>4
<1>6. ASSUME NEW t \in Units(T, w) PROVE \E u \in Units(S, v) : g[u] = t
  <2>1. t = <<t[1], t[2]>> /\ t[1] \in T /\ t[2] \in 1..w[t[1]]
    BY <1>3
  <2>2. PICK s \in S : f[s] = t[1]
    BY <2>1, <1>1
  <2>3. t[2] \in 1..v[s]
    BY <2>1, <2>2
  <2> DEFINE u == <<s, t[2]>>
  <2>4. u[1] = s /\ u[2] = t[2]
    OBVIOUS
  <2>5. u \in Units(S, v)
    BY <2>3, <2>4, <1>2
  <2>6. g[u] = <<f[s], t[2]>>
    BY <2>5, <2>4
  <2> QED BY <2>5, <2>6, <2>2, <2>1
<1> HIDE DEF g
<1>7. g \in Bijection(Units(S, v), Units(T, w))
  BY <1>4, <1>5, <1>6, Fun_IsBij
<1>8. ExistsBijection(Units(S, v), Units(T, w))
  BY <1>7 DEF ExistsBijection
<1>9. IsFiniteSet(Units(S, v))
  BY UnitsFinite
<1> QED BY <1>8, <1>9, FS_Bijection DEF Weight

(* An instance has its own copy of the operators its module extends.       *)
LEMMA CanonTerms ==
    /\ \A S : Canon!Cardinality(S) = Cardinality(S)
    /\ \A f : Canon!Range(f) = Range(f)
    /\ \A S, w : Canon!Weight(S, w) = Weight(S, w)
<1>1. ASSUME NEW S PROVE Canon!Cardinality(S) = Cardinality(S)
  BY Zenon DEF Canon!Cardinality, Cardinality
<1>2. ASSUME NEW f PROVE Canon!Range(f) = Range(f)
  BY Zenon DEF Canon!Range, Range
<1>3. ASSUME NEW S, NEW w PROVE Canon!Weight(S, w) = Weight(S, w)
  BY Zenon, <1>1 DEF Canon!Weight, Canon!Units, Weight, Units
<1> QED BY <1>1, <1>2, <1>3

(* What an entry that parses is parsed to.                                 *)
HolderType == [scheme : {0, 3}, owner : Int, amount : Nat]

(* Stable order by scheme and owner is total on the places of a list.      *)
LEMMA PrecedesOrder ==
    ASSUME NEW hs \in Seq(HolderType)
    PROVE  /\ \A i \in DOMAIN hs : ~Canon!Precedes(hs, i, i)
           /\ \A i, j, k \in DOMAIN hs :
                Canon!Precedes(hs, i, j) /\ Canon!Precedes(hs, j, k) => Canon!Precedes(hs, i, k)
           /\ \A i, j \in DOMAIN hs :
                i # j => Canon!Precedes(hs, i, j) \/ Canon!Precedes(hs, j, i)
<1>1. \A i \in DOMAIN hs : i \in Int /\ hs[i] \in HolderType
  BY ElementOfSeq, LenProperties
<1>2. \A i \in DOMAIN hs : i \in Int /\ hs[i].scheme \in Int /\ hs[i].owner \in Int
  BY <1>1 DEF HolderType
<1>3. ASSUME NEW i \in DOMAIN hs PROVE ~Canon!Precedes(hs, i, i)
  BY <1>2 DEF Canon!Precedes, Canon!Before
<1>4. ASSUME NEW i \in DOMAIN hs, NEW j \in DOMAIN hs, NEW k \in DOMAIN hs,
             Canon!Precedes(hs, i, j), Canon!Precedes(hs, j, k)
      PROVE  Canon!Precedes(hs, i, k)
  BY <1>2, <1>4, SMTT(30) DEF Canon!Precedes, Canon!Before
<1>5. ASSUME NEW i \in DOMAIN hs, NEW j \in DOMAIN hs, i # j
      PROVE  Canon!Precedes(hs, i, j) \/ Canon!Precedes(hs, j, i)
  BY <1>2, <1>5 DEF Canon!Precedes, Canon!Before
<1> QED BY <1>3, <1>4, <1>5

(* The order of sort_by_key gives each holder a place of its own.          *)
LEMMA PlaceBijection ==
    ASSUME NEW hs \in Seq(HolderType)
    PROVE  /\ [i \in DOMAIN hs |-> Canon!Place(hs, i)] \in Bijection(DOMAIN hs, DOMAIN hs)
           /\ \A i, j \in DOMAIN hs :
                Canon!Precedes(hs, i, j) => Canon!Place(hs, i) < Canon!Place(hs, j)
<1> DEFINE D == DOMAIN hs
           P(i, j) == Canon!Precedes(hs, i, j)
           Earlier(i) == {j \in D : P(j, i)}
           place == [i \in D |-> Cardinality(Earlier(i)) + 1]
<1>0. D = 1..Len(hs) /\ Len(hs) \in Nat
  BY LenProperties
<1>1. IsFiniteSet(D) /\ Cardinality(D) = Len(hs)
  BY <1>0, FS_Interval
<1>2. /\ \A i \in D : ~P(i, i)
      /\ \A i, j, k \in D : P(i, j) /\ P(j, k) => P(i, k)
      /\ \A i, j \in D : i # j => P(i, j) \/ P(j, i)
  BY PrecedesOrder
<1> HIDE DEF D, P, Earlier
<1>3. \A i \in D : /\ Earlier(i) \in SUBSET D /\ Earlier(i) # D
                   /\ IsFiniteSet(Earlier(i)) /\ Cardinality(Earlier(i)) \in Nat
                   /\ Cardinality(Earlier(i)) < Len(hs)
  <2> SUFFICES ASSUME NEW i \in D
               PROVE  /\ Earlier(i) \in SUBSET D /\ Earlier(i) # D
                      /\ IsFiniteSet(Earlier(i)) /\ Cardinality(Earlier(i)) \in Nat
                      /\ Cardinality(Earlier(i)) < Len(hs)
    OBVIOUS
  <2>1. Earlier(i) \in SUBSET D /\ Earlier(i) # D
    BY <1>2 DEF Earlier
  <2>2. /\ IsFiniteSet(Earlier(i)) /\ Cardinality(Earlier(i)) <= Cardinality(D)
        /\ Cardinality(Earlier(i)) # Cardinality(D)
    BY <2>1, <1>1, FS_Subset
  <2>3. Cardinality(Earlier(i)) \in Nat
    BY <2>2, FS_CardinalityType
  <2> QED BY <2>1, <2>2, <2>3, <1>1, <1>0
<1>4. ASSUME NEW i \in D, NEW j \in D, P(i, j)
      PROVE  Cardinality(Earlier(i)) < Cardinality(Earlier(j))
  <2>1. Earlier(i) \in SUBSET Earlier(j) /\ Earlier(i) # Earlier(j)
    BY <1>2, <1>4 DEF Earlier
  <2>2. /\ Cardinality(Earlier(i)) <= Cardinality(Earlier(j))
        /\ Cardinality(Earlier(i)) # Cardinality(Earlier(j))
    BY <2>1, <1>3, FS_Subset
  <2> QED BY <2>2, <1>3
<1>5. place \in [D -> D]
  <2> SUFFICES ASSUME NEW i \in D PROVE Cardinality(Earlier(i)) + 1 \in D
    OBVIOUS
  <2> QED BY <1>3, <1>0
<1>6. ASSUME NEW i \in D, NEW j \in D, place[i] = place[j] PROVE i = j
  <2>1. Cardinality(Earlier(i)) = Cardinality(Earlier(j))
    BY <1>6, <1>3
  <2>2. ~P(i, j) /\ ~P(j, i)
    BY <2>1, <1>3, <1>4
  <2> QED BY <2>2, <1>2
<1>7. place \in Injection(D, D)
  BY <1>5, <1>6, Fun_IsInj
<1>8. place \in Surjection(D, D)
  BY <1>7, <1>1, FS_Injection
<1>9. place \in Bijection(D, D)
  BY <1>7, <1>8 DEF Bijection
<1>10. \A i \in D : Canon!Place(hs, i) = Cardinality(Earlier(i)) + 1
  <2> SUFFICES ASSUME NEW i \in D
               PROVE  Canon!Place(hs, i) = Cardinality(Earlier(i)) + 1
    OBVIOUS
  <2>1. {j \in DOMAIN hs : Canon!Precedes(hs, j, i)} = Earlier(i)
    BY DEF D, P, Earlier
  <2>2. Canon!Place(hs, i) = Cardinality({j \in DOMAIN hs : Canon!Precedes(hs, j, i)}) + 1
    BY Zenon, CanonTerms DEF Canon!Place
  <2> QED BY <2>1, <2>2
<1>11. place = [i \in DOMAIN hs |-> Canon!Place(hs, i)]
  BY <1>10 DEF D
<1>12. ASSUME NEW i \in DOMAIN hs, NEW j \in DOMAIN hs, Canon!Precedes(hs, i, j)
       PROVE  Canon!Place(hs, i) < Canon!Place(hs, j)
  <2>1. i \in D /\ j \in D /\ P(i, j)
    BY <1>12 DEF D, P
  <2>2. Cardinality(Earlier(i)) < Cardinality(Earlier(j))
    BY <2>1, <1>4
  <2> QED BY <2>1, <2>2, <1>3, <1>10
<1> QED BY <1>9, <1>11, <1>12 DEF D

(* Where the holder at place k of the sorted list was listed.              *)
SortedFrom(hs, k) == CHOOSE i \in DOMAIN hs : Canon!Place(hs, i) = k

(* What sort_by_key gives is what it was given, in order.                  *)
LEMMA SortedFacts ==
    ASSUME NEW hs \in Seq(HolderType)
    PROVE  /\ [k \in DOMAIN hs |-> SortedFrom(hs, k)] \in Bijection(DOMAIN hs, DOMAIN hs)
           /\ \A k \in DOMAIN hs : Canon!Place(hs, SortedFrom(hs, k)) = k
           /\ \A k \in DOMAIN hs : Canon!Sorted(hs)[k] = hs[SortedFrom(hs, k)]
           /\ DOMAIN Canon!Sorted(hs) = DOMAIN hs
           /\ Canon!Sorted(hs) \in Seq(HolderType)
           /\ Len(Canon!Sorted(hs)) = Len(hs)
           /\ Range(Canon!Sorted(hs)) = Range(hs)
<1> DEFINE D == DOMAIN hs
           place == [i \in D |-> Canon!Place(hs, i)]
           from == [k \in D |-> SortedFrom(hs, k)]
<1>0. D = 1..Len(hs) /\ Len(hs) \in Nat /\ \A i \in D : hs[i] \in HolderType
  BY LenProperties, ElementOfSeq
<1>1. place \in Bijection(D, D)
  BY PlaceBijection
<1> HIDE DEF place
<1>2. /\ place \in [D -> D] /\ \A a, b \in D : place[a] = place[b] => a = b
      /\ \A t \in D : \E s \in D : place[s] = t
  BY <1>1, Fun_BijectionProperties
<1>3. \A i \in D : place[i] = Canon!Place(hs, i)
  BY DEF place
<1>4. \A k \in D : SortedFrom(hs, k) \in D /\ Canon!Place(hs, SortedFrom(hs, k)) = k
  BY <1>2, <1>3 DEF SortedFrom
<1>5. from \in [D -> D]
  BY <1>4
<1>6. ASSUME NEW a \in D, NEW b \in D, from[a] = from[b] PROVE a = b
  BY <1>4, <1>6
<1>7. ASSUME NEW i \in D PROVE \E k \in D : from[k] = i
  <2>1. place[i] \in D
    BY <1>2
  <2>2. SortedFrom(hs, place[i]) = i
    BY <2>1, <1>2, <1>3, <1>4
  <2> QED BY <2>1, <2>2
<1>8. from \in Bijection(D, D)
  BY <1>5, <1>6, <1>7, Fun_IsBij
<1>9. Canon!Sorted(hs) = [k \in D |-> hs[SortedFrom(hs, k)]]
  BY DEF Canon!Sorted, SortedFrom
<1>10. DOMAIN Canon!Sorted(hs) = D /\ \A k \in D : Canon!Sorted(hs)[k] = hs[SortedFrom(hs, k)]
  BY <1>9
<1>11. Canon!Sorted(hs) \in [1..Len(hs) -> HolderType]
  BY <1>9, <1>0, <1>4
<1>12. Canon!Sorted(hs) \in Seq(HolderType) /\ Len(Canon!Sorted(hs)) = Len(hs)
  BY <1>11, <1>10, <1>0
<1>13. Range(Canon!Sorted(hs)) = Range(hs)
  <2>1. \A k \in D : Canon!Sorted(hs)[k] \in {hs[i] : i \in D}
    BY <1>10, <1>4
  <2>2. \A i \in D : \E k \in D : hs[i] = Canon!Sorted(hs)[k]
    BY <1>10, <1>7
  <2> QED BY <1>10, <2>1, <2>2 DEF Range
<1> QED BY <1>4, <1>8, <1>10, <1>12, <1>13

(* No owner is listed twice: what the loop with the set seen lets          *)
(* through.                                                                *)
NoOwnerTwice(hs) == \A i, j \in DOMAIN hs : Canon!SameOwner(hs[i], hs[j]) => i = j

(* Sorting brings no owner in twice and loses none.                        *)
LEMMA SortedOwners ==
    ASSUME NEW hs \in Seq(HolderType)
    PROVE  NoOwnerTwice(Canon!Sorted(hs)) <=> NoOwnerTwice(hs)
<1> DEFINE D == DOMAIN hs
           from == [k \in D |-> SortedFrom(hs, k)]
           s == Canon!Sorted(hs)
<1>1. from \in Bijection(D, D) /\ DOMAIN s = D /\ \A k \in D : s[k] = hs[from[k]]
  BY SortedFacts
<1> HIDE DEF from, D, s
<1>2. /\ from \in [D -> D] /\ \A a, b \in D : from[a] = from[b] => a = b
      /\ \A t \in D : \E k \in D : from[k] = t
  BY <1>1, Fun_BijectionProperties
<1>3. NoOwnerTwice(s) <=> \A i, j \in D : Canon!SameOwner(s[i], s[j]) => i = j
  BY <1>1 DEF NoOwnerTwice
<1>4. NoOwnerTwice(hs) <=> \A i, j \in D : Canon!SameOwner(hs[i], hs[j]) => i = j
  BY DEF NoOwnerTwice, D
<1>5. ASSUME NoOwnerTwice(s) PROVE NoOwnerTwice(hs)
  <2> SUFFICES ASSUME NEW i \in D, NEW j \in D, Canon!SameOwner(hs[i], hs[j]) PROVE i = j
    BY <1>4
  <2>1. PICK k \in D : from[k] = i
    BY <1>2
  <2>2. PICK l \in D : from[l] = j
    BY <1>2
  <2>3. s[k] = hs[i] /\ s[l] = hs[j]
    BY <1>1, <2>1, <2>2
  <2>4. k = l
    BY <2>3, <1>3, <1>5
  <2> QED BY <2>1, <2>2, <2>4
<1>6. ASSUME NoOwnerTwice(hs) PROVE NoOwnerTwice(s)
  <2> SUFFICES ASSUME NEW i \in D, NEW j \in D, Canon!SameOwner(s[i], s[j]) PROVE i = j
    BY <1>3
  <2>1. from[i] = from[j]
    BY <1>1, <1>2, <1>4, <1>6
  <2> QED BY <2>1, <1>2
<1> QED BY <1>5, <1>6 DEF s

(* With no owner twice, a holder's place is told by the holders alone, not *)
(* by where they were listed.                                              *)
LEMMA SortedByRange ==
    ASSUME NEW hs \in Seq(HolderType), NoOwnerTwice(hs), NEW k \in DOMAIN hs
    PROVE  /\ Canon!Sorted(hs)[k] \in Range(hs)
           /\ k = Cardinality({g \in Range(hs) : Canon!Before(g, Canon!Sorted(hs)[k])}) + 1
<1> DEFINE D == DOMAIN hs
           i == SortedFrom(hs, k)
           Earlier == {j \in D : Canon!Precedes(hs, j, i)}
           Less == {g \in Range(hs) : Canon!Before(g, hs[i])}
           f == [j \in Earlier |-> hs[j]]
<1>0. D = 1..Len(hs) /\ Len(hs) \in Nat /\ \A j \in D : hs[j] \in HolderType
  BY LenProperties, ElementOfSeq
<1>1. i \in D /\ Canon!Place(hs, i) = k /\ Canon!Sorted(hs)[k] = hs[i]
  <2>1. [kk \in D |-> SortedFrom(hs, kk)] \in [D -> D]
    BY SortedFacts, Fun_BijectionProperties
  <2> QED BY <2>1, SortedFacts
<1> HIDE DEF i
<1>2. k = Cardinality(Earlier) + 1
  <2>1. Canon!Place(hs, i) = Cardinality(Earlier) + 1
    BY Zenon, CanonTerms DEF Canon!Place
  <2> QED BY <2>1, <1>1
<1>3. \A j \in D : j # i => (Canon!Precedes(hs, j, i) <=> Canon!Before(hs[j], hs[i]))
  <2> SUFFICES ASSUME NEW j \in D, j # i
               PROVE  Canon!Precedes(hs, j, i) <=> Canon!Before(hs[j], hs[i])
    OBVIOUS
  <2>1. ~Canon!SameOwner(hs[j], hs[i])
    BY <1>1 DEF NoOwnerTwice
  <2>2. hs[i] \in HolderType /\ hs[j] \in HolderType
    BY <1>0, <1>1
  <2>3. /\ hs[i].scheme \in Int /\ hs[j].scheme \in Int
        /\ hs[i].owner \in Int /\ hs[j].owner \in Int
    BY <2>2, SMTT(30) DEF HolderType
  <2>4. Canon!Before(hs[j], hs[i]) \/ Canon!Before(hs[i], hs[j])
    BY <2>1, <2>3 DEF Canon!SameOwner, Canon!Before
  <2>5. ~(Canon!Before(hs[j], hs[i]) /\ Canon!Before(hs[i], hs[j]))
    BY <2>3 DEF Canon!Before
  <2> QED BY <2>4, <2>5 DEF Canon!Precedes
<1>4. ~Canon!Precedes(hs, i, i)
  BY <1>1, PrecedesOrder
<1>5. \A g : g \in Range(hs) <=> \E j \in D : hs[j] = g
  BY DEF Range
<1>6. ~Canon!Before(hs[i], hs[i])
  BY <1>4 DEF Canon!Precedes
<1>7. f \in [Earlier -> Less]
  BY <1>3, <1>4, <1>5
<1>8. ASSUME NEW a \in Earlier, NEW b \in Earlier, f[a] = f[b] PROVE a = b
  <2>1. hs[a] = hs[b] /\ a \in D /\ b \in D
    BY <1>8
  <2> QED BY <2>1 DEF NoOwnerTwice, Canon!SameOwner
<1>9. ASSUME NEW g \in Less PROVE \E j \in Earlier : f[j] = g
  <2>1. PICK j \in D : hs[j] = g
    BY <1>5
  <2>2. j # i
    BY <2>1, <1>6
  <2>3. j \in Earlier
    BY <2>1, <2>2, <1>3
  <2> QED BY <2>1, <2>3
<1> HIDE DEF f, Earlier, Less
<1>10. f \in Bijection(Earlier, Less)
  BY <1>7, <1>8, <1>9, Fun_IsBij
<1>11. IsFiniteSet(Earlier)
  <2>1. IsFiniteSet(D) /\ Earlier \in SUBSET D
    BY <1>0, FS_Interval DEF Earlier
  <2> QED BY <2>1, FS_Subset
<1>12. Cardinality(Less) = Cardinality(Earlier)
  BY <1>10, <1>11, FS_Bijection DEF ExistsBijection
<1>13. Less = {g \in Range(hs) : Canon!Before(g, Canon!Sorted(hs)[k])}
  BY <1>1 DEF Less
<1> QED BY <1>1, <1>2, <1>5, <1>12, <1>13

(* Two lists of the same holders are sorted to the same one.               *)
LEMMA SortedUnique ==
    ASSUME NEW hs \in Seq(HolderType), NEW gs \in Seq(HolderType),
           NoOwnerTwice(hs), NoOwnerTwice(gs),
           Len(hs) = Len(gs), Range(hs) = Range(gs)
    PROVE  Canon!Sorted(hs) = Canon!Sorted(gs)
<1> DEFINE D == DOMAIN hs
           R == Range(hs)
           s == Canon!Sorted(hs)
           t == Canon!Sorted(gs)
           Less(h) == {g \in R : Canon!Before(g, h)}
<1>1. DOMAIN gs = D
  BY LenProperties
<1>2. /\ s \in Seq(HolderType) /\ t \in Seq(HolderType)
      /\ Len(s) = Len(hs) /\ Len(t) = Len(hs) /\ 1..Len(s) = D
  BY SortedFacts, LenProperties
<1>3. R \subseteq HolderType
  BY ElementOfSeq, LenProperties DEF Range
<1>4. IsFiniteSet(R)
  <2>1. IsFiniteSet(D)
    BY LenProperties, FS_Interval
  <2>2. hs \in Surjection(D, R)
    BY LenProperties, Fun_RangeProperties
  <2> QED BY <2>1, <2>2, FS_Surjection
<1>5. ASSUME NEW k \in D
      PROVE  /\ s[k] \in R /\ k = Cardinality(Less(s[k])) + 1
             /\ t[k] \in R /\ k = Cardinality(Less(t[k])) + 1
  <2>1. s[k] \in R /\ k = Cardinality(Less(s[k])) + 1
    BY SortedByRange
  <2>2. k \in DOMAIN gs /\ Range(gs) = R
    BY <1>1
  <2>3. t[k] \in Range(gs)
        /\ k = Cardinality({g \in Range(gs) : Canon!Before(g, t[k])}) + 1
    BY <2>2, SortedByRange
  <2> QED BY <2>1, <2>2, <2>3
<1>6. \A g, h \in R : Canon!SameOwner(g, h) => g = h
  BY DEF NoOwnerTwice, Range
<1> HIDE DEF s, t, D, R
<1>7. ASSUME NEW g \in R, NEW h \in R, Canon!Before(g, h)
      PROVE  Cardinality(Less(g)) # Cardinality(Less(h))
  <2>1. \A x \in R : x.scheme \in Int /\ x.owner \in Int
    BY <1>3 DEF HolderType
  <2>2. ~Canon!Before(g, g)
    BY <2>1 DEF Canon!Before
  <2>3. \A x \in R : Canon!Before(x, g) => Canon!Before(x, h)
    BY <2>1, <1>7 DEF Canon!Before
  <2>4. Less(g) \in SUBSET Less(h) /\ Less(g) # Less(h) /\ Less(h) \in SUBSET R
    BY <2>2, <2>3, <1>7
  <2> HIDE DEF Less
  <2>5. IsFiniteSet(Less(h))
    BY <2>4, <1>4, FS_Subset
  <2> QED BY <2>4, <2>5, FS_Subset
<1> HIDE DEF Less
<1>8. \A c, d : Cardinality(Less(c)) + 1 = Cardinality(Less(d)) + 1
                /\ Cardinality(Less(c)) \in Nat /\ Cardinality(Less(d)) \in Nat
                => Cardinality(Less(c)) = Cardinality(Less(d))
  OBVIOUS
<1>9. \A c : Cardinality(Less(c)) \in Nat
  <2> SUFFICES ASSUME NEW c PROVE Cardinality(Less(c)) \in Nat
    OBVIOUS
  <2>1. Less(c) \in SUBSET R
    BY DEF Less
  <2> QED BY <2>1, <1>4, FS_Subset, FS_CardinalityType
<1>10. ASSUME NEW k \in D PROVE s[k] = t[k]
  <2>1. s[k] \in R /\ t[k] \in R
    BY <1>5
  <2>2. Cardinality(Less(s[k])) = Cardinality(Less(t[k]))
    BY <1>5, <1>8, <1>9
  <2>3. ~Canon!Before(s[k], t[k]) /\ ~Canon!Before(t[k], s[k])
    BY <2>1, <2>2, <1>7
  <2>4. s[k] \in HolderType /\ t[k] \in HolderType
    BY <2>1, <1>3
  <2>5. Canon!SameOwner(s[k], t[k])
    BY <2>3, <2>4 DEF HolderType, Canon!Before, Canon!SameOwner
  <2> QED BY <2>1, <2>5, <1>6
<1> QED BY <1>2, <1>10, SeqEqual DEF s, t

-------------------------------------------------------------------------------
(* The checked total and what from_source accepts.                         *)

(* A loop of N steps has a value in V after each: step k takes x to F[k, x].*)
StepsIn(F, N, V) == \A k \in 1..N, x \in V : F[<<k, x>>] \in V
Loops(g, F, N, V, v) ==
    g \in [0..N -> V] /\ g[0] = v /\ \A k \in 1..N : g[k] = F[<<k, g[k-1]>>]

(* There is such a loop.                                                   *)
LEMMA Loop ==
    ASSUME NEW N \in Nat, NEW V, NEW v \in V, NEW F, StepsIn(F, N, V)
    PROVE  \E g : Loops(g, F, N, V, v)
<1> DEFINE Is(g, n) == /\ g \in [0..n -> V] /\ g[0] = v
                       /\ \A k \in 1..n : g[k] = F[<<k, g[k-1]>>]
           S == {n \in Nat : \E g : Is(g, n)}
<1>1. 0 \in S
  <2>1. Is([k \in 0..0 |-> v], 0)
    OBVIOUS
  <2> QED BY <2>1
<1>2. ASSUME NEW n \in 0..N-1, n \in S PROVE n + 1 \in S
  <2>1. PICK g : Is(g, n)
    BY <1>2
  <2> DEFINE h == [k \in 0..n+1 |-> IF k = n + 1 THEN F[<<n + 1, g[n]>>] ELSE g[k]]
  <2>2. F[<<n + 1, g[n]>>] \in V
    BY <2>1 DEF StepsIn
  <2>3. h \in [0..n+1 -> V] /\ h[0] = v
    BY <2>1, <2>2
  <2>4. ASSUME NEW k \in 1..n+1 PROVE h[k] = F[<<k, h[k-1]>>]
    <3>1. CASE k = n + 1
      BY <3>1, SMTT(30)
    <3>2. CASE k \in 1..n
      BY <2>1, <3>2
    <3> QED BY <3>1, <3>2
  <2>5. Is(h, n + 1)
    BY <2>3, <2>4
  <2>6. \E f : Is(f, n + 1)
    BY <2>5
  <2>7. n + 1 \in Nat
    OBVIOUS
  <2> QED BY <2>6, <2>7
<1>3. N \in S
  <2> HIDE DEF S
  <2> QED BY <1>1, <1>2, InductionTo
<1>4. PICK g : Is(g, N)
  BY <1>3
<1> QED BY <1>4 DEF Loops

(* The amounts of a list of holders, by place, and their sum.              *)
AmountsOf(hs) == [i \in DOMAIN hs |-> hs[i].amount]

(* The checked loop has the total of the amounts, unless that is too large.*)
LEMMA TotalExact ==
    ASSUME NEW hs \in Seq(HolderType)
    PROVE  /\ Weight(DOMAIN hs, AmountsOf(hs)) \in Nat
           /\ Canon!Total(hs) = IF Weight(DOMAIN hs, AmountsOf(hs)) <= MaxInt
                                THEN Weight(DOMAIN hs, AmountsOf(hs)) ELSE -1
<1> DEFINE N == Len(hs)
           F == [p \in (1..N) \X Int |-> Canon!CheckedAdd(p[2], hs[p[1]].amount)]
           Is(g) == g = [k \in 0..N |-> IF k = 0 THEN 0
                                        ELSE Canon!CheckedAdd(g[k-1], hs[k].amount)]
           w == AmountsOf(hs)
           W(k) == Weight(1..k, w)
<1>0. /\ N \in Nat /\ DOMAIN hs = 1..N /\ MaxInt \in Nat
      /\ \A k \in 1..N : w[k] = hs[k].amount /\ w[k] \in Nat
  <2>1. N \in Nat /\ DOMAIN hs = 1..N /\ \A k \in 1..N : hs[k] \in HolderType
    BY LenProperties, ElementOfSeq
  <2> QED BY <2>1, FormatsAssumption DEF HolderType, AmountsOf, Canon!CanonAssumption
<1>1. \A k \in 1..N, x \in Int : Canon!CheckedAdd(x, hs[k].amount) \in Int
  BY <1>0 DEF Canon!CheckedAdd
<1>2. \A k \in 1..N, x \in Int : F[<<k, x>>] = Canon!CheckedAdd(x, hs[k].amount)
  OBVIOUS
<1> HIDE DEF N, F, w
<1>3. PICK g : Loops(g, F, N, Int, 0)
  <2>1. StepsIn(F, N, Int)
    BY <1>1, <1>2 DEF StepsIn
  <2>2. N \in Nat /\ 0 \in Int /\ StepsIn(F, N, Int)
    BY <2>1, <1>0
  <2> QED BY <2>2, Loop
<1>4. Is(g)
  <2>1. \A k \in 0..N : g[k] = IF k = 0 THEN 0 ELSE F[<<k, g[k-1]>>]
    BY <1>0, <1>3 DEF Loops
  <2>2. \A k \in 1..N : F[<<k, g[k-1]>>] = Canon!CheckedAdd(g[k-1], hs[k].amount)
    BY <1>0, <1>2, <1>3 DEF Loops
  <2>3. ASSUME NEW k \in 0..N
        PROVE  g[k] = IF k = 0 THEN 0 ELSE Canon!CheckedAdd(g[k-1], hs[k].amount)
    <3>1. k # 0 => k \in 1..N
      BY <1>0
    <3> QED BY <3>1, <2>1, <2>2
  <2> QED BY <1>3, <2>3 DEF Loops
<1> DEFINE s == CHOOSE f : Is(f)
<1>5. Is(s)
  BY <1>4
<1>6. Canon!Total(hs) = s[N]
  BY DEF Canon!Total, N
<1> HIDE DEF s
<1>7. s[0] = 0 /\ \A k \in 1..N : s[k] = Canon!CheckedAdd(s[k-1], hs[k].amount)
  BY <1>5, <1>0
<1>8. ASSUME NEW k \in 0..N PROVE IsFiniteSet(1..k) /\ W(k) \in Nat
  <2>1. IsFiniteSet(1..k)
    BY <1>0, FS_Interval
  <2>2. \A x \in 1..k : w[x] \in Nat
    BY <1>0
  <2> QED BY <2>1, <2>2, UnitsFinite
<1>9. W(0) = 0
  <2>1. 1..0 = {}
    OBVIOUS
  <2> QED BY <2>1, WeightEmpty
<1>10. ASSUME NEW k \in 1..N PROVE W(k) = W(k-1) + w[k]
  <2>1. 1..k-1 = (1..k) \ {k} /\ k \in 1..k /\ k - 1 \in 0..N /\ k \in 0..N
    BY <1>0
  <2>2. \A y \in 1..k : w[y] \in Nat
    BY <1>0
  <2>3. Weight(1..k, w) = Weight((1..k) \ {k}, w) + w[k]
    BY <2>1, <2>2, <1>8, WeightRemove
  <2> QED BY <2>1, <2>3
<1> HIDE DEF W
<1> DEFINE S == {k \in Nat : s[k] = IF W(k) <= MaxInt THEN W(k) ELSE -1}
<1>11. 0 \in S
  BY <1>7, <1>9, <1>0
<1>12. ASSUME NEW k \in 0..N-1, k \in S PROVE k + 1 \in S
  <2>1. k + 1 \in 1..N /\ k \in 0..N /\ k + 1 \in 0..N /\ (k + 1) - 1 = k
    BY <1>0
  <2>2. W(k+1) = W(k) + w[k+1] /\ W(k) \in Nat /\ W(k+1) \in Nat
        /\ w[k+1] \in Nat
    BY <2>1, <1>8, <1>10, <1>0
  <2>3. s[k+1] = Canon!CheckedAdd(s[k], w[k+1])
    BY <2>1, <1>7, <1>0
  <2>4. s[k] = IF W(k) <= MaxInt THEN W(k) ELSE -1
    BY <1>12
  <2>5. s[k+1] = IF W(k+1) <= MaxInt THEN W(k+1) ELSE -1
    BY <2>2, <2>3, <2>4, <1>0 DEF Canon!CheckedAdd
  <2> QED BY <2>1, <2>5, <1>0
<1>13. \A k \in 0..N : k \in S
  <2> HIDE DEF S
  <2> QED BY <1>0, <1>11, <1>12, InductionTo
<1>14. s[N] = IF W(N) <= MaxInt THEN W(N) ELSE -1
  BY <1>13, <1>0
<1>15. Weight(DOMAIN hs, AmountsOf(hs)) = W(N)
  BY <1>0 DEF W, w
<1>16. W(N) \in Nat
  BY <1>0, <1>8
<1> QED BY <1>6, <1>14, <1>15, <1>16

(* A declaration, what it is parsed to, and whether all of it parses.      *)
SourceType == [meta : Canon!MetaType, holders : Seq(Canon!RawType)]

Parsed(src) == [i \in DOMAIN src.holders |-> Canon!Holder(src.holders[i])]

EntriesParse(src) ==
    \A i \in DOMAIN src.holders :
        /\ Canon!ParsesDecimal(src.holders[i].amount)
        /\ Canon!ParsesOwner(src.meta.network, src.holders[i].address)

SumOf(hs) == Weight(DOMAIN hs, AmountsOf(hs))

(* What from_source asks of a source, without its loops and its order.     *)
Acceptable(src) ==
    /\ Len(src.holders) \in 1..MaxListed
    /\ Canon!MetaAccepted(src.meta)
    /\ EntriesParse(src)
    /\ NoOwnerTwice(Parsed(src))
    /\ SumOf(Parsed(src)) <= MaxInt

(* The fields besides the holders as they are written.                     *)
Written(m) ==
    [m EXCEPT !.deploy = Canon!HexEncode(@.value), !.muhash = Canon!HexEncode(@.value)]

(* What from_source makes of a source it accepts.                          *)
Committed(src) ==
    [accepted |-> TRUE, holders |-> Canon!Sorted(Parsed(src)), total |-> SumOf(Parsed(src)),
     context |-> Canon!Context(src.meta),
     manifest |-> [meta |-> Written(src.meta),
                   holders |-> Canon!Sorted(Parsed(src))]]

(* The entries of a source that parse are holders, each in its place.      *)
LEMMA ParsedType ==
    ASSUME NEW src \in SourceType, EntriesParse(src)
    PROVE  /\ Parsed(src) \in Seq(HolderType)
           /\ Len(Parsed(src)) = Len(src.holders)
           /\ DOMAIN Parsed(src) = DOMAIN src.holders
           /\ \A i \in DOMAIN src.holders : Parsed(src)[i] = Canon!Holder(src.holders[i])
<1> DEFINE N == Len(src.holders)
<1>1. src.holders \in Seq(Canon!RawType)
  BY DEF SourceType
<1>2. /\ N \in Nat /\ DOMAIN src.holders = 1..N
      /\ \A i \in 1..N : src.holders[i] \in Canon!RawType
  BY <1>1, LenProperties, ElementOfSeq
<1>3. ASSUME NEW i \in 1..N PROVE Canon!Holder(src.holders[i]) \in HolderType
  <2> DEFINE raw == src.holders[i]
  <2>1. raw \in Canon!RawType /\ Canon!ParsesOwner(src.meta.network, raw.address)
    BY <1>2 DEF EntriesParse
  <2> HIDE DEF raw
  <2>2. /\ raw.address \in Canon!AddressType
        /\ raw.amount.value \in Nat
    BY <2>1 DEF Canon!RawType, Canon!DecimalType, Canon!ParsesOwner
  <2>3. raw.address.payload \in Int
    BY <2>2 DEF Canon!AddressType
  <2>4. Canon!Schemes[raw.address.version] \in {0, 3}
    BY <2>1 DEF Canon!ParsesOwner, Canon!Schemes
  <2>5. Canon!Holder(raw) \in HolderType
    BY <2>2, <2>3, <2>4 DEF Canon!Holder, HolderType
  <2> QED BY <2>5 DEF raw
<1>4. Parsed(src) = [i \in 1..N |-> Canon!Holder(src.holders[i])]
  BY <1>2 DEF Parsed
<1>5. Parsed(src) \in [1..N -> HolderType]
  BY <1>3, <1>4
<1>6. Parsed(src) \in Seq(HolderType) /\ DOMAIN Parsed(src) = 1..N
  BY <1>2, <1>5
<1>7. Len(Parsed(src)) = N
  BY <1>2, <1>6, LenProperties
<1> QED BY <1>2, <1>4, <1>6, <1>7

(* A source is refused unless all of it is acceptable; what is committed to*)
(* is then made of its holders in order, and of its other fields.          *)
LEMMA FromSourceExact ==
    ASSUME NEW src \in SourceType
    PROVE  Canon!FromSource(src) = IF Acceptable(src) THEN Committed(src) ELSE Canon!Rejected
<1> DEFINE p == Parsed(src)
           s == Canon!Sorted(p)
           Twice == \E i, j \in DOMAIN s : i < j /\ Canon!SameOwner(s[i], s[j])
           Refused == \/ Len(src.holders) \notin 1..MaxListed
                      \/ ~Canon!MetaAccepted(src.meta)
                      \/ ~EntriesParse(src)
                      \/ Twice
                      \/ Canon!Total(s) = -1
<1>1. Canon!FromSource(src) =
        IF Refused THEN Canon!Rejected
        ELSE [accepted |-> TRUE, holders |-> s, total |-> Canon!Total(s),
              context |-> Canon!Context(src.meta),
              manifest |-> [meta |-> Written(src.meta), holders |-> s]]
  BY Zenon DEF Canon!FromSource, Parsed, EntriesParse, Written
<1>2. ASSUME EntriesParse(src)
      PROVE  /\ Twice <=> ~NoOwnerTwice(p)
             /\ SumOf(p) \in Nat
             /\ Canon!Total(s) = IF SumOf(p) <= MaxInt THEN SumOf(p) ELSE -1
  <2>1. p \in Seq(HolderType)
    BY <1>2, ParsedType
  <2> HIDE DEF p
  <2>2. s \in Seq(HolderType) /\ DOMAIN s = DOMAIN p /\ (NoOwnerTwice(s) <=> NoOwnerTwice(p))
    BY <2>1, SortedFacts, SortedOwners
  <2>3. SumOf(s) \in Nat /\ SumOf(p) \in Nat
        /\ Canon!Total(s) = IF SumOf(s) <= MaxInt THEN SumOf(s) ELSE -1
    BY <2>1, <2>2, TotalExact DEF SumOf
  <2>4. SumOf(s) = SumOf(p)
    <3> DEFINE D == DOMAIN p
               from == [k \in D |-> SortedFrom(p, k)]
    <3>1. from \in Bijection(D, D)
      BY <2>1, SortedFacts
    <3> HIDE DEF from
    <3>2. \A k \in D : from[k] \in D /\ s[k] = p[from[k]]
      <4>1. from \in [D -> D]
        BY <3>1, Fun_BijectionProperties
      <4>2. \A k \in D : s[k] = p[SortedFrom(p, k)]
        BY <2>1, SortedFacts
      <4> QED BY <4>1, <4>2 DEF from
    <3>3. IsFiniteSet(D)
      BY <2>1, LenProperties, FS_Interval
    <3> HIDE DEF s
    <3>4. \A k \in D : /\ AmountsOf(s)[k] \in Nat
                       /\ AmountsOf(p)[from[k]] = AmountsOf(s)[k]
      <4>1. \A k \in D : p[k] \in HolderType
        BY <2>1, LenProperties, ElementOfSeq
      <4>2. \A k \in D : p[k].amount \in Nat
        BY <4>1 DEF HolderType
      <4> QED BY <4>2, <3>2, <2>2 DEF AmountsOf
    <3>5. Weight(D, AmountsOf(p)) = Weight(D, AmountsOf(s))
      BY <3>1, <3>3, <3>4, WeightBijection
    <3> QED BY <3>5, <2>2 DEF SumOf
  <2>5. Twice <=> ~NoOwnerTwice(s)
    <3>1. DOMAIN s \subseteq Int
      BY <2>2, LenProperties
    <3> HIDE DEF s
    <3>2. \A i, j \in DOMAIN s : i # j => i < j \/ j < i
      BY <3>1
    <3>3. \A i, j \in DOMAIN s : Canon!SameOwner(s[i], s[j]) => Canon!SameOwner(s[j], s[i])
      BY DEF Canon!SameOwner
    <3>4. \A i, j \in DOMAIN s : i < j => i # j
      BY <3>1
    <3> QED BY <3>2, <3>3, <3>4 DEF NoOwnerTwice
  <2> QED BY <2>2, <2>3, <2>4, <2>5
<1>3. Refused <=> ~Acceptable(src)
  <2> HIDE DEF Twice, s, p
  <2>1. SumOf(p) \in Nat => SumOf(p) # -1
    OBVIOUS
  <2>2. CASE EntriesParse(src)
    <3>1. Twice <=> ~NoOwnerTwice(p)
      BY <1>2, <2>2
    <3>2. (Canon!Total(s) = -1) <=> ~(SumOf(p) <= MaxInt)
      BY <1>2, <2>2, <2>1
    <3> HIDE DEF Twice
    <3> QED BY Zenon, <2>2, <3>1, <3>2 DEF Acceptable, p
  <2>3. CASE ~EntriesParse(src)
    BY <2>3 DEF Acceptable
  <2> QED BY <2>2, <2>3
<1>4. Acceptable(src) => Canon!Total(s) = SumOf(p)
  BY <1>2 DEF Acceptable
<1> HIDE DEF Refused
<1>5. CASE Acceptable(src)
  <2> HIDE DEF s, p
  <2>1. Canon!FromSource(src) =
        [accepted |-> TRUE, holders |-> s, total |-> SumOf(p),
              context |-> Canon!Context(src.meta),
              manifest |-> [meta |-> Written(src.meta), holders |-> s]]
    BY Zenon, <1>1, <1>3, <1>4, <1>5
  <2>2. Canon!FromSource(src) = Committed(src)
    BY Zenon, <2>1 DEF Committed, s, p
  <2> QED BY <2>2, <1>5
<1>6. CASE ~Acceptable(src)
  BY Zenon, <1>1, <1>3, <1>6
<1> QED BY <1>5, <1>6

(* The sum over the source is that over what was parsed from it. *)
LEMMA SumParsed ==
    ASSUME NEW src \in SourceType, EntriesParse(src)
    PROVE  Weight(DOMAIN src.holders,
                  [i \in DOMAIN src.holders |-> src.holders[i].amount.value])
             = SumOf(Parsed(src))
<1> DEFINE v == [i \in DOMAIN src.holders |-> src.holders[i].amount.value]
<1>1. \A i \in DOMAIN src.holders : v[i] = AmountsOf(Parsed(src))[i]
  <2> SUFFICES ASSUME NEW i \in DOMAIN src.holders
               PROVE  src.holders[i].amount.value = AmountsOf(Parsed(src))[i]
    OBVIOUS
  <2>1. Parsed(src)[i] = Canon!Holder(src.holders[i]) /\ i \in DOMAIN Parsed(src)
    BY ParsedType
  <2>2. AmountsOf(Parsed(src))[i] = Parsed(src)[i].amount
    BY <2>1 DEF AmountsOf
  <2> QED BY <2>1, <2>2 DEF Canon!Holder
<1>2. DOMAIN Parsed(src) = DOMAIN src.holders
  BY ParsedType
<1> HIDE DEF v
<1>3. Weight(DOMAIN src.holders, v) = Weight(DOMAIN src.holders, AmountsOf(Parsed(src)))
  BY <1>1, WeightSame
<1>4. Weight(DOMAIN src.holders, v) = SumOf(Parsed(src))
  BY <1>2, <1>3 DEF SumOf
<1> QED BY <1>4 DEF v

(* As many owners as entries: no owner twice.                              *)
LEMMA OwnersCounted ==
    ASSUME NEW src \in SourceType, EntriesParse(src)
    PROVE  NoOwnerTwice(Parsed(src)) <=>
             Cardinality({<<raw.address.version, raw.address.payload>> : raw \in Range(src.holders)})
               = Len(src.holders)
<1> DEFINE D == DOMAIN src.holders
           Own(raw) == <<raw.address.version, raw.address.payload>>
           T == {Own(raw) : raw \in Range(src.holders)}
           f == [i \in D |-> Own(src.holders[i])]
           p == Parsed(src)
<1>1. D = 1..Len(src.holders) /\ Len(src.holders) \in Nat
  BY LenProperties DEF SourceType
<1>2. IsFiniteSet(D) /\ Cardinality(D) = Len(src.holders)
  BY <1>1, FS_Interval
<1>3. f \in Surjection(D, T)
  BY Fun_IsSurj DEF Range
<1>4. Cardinality(T) = Len(src.holders) <=> f \in Injection(D, T)
  BY <1>2, <1>3, FS_Surjection
<1>5. ASSUME NEW i \in D, NEW j \in D
      PROVE  Canon!SameOwner(p[i], p[j]) <=> f[i] = f[j]
  <2>1. p[i] = Canon!Holder(src.holders[i]) /\ p[j] = Canon!Holder(src.holders[j])
    BY ParsedType
  <2>2. /\ src.holders[i].address.version \in {"pubkey", "scripthash"}
        /\ src.holders[j].address.version \in {"pubkey", "scripthash"}
    BY DEF EntriesParse, Canon!ParsesOwner, Canon!Schemes
  <2>3. Canon!Schemes[src.holders[i].address.version]
          = Canon!Schemes[src.holders[j].address.version]
        <=> src.holders[i].address.version = src.holders[j].address.version
    BY <2>2 DEF Canon!Schemes
  <2> QED BY <2>1, <2>3 DEF Canon!SameOwner, Canon!Holder
<1>6. DOMAIN p = D
  BY ParsedType
<1> HIDE DEF T, p
<1>7. f \in Injection(D, T) <=> \A i, j \in D : f[i] = f[j] => i = j
  <2>1. f \in [D -> T]
    BY <1>3, Fun_SurjectionProperties
  <2> HIDE DEF f
  <2>2. f \in Injection(D, T) => \A i, j \in D : f[i] = f[j] => i = j
    BY Fun_InjectionProperties
  <2>3. (\A i, j \in D : f[i] = f[j] => i = j) => f \in Injection(D, T)
    BY <2>1, Fun_IsInj
  <2> QED BY <2>2, <2>3
<1> HIDE DEF f
<1>8. NoOwnerTwice(p) <=> \A i, j \in D : f[i] = f[j] => i = j
  BY <1>5, <1>6 DEF NoOwnerTwice
<1>9. NoOwnerTwice(p) <=> Cardinality(T) = Len(src.holders)
  BY <1>4, <1>7, <1>8
<1> QED BY <1>9 DEF T, p

(* The invariant of the declarations: the snapshot is that of the source.  *)
CanonInv == source \in SourceType /\ result = Canon!FromSource(source)

(* What the fields besides the holders must be, said without the code.     *)
MetaStated(m) ==
    /\ m.ticker # <<>> /\ Len(m.ticker) <= MaxTicker
    /\ \A symbol \in Range(m.ticker) : symbol > 0
    /\ m.indexer # <<>> /\ Len(m.indexer) <= MaxIndexer
    /\ 0 \notin {Head(m.indexer), m.indexer[Len(m.indexer)]}
    /\ \A hash \in {m.deploy, m.muhash} : hash.length = 64 /\ hash.hex
    /\ m.daa.canonical /\ m.daa.value <= MaxScore

LEMMA MetaExact ==
    ASSUME NEW m \in Canon!MetaType
    PROVE  Canon!MetaAccepted(m) <=> MetaStated(m)
<1>1. /\ m.ticker \in Seq(Int) /\ m.indexer \in Seq(Int)
      /\ m.daa \in Canon!DecimalType
  BY DEF Canon!MetaType, Canon!Text
<1>2. MaxTicker \in Nat /\ MaxIndexer \in Nat /\ MaxScore \in Nat
  BY FormatsAssumption DEF Canon!CanonAssumption
<1>3. \A t \in Seq(Int), max \in Nat :
        Len(t) \in 1..max <=> t # <<>> /\ Len(t) <= max
  OBVIOUS
<1>4. (\A i \in DOMAIN m.ticker : m.ticker[i] > 0)
        <=> \A symbol \in Range(m.ticker) : symbol > 0
  BY DEF Range
<1>5. m.indexer # <<>> => Head(m.indexer) = m.indexer[1]
  BY <1>1
<1>6. Canon!ParsesHex32(m.deploy) /\ Canon!ParsesHex32(m.muhash)
        <=> \A hash \in {m.deploy, m.muhash} : hash.length = 64 /\ hash.hex
  BY DEF Canon!ParsesHex32
<1>7. Canon!ParsesScore(m.daa) <=> m.daa.canonical /\ m.daa.value <= MaxScore
  BY <1>1, <1>2 DEF Canon!ParsesScore, Canon!DecimalType
<1>8. /\ Len(m.ticker) \in 1..MaxTicker <=> m.ticker # <<>> /\ Len(m.ticker) <= MaxTicker
      /\ Len(m.indexer) \in 1..MaxIndexer <=> m.indexer # <<>> /\ Len(m.indexer) <= MaxIndexer
  BY <1>1, <1>2, <1>3
<1> QED BY Zenon, <1>4, <1>5, <1>6, <1>7, <1>8 DEF Canon!MetaAccepted, MetaStated

(* What from_source accepts, and what it then commits to. *)
LEMMA CanonExact == CanonInv => Canon!AcceptedExactly
<1> SUFFICES ASSUME CanonInv PROVE Canon!AcceptedExactly
  OBVIOUS
<1> DEFINE n == Len(source.holders)
           D == DOMAIN source.holders
           p == Parsed(source)
           m == source.meta
           Entries == \A raw \in Range(source.holders) :
                        /\ raw.address # Garbage /\ raw.address.network = m.network
                        /\ raw.address.version \in {"pubkey", "scripthash"}
                        /\ raw.amount.canonical /\ raw.amount.value > 0
           OnNetwork == m.network \in {Mainnet, Testnet10}
           Owners == {<<raw.address.version, raw.address.payload>> : raw \in Range(source.holders)}
           v == [i \in D |-> source.holders[i].amount.value]
           Sum == Weight(D, v)
<1>0. source \in SourceType /\ result = Canon!FromSource(source) /\ MaxInt \in Nat
  BY FormatsAssumption DEF CanonInv, Canon!CanonAssumption
<1>1. /\ D = 1..n /\ n \in Nat /\ IsFiniteSet(D)
      /\ \A i \in D : source.holders[i] \in Canon!RawType
  BY <1>0, LenProperties, ElementOfSeq, FS_Interval DEF SourceType
<1>2. \A i \in D : v[i] \in Nat
  BY <1>1 DEF Canon!RawType, Canon!DecimalType
<1>3. Sum \in Nat /\ \A i \in D : v[i] <= Sum
  <2> HIDE DEF v
  <2>1. Sum \in Nat
    BY <1>1, <1>2, UnitsFinite
  <2>2. \A i \in D : v[i] <= Sum
    BY <1>1, <1>2, WeightMember
  <2> QED BY <2>1, <2>2
<1>4. Entries <=> \A i \in D :
        /\ source.holders[i].address # Garbage
        /\ source.holders[i].address.network = m.network
        /\ source.holders[i].address.version \in {"pubkey", "scripthash"}
        /\ source.holders[i].amount.canonical /\ source.holders[i].amount.value > 0
  BY DEF Range
<1>5. Sum <= MaxInt /\ n >= 1 => (OnNetwork /\ Entries <=> EntriesParse(source))
  <2> SUFFICES ASSUME Sum <= MaxInt, n >= 1
               PROVE  OnNetwork /\ Entries <=> EntriesParse(source)
    OBVIOUS
  <2>0. \E i \in D : TRUE
    BY <1>1
  <2>1. \A i \in D : source.holders[i].amount.value \in Nat
                     /\ source.holders[i].amount.value <= MaxInt
    <3>1. \A i \in D : v[i] = source.holders[i].amount.value
      OBVIOUS
    <3> HIDE DEF v
    <3> QED BY <3>1, <1>0, <1>2, <1>3
  <2>2. \A i \in D : Canon!ParsesDecimal(source.holders[i].amount)
                       <=> /\ source.holders[i].amount.canonical
                           /\ source.holders[i].amount.value > 0
    BY <1>0, <2>1 DEF Canon!ParsesDecimal
  <2>3. \A i \in D : Canon!ParsesOwner(m.network, source.holders[i].address)
                       <=> /\ source.holders[i].address # Garbage
                           /\ OnNetwork
                           /\ source.holders[i].address.network = m.network
                           /\ source.holders[i].address.version \in {"pubkey", "scripthash"}
    BY DEF Canon!ParsesOwner, Canon!Schemes
  <2> HIDE DEF Entries, OnNetwork
  <2> QED BY <1>4, <2>0, <2>2, <2>3 DEF EntriesParse
<1> HIDE DEF Entries, OnNetwork, Sum
<1>6. EntriesParse(source) => Sum = SumOf(p)
  BY <1>0, SumParsed DEF Sum
<1>7. EntriesParse(source) => (NoOwnerTwice(p) <=> Cardinality(Owners) = n)
  BY <1>0, OwnersCounted
<1>8. Acceptable(source) <=> /\ n \in 1..MaxListed /\ MetaStated(m) /\ OnNetwork
                             /\ Entries /\ Cardinality(Owners) = n /\ Sum <= MaxInt
  <2> HIDE DEF Owners, p
  <2>1. n \in 1..MaxListed => n >= 1
    BY <1>1, FormatsAssumption DEF Canon!CanonAssumption
  <2>2. Acceptable(source) => Sum <= MaxInt /\ OnNetwork /\ Entries
    BY <1>5, <1>6, <2>1 DEF Acceptable, p
  <2>3. n >= 1 /\ Sum <= MaxInt /\ OnNetwork /\ Entries => EntriesParse(source)
    BY <1>5
  <2>4. Canon!MetaAccepted(m) <=> MetaStated(m)
    BY <1>0, MetaExact DEF SourceType
  <2> QED BY Zenon, <2>1, <2>2, <2>3, <2>4, <1>6, <1>7 DEF Acceptable, p
<1>9. result.accepted <=> Acceptable(source)
  BY <1>0, FromSourceExact DEF Committed, Canon!Rejected
<1>10. ASSUME Acceptable(source)
       PROVE  /\ result.total = Sum
              /\ Range(result.holders) = {Canon!Holder(raw) : raw \in Range(source.holders)}
              /\ Len(result.holders) = n
  <2>1. EntriesParse(source)
    BY <1>10 DEF Acceptable
  <2>2. result = Committed(source)
    BY <1>0, <1>10, FromSourceExact
  <2>3. result.total = SumOf(p) /\ result.holders = Canon!Sorted(p)
    BY <2>2 DEF Committed
  <2>4. /\ p \in Seq(HolderType) /\ Len(p) = n /\ DOMAIN p = D
        /\ \A i \in D : p[i] = Canon!Holder(source.holders[i])
    BY <1>0, <2>1, ParsedType
  <2> HIDE DEF p
  <2>5. Range(result.holders) = Range(p) /\ Len(result.holders) = n
    BY <2>3, <2>4, SortedFacts
  <2>6. Range(p) = {Canon!Holder(raw) : raw \in Range(source.holders)}
    BY <2>4 DEF Range
  <2> QED BY <2>1, <2>3, <2>5, <2>6, <1>6
<1>11. /\ Canon!Owners = Owners /\ Canon!Sum = Sum
       /\ Canon!Cardinality(Owners) = Cardinality(Owners)
       /\ Canon!Range(source.holders) = Range(source.holders)
       /\ Canon!Range(result.holders) = Range(result.holders)
       /\ Canon!Range(m.ticker) = Range(m.ticker)
  BY Zenon, CanonTerms DEF Canon!Owners, Canon!Sum, Sum
<1> HIDE DEF Owners
<1> QED BY Zenon, <1>8, <1>9, <1>10, <1>11
        DEF Canon!AcceptedExactly, Entries, OnNetwork, MetaStated

-------------------------------------------------------------------------------
(* Contexts.                                                               *)

(* The elements of two sequences, one after the other.                     *)
LEMMA ConcatParts ==
    ASSUME NEW S, NEW a \in Seq(S), NEW b \in Seq(S)
    PROVE  /\ a \o b \in Seq(S) /\ Len(a \o b) = Len(a) + Len(b)
           /\ \A i \in 1..Len(a) : (a \o b)[i] = a[i]
           /\ \A i \in 1..Len(b) : (a \o b)[Len(a) + i] = b[i]
<1> DEFINE c == a \o b
<1>1. Len(a) \in Nat /\ Len(b) \in Nat
  BY LenProperties
<1>2. /\ c \in Seq(S) /\ Len(c) = Len(a) + Len(b)
      /\ \A i \in 1..Len(a) + Len(b) : c[i] = IF i <= Len(a) THEN a[i] ELSE b[i - Len(a)]
  BY ConcatProperties
<1> HIDE DEF c
<1>3. \A i \in 1..Len(a) : c[i] = a[i]
  BY <1>1, <1>2
<1>4. ASSUME NEW i \in 1..Len(b) PROVE c[Len(a) + i] = b[i]
  <2>1. Len(a) + i \in 1..Len(a) + Len(b) /\ ~(Len(a) + i <= Len(a))
        /\ (Len(a) + i) - Len(a) = i
    BY <1>1
  <2> QED BY <1>2, <2>1
<1> QED BY <1>2, <1>3, <1>4 DEF c

(* Texts one after the other. *)
Joined(c, a, b) ==
    /\ Len(c) = Len(a) + Len(b)
    /\ \A i \in 1..Len(a) : c[i] = a[i]
    /\ \A i \in 1..Len(b) : c[Len(a) + i] = b[i]

LEMMA JoinTexts == \A a, b \in Seq(Int) : Joined(a \o b, a, b)
BY ConcatParts DEF Joined

LEMMA JoinTextsType == \A a, b \in Seq(Int) : a \o b \in Seq(Int)
BY ConcatProperties

LEMMA JoinTextsAssociative ==
    ASSUME NEW a \in Seq(Int), NEW b \in Seq(Int), NEW c \in Seq(Int)
    PROVE  (a \o b) \o c = a \o (b \o c)
BY ConcatAssociative

(* The parts of equal texts are equal when the first are as long.          *)
LEMMA PartsEqual ==
    ASSUME NEW a \in Seq(Int), NEW b \in Seq(Int), NEW r \in Seq(Int), NEW s \in Seq(Int),
           Len(a) = Len(b), NEW c, Joined(c, a, r), Joined(c, b, s)
    PROVE  a = b /\ r = s
<1>1. Len(a) \in Nat /\ Len(r) \in Nat /\ Len(s) \in Nat
  BY LenProperties
<1>2. Len(r) = Len(s)
  BY <1>1 DEF Joined
<1>3. \A i \in 1..Len(a) : a[i] = b[i]
  BY DEF Joined
<1>4. \A i \in 1..Len(r) : r[i] = s[i]
  BY <1>2 DEF Joined
<1>5. a = b
  BY <1>3, SeqEqual
<1>6. r = s
  BY <1>2, <1>4, SeqEqual
<1> QED BY <1>5, <1>6

(* A text behind its length tells where it ends, whatever follows.         *)
Prefixed(c, a, r) == c = Canon!LenPrefixed(a) \o r

LEMMA PrefixedEqual ==
    ASSUME NEW a \in Seq(Int), NEW b \in Seq(Int), NEW r \in Seq(Int), NEW s \in Seq(Int),
           NEW t, Prefixed(t, a, r), Prefixed(t, b, s)
    PROVE  a = b /\ r = s
<1> DEFINE p == <<Len(a)>>
           q == <<Len(b)>>
           x == a \o r
           y == b \o s
           c == p \o x
<1>1. /\ p \in Seq(Int) /\ Len(p) = 1 /\ p[1] = Len(a)
      /\ q \in Seq(Int) /\ Len(q) = 1 /\ q[1] = Len(b)
  BY LenProperties
<1>2. x \in Seq(Int) /\ y \in Seq(Int)
  BY Zenon, JoinTextsType
<1>3. t = (p \o a) \o r /\ t = (q \o b) \o s
  BY Zenon DEF Prefixed, Canon!LenPrefixed
<1> HIDE DEF p, q
<1>4. c = q \o y
  <2>0. /\ p \in Seq(Int) /\ a \in Seq(Int) /\ r \in Seq(Int)
        /\ q \in Seq(Int) /\ b \in Seq(Int) /\ s \in Seq(Int)
    BY <1>1
  <2> HIDE DEF x, y, c
  <2>1. (p \o a) \o r = p \o (a \o r)
    BY <2>0, JoinTextsAssociative, SMTT(60)
  <2>2. (q \o b) \o s = q \o (b \o s)
    BY <2>0, JoinTextsAssociative, SMTT(60)
  <2> QED BY <1>3, <2>1, <2>2 DEF c, x, y
<1>5. Joined(x, a, r) /\ Joined(y, b, s)
  BY Zenon, JoinTexts
<1> HIDE DEF x, y
<1>6. Joined(c, p, x) /\ Joined(c, q, y)
  BY Zenon, <1>1, <1>2, <1>4, JoinTexts
<1>7. Len(p) = Len(q)
  BY <1>1
<1> HIDE DEF c
<1>8. p = q /\ x = y
  BY Zenon, <1>1, <1>2, <1>6, <1>7, PartsEqual
<1>9. Len(a) = Len(b)
  BY <1>1, <1>8
<1>10. Joined(x, b, s)
  BY <1>5, <1>8
<1> QED BY Zenon, <1>5, <1>9, <1>10, PartsEqual

(* What follows the ticker in a context.                                   *)
Numbers(m) == <<m.deploy.value, m.daa.value, m.muhash.value>>
AfterTicker(m) == Numbers(m) \o Canon!LenPrefixed(m.indexer)

LEMMA ContextParts ==
    ASSUME NEW m \in Canon!MetaType
    PROVE  /\ m.network \in Seq(Int) /\ m.ticker \in Seq(Int) /\ m.indexer \in Seq(Int)
           /\ Numbers(m) \in Seq(Int) /\ Len(Numbers(m)) = 3
           /\ Canon!LenPrefixed(m.indexer) \in Seq(Int) /\ AfterTicker(m) \in Seq(Int)
           /\ Canon!LenPrefixed(m.ticker) \o AfterTicker(m) \in Seq(Int)
           /\ Canon!Context(m) = Canon!LenPrefixed(m.network)
                                   \o (Canon!LenPrefixed(m.ticker) \o AfterTicker(m))
<1>1. /\ m.network \in Seq(Int) /\ m.ticker \in Seq(Int) /\ m.indexer \in Seq(Int)
      /\ m.deploy \in Canon!HexType /\ m.muhash \in Canon!HexType
      /\ m.daa \in Canon!DecimalType
  BY DEF Canon!MetaType, Canon!Text
<1>2. m.deploy.value \in Int /\ m.daa.value \in Int /\ m.muhash.value \in Int
  BY <1>1 DEF Canon!HexType, Canon!DecimalType
<1> DEFINE a == Canon!LenPrefixed(m.network)
           b == Canon!LenPrefixed(m.ticker)
           c == Numbers(m)
           d == Canon!LenPrefixed(m.indexer)
<1>3. c \in Seq(Int) /\ Len(c) = 3
  BY <1>2 DEF Numbers
<1>4. ASSUME NEW t \in Seq(Int) PROVE Canon!LenPrefixed(t) \in Seq(Int)
  <2>1. <<Len(t)>> \in Seq(Int)
    BY LenProperties
  <2>2. <<Len(t)>> \o t \in Seq(Int)
    BY <2>1, JoinTextsType, Zenon
  <2> QED BY <2>2 DEF Canon!LenPrefixed
<1>5. a \in Seq(Int) /\ b \in Seq(Int) /\ d \in Seq(Int)
  BY <1>1, <1>4
<1>6. Canon!Context(m) = ((a \o b) \o c) \o d
  BY Zenon DEF Canon!Context, Numbers
<1>7. AfterTicker(m) = c \o d
  BY Zenon DEF AfterTicker
<1> HIDE DEF a, b, c, d
<1>8. a \o b \in Seq(Int) /\ c \o d \in Seq(Int)
  BY <1>3, <1>5, JoinTextsType, Zenon
<1>9. b \o (c \o d) \in Seq(Int)
  BY <1>5, <1>8, JoinTextsType, Zenon
<1>10. ((a \o b) \o c) \o d = a \o (b \o (c \o d))
  <2> DEFINE ab == a \o b
             cd == c \o d
  <2>0. ab \in Seq(Int) /\ cd \in Seq(Int)
    BY <1>8
  <2>1. (ab \o c) \o d = ab \o (c \o d)
    <3> HIDE DEF ab
    <3> QED BY <2>0, <1>3, <1>5, JoinTextsAssociative
  <2>2. (a \o b) \o cd = a \o (b \o cd)
    <3> HIDE DEF cd
    <3> QED BY <2>0, <1>5, JoinTextsAssociative
  <2> QED BY <2>1, <2>2
<1> QED BY <1>1, <1>3, <1>5, <1>6, <1>7, <1>8, <1>9, <1>10 DEF a, b, c, d

(* The lengths before network, ticker and indexer keep any two contexts    *)
(* apart.                                                                  *)
LEMMA ContextInjective ==
    ASSUME NEW m \in Canon!MetaType, NEW k \in Canon!MetaType,
           Canon!Context(m) = Canon!Context(k)
    PROVE  /\ m.network = k.network /\ m.ticker = k.ticker /\ m.indexer = k.indexer
           /\ m.deploy.value = k.deploy.value /\ m.daa.value = k.daa.value
           /\ m.muhash.value = k.muhash.value
<1>1. /\ m.network \in Seq(Int) /\ m.ticker \in Seq(Int) /\ m.indexer \in Seq(Int)
      /\ Numbers(m) \in Seq(Int) /\ Len(Numbers(m)) = 3
      /\ Canon!LenPrefixed(m.indexer) \in Seq(Int) /\ AfterTicker(m) \in Seq(Int)
      /\ Canon!LenPrefixed(m.ticker) \o AfterTicker(m) \in Seq(Int)
      /\ Canon!Context(m) = Canon!LenPrefixed(m.network)
                              \o (Canon!LenPrefixed(m.ticker) \o AfterTicker(m))
  BY ContextParts
<1>2. /\ k.network \in Seq(Int) /\ k.ticker \in Seq(Int) /\ k.indexer \in Seq(Int)
      /\ Numbers(k) \in Seq(Int) /\ Len(Numbers(k)) = 3
      /\ Canon!LenPrefixed(k.indexer) \in Seq(Int) /\ AfterTicker(k) \in Seq(Int)
      /\ Canon!LenPrefixed(k.ticker) \o AfterTicker(k) \in Seq(Int)
      /\ Canon!Context(k) = Canon!LenPrefixed(k.network)
                              \o (Canon!LenPrefixed(k.ticker) \o AfterTicker(k))
  BY ContextParts
<1>3. m.network = k.network
      /\ Canon!LenPrefixed(m.ticker) \o AfterTicker(m)
           = Canon!LenPrefixed(k.ticker) \o AfterTicker(k)
  <2> DEFINE r == Canon!LenPrefixed(m.ticker) \o AfterTicker(m)
             t == Canon!LenPrefixed(k.ticker) \o AfterTicker(k)
  <2>1. /\ m.network \in Seq(Int) /\ k.network \in Seq(Int)
        /\ r \in Seq(Int) /\ t \in Seq(Int)
        /\ Prefixed(Canon!Context(m), m.network, r)
        /\ Prefixed(Canon!Context(m), k.network, t)
    BY Zenon, <1>1, <1>2 DEF Prefixed
  <2> HIDE DEF r, t
  <2>2. m.network = k.network /\ r = t
    BY Zenon, <2>1, PrefixedEqual
  <2> QED BY <2>2 DEF r, t
<1>4. m.ticker = k.ticker /\ AfterTicker(m) = AfterTicker(k)
  <2> DEFINE c == Canon!LenPrefixed(m.ticker) \o AfterTicker(m)
  <2>1. Prefixed(c, m.ticker, AfterTicker(m)) /\ Prefixed(c, k.ticker, AfterTicker(k))
    BY Zenon, <1>3 DEF Prefixed
  <2> HIDE DEF c
  <2> QED BY Zenon, <1>1, <1>2, <2>1, PrefixedEqual
<1>5. Numbers(m) = Numbers(k)
      /\ Canon!LenPrefixed(m.indexer) = Canon!LenPrefixed(k.indexer)
  <2> DEFINE r == Canon!LenPrefixed(m.indexer)
             t == Canon!LenPrefixed(k.indexer)
  <2>1. /\ Numbers(m) \in Seq(Int) /\ Numbers(k) \in Seq(Int)
        /\ r \in Seq(Int) /\ t \in Seq(Int)
        /\ Len(Numbers(m)) = Len(Numbers(k))
        /\ Numbers(m) \o r = Numbers(k) \o t
    BY Zenon, <1>1, <1>2, <1>4 DEF AfterTicker
  <2> HIDE DEF r, t
  <2> DEFINE c == Numbers(m) \o r
  <2>2. Joined(c, Numbers(m), r) /\ Joined(c, Numbers(k), t)
    BY Zenon, <2>1, JoinTexts
  <2> HIDE DEF c
  <2>3. Numbers(m) = Numbers(k) /\ r = t
    BY Zenon, <2>1, <2>2, PartsEqual
  <2> QED BY <2>3 DEF r, t
<1>6. m.indexer = k.indexer
  <2> DEFINE c == Canon!LenPrefixed(m.indexer) \o <<>>
  <2>1. Prefixed(c, m.indexer, <<>>) /\ Prefixed(c, k.indexer, <<>>)
    BY Zenon, <1>5 DEF Prefixed
  <2>2. <<>> \in Seq(Int)
    OBVIOUS
  <2> HIDE DEF c
  <2> QED BY Zenon, <1>1, <1>2, <2>1, <2>2, PrefixedEqual
<1>7. /\ m.deploy.value = k.deploy.value /\ m.daa.value = k.daa.value
      /\ m.muhash.value = k.muhash.value
  BY <1>5 DEF Numbers
<1> QED BY <1>3, <1>4, <1>6, <1>7

(* Declarations with one context say the same.                             *)
LEMMA CanonContext == CanonInv => Canon!ContextSaysAll
<1> SUFFICES ASSUME CanonInv, result.accepted, NEW m \in Metas,
                    Canon!Context(m) = result.context
             PROVE  LET n == source.meta IN
                    /\ m.network = n.network /\ m.ticker = n.ticker
                    /\ m.deploy.value = n.deploy.value /\ m.daa.value = n.daa.value
                    /\ m.muhash.value = n.muhash.value /\ m.indexer = n.indexer
  BY Zenon DEF Canon!ContextSaysAll
<1>1. m \in Canon!MetaType /\ source.meta \in Canon!MetaType
  BY FormatsAssumption DEF CanonInv, SourceType, Canon!CanonAssumption
<1>2. result = Committed(source)
  BY FromSourceExact DEF CanonInv, Canon!Rejected
<1>3. Canon!Context(m) = Canon!Context(source.meta)
  BY <1>2 DEF Committed
<1> QED BY <1>1, <1>3, ContextInjective

-------------------------------------------------------------------------------
(* The same declaration in another order or spelling.                      *)

(* An entry that from_source can read.                                     *)
EntryParses(network, raw) ==
    Canon!ParsesDecimal(raw.amount) /\ Canon!ParsesOwner(network, raw.address)

(* Two sources with the same entries, listed in another order, or spelled  *)
(* otherwise.                                                              *)
SameEntry(network, a, b) ==
    /\ EntryParses(network, a) <=> EntryParses(network, b)
    /\ EntryParses(network, a) => Canon!Holder(a) = Canon!Holder(b)
SameHash(a, b) ==
    /\ a.value = b.value
    /\ Canon!ParsesHex32(a) <=> Canon!ParsesHex32(b)
SameMeta(m, k) ==
    /\ m.network = k.network /\ m.ticker = k.ticker /\ m.indexer = k.indexer
    /\ m.daa = k.daa /\ SameHash(m.deploy, k.deploy) /\ SameHash(m.muhash, k.muhash)

(* The fields as they are written, one by one.                             *)
LEMMA WrittenMeta ==
    ASSUME NEW m \in Canon!MetaType
    PROVE  Written(m)
             = [network |-> m.network, ticker |-> m.ticker, indexer |-> m.indexer,
                deploy |-> Canon!HexEncode(m.deploy.value),
                muhash |-> Canon!HexEncode(m.muhash.value), daa |-> m.daa]
<1> DEFINE d == Canon!HexEncode(m.deploy.value)
           u == Canon!HexEncode(m.muhash.value)
<1>1. Written(m) = [m EXCEPT !.deploy = d, !.muhash = u]
  BY Zenon DEF Written
<1> HIDE DEF d, u
<1>2. [m EXCEPT !.deploy = d, !.muhash = u]
        = [network |-> m.network, ticker |-> m.ticker, indexer |-> m.indexer,
           deploy |-> d, muhash |-> u, daa |-> m.daa]
  <2> DEFINE w == [m EXCEPT !.deploy = d]
  <2>1. w = [network |-> m.network, ticker |-> m.ticker, indexer |-> m.indexer,
             deploy |-> d, muhash |-> m.muhash, daa |-> m.daa]
    BY DEF Canon!MetaType
  <2>2. [m EXCEPT !.deploy = d, !.muhash = u] = [w EXCEPT !.muhash = u]
    BY Zenon
  <2> HIDE DEF w
  <2> QED BY <2>1, <2>2
<1> QED BY <1>1, <1>2 DEF d, u

(* A hash that is written has its value, and parses.                       *)
LEMMA HexEncoded ==
    ASSUME NEW v \in Nat
    PROVE  /\ Canon!HexEncode(v) \in Canon!HexType
           /\ Canon!HexEncode(v).value = v /\ Canon!ParsesHex32(Canon!HexEncode(v))
BY DEF Canon!HexEncode, Canon!HexType, Canon!ParsesHex32

(* Fields that differ in spelling are accepted and written alike.          *)
LEMMA SameMetaSame ==
    ASSUME NEW m \in Canon!MetaType, NEW k \in Canon!MetaType, SameMeta(m, k)
    PROVE  /\ Canon!MetaAccepted(m) <=> Canon!MetaAccepted(k)
           /\ Canon!Context(m) = Canon!Context(k)
           /\ Written(m) = Written(k)
<1>1. m.deploy.value = k.deploy.value /\ m.muhash.value = k.muhash.value
  BY DEF SameMeta, SameHash
<1>2. Canon!Context(m) = Canon!Context(k)
  BY Zenon, <1>1 DEF SameMeta, Canon!Context
<1>3. Canon!MetaAccepted(m) <=> Canon!MetaAccepted(k)
  BY Zenon DEF SameMeta, SameHash, Canon!MetaAccepted
<1>4. Written(m) = Written(k)
  BY Zenon, <1>1, WrittenMeta DEF SameMeta
<1> QED BY <1>2, <1>3, <1>4

(* A permuted source has the same totals, the same order, the same owners. *)
LEMMA SameParsed ==
    ASSUME NEW hs \in Seq(HolderType), NEW gs \in Seq(HolderType),
           DOMAIN gs = DOMAIN hs, NEW f \in Bijection(DOMAIN hs, DOMAIN hs),
           \A k \in DOMAIN hs : gs[k] = hs[f[k]]
    PROVE  /\ SumOf(gs) = SumOf(hs)
           /\ NoOwnerTwice(gs) <=> NoOwnerTwice(hs)
           /\ NoOwnerTwice(hs) => Canon!Sorted(gs) = Canon!Sorted(hs)
<1> DEFINE D == DOMAIN hs
<1>1. /\ f \in [D -> D] /\ \A a, b \in D : f[a] = f[b] => a = b
      /\ \A t \in D : \E k \in D : f[k] = t
  BY Fun_BijectionProperties
<1>2. /\ D = 1..Len(hs) /\ Len(gs) = Len(hs) /\ IsFiniteSet(D)
      /\ \A k \in D : hs[k] \in HolderType
  <2>1. D = 1..Len(hs) /\ Len(hs) \in Nat /\ Len(gs) \in Nat /\ D = 1..Len(gs)
    BY LenProperties
  <2>2. Len(gs) = Len(hs)
    <3>1. \A n \in Nat : Cardinality(1..n) = n
      BY FS_Interval
    <3>2. Cardinality(1..Len(hs)) = Len(hs) /\ Cardinality(1..Len(gs)) = Len(gs)
      BY <2>1, <3>1
    <3> QED BY <2>1, <3>2
  <2>3. \A k \in D : hs[k] \in HolderType
    BY <2>1, ElementOfSeq
  <2>4. IsFiniteSet(D)
    BY <2>1, FS_Interval
  <2> QED BY <2>1, <2>2, <2>3, <2>4
<1>3. SumOf(gs) = SumOf(hs)
  <2>1. \A k \in D : AmountsOf(gs)[k] \in Nat /\ AmountsOf(hs)[f[k]] = AmountsOf(gs)[k]
    <3>1. \A k \in D : hs[k].amount \in Nat /\ f[k] \in D
      BY <1>1, <1>2 DEF HolderType
    <3>2. \A k \in D : AmountsOf(gs)[k] = gs[k].amount /\ AmountsOf(hs)[k] = hs[k].amount
      BY DEF AmountsOf
    <3> SUFFICES ASSUME NEW k \in D
                 PROVE  AmountsOf(gs)[k] \in Nat /\ AmountsOf(hs)[f[k]] = AmountsOf(gs)[k]
      OBVIOUS
    <3>3. gs[k] = hs[f[k]] /\ f[k] \in D
      BY <3>1
    <3>4. AmountsOf(hs)[f[k]] = hs[f[k]].amount
      BY <3>2, <3>3
    <3> QED BY <3>1, <3>2, <3>3, <3>4
  <2>2. Weight(D, AmountsOf(hs)) = Weight(D, AmountsOf(gs))
    <3> DEFINE v == AmountsOf(gs)
               w == AmountsOf(hs)
    <3>1. \A k \in D : v[k] \in Nat /\ w[f[k]] = v[k]
      BY <2>1
    <3>2. f \in Bijection(D, D) /\ IsFiniteSet(D)
      BY <1>2
    <3> HIDE DEF v, w, D
    <3>3. Weight(D, w) = Weight(D, v)
      BY <3>1, <3>2, WeightBijection
    <3> QED BY <3>3 DEF v, w
  <2> QED BY <2>2 DEF SumOf
<1>4. NoOwnerTwice(gs) <=> NoOwnerTwice(hs)
  <2>1. ASSUME NoOwnerTwice(hs) PROVE NoOwnerTwice(gs)
    <3> SUFFICES ASSUME NEW i \in D, NEW j \in D, Canon!SameOwner(gs[i], gs[j]) PROVE i = j
      BY DEF NoOwnerTwice
    <3>1. f[i] = f[j]
      BY <1>1, <2>1 DEF NoOwnerTwice
    <3> QED BY <3>1, <1>1
  <2>2. ASSUME NoOwnerTwice(gs) PROVE NoOwnerTwice(hs)
    <3> SUFFICES ASSUME NEW i \in D, NEW j \in D, Canon!SameOwner(hs[i], hs[j]) PROVE i = j
      BY DEF NoOwnerTwice
    <3>1. PICK a \in D : f[a] = i
      BY <1>1
    <3>2. PICK b \in D : f[b] = j
      BY <1>1
    <3>3. a = b
      BY <3>1, <3>2, <2>2 DEF NoOwnerTwice
    <3> QED BY <3>1, <3>2, <3>3
  <2> QED BY <2>1, <2>2
<1>5. Range(gs) = Range(hs)
  <2>1. \A k \in D : gs[k] \in {hs[i] : i \in D}
    BY <1>1
  <2>2. \A i \in D : \E k \in D : hs[i] = gs[k]
    BY <1>1
  <2> QED BY <2>1, <2>2 DEF Range
<1>6. ASSUME NoOwnerTwice(hs) PROVE Canon!Sorted(gs) = Canon!Sorted(hs)
  BY <1>2, <1>4, <1>5, <1>6, SortedUnique
<1> QED BY <1>3, <1>4, <1>6

(* Sources with the same entries in any order make the same snapshot.      *)
LEMMA SameSource ==
    ASSUME NEW src \in SourceType, NEW dst \in SourceType,
           DOMAIN dst.holders = DOMAIN src.holders,
           NEW f \in Bijection(DOMAIN src.holders, DOMAIN src.holders),
           SameMeta(dst.meta, src.meta),
           \A k \in DOMAIN src.holders :
             SameEntry(src.meta.network, dst.holders[k], src.holders[f[k]])
    PROVE  Canon!FromSource(dst) = Canon!FromSource(src)
<1> DEFINE D == DOMAIN src.holders
           p == Parsed(src)
           q == Parsed(dst)
<1>1. /\ f \in [D -> D] /\ \A t \in D : \E k \in D : f[k] = t
  BY Fun_BijectionProperties
<1>2. Len(dst.holders) = Len(src.holders)
  <2>1. /\ Len(dst.holders) \in Nat /\ DOMAIN dst.holders = 1..Len(dst.holders)
        /\ Len(src.holders) \in Nat /\ DOMAIN src.holders = 1..Len(src.holders)
    BY LenProperties DEF SourceType
  <2>2. 1..Len(dst.holders) = 1..Len(src.holders)
    BY <2>1
  <2>3. ASSUME NEW n \in Nat PROVE Cardinality(1..n) = n
    <3>1. 1 \in Int /\ n \in Int
      OBVIOUS
    <3>2. Cardinality(1..n) = IF 1 > n THEN 0 ELSE n - 1 + 1
      BY <3>1, FS_Interval, Zenon
    <3> QED BY <3>2
  <2>4. Cardinality(1..Len(dst.holders)) = Len(dst.holders)
        /\ Cardinality(1..Len(src.holders)) = Len(src.holders)
    BY <2>1, <2>3
  <2> QED BY <2>2, <2>4
<1>3. dst.meta.network = src.meta.network
  BY DEF SameMeta
<1>4. EntriesParse(dst) <=> EntriesParse(src)
  <2>1. EntriesParse(src) <=> \A k \in D : EntryParses(src.meta.network, src.holders[k])
    BY DEF EntriesParse, EntryParses
  <2>2. EntriesParse(dst) <=> \A k \in D : EntryParses(src.meta.network, dst.holders[k])
    BY <1>3 DEF EntriesParse, EntryParses
  <2>3. \A k \in D : EntryParses(src.meta.network, dst.holders[k])
                       <=> EntryParses(src.meta.network, src.holders[f[k]])
    BY DEF SameEntry
  <2> QED BY <1>1, <2>1, <2>2, <2>3
<1>5. ASSUME EntriesParse(src)
      PROVE  /\ SumOf(q) = SumOf(p)
             /\ NoOwnerTwice(q) <=> NoOwnerTwice(p)
             /\ NoOwnerTwice(p) => Canon!Sorted(q) = Canon!Sorted(p)
  <2>1. /\ p \in Seq(HolderType) /\ DOMAIN p = D
        /\ \A k \in D : p[k] = Canon!Holder(src.holders[k])
    BY <1>5, ParsedType
  <2>2. /\ q \in Seq(HolderType) /\ DOMAIN q = D
        /\ \A k \in D : q[k] = Canon!Holder(dst.holders[k])
    BY <1>4, <1>5, ParsedType
  <2>3. \A k \in D : EntryParses(src.meta.network, src.holders[k])
    BY <1>5 DEF EntriesParse, EntryParses
  <2>4. \A k \in D : q[k] = p[f[k]]
    BY <1>1, <2>1, <2>2, <2>3 DEF SameEntry
  <2> HIDE DEF p, q
  <2> QED BY <2>1, <2>2, <2>4, SameParsed
<1>6. src.meta \in Canon!MetaType /\ dst.meta \in Canon!MetaType
  BY DEF SourceType
<1>7. /\ Canon!MetaAccepted(dst.meta) <=> Canon!MetaAccepted(src.meta)
      /\ Canon!Context(dst.meta) = Canon!Context(src.meta)
      /\ Written(dst.meta) = Written(src.meta)
  BY <1>6, SameMetaSame
<1> HIDE DEF p, q
<1>8. Acceptable(dst) <=> Acceptable(src)
  BY Zenon, <1>2, <1>4, <1>5, <1>7 DEF Acceptable, p, q
<1>9. ASSUME Acceptable(src) PROVE Committed(dst) = Committed(src)
  <2>1. SumOf(q) = SumOf(p) /\ Canon!Sorted(q) = Canon!Sorted(p)
    BY <1>5, <1>9 DEF Acceptable, p
  <2> QED BY Zenon, <2>1, <1>3, <1>7 DEF Committed, p, q
<1>10. Canon!FromSource(dst) = IF Acceptable(dst) THEN Committed(dst) ELSE Canon!Rejected
  BY FromSourceExact
<1>11. Canon!FromSource(src) = IF Acceptable(src) THEN Committed(src) ELSE Canon!Rejected
  BY FromSourceExact
<1> QED BY <1>8, <1>9, <1>10, <1>11

(* Leaving every place as it is, and swapping two, are bijections.         *)
LEMMA IdentityBijection == ASSUME NEW D PROVE [k \in D |-> k] \in Bijection(D, D)
<1> DEFINE f == [k \in D |-> k]
<1>1. /\ f \in [D -> D] /\ \A a, b \in D : f[a] = f[b] => a = b
      /\ \A t \in D : \E s \in D : f[s] = t
  OBVIOUS
<1> HIDE DEF f
<1>2. f \in Bijection(D, D)
  BY <1>1, Fun_IsBij
<1> QED BY <1>2 DEF f

(* Two entries change places.                                              *)
LEMMA SwapBijection ==
    ASSUME NEW D, NEW i \in D, NEW j \in D
    PROVE  [k \in D |-> IF k = i THEN j ELSE IF k = j THEN i ELSE k] \in Bijection(D, D)
<1> DEFINE f == [k \in D |-> IF k = i THEN j ELSE IF k = j THEN i ELSE k]
<1>1. /\ f \in [D -> D] /\ \A a, b \in D : f[a] = f[b] => a = b
  OBVIOUS
<1>2. \A t \in D : f[f[t]] = t /\ f[t] \in D
  OBVIOUS
<1> HIDE DEF f
<1>3. f \in Bijection(D, D)
  BY <1>1, <1>2, Fun_IsBij
<1> QED BY <1>3 DEF f

(* Listing two holders the other way round. *)
LEMMA ShuffleSame ==
    ASSUME CanonInv, Canon!Shuffle
    PROVE  source' \in SourceType /\ result' = result
<1>1. PICK i, j \in DOMAIN source.holders :
        /\ i < j
        /\ source' = [source EXCEPT !.holders[i] = source.holders[j],
                                    !.holders[j] = source.holders[i]]
        /\ result' = Canon!FromSource(source')
  BY DEF Canon!Shuffle, Canon!Declare
<1> DEFINE D == DOMAIN source.holders
           hs == source.holders
           gs == [[hs EXCEPT ![i] = hs[j]] EXCEPT ![j] = hs[i]]
           f == [k \in D |-> IF k = i THEN j ELSE IF k = j THEN i ELSE k]
<1>0. source \in SourceType /\ result = Canon!FromSource(source)
  BY DEF CanonInv
<1>2. source' = [meta |-> source.meta, holders |-> gs]
  BY <1>0, <1>1 DEF SourceType
<1>3. hs \in Seq(Canon!RawType) /\ source.meta \in Canon!MetaType
  BY <1>0 DEF SourceType
<1>4. D = 1..Len(hs) /\ i \in 1..Len(hs) /\ j \in 1..Len(hs) /\ i # j
      /\ hs[i] \in Canon!RawType /\ hs[j] \in Canon!RawType
  BY <1>1, <1>3, LenProperties, ElementOfSeq
<1>5. gs \in Seq(Canon!RawType) /\ DOMAIN gs = D
  BY <1>3, <1>4
<1>6. \A k \in D : gs[k] = hs[f[k]]
  BY <1>4
<1>7. f \in Bijection(D, D)
  BY SwapBijection
<1> HIDE DEF f, gs
<1>8. source' \in SourceType /\ source'.meta = source.meta /\ source'.holders = gs
  BY <1>2, <1>3, <1>5 DEF SourceType
<1>9. \A k \in D : SameEntry(source.meta.network, source'.holders[k], source.holders[f[k]])
  BY <1>6, <1>8 DEF SameEntry
<1>10. SameMeta(source'.meta, source.meta)
  BY Zenon, <1>8 DEF SameMeta, SameHash
<1>11. DOMAIN source'.holders = D
  BY <1>5, <1>8
<1>12. Canon!FromSource(source') = Canon!FromSource(source)
  BY <1>0, <1>7, <1>8, <1>9, <1>10, <1>11, SameSource
<1> QED BY <1>0, <1>1, <1>8, <1>12

(* A hash in capitals or not is the same hash.                             *)
LEMMA Capitals ==
    ASSUME NEW h \in Canon!HexType
    PROVE  LET d == [h EXCEPT !.capitals = ~@]
           IN  d \in Canon!HexType /\ SameHash(d, h)
BY DEF Canon!HexType, SameHash, Canon!ParsesHex32

(* Other fields that say the same make the same snapshot.                  *)
LEMMA MetaRespelled ==
    ASSUME CanonInv, NEW m \in Canon!MetaType, SameMeta(m, source.meta),
           source' = [source EXCEPT !.meta = m], result' = Canon!FromSource(source')
    PROVE  source' \in SourceType /\ result' = result
<1> DEFINE D == DOMAIN source.holders
           f == [k \in D |-> k]
<1>1. source \in SourceType /\ result = Canon!FromSource(source)
  BY DEF CanonInv
<1>2. source' \in SourceType /\ source'.meta = m /\ source'.holders = source.holders
  BY <1>1 DEF SourceType
<1>3. f \in Bijection(D, D)
  BY IdentityBijection
<1>4. \A k \in D : SameEntry(source.meta.network, source'.holders[k], source.holders[f[k]])
  BY <1>2 DEF SameEntry
<1> HIDE DEF f
<1>5. Canon!FromSource(source') = Canon!FromSource(source)
  BY <1>1, <1>2, <1>3, <1>4, SameSource
<1> QED BY <1>1, <1>2, <1>5

(* Writing either hash in capitals or not. *)
LEMMA RespellSame ==
    ASSUME CanonInv, Canon!Respell
    PROVE  source' \in SourceType /\ result' = result
<1> DEFINE m == source.meta
           d == [m.deploy EXCEPT !.capitals = ~@]
           u == [m.muhash EXCEPT !.capitals = ~@]
<1>1. source \in SourceType /\ m \in Canon!MetaType
  BY DEF CanonInv, SourceType
<1>2. m.deploy \in Canon!HexType /\ m.muhash \in Canon!HexType
  BY <1>1 DEF Canon!MetaType
<1>3. d \in Canon!HexType /\ SameHash(d, m.deploy) /\ SameHash(m.deploy, m.deploy)
  BY <1>2, Capitals DEF SameHash
<1>4. u \in Canon!HexType /\ SameHash(u, m.muhash) /\ SameHash(m.muhash, m.muhash)
  BY <1>2, Capitals DEF SameHash
<1>5. /\ result' = Canon!FromSource(source')
      /\ \/ source' = [source EXCEPT !.meta.deploy.capitals = ~@]
         \/ source' = [source EXCEPT !.meta.muhash.capitals = ~@]
  BY DEF Canon!Respell, Canon!Declare
<1>6. CASE source' = [source EXCEPT !.meta.deploy.capitals = ~@]
  <2> DEFINE w == [m EXCEPT !.deploy = d]
  <2>1. source' = [source EXCEPT !.meta = w]
    BY <1>1, <1>2, <1>6 DEF SourceType, Canon!MetaType
  <2> HIDE DEF d
  <2>2. w \in Canon!MetaType /\ w.deploy = d /\ w.muhash = m.muhash /\ w.daa = m.daa
        /\ w.network = m.network /\ w.ticker = m.ticker /\ w.indexer = m.indexer
    BY <1>1, <1>3 DEF Canon!MetaType
  <2> HIDE DEF w
  <2>3. SameMeta(w, source.meta)
    BY Zenon, <1>3, <1>4, <2>2 DEF SameMeta
  <2> QED BY <1>5, <2>1, <2>2, <2>3, MetaRespelled
<1>7. CASE source' = [source EXCEPT !.meta.muhash.capitals = ~@]
  <2> DEFINE w == [m EXCEPT !.muhash = u]
  <2>1. source' = [source EXCEPT !.meta = w]
    BY <1>1, <1>2, <1>7 DEF SourceType, Canon!MetaType
  <2> HIDE DEF u
  <2>2. w \in Canon!MetaType /\ w.muhash = u /\ w.deploy = m.deploy /\ w.daa = m.daa
        /\ w.network = m.network /\ w.ticker = m.ticker /\ w.indexer = m.indexer
    BY <1>1, <1>4 DEF Canon!MetaType
  <2> HIDE DEF w
  <2>3. SameMeta(w, source.meta)
    BY Zenon, <1>3, <1>4, <2>2 DEF SameMeta
  <2> QED BY <1>5, <2>1, <2>2, <2>3, MetaRespelled
<1> QED BY <1>5, <1>6, <1>7

(* Reading the source that was written for an accepted one. *)
LEMMA RecommitSame ==
    ASSUME CanonInv, Canon!Recommit
    PROVE  source' \in SourceType /\ result' = result
<1> DEFINE m == source.meta
           net == source.meta.network
           p == Parsed(source)
           s == Canon!Sorted(p)
           D == DOMAIN source.holders
           f == [k \in D |-> SortedFrom(p, k)]
           gs == [i \in D |-> Canon!RawOf(net, s[i])]
           w == Written(m)
<1>0. source \in SourceType /\ result = Canon!FromSource(source) /\ m \in Canon!MetaType
  BY DEF CanonInv, SourceType
<1>1. /\ result.accepted
      /\ source' = [meta |-> result.manifest.meta,
                    holders |-> [i \in DOMAIN result.holders |->
                                   Canon!RawOf(source.meta.network, result.holders[i])]]
      /\ result' = Canon!FromSource(source')
  BY Zenon DEF Canon!Recommit, Canon!Declare
<1>2. Acceptable(source) /\ result = Committed(source)
  BY <1>0, <1>1, FromSourceExact DEF Canon!Rejected
<1>3. EntriesParse(source)
  BY <1>2 DEF Acceptable
<1>4. /\ p \in Seq(HolderType) /\ DOMAIN p = D
      /\ \A k \in D : p[k] = Canon!Holder(source.holders[k])
  BY <1>0, <1>3, ParsedType
<1>5. result.holders = s /\ result.manifest.meta = w
  BY <1>2 DEF Committed
<1> HIDE DEF p
<1>6. /\ f \in Bijection(D, D)
      /\ s \in Seq(HolderType) /\ DOMAIN s = D
      /\ \A k \in D : s[k] = p[f[k]] /\ f[k] \in D
  <2>1. [k \in DOMAIN p |-> SortedFrom(p, k)] \in Bijection(DOMAIN p, DOMAIN p)
    BY <1>4, SortedFacts
  <2>2. f \in Bijection(D, D)
    BY <2>1, <1>4
  <2>3. \A k \in D : f[k] \in D /\ f[k] = SortedFrom(p, k)
    <3>1. f \in [D -> D]
      BY <2>2, Fun_BijectionProperties
    <3> QED BY <3>1
  <2>4. s \in Seq(HolderType) /\ DOMAIN s = D /\ \A k \in D : s[k] = p[SortedFrom(p, k)]
    BY <1>4, SortedFacts
  <2> QED BY <2>2, <2>3, <2>4
<1> HIDE DEF s, f, w
<1>7. source' = [meta |-> w, holders |-> gs]
  BY <1>1, <1>5, <1>6
<1> DEFINE raw(k) == Canon!RawOf(net, s[k])
<1>8. ASSUME NEW k \in D
      PROVE  /\ raw(k) \in Canon!RawType
             /\ EntryParses(net, raw(k)) /\ EntryParses(net, source.holders[f[k]])
             /\ Canon!Holder(raw(k)) = s[k] /\ Canon!Holder(source.holders[f[k]]) = s[k]
  <2> DEFINE h == s[k]
             b == source.holders[f[k]]
             v == CHOOSE x \in DOMAIN Canon!Schemes : Canon!Schemes[x] = h.scheme
  <2>1. f[k] \in D /\ h = Canon!Holder(b)
    BY <1>4, <1>6
  <2>2. EntryParses(net, b)
    BY <1>3, <2>1 DEF EntriesParse, EntryParses
  <2>3. h \in HolderType
    BY <1>6, LenProperties, ElementOfSeq
  <2>4. h = [scheme |-> h.scheme, owner |-> h.owner, amount |-> h.amount]
        /\ h.scheme \in {0, 3} /\ h.owner \in Int /\ h.amount \in Nat
    BY <2>3 DEF HolderType
  <2>5. /\ net \in {Mainnet, Testnet10}
        /\ h.amount \in 1..MaxInt
    BY <2>1, <2>2 DEF EntryParses, Canon!ParsesOwner, Canon!ParsesDecimal, Canon!Holder
  <2>6. v \in {"pubkey", "scripthash"} /\ v \in DOMAIN Canon!Schemes
        /\ Canon!Schemes[v] = h.scheme
    <3>1. DOMAIN Canon!Schemes = {"pubkey", "scripthash"}
          /\ Canon!Schemes["pubkey"] = 0 /\ Canon!Schemes["scripthash"] = 3
      BY DEF Canon!Schemes
    <3>2. \E x \in DOMAIN Canon!Schemes : Canon!Schemes[x] = h.scheme
      BY <3>1, <2>4
    <3> HIDE DEF h
    <3> QED BY <3>1, <3>2
  <2>7. raw(k) = [address |-> [network |-> net, payload |-> h.owner, version |-> v],
                  amount |-> [value |-> h.amount, canonical |-> TRUE]]
    BY Zenon DEF Canon!RawOf
  <2> HIDE DEF h, v, raw
  <2>8. raw(k).address = [network |-> net, payload |-> h.owner, version |-> v]
        /\ raw(k).amount = [value |-> h.amount, canonical |-> TRUE]
    BY <2>7
  <2>9. raw(k).address \in Canon!AddressType
    <3>1. net \in Canon!Text
      BY <1>0 DEF Canon!MetaType
    <3> QED BY <3>1, <2>4, <2>6, <2>8 DEF Canon!AddressType
  <2>10. raw(k) \in Canon!RawType
    BY <2>4, <2>7, <2>8, <2>9 DEF Canon!RawType, Canon!DecimalType
  <2>11. Canon!ParsesDecimal(raw(k).amount)
    BY <2>5, <2>8 DEF Canon!ParsesDecimal
  <2>12. Canon!ParsesOwner(net, raw(k).address)
    <3>1. raw(k).address # Garbage
      BY <2>9, FormatsAssumption DEF Canon!CanonAssumption
    <3> QED BY <3>1, <2>5, <2>6, <2>8 DEF Canon!ParsesOwner
  <2>13. Canon!Holder(raw(k)) = h
    BY <2>4, <2>6, <2>8 DEF Canon!Holder
  <2> QED BY <2>1, <2>2, <2>10, <2>11, <2>12, <2>13 DEF EntryParses, h
<1>9. \A k \in D : gs[k] = raw(k)
  OBVIOUS
<1>10. gs \in Seq(Canon!RawType) /\ DOMAIN gs = D
  <2>1. source.holders \in Seq(Canon!RawType)
    BY <1>0 DEF SourceType
  <2>2. D = 1..Len(source.holders) /\ Len(source.holders) \in Nat
    BY <2>1, LenProperties
  <2>3. gs \in [1..Len(source.holders) -> Canon!RawType] /\ DOMAIN gs = D
    BY <2>2, <1>8
  <2> QED BY <2>2, <2>3
<1> HIDE DEF gs, raw
<1>11. w \in Canon!MetaType /\ SameMeta(w, m) /\ w.network = m.network
  <2> DEFINE d == Canon!HexEncode(m.deploy.value)
             u == Canon!HexEncode(m.muhash.value)
  <2>1. w = [network |-> m.network, ticker |-> m.ticker, indexer |-> m.indexer,
             deploy |-> d, muhash |-> u, daa |-> m.daa]
    BY <1>0, WrittenMeta DEF w
  <2>2. m.deploy.value \in Nat /\ m.muhash.value \in Nat
    BY <1>0 DEF Canon!MetaType, Canon!HexType
  <2>3. Canon!ParsesHex32(m.deploy) /\ Canon!ParsesHex32(m.muhash)
    BY <1>2 DEF Acceptable, Canon!MetaAccepted
  <2>4. /\ d \in Canon!HexType /\ SameHash(d, m.deploy)
        /\ u \in Canon!HexType /\ SameHash(u, m.muhash)
    BY Zenon, <2>2, <2>3, HexEncoded DEF SameHash
  <2> HIDE DEF d, u
  <2>5. /\ w \in Canon!MetaType /\ w.network = m.network /\ w.ticker = m.ticker
        /\ w.indexer = m.indexer /\ w.daa = m.daa /\ w.deploy = d /\ w.muhash = u
    BY <1>0, <2>1, <2>4 DEF Canon!MetaType
  <2> QED BY Zenon, <2>4, <2>5 DEF SameMeta
<1>12. source' \in SourceType /\ source'.meta = w /\ source'.holders = gs
  BY <1>7, <1>10, <1>11 DEF SourceType
<1>13. SameMeta(source'.meta, source.meta)
  BY <1>11, <1>12
<1>14. \A k \in D : SameEntry(source.meta.network, source'.holders[k], source.holders[f[k]])
  BY <1>8, <1>9, <1>12 DEF SameEntry
<1>15. DOMAIN source'.holders = D
  BY <1>10, <1>12
<1>16. Canon!FromSource(source') = Canon!FromSource(source)
  BY <1>0, <1>6, <1>12, <1>13, <1>14, <1>15, SameSource
<1> QED BY <1>0, <1>1, <1>12, <1>16

(* Another entry is added.                                                 *)
LEMMA AddHolderTyped ==
    ASSUME CanonInv, NEW raw \in Raws, Canon!AddHolder(raw)
    PROVE  source' \in SourceType /\ result' = Canon!FromSource(source')
<1>1. /\ source' = [source EXCEPT !.holders = Append(source.holders, raw)]
      /\ result' = Canon!FromSource(source')
  BY DEF Canon!AddHolder, Canon!Declare
<1>2. source \in SourceType /\ raw \in Canon!RawType
  BY FormatsAssumption DEF CanonInv, Canon!CanonAssumption
<1>3. Append(source.holders, raw) \in Seq(Canon!RawType)
  BY <1>2 DEF SourceType
<1> QED BY <1>1, <1>2, <1>3 DEF SourceType

(* Every declaration keeps the invariant.                                  *)
LEMMA CanonNext == CanonInv /\ Canon!Next => CanonInv'
<1> SUFFICES ASSUME CanonInv, Canon!Next PROVE CanonInv'
  OBVIOUS
<1>1. result' = Canon!FromSource(source')
  BY Zenon DEF Canon!Next, Canon!AddHolder, Canon!Shuffle, Canon!Respell, Canon!Recommit,
     Canon!Declare
<1>2. source' \in SourceType
  BY ShuffleSame, RespellSame, RecommitSame, AddHolderTyped DEF Canon!Next
<1> QED BY <1>1, <1>2 DEF CanonInv

(* So does the empty declaration that a behaviour begins with.             *)
LEMMA CanonInit == Canon!Init => CanonInv
<1> SUFFICES ASSUME Canon!Init PROVE CanonInv
  OBVIOUS
<1>1. PICK m \in Metas : source = [meta |-> m, holders |-> <<>>]
  BY DEF Canon!Init
<1>2. m \in Canon!MetaType /\ <<>> \in Seq(Canon!RawType)
  BY FormatsAssumption DEF Canon!CanonAssumption
<1> QED BY <1>1, <1>2 DEF CanonInv, SourceType, Canon!Init

-------------------------------------------------------------------------------
(* Numbers in bytes: to_le_bytes and from_le_bytes.                        *)

(* The lowest byte of a number and the rest, and back.                     *)
LEMMA Base256 ==
    /\ \A a \in Nat : a \div 256 \in Nat /\ a % 256 \in Byte /\ a = (a % 256) + 256 * (a \div 256)
    /\ \A b \in Byte, a \in Nat : (b + 256 * a) \div 256 = a /\ (b + 256 * a) % 256 = b
<1>1. ASSUME NEW a \in Nat
      PROVE  a \div 256 \in Nat /\ a % 256 \in Byte /\ a = (a % 256) + 256 * (a \div 256)
  BY DEF Byte
<1>2. ASSUME NEW b \in Byte, NEW a \in Nat
      PROVE  (b + 256 * a) \div 256 = a /\ (b + 256 * a) % 256 = b
  BY DEF Byte
<1> QED BY <1>1, <1>2

(* A byte is a number from 0 to 255.                                       *)
LEMMA ByteNat == \A x \in Byte : x \in Nat /\ x >= 0 /\ x <= 255
BY DEF Byte

(* What repeated division by 256 leaves of n. *)
Divides(q, n, w) ==
    q \in [0..w -> Nat] /\ q[0] = n /\ \A i \in 1..w : q[i] = q[i-1] \div 256

(* Quotients is that loop.                                                 *)
LEMMA QuotientsLoop ==
    ASSUME NEW n \in Nat, NEW w \in Nat
    PROVE  Divides(Quotients(n, w), n, w)
<1> DEFINE F == [p \in (1..w) \X Nat |-> p[2] \div 256]
           Is(g) == g = [i \in 0..w |-> IF i = 0 THEN n ELSE g[i-1] \div 256]
<1>1. StepsIn(F, w, Nat) /\ \A k \in 1..w, x \in Nat : F[<<k, x>>] = x \div 256
  <2>1. \A k \in 1..w, x \in Nat : F[<<k, x>>] = x \div 256
    OBVIOUS
  <2> HIDE DEF F
  <2> QED BY <2>1, Base256 DEF StepsIn
<1> HIDE DEF F
<1>2. PICK g : Loops(g, F, w, Nat, n)
  BY <1>1, Loop
<1>3. g \in [0..w -> Nat] /\ g[0] = n /\ \A i \in 1..w : g[i] = g[i-1] \div 256
  <2>1. g \in [0..w -> Nat] /\ g[0] = n /\ \A i \in 1..w : g[i] = F[<<i, g[i-1]>>]
    BY <1>2 DEF Loops
  <2>2. ASSUME NEW i \in 1..w PROVE g[i] = g[i-1] \div 256
    <3>1. g[i-1] \in Nat
      BY <2>1
    <3>2. g[i] = F[<<i, g[i-1]>>]
      BY <2>1
    <3>3. F[<<i, g[i-1]>>] = g[i-1] \div 256
      BY <3>1, <1>1
    <3> QED BY <3>2, <3>3
  <2> QED BY <2>1, <2>2
<1>4. Is(g)
  <2>1. ASSUME NEW i \in 0..w PROVE g[i] = IF i = 0 THEN n ELSE g[i-1] \div 256
    <3>1. i # 0 => i \in 1..w
      OBVIOUS
    <3> QED BY <3>1, <1>3
  <2> QED BY <2>1, <1>3
<1>5. Quotients(n, w) = CHOOSE f : Is(f)
  BY DEF Quotients
<1>6. Is(Quotients(n, w))
  <2> HIDE DEF Is
  <2> QED BY <1>4, <1>5
<1> DEFINE q == Quotients(n, w)
<1> HIDE DEF q
<1>7. q = [i \in 0..w |-> IF i = 0 THEN n ELSE q[i-1] \div 256]
  BY <1>6 DEF q
<1>8. q[0] = n /\ \A i \in 1..w : q[i] = q[i-1] \div 256
  BY <1>7
<1> DEFINE S == {i \in Nat : q[i] \in Nat}
<1>9. 0 \in S
  BY <1>8
<1>10. ASSUME NEW i \in 0..w-1, i \in S PROVE i + 1 \in S
  <2>1. q[i + 1] = q[i] \div 256 /\ q[i] \in Nat
    BY <1>8, <1>10
  <2> QED BY <2>1, Base256
<1>11. \A i \in 0..w : i \in S
  <2> HIDE DEF S
  <2> QED BY <1>9, <1>10, InductionTo
<1>12. q \in [0..w -> Nat]
  BY <1>7, <1>11
<1> QED BY <1>8, <1>12 DEF q, Divides

(* So is Values: byte by byte, the highest first.                          *)
LEMMA ValuesLoop ==
    ASSUME NEW b \in Seq(Byte)
    PROVE  /\ Values(b) \in [0..Len(b) -> Nat]
           /\ Values(b)[0] = 0
           /\ \A k \in 1..Len(b) : Values(b)[k] = b[Len(b) + 1 - k] + 256 * Values(b)[k-1]
<1> DEFINE N == Len(b)
           F == [p \in (1..N) \X Nat |-> b[N + 1 - p[1]] + 256 * p[2]]
           Is(g) == g = [k \in 0..N |-> IF k = 0 THEN 0 ELSE b[N + 1 - k] + 256 * g[k-1]]
<1>0. N \in Nat /\ \A k \in 1..N : b[N + 1 - k] \in Nat
  <2>1. N \in Nat /\ \A k \in 1..N : b[k] \in Byte
    BY LenProperties, ElementOfSeq
  <2> HIDE DEF N
  <2>2. \A k \in 1..N : N + 1 - k \in 1..N
    BY <2>1
  <2>3. ASSUME NEW k \in 1..N PROVE b[N + 1 - k] \in Nat
    <3>1. b[N + 1 - k] \in Byte
      BY <2>1, <2>2
    <3> QED BY <3>1, ByteNat
  <2> QED BY <2>1, <2>3
<1>1. StepsIn(F, N, Nat)
      /\ \A k \in 1..N, x \in Nat : F[<<k, x>>] = b[N + 1 - k] + 256 * x
  <2>1. \A k \in 1..N, x \in Nat : F[<<k, x>>] = b[N + 1 - k] + 256 * x
    OBVIOUS
  <2> HIDE DEF F, N
  <2>2. \A k \in 1..N, x \in Nat : b[N + 1 - k] + 256 * x \in Nat
    BY <1>0
  <2> QED BY <2>1, <2>2 DEF StepsIn
<1> HIDE DEF F
<1>2. PICK g : Loops(g, F, N, Nat, 0)
  <2> HIDE DEF N
  <2>1. N \in Nat /\ 0 \in Nat /\ StepsIn(F, N, Nat)
    BY <1>0, <1>1
  <2> QED BY <2>1, Loop
<1> HIDE DEF N
<1>3. g \in [0..N -> Nat] /\ g[0] = 0 /\ \A k \in 1..N : g[k] = b[N + 1 - k] + 256 * g[k-1]
  <2>1. g \in [0..N -> Nat] /\ g[0] = 0 /\ \A i \in 1..N : g[i] = F[<<i, g[i-1]>>]
    BY <1>2 DEF Loops
  <2>2. ASSUME NEW k \in 1..N PROVE g[k] = b[N + 1 - k] + 256 * g[k-1]
    <3>1. g[k-1] \in Nat
      <4>1. k-1 \in 0..N
        BY <1>0
      <4> QED BY <2>1, <4>1
    <3>2. g[k] = F[<<k, g[k-1]>>]
      BY <2>1
    <3>3. F[<<k, g[k-1]>>] = b[N + 1 - k] + 256 * g[k-1]
      BY <3>1, <1>1
    <3> QED BY <3>2, <3>3
  <2> QED BY <2>1, <2>2
<1>4. Is(g)
  <2>1. ASSUME NEW k \in 0..N
        PROVE  g[k] = IF k = 0 THEN 0 ELSE b[N + 1 - k] + 256 * g[k-1]
    <3>1. k # 0 => k \in 1..N
      BY <1>0
    <3> QED BY <3>1, <1>3
  <2> QED BY <2>1, <1>3
<1>5. Values(b) = CHOOSE f : Is(f)
  BY DEF Values, N
<1>6. Is(Values(b))
  <2> HIDE DEF Is
  <2> QED BY <1>4, <1>5
<1> DEFINE v == Values(b)
<1> HIDE DEF v
<1>7. v = [k \in 0..N |-> IF k = 0 THEN 0 ELSE b[N + 1 - k] + 256 * v[k-1]]
  BY <1>6 DEF v
<1>8. v[0] = 0 /\ \A k \in 1..N : v[k] = b[N + 1 - k] + 256 * v[k-1]
  BY <1>0, <1>7
<1> DEFINE S == {i \in Nat : v[i] \in Nat}
<1>9. 0 \in S
  BY <1>8
<1>10. ASSUME NEW i \in 0..N-1, i \in S PROVE i + 1 \in S
  <2>1. i + 1 \in 1..N /\ (i + 1) - 1 = i
    BY <1>0
  <2>2. v[i + 1] = b[N + 1 - (i + 1)] + 256 * v[i] /\ v[i] \in Nat
    BY <1>8, <1>10, <2>1
  <2>3. b[N + 1 - (i + 1)] \in Nat
    BY <2>1, <1>0
  <2>4. v[i + 1] \in Nat
    BY <2>2, <2>3
  <2> QED BY <2>1, <2>4
<1>11. \A i \in 0..N : i \in S
  <2> HIDE DEF S
  <2> QED BY <1>0, <1>9, <1>10, InductionTo
<1>12. v \in [0..N -> Nat]
  BY <1>7, <1>11
<1> QED BY <1>8, <1>12 DEF v, N

(* b is n in w bytes. *)
Spelled(b, n, w) ==
    b \in Seq(Byte) /\ Len(b) = w /\ \A i \in 1..w : b[i] = Quotients(n, w)[i-1] % 256

(* LittleEndian spells its number.                                         *)
LEMMA Spells ==
    ASSUME NEW n \in Nat, NEW w \in Nat
    PROVE  Spelled(LittleEndian(n, w), n, w)
<1> DEFINE q == Quotients(n, w)
           b == LittleEndian(n, w)
<1>1. b = [i \in 1..w |-> q[i-1] % 256]
  BY DEF LittleEndian
<1>2. q \in [0..w -> Nat]
  BY QuotientsLoop DEF Divides
<1> HIDE DEF q, b
<1>3. ASSUME NEW i \in 1..w PROVE q[i-1] % 256 \in Byte
  <2>1. q[i-1] \in Nat
    BY <1>2
  <2> QED BY <2>1, Base256
<1>4. b \in [1..w -> Byte]
  BY <1>1, <1>3
<1>5. b \in Seq(Byte) /\ DOMAIN b = 1..w
  BY <1>4
<1>6. Len(b) = w
  BY <1>5
<1>7. \A i \in 1..w : b[i] = q[i-1] % 256
  BY <1>1
<1> QED BY <1>5, <1>6, <1>7, Zenon DEF q, b, Spelled

(* That is, it has w bytes, and byte i is what division leaves.            *)
LEMMA LittleEndianBytes ==
    ASSUME NEW n \in Nat, NEW w \in Nat
    PROVE  /\ LittleEndian(n, w) \in Seq(Byte)
           /\ Len(LittleEndian(n, w)) = w
           /\ \A i \in 1..w : LittleEndian(n, w)[i] = Quotients(n, w)[i-1] % 256
BY Spells DEF Spelled

(* What fits in the bytes it is written to is read back from them.         *)
LEMMA ReadWritten ==
    ASSUME NEW n \in Nat, NEW w \in Nat, Fits(n, w)
    PROVE  Unsigned(LittleEndian(n, w)) = n
<1> DEFINE q == Quotients(n, w)
           b == LittleEndian(n, w)
           v == Values(b)
           S == {k \in Nat : v[k] = q[w - k]}
<1>1. /\ q \in [0..w -> Nat] /\ q[0] = n /\ q[w] = 0
      /\ \A i \in 1..w : q[i] = q[i-1] \div 256
  <2>1. Divides(q, n, w)
    BY QuotientsLoop
  <2>2. q[w] = 0
    BY DEF Fits
  <2> HIDE DEF q
  <2> QED BY <2>1, <2>2 DEF Divides
<1>2. b \in Seq(Byte) /\ Len(b) = w /\ \A i \in 1..w : b[i] = q[i-1] % 256
  BY LittleEndianBytes
<1> HIDE DEF q, b
<1>3. v[0] = 0 /\ \A k \in 1..w : v[k] = b[w + 1 - k] + 256 * v[k-1]
  <2>1. b \in Seq(Byte)
    BY <1>2
  <2>2. v[0] = 0 /\ \A k \in 1..Len(b) : v[k] = b[Len(b) + 1 - k] + 256 * v[k-1]
    BY <2>1, ValuesLoop, Zenon
  <2> QED BY <1>2, <2>2, Zenon
<1>4. Unsigned(b) = v[w]
  BY <1>2 DEF Unsigned
<1> HIDE DEF v
<1>5. 0 \in S
  BY <1>1, <1>3
<1>6. ASSUME NEW k \in 0..w-1, k \in S PROVE k + 1 \in S
  <2> DEFINE j == w - k
  <2>1. j \in 1..w /\ w + 1 - (k + 1) = j /\ w - (k + 1) = j - 1 /\ (k + 1) - 1 = k
        /\ k + 1 \in 1..w /\ k + 1 \in Nat
    OBVIOUS
  <2>2. v[k] = q[j]
    BY <1>6
  <2> HIDE DEF j
  <2>3. v[k + 1] = b[j] + 256 * v[k]
    BY <1>3, <2>1
  <2>4. b[j] = q[j-1] % 256 /\ q[j] = q[j-1] \div 256 /\ q[j-1] \in Nat
    BY <1>1, <1>2, <2>1, SMTT(30)
  <2>5. q[j-1] = (q[j-1] % 256) + 256 * (q[j-1] \div 256)
    BY <2>4, Base256
  <2>6. v[k + 1] = q[j-1]
    BY <2>2, <2>3, <2>4, <2>5
  <2> QED BY <2>1, <2>6
<1>7. \A k \in 0..w : k \in S
  <2> HIDE DEF S
  <2> QED BY <1>5, <1>6, InductionTo
<1>8. v[w] = q[w - w]
  BY <1>7
<1>9. v[w] = n
  BY <1>8, <1>1
<1> QED BY <1>4, <1>9 DEF b

(* Bytes are what is written for the number they stand for. *)
LEMMA WriteRead ==
    ASSUME NEW b \in Seq(Byte)
    PROVE  /\ Unsigned(b) \in Nat
           /\ Fits(Unsigned(b), Len(b))
           /\ LittleEndian(Unsigned(b), Len(b)) = b
<1> DEFINE w == Len(b)
           v == Values(b)
           n == v[w]
           q == Quotients(n, w)
           S == {i \in Nat : q[i] = v[w - i]}
<1>1. w \in Nat /\ \A i \in 1..w : b[i] \in Byte
  BY LenProperties, ElementOfSeq
<1>2. /\ v \in [0..w -> Nat] /\ v[0] = 0
      /\ \A k \in 1..w : v[k] = b[w + 1 - k] + 256 * v[k-1]
  BY ValuesLoop
<1>3. Unsigned(b) = n
  BY DEF Unsigned
<1> HIDE DEF w, v
<1>4. n \in Nat
  BY <1>1, <1>2
<1> HIDE DEF n
<1>5. q[0] = n /\ \A i \in 1..w : q[i] = q[i-1] \div 256
  <2>1. n \in Nat /\ w \in Nat
    BY <1>1, <1>4
  <2>2. Divides(q, n, w)
    BY <2>1, QuotientsLoop
  <2> HIDE DEF q
  <2> QED BY <2>2 DEF Divides
<1> HIDE DEF q
<1>6. ASSUME NEW i \in 1..w
      PROVE  v[w - (i - 1)] \div 256 = v[w - i] /\ v[w - (i - 1)] % 256 = b[i]
  <2> DEFINE j == w - (i - 1)
  <2>1. j \in 1..w /\ w + 1 - j = i /\ j - 1 = w - i /\ w - i \in 0..w
    BY <1>1
  <2> HIDE DEF j
  <2>2. v[j] = b[i] + 256 * v[w - i]
    BY <1>2, <2>1
  <2>3. b[i] \in Byte /\ v[w - i] \in Nat
    BY <1>1, <1>2, <2>1
  <2>4. (b[i] + 256 * v[w - i]) \div 256 = v[w - i] /\ (b[i] + 256 * v[w - i]) % 256 = b[i]
    BY <2>3, Base256, ZenonT(30)
  <2>5. v[j] \div 256 = v[w - i] /\ v[j] % 256 = b[i]
    BY <2>2, <2>4
  <2> QED BY <2>5 DEF j
<1>7. 0 \in S
  BY <1>1, <1>5 DEF n
<1>8. ASSUME NEW i \in 0..w-1, i \in S PROVE i + 1 \in S
  <2>1. i + 1 \in 1..w /\ (i + 1) - 1 = i /\ i + 1 \in Nat
    BY <1>1
  <2>2. q[i + 1] = q[i] \div 256 /\ q[i] = v[w - i]
    BY <1>5, <1>8, <2>1
  <2>3. v[w - ((i + 1) - 1)] \div 256 = v[w - (i + 1)]
    BY <1>6, <2>1
  <2>4. q[i + 1] = v[w - (i + 1)]
    BY <2>1, <2>2, <2>3
  <2> QED BY <2>1, <2>4
<1>9. \A i \in 0..w : i \in S
  <2> HIDE DEF S
  <2> QED BY <1>1, <1>7, <1>8, InductionTo
<1>10. q[w] = 0
  <2>1. q[w] = v[w - w] /\ w - w = 0
    BY <1>1, <1>9
  <2> QED BY <2>1, <1>2
<1>11. ASSUME NEW i \in 1..w PROVE LittleEndian(n, w)[i] = b[i]
  <2>1. LittleEndian(n, w)[i] = q[i-1] % 256
    BY <1>1, <1>4, LittleEndianBytes DEF q
  <2>2. i - 1 \in 0..w
    BY <1>1
  <2>3. q[i-1] = v[w - (i - 1)]
    BY <1>9, <2>2
  <2> QED BY <2>1, <2>3, <1>6
<1>12. LittleEndian(n, w) = b
  <2>1. LittleEndian(n, w) \in Seq(Byte) /\ Len(LittleEndian(n, w)) = Len(b)
    BY <1>1, <1>4, LittleEndianBytes DEF w
  <2>2. \A i \in 1..Len(LittleEndian(n, w)) : LittleEndian(n, w)[i] = b[i]
    BY <1>11, <2>1 DEF w
  <2> QED BY <2>1, <2>2, SeqEqual
<1> QED BY <1>3, <1>4, <1>10, <1>12 DEF Fits, q, w

(* A number whose double fits leaves the highest bit free. *)
LEMMA SignBitFree ==
    ASSUME NEW n \in Nat, NEW w \in Nat \ {0}, Fits(2 * n, w)
    PROVE  Fits(n, w) /\ LittleEndian(n, w)[w] < 128
<1> DEFINE q == Quotients(n, w)
           d == Quotients(2 * n, w)
           S == {i \in Nat : d[i] >= 2 * q[i]}
<1>1. /\ q \in [0..w -> Nat] /\ q[0] = n /\ \A i \in 1..w : q[i] = q[i-1] \div 256
      /\ d \in [0..w -> Nat] /\ d[0] = 2 * n /\ \A i \in 1..w : d[i] = d[i-1] \div 256
  <2>1. n \in Nat /\ w \in Nat /\ 2 * n \in Nat
    OBVIOUS
  <2>2. Divides(q, n, w) /\ Divides(d, 2 * n, w)
    BY <2>1, QuotientsLoop
  <2> HIDE DEF q, d
  <2> QED BY <2>2 DEF Divides
<1>2. d[w] = 0
  BY DEF Fits
<1>3. LittleEndian(n, w)[w] = q[w-1] % 256
  BY LittleEndianBytes
<1> HIDE DEF q, d
<1>4. \A a, c \in Nat : c >= 2 * a => c \div 256 >= 2 * (a \div 256)
  OBVIOUS
<1>5. 0 \in S
  BY <1>1
<1>6. ASSUME NEW i \in 0..w-1, i \in S PROVE i + 1 \in S
  <2>1. i + 1 \in 1..w /\ (i + 1) - 1 = i /\ i \in 0..w /\ i + 1 \in Nat
    OBVIOUS
  <2>2. q[i + 1] = q[i] \div 256 /\ d[i + 1] = d[i] \div 256 /\ q[i] \in Nat /\ d[i] \in Nat
    BY <1>1, <2>1
  <2>3. d[i] >= 2 * q[i]
    BY <1>6
  <2>4. d[i + 1] >= 2 * q[i + 1]
    BY <2>2, <2>3, <1>4
  <2> QED BY <2>1, <2>4
<1>7. \A i \in 0..w : i \in S
  <2> HIDE DEF S
  <2> QED BY <1>5, <1>6, InductionTo
<1>8. q[w] = 0
  <2>1. d[w] >= 2 * q[w] /\ q[w] \in Nat
    BY <1>1, <1>7
  <2> QED BY <1>2, <2>1
<1>9. q[w-1] % 256 < 128
  <2>1. /\ d[w-1] >= 2 * q[w-1] /\ q[w-1] \in Nat /\ d[w-1] \in Nat
        /\ d[w] = d[w-1] \div 256
    BY <1>1, <1>7
  <2>2. d[w-1] < 256
    BY <1>2, <2>1
  <2>3. q[w-1] < 128
    BY <2>1, <2>2
  <2> QED BY <2>1, <2>3
<1> QED BY <1>3, <1>8, <1>9 DEF Fits, q

-------------------------------------------------------------------------------
(* Programs and the states in them.                                        *)

(* The operators of ProgramTemplate are those of ScriptBytes. *)
LEMMA TemplateTerms ==
    /\ Templates!Byte = Byte
    /\ \A n, w : Templates!LittleEndian(n, w) = LittleEndian(n, w)
    /\ \A n, w : Templates!Fits(n, w) = Fits(n, w)
    /\ \A b : Templates!Unsigned(b) = Unsigned(b)
<1>1. Templates!Byte = Byte
  BY Zenon DEF Templates!Byte, Byte
<1>2. ASSUME NEW n, NEW w PROVE Templates!Quotients(n, w) = Quotients(n, w)
  BY Zenon DEF Templates!Quotients, Quotients
<1>3. ASSUME NEW n, NEW w PROVE Templates!LittleEndian(n, w) = LittleEndian(n, w)
  BY <1>2, Zenon DEF Templates!LittleEndian, LittleEndian
<1>4. ASSUME NEW n, NEW w PROVE Templates!Fits(n, w) = Fits(n, w)
  BY <1>2, Zenon DEF Templates!Fits, Fits
<1>5. ASSUME NEW b PROVE Templates!Values(b) = Values(b)
  BY Zenon DEF Templates!Values, Values
<1>6. ASSUME NEW b PROVE Templates!Unsigned(b) = Unsigned(b)
  BY <1>5, Zenon DEF Templates!Unsigned, Unsigned
<1> QED BY <1>1, <1>3, <1>4, <1>6

(* A root is pushed by a length opcode. *)
LEMMA RootPush ==
    ASSUME NEW v \in Seq(Byte), 2 <= Len(v), Len(v) <= 75
    PROVE  Templates!Push(v) = <<Len(v)>> \o v
<1> DEFINE n == Len(v)
           h == Templates!Header(n)
<1>1. 2 <= n /\ n <= 75 /\ n \in Nat
  OBVIOUS
<1>2. v # <<>> /\ v # <<129>> /\ ~(n = 1 /\ v[1] \in 1..16)
  <2>1. Len(<<129>>) = 1 /\ Len(<<>>) = 0
    OBVIOUS
  <2> HIDE DEF n
  <2>2. n # 0 /\ n # 1
    BY <1>1
  <2>3. v # <<>> /\ v # <<129>>
    BY <2>1, <2>2, Zenon DEF n
  <2> QED BY <2>2, <2>3
<1>3. h = <<n>>
  <2>1. n <= 75 /\ ~(75 < n) /\ ~(255 < n)
    BY <1>1
  <2> HIDE DEF n
  <2> QED BY <2>1 DEF Templates!Header
<1> HIDE DEF h
<1>4. Templates!Push(v) = h \o v
  BY <1>2, Zenon DEF Templates!Push, h
<1> QED BY <1>3, <1>4

(* A part of a sequence, found by its elements. *)
LEMMA SubSeqIs ==
    ASSUME NEW S, NEW e \in Seq(S), NEW b \in Seq(S), NEW at \in Nat,
           at + Len(b) <= Len(e), \A i \in 1..Len(b) : e[at + i] = b[i]
    PROVE  SubSeq(e, at + 1, at + Len(b)) = b
<1> DEFINE N == Len(b)
           p == SubSeq(e, at + 1, at + N)
<1>1. N \in Nat /\ Len(e) \in Nat /\ at + N <= Len(e)
  BY LenProperties
<1>2. \A i \in 1..Len(e) : e[i] \in S
  BY ElementOfSeq
<1> HIDE DEF N
<1>3. at + 1 \in Int /\ at + N \in Int /\ \A i \in (at + 1)..(at + N) : e[i] \in S
  BY <1>1, <1>2
<1>4. /\ p \in Seq(S)
      /\ Len(p) = IF at + 1 <= at + N THEN (at + N) - (at + 1) + 1 ELSE 0
      /\ \A i \in 1..((at + N) - (at + 1) + 1) : p[i] = e[(at + 1) + i - 1]
  BY <1>3, SubSeqProperties
<1> HIDE DEF p
<1>5. Len(p) = N
  BY <1>1, <1>4
<1>6. ASSUME NEW i \in 1..N PROVE p[i] = b[i]
  <2>1. i \in 1..((at + N) - (at + 1) + 1) /\ (at + 1) + i - 1 = at + i
    BY <1>1
  <2>2. p[i] = e[at + i]
    BY <1>4, <2>1
  <2> QED BY <2>2 DEF N
<1>7. p = b
  <2>1. Len(p) = Len(b) /\ \A i \in 1..Len(p) : p[i] = b[i]
    BY <1>5, <1>6 DEF N
  <2> QED BY <1>4, <2>1, SeqEqual
<1> QED BY <1>7 DEF p, N

(* The three parts of a sequence put together of three. *)
InThree(all, a, b, c) ==
    /\ all \in Seq(Byte) /\ Len(all) = Len(a) + Len(b) + Len(c)
    /\ SubSeq(all, 1, Len(a)) = a
    /\ SubSeq(all, Len(a) + 1, Len(a) + Len(b)) = b
    /\ SubSeq(all, Len(a) + Len(b) + 1, Len(all)) = c

(* Three sequences put together can be taken apart again.                  *)
LEMMA ThreeParts ==
    ASSUME NEW a \in Seq(Byte), NEW b \in Seq(Byte), NEW c \in Seq(Byte)
    PROVE  InThree(a \o b \o c, a, b, c)
<1> DEFINE ab == a \o b
           all == ab \o c
<1>1. /\ ab \in Seq(Byte) /\ Len(ab) = Len(a) + Len(b)
      /\ \A i \in 1..Len(a) : ab[i] = a[i]
      /\ \A i \in 1..Len(b) : ab[Len(a) + i] = b[i]
  BY ConcatParts
<1> HIDE DEF ab
<1>2. /\ all \in Seq(Byte) /\ Len(all) = Len(ab) + Len(c)
      /\ \A i \in 1..Len(ab) : all[i] = ab[i]
      /\ \A i \in 1..Len(c) : all[Len(ab) + i] = c[i]
  <2>1. ab \in Seq(Byte) /\ c \in Seq(Byte)
    BY <1>1
  <2> QED BY <2>1, ConcatParts
<1> HIDE DEF all
<1>3. Len(a) \in Nat /\ Len(b) \in Nat /\ Len(c) \in Nat
  BY LenProperties
<1>4. Len(all) = Len(a) + Len(b) + Len(c)
  BY <1>1, <1>2
<1>5. SubSeq(all, 1, Len(a)) = a
  <2>1. 0 \in Nat /\ 0 + Len(a) <= Len(all)
    BY <1>3, <1>4
  <2>2. \A i \in 1..Len(a) : all[0 + i] = a[i]
    BY <1>1, <1>2, <1>3
  <2>3. SubSeq(all, 0 + 1, 0 + Len(a)) = a
    BY <1>2, <2>1, <2>2, SubSeqIs
  <2> QED BY <2>3, <1>3
<1>6. SubSeq(all, Len(a) + 1, Len(a) + Len(b)) = b
  <2>1. Len(a) + Len(b) <= Len(all)
    BY <1>3, <1>4
  <2>2. ASSUME NEW i \in 1..Len(b) PROVE all[Len(a) + i] = b[i]
    <3>1. Len(a) + i \in 1..Len(ab)
      BY <1>1, <1>3
    <3>2. all[Len(a) + i] = ab[Len(a) + i]
      BY <3>1, <1>2
    <3> QED BY <3>2, <1>1
  <2> QED BY <1>2, <1>3, <2>1, <2>2, SubSeqIs
<1>7. SubSeq(all, Len(a) + Len(b) + 1, Len(all)) = c
  <2> DEFINE at == Len(ab)
  <2>1. at \in Nat /\ at + Len(c) <= Len(all) /\ at + Len(c) = Len(all)
        /\ \A i \in 1..Len(c) : all[at + i] = c[i]
    BY <1>1, <1>2, <1>3
  <2>2. at + 1 = Len(a) + Len(b) + 1
    BY <1>1, <1>3
  <2> HIDE DEF at
  <2>3. SubSeq(all, at + 1, at + Len(c)) = c
    BY <1>2, <2>1, SubSeqIs
  <2> QED BY <2>1, <2>2, <2>3
<1> QED BY <1>2, <1>4, <1>5, <1>6, <1>7 DEF InThree, all, ab

(* The states the programs hold, and what is assumed of the constants. *)
StateType ==
    {s \in [amount : Nat, owner : Seq(Byte), scheme : Byte] :
       Fits(2 * s.amount, AmountWidth) /\ Len(s.owner) = OwnerWidth}

(* FormatsAssumption on the constants of the programs, in the operators    *)
(* here.                                                                   *)
LEMMA TemplateConstants ==
    /\ AmountWidth \in Nat \ {0} /\ OwnerWidth \in Nat /\ 2 <= OwnerWidth /\ OwnerWidth <= 75
    /\ AmountWidth \in Byte /\ OwnerWidth \in Byte /\ 1 \in Byte
    /\ TokenStates \subseteq StateType
    /\ Roots \subseteq Seq(Byte) /\ \A r \in Roots : Len(r) = OwnerWidth
    /\ Surroundings \subseteq Seq(Byte) /\ Bytes \subseteq Byte
<1>1. /\ AmountWidth \in 1..75 /\ OwnerWidth \in 2..75
      /\ TokenStates \subseteq Templates!TokenState
      /\ \A s \in TokenStates : /\ Templates!Fits(2 * s.amount, AmountWidth)
                                /\ Len(s.owner) = OwnerWidth
      /\ Roots \subseteq Seq(Templates!Byte) /\ \A r \in Roots : Len(r) = OwnerWidth
      /\ Surroundings \subseteq Seq(Templates!Byte)
      /\ Bytes \subseteq Templates!Byte
  BY FormatsAssumption, Zenon DEF Templates!TemplateAssumption
<1>2. \A a, b, k \in Int : k \in a..b <=> a <= k /\ k <= b
  OBVIOUS
<1>3. /\ AmountWidth \in Nat \ {0} /\ OwnerWidth \in Nat /\ 2 <= OwnerWidth /\ OwnerWidth <= 75
      /\ AmountWidth \in Byte /\ OwnerWidth \in Byte /\ 1 \in Byte
  BY <1>1 DEF Byte
<1>4. /\ Roots \subseteq Seq(Byte) /\ Surroundings \subseteq Seq(Byte) /\ Bytes \subseteq Byte
  BY <1>1, TemplateTerms, Zenon
<1>5. TokenStates \subseteq StateType
  <2>1. Templates!TokenState = [amount : Nat, owner : Seq(Byte), scheme : Byte]
    BY TemplateTerms, Zenon DEF Templates!TokenState
  <2>2. \A s \in TokenStates : Fits(2 * s.amount, AmountWidth)
    BY <1>1, TemplateTerms, Zenon
  <2> QED BY <1>1, <2>1, <2>2, Zenon DEF StateType
<1> QED BY <1>1, <1>3, <1>4, <1>5, Zenon

(* What the bytes of a state are, one field after another. *)
Encoded(e, s) ==
    /\ e \in Seq(Byte) /\ Len(e) = AmountWidth + OwnerWidth + 4
    /\ e[1] = AmountWidth
    /\ \A i \in 1..AmountWidth : e[1 + i] = LittleEndian(s.amount, AmountWidth)[i]
    /\ e[AmountWidth + 2] = OwnerWidth
    /\ \A i \in 1..OwnerWidth : e[(AmountWidth + 2) + i] = s.owner[i]
    /\ e[AmountWidth + OwnerWidth + 3] = 1
    /\ e[AmountWidth + OwnerWidth + 4] = s.scheme

(* c is a followed by b. *)
Joins(c, a, b) ==
    /\ c \in Seq(Byte) /\ Len(c) = Len(a) + Len(b)
    /\ \A i \in 1..Len(a) : c[i] = a[i]
    /\ \A i \in 1..Len(b) : c[Len(a) + i] = b[i]

(* Concatenation joins.                                                    *)
LEMMA JoinBytes ==
    ASSUME NEW a \in Seq(Byte), NEW b \in Seq(Byte)
    PROVE  Joins(a \o b, a, b)
BY ConcatParts DEF Joins

(* Encode puts every field in its place.                                   *)
LEMMA EncodeParts ==
    ASSUME NEW s \in [amount : Nat, owner : Seq(Byte), scheme : Byte],
           Len(s.owner) = OwnerWidth
    PROVE  Encoded(Templates!Encode(s), s)
<1> DEFINE AW == AmountWidth
           OW == OwnerWidth
           le == LittleEndian(s.amount, AW)
           two == <<1, s.scheme>>
           p1 == <<AW>> \o le
           p2 == p1 \o <<OW>>
           p3 == p2 \o s.owner
           p4 == p3 \o two
<1>1. /\ s.amount \in Nat /\ s.owner \in Seq(Byte) /\ Len(s.owner) = OW /\ s.scheme \in Byte
      /\ AW \in Nat \ {0} /\ OW \in Nat /\ AW \in Byte /\ OW \in Byte /\ 1 \in Byte
  BY TemplateConstants
<1>2. le \in Seq(Byte) /\ Len(le) = AW
  BY <1>1, LittleEndianBytes
<1>3. Templates!Encode(s) = p4
  BY TemplateTerms, Zenon DEF Templates!Encode
<1> HIDE DEF AW, OW, le
<1>4. /\ <<AW>> \in Seq(Byte) /\ Len(<<AW>>) = 1 /\ <<AW>>[1] = AW
      /\ <<OW>> \in Seq(Byte) /\ Len(<<OW>>) = 1 /\ <<OW>>[1] = OW
  BY <1>1
<1>5. two \in Seq(Byte) /\ Len(two) = 2 /\ two[1] = 1 /\ two[2] = s.scheme
  BY <1>1
<1> HIDE DEF two
<1>6. /\ p1 \in Seq(Byte) /\ Len(p1) = 1 + AW /\ p1[1] = AW
      /\ \A i \in 1..AW : p1[1 + i] = le[i]
  <2> DEFINE a == <<AW>>
  <2>1. a \in Seq(Byte) /\ Len(a) = 1 /\ a[1] = AW
    BY <1>4
  <2> HIDE DEF a
  <2> DEFINE c == a \o le
  <2>2. Joins(c, a, le)
    BY <1>2, <2>1, JoinBytes
  <2> HIDE DEF c
  <2>3. /\ c \in Seq(Byte) /\ Len(c) = 1 + AW /\ c[1] = AW
        /\ \A i \in 1..AW : c[1 + i] = le[i]
    BY <1>1, <1>2, <2>1, <2>2 DEF Joins
  <2> QED BY <2>3 DEF c, a
<1> HIDE DEF p1
<1>7. /\ p2 \in Seq(Byte) /\ Len(p2) = AW + 2 /\ p2[AW + 2] = OW
      /\ \A i \in 1..AW + 1 : p2[i] = p1[i]
  <2> DEFINE a == <<OW>>
             c == p1 \o a
  <2>1. a \in Seq(Byte) /\ Len(a) = 1 /\ a[1] = OW
    BY <1>4
  <2> HIDE DEF a
  <2>2. Joins(c, p1, a)
    BY <1>6, <2>1, JoinBytes
  <2> HIDE DEF c
  <2>3. /\ c \in Seq(Byte) /\ Len(c) = AW + 2 /\ c[AW + 2] = OW
        /\ \A i \in 1..AW + 1 : c[i] = p1[i]
    BY <1>1, <1>6, <2>1, <2>2 DEF Joins
  <2> QED BY <2>3 DEF c, a
<1> HIDE DEF p2
<1>8. /\ p3 \in Seq(Byte) /\ Len(p3) = AW + OW + 2
      /\ \A i \in 1..AW + 2 : p3[i] = p2[i]
      /\ \A i \in 1..OW : p3[(AW + 2) + i] = s.owner[i]
  <2>1. Joins(p3, p2, s.owner)
    BY <1>1, <1>7, JoinBytes
  <2> HIDE DEF p3
  <2> QED BY <1>1, <1>7, <2>1 DEF Joins
<1> HIDE DEF p3
<1>9. /\ p4 \in Seq(Byte) /\ Len(p4) = AW + OW + 4
      /\ \A i \in 1..AW + OW + 2 : p4[i] = p3[i]
      /\ p4[AW + OW + 3] = 1 /\ p4[AW + OW + 4] = s.scheme
  <2>1. Joins(p4, p3, two)
    BY <1>5, <1>8, JoinBytes
  <2> HIDE DEF p4
  <2>2. p4[Len(p3) + 1] = two[1] /\ p4[Len(p3) + 2] = two[2]
    BY <1>5, <2>1 DEF Joins
  <2> QED BY <1>1, <1>5, <1>8, <2>1, <2>2 DEF Joins
<1> HIDE DEF p4
<1>10. p4[1] = AW
  <2>1. 1 \in 1..AW + 1 /\ 1 \in 1..AW + 2 /\ 1 \in 1..AW + OW + 2
    BY <1>1
  <2> QED BY <2>1, <1>6, <1>7, <1>8, <1>9
<1>11. ASSUME NEW i \in 1..AW PROVE p4[1 + i] = le[i]
  <2>1. 1 + i \in 1..AW + 1 /\ 1 + i \in 1..AW + 2 /\ 1 + i \in 1..AW + OW + 2
    BY <1>1
  <2> QED BY <2>1, <1>6, <1>7, <1>8, <1>9, SMTT(30)
<1>12. p4[AW + 2] = OW
  <2>1. AW + 2 \in 1..AW + 2 /\ AW + 2 \in 1..AW + OW + 2
    BY <1>1
  <2> QED BY <2>1, <1>7, <1>8, <1>9
<1>13. ASSUME NEW i \in 1..OW PROVE p4[(AW + 2) + i] = s.owner[i]
  <2>1. (AW + 2) + i \in 1..AW + OW + 2
    BY <1>1
  <2> QED BY <2>1, <1>8, <1>9
<1>14. Encoded(p4, s)
  BY <1>9, <1>10, <1>11, <1>12, <1>13 DEF Encoded, AW, OW, le
<1> QED BY <1>3, <1>14

(* No other bytes have these fields. *)
LEMMA SameEncoding ==
    ASSUME NEW e, NEW f, NEW s, Encoded(e, s), Encoded(f, s)
    PROVE  e = f
<1> DEFINE AW == AmountWidth
           OW == OwnerWidth
<1>1. AW \in Nat /\ OW \in Nat
  BY TemplateConstants
<1>2. /\ e \in Seq(Byte) /\ f \in Seq(Byte) /\ Len(e) = AW + OW + 4 /\ Len(f) = AW + OW + 4
      /\ e[1] = f[1] /\ e[AW + 2] = f[AW + 2]
      /\ e[AW + OW + 3] = f[AW + OW + 3] /\ e[AW + OW + 4] = f[AW + OW + 4]
      /\ \A i \in 1..AW : e[1 + i] = f[1 + i]
      /\ \A i \in 1..OW : e[(AW + 2) + i] = f[(AW + 2) + i]
  BY DEF Encoded
<1> HIDE DEF AW, OW
<1>3. ASSUME NEW i \in 1..AW + OW + 4 PROVE e[i] = f[i]
  <2>1. CASE i \in {1, AW + 2, AW + OW + 3, AW + OW + 4}
    BY <1>2, <2>1
  <2>2. CASE i - 1 \in 1..AW
    <3>1. 1 + (i - 1) = i
      OBVIOUS
    <3> QED BY <1>2, <2>2, <3>1
  <2>3. CASE i - (AW + 2) \in 1..OW
    <3>1. (AW + 2) + (i - (AW + 2)) = i
      BY <1>1
    <3> QED BY <1>2, <2>3, <3>1
  <2>4. i \in {1, AW + 2, AW + OW + 3, AW + OW + 4} \/ i - 1 \in 1..AW \/ i - (AW + 2) \in 1..OW
    BY <1>1
  <2> QED BY <2>1, <2>2, <2>3, <2>4
<1>4. Len(e) = Len(f) /\ \A i \in 1..Len(e) : e[i] = f[i]
  BY <1>2, <1>3
<1> QED BY <1>2, <1>4, SeqEqual

(* The fields of bytes, each found where Encode puts it. *)
LEMMA FieldParts ==
    ASSUME NEW e \in Seq(Byte), Len(e) = AmountWidth + OwnerWidth + 4
    PROVE  LET amount == SubSeq(e, 2, 1 + AmountWidth)
               d == Templates!Fields(e)
           IN  /\ amount \in Seq(Byte) /\ Len(amount) = AmountWidth
               /\ \A i \in 1..AmountWidth : amount[i] = e[1 + i]
               /\ d.owner \in Seq(Byte) /\ Len(d.owner) = OwnerWidth
               /\ \A i \in 1..OwnerWidth : d.owner[i] = e[(AmountWidth + 2) + i]
               /\ d = [amount |-> Unsigned(amount), owner |-> d.owner,
                       scheme |-> e[AmountWidth + OwnerWidth + 4]]
<1> DEFINE AW == AmountWidth
           OW == OwnerWidth
           am == SubSeq(e, 2, 1 + AW)
           ow == SubSeq(e, (2 + AW) + 1, (2 + AW) + OW)
<1>1. AW \in Nat \ {0} /\ OW \in Nat \ {0}
  BY TemplateConstants
<1>2. \A i \in 1..AW + OW + 4 : e[i] \in Byte
  BY ElementOfSeq
<1>3. Templates!Fields(e) = [amount |-> Unsigned(am), owner |-> ow, scheme |-> e[AW + OW + 4]]
  <2>1. Templates!SchemeAt + 1 = AW + OW + 4
    BY <1>1 DEF Templates!SchemeAt, Templates!OwnerAt
  <2>2. Templates!OwnerAt = 2 + AW
    BY DEF Templates!OwnerAt
  <2>3. Templates!Unsigned(am) = Unsigned(am)
    BY TemplateTerms
  <2> QED BY <2>1, <2>2, <2>3, Zenon DEF Templates!Fields
<1> HIDE DEF AW, OW
<1>4. am \in Seq(Byte) /\ Len(am) = AW /\ \A i \in 1..AW : am[i] = e[1 + i]
  <2>1. 2 \in Int /\ 1 + AW \in Int /\ \A i \in 2..(1 + AW) : e[i] \in Byte
    BY <1>1, <1>2
  <2>2. /\ am \in Seq(Byte) /\ Len(am) = IF 2 <= 1 + AW THEN (1 + AW) - 2 + 1 ELSE 0
        /\ \A i \in 1..((1 + AW) - 2 + 1) : am[i] = e[2 + i - 1]
    BY <2>1, SubSeqProperties
  <2> HIDE DEF am
  <2>3. Len(am) = AW
    BY <1>1, <2>2
  <2>4. ASSUME NEW i \in 1..AW PROVE am[i] = e[1 + i]
    <3>1. i \in 1..((1 + AW) - 2 + 1) /\ 2 + i - 1 = 1 + i
      BY <1>1
    <3> QED BY <2>2, <3>1
  <2> QED BY <2>2, <2>3, <2>4
<1>5. ow \in Seq(Byte) /\ Len(ow) = OW /\ \A i \in 1..OW : ow[i] = e[(AW + 2) + i]
  <2> DEFINE from == (2 + AW) + 1
             to == (2 + AW) + OW
  <2>1. from \in Int /\ to \in Int /\ from <= to /\ to - from + 1 = OW
        /\ \A i \in from..to : e[i] \in Byte
    BY <1>1, <1>2
  <2> HIDE DEF from, to
  <2>2. /\ SubSeq(e, from, to) \in Seq(Byte)
        /\ Len(SubSeq(e, from, to)) = IF from <= to THEN to - from + 1 ELSE 0
        /\ \A i \in 1..(to - from + 1) : SubSeq(e, from, to)[i] = e[from + i - 1]
    BY <2>1, SubSeqProperties
  <2>3. SubSeq(e, from, to) = ow
    BY DEF from, to
  <2> HIDE DEF ow
  <2>4. ow \in Seq(Byte) /\ Len(ow) = OW /\ \A i \in 1..OW : ow[i] = e[from + i - 1]
    BY <2>1, <2>2, <2>3
  <2>5. ASSUME NEW i \in 1..OW PROVE ow[i] = e[(AW + 2) + i]
    <3>1. from + i - 1 = (AW + 2) + i
      BY <1>1 DEF from
    <3> QED BY <2>4, <3>1
  <2> QED BY <2>4, <2>5
<1> HIDE DEF am, ow
<1>6. Templates!Fields(e).owner = ow
  BY <1>3
<1> QED BY <1>3, <1>4, <1>5, <1>6 DEF am, AW, OW

(* What is encoded is what is decoded. *)
LEMMA DecodeEncoded ==
    ASSUME NEW s \in StateType, NEW e, Encoded(e, s)
    PROVE  Templates!Decode(e) = {s}
<1> DEFINE AW == AmountWidth
           OW == OwnerWidth
           le == LittleEndian(s.amount, AW)
           am == SubSeq(e, 2, 1 + AW)
           d == Templates!Fields(e)
<1>1. /\ s.amount \in Nat /\ s.owner \in Seq(Byte) /\ Len(s.owner) = OW /\ s.scheme \in Byte
      /\ AW \in Nat \ {0} /\ OW \in Nat /\ Fits(2 * s.amount, AW)
      /\ s = [amount |-> s.amount, owner |-> s.owner, scheme |-> s.scheme]
  BY TemplateConstants DEF StateType
<1>2. /\ e \in Seq(Byte) /\ Len(e) = AW + OW + 4 /\ e[1] = AW
      /\ \A i \in 1..AW : e[1 + i] = le[i]
      /\ e[AW + 2] = OW /\ \A i \in 1..OW : e[(AW + 2) + i] = s.owner[i]
      /\ e[AW + OW + 3] = 1 /\ e[AW + OW + 4] = s.scheme
  BY DEF Encoded
<1>3. le \in Seq(Byte) /\ Len(le) = AW
  BY <1>1, LittleEndianBytes
<1>4. Fits(s.amount, AW) /\ le[AW] < 128
  BY <1>1, SignBitFree
<1>5. Unsigned(le) = s.amount
  BY <1>1, <1>4, ReadWritten
<1>6. /\ am \in Seq(Byte) /\ Len(am) = AW
      /\ \A i \in 1..AW : am[i] = e[1 + i]
      /\ d.owner \in Seq(Byte) /\ Len(d.owner) = OW
      /\ \A i \in 1..OW : d.owner[i] = e[(AW + 2) + i]
      /\ d = [amount |-> Unsigned(am), owner |-> d.owner, scheme |-> e[AW + OW + 4]]
  BY <1>2, FieldParts, Zenon
<1>7. Templates!StateLen = AW + OW + 4 /\ Templates!OwnerAt = AW + 2
      /\ Templates!SchemeAt = AW + OW + 3
  BY <1>1 DEF Templates!StateLen, Templates!OwnerAt, Templates!SchemeAt
<1> HIDE DEF le, am, d
<1>8. am = le
  <2>1. Len(am) = Len(le) /\ \A i \in 1..Len(am) : am[i] = le[i]
    BY <1>2, <1>3, <1>6
  <2> QED BY <1>3, <1>6, <2>1, SeqEqual
<1>9. d.owner = s.owner
  <2>1. Len(d.owner) = Len(s.owner) /\ \A i \in 1..Len(d.owner) : d.owner[i] = s.owner[i]
    BY <1>1, <1>2, <1>6
  <2> QED BY <1>1, <1>6, <2>1, SeqEqual
<1>10. d = s
  BY <1>1, <1>2, <1>5, <1>6, <1>8, <1>9, Zenon
<1> HIDE DEF AW, OW
<1>11. e[1 + AW] < 128
  <2>1. AW \in 1..AW
    BY <1>1
  <2> QED BY <2>1, <1>2, <1>4
<1>12. /\ Len(e) = Templates!StateLen /\ e[1 + AmountWidth] < 128
       /\ e[1] = AmountWidth /\ e[Templates!OwnerAt] = OwnerWidth
       /\ e[Templates!SchemeAt] = 1
  BY <1>2, <1>7, <1>11 DEF AW, OW
<1>13. Templates!Decode(e) = {d}
  BY <1>12, Zenon DEF Templates!Decode, d
<1> QED BY <1>10, <1>13

(* What is decoded is what was encoded. *)
LEMMA EncodeDecoded ==
    ASSUME NEW e \in Seq(Byte), NEW d \in Templates!Decode(e)
    PROVE  Templates!Encode(d) = e
<1> DEFINE AW == AmountWidth
           OW == OwnerWidth
           am == SubSeq(e, 2, 1 + AW)
           at == AW + OW + 4
<1>1. AW \in Nat \ {0} /\ OW \in Nat
  BY TemplateConstants
<1>2. /\ Len(e) = Templates!StateLen
      /\ e[1] = AmountWidth /\ e[Templates!OwnerAt] = OwnerWidth
      /\ e[Templates!SchemeAt] = 1 /\ d = Templates!Fields(e)
  BY Zenon DEF Templates!Decode
<1>3. Templates!StateLen = at /\ Templates!OwnerAt = AW + 2
      /\ Templates!SchemeAt = AW + OW + 3
  BY <1>1 DEF Templates!StateLen, Templates!OwnerAt, Templates!SchemeAt
<1>4. Len(e) = at /\ e[1] = AW /\ e[AW + 2] = OW /\ e[AW + OW + 3] = 1
  BY <1>2, <1>3
<1>5. /\ am \in Seq(Byte) /\ Len(am) = AW
      /\ \A i \in 1..AW : am[i] = e[1 + i]
      /\ d.owner \in Seq(Byte) /\ Len(d.owner) = OW
      /\ \A i \in 1..OW : d.owner[i] = e[(AW + 2) + i]
      /\ d = [amount |-> Unsigned(am), owner |-> d.owner, scheme |-> e[at]]
  BY <1>2, <1>4, FieldParts, Zenon
<1>6. e[at] \in Byte
  <2>1. at \in 1..Len(e)
    BY <1>1, <1>4
  <2> QED BY <2>1, ElementOfSeq
<1> HIDE DEF am, at
<1>7. Unsigned(am) \in Nat /\ LittleEndian(Unsigned(am), AW) = am
  <2>1. LittleEndian(Unsigned(am), Len(am)) = am /\ Unsigned(am) \in Nat
    BY <1>5, WriteRead
  <2> QED BY <1>5, <2>1, Zenon
<1>8. d \in [amount : Nat, owner : Seq(Byte), scheme : Byte] /\ d.amount = Unsigned(am)
      /\ d.scheme = e[at]
  BY <1>5, <1>6, <1>7
<1>9. Encoded(e, d)
  <2>1. LittleEndian(d.amount, AW) = am
    BY <1>7, <1>8, Zenon
  <2>2. \A i \in 1..AW : e[1 + i] = LittleEndian(d.amount, AW)[i]
    BY <1>5, <2>1
  <2>3. \A i \in 1..OW : e[(AW + 2) + i] = d.owner[i]
    BY <1>5
  <2>4. Len(e) = AW + OW + 4 /\ e[AW + OW + 4] = d.scheme
    BY <1>4, <1>8 DEF at
  <2> QED BY <1>4, <2>2, <2>3, <2>4, Zenon DEF Encoded
<1>10. Encoded(Templates!Encode(d), d)
  BY <1>5, <1>8, EncodeParts
<1> QED BY <1>9, <1>10, SameEncoding

(* A state has one encoding, as long for every state of a kind. *)
EncodedLen(k) == IF k = "token" THEN AmountWidth + OwnerWidth + 4 ELSE OwnerWidth + 1

(* An encoding is bytes, of that length, and a token state decodes to      *)
(* itself.                                                                 *)
LEMMA EncodedState ==
    ASSUME NEW k \in {"token", "controller"}, NEW s \in Templates!StatesOf(k)
    PROVE  /\ Templates!EncodeState(k, s) \in Seq(Byte)
           /\ Len(Templates!EncodeState(k, s)) = EncodedLen(k) /\ EncodedLen(k) \in Nat
           /\ k = "token" => Templates!Decode(Templates!EncodeState(k, s)) = {s}
           /\ k = "controller" => Templates!EncodeState(k, s) = <<OwnerWidth>> \o s
<1>1. CASE k = "token"
  <2>1. s \in StateType
    BY <1>1, TemplateConstants, Zenon DEF Templates!StatesOf
  <2>2. Encoded(Templates!Encode(s), s)
    BY <2>1, EncodeParts DEF StateType
  <2>3. Templates!Decode(Templates!Encode(s)) = {s}
    BY <2>1, <2>2, DecodeEncoded
  <2>4. Templates!EncodeState(k, s) = Templates!Encode(s)
    BY <1>1, Zenon DEF Templates!EncodeState
  <2>5. Templates!Encode(s) \in Seq(Byte)
        /\ Len(Templates!Encode(s)) = AmountWidth + OwnerWidth + 4
    BY <2>2 DEF Encoded
  <2>6. AmountWidth + OwnerWidth + 4 \in Nat
    BY TemplateConstants
  <2> QED BY <1>1, <2>3, <2>4, <2>5, <2>6 DEF EncodedLen
<1>2. CASE k = "controller"
  <2>1. s \in Roots
    BY <1>2 DEF Templates!StatesOf
  <2>2. s \in Seq(Byte) /\ 2 <= Len(s) /\ Len(s) <= 75 /\ Len(s) = OwnerWidth
    BY <2>1, TemplateConstants
  <2>3. Templates!Push(s) = <<OwnerWidth>> \o s
    BY <2>2, RootPush
  <2>4. Templates!EncodeState(k, s) = Templates!Push(s)
    BY <1>2 DEF Templates!EncodeState
  <2>5. OwnerWidth \in Byte /\ OwnerWidth \in Nat
    BY TemplateConstants
  <2> DEFINE a == <<OwnerWidth>>
  <2>6. a \in Seq(Byte) /\ Len(a) = 1
    BY <2>5
  <2> HIDE DEF a
  <2> DEFINE c == a \o s
  <2>7. Joins(c, a, s)
    BY <2>2, <2>6, JoinBytes
  <2>8. Templates!EncodeState(k, s) = c
    BY <2>3, <2>4, Zenon DEF a
  <2> HIDE DEF c
  <2>9. c \in Seq(Byte) /\ Len(c) = OwnerWidth + 1
    BY <2>2, <2>5, <2>6, <2>7 DEF Joins
  <2>10. EncodedLen(k) = OwnerWidth + 1 /\ EncodedLen(k) \in Nat /\ k # "token"
    BY <1>2, <2>5 DEF EncodedLen
  <2> QED BY <2>3, <2>4, <2>8, <2>9, <2>10, Zenon
<1> QED BY <1>1, <1>2

(* The one cut a program can be given is where its state was put. *)
LEMMA OneCut ==
    ASSUME NEW k \in {"token", "controller"}, NEW s \in Templates!StatesOf(k),
           NEW before \in Seq(Byte), NEW after \in Seq(Byte),
           NEW t \in Templates!FromProgram(
                       k, before \o Templates!EncodeState(k, s) \o after, s)
    PROVE  t = [prefix |-> before, suffix |-> after]
<1> DEFINE e == Templates!EncodeState(k, s)
           bytes == before \o e \o after
           here == Len(before)
           M == Templates!Matching(k, bytes, s)
<1>1. /\ e \in Seq(Byte) /\ Len(e) = EncodedLen(k) /\ EncodedLen(k) \in Nat
      /\ k = "token" => Templates!Decode(e) = {s}
  BY EncodedState, Zenon
<1>2. here \in Nat /\ Len(after) \in Nat
  BY LenProperties
<1>3. PICK at \in M : M = {at} /\ t = Templates!CutAt(k, bytes, s, at)
  BY Zenon DEF Templates!FromProgram
<1>4. Templates!CutAt(k, bytes, s, at)
        = [prefix |-> SubSeq(bytes, 1, at), suffix |-> SubSeq(bytes, at + Len(e) + 1, Len(bytes))]
  BY Zenon DEF Templates!CutAt
<1>5. M = {a \in IF k = "token" THEN Templates!LocateStateCuts(bytes)
                 ELSE 0..(Len(bytes) - Len(e)) : Templates!Window(bytes, a, Len(e)) = e}
  BY Zenon DEF Templates!Matching
<1> HIDE DEF e
<1>6. /\ bytes \in Seq(Byte) /\ Len(bytes) = here + Len(e) + Len(after)
      /\ SubSeq(bytes, 1, here) = before
      /\ SubSeq(bytes, here + 1, here + Len(e)) = e
      /\ SubSeq(bytes, here + Len(e) + 1, Len(bytes)) = after
  <2>1. InThree(bytes, before, e, after)
    BY <1>1, ThreeParts
  <2> HIDE DEF bytes
  <2> QED BY <2>1 DEF InThree
<1> HIDE DEF bytes, here, M
<1>7. here \in 0..(Len(bytes) - Len(e))
  BY <1>1, <1>2, <1>6
<1>8. Templates!Window(bytes, here, Len(e)) = e
  BY <1>6, Zenon DEF Templates!Window
<1>9. k = "token" => here \in Templates!LocateStateCuts(bytes)
  <2> SUFFICES ASSUME k = "token" PROVE here \in Templates!LocateStateCuts(bytes)
    OBVIOUS
  <2>1. Templates!StateLen = Len(e)
    BY <1>1, TemplateConstants DEF Templates!StateLen, EncodedLen
  <2>2. Templates!Decode(Templates!Window(bytes, here, Templates!StateLen)) # {}
    <3>1. Templates!Window(bytes, here, Templates!StateLen) = e
      BY <1>8, <2>1, Zenon
    <3>2. Templates!Decode(e) # {}
      BY <1>1
    <3> QED BY <3>1, <3>2, Zenon
  <2> QED BY <1>7, <2>1, <2>2, Zenon DEF Templates!LocateStateCuts
<1>10. here \in M
  <2>1. CASE k = "token"
    BY <1>5, <1>8, <1>9, <2>1, Zenon
  <2>2. CASE k # "token"
    BY <1>5, <1>7, <1>8, <2>2, Zenon
  <2> QED BY <2>1, <2>2
<1>11. at = here
  BY <1>3, <1>10, Zenon
<1> QED BY <1>3, <1>4, <1>6, <1>11, Zenon

(* Where the state of a program is, and what may have been cut from it. *)
TemplateInv ==
    /\ kind \in {"token", "controller"}
    /\ compiled.before \in Seq(Byte) /\ compiled.after \in Seq(Byte)
    /\ current \in Templates!StatesOf(kind)
    /\ program = compiled.before \o Templates!EncodeState(kind, current) \o compiled.after
    /\ template \subseteq {[prefix |-> compiled.before, suffix |-> compiled.after]}

(* A compiled program begins uncut.                                        *)
LEMMA TemplateInit == Templates!Init => TemplateInv
<1> SUFFICES ASSUME Templates!Init PROVE TemplateInv
  OBVIOUS
<1>1. /\ kind \in {"token", "controller"} /\ template = {} /\ current = compiled.state
      /\ compiled \in [before : Surroundings, state : Templates!StatesOf(kind),
                       after : Surroundings]
      /\ program = compiled.before \o Templates!EncodeState(kind, compiled.state)
                     \o compiled.after
  BY Zenon DEF Templates!Init
<1>2. Surroundings \subseteq Seq(Byte)
  BY TemplateConstants
<1>3. compiled.before \in Surroundings /\ compiled.after \in Surroundings
      /\ compiled.state \in Templates!StatesOf(kind)
  BY <1>1
<1> QED BY <1>1, <1>2, <1>3, Zenon DEF TemplateInv

(* Cutting and moving on to another state keep the invariant.              *)
LEMMA TemplateNext ==
    ASSUME TemplateInv, [Templates!Next]_templateVars
    PROVE  TemplateInv'
<1> USE DEF TemplateInv
<1>1. CASE Templates!Cut
  <2>1. /\ template' = Templates!FromProgram(kind, program, current)
        /\ kind' = kind /\ compiled' = compiled /\ current' = current /\ program' = program
    BY <1>1, Zenon DEF Templates!Cut
  <2>2. ASSUME NEW t \in template'
        PROVE  t = [prefix |-> compiled.before, suffix |-> compiled.after]
    <3>1. t \in Templates!FromProgram(kind,
             compiled.before \o Templates!EncodeState(kind, current) \o compiled.after,
             current)
      BY <2>1, Zenon
    <3> HIDE DEF TemplateInv
    <3>2. /\ kind \in {"token", "controller"} /\ current \in Templates!StatesOf(kind)
          /\ compiled.before \in Seq(Byte) /\ compiled.after \in Seq(Byte)
      BY Zenon DEF TemplateInv
    <3> QED BY <3>1, <3>2, OneCut, Zenon
  <2>3. template' \subseteq {[prefix |-> compiled'.before, suffix |-> compiled'.after]}
    BY <2>1, <2>2, Zenon
  <2>4. Templates!StatesOf(kind)' = Templates!StatesOf(kind)
        /\ Templates!EncodeState(kind, current)' = Templates!EncodeState(kind, current)
    BY <2>1, Zenon DEF Templates!StatesOf, Templates!EncodeState
  <2> QED BY <2>1, <2>3, Zenon
<1>2. CASE Templates!Advance
  <2>1. PICK t \in template, s \in Templates!StatesOf(kind) :
           current' = s /\ program' = Templates!Program(kind, t, s)
    BY <1>2, Zenon DEF Templates!Advance
  <2>2. kind' = kind /\ compiled' = compiled /\ template' = template
    BY <1>2, Zenon DEF Templates!Advance
  <2>3. t = [prefix |-> compiled.before, suffix |-> compiled.after]
    BY <2>1, Zenon
  <2>4. t.prefix = compiled.before /\ t.suffix = compiled.after
    BY <2>3
  <2>5. program' = compiled.before \o Templates!EncodeState(kind, s) \o compiled.after
    BY <2>1, <2>4, Zenon DEF Templates!Program
  <2> QED BY <2>1, <2>2, <2>5, Zenon
<1>3. CASE UNCHANGED templateVars
  BY <1>3, Zenon DEF templateVars
<1> QED BY <1>1, <1>2, <1>3, Zenon DEF Templates!Next

(* The cut is at the state.                                                *)
LEMMA TemplateCuts == TemplateInv => Templates!CutsWhereCompiled
<1> SUFFICES ASSUME TemplateInv, NEW t \in template
             PROVE  t.prefix = compiled.before /\ t.suffix = compiled.after
  BY Zenon DEF Templates!CutsWhereCompiled
<1>1. t = [prefix |-> compiled.before, suffix |-> compiled.after]
  BY Zenon DEF TemplateInv
<1> QED BY <1>1

(* The window between the two parts is the state last put in.              *)
LEMMA TemplateReads == TemplateInv => Templates!ReadsCurrent
<1> SUFFICES ASSUME TemplateInv, NEW t \in template
             PROVE  LET n == Len(program) - Len(t.prefix) - Len(t.suffix)
                        window == Templates!Window(program, Len(t.prefix), n)
                    IN  /\ n = IF kind = "token" THEN Templates!StateLen ELSE OwnerWidth + 1
                        /\ IF kind = "token" THEN Templates!Decode(window) = {current}
                                             ELSE window = <<OwnerWidth>> \o current
  BY Zenon DEF Templates!ReadsCurrent
<1> DEFINE e == Templates!EncodeState(kind, current)
           n == Len(program) - Len(t.prefix) - Len(t.suffix)
<1>1. t.prefix = compiled.before /\ t.suffix = compiled.after
  BY TemplateCuts, Zenon DEF Templates!CutsWhereCompiled
<1>2. /\ kind \in {"token", "controller"} /\ current \in Templates!StatesOf(kind)
      /\ compiled.before \in Seq(Byte) /\ compiled.after \in Seq(Byte)
      /\ program = compiled.before \o e \o compiled.after
  BY Zenon DEF TemplateInv
<1>3. /\ e \in Seq(Byte) /\ Len(e) = EncodedLen(kind) /\ EncodedLen(kind) \in Nat
      /\ kind = "token" => Templates!Decode(e) = {current}
      /\ kind = "controller" => e = <<OwnerWidth>> \o current
  BY <1>2, EncodedState, Zenon
<1> HIDE DEF e
<1>4. /\ Len(program) = Len(compiled.before) + Len(e) + Len(compiled.after)
      /\ SubSeq(program, Len(compiled.before) + 1, Len(compiled.before) + Len(e)) = e
  <2>1. InThree(program, compiled.before, e, compiled.after)
    BY <1>2, <1>3, ThreeParts
  <2> QED BY <2>1, Zenon DEF InThree
<1>5. Len(compiled.before) \in Nat /\ Len(compiled.after) \in Nat
  BY <1>2, LenProperties
<1>6. n = Len(e)
  BY <1>1, <1>3, <1>4, <1>5, SMTT(30)
<1> HIDE DEF n
<1>7. Templates!Window(program, Len(t.prefix), n) = e
  BY <1>1, <1>4, <1>6, Zenon DEF Templates!Window
<1>8. Len(e) = IF kind = "token" THEN Templates!StateLen ELSE OwnerWidth + 1
  BY <1>3, TemplateConstants DEF EncodedLen, Templates!StateLen
<1>9. /\ n = IF kind = "token" THEN Templates!StateLen ELSE OwnerWidth + 1
      /\ IF kind = "token" THEN Templates!Decode(Templates!Window(program, Len(t.prefix), n)) = {current}
                           ELSE Templates!Window(program, Len(t.prefix), n) = <<OwnerWidth>> \o current
  BY <1>2, <1>3, <1>6, <1>7, <1>8
<1> QED BY <1>9, Zenon DEF n

(* What differs from an encoding in a byte is an encoding or nothing.      *)
LEMMA TemplateDecodes == Templates!DecodesOnlyEncodings
<1> SUFFICES ASSUME NEW s \in TokenStates, NEW i \in 1..Templates!StateLen, NEW b \in Bytes
             PROVE  LET altered == [Templates!Encode(s) EXCEPT ![i] = b] IN
                    /\ Templates!Decode(Templates!Encode(s)) = {s}
                    /\ \A decoded \in Templates!Decode(altered) :
                         Templates!Encode(decoded) = altered
  BY Zenon DEF Templates!DecodesOnlyEncodings
<1> DEFINE e == Templates!Encode(s)
           altered == [e EXCEPT ![i] = b]
<1>1. s \in StateType /\ b \in Byte
  BY TemplateConstants
<1>2. Encoded(e, s)
  BY <1>1, EncodeParts DEF StateType
<1>3. Templates!Decode(e) = {s}
  BY <1>1, <1>2, DecodeEncoded
<1> HIDE DEF e
<1>4. e \in Seq(Byte)
  BY <1>2 DEF Encoded
<1>5. altered \in Seq(Byte)
  <2>1. e \in [1..Len(e) -> Byte] /\ Len(e) \in Nat
    BY <1>4, LenProperties
  <2>2. altered \in [1..Len(e) -> Byte]
    BY <1>1, <2>1
  <2> HIDE DEF altered
  <2> QED BY <2>1, <2>2
<1> HIDE DEF altered
<1>6. \A decoded \in Templates!Decode(altered) : Templates!Encode(decoded) = altered
  BY <1>5, EncodeDecoded
<1> QED BY <1>3, <1>6, Zenon DEF e, altered

-------------------------------------------------------------------------------
(* Script numbers.                                                         *)

(* The operators of WitnessCodec are those of ScriptBytes. *)
LEMMA WitnessTerms ==
    /\ Witnesses!Byte = Byte
    /\ \A n, w : Witnesses!LittleEndian(n, w) = LittleEndian(n, w)
    /\ \A n, w : Witnesses!Fits(n, w) = Fits(n, w)
    /\ \A b : Witnesses!Unsigned(b) = Unsigned(b)
<1>1. Witnesses!Byte = Byte
  BY Zenon DEF Witnesses!Byte, Byte
<1>2. ASSUME NEW n, NEW w PROVE Witnesses!Quotients(n, w) = Quotients(n, w)
  BY Zenon DEF Witnesses!Quotients, Quotients
<1>3. ASSUME NEW n, NEW w PROVE Witnesses!LittleEndian(n, w) = LittleEndian(n, w)
  BY <1>2, Zenon DEF Witnesses!LittleEndian, LittleEndian
<1>4. ASSUME NEW n, NEW w PROVE Witnesses!Fits(n, w) = Fits(n, w)
  BY <1>2, Zenon DEF Witnesses!Fits, Fits
<1>5. ASSUME NEW b PROVE Witnesses!Values(b) = Values(b)
  BY Zenon DEF Witnesses!Values, Values
<1>6. ASSUME NEW b PROVE Witnesses!Unsigned(b) = Unsigned(b)
  BY <1>5, Zenon DEF Witnesses!Unsigned, Unsigned
<1> QED BY <1>1, <1>3, <1>4, <1>6

(* What is left after i bytes does not depend on how many are written. *)
LEMMA QuotientsPrefix ==
    ASSUME NEW n \in Nat, NEW w \in Nat, NEW i \in 0..w
    PROVE  Quotients(n, w + 1)[i] = Quotients(n, w)[i]
<1> DEFINE q == Quotients(n, w)
           r == Quotients(n, w + 1)
           S == {j \in Nat : r[j] = q[j]}
<1>1. Divides(q, n, w) /\ Divides(r, n, w + 1)
  <2>1. w \in Nat /\ w + 1 \in Nat /\ n \in Nat
    OBVIOUS
  <2> QED BY <2>1, QuotientsLoop
<1> HIDE DEF q, r
<1>2. 0 \in S
  BY <1>1 DEF Divides
<1>3. ASSUME NEW j \in 0..w-1, j \in S PROVE j + 1 \in S
  <2>1. j + 1 \in 1..w /\ j + 1 \in 1..w + 1 /\ (j + 1) - 1 = j /\ j + 1 \in Nat
    OBVIOUS
  <2>2. q[j + 1] = q[j] \div 256 /\ r[j + 1] = r[j] \div 256
    BY <1>1, <2>1 DEF Divides
  <2> QED BY <1>3, <2>1, <2>2
<1>4. \A j \in 0..w : j \in S
  <2> HIDE DEF S
  <2> QED BY <1>2, <1>3, InductionTo
<1> QED BY <1>4 DEF q, r

(* A byte more is a zero. *)
LEMMA OneByteMore ==
    ASSUME NEW n \in Nat, NEW w \in Nat, Fits(n, w)
    PROVE  Fits(n, w + 1) /\ LittleEndian(n, w + 1) = Append(LittleEndian(n, w), 0)
<1> DEFINE q == Quotients(n, w)
           r == Quotients(n, w + 1)
           b == LittleEndian(n, w)
           c == LittleEndian(n, w + 1)
           d == Append(b, 0)
<1>1. Divides(q, n, w) /\ Divides(r, n, w + 1) /\ w + 1 \in Nat
  <2>1. w \in Nat /\ w + 1 \in Nat /\ n \in Nat
    OBVIOUS
  <2> QED BY <2>1, QuotientsLoop
<1>2. \A i \in 0..w : r[i] = q[i]
  BY QuotientsPrefix
<1>3. b \in Seq(Byte) /\ Len(b) = w /\ \A i \in 1..w : b[i] = q[i-1] % 256
  BY LittleEndianBytes
<1>4. c \in Seq(Byte) /\ Len(c) = w + 1 /\ \A i \in 1..w + 1 : c[i] = r[i-1] % 256
  BY <1>1, LittleEndianBytes
<1>5. q[w] = 0
  BY DEF Fits
<1> HIDE DEF q, r, b, c
<1>6. r[w] = 0
  BY <1>2, <1>5
<1>7. r[w + 1] = 0
  <2>1. w + 1 \in 1..w + 1 /\ (w + 1) - 1 = w
    OBVIOUS
  <2>2. r[w + 1] = r[w] \div 256
    BY <1>1, <2>1 DEF Divides
  <2> QED BY <1>6, <2>2
<1>8. 0 \in Byte
  BY DEF Byte
<1>9. /\ d \in Seq(Byte) /\ Len(d) = w + 1 /\ d[w + 1] = 0
      /\ \A i \in 1..w : d[i] = b[i]
  <2>1. /\ d \in Seq(Byte) /\ Len(d) = Len(b) + 1 /\ d[Len(b) + 1] = 0
        /\ \A i \in 1..Len(b) : d[i] = b[i]
    BY <1>3, <1>8, AppendProperties
  <2> QED BY <1>3, <2>1, Zenon
<1> HIDE DEF d
<1>10. ASSUME NEW i \in 1..w + 1 PROVE c[i] = d[i]
  <2>1. CASE i = w + 1
    <3>1. c[i] = r[w] % 256
      BY <1>4, <2>1
    <3> QED BY <1>6, <1>9, <2>1, <3>1
  <2>2. CASE i # w + 1
    <3>1. i \in 1..w /\ i - 1 \in 0..w
      BY <2>2
    <3> QED BY <1>2, <1>3, <1>4, <1>9, <3>1
  <2> QED BY <2>1, <2>2
<1>11. c = d
  <2>1. Len(c) = Len(d) /\ \A i \in 1..Len(c) : c[i] = d[i]
    BY <1>4, <1>9, <1>10
  <2> QED BY <1>4, <1>9, <2>1, SeqEqual
<1> QED BY <1>7, <1>11 DEF Fits, r, c, d, b

(* As many bytes as a magnitude takes: the last of them is not zero. *)
LEMMA BytesTaken ==
    ASSUME NEW m \in Nat, Fits(m, 8)
    PROVE  LET k == Witnesses!ByteCount(m)
           IN  /\ k \in Nat /\ k <= 8 /\ Fits(m, k)
               /\ m # 0 => k > 0 /\ LittleEndian(m, k)[k] > 0
<1> DEFINE k == Witnesses!ByteCount(m)
           Least(x) == Fits(m, x) /\ \A j \in 0..x-1 : ~Fits(m, j)
<1>1. \E x \in 0..8 : Least(x)
  <2> DEFINE S == {x \in Nat : \A j \in 0..x : ~Fits(m, j)}
  <2>2. SUFFICES ASSUME ~\E x \in 0..8 : Least(x) PROVE FALSE
    OBVIOUS
  <2>3. 0 \in S
    <3>1. Fits(m, 0) => Least(0)
      OBVIOUS
    <3> QED BY <2>2, <3>1
  <2>4. ASSUME NEW x \in 0..8-1, x \in S PROVE x + 1 \in S
    <3>1. \A j \in 0..x : ~Fits(m, j)
      BY <2>4
    <3>2. (x + 1) - 1 = x /\ x + 1 \in 0..8 /\ x + 1 \in Nat
      OBVIOUS
    <3>3. ~Fits(m, x + 1)
      BY <2>2, <3>1, <3>2
    <3>4. \A j \in 0..x + 1 : j \in 0..x \/ j = x + 1
      OBVIOUS
    <3> QED BY <3>1, <3>2, <3>3, <3>4
  <2>5. \A x \in 0..8 : x \in S
    <3> HIDE DEF S
    <3> QED BY <2>3, <2>4, InductionTo
  <2>6. 8 \in S
    BY <2>5
  <2> QED BY <2>6
<1>2. k \in 0..8 /\ Least(k)
  <2>1. k = CHOOSE x \in 0..8 : Least(x)
    BY WitnessTerms, Zenon DEF Witnesses!ByteCount
  <2> HIDE DEF Least
  <2> QED BY <1>1, <2>1, Zenon
<1> HIDE DEF k
<1>3. k \in Nat /\ k <= 8 /\ Fits(m, k)
  BY <1>2
<1>4. ASSUME m # 0 PROVE k > 0 /\ LittleEndian(m, k)[k] > 0
  <2>1. k # 0
    <3>1. Divides(Quotients(m, 0), m, 0)
      BY QuotientsLoop
    <3>2. ~Fits(m, 0)
      BY <1>4, <3>1 DEF Fits, Divides
    <3> QED BY <1>3, <3>2
  <2>2. k > 0 /\ k - 1 \in Nat /\ (k - 1) + 1 = k /\ k \in 1..k /\ k - 1 \in 0..k - 1
    BY <1>3, <2>1
  <2>3. ~Fits(m, k - 1)
    BY <1>2, <2>2
  <2> DEFINE q == Quotients(m, k)
             p == Quotients(m, k - 1)
  <2>4. p[k - 1] # 0 /\ q[k] = 0
    BY <1>3, <2>3 DEF Fits
  <2>5. Quotients(m, (k - 1) + 1)[k - 1] = p[k - 1]
    BY <2>2, QuotientsPrefix
  <2>6. q[k - 1] = p[k - 1]
    BY <2>2, <2>5, Zenon
  <2>7. Divides(q, m, k)
    BY <1>3, QuotientsLoop
  <2>8. LittleEndian(m, k)[k] = q[k - 1] % 256
    BY <1>3, <2>2, LittleEndianBytes
  <2> HIDE DEF q, p
  <2>9. q[k - 1] \in Nat /\ q[k] = q[k - 1] \div 256
    BY <2>2, <2>7 DEF Divides
  <2>10. q[k - 1] # 0 /\ q[k - 1] \div 256 = 0
    BY <2>4, <2>6, <2>9
  <2>11. q[k - 1] % 256 > 0
    BY <2>9, <2>10
  <2> QED BY <2>2, <2>8, <2>11
<1> QED BY <1>3, <1>4 DEF k

(* The bytes of a number and of its negative differ in the highest bit. *)
LEMMA NumberExact ==
    ASSUME NEW n \in Int, NEW m \in Nat, m = IF n < 0 THEN -n ELSE n, Fits(m, 8)
    PROVE  LET bytes == Witnesses!ScriptNum(n) IN
           /\ Witnesses!NumberOf(bytes) = n
           /\ \/ bytes = <<>>
              \/ Witnesses!Last(bytes) % 128 # 0
              \/ Len(bytes) > 1 /\ bytes[Len(bytes) - 1] >= 128
<1> DEFINE bytes == Witnesses!ScriptNum(n)
           k == Witnesses!ByteCount(m)
           b == LittleEndian(m, k)
           high == IF n < 0 THEN 128 ELSE 0
           Told(x) == [x EXCEPT ![Len(x)] = @ % 128]
<1>1. bytes = IF n = 0 THEN <<>>
              ELSE IF b[Len(b)] >= 128 THEN Append(b, high)
              ELSE [b EXCEPT ![Len(b)] = @ + high]
  BY WitnessTerms, ZenonT(30) DEF Witnesses!ScriptNum, Witnesses!Last
<1>2. ASSUME NEW x, x # <<>>
      PROVE  Witnesses!NumberOf(x)
               = IF x[Len(x)] >= 128 THEN -Unsigned(Told(x)) ELSE Unsigned(Told(x))
  BY <1>2, WitnessTerms, Zenon DEF Witnesses!NumberOf, Witnesses!Last
<1>3. CASE n = 0
  <2>1. bytes = <<>>
    BY <1>1, <1>3, Zenon
  <2>2. Witnesses!NumberOf(<<>>) = 0
    BY Zenon DEF Witnesses!NumberOf
  <2> QED BY <1>3, <2>1, <2>2, Zenon
<1>4. CASE n # 0
  <2>1. k \in Nat /\ Fits(m, k) /\ m # 0 /\ k > 0 /\ b[k] > 0
    <3>1. m # 0
      BY <1>4
    <3> QED BY <3>1, BytesTaken
  <2>2. b \in Seq(Byte) /\ Len(b) = k
    BY <2>1, LittleEndianBytes
  <2>3. Unsigned(b) = m
    BY <2>1, ReadWritten
  <2>4. Fits(m, k + 1) /\ LittleEndian(m, k + 1) = Append(b, 0)
    BY <2>1, OneByteMore
  <2>5. Unsigned(Append(b, 0)) = m
    <3>1. k + 1 \in Nat
      BY <2>1
    <3>2. Unsigned(LittleEndian(m, k + 1)) = m
      BY <2>4, <3>1, ReadWritten
    <3> QED BY <2>4, <3>2
  <2> HIDE DEF k, b
  <2>6. b \in [1..k -> Byte] /\ b[k] \in Nat /\ b[k] <= 255 /\ k \in 1..k
    <3>1. k \in 1..k /\ b \in [1..k -> Byte]
      BY <2>1, <2>2, LenProperties
    <3>2. b[k] \in Byte
      BY <3>1
    <3> QED BY <3>1, <3>2, ByteNat
  <2>7. high \in {0, 128} /\ (high = 128 <=> n < 0) /\ high \in Byte
    BY DEF Byte
  <2>8. (n < 0 => n = -m) /\ (n >= 0 => n = m)
    OBVIOUS
  <2> HIDE DEF high
  <2>9. CASE b[k] >= 128
    <3> DEFINE x == Append(b, high)
               zero == Append(b, 0)
    <3>1. bytes = x
      BY <1>1, <1>4, <2>2, <2>9, Zenon
    <3>2. /\ x \in Seq(Byte) /\ x # <<>> /\ Len(x) = k + 1 /\ x[k + 1] = high
          /\ \A i \in 1..k : x[i] = b[i]
      <4>1. /\ x \in Seq(Byte) /\ x # <<>> /\ Len(x) = Len(b) + 1 /\ x[Len(b) + 1] = high
            /\ \A i \in 1..Len(b) : x[i] = b[i]
        BY <2>2, <2>7, AppendProperties
      <4> QED BY <2>2, <4>1, Zenon
    <3>3. /\ zero \in Seq(Byte) /\ Len(zero) = k + 1 /\ zero[k + 1] = 0
          /\ \A i \in 1..k : zero[i] = b[i]
      <4>1. 0 \in Byte
        BY DEF Byte
      <4>2. /\ zero \in Seq(Byte) /\ Len(zero) = Len(b) + 1 /\ zero[Len(b) + 1] = 0
            /\ \A i \in 1..Len(b) : zero[i] = b[i]
        BY <2>2, <4>1, AppendProperties
      <4> QED BY <2>2, <4>2, Zenon
    <3> HIDE DEF x, zero
    <3>4. Told(x) = zero
      <4> DEFINE y == [x EXCEPT ![k + 1] = @ % 128]
      <4>1. x \in [1..k + 1 -> Byte] /\ zero \in [1..k + 1 -> Byte]
        BY <3>2, <3>3, LenProperties, Zenon
      <4>2. high % 128 = 0
        BY <2>7
      <4>3. k + 1 \in 1..k + 1 /\ \A i \in 1..k + 1 : i = k + 1 \/ i \in 1..k
        BY <2>1
      <4>4. \A i \in 1..k : i # k + 1 /\ i \in 1..k + 1
        BY <2>1
      <4>5. DOMAIN y = 1..k + 1 /\ y[k + 1] = 0 /\ \A i \in 1..k : y[i] = b[i]
        BY <3>2, <4>1, <4>2, <4>3, <4>4
      <4>6. y = [i \in 1..k + 1 |-> y[i]] /\ zero = [i \in 1..k + 1 |-> zero[i]]
        BY <4>1
      <4> HIDE DEF y
      <4>7. \A i \in 1..k + 1 : y[i] = zero[i]
        BY <3>3, <4>3, <4>5
      <4>8. y = zero
        BY <4>6, <4>7
      <4> QED BY <3>2, <4>8, Zenon DEF y
    <3>5. x[Len(x)] = high
      BY <3>2
    <3>6. Witnesses!NumberOf(x) = IF high >= 128 THEN -m ELSE m
      <4>1. Unsigned(zero) = m
        BY <2>5 DEF zero
      <4> HIDE DEF Told
      <4> QED BY <1>2, <3>2, <3>4, <3>5, <4>1, Zenon
    <3>7. Witnesses!NumberOf(x) = n
      BY <2>7, <2>8, <3>6
    <3>8. Len(x) > 1 /\ x[Len(x) - 1] >= 128
      <4>1. (k + 1) - 1 = k /\ k + 1 > 1
        BY <2>1
      <4>2. x[k] = b[k]
        BY <2>6, <3>2
      <4> QED BY <2>9, <3>2, <4>1, <4>2
    <3> QED BY <3>1, <3>7, <3>8, Zenon
  <2>10. CASE b[k] < 128
    <3> DEFINE x == [b EXCEPT ![k] = @ + high]
    <3>1. bytes = x
      <4>1. ~(b[k] >= 128)
        BY <2>6, <2>10
      <4> QED BY <1>1, <1>4, <2>2, <4>1, Zenon
    <3>2. x[k] = b[k] + high /\ DOMAIN x = 1..k /\ \A i \in 1..k : i # k => x[i] = b[i]
      BY <2>6
    <3>3. b[k] + high \in Byte /\ (b[k] + high) % 128 = b[k] /\ (b[k] + high >= 128 <=> n < 0)
      <4>1. \A v \in Nat : v < 128 => /\ v + 0 \in Byte /\ v + 128 \in Byte
                                      /\ (v + 0) % 128 = v /\ (v + 128) % 128 = v
        BY DEF Byte
      <4>2. b[k] \in Nat /\ b[k] < 128
        BY <2>6, <2>10
      <4>3. /\ b[k] + 0 \in Byte /\ b[k] + 128 \in Byte
            /\ (b[k] + 0) % 128 = b[k] /\ (b[k] + 128) % 128 = b[k]
        BY <4>1, <4>2
      <4>4. CASE high = 0
        BY <2>7, <4>2, <4>3, <4>4
      <4>5. CASE high = 128
        BY <2>7, <4>2, <4>3, <4>5
      <4> QED BY <2>7, <4>4, <4>5
    <3>4. x \in Seq(Byte) /\ Len(x) = k
      <4>1. x \in [1..k -> Byte]
        BY <2>6, <3>3
      <4> HIDE DEF x
      <4>2. x \in Seq(Byte)
        BY <2>1, <4>1
      <4> QED BY <2>1, <4>1, <4>2
    <3>5. [x EXCEPT ![k] = @ % 128] = b
      <4> DEFINE y == [x EXCEPT ![k] = @ % 128]
      <4>1. x \in [1..k -> Byte]
        BY <3>4, LenProperties, Zenon
      <4> HIDE DEF x
      <4>2. y[k] = b[k] /\ DOMAIN y = 1..k /\ \A i \in 1..k : i # k => y[i] = b[i]
        BY <2>6, <3>2, <3>3
      <4>3. y = [i \in 1..k |-> y[i]] /\ b = [i \in 1..k |-> b[i]]
        BY <2>6, <4>1
      <4> HIDE DEF y
      <4>4. \A i \in 1..k : y[i] = b[i]
        BY <4>2
      <4>5. y = b
        BY <4>3, <4>4
      <4> QED BY <4>5 DEF y
    <3> HIDE DEF x
    <3>6. x # <<>>
      BY <2>1, <3>4
    <3>7. Told(x) = b
      BY <3>4, <3>5, Zenon
    <3> HIDE DEF Told
    <3>8. Witnesses!NumberOf(x) = IF b[k] + high >= 128 THEN -m ELSE m
      BY <1>2, <2>3, <3>2, <3>4, <3>6, <3>7, Zenon
    <3>9. Witnesses!NumberOf(x) = n
      BY <2>8, <3>3, <3>8
    <3>10. Witnesses!Last(x) % 128 # 0
      <4>1. Witnesses!Last(x) = b[k] + high
        BY <3>2, <3>4, Zenon DEF Witnesses!Last
      <4> QED BY <2>1, <2>6, <3>3, <4>1
    <3> QED BY <3>1, <3>9, <3>10, Zenon
  <2> QED BY <2>6, <2>9, <2>10
<1> QED BY <1>3, <1>4

(* The numbers a witness is given are i64. *)
LEMMA NumbersAreExact == Witnesses!NumbersExact
<1> SUFFICES ASSUME NEW n \in Indices \cup Amounts \cup {-a : a \in Amounts}
             PROVE  LET bytes == Witnesses!ScriptNum(n) IN
                    /\ Witnesses!NumberOf(bytes) = n
                    /\ \/ bytes = <<>>
                       \/ Witnesses!Last(bytes) % 128 # 0
                       \/ Len(bytes) > 1 /\ bytes[Len(bytes) - 1] >= 128
  BY Zenon DEF Witnesses!NumbersExact
<1>1. \A a \in Indices \cup Amounts : a \in Nat /\ Fits(a, 8)
  BY FormatsAssumption, WitnessTerms, Zenon DEF Witnesses!CodecAssumption
<1> DEFINE m == IF n < 0 THEN -n ELSE n
<1>2. m \in Nat /\ n \in Int /\ Fits(m, 8)
  <2>1. CASE n \in Indices \cup Amounts
    <3>1. n \in Nat /\ Fits(n, 8)
      BY <1>1, <2>1
    <3>2. m = n
      BY <3>1
    <3> QED BY <3>1, <3>2
  <2>2. CASE n \in {-a : a \in Amounts}
    <3>1. PICK a \in Amounts : n = -a
      BY <2>2
    <3>2. a \in Nat /\ Fits(a, 8)
      BY <1>1
    <3>3. m = a /\ n \in Int
      BY <3>1, <3>2
    <3> QED BY <3>2, <3>3
  <2> QED BY <2>1, <2>2
<1> QED BY <1>2, NumberExact

-------------------------------------------------------------------------------
(* One push.                                                               *)

(* The opcodes that are a value themselves. *)
Plain(op) == op # 79 /\ ~(op \in 81..96)

(* What follows the opcode, and how much of it. *)
Counted(h) == IF h[1] <= 75 THEN h[1] ELSE Unsigned(SubSeq(h, 2, Len(h)))

(* A cut of bytes is bytes.                                                *)
LEMMA CutTyped ==
    ASSUME NEW s \in Seq(Byte), NEW from \in Nat \ {0}, NEW to \in Nat
    PROVE  Witnesses!Cut(s, from, to) \in Seq(Byte)
<1> DEFINE last == IF to <= Len(s) THEN to ELSE Len(s)
<1>1. Len(s) \in Nat /\ \A i \in 1..Len(s) : s[i] \in Byte
  BY LenProperties, ElementOfSeq
<1>2. last \in Int /\ from \in Int /\ \A i \in from..last : s[i] \in Byte
  BY <1>1
<1> HIDE DEF last
<1>3. SubSeq(s, from, last) \in Seq(Byte)
  BY <1>2, SubSeqProperties
<1> QED BY <1>3, Zenon DEF Witnesses!Cut, last

(* A push behind a length opcode. *)
LEMMA PlainPush ==
    ASSUME NEW s, Plain(s[1])
    PROVE  LET header == 1 + Witnesses!LengthBytes(s[1])
               n == IF s[1] <= 75 THEN s[1] ELSE Unsigned(Witnesses!Cut(s, 2, header))
           IN  Witnesses!FirstPush(s) = [value |-> Witnesses!Cut(s, header + 1, header + n),
                                         size |-> header + n]
<1> DEFINE op == s[1]
           header == 1 + Witnesses!LengthBytes(op)
           n == IF op <= 75 THEN op ELSE Witnesses!Unsigned(Witnesses!Cut(s, 2, header))
           one == [value |-> <<129>>, size |-> 1]
           small == [value |-> <<op - 80>>, size |-> 1]
           all == [value |-> Witnesses!Cut(s, header + 1, header + n), size |-> header + n]
<1>1. Witnesses!FirstPush(s) = CASE op = 79 -> one [] op \in 81..96 -> small [] OTHER -> all
  BY Zenon DEF Witnesses!FirstPush
<1>2. op # 79 /\ ~(op \in 81..96)
  BY DEF Plain
<1> HIDE DEF op, one, small, all
<1>3. Witnesses!FirstPush(s) = all
  BY <1>1, <1>2
<1> QED BY <1>3, WitnessTerms, Zenon DEF all, op

(* A script begins with bytes, and something says so.                      *)
LEMMA FirstPushTyped ==
    ASSUME NEW s \in Seq(Byte), Len(s) > 0
    PROVE  /\ Witnesses!FirstPush(s).value \in Seq(Byte)
           /\ Witnesses!FirstPush(s).size \in Nat \ {0}
<1> DEFINE op == s[1]
           header == 1 + Witnesses!LengthBytes(op)
           n == IF op <= 75 THEN op ELSE Unsigned(Witnesses!Cut(s, 2, header))
<1>1. op \in Byte /\ op \in Nat
  <2>1. 1 \in 1..Len(s)
    BY LenProperties
  <2>2. op \in Byte
    BY <2>1, ElementOfSeq
  <2> QED BY <2>2, ByteNat
<1>2. header \in Nat \ {0} /\ header + 1 \in Nat \ {0}
  <2>1. Witnesses!LengthBytes(op) \in Nat
    BY DEF Witnesses!LengthBytes
  <2> QED BY <2>1
<1> HIDE DEF header
<1>3. n \in Nat
  <2>1. Witnesses!Cut(s, 2, header) \in Seq(Byte)
    BY <1>2, CutTyped
  <2>2. Unsigned(Witnesses!Cut(s, 2, header)) \in Nat
    BY <2>1, WriteRead
  <2> QED BY <1>1, <2>2
<1> HIDE DEF n
<1>4. Witnesses!Cut(s, header + 1, header + n) \in Seq(Byte) /\ header + n \in Nat \ {0}
  <2>1. header + n \in Nat \ {0}
    BY <1>2, <1>3
  <2> QED BY <1>2, <2>1, CutTyped
<1>5. CASE Plain(op)
  <2>1. Witnesses!FirstPush(s) = [value |-> Witnesses!Cut(s, header + 1, header + n),
                                  size |-> header + n]
    BY <1>5, PlainPush, Zenon DEF header, n
  <2> QED BY <1>4, <2>1
<1>6. CASE op = 79
  <2>1. Witnesses!FirstPush(s) = [value |-> <<129>>, size |-> 1]
    BY <1>6 DEF Witnesses!FirstPush
  <2>2. 129 \in Byte
    BY DEF Byte
  <2> QED BY <2>1, <2>2
<1>7. CASE op \in 81..96
  <2>1. op # 79
    BY <1>7
  <2>2. Witnesses!FirstPush(s) = [value |-> <<op - 80>>, size |-> 1]
    BY <1>7, <2>1 DEF Witnesses!FirstPush
  <2>3. op - 80 \in Byte
    BY <1>7 DEF Byte
  <2> QED BY <2>2, <2>3
<1> QED BY <1>5, <1>6, <1>7 DEF Plain

(* A value behind its opcode and length is read whole, whatever follows. *)
LEMMA HeaderReads ==
    ASSUME NEW h \in Seq(Byte), NEW v \in Seq(Byte), NEW rest \in Seq(Byte),
           Len(h) = 1 + Witnesses!LengthBytes(h[1]), Len(h) > 0, Plain(h[1]),
           Len(v) = Counted(h)
    PROVE  Witnesses!FirstPush(h \o v \o rest) = [value |-> v, size |-> Len(h) + Len(v)]
<1> DEFINE s == h \o v \o rest
           lengthBytes == SubSeq(h, 2, Len(h))
<1>1. InThree(s, h, v, rest)
  BY ThreeParts
<1> HIDE DEF s
<1>2. /\ s \in Seq(Byte) /\ Len(s) = Len(h) + Len(v) + Len(rest)
      /\ SubSeq(s, 1, Len(h)) = h /\ SubSeq(s, Len(h) + 1, Len(h) + Len(v)) = v
  BY <1>1 DEF InThree
<1>3. /\ Len(h) \in Nat /\ Len(v) \in Nat /\ Len(rest) \in Nat /\ Len(s) \in Nat
      /\ \A i \in 1..Len(h) : h[i] \in Byte
      /\ \A i \in 1..Len(s) : s[i] \in Byte
  BY <1>2, LenProperties, ElementOfSeq
<1>4. \A i \in 1..Len(h) : s[i] = h[i]
  <2>1. 1 \in Int /\ Len(h) \in Int /\ \A i \in 1..Len(h) : s[i] \in Byte
    BY <1>2, <1>3
  <2>2. \A i \in 1..Len(h) - 1 + 1 : SubSeq(s, 1, Len(h))[i] = s[1 + i - 1]
    BY <2>1, SubSeqProperties
  <2>3. ASSUME NEW i \in 1..Len(h) PROVE s[i] = h[i]
    <3>1. i \in 1..Len(h) - 1 + 1 /\ 1 + i - 1 = i
      BY <1>3
    <3>2. SubSeq(s, 1, Len(h))[i] = s[i]
      BY <2>2, <3>1
    <3> QED BY <1>2, <3>2
  <2> QED BY <2>3
<1>5. s[1] = h[1]
  BY <1>3, <1>4
<1>6. SubSeq(s, 2, Len(h)) = lengthBytes
  <2>1. 2 \in Int /\ Len(h) \in Int /\ \A i \in 2..Len(h) : h[i] \in Byte
    BY <1>3
  <2>2. /\ lengthBytes \in Seq(Byte)
        /\ Len(lengthBytes) = IF 2 <= Len(h) THEN Len(h) - 2 + 1 ELSE 0
        /\ \A i \in 1..Len(h) - 2 + 1 : lengthBytes[i] = h[2 + i - 1]
    BY <2>1, SubSeqProperties
  <2> HIDE DEF lengthBytes
  <2>3. Len(lengthBytes) = Len(h) - 1 /\ 1 + Len(lengthBytes) = Len(h)
    BY <1>3, <2>2
  <2>4. ASSUME NEW i \in 1..Len(lengthBytes) PROVE s[1 + i] = lengthBytes[i]
    <3>1. i \in 1..Len(h) - 2 + 1 /\ 2 + i - 1 = 1 + i /\ 1 + i \in 1..Len(h)
      <4>1. Len(h) \in Int
        BY <2>1
      <4> QED BY <4>1, <2>3
    <3> QED BY <1>4, <2>2, <3>1
  <2>5. 1 + Len(lengthBytes) <= Len(s) /\ 1 \in Nat
    BY <1>2, <1>3, <2>3
  <2>6. SubSeq(s, 1 + 1, 1 + Len(lengthBytes)) = lengthBytes
    BY <1>2, <2>2, <2>4, <2>5, SubSeqIs
  <2> QED BY <2>3, <2>6
<1> DEFINE header == 1 + Witnesses!LengthBytes(s[1])
<1>7. header = Len(h)
  BY <1>5
<1> HIDE DEF header
<1>8. Witnesses!Cut(s, 2, header) = lengthBytes
  <2>1. header <= Len(s)
    BY <1>2, <1>3, <1>7
  <2> QED BY <1>6, <1>7, <2>1, Zenon DEF Witnesses!Cut
<1> DEFINE n == IF s[1] <= 75 THEN s[1] ELSE Unsigned(Witnesses!Cut(s, 2, header))
<1>9. n = Len(v)
  BY <1>5, <1>8, Zenon DEF Counted
<1> HIDE DEF n, lengthBytes
<1>10. Witnesses!Cut(s, header + 1, header + n) = v
  <2>1. header + n <= Len(s)
    BY <1>2, <1>3, <1>7, <1>9
  <2> QED BY <1>2, <1>7, <1>9, <2>1, Zenon DEF Witnesses!Cut
<1>11. Witnesses!FirstPush(s) = [value |-> Witnesses!Cut(s, header + 1, header + n),
                                 size |-> header + n]
  BY <1>5, PlainPush, Zenon DEF header, n
<1> QED BY <1>7, <1>9, <1>10, <1>11, Zenon DEF s

(* h is an opcode, and the bytes that count n after it.                    *)
HeaderOf(h, n) ==
    /\ h \in Seq(Byte) /\ Len(h) > 0 /\ Len(h) = 1 + Witnesses!LengthBytes(h[1])
    /\ Plain(h[1]) /\ n = Counted(h)

(* How long the shortest of them is.                                       *)
HeaderLen(n) == IF n <= 75 THEN 1 ELSE IF n <= 255 THEN 2 ELSE IF n <= 65535 THEN 3 ELSE 5

(* An opcode and a length in b. *)
LEMMA WithLength ==
    ASSUME NEW op \in {76, 77, 78}, NEW b \in Seq(Byte), Len(b) = Witnesses!LengthBytes(op)
    PROVE  HeaderOf(<<op>> \o b, Unsigned(b)) /\ Len(<<op>> \o b) = 1 + Len(b)
<1> DEFINE a == <<op>>
           h == a \o b
<1>1. op \in Byte /\ op \in Nat /\ op > 75 /\ Plain(op)
  BY DEF Byte, Plain
<1>2. a \in Seq(Byte) /\ Len(a) = 1 /\ a[1] = op
  BY <1>1
<1> HIDE DEF a
<1>3. Joins(h, a, b)
  BY <1>2, JoinBytes
<1> HIDE DEF h
<1>4. Len(b) \in Nat
  BY LenProperties
<1>5. /\ h \in Seq(Byte) /\ Len(h) = 1 + Len(b) /\ h[1] = op
      /\ \A i \in 1..Len(b) : h[1 + i] = b[i]
  BY <1>2, <1>3 DEF Joins
<1>6. SubSeq(h, 2, Len(h)) = b
  <2>1. 1 \in Nat /\ 1 + Len(b) <= Len(h)
    BY <1>4, <1>5
  <2>2. SubSeq(h, 1 + 1, 1 + Len(b)) = b
    BY <1>5, <2>1, SubSeqIs
  <2> QED BY <1>5, <2>2
<1>7. Counted(h) = Unsigned(b)
  <2>1. ~(h[1] <= 75)
    BY <1>1, <1>5
  <2> QED BY <1>6, <2>1, Zenon DEF Counted
<1>8. Len(h) > 0
  BY <1>4, <1>5
<1>9. HeaderOf(h, Unsigned(b))
  BY <1>1, <1>5, <1>7, <1>8, Zenon DEF HeaderOf
<1> QED BY <1>5, <1>9 DEF h, a

(* Header takes that one.                                                  *)
LEMMA HeaderForms ==
    ASSUME NEW n \in Nat, Fits(n, 4)
    PROVE  HeaderOf(Witnesses!Header(n), n) /\ Len(Witnesses!Header(n)) = HeaderLen(n)
<1> DEFINE two == Witnesses!LittleEndian(n, 2)
           four == Witnesses!LittleEndian(n, 4)
           h == Witnesses!Header(n)
           long2 == <<77>> \o two
           long4 == <<78>> \o four
           short == <<n>>
           byte == <<76, n>>
<1>1. /\ n <= 75 => h = short
      /\ 75 < n /\ n <= 255 => h = byte
      /\ 255 < n /\ n <= 65535 => h = long2
      /\ n > 65535 => h = long4
  <2>1. n <= 75 => h = short
    BY DEF Witnesses!Header
  <2>2. 75 < n /\ n <= 255 => h = byte
    BY DEF Witnesses!Header
  <2>3. 255 < n /\ n <= 65535 => h = long2
    BY DEF Witnesses!Header
  <2>4. n > 65535 => h = long4
    BY DEF Witnesses!Header
  <2> QED BY <2>1, <2>2, <2>3, <2>4
<1>2. two = LittleEndian(n, 2) /\ four = LittleEndian(n, 4)
  BY WitnessTerms
<1>3. /\ Witnesses!LengthBytes(76) = 1 /\ Witnesses!LengthBytes(77) = 2
      /\ Witnesses!LengthBytes(78) = 4
      /\ \A op \in Nat : op <= 75 => Witnesses!LengthBytes(op) = 0
  BY DEF Witnesses!LengthBytes
<1> HIDE DEF two, four, h, long2, long4, byte, short
<1>4. CASE n <= 75
  <2>1. h = short
    BY <1>1, <1>4
  <2>2. n \in Byte /\ Plain(n)
    BY <1>4 DEF Byte, Plain
  <2>3. short \in Seq(Byte) /\ Len(short) = 1 /\ short[1] = n
    BY <2>2 DEF short
  <2>4. Len(short) > 0 /\ Len(short) = 1 + Witnesses!LengthBytes(n)
    BY <1>3, <1>4, <2>3
  <2>5. Counted(short) = n
    BY <1>4, <2>3, Zenon DEF Counted
  <2>6. HeaderOf(short, n)
    BY <2>2, <2>3, <2>4, <2>5, Zenon DEF HeaderOf
  <2> QED BY <1>4, <2>1, <2>3, <2>6 DEF HeaderLen, h
<1>5. CASE 75 < n /\ n <= 255
  <2> DEFINE b == LittleEndian(n, 1)
             q == Quotients(n, 1)
  <2>1. h = byte
    BY <1>1, <1>5
  <2>2. Divides(q, n, 1)
    BY QuotientsLoop
  <2>3. b \in Seq(Byte) /\ Len(b) = 1 /\ \A i \in 1..1 : b[i] = q[i-1] % 256
    <3>1. 1 \in Nat /\ n \in Nat
      OBVIOUS
    <3>2. Spelled(b, n, 1)
      BY <3>1, Spells
    <3> QED BY <3>2, Zenon DEF Spelled
  <2> HIDE DEF q, b
  <2>4. q[0] = n /\ q[1] = q[1-1] \div 256
    BY <2>2 DEF Divides
  <2>5. q[1] = 0 /\ b[1] = n
    BY <1>5, <2>3, <2>4
  <2>6. Unsigned(b) = n
    <3>1. Fits(n, 1)
      BY <2>5 DEF Fits, q
    <3> QED BY <3>1, ReadWritten DEF b
  <2>7. HeaderOf(<<76>> \o b, Unsigned(b)) /\ Len(<<76>> \o b) = 1 + Len(b)
    BY <1>3, <2>3, WithLength, ZenonT(30)
  <2>8. <<76>> \o b = byte
    <3> DEFINE a == <<76>>
               c == a \o b
    <3>1. a \in Seq(Byte) /\ Len(a) = 1 /\ a[1] = 76
      BY DEF Byte
    <3> HIDE DEF a
    <3>2. Joins(c, a, b)
      BY <2>3, <3>1, JoinBytes
    <3> HIDE DEF c
    <3>3. c \in Seq(Byte) /\ Len(c) = 2 /\ c[1] = 76 /\ c[1 + 1] = n
      BY <2>3, <2>5, <3>1, <3>2 DEF Joins
    <3>4. n \in Byte /\ 76 \in Byte
      BY <1>5 DEF Byte
    <3>5. byte \in Seq(Byte) /\ Len(byte) = 2 /\ byte[1] = 76 /\ byte[2] = n
      BY <3>4 DEF byte
    <3>6. c = byte
      <4>1. Len(c) = Len(byte) /\ \A i \in 1..Len(c) : c[i] = byte[i]
        BY <3>3, <3>5
      <4> QED BY <3>3, <3>5, <4>1, SeqEqual
    <3> QED BY <3>6 DEF c, a
  <2>9. HeaderOf(byte, n) /\ Len(byte) = 2
    <3>1. HeaderOf(byte, n) /\ Len(byte) = 1 + Len(b)
      BY <2>6, <2>7, <2>8, Zenon
    <3> QED BY <2>3, <3>1
  <2>10. HeaderLen(n) = 2
    BY <1>5 DEF HeaderLen
  <2> QED BY <2>1, <2>9, <2>10 DEF h
<1>6. CASE 255 < n /\ n <= 65535
  <2> DEFINE q == Quotients(n, 2)
  <2>1. h = long2
    BY <1>1, <1>6
  <2>2. Divides(q, n, 2)
    BY QuotientsLoop
  <2>3. two \in Seq(Byte) /\ Len(two) = 2
    BY <1>2, LittleEndianBytes, ZenonT(30)
  <2> HIDE DEF q
  <2>4. q[0] = n /\ q[1] = q[1-1] \div 256 /\ q[2] = q[2-1] \div 256
    BY <2>2 DEF Divides
  <2>5. q[2] = 0
    BY <1>6, <2>4
  <2>6. Unsigned(two) = n
    <3>1. Fits(n, 2)
      BY <2>5 DEF Fits, q
    <3> QED BY <1>2, <3>1, ReadWritten
  <2>7. HeaderOf(<<77>> \o two, Unsigned(two)) /\ Len(<<77>> \o two) = 1 + Len(two)
    BY <1>3, <2>3, WithLength
  <2>8. HeaderLen(n) = 3
    BY <1>6 DEF HeaderLen
  <2> QED BY <2>1, <2>3, <2>6, <2>7, <2>8 DEF h, long2
<1>7. CASE n > 65535
  <2>1. h = long4
    BY <1>1, <1>7
  <2>2. four \in Seq(Byte) /\ Len(four) = 4
    <3>1. \A w \in Nat : LittleEndian(n, w) \in Seq(Byte) /\ Len(LittleEndian(n, w)) = w
      BY LittleEndianBytes
    <3>2. 4 \in Nat
      OBVIOUS
    <3> QED BY <1>2, <3>1, <3>2, Zenon
  <2>3. Unsigned(four) = n
    BY <1>2, ReadWritten
  <2>4. HeaderOf(<<78>> \o four, Unsigned(four)) /\ Len(<<78>> \o four) = 1 + Len(four)
    BY <1>3, <2>2, WithLength
  <2>5. HeaderLen(n) = 5
    BY <1>7 DEF HeaderLen
  <2> QED BY <2>1, <2>2, <2>3, <2>4, <2>5 DEF h, long4
<1> QED BY <1>4, <1>5, <1>6, <1>7

(* What can be pushed. *)
Value == {v \in Seq(Byte) : Fits(Len(v), 4)}

(* The value an opcode of its own is for, or none. *)
IsSmall(v) == v = <<129>> \/ (Len(v) = 1 /\ v[1] \in 1..16)

(* The three cases of push.                                                *)
LEMMA PushForms ==
    ASSUME NEW v \in Value
    PROVE  /\ ~IsSmall(v) => Witnesses!Push(v) = Witnesses!Header(Len(v)) \o v
           /\ v = <<129>> => Witnesses!Push(v) = <<79>>
           /\ Len(v) = 1 /\ v[1] \in 1..16 => Witnesses!Push(v) = <<80 + v[1]>>
<1>1. v \in Seq(Byte)
  BY DEF Value
<1>2. Len(<<129>>) = 1 /\ <<129>>[1] = 129 /\ Len(<<>>) = 0
  OBVIOUS
<1>3. CASE v = <<>>
  <2>1. Witnesses!Push(v) = <<0>> /\ Len(v) = 0
    BY <1>2, <1>3, Zenon DEF Witnesses!Push
  <2>2. Witnesses!Header(0) = <<0>>
    BY DEF Witnesses!Header
  <2>3. <<0>> \o <<>> = <<0>>
    OBVIOUS
  <2>4. v # <<129>> /\ Len(v) # 1
    BY <1>2, <1>3
  <2> QED BY <1>3, <2>1, <2>2, <2>3, <2>4, Zenon
<1>4. CASE v = <<129>>
  <2>1. v # <<>> /\ ~(v[1] \in 1..16)
    BY <1>4
  <2>2. Witnesses!Push(v) = <<79>>
    BY <1>4, <2>1 DEF Witnesses!Push
  <2> QED BY <1>4, <2>1, <2>2 DEF IsSmall
<1>5. CASE v # <<>> /\ v # <<129>> /\ Len(v) = 1 /\ v[1] \in 1..16
  <2>1. Witnesses!Push(v) = <<80 + v[1]>>
    BY <1>5, Zenon DEF Witnesses!Push
  <2> QED BY <1>5, <2>1, Zenon DEF IsSmall
<1>6. CASE v # <<>> /\ v # <<129>> /\ ~(Len(v) = 1 /\ v[1] \in 1..16)
  <2>1. Witnesses!Push(v) = Witnesses!Header(Len(v)) \o v
    BY <1>6, Zenon DEF Witnesses!Push
  <2> QED BY <1>6, <2>1, Zenon
<1> QED BY <1>3, <1>4, <1>5, <1>6

(* How long a push is.                                                     *)
PushLen(v) == IF IsSmall(v) THEN 1 ELSE HeaderLen(Len(v)) + Len(v)

(* A push is bytes, and at least one.                                      *)
LEMMA PushTyped ==
    ASSUME NEW v \in Value
    PROVE  /\ Witnesses!Push(v) \in Seq(Byte) /\ Len(Witnesses!Push(v)) = PushLen(v)
           /\ PushLen(v) \in Nat \ {0}
<1> DEFINE p == Witnesses!Push(v)
<1>1. v \in Seq(Byte) /\ Len(v) \in Nat /\ Fits(Len(v), 4)
  BY LenProperties DEF Value
<1>2. CASE v = <<129>>
  <2>1. p = <<79>>
    BY <1>2, PushForms, Zenon
  <2>2. 79 \in Byte
    BY DEF Byte
  <2>3. PushLen(v) = 1
    BY <1>2, Zenon DEF PushLen, IsSmall
  <2> QED BY <2>1, <2>2, <2>3
<1>3. CASE Len(v) = 1 /\ v[1] \in 1..16
  <2>1. p = <<80 + v[1]>>
    BY <1>3, PushForms, Zenon
  <2>2. 80 + v[1] \in Byte
    BY <1>3 DEF Byte
  <2>3. PushLen(v) = 1
    BY <1>3, Zenon DEF PushLen, IsSmall
  <2> QED BY <2>1, <2>2, <2>3
<1>4. CASE ~IsSmall(v)
  <2> DEFINE h == Witnesses!Header(Len(v))
             c == h \o v
  <2>1. p = c
    BY <1>4, PushForms, Zenon
  <2>2. h \in Seq(Byte) /\ Len(h) = HeaderLen(Len(v))
    BY <1>1, HeaderForms DEF HeaderOf
  <2>3. Joins(c, h, v)
    BY <1>1, <2>2, JoinBytes
  <2>4. PushLen(v) = HeaderLen(Len(v)) + Len(v)
    BY <1>4, Zenon DEF PushLen
  <2> HIDE DEF c, p, h
  <2>5. c \in Seq(Byte) /\ Len(c) = PushLen(v)
    BY <2>2, <2>3, <2>4 DEF Joins
  <2>6. HeaderLen(Len(v)) \in Nat \ {0}
    BY DEF HeaderLen
  <2>7. PushLen(v) \in Nat \ {0}
    BY <1>1, <2>4, <2>6
  <2> QED BY <2>1, <2>5, <2>7 DEF p
<1> QED BY <1>2, <1>3, <1>4 DEF IsSmall

(* A push is read as the value it is of, whatever follows it.              *)
LEMMA PushReads ==
    ASSUME NEW v \in Value, NEW rest \in Seq(Byte)
    PROVE  Witnesses!FirstPush(Witnesses!Push(v) \o rest)
             = [value |-> v, size |-> Len(Witnesses!Push(v))]
<1> DEFINE p == Witnesses!Push(v)
           s == p \o rest
<1>1. v \in Seq(Byte) /\ Len(v) \in Nat /\ Fits(Len(v), 4)
  BY LenProperties DEF Value
<1>2. p \in Seq(Byte) /\ Len(p) = PushLen(v) /\ PushLen(v) \in Nat \ {0}
  BY PushTyped, Zenon
<1>3. s[1] = p[1]
  <2> HIDE DEF p
  <2>1. Joins(s, p, rest)
    BY <1>2, JoinBytes
  <2>2. 1 \in 1..Len(p)
    BY <1>2
  <2> HIDE DEF s
  <2> QED BY <2>1, <2>2, Zenon DEF Joins
<1>4. CASE v = <<129>>
  <2>1. p = <<79>>
    BY <1>4, PushForms, Zenon
  <2>2. s[1] = 79 /\ Len(p) = 1
    BY <1>3, <2>1
  <2> HIDE DEF s, p
  <2>3. Witnesses!FirstPush(s) = [value |-> <<129>>, size |-> 1]
    BY <2>2 DEF Witnesses!FirstPush
  <2> QED BY <1>4, <2>2, <2>3 DEF s, p
<1>5. CASE Len(v) = 1 /\ v[1] \in 1..16
  <2>1. p = <<80 + v[1]>>
    BY <1>5, PushForms, Zenon
  <2>2. s[1] = 80 + v[1] /\ Len(p) = 1
    BY <1>3, <2>1
  <2>3. s[1] # 79 /\ s[1] \in 81..96 /\ s[1] - 80 = v[1]
    BY <1>5, <2>2, SMTT(30)
  <2>4. v = <<v[1]>>
    BY <1>1, <1>5
  <2> HIDE DEF s, p
  <2>5. Witnesses!FirstPush(s) = [value |-> <<s[1] - 80>>, size |-> 1]
    BY <2>3 DEF Witnesses!FirstPush
  <2>6. Witnesses!FirstPush(s) = [value |-> <<v[1]>>, size |-> 1]
    BY <2>3, <2>5
  <2> QED BY <2>2, <2>4, <2>6, Zenon DEF s, p
<1>6. CASE ~IsSmall(v)
  <2> DEFINE h == Witnesses!Header(Len(v))
  <2>1. p = h \o v
    BY <1>6, PushForms, Zenon
  <2>2. HeaderOf(h, Len(v)) /\ Len(h) = HeaderLen(Len(v))
    BY <1>1, HeaderForms
  <2>3. Len(p) = Len(h) + Len(v)
    BY <1>2, <1>6, <2>2, Zenon DEF PushLen
  <2> HIDE DEF h
  <2>4. Witnesses!FirstPush(h \o v \o rest) = [value |-> v, size |-> Len(h) + Len(v)]
    BY <1>1, <2>2, HeaderReads DEF HeaderOf
  <2> HIDE DEF p
  <2> QED BY <2>1, <2>3, <2>4, Zenon DEF p
<1> QED BY <1>4, <1>5, <1>6 DEF IsSmall

(* No other push of a value is shorter. *)
LEMMA PushShortest ==
    ASSUME NEW v \in Value, NEW form \in Witnesses!Forms(v),
           Witnesses!FirstPush(form).value = v
    PROVE  Len(Witnesses!Push(v)) <= Len(form)
<1> DEFINE n == Len(v)
<1>1. v \in Seq(Byte) /\ n \in Nat
  BY LenProperties DEF Value
<1>2. Len(Witnesses!Push(v)) = PushLen(v)
  BY PushTyped, Zenon
<1>3. PushLen(v) = IF IsSmall(v) THEN 1 ELSE HeaderLen(n) + n
  BY Zenon DEF PushLen
<1>4. ASSUME NEW h \in Seq(Byte), form = h \o v, Len(h) >= 1, Len(h) >= HeaderLen(n)
      PROVE  Len(Witnesses!Push(v)) <= Len(form)
  <2>1. Joins(form, h, v)
    BY <1>1, <1>4, JoinBytes
  <2>2. Len(form) = Len(h) + n /\ Len(h) \in Nat
    BY <2>1, LenProperties DEF Joins
  <2> HIDE DEF n
  <2>3. HeaderLen(n) \in Nat
    BY DEF HeaderLen
  <2> QED BY <1>1, <1>2, <1>3, <1>4, <2>2, <2>3
<1>5. ASSUME NEW op \in {79} \cup 81..96, form = <<op>>
      PROVE  Len(Witnesses!Push(v)) <= Len(form)
  <2>1. IsSmall(v)
    <3>1. form[1] = op
      BY <1>5
    <3>2. CASE op = 79
      <4>1. Witnesses!FirstPush(form) = [value |-> <<129>>, size |-> 1]
        BY <3>1, <3>2 DEF Witnesses!FirstPush
      <4>2. v = <<129>>
        BY <4>1
      <4> QED BY <4>2 DEF IsSmall
    <3>3. CASE op # 79 /\ op \in 81..96
      <4>1. Witnesses!FirstPush(form) = [value |-> <<op - 80>>, size |-> 1]
        BY <3>1, <3>3 DEF Witnesses!FirstPush
      <4>2. v = <<op - 80>> /\ op - 80 \in 1..16
        BY <3>3, <4>1
      <4>3. Len(v) = 1 /\ v[1] = op - 80
        BY <4>2
      <4> QED BY <4>2, <4>3, Zenon DEF IsSmall
    <3> QED BY <3>2, <3>3
  <2>2. Len(form) = 1 /\ PushLen(v) = 1
    BY <1>3, <1>5, <2>1
  <2> QED BY <1>2, <2>2
<1> DEFINE two == Witnesses!LittleEndian(n, 2)
           H == Witnesses!Headers(n)
           Ops == {79} \cup 81..96
<1>6. (\E h \in H : form = h \o v) \/ (\E op \in Ops : form = <<op>>)
  <2> HIDE DEF Ops
  <2>1. form \in {h \o v : h \in H} \cup {<<op>> : op \in Ops}
    BY Zenon DEF Witnesses!Forms, Ops
  <2> HIDE DEF H
  <2> QED BY <2>1, Zenon
<1>7. ASSUME NEW h \in H
      PROVE  \/ n <= 75 /\ h = <<n>>
             \/ n <= 255 /\ h = <<76, n>>
             \/ n <= 65535 /\ h = <<77>> \o two
  <2> DEFINE one == <<n>>
             byte == <<76, n>>
             short == <<77>> \o two
  <2>1. H = (IF n <= 75 THEN {one} ELSE {}) \cup (IF n <= 255 THEN {byte} ELSE {})
              \cup (IF n <= 65535 THEN {short} ELSE {})
    BY SMT DEF Witnesses!Headers
  <2> HIDE DEF H, n, one, byte, short
  <2>2. (n <= 75 /\ h = one) \/ (n <= 255 /\ h = byte) \/ (n <= 65535 /\ h = short)
    BY <2>1
  <2> QED BY <2>2 DEF one, byte, short
<1> HIDE DEF H
<1>8. ASSUME NEW h \in H PROVE h \in Seq(Byte) /\ Len(h) >= 1 /\ Len(h) >= HeaderLen(n)
  <2> HIDE DEF n
  <2>1. CASE n <= 75 /\ h = <<n>>
    <3>1. n <= 75 /\ n \in Byte
      BY <1>1, <2>1 DEF Byte
    <3>2. HeaderLen(n) = 1
      BY <3>1 DEF HeaderLen
    <3> QED BY <2>1, <3>1, <3>2
  <2>2. CASE n <= 255 /\ h = <<76, n>>
    <3>1. n <= 255 /\ n \in Byte /\ 76 \in Byte
      BY <1>1, <2>2 DEF Byte
    <3>2. HeaderLen(n) <= 2 /\ HeaderLen(n) \in Nat
      BY <3>1 DEF HeaderLen
    <3>3. h \in Seq(Byte) /\ Len(h) = 2
      BY <2>2, <3>1
    <3> QED BY <3>2, <3>3
  <2>3. CASE n <= 65535 /\ h = <<77>> \o two
    <3> DEFINE a == <<77>>
    <3>1. n <= 65535
      BY <2>3
    <3>2. HeaderLen(n) <= 3 /\ HeaderLen(n) \in Nat
      BY <3>1 DEF HeaderLen
    <3>3. two \in Seq(Byte) /\ Len(two) = 2
      <4>1. two = LittleEndian(n, 2)
        BY WitnessTerms, Zenon
      <4>2. \A w \in Nat : LittleEndian(n, w) \in Seq(Byte) /\ Len(LittleEndian(n, w)) = w
        BY <1>1, LittleEndianBytes
      <4>3. 2 \in Nat
        OBVIOUS
      <4> QED BY <4>1, <4>2, <4>3, Zenon
    <3>4. a \in Seq(Byte) /\ Len(a) = 1
      BY DEF Byte
    <3> DEFINE c == a \o two
    <3>5. h = c
      BY <2>3, SMT
    <3> HIDE DEF a, two
    <3>6. Joins(c, a, two)
      BY <3>3, <3>4, JoinBytes
    <3> HIDE DEF c
    <3>7. h \in Seq(Byte) /\ Len(h) = 3
      BY <3>3, <3>4, <3>5, <3>6 DEF Joins
    <3> QED BY <3>2, <3>7
  <2> HIDE DEF two
  <2> QED BY <1>7, <2>1, <2>2, <2>3, SMT
<1>9. CASE \E h \in H : form = h \o v
  BY <1>4, <1>8, <1>9, Zenon
<1>10. CASE \E op \in Ops : form = <<op>>
  BY <1>5, <1>10, Zenon
<1> QED BY <1>6, <1>9, <1>10

-------------------------------------------------------------------------------
(* A script of pushes, one after another.                                  *)

(* What is put together of pieces, one after another. *)
Flattens(P, ps) ==
    /\ P \in [0..Len(ps) -> Seq(Byte)] /\ P[0] = <<>>
    /\ \A i \in 1..Len(ps) : P[i] = P[i-1] \o ps[i]

(* FlattenSeq is such a loop.                                              *)
LEMMA FlattenLoop ==
    ASSUME NEW ps \in Seq(Seq(Byte))
    PROVE  \E P : Flattens(P, ps) /\ Witnesses!FlattenSeq(ps) = P[Len(ps)]
<1> DEFINE N == Len(ps)
           V == Seq(Byte)
           F == [p \in (1..N) \X V |-> p[2] \o ps[p[1]]]
           Is(f) == f = [i \in 1..N |-> IF i = 1 THEN ps[i] ELSE f[i-1] \o ps[i]]
<1>1. N \in Nat /\ \A i \in 1..N : ps[i] \in V
  BY LenProperties, ElementOfSeq
<1>2. <<>> \in V /\ \A a, b \in V : a \o b \in V
  OBVIOUS
<1>3. StepsIn(F, N, V) /\ \A k \in 1..N, x \in V : F[<<k, x>>] = x \o ps[k]
  <2>1. \A k \in 1..N, x \in V : F[<<k, x>>] = x \o ps[k]
    OBVIOUS
  <2> HIDE DEF F, N, V
  <2> QED BY <1>1, <1>2, <2>1 DEF StepsIn
<1> HIDE DEF F, N
<1>4. PICK g : Loops(g, F, N, V, <<>>)
  <2> HIDE DEF V
  <2> QED BY <1>1, <1>2, <1>3, Loop
<1>5. /\ g \in [0..N -> V] /\ g[0] = <<>>
      /\ \A i \in 1..N : g[i] = g[i-1] \o ps[i]
  <2> HIDE DEF V
  <2>1. g \in [0..N -> V] /\ g[0] = <<>> /\ \A i \in 1..N : g[i] = F[<<i, g[i-1]>>]
    BY <1>4 DEF Loops
  <2>2. ASSUME NEW i \in 1..N PROVE g[i] = g[i-1] \o ps[i]
    <3>1. g[i-1] \in V
      BY <1>1, <2>1
    <3>2. F[<<i, g[i-1]>>] = g[i-1] \o ps[i]
      BY <1>3, <3>1
    <3> QED BY <2>1, <3>2
  <2> QED BY <2>1, <2>2
<1>6. Flattens(g, ps)
  BY <1>5 DEF Flattens, N
<1>7. CASE N = 0
  <2>1. ps = <<>>
    BY <1>7 DEF N
  <2>2. Witnesses!FlattenSeq(ps) = ps
    BY <1>7, Zenon DEF Witnesses!FlattenSeq, N
  <2> QED BY <1>5, <1>6, <1>7, <2>1, <2>2 DEF N
<1>8. CASE N # 0
  <2> DEFINE c == CHOOSE f : Is(f)
             h == [i \in 1..N |-> g[i]]
  <2>1. Witnesses!FlattenSeq(ps) = c[N]
    BY <1>8, Zenon DEF Witnesses!FlattenSeq, N
  <2>2. g[1] = ps[1] /\ 1 \in 1..N
    <3>1. 1 \in 1..N
      BY <1>1, <1>8
    <3>2. g[1] = g[1-1] \o ps[1]
      BY <1>5, <3>1, Zenon
    <3>3. <<>> \o ps[1] = ps[1]
      BY <1>1, <3>1, ConcatEmptySeq
    <3>4. 1 - 1 = 0
      OBVIOUS
    <3> QED BY <1>5, <3>1, <3>2, <3>3, <3>4
  <2>3. Is(h)
    <3>1. ASSUME NEW i \in 1..N
          PROVE  h[i] = IF i = 1 THEN ps[i] ELSE h[i-1] \o ps[i]
      <4>1. i # 1 => i - 1 \in 1..N
        BY <1>1
      <4> QED BY <1>5, <2>2, <4>1
    <3> QED BY <3>1
  <2>4. Is(c)
    <3> HIDE DEF Is, h
    <3> QED BY <2>3
  <2> HIDE DEF c
  <2>5. c[1] = ps[1] /\ \A i \in 1..N : i # 1 => c[i] = c[i-1] \o ps[i]
    BY <2>2, <2>4
  <2> DEFINE S == {i \in Nat : i = 0 \/ c[i] = g[i]}
  <2>6. 0 \in S
    OBVIOUS
  <2>7. ASSUME NEW i \in 0..N-1, i \in S PROVE i + 1 \in S
    <3>1. i + 1 \in 1..N /\ i + 1 \in Nat /\ (i + 1) - 1 = i
      BY <1>1
    <3>2. CASE i = 0
      BY <2>2, <2>5, <3>1, <3>2
    <3>3. CASE i # 0
      <4>1. i + 1 # 1 /\ c[i] = g[i]
        BY <2>7, <3>3
      <4>2. c[i + 1] = c[i] \o ps[i + 1] /\ g[i + 1] = g[i] \o ps[i + 1]
        BY <1>5, <2>5, <3>1, <4>1
      <4> QED BY <3>1, <4>1, <4>2
    <3> QED BY <3>2, <3>3
  <2>8. \A i \in 0..N : i \in S
    <3> HIDE DEF S
    <3> QED BY <1>1, <2>6, <2>7, InductionTo
  <2>9. c[N] = g[N]
    BY <1>1, <1>8, <2>8
  <2> QED BY <1>6, <2>1, <2>9 DEF N
<1> QED BY <1>7, <1>8

(* Reading on from a place: what is at it, then what is at the next. *)
ReadsOn(g, N, f, size) ==
    g = [at \in Nat |-> IF at >= N THEN <<>> ELSE <<f[at]>> \o g[at + size[at]]]

(* Since something is read each time, the reading ends.                    *)
LEMMA ReadingOn ==
    ASSUME NEW N \in Nat, NEW V, NEW f \in [0..N-1 -> V], NEW size \in [0..N-1 -> Nat \ {0}]
    PROVE  \E g : ReadsOn(g, N, f, size)
<1> DEFINE Good(g, k) ==
             /\ g \in [Nat -> Seq(V)]
             /\ \A at \in Nat : at >= N => g[at] = <<>>
             /\ \A at \in Nat : N - k <= at /\ at < N => g[at] = <<f[at]>> \o g[at + size[at]]
           S == {k \in Nat : \E g : Good(g, k)}
<1>1. 0 \in S
  <2>1. Good([at \in Nat |-> <<>>], 0)
    OBVIOUS
  <2> QED BY <2>1
<1>2. ASSUME NEW k \in 0..N-1, k \in S PROVE k + 1 \in S
  <2>1. PICK g : Good(g, k)
    BY <1>2
  <2> DEFINE a == N - k - 1
             x == <<f[a]>> \o g[a + size[a]]
             h == [g EXCEPT ![a] = x]
  <2>2. a \in Nat /\ a \in 0..N-1 /\ a < N /\ N - (k + 1) = a /\ a + 1 = N - k
    OBVIOUS
  <2>3. size[a] \in Nat \ {0} /\ f[a] \in V
    BY <2>2
  <2> HIDE DEF a
  <2>4. x \in Seq(V)
    <3>1. a + size[a] \in Nat
      BY <2>2, <2>3
    <3>2. g \in [Nat -> Seq(V)]
      BY <2>1
    <3>3. g[a + size[a]] \in Seq(V)
      BY <3>1, <3>2
    <3> QED BY <2>3, <3>3
  <2> HIDE DEF x
  <2>5. h \in [Nat -> Seq(V)] /\ h[a] = x /\ \A at \in Nat : at # a => h[at] = g[at]
    BY <2>1, <2>2, <2>4
  <2> HIDE DEF h
  <2>6. \A at \in Nat : at >= N => h[at] = <<>>
    BY <2>1, <2>2, <2>5
  <2>7. ASSUME NEW at \in Nat, N - (k + 1) <= at, at < N
        PROVE  h[at] = <<f[at]>> \o h[at + size[at]]
    <3>1. at \in 0..N-1 /\ size[at] \in Nat \ {0} /\ at >= a
      BY <2>2, <2>7
    <3>2. at + size[at] \in Nat /\ at + size[at] # a
      BY <2>2, <3>1
    <3>3. h[at + size[at]] = g[at + size[at]]
      BY <2>5, <3>2
    <3>4. CASE at = a
      BY <2>5, <3>3, <3>4 DEF x
    <3>5. CASE at # a
      <4>1. N - k <= at
        BY <2>2, <3>1, <3>5
      <4>2. h[at] = g[at]
        BY <2>5, <3>5
      <4> QED BY <2>1, <2>7, <3>3, <4>1, <4>2
    <3> QED BY <3>4, <3>5
  <2>8. Good(h, k + 1)
    BY <2>5, <2>6, <2>7
  <2>9. k + 1 \in Nat
    OBVIOUS
  <2> HIDE DEF Good
  <2> QED BY <2>8, <2>9
<1>3. N \in S
  <2> HIDE DEF S
  <2>1. \A k \in 0..N-1 : k \in S => k + 1 \in S
    BY <1>2
  <2>2. \A k \in 0..N : k \in S
    BY <1>1, <2>1, InductionTo, Zenon
  <2> QED BY <2>2
<1>4. PICK g : Good(g, N)
  BY <1>3
<1>5. ASSUME NEW at \in Nat
      PROVE  g[at] = IF at >= N THEN <<>> ELSE <<f[at]>> \o g[at + size[at]]
  <2>1. CASE at >= N
    BY <1>4, <2>1
  <2>2. CASE ~(at >= N)
    <3>1. N - N <= at /\ at < N
      BY <2>2
    <3> QED BY <1>4, <2>2, <3>1
  <2> QED BY <2>1, <2>2
<1>6. g = [at \in Nat |-> IF at >= N THEN <<>> ELSE <<f[at]>> \o g[at + size[at]]]
  <2>1. g = [at \in Nat |-> g[at]]
    BY <1>4
  <2> HIDE DEF Good
  <2> QED BY <1>5, <2>1
<1> QED BY <1>6 DEF ReadsOn

(* Concatenation is associative.                                           *)
LEMMA JoinAssociative == \A a, b, c \in Seq(Byte) : (a \o b) \o c = a \o (b \o c)
BY ConcatAssociative

(* What follows the first part of a sequence. *)
LEMMA AfterFirst ==
    ASSUME NEW a \in Seq(Byte), NEW b \in Seq(Byte)
    PROVE  SubSeq(a \o b, Len(a) + 1, Len(a \o b)) = b
<1> DEFINE c == a \o b
<1>1. Joins(c, a, b)
  BY JoinBytes
<1> HIDE DEF c
<1>2. Len(a) \in Nat /\ Len(b) \in Nat
  BY LenProperties
<1>3. /\ c \in Seq(Byte) /\ Len(c) = Len(a) + Len(b)
      /\ \A i \in 1..Len(b) : c[Len(a) + i] = b[i]
  BY <1>1 DEF Joins
<1>4. SubSeq(c, Len(a) + 1, Len(a) + Len(b)) = b
  <2>1. Len(a) + Len(b) <= Len(c)
    BY <1>2, <1>3
  <2> QED BY <1>2, <1>3, <2>1, SubSeqIs
<1> QED BY <1>3, <1>4 DEF c

(* Each piece begins where the one before it ends, and the rest follows. *)
LEMMA FlattenRest ==
    ASSUME NEW ps \in Seq(Seq(Byte)), NEW P, Flattens(P, ps), NEW j \in 0..Len(ps)
    PROVE  \E rest \in Seq(Byte) : P[Len(ps)] = P[j] \o rest
<1> DEFINE n == Len(ps)
           S == {k \in Nat : \E rest \in Seq(Byte) : P[n] = P[n - k] \o rest}
<1>1. n \in Nat /\ \A i \in 1..n : ps[i] \in Seq(Byte)
  BY LenProperties, ElementOfSeq
<1>2. P \in [0..n -> Seq(Byte)] /\ \A i \in 1..n : P[i] = P[i-1] \o ps[i]
  BY DEF Flattens
<1> HIDE DEF n
<1>3. 0 \in S
  <2>1. P[n] \in Seq(Byte) /\ n - 0 = n
    BY <1>1, <1>2
  <2>2. P[n] = P[n] \o <<>> /\ <<>> \in Seq(Byte)
    BY <2>1, ConcatEmptySeq
  <2> QED BY <2>1, <2>2
<1>4. ASSUME NEW k \in 0..n-1, k \in S PROVE k + 1 \in S
  <2>1. PICK rest \in Seq(Byte) : P[n] = P[n - k] \o rest
    BY <1>4
  <2> DEFINE i == n - k
  <2>2. i \in 1..n /\ i - 1 \in 0..n /\ n - (k + 1) = i - 1 /\ k + 1 \in Nat
    BY <1>1
  <2> HIDE DEF i
  <2>3. P[i] = P[i-1] \o ps[i] /\ P[i-1] \in Seq(Byte) /\ ps[i] \in Seq(Byte)
    BY <1>1, <1>2, <2>2
  <2>4. (P[i-1] \o ps[i]) \o rest = P[i-1] \o (ps[i] \o rest)
    BY <2>3, JoinAssociative, Zenon
  <2>5. P[n] = P[i-1] \o (ps[i] \o rest) /\ ps[i] \o rest \in Seq(Byte)
    <3>1. ps[i] \o rest \in Seq(Byte)
      BY <2>3
    <3>2. P[n] = P[i] \o rest
      BY <2>1 DEF i
    <3> QED BY <2>3, <2>4, <3>1, <3>2, Zenon
  <2> QED BY <2>2, <2>5
<1>5. \A k \in 0..n : k \in S
  <2> HIDE DEF S
  <2> QED BY <1>1, <1>3, <1>4, InductionTo
<1>6. n - j \in 0..n /\ n - (n - j) = j
  BY <1>1 DEF n
<1>7. n - j \in S
  BY <1>5, <1>6
<1> QED BY <1>6, <1>7 DEF n

(* Pushes one after another are read back, one after another. *)
LEMMA ReadPushes ==
    ASSUME NEW vs \in Seq(Value)
    PROVE  Witnesses!ReadScript(Witnesses!PushAll(vs)) = vs
<1> DEFINE n == Len(vs)
           ps == [i \in DOMAIN vs |-> Witnesses!Push(vs[i])]
           script == Witnesses!PushAll(vs)
           From(at) == SubSeq(script, at + 1, Len(script))
           p(at) == Witnesses!FirstPush(From(at))
           Reads(g) == g = [at \in Nat |-> IF at >= Len(script) THEN <<>>
                                           ELSE <<p(at).value>> \o g[at + p(at).size]]
           read == CHOOSE g : Reads(g)
<1>1. n \in Nat /\ DOMAIN vs = 1..n /\ \A i \in 1..n : vs[i] \in Value
  BY LenProperties, ElementOfSeq
<1>2. ps \in Seq(Seq(Byte)) /\ Len(ps) = n /\ \A i \in 1..n : ps[i] = Witnesses!Push(vs[i])
  <2> HIDE DEF n
  <2>1. \A i \in 1..n : Witnesses!Push(vs[i]) \in Seq(Byte)
    BY <1>1, PushTyped
  <2>2. ps \in [1..n -> Seq(Byte)] /\ \A i \in 1..n : ps[i] = Witnesses!Push(vs[i])
    BY <1>1, <2>1
  <2> HIDE DEF ps
  <2>3. ps \in Seq(Seq(Byte)) /\ Len(ps) = n
    BY <1>1, <2>2
  <2> QED BY <2>2, <2>3
<1>3. script = Witnesses!FlattenSeq(ps)
  BY Zenon DEF Witnesses!PushAll
<1> HIDE DEF n, ps
<1>4. PICK P : Flattens(P, ps) /\ script = P[n]
  BY <1>2, <1>3, FlattenLoop
<1>5. P \in [0..n -> Seq(Byte)] /\ P[0] = <<>> /\ \A i \in 1..n : P[i] = P[i-1] \o ps[i]
  BY <1>2, <1>4 DEF Flattens
<1> HIDE DEF script
<1>6. script \in Seq(Byte) /\ Len(script) \in Nat
  <2>1. script \in Seq(Byte)
    BY <1>1, <1>4, <1>5
  <2> QED BY <2>1, LenProperties
<1>7. ASSUME NEW j \in 0..n-1
      PROVE  /\ Len(P[j]) \in Nat /\ Len(P[j]) < Len(script)
             /\ p(Len(P[j])).value = vs[j + 1]
             /\ Len(P[j]) + p(Len(P[j])).size = Len(P[j + 1])
  <2>1. j + 1 \in 0..n /\ j + 1 \in 1..n /\ (j + 1) - 1 = j /\ j \in 0..n
    BY <1>1
  <2>2. PICK rest \in Seq(Byte) : P[n] = P[j + 1] \o rest
    <3>1. j + 1 \in 0..Len(ps)
      BY <1>2, <2>1
    <3> QED BY <1>2, <1>4, <3>1, FlattenRest
  <2> DEFINE a == P[j]
             b == ps[j + 1]
  <2>3. /\ P[j + 1] = a \o b /\ a \in Seq(Byte) /\ b = Witnesses!Push(vs[j + 1])
        /\ vs[j + 1] \in Value
    BY <1>1, <1>2, <1>5, <2>1
  <2>4. b \in Seq(Byte) /\ Len(b) > 0
    BY <2>3, PushTyped
  <2> HIDE DEF a, b
  <2>5. a \o (b \o rest) = script
    <3>1. (a \o b) \o rest = a \o (b \o rest)
      BY <2>3, <2>4, JoinAssociative, Zenon
    <3> QED BY <1>4, <2>2, <2>3, <3>1, Zenon
  <2>6. b \o rest \in Seq(Byte)
    BY <2>4
  <2>7. From(Len(a)) = b \o rest
    <3>1. SubSeq(a \o (b \o rest), Len(a) + 1, Len(a \o (b \o rest))) = b \o rest
      BY <2>3, <2>6, AfterFirst
    <3> QED BY <2>5, <3>1, Zenon
  <2>8. p(Len(a)) = [value |-> vs[j + 1], size |-> Len(b)]
    BY <2>3, <2>7, PushReads
  <2>9. Len(P[j + 1]) = Len(a) + Len(b)
    <3>1. Joins(a \o b, a, b)
      BY <2>3, <2>4, JoinBytes
    <3> QED BY <2>3, <3>1, Zenon DEF Joins
  <2>10. Len(a) \in Nat /\ Len(a) < Len(script)
    <3>1. Joins(script, a, b \o rest) /\ Joins(b \o rest, b, rest)
      BY <2>3, <2>4, <2>5, <2>6, JoinBytes
    <3>2. Len(script) = Len(a) + (Len(b) + Len(rest))
      BY <3>1, Zenon DEF Joins
    <3>3. Len(a) \in Nat /\ Len(b) \in Nat /\ Len(rest) \in Nat
      BY <2>3, <2>4, LenProperties
    <3> QED BY <2>4, <3>2, <3>3
  <2>11. p(Len(a)).value = vs[j + 1] /\ p(Len(a)).size = Len(b)
    BY <2>8
  <2> HIDE DEF p
  <2> QED BY <2>9, <2>10, <2>11 DEF a
<1>8. Reads(read)
  <2> DEFINE N == Len(script)
             f == [at \in 0..N-1 |-> p(at).value]
             size == [at \in 0..N-1 |-> p(at).size]
  <2>1. ASSUME NEW at \in 0..N-1
        PROVE  p(at).value \in Seq(Byte) /\ p(at).size \in Nat \ {0}
    <3>1. at + 1 \in Int /\ N \in Int /\ \A i \in (at + 1)..N : script[i] \in Byte
      <4>1. \A i \in 1..N : script[i] \in Byte
        BY <1>6, ElementOfSeq
      <4> QED BY <1>6, <4>1
    <3>2. From(at) \in Seq(Byte)
          /\ Len(From(at)) = IF at + 1 <= N THEN N - (at + 1) + 1 ELSE 0
      BY <3>1, SubSeqProperties
    <3>3. Len(From(at)) > 0
      BY <1>6, <3>2
    <3> HIDE DEF From
    <3> QED BY <3>2, <3>3, FirstPushTyped
  <2> HIDE DEF p
  <2>2. f \in [0..N-1 -> Seq(Byte)] /\ size \in [0..N-1 -> Nat \ {0}] /\ N \in Nat
    BY <1>6, <2>1
  <2>3. \A at \in 0..N-1 : f[at] = p(at).value /\ size[at] = p(at).size
    OBVIOUS
  <2> HIDE DEF f, size, N
  <2>4. PICK g : ReadsOn(g, N, f, size)
    BY <2>2, ReadingOn
  <2>5. Reads(g)
    <3>1. ASSUME NEW at \in Nat
          PROVE  (IF at >= N THEN <<>> ELSE <<f[at]>> \o g[at + size[at]])
                   = IF at >= N THEN <<>> ELSE <<p(at).value>> \o g[at + p(at).size]
      <4>1. ~(at >= N) => at \in 0..N-1
        BY <2>2
      <4> QED BY <2>3, <4>1
    <3>2. g = [at \in Nat |-> IF at >= N THEN <<>> ELSE <<p(at).value>> \o g[at + p(at).size]]
      BY <2>4, <3>1 DEF ReadsOn
    <3> QED BY <3>2 DEF N
  <2> HIDE DEF Reads
  <2> QED BY <2>5
<1>9. Witnesses!ReadScript(script) = read[0]
  BY Zenon DEF Witnesses!ReadScript
<1> HIDE DEF read, p
<1>10. ASSUME NEW at \in Nat
       PROVE  read[at] = IF at >= Len(script) THEN <<>>
                         ELSE <<p(at).value>> \o read[at + p(at).size]
  BY <1>8
<1> DEFINE S == {k \in Nat : read[Len(P[n - k])] = SubSeq(vs, n - k + 1, n)}
<1>11. 0 \in S
  <2>1. n - 0 = n /\ Len(P[n]) = Len(script) /\ n + 1 > n
    BY <1>1, <1>4
  <2>2. read[Len(script)] = <<>>
    <3>1. Len(script) >= Len(script)
      BY <1>6
    <3> QED BY <1>6, <1>10, <3>1, Zenon
  <2>3. SubSeq(vs, n + 1, n) = <<>>
    BY <1>1, SubSeqEmpty
  <2> QED BY <2>1, <2>2, <2>3
<1>12. ASSUME NEW k \in 0..n-1, k \in S PROVE k + 1 \in S
  <2> DEFINE j == n - (k + 1)
  <2>1. j \in 0..n-1 /\ n - k = j + 1 /\ k + 1 \in Nat /\ j + 1 \in 1..n
    BY <1>1
  <2>2. read[Len(P[n - k])] = SubSeq(vs, n - k + 1, n)
    BY <1>12
  <2> HIDE DEF j
  <2>3. read[Len(P[j + 1])] = SubSeq(vs, (j + 1) + 1, n)
    BY <2>1, <2>2, Zenon
  <2>4. /\ Len(P[j]) \in Nat /\ Len(P[j]) < Len(script)
        /\ p(Len(P[j])).value = vs[j + 1]
        /\ Len(P[j]) + p(Len(P[j])).size = Len(P[j + 1])
    BY <1>7, <2>1
  <2>5. ~(Len(P[j]) >= Len(script))
    BY <1>6, <2>4
  <2>6. read[Len(P[j])] = <<vs[j + 1]>> \o SubSeq(vs, (j + 1) + 1, n)
    BY <1>10, <2>3, <2>4, <2>5, Zenon
  <2>7. SubSeq(vs, j + 1, n) = <<vs[j + 1]>> \o SubSeq(vs, (j + 1) + 1, n)
    <3>1. j + 1 \in 1..Len(vs) /\ n \in (j + 1)..Len(vs)
      BY <1>1, <2>1 DEF n
    <3> QED BY <3>1, SubSeqRecursiveFirst
  <2>8. read[Len(P[j])] = SubSeq(vs, j + 1, n)
    BY <2>6, <2>7
  <2> QED BY <2>1, <2>8 DEF j
<1>13. n \in S
  <2> HIDE DEF S
  <2>1. \A k \in 0..n : k \in S
    BY <1>1, <1>11, <1>12, InductionTo
  <2> QED BY <1>1, <2>1
<1>14. read[0] = vs
  <2>1. n - n = 0 /\ n - n + 1 = 1 /\ Len(P[0]) = 0
    BY <1>1, <1>5
  <2>2. read[Len(P[n - n])] = SubSeq(vs, n - n + 1, n)
    BY <1>13
  <2>3. read[0] = SubSeq(vs, 1, n)
    BY <2>1, <2>2, Zenon
  <2>4. SubSeq(vs, 1, n) = vs
    BY SubSeqFull DEF n
  <2> QED BY <2>3, <2>4
<1> QED BY <1>9, <1>14 DEF script

-------------------------------------------------------------------------------
(* Witnesses.                                                              *)

(* A length of one byte is a length. *)
LEMMA SmallFits ==
    ASSUME NEW n \in Nat, n <= 255
    PROVE  Fits(n, 4)
<1> DEFINE q == Quotients(n, 4)
<1>1. Divides(q, n, 4)
  BY QuotientsLoop
<1> HIDE DEF q
<1>2. /\ q[0] = n /\ q[1] = q[1-1] \div 256 /\ q[2] = q[2-1] \div 256
      /\ q[3] = q[3-1] \div 256 /\ q[4] = q[4-1] \div 256
  BY <1>1 DEF Divides
<1>3. q[1] = 0
  BY <1>2
<1>4. q[2] = 0 /\ q[3] = 0 /\ q[4] = 0
  BY <1>2, <1>3
<1> QED BY <1>4 DEF Fits, q

(* Up to 255 bytes can be pushed.                                          *)
LEMMA ShortValue ==
    ASSUME NEW v \in Seq(Byte), Len(v) <= 255
    PROVE  v \in Value
BY SmallFits, LenProperties DEF Value

(* What is assumed of the arguments of a witness. *)
StateArg ==
    {s \in [amount : Nat, owner : Seq(Byte), scheme : Byte] :
       Fits(s.amount, AmountWidth) /\ Fits(s.amount, 8) /\ Len(s.owner) = OwnerWidth}

(* FormatsAssumption on the arguments of a witness, in the operators       *)
(* here.                                                                   *)
LEMMA WitnessConstants ==
    /\ AmountWidth \in Nat /\ AmountWidth <= 75 /\ OwnerWidth \in Nat /\ OwnerWidth <= 75
    /\ \A n \in Indices \cup Amounts : n \in Nat /\ Fits(n, 8)
    /\ Strings \subseteq Value /\ Programs \subseteq Value /\ States \subseteq StateArg
<1>1. /\ AmountWidth \in 1..75 /\ OwnerWidth \in 2..75
      /\ \A n \in Indices \cup Amounts : n \in Nat /\ Witnesses!Fits(n, 8)
      /\ Strings \subseteq Seq(Witnesses!Byte) /\ Programs \subseteq Seq(Witnesses!Byte)
      /\ \A s \in Strings \cup Programs : Witnesses!Fits(Len(s), 4)
      /\ States \subseteq [amount : Nat, owner : Seq(Witnesses!Byte), scheme : Witnesses!Byte]
      /\ \A s \in States : /\ Len(s.owner) = OwnerWidth
                           /\ Witnesses!Fits(s.amount, AmountWidth)
                           /\ Witnesses!Fits(s.amount, 8)
  BY FormatsAssumption, Zenon DEF Witnesses!CodecAssumption
<1>2. AmountWidth \in Nat /\ AmountWidth <= 75 /\ OwnerWidth \in Nat /\ OwnerWidth <= 75
  BY <1>1
<1>3. \A n \in Indices \cup Amounts : n \in Nat /\ Fits(n, 8)
  BY <1>1, WitnessTerms, Zenon
<1>4. Strings \subseteq Value /\ Programs \subseteq Value
  <2>1. Strings \subseteq Seq(Byte) /\ Programs \subseteq Seq(Byte)
        /\ \A s \in Strings \cup Programs : Fits(Len(s), 4)
    BY <1>1, WitnessTerms, Zenon
  <2> QED BY <2>1, Zenon DEF Value
<1>5. States \subseteq StateArg
  <2>1. States \subseteq [amount : Nat, owner : Seq(Byte), scheme : Byte]
    BY <1>1, WitnessTerms, Zenon
  <2>2. \A s \in States : /\ Len(s.owner) = OwnerWidth
                          /\ Fits(s.amount, AmountWidth) /\ Fits(s.amount, 8)
    BY <1>1, WitnessTerms, Zenon
  <2> QED BY <2>1, <2>2, Zenon DEF StateArg
<1> QED BY <1>2, <1>3, <1>4, <1>5

(* A number that is not negative, as an argument. *)
LEMMA NumberValue ==
    ASSUME NEW n \in Nat, Fits(n, 8)
    PROVE  Witnesses!ScriptNum(n) \in Value
<1> DEFINE k == Witnesses!ByteCount(n)
           b == LittleEndian(n, k)
           bytes == Witnesses!ScriptNum(n)
<1>1. k \in Nat /\ k <= 8 /\ (n # 0 => k > 0)
  BY BytesTaken, Zenon
<1>2. b \in Seq(Byte) /\ Len(b) = k
  BY <1>1, LittleEndianBytes
<1>3. ~(n < 0)
  OBVIOUS
<1>4. bytes = IF n = 0 THEN <<>>
              ELSE IF b[Len(b)] >= 128 THEN Append(b, 0)
              ELSE [b EXCEPT ![Len(b)] = @ + 0]
  BY <1>3, WitnessTerms, Zenon DEF Witnesses!ScriptNum, Witnesses!Last
<1> HIDE DEF k, b, bytes
<1>5. CASE n = 0
  <2>1. bytes = <<>>
    BY <1>4, <1>5
  <2>2. <<>> \in Seq(Byte) /\ Len(<<>>) <= 255
    BY EmptySeq
  <2> QED BY <2>1, <2>2, ShortValue DEF bytes
<1>6. CASE n # 0 /\ b[Len(b)] >= 128
  <2> DEFINE c == Append(b, 0)
  <2>1. bytes = c
    BY <1>4, <1>6, Zenon
  <2>2. 0 \in Byte
    BY DEF Byte
  <2>3. c \in Seq(Byte) /\ Len(c) = Len(b) + 1
    BY <1>2, <2>2, AppendProperties
  <2> HIDE DEF c
  <2>4. Len(c) <= 255
    BY <1>1, <1>2, <2>3
  <2> QED BY <2>1, <2>3, <2>4, ShortValue DEF bytes
<1>7. CASE n # 0 /\ ~(b[Len(b)] >= 128)
  <2>1. bytes = [b EXCEPT ![Len(b)] = @ + 0]
    BY <1>4, <1>7, Zenon
  <2>2. b \in [1..k -> Byte] /\ k \in 1..k
    BY <1>1, <1>2, <1>7, LenProperties
  <2>3. b[k] \in Nat
    <3>1. b[k] \in Byte
      BY <2>2
    <3> QED BY <3>1, ByteNat
  <2>4. bytes = b
    <3> DEFINE y == [b EXCEPT ![k] = @ + 0]
    <3>1. bytes = y
      BY <1>2, <2>1, Zenon
    <3>2. DOMAIN y = 1..k /\ \A i \in 1..k : y[i] = b[i]
      BY <2>2, <2>3
    <3>3. y = [i \in 1..k |-> y[i]] /\ b = [i \in 1..k |-> b[i]]
      BY <2>2
    <3> HIDE DEF y
    <3>4. y = b
      BY <3>2, <3>3
    <3> QED BY <3>1, <3>4
  <2>5. Len(b) <= 255
    BY <1>1, <1>2
  <2> QED BY <1>2, <2>4, <2>5, ShortValue DEF bytes
<1> QED BY <1>5, <1>6, <1>7

(* One or two elements of a width: the array they make, and each of them in it. *)
Array(A, ps, w) ==
    /\ A \in Seq(Byte) /\ Len(A) <= 2 * w
    /\ \A i \in DOMAIN ps : Witnesses!ElementAt(A, i, w) = ps[i]

(* Elements of one width, put together, make such an array.                *)
LEMMA ArrayOf ==
    ASSUME NEW n \in 1..2, NEW w \in Nat, NEW ps \in [1..n -> Seq(Byte)],
           \A i \in 1..n : Len(ps[i]) = w
    PROVE  Array(Witnesses!FlattenSeq(ps), ps, w)
<1> DEFINE A == Witnesses!FlattenSeq(ps)
<1>1. ps \in Seq(Seq(Byte)) /\ Len(ps) = n /\ DOMAIN ps = 1..n
  OBVIOUS
<1>2. PICK P : Flattens(P, ps) /\ A = P[n]
  BY <1>1, FlattenLoop
<1>3. P[0] = <<>> /\ \A i \in 1..n : P[i] = P[i-1] \o ps[i]
  BY <1>1, <1>2 DEF Flattens
<1> HIDE DEF A
<1>4. P[1] = ps[1] /\ ps[1] \in Seq(Byte) /\ Len(ps[1]) = w
  <2>1. 1 \in 1..n /\ 1 - 1 = 0
    OBVIOUS
  <2>2. ps[1] \in Seq(Byte) /\ Len(ps[1]) = w
    BY <2>1
  <2>3. P[1] = P[0] \o ps[1]
    BY <1>3, <2>1, Zenon
  <2>4. <<>> \o ps[1] = ps[1]
    BY <2>2, ConcatEmptySeq
  <2> QED BY <1>3, <2>2, <2>3, <2>4
<1>5. (1 - 1) * w + 1 = 1 /\ 1 * w = w /\ (2 - 1) * w + 1 = w + 1 /\ 2 * w = w + w
  OBVIOUS
<1>6. CASE n = 1
  <2>1. A = ps[1]
    BY <1>2, <1>4, <1>6
  <2>2. SubSeq(A, 1, w) = A
    BY <1>4, <2>1, SubSeqFull
  <2>3. w <= Len(A) /\ Len(A) <= 2 * w
    BY <1>4, <2>1
  <2>4. Witnesses!ElementAt(A, 1, w) = ps[1]
    BY <1>5, <2>1, <2>2, <2>3, Zenon DEF Witnesses!ElementAt, Witnesses!Cut
  <2> QED BY <1>1, <1>4, <1>6, <2>1, <2>3, <2>4 DEF Array, A
<1>7. CASE n = 2
  <2> DEFINE a == ps[1]
             b == ps[2]
             c == a \o b
  <2>1. 2 \in 1..n /\ 2 - 1 = 1
    BY <1>7
  <2>2. b \in Seq(Byte) /\ Len(b) = w /\ a \in Seq(Byte) /\ Len(a) = w
    BY <1>4, <2>1
  <2>3. A = c
    <3>1. P[2] = P[1] \o ps[2]
      BY <1>3, <2>1, Zenon
    <3> QED BY <1>2, <1>4, <1>7, <3>1
  <2> HIDE DEF a, b
  <2>4. Joins(c, a, b)
    BY <2>2, JoinBytes
  <2>5. SubSeq(c, Len(a) + 1, Len(c)) = b
    BY <2>2, AfterFirst
  <2> HIDE DEF c
  <2>6. c \in Seq(Byte) /\ Len(c) = w + w /\ \A i \in 1..w : c[i] = a[i]
    BY <2>2, <2>4 DEF Joins
  <2>7. SubSeq(c, 1, w) = a
    <3>1. 0 \in Nat /\ 0 + Len(a) <= Len(c)
      BY <2>2, <2>6
    <3>2. \A i \in 1..Len(a) : c[0 + i] = a[i]
      BY <2>2, <2>6
    <3>3. SubSeq(c, 0 + 1, 0 + Len(a)) = a
      BY <2>2, <2>6, <3>1, <3>2, SubSeqIs
    <3> QED BY <2>2, <3>3
  <2>8. w <= Len(c) /\ w + w <= Len(c)
    BY <2>6
  <2>9. Witnesses!ElementAt(c, 1, w) = a
    BY <1>5, <2>7, <2>8, Zenon DEF Witnesses!ElementAt, Witnesses!Cut
  <2>10. Witnesses!ElementAt(c, 2, w) = b
    <3>1. SubSeq(c, w + 1, w + w) = b
      BY <2>2, <2>5, <2>6, Zenon
    <3> QED BY <1>5, <2>8, <3>1, Zenon DEF Witnesses!ElementAt, Witnesses!Cut
  <2>11. \A i \in DOMAIN ps : Witnesses!ElementAt(A, i, w) = ps[i]
    <3>1. \A i \in DOMAIN ps : i = 1 \/ i = 2
      BY <1>1, <1>7
    <3> QED BY <2>3, <2>9, <2>10, <3>1 DEF a, b
  <2>12. Len(c) <= 2 * w
    BY <2>6
  <2> QED BY <2>3, <2>6, <2>11, <2>12, Zenon DEF Array, A
<1> QED BY <1>6, <1>7

(* The arguments of a token witness begin with its states, each an array of*)
(* one field. *)
OfStates(values, ss) ==
    \E n \in 1..2 :
      /\ ss \in [1..n -> States] /\ Len(values) >= 3
      /\ \A i \in 1..3 : values[i] = Witnesses!TokenArrayArgs(ss)[i]

(* A witness is the pushes of what it was built from. *)
WitnessInv ==
    /\ meant \in Seq(Value) /\ witness = Witnesses!PushAll(meant)
    /\ states = <<>> \/ OfStates(meant, states)

(* The fields of one or two states, each an array of equal elements. *)
Columns(ss) ==
    LET args == Witnesses!TokenArrayArgs(ss) IN
    /\ args \in Seq(Value) /\ Len(args) = 3
    /\ \A i \in DOMAIN ss :
        /\ Unsigned(Witnesses!ElementAt(args[1], i, AmountWidth)) = ss[i].amount
        /\ Witnesses!ElementAt(args[2], i, OwnerWidth) = ss[i].owner
        /\ args[3][i] = ss[i].scheme

(* The array arguments of one or two states are such arrays.               *)
LEMMA ArrayArgs ==
    ASSUME NEW n \in 1..2, NEW ss \in [1..n -> States]
    PROVE  Columns(ss)
<1> DEFINE AW == AmountWidth
           OW == OwnerWidth
           as == [i \in 1..n |-> LittleEndian(ss[i].amount, AW)]
           os == [i \in 1..n |-> ss[i].owner]
           zs == [i \in 1..n |-> ss[i].scheme]
           A == Witnesses!FlattenSeq(as)
           O == Witnesses!FlattenSeq(os)
           args == Witnesses!TokenArrayArgs(ss)
<1>1. /\ AW \in Nat /\ AW <= 75 /\ OW \in Nat /\ OW <= 75 /\ States \subseteq StateArg
      /\ DOMAIN ss = 1..n
  BY WitnessConstants
<1>2. ASSUME NEW i \in 1..n
      PROVE  /\ ss[i].amount \in Nat /\ ss[i].owner \in Seq(Byte) /\ ss[i].scheme \in Byte
             /\ Fits(ss[i].amount, AW) /\ Len(ss[i].owner) = OW
  <2>1. ss[i] \in StateArg
    BY <1>1
  <2> QED BY <2>1 DEF StateArg
<1>3. args = <<A, O, zs>>
  <2>1. as = [i \in DOMAIN ss |-> Witnesses!LittleEndian(ss[i].amount, AW)]
    BY <1>1, WitnessTerms, Zenon
  <2>2. os = [i \in DOMAIN ss |-> ss[i].owner] /\ zs = [i \in DOMAIN ss |-> ss[i].scheme]
    BY <1>1, Zenon
  <2> HIDE DEF as, os, zs
  <2> QED BY <2>1, <2>2, Zenon DEF Witnesses!TokenArrayArgs
<1> HIDE DEF AW, OW
<1>4. Array(A, as, AW)
  <2>1. ASSUME NEW i \in 1..n
        PROVE  LittleEndian(ss[i].amount, AW) \in Seq(Byte)
               /\ Len(LittleEndian(ss[i].amount, AW)) = AW
    BY <1>1, <1>2, LittleEndianBytes
  <2>2. as \in [1..n -> Seq(Byte)] /\ \A i \in 1..n : Len(as[i]) = AW
    BY <2>1
  <2> HIDE DEF as
  <2> QED BY <1>1, <2>2, ArrayOf
<1>5. Array(O, os, OW)
  <2>1. os \in [1..n -> Seq(Byte)] /\ \A i \in 1..n : Len(os[i]) = OW
    BY <1>2
  <2> HIDE DEF os
  <2> QED BY <1>1, <2>1, ArrayOf
<1>6. zs \in Seq(Byte) /\ Len(zs) = n
  <2>1. zs \in [1..n -> Byte]
    BY <1>2
  <2> HIDE DEF zs
  <2> QED BY <2>1
<1>7. A \in Value /\ O \in Value /\ zs \in Value
  <2> HIDE DEF A, O, zs
  <2>1. A \in Seq(Byte) /\ Len(A) <= 255 /\ O \in Seq(Byte) /\ Len(O) <= 255
    <3>1. A \in Seq(Byte) /\ Len(A) <= 2 * AW /\ O \in Seq(Byte) /\ Len(O) <= 2 * OW
      BY <1>4, <1>5, Zenon DEF Array
    <3>2. Len(A) \in Nat /\ Len(O) \in Nat
      BY <3>1, LenProperties
    <3> QED BY <1>1, <3>1, <3>2
  <2>2. Len(zs) <= 255
    BY <1>6
  <2> QED BY <1>6, <2>1, <2>2, ShortValue
<1>8. args \in Seq(Value) /\ Len(args) = 3 /\ args[1] = A /\ args[2] = O /\ args[3] = zs
  <2> HIDE DEF args, A, O, zs
  <2> QED BY <1>3, <1>7
<1>9. ASSUME NEW i \in 1..n
      PROVE  /\ Unsigned(Witnesses!ElementAt(args[1], i, AW)) = ss[i].amount
             /\ Witnesses!ElementAt(args[2], i, OW) = ss[i].owner
             /\ args[3][i] = ss[i].scheme
  <2>1. as[i] = LittleEndian(ss[i].amount, AW) /\ os[i] = ss[i].owner /\ zs[i] = ss[i].scheme
    OBVIOUS
  <2>2. i \in DOMAIN as /\ i \in DOMAIN os
    OBVIOUS
  <2> HIDE DEF as, os, zs, A, O, args
  <2>3. Witnesses!ElementAt(A, i, AW) = as[i] /\ Witnesses!ElementAt(O, i, OW) = os[i]
    BY <1>4, <1>5, <2>2, Zenon DEF Array
  <2>4. Unsigned(as[i]) = ss[i].amount
    BY <1>1, <1>2, <2>1, ReadWritten
  <2> QED BY <1>8, <2>1, <2>3, <2>4, Zenon
<1> QED BY <1>1, <1>8, <1>9, Zenon DEF Columns, AW, OW

(* No witness is built yet.                                                *)
LEMMA WitnessInit == Witnesses!Init => WitnessInv
<1> SUFFICES ASSUME Witnesses!Init PROVE WitnessInv
  OBVIOUS
<1>1. meant = <<>> /\ states = <<>> /\ witness = <<>>
  BY Zenon DEF Witnesses!Init
<1>2. Witnesses!PushAll(<<>>) = <<>>
  <2> DEFINE ps == [i \in DOMAIN <<>> |-> Witnesses!Push(<<>>[i])]
  <2>1. ps = <<>> /\ Len(<<>>) = 0
    OBVIOUS
  <2>2. Witnesses!FlattenSeq(<<>>) = <<>>
    BY <2>1, Zenon DEF Witnesses!FlattenSeq
  <2>3. Witnesses!PushAll(<<>>) = Witnesses!FlattenSeq(ps)
    BY Zenon DEF Witnesses!PushAll
  <2> QED BY <2>1, <2>2, <2>3, Zenon
<1>3. <<>> \in Seq(Value)
  BY EmptySeq
<1> QED BY <1>1, <1>2, <1>3, Zenon DEF WitnessInv

(* A witness that is built from values keeps the invariant.                *)
LEMMA Built ==
    ASSUME NEW values \in Seq(Value), NEW ss, ss = <<>> \/ OfStates(values, ss),
           Witnesses!Build(values, ss)
    PROVE  WitnessInv'
<1>1. meant' = values /\ states' = ss /\ witness' = Witnesses!PushAll(values)
  BY Zenon DEF Witnesses!Build
<1>2. OfStates(meant, states)' <=> OfStates(values, ss)
  BY <1>1, Zenon DEF OfStates
<1>3. Witnesses!PushAll(meant)' = Witnesses!PushAll(values)
  BY <1>1, Zenon DEF Witnesses!PushAll
<1> QED BY <1>1, <1>2, <1>3, Zenon DEF WitnessInv

(* A transfer: three arrays of states, then the other arguments.           *)
LEMMA TokenBuilt == Witnesses!TokenWitness => WitnessInv'
<1> SUFFICES ASSUME Witnesses!TokenWitness PROVE WitnessInv'
  OBVIOUS
<1>1. PICK ss \in UNION {[1..k -> States] : k \in 1..2}, signatures \in Strings,
           program_1 \in Programs, input \in {0, 1} :
        Witnesses!Build(Witnesses!TokenArrayArgs(ss)
                          \o <<signatures, <<input>>, <<>>, program_1>>, ss)
  BY Zenon DEF Witnesses!TokenWitness
<1>2. PICK n \in 1..2 : ss \in [1..n -> States]
  BY <1>1
<1> DEFINE a == Witnesses!TokenArrayArgs(ss)
           b == <<signatures, <<input>>, <<>>, program_1>>
           c == a \o b
<1>3. a \in Seq(Value) /\ Len(a) = 3
  BY <1>2, ArrayArgs, Zenon DEF Columns
<1>4. b \in Seq(Value) /\ Len(b) = 4
  <2> DEFINE v == <<input>>
             e == <<>>
  <2>1. signatures \in Value /\ program_1 \in Value
    BY WitnessConstants
  <2>2. v \in Seq(Byte) /\ Len(v) <= 255
    BY DEF Byte
  <2>3. e \in Seq(Byte) /\ Len(e) <= 255
    BY EmptySeq
  <2> HIDE DEF v, e
  <2>4. v \in Value /\ e \in Value
    BY <2>2, <2>3, ShortValue
  <2>5. <<signatures, v, e, program_1>> \in Seq(Value) /\ Len(<<signatures, v, e, program_1>>) = 4
    BY <2>1, <2>4
  <2> QED BY <2>5, Zenon DEF v, e
<1> HIDE DEF a, b
<1>5. /\ c \in Seq(Value) /\ Len(c) = Len(a) + Len(b)
      /\ \A i \in 1..Len(a) : c[i] = a[i]
  BY <1>3, <1>4, ConcatParts, ZenonT(30)
<1>6. OfStates(c, ss)
  <2> HIDE DEF c
  <2>1. Len(c) >= 3 /\ \A i \in 1..3 : c[i] = a[i]
    BY <1>3, <1>4, <1>5
  <2> QED BY <1>2, <2>1, Zenon DEF OfStates, a
<1>7. Witnesses!Build(c, ss)
  BY <1>1, Zenon DEF a, b
<1> HIDE DEF c
<1> QED BY <1>5, <1>6, <1>7, Built

(* The fields of a state can be pushed.                                    *)
LEMMA StateValues ==
    ASSUME NEW s \in States
    PROVE  /\ Witnesses!StateArgs(s) \in Seq(Value)
           /\ s.owner \in Value /\ <<s.scheme>> \in Value
<1>1. /\ s.amount \in Nat /\ s.owner \in Seq(Byte) /\ s.scheme \in Byte
      /\ Fits(s.amount, 8) /\ Len(s.owner) = OwnerWidth /\ OwnerWidth <= 75
      /\ OwnerWidth \in Nat
  BY WitnessConstants DEF StateArg
<1> DEFINE o == s.owner
           z == <<s.scheme>>
           a == Witnesses!ScriptNum(s.amount)
<1>2. Len(o) <= 255 /\ z \in Seq(Byte) /\ Len(z) <= 255
  BY <1>1
<1>3. a \in Value
  BY <1>1, NumberValue
<1> HIDE DEF z, a
<1>4. o \in Value /\ z \in Value
  BY <1>1, <1>2, ShortValue
<1>5. Witnesses!StateArgs(s) = <<a, o, z>>
  BY Zenon DEF Witnesses!StateArgs, a, z
<1>6. <<a, o, z>> \in Seq(Value)
  BY <1>3, <1>4
<1> QED BY <1>4, <1>5, <1>6 DEF z

(* A claim: index, recipient, amount, siblings, and two states.            *)
LEMMA ControllerBuilt == Witnesses!ControllerWitness => WitnessInv'
<1> SUFFICES ASSUME Witnesses!ControllerWitness PROVE WitnessInv'
  OBVIOUS
<1>1. PICK index \in Indices, amount \in Amounts, reserve \in States, recipient \in States,
           siblings \in Strings, program_1 \in Programs :
        Witnesses!Build(
          <<Witnesses!ScriptNum(index), <<recipient.scheme>>, recipient.owner,
            Witnesses!ScriptNum(amount), siblings>>
              \o Witnesses!StateArgs(reserve) \o Witnesses!StateArgs(recipient)
              \o <<program_1>>, <<>>)
  BY Zenon DEF Witnesses!ControllerWitness
<1> DEFINE x == Witnesses!ScriptNum(index)
           y == Witnesses!ScriptNum(amount)
           z == <<recipient.scheme>>
           a == <<x, z, recipient.owner, y, siblings>>
           b == Witnesses!StateArgs(reserve)
           c == Witnesses!StateArgs(recipient)
           d == <<program_1>>
           all == a \o b \o c \o d
<1>2. x \in Value /\ y \in Value
  <2>1. index \in Nat /\ Fits(index, 8) /\ amount \in Nat /\ Fits(amount, 8)
    BY WitnessConstants
  <2> QED BY <2>1, NumberValue
<1>3. siblings \in Value /\ program_1 \in Value
  BY WitnessConstants
<1>4. z \in Value /\ recipient.owner \in Value /\ c \in Seq(Value) /\ b \in Seq(Value)
  BY StateValues
<1>5. Witnesses!Build(all, <<>>)
  BY <1>1, Zenon
<1> HIDE DEF x, y, z, b, c
<1>6. a \in Seq(Value) /\ d \in Seq(Value)
  BY <1>2, <1>3, <1>4
<1> HIDE DEF a, d
<1>7. all \in Seq(Value)
  BY <1>4, <1>6
<1> HIDE DEF all
<1> QED BY <1>5, <1>7, Built

(* A plain input: its signature.                                           *)
LEMMA PlainBuilt == Witnesses!PlainWitness => WitnessInv'
<1> SUFFICES ASSUME Witnesses!PlainWitness PROVE WitnessInv'
  OBVIOUS
<1>1. PICK signature \in Strings : Witnesses!Build(<<signature>>, <<>>)
  BY Zenon DEF Witnesses!PlainWitness
<1>2. <<signature>> \in Seq(Value)
  BY WitnessConstants
<1> QED BY <1>1, <1>2, Built, Zenon

(* Every witness keeps the invariant.                                      *)
LEMMA WitnessNext ==
    ASSUME WitnessInv, [Witnesses!Next]_witnessVars
    PROVE  WitnessInv'
<1>1. CASE Witnesses!Next
  BY <1>1, TokenBuilt, ControllerBuilt, PlainBuilt, Zenon DEF Witnesses!Next
<1>2. CASE UNCHANGED witnessVars
  BY <1>2, Zenon DEF witnessVars, WitnessInv, OfStates
<1> QED BY <1>1, <1>2

(* What is built from values is read back as those values.                 *)
LEMMA WitnessReads ==
    WitnessInv => /\ Witnesses!ReadsBack /\ Witnesses!PushesMinimal
                  /\ Witnesses!ArraysReadBack
<1> SUFFICES ASSUME WitnessInv
             PROVE  /\ Witnesses!ReadsBack /\ Witnesses!PushesMinimal
                    /\ Witnesses!ArraysReadBack
  OBVIOUS
<1>1. /\ meant \in Seq(Value) /\ witness = Witnesses!PushAll(meant)
      /\ states = <<>> \/ OfStates(meant, states)
  BY Zenon DEF WitnessInv
<1>2. Witnesses!ReadScript(witness) = meant
  BY <1>1, ReadPushes
<1>3. Witnesses!ReadsBack
  BY <1>2, Zenon DEF Witnesses!ReadsBack
<1>4. Witnesses!PushesMinimal
  <2> SUFFICES ASSUME NEW i \in DOMAIN meant, NEW form \in Witnesses!Forms(meant[i]),
                      Witnesses!FirstPush(form).value = meant[i]
               PROVE  Len(Witnesses!Push(meant[i])) <= Len(form)
    BY Zenon DEF Witnesses!PushesMinimal
  <2>1. meant[i] \in Value
    BY <1>1, LenProperties, ElementOfSeq
  <2> QED BY <2>1, PushShortest
<1>5. Witnesses!ArraysReadBack
  <2> SUFFICES ASSUME states # <<>>, NEW i \in DOMAIN states
               PROVE  LET args == Witnesses!ReadScript(witness) IN
                      /\ Witnesses!Unsigned(Witnesses!ElementAt(args[1], i, AmountWidth))
                           = states[i].amount
                      /\ Witnesses!ElementAt(args[2], i, OwnerWidth) = states[i].owner
                      /\ args[3][i] = states[i].scheme
    BY Zenon DEF Witnesses!ArraysReadBack
  <2>1. PICK n \in 1..2 : /\ states \in [1..n -> States]
                          /\ \A k \in 1..3 : meant[k] = Witnesses!TokenArrayArgs(states)[k]
    BY <1>1, Zenon DEF OfStates
  <2> DEFINE args == Witnesses!TokenArrayArgs(states)
  <2>2. /\ Unsigned(Witnesses!ElementAt(args[1], i, AmountWidth)) = states[i].amount
        /\ Witnesses!ElementAt(args[2], i, OwnerWidth) = states[i].owner
        /\ args[3][i] = states[i].scheme
    BY <2>1, ArrayArgs, Zenon DEF Columns
  <2> HIDE DEF args
  <2>3. meant[1] = args[1] /\ meant[2] = args[2] /\ meant[3] = args[3]
    BY <2>1 DEF args
  <2> QED BY <1>2, <2>2, <2>3, WitnessTerms, Zenon
<1> QED BY <1>3, <1>4, <1>5

-------------------------------------------------------------------------------
(* Theorems.                                                               *)

(* The inductive invariant of the four parts together, the tree's aside,   *)
(* which MerkleTreeProofs has. *)
FormatsInv ==
    /\ CanonInv
    /\ part = "template" => TemplateInv
    /\ part = "witness" => WitnessInv

(* It holds at first.                                                      *)
LEMMA FormatsInvInit == FormatsInit => FormatsInv
<1> SUFFICES ASSUME FormatsInit PROVE FormatsInv
  OBVIOUS
<1>1. Canon!Init
  BY Zenon DEF FormatsInit, CanonRests
<1>2. CanonInv
  BY <1>1, CanonInit
<1>3. part = "template" => Templates!Init
  BY DEF FormatsInit
<1>4. part = "witness" => Witnesses!Init
  BY DEF FormatsInit
<1> QED BY <1>2, <1>3, <1>4, TemplateInit, WitnessInit, Zenon DEF FormatsInv

(* At rest the snapshot stays that of the source.                          *)
LEMMA CanonStutters == ASSUME CanonInv, UNCHANGED canonVars PROVE CanonInv'
<1>1. source' = source /\ result' = result
  BY DEF canonVars
<1>2. Canon!FromSource(source)' = Canon!FromSource(source)
  BY <1>1, Zenon
<1> QED BY <1>1, <1>2, Zenon DEF CanonInv

(* A step is of one part, keeps its invariant, and leaves the others at    *)
(* rest.                                                                   *)
LEMMA FormatsInvNext ==
    ASSUME FormatsInv, [FormatsNext]_formatVars
    PROVE  FormatsInv'
<1>1. CanonInv /\ (part = "template" => TemplateInv) /\ (part = "witness" => WitnessInv)
  BY Zenon DEF FormatsInv
<1>2. part' = part
  BY Zenon DEF FormatsNext, formatVars
<1>3. CanonInv'
  <2>1. Canon!Next \/ UNCHANGED canonVars
    BY Zenon DEF FormatsNext, formatVars
  <2> QED BY <1>1, <2>1, CanonNext, CanonStutters
<1>4. part = "template" => TemplateInv'
  <2> SUFFICES ASSUME part = "template" PROVE TemplateInv'
    OBVIOUS
  <2>1. part # "lists" /\ part # "fields" /\ part # "tree" /\ part # "witness"
    OBVIOUS
  <2>2. [Templates!Next]_templateVars
    BY <2>1, Zenon DEF FormatsNext, formatVars
  <2> QED BY <1>1, <2>2, TemplateNext
<1>5. part = "witness" => WitnessInv'
  <2> SUFFICES ASSUME part = "witness" PROVE WitnessInv'
    OBVIOUS
  <2>1. part # "lists" /\ part # "fields" /\ part # "tree" /\ part # "template"
    OBVIOUS
  <2>2. [Witnesses!Next]_witnessVars
    BY <2>1, Zenon DEF FormatsNext, formatVars
  <2> QED BY <1>1, <2>2, WitnessNext
<1> QED BY <1>2, <1>3, <1>4, <1>5, Zenon DEF FormatsInv

(* After any number of declarations, cuts and state changes, and for any   *)
(* witness, the parts keep what their properties rest on.                  *)
THEOREM FormatsInvHolds == FormatsSpec => []FormatsInv
<1> QED BY FormatsInvInit, FormatsInvNext, PTL DEF FormatsSpec

(* from_source accepts exactly the declarations it should, each holder     *)
(* then has one leaf, and the total is their sum.                          *)
THEOREM AcceptedExactlyHolds == FormatsSpec => []AcceptedExactly
<1>1. FormatsInv => AcceptedExactly
  BY CanonExact, Zenon DEF FormatsInv, AcceptedExactly
<1> QED BY <1>1, FormatsInvHolds, PTL

(* Two contexts are equal only when what was declared is.                  *)
THEOREM ContextSaysAllHolds == FormatsSpec => []ContextSaysAll
<1>1. FormatsInv => ContextSaysAll
  BY CanonContext, Zenon DEF FormatsInv, ContextSaysAll
<1> QED BY <1>1, FormatsInvHolds, PTL

(* Listing the holders in another order, spelling a hash in capitals, or   *)
(* declaring the canonical source again changes nothing committed to.      *)
THEOREM SameDeclarationHolds == FormatsSpec => SameDeclarationSameSnapshot
<1>1. FormatsInv /\ (Canon!Shuffle \/ Canon!Respell \/ Canon!Recommit) => result' = result
  <2> SUFFICES ASSUME FormatsInv, Canon!Shuffle \/ Canon!Respell \/ Canon!Recommit
               PROVE  result' = result
    OBVIOUS
  <2>1. CanonInv
    BY Zenon DEF FormatsInv
  <2> QED BY <2>1, ShuffleSame, RespellSame, RecommitSame
<1>2. FormatsInv => [(Canon!Shuffle \/ Canon!Respell \/ Canon!Recommit)
                       => result' = result]_(Canon!vars)
  BY <1>1, Zenon
<1> QED BY <1>2, FormatsInvHolds, PTL
       DEF SameDeclarationSameSnapshot, Canon!SameDeclarationSameSnapshot

(* The one window of a program that a template is cut at is the one the    *)
(* compiler put the state in.                                              *)
THEOREM CutsWhereCompiledHolds == FormatsSpec => []CutsWhereCompiled
<1>1. FormatsInv => CutsWhereCompiled
  BY TemplateCuts, Zenon DEF FormatsInv, CutsWhereCompiled
<1> QED BY <1>1, FormatsInvHolds, PTL

(* The contract reads the state that was last put into the template.       *)
THEOREM ReadsCurrentHolds == FormatsSpec => []ReadsCurrent
<1>1. FormatsInv => ReadsCurrent
  BY TemplateReads, Zenon DEF FormatsInv, ReadsCurrent
<1> QED BY <1>1, FormatsInvHolds, PTL

(* A token program altered in any byte of its state is no other form of a  *)
(* state: what still decodes is the encoding of what it decodes to.        *)
THEOREM DecodesOnlyEncodingsHolds == FormatsSpec => []DecodesOnlyEncodings
<1>1. DecodesOnlyEncodings
  BY TemplateDecodes, Zenon DEF DecodesOnlyEncodings
<1> QED BY <1>1, PTL

(* The engine reads the arguments of a witness of either contract back     *)
(* whole, no push of it has a shorter form, and the array arguments are    *)
(* cut into the states they were made of.                                  *)
THEOREM ReadsBackHolds == FormatsSpec => []ReadsBack
<1>1. FormatsInv => ReadsBack
  BY WitnessReads, Zenon DEF FormatsInv, ReadsBack
<1> QED BY <1>1, FormatsInvHolds, PTL

(* Script numbers keep sign and value, and have no byte to spare.          *)
THEOREM NumbersExactHolds == FormatsSpec => []NumbersExact
<1>1. NumbersExact
  BY NumbersAreExact, Zenon DEF NumbersExact
<1> QED BY <1>1, PTL

(* In the whole each part keeps its own specification; so what             *)
(* MerkleTreeProofs proves of the tree holds of it here.                   *)
THEOREM PartsKeepTheirSpecs == FormatsSpec => Canon!Spec /\ Spec
<1>1. FormatsInit => Canon!Init /\ Init
  BY Zenon DEF FormatsInit, CanonRests, TreeRests
<1>2. [FormatsNext]_formatVars => [Canon!Next]_canonVars /\ [Next]_vars
  BY Zenon DEF FormatsNext, formatVars
<1>3. [Canon!Next]_canonVars => [Canon!Next]_(Canon!vars)
  BY Zenon DEF canonVars, Canon!vars
<1> QED BY <1>1, <1>2, <1>3, PTL DEF FormatsSpec, Canon!Spec, Spec
===============================================================================
