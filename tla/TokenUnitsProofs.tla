--------------------------- MODULE TokenUnitsProofs ---------------------------
(***************************************************************************)
(* Facts about totals of token amounts, for every finite set and every     *)
(* weight function; and induction, stated of the set of numbers that have  *)
(* a property, for what is computed by a loop.                             *)
(***************************************************************************)
EXTENDS TokenUnits, Integers, FiniteSetTheorems, FunctionTheorems,
        WellFoundedInduction, TLAPS

(* Finitely many holders with finite amounts hold finitely many units: the *)
(* program's loops over holders and cells add up to a number.              *)
LEMMA UnitsFinite ==
    ASSUME NEW S, IsFiniteSet(S), NEW w, \A x \in S : w[x] \in Nat
    PROVE  /\ IsFiniteSet(Units(S, w))
           /\ Weight(S, w) \in Nat
<1> DEFINE U(x) == {x} \X (1..w[x])
           T == {U(x) : x \in S}
           f == [x \in S |-> U(x)]
<1>1. f \in Surjection(S, T)
  BY DEF Surjection
<1>2. IsFiniteSet(T)
  BY <1>1, FS_Surjection
<1>3. \A t \in T : IsFiniteSet(t)
  <2> SUFFICES ASSUME NEW x \in S PROVE IsFiniteSet(U(x))
    OBVIOUS
  <2>1. IsFiniteSet({x})
    BY FS_Singleton
  <2>2. w[x] \in Nat /\ 1 \in Int /\ w[x] \in Int
    OBVIOUS
  <2>3. IsFiniteSet(1..w[x])
    BY <2>2, FS_Interval
  <2> QED BY <2>1, <2>3, FS_Product
<1>4. IsFiniteSet(UNION T)
  BY <1>2, <1>3, FS_UNION
<1>5. Units(S, w) = UNION T
  BY DEF Units
<1> QED BY <1>4, <1>5, FS_CardinalityType DEF Weight

(* Nothing holds no units. *)
LEMMA WeightEmpty == ASSUME NEW w PROVE Weight({}, w) = 0
<1>1. Units({}, w) = {}
  BY DEF Units
<1> QED BY <1>1, FS_EmptySet DEF Weight

(* One holder holds its own amount. *)
LEMMA WeightSingleton ==
    ASSUME NEW x, NEW w, w[x] \in Nat
    PROVE  Weight({x}, w) = w[x]
<1>1. Units({x}, w) = {x} \X (1..w[x])
  BY DEF Units
<1>2. IsFiniteSet({x}) /\ Cardinality({x}) = 1
  BY FS_Singleton
<1>3. IsFiniteSet(1..w[x]) /\ Cardinality(1..w[x]) = w[x]
  <2>1. 1 \in Int /\ w[x] \in Int
    OBVIOUS
  <2>2. /\ IsFiniteSet(1..w[x])
        /\ Cardinality(1..w[x]) = IF 1 > w[x] THEN 0 ELSE w[x] - 1 + 1
    BY <2>1, FS_Interval
  <2> QED BY <2>2
<1>4. Cardinality({x} \X (1..w[x])) = Cardinality({x}) * Cardinality(1..w[x])
  BY <1>2, <1>3, FS_Product
<1>5. Cardinality({x} \X (1..w[x])) = w[x]
  BY <1>2, <1>3, <1>4
<1> QED BY <1>1, <1>5 DEF Weight

(* Separate groups add up. *)
LEMMA WeightUnion ==
    ASSUME NEW A, IsFiniteSet(A), NEW B, IsFiniteSet(B), A \cap B = {},
           NEW w, \A x \in A \cup B : w[x] \in Nat
    PROVE  Weight(A \cup B, w) = Weight(A, w) + Weight(B, w)
<1>1. Units(A \cup B, w) = Units(A, w) \cup Units(B, w)
  BY DEF Units
<1>2. Units(A, w) \cap Units(B, w) = {}
  <2> SUFFICES ASSUME NEW u \in Units(A, w), u \in Units(B, w) PROVE FALSE
    OBVIOUS
  <2>1. PICK a \in A : u \in {a} \X (1..w[a])
    BY DEF Units
  <2>2. PICK b \in B : u \in {b} \X (1..w[b])
    BY DEF Units
  <2>3. u[1] = a /\ u[1] = b
    BY <2>1, <2>2
  <2> QED BY <2>3
<1>3. /\ IsFiniteSet(Units(A, w)) /\ Weight(A, w) \in Nat
      /\ IsFiniteSet(Units(B, w)) /\ Weight(B, w) \in Nat
  BY UnitsFinite
<1>4. Cardinality(Units(A, w) \cup Units(B, w))
        = Cardinality(Units(A, w)) + Cardinality(Units(B, w)) - Cardinality({})
  BY <1>2, <1>3, FS_Union
<1>5. Cardinality({}) = 0
  BY FS_EmptySet
<1>6. Weight(A \cup B, w) = Cardinality(Units(A, w) \cup Units(B, w))
  BY <1>1 DEF Weight
<1>7. /\ Weight(A, w) = Cardinality(Units(A, w))
      /\ Weight(B, w) = Cardinality(Units(B, w))
  BY DEF Weight
<1> QED BY <1>3, <1>4, <1>5, <1>6, <1>7

(* Taking a holder out lowers the total by what it held. *)
LEMMA WeightRemove ==
    ASSUME NEW S, IsFiniteSet(S), NEW x \in S, NEW w, \A y \in S : w[y] \in Nat
    PROVE  /\ Weight(S \ {x}, w) \in Nat
           /\ Weight(S, w) = Weight(S \ {x}, w) + w[x]
<1>1. IsFiniteSet(S \ {x}) /\ IsFiniteSet({x})
  BY FS_RemoveElement, FS_Singleton
<1>2. S = (S \ {x}) \cup {x}
  OBVIOUS
<1>3. Weight((S \ {x}) \cup {x}, w) = Weight(S \ {x}, w) + Weight({x}, w)
  BY <1>1, WeightUnion
<1>4. Weight({x}, w) = w[x]
  BY WeightSingleton
<1>5. Weight(S \ {x}, w) \in Nat
  BY <1>1, UnitsFinite
<1> QED BY <1>2, <1>3, <1>4, <1>5

(* No member holds more than all of them. *)
LEMMA WeightMember ==
    ASSUME NEW S, IsFiniteSet(S), NEW x \in S, NEW w, \A y \in S : w[y] \in Nat
    PROVE  w[x] <= Weight(S, w)
<1>1. w[x] \in Nat
  OBVIOUS
<1>2. /\ Weight(S \ {x}, w) \in Nat
      /\ Weight(S, w) = Weight(S \ {x}, w) + w[x]
  BY WeightRemove
<1> QED BY <1>1, <1>2

(* A smaller group holds no more. *)
LEMMA WeightMonotone ==
    ASSUME NEW S, IsFiniteSet(S), NEW T \in SUBSET S,
           NEW w, \A y \in S : w[y] \in Nat
    PROVE  /\ Weight(T, w) \in Nat
           /\ Weight(S, w) \in Nat
           /\ Weight(T, w) <= Weight(S, w)
<1>1. IsFiniteSet(T)
  BY FS_Subset
<1>2. Units(T, w) \in SUBSET Units(S, w)
  BY DEF Units
<1>3. /\ IsFiniteSet(Units(S, w)) /\ Weight(S, w) \in Nat
      /\ Weight(T, w) \in Nat
  BY <1>1, UnitsFinite
<1> QED BY <1>2, <1>3, FS_Subset DEF Weight

(* Replacing spent inputs by new outputs changes the total by the          *)
(* difference: what conserve relies on.                                    *)
LEMMA WeightReplace ==
    ASSUME NEW S, IsFiniteSet(S), NEW ins \in SUBSET S,
           NEW outs, IsFiniteSet(outs), S \cap outs = {},
           NEW w, \A y \in S \cup outs : w[y] \in Nat,
           Weight(ins, w) = Weight(outs, w)
    PROVE  Weight((S \ ins) \cup outs, w) = Weight(S, w)
<1>1. IsFiniteSet(ins) /\ IsFiniteSet(S \ ins)
  BY FS_Subset
<1>2. S = (S \ ins) \cup ins /\ (S \ ins) \cap ins = {}
  OBVIOUS
<1>3. Weight((S \ ins) \cup ins, w) = Weight(S \ ins, w) + Weight(ins, w)
  BY <1>1, <1>2, WeightUnion
<1>4. (S \ ins) \cap outs = {} /\ \A y \in (S \ ins) \cup outs : w[y] \in Nat
  OBVIOUS
<1>5. Weight((S \ ins) \cup outs, w) = Weight(S \ ins, w) + Weight(outs, w)
  BY <1>1, <1>4, WeightUnion
<1> QED BY <1>2, <1>3, <1>5

(* The total of a pair of different members. *)
LEMMA WeightPair ==
    ASSUME NEW x, NEW y, x # y, NEW w, w[x] \in Nat, w[y] \in Nat
    PROVE  Weight({x, y}, w) = w[x] + w[y]
<1>1. {x, y} = {x} \cup {y} /\ {x} \cap {y} = {}
  OBVIOUS
<1>2. IsFiniteSet({x}) /\ IsFiniteSet({y})
  BY FS_Singleton
<1>3. Weight({x} \cup {y}, w) = Weight({x}, w) + Weight({y}, w)
  BY <1>1, <1>2, WeightUnion
<1> QED BY <1>1, <1>3, WeightSingleton

(* The total only depends on the weights of the members. *)
LEMMA WeightSame ==
    ASSUME NEW S, NEW v, NEW w, \A x \in S : v[x] = w[x]
    PROVE  Weight(S, v) = Weight(S, w)
<1>1. Units(S, v) = Units(S, w)
  BY DEF Units
<1> QED BY <1>1 DEF Weight

(* A pair is finite, and has two members when they differ. *)
LEMMA PairFinite ==
    ASSUME NEW x, NEW y
    PROVE  /\ IsFiniteSet({x, y})
           /\ x # y => Cardinality({x, y}) = 2
<1>1. {x, y} = {x} \cup {y}
  OBVIOUS
<1>2. IsFiniteSet({x}) /\ Cardinality({x}) = 1
  BY FS_Singleton
<1>3. /\ IsFiniteSet({x} \cup {y})
      /\ Cardinality({x} \cup {y}) = IF y \in {x} THEN Cardinality({x})
                                    ELSE Cardinality({x}) + 1
  BY <1>2, FS_AddElement
<1> QED BY <1>1, <1>2, <1>3

-------------------------------------------------------------------------------
(* A set of natural numbers that is not empty has a least member. *)
LEMMA LeastNat ==
    ASSUME NEW T, T \subseteq Nat, T # {}
    PROVE  \E m \in T : \A k \in T : m <= k
<1> DEFINE R == {ss \in Nat \X Nat : ss[1] < ss[2]}
<1>1. IsWellFoundedOn(R, Nat)
  BY NatLessThanWellFounded DEF OpToRel
<1>2. PICK m \in T : \A y \in T : ~(<<y, m>> \in R)
  <2> HIDE DEF R
  <2> QED BY <1>1, WFMin
<1>3. \A y \in T : ~(y < m)
  BY <1>2
<1> QED BY <1>3

(* Induction up to a bound: what is true before a loop, and after each     *)
(* round if it was before, is true after all of them.                      *)
LEMMA InductionTo ==
    ASSUME NEW N \in Nat, NEW S, 0 \in S,
           \A k \in 0..N-1 : k \in S => k + 1 \in S
    PROVE  \A k \in 0..N : k \in S
<1> SUFFICES ASSUME NEW k \in 0..N, k \notin S PROVE FALSE
  OBVIOUS
<1> DEFINE T == {j \in 0..N : j \notin S}
<1>1. PICK m \in T : \A j \in T : m <= j
  <2>1. T \subseteq Nat /\ T # {}
    OBVIOUS
  <2> HIDE DEF T
  <2> QED BY <2>1, LeastNat
<1>2. m # 0 /\ m - 1 \in 0..N-1 /\ m - 1 \notin T
  BY <1>1
<1>3. (m - 1) + 1 \in S
  BY <1>2
<1> QED BY <1>1, <1>3

-------------------------------------------------------------------------------
(* A fold over a finite set that adds up amounts, in whatever order it     *)
(* takes them, gives the total: the community modules' folds are recursive *)
(* functions on the subsets of the set, of this form. *)
Adds(g, S, w) ==
    g = [s \in SUBSET S |-> IF s = {} THEN 0
                            ELSE w[CHOOSE x \in s : TRUE] + g[s \ {CHOOSE x \in s : TRUE}]]

LEMMA AddsExists ==
    ASSUME NEW S, IsFiniteSet(S), NEW w, \A x \in S : w[x] \in Nat
    PROVE  \E g : Adds(g, S, w)
<1> DEFINE g == [s \in SUBSET S |-> Weight(s, w)]
<1>1. ASSUME NEW s \in SUBSET S
      PROVE  g[s] = IF s = {} THEN 0
                    ELSE w[CHOOSE x \in s : TRUE] + g[s \ {CHOOSE x \in s : TRUE}]
  <2>1. CASE s = {}
    BY <2>1, WeightEmpty
  <2>2. CASE s # {}
    <3> DEFINE x == CHOOSE y \in s : TRUE
    <3>1. x \in s
      BY <2>2
    <3> HIDE DEF x
    <3>2. IsFiniteSet(s) /\ \A y \in s : w[y] \in Nat
      BY FS_Subset
    <3>3. Weight(s \ {x}, w) \in Nat /\ Weight(s, w) = Weight(s \ {x}, w) + w[x]
      BY <3>1, <3>2, WeightRemove
    <3>4. g[s] = w[x] + g[s \ {x}]
      BY <3>1, <3>2, <3>3
    <3> QED BY <2>2, <3>4 DEF x
  <2> QED BY <2>1, <2>2
<1>2. Adds(g, S, w)
  BY <1>1 DEF Adds
<1> HIDE DEF g
<1> QED BY <1>2

LEMMA AddsIsWeight ==
    ASSUME NEW S, IsFiniteSet(S), NEW w, \A x \in S : w[x] \in Nat,
           NEW g, Adds(g, S, w)
    PROVE  g[S] = Weight(S, w)
<1> DEFINE Same == {n \in Nat : \A s \in SUBSET S : Cardinality(s) = n => g[s] = Weight(s, w)}
<1>0. \A s \in SUBSET S : IsFiniteSet(s) /\ Cardinality(s) \in Nat
  BY FS_Subset, FS_CardinalityType
<1>1. 0 \in Same
  <2> SUFFICES ASSUME NEW s \in SUBSET S, Cardinality(s) = 0 PROVE g[s] = Weight(s, w)
    OBVIOUS
  <2>1. s = {}
    BY <1>0, FS_EmptySet
  <2> QED BY <2>1, WeightEmpty DEF Adds
<1>2. ASSUME NEW n \in 0..Cardinality(S)-1, n \in Same PROVE n + 1 \in Same
  <2> SUFFICES ASSUME NEW s \in SUBSET S, Cardinality(s) = n + 1 PROVE g[s] = Weight(s, w)
    OBVIOUS
  <2> DEFINE x == CHOOSE y \in s : TRUE
  <2>1. s # {}
    BY FS_EmptySet
  <2>2. x \in s
    BY <2>1
  <2>3. g[s] = w[x] + g[s \ {x}]
    BY <2>1 DEF Adds
  <2> HIDE DEF x
  <2>4. IsFiniteSet(s) /\ \A y \in s : w[y] \in Nat
    BY <1>0
  <2>5. Cardinality(s \ {x}) = n
    <3>1. Cardinality(s \ {x}) = Cardinality(s) - 1
      BY <2>2, <2>4, FS_RemoveElement
    <3> QED BY <3>1
  <2>6. g[s \ {x}] = Weight(s \ {x}, w)
    BY <1>2, <2>5
  <2>7. Weight(s \ {x}, w) \in Nat /\ Weight(s, w) = Weight(s \ {x}, w) + w[x]
    BY <2>2, <2>4, WeightRemove
  <2> QED BY <2>2, <2>3, <2>4, <2>6, <2>7
<1> HIDE DEF Same
<1>3. \A n \in 0..Cardinality(S) : n \in Same
  BY <1>0, <1>1, <1>2, InductionTo
<1>4. Cardinality(S) \in Same
  BY <1>0, <1>3
<1> QED BY <1>4 DEF Same
===============================================================================
