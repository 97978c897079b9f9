--------------------------- MODULE MerkleTreeProofs ---------------------------
(***************************************************************************)
(* Theorems about MerkleTree, for every number of holders.  The tree, a    *)
(* proof and a fold are loops, so each is first shown to be what its loop  *)
(* says; then two facts carry everything else: folding a leaf with a proof *)
(* from a tree gives the root of that tree with the leaf put in, and only  *)
(* the leaf of a tree, with its own siblings, folds to the root.           *)
(***************************************************************************)
EXTENDS MerkleTree, TokenUnitsProofs

(* Powers of two, for the widths in use. *)
LEMMA PowerLoop ==
    /\ PowerOf2[0] = 1
    /\ \A k \in 1..MaxHolders : PowerOf2[k] = 2 * PowerOf2[k-1]
<1> DEFINE Is(g, N) == g = [k \in 0..N |-> IF k = 0 THEN 1 ELSE 2 * g[k-1]]
           S == {N \in Nat : \E g : Is(g, N)}
<1>1. 0 \in S
  <2>1. Is([k \in 0..0 |-> 1], 0)
    OBVIOUS
  <2> QED BY <2>1
<1>2. ASSUME NEW N \in 0..MaxHolders-1, N \in S PROVE N + 1 \in S
  <2>1. PICK g : Is(g, N)
    BY <1>2
  <2> DEFINE h == [k \in 0..N+1 |-> IF k = N + 1 THEN 2 * g[N] ELSE g[k]]
  <2>2. \A k \in 0..N+1 : h[k] = IF k = 0 THEN 1 ELSE 2 * h[k-1]
    <3> SUFFICES ASSUME NEW k \in 0..N+1 PROVE h[k] = IF k = 0 THEN 1 ELSE 2 * h[k-1]
      OBVIOUS
    <3>1. CASE k = N + 1
      BY <3>1, MerkleAssumption
    <3>2. CASE k \in 0..N
      BY <2>1, <3>2
    <3> QED BY <3>1, <3>2
  <2>3. Is(h, N + 1)
    BY <2>2
  <2>4. \E f : Is(f, N + 1)
    BY <2>3
  <2> QED BY <2>4, MerkleAssumption
<1>3. MaxHolders \in S
  <2> HIDE DEF S
  <2> QED BY <1>1, <1>2, InductionTo, MerkleAssumption
<1>4. \E g : Is(g, MaxHolders)
  BY <1>3
<1>5. Is(PowerOf2, MaxHolders)
  BY <1>4 DEF PowerOf2
<1> QED BY <1>5, MerkleAssumption

LEMMA PowerGrows ==
    \A k \in 0..MaxHolders : PowerOf2[k] \in Nat /\ PowerOf2[k] > k
<1> DEFINE S == {k \in Nat : PowerOf2[k] \in Nat /\ PowerOf2[k] > k}
<1>1. 0 \in S
  BY PowerLoop
<1>2. ASSUME NEW k \in 0..MaxHolders-1, k \in S PROVE k + 1 \in S
  <2>1. PowerOf2[k + 1] = 2 * PowerOf2[k]
    BY PowerLoop, MerkleAssumption
  <2> QED BY <1>2, <2>1
<1> HIDE DEF S
<1>3. \A k \in 0..MaxHolders : k \in S
  BY <1>1, <1>2, InductionTo, MerkleAssumption
<1> QED BY <1>3 DEF S

(* The tree is as wide as the holders are many. *)
LEMMA DepthFits ==
    ASSUME NEW n \in 1..MaxHolders
    PROVE  /\ Depth(n) \in 1..MaxHolders
           /\ Width(n) >= n
<1> DEFINE T == {d \in 1..MaxHolders : PowerOf2[d] >= n}
           Is(d) == PowerOf2[d] >= n /\ \A e \in 1..(d - 1) : PowerOf2[e] < n
<1>1. n \in T
  BY PowerGrows, MerkleAssumption
<1>2. PICK d \in T : \A e \in T : d <= e
  <2>1. T \subseteq Nat /\ T # {}
    BY <1>1
  <2> HIDE DEF T
  <2> QED BY <2>1, LeastNat
<1>3. ASSUME NEW e \in 1..(d - 1) PROVE PowerOf2[e] < n
  <2>1. e \in 1..MaxHolders /\ e \notin T
    BY <1>2, MerkleAssumption
  <2>2. PowerOf2[e] \in Nat
    BY <2>1, PowerGrows, MerkleAssumption
  <2> QED BY <2>1, <2>2
<1>4. d \in 1..MaxHolders /\ Is(d)
  BY <1>2, <1>3
<1>5. Depth(n) \in 1..MaxHolders /\ Is(Depth(n))
  <2>1. Depth(n) = CHOOSE k \in 1..MaxHolders : Is(k)
    BY DEF Depth
  <2> HIDE DEF Is
  <2> QED BY <1>4, <2>1
<1> QED BY <1>5 DEF Width

(* The number of positions on each level, from the leaves up. *)
Size(n, d) == PowerOf2[Depth(n) - d]
Levels(n) == 0..Depth(n)

LEMMA Sizes ==
    ASSUME NEW n \in 1..MaxHolders
    PROVE  /\ Depth(n) \in Nat \ {0} /\ Depth(n) - 0 = Depth(n)
           /\ Size(n, 0) = Width(n) /\ Size(n, Depth(n)) = 1
           /\ \A d \in Levels(n) : Size(n, d) \in Nat \ {0}
           /\ \A d \in 1..Depth(n) : Size(n, d-1) = 2 * Size(n, d)
<1>1. Depth(n) \in 1..MaxHolders
  BY DepthFits
<1>2. Depth(n) - 0 = Depth(n) /\ Depth(n) - Depth(n) = 0
  BY <1>1, MerkleAssumption
<1>3. Size(n, 0) = Width(n) /\ Size(n, Depth(n)) = 1
  BY <1>2, PowerLoop DEF Size, Width
<1>4. ASSUME NEW d \in Levels(n) PROVE Size(n, d) \in Nat \ {0}
  <2>1. Depth(n) - d \in 0..MaxHolders
    BY <1>1, MerkleAssumption DEF Levels
  <2> QED BY <2>1, PowerGrows DEF Size
<1>5. ASSUME NEW d \in 1..Depth(n) PROVE Size(n, d-1) = 2 * Size(n, d)
  <2>1. /\ Depth(n) - (d - 1) \in 1..MaxHolders
        /\ Depth(n) - (d - 1) - 1 = Depth(n) - d
    BY <1>1, MerkleAssumption
  <2> QED BY <2>1, PowerLoop DEF Size
<1> QED BY <1>1, <1>2, <1>3, <1>4, <1>5, MerkleAssumption

-------------------------------------------------------------------------------
(* What the three loops compute. *)

LEMMA CursorLoop ==
    ASSUME NEW n \in 1..MaxHolders, NEW index
    PROVE  /\ Cursor(n, index)[0] = index
           /\ \A d \in 1..Depth(n) : Cursor(n, index)[d] = Cursor(n, index)[d-1] \div 2
<1>0. Depth(n) \in Nat \ {0}
  BY Sizes
<1> DEFINE Is(g, N) == g = [k \in 0..N |-> IF k = 0 THEN index ELSE g[k-1] \div 2]
           S == {N \in Nat : \E g : Is(g, N)}
<1>1. 0 \in S
  <2>1. Is([k \in 0..0 |-> index], 0)
    OBVIOUS
  <2> QED BY <2>1
<1>2. ASSUME NEW N \in 0..Depth(n)-1, N \in S PROVE N + 1 \in S
  <2>1. PICK g : Is(g, N)
    BY <1>2
  <2> DEFINE h == [k \in 0..N+1 |-> IF k = N + 1 THEN g[N] \div 2 ELSE g[k]]
  <2>2. ASSUME NEW k \in 0..N+1 PROVE h[k] = IF k = 0 THEN index ELSE h[k-1] \div 2
    <3>1. CASE k = N + 1
      BY <1>0, <3>1
    <3>2. CASE k \in 0..N
      BY <1>0, <2>1, <3>2
    <3> QED BY <1>0, <3>1, <3>2
  <2>3. Is(h, N + 1)
    BY <2>2
  <2>4. \E f : Is(f, N + 1)
    BY <2>3
  <2> QED BY <1>0, <2>4
<1>3. Depth(n) \in S
  <2> HIDE DEF S
  <2> QED BY <1>0, <1>1, <1>2, InductionTo
<1>4. \E g : Is(g, Depth(n))
  BY <1>3
<1>5. Is(Cursor(n, index), Depth(n))
  BY <1>4 DEF Cursor
<1> QED BY <1>0, <1>5

LEMMA LayersLoop ==
    ASSUME NEW n \in 1..MaxHolders, NEW T
    PROVE  /\ Layers(n, T)[0] = T
           /\ \A d \in 1..Depth(n) :
                Layers(n, T)[d] = [j \in 0..Size(n, d)-1 |->
                    Branch(Layers(n, T)[d-1][2*j], Layers(n, T)[d-1][2*j + 1])]
<1>0. Depth(n) \in Nat \ {0}
  BY Sizes
<1> DEFINE Up(layer, d) == [j \in 0..PowerOf2[Depth(n) - d]-1 |->
                              Branch(layer[2*j], layer[2*j + 1])]
           Is(g, N) == g = [d \in 0..N |-> IF d = 0 THEN T ELSE Up(g[d-1], d)]
           S == {N \in Nat : \E g : Is(g, N)}
<1> HIDE DEF Up
<1>1. 0 \in S
  <2>1. Is([d \in 0..0 |-> T], 0)
    OBVIOUS
  <2> QED BY <2>1
<1>2. ASSUME NEW N \in 0..Depth(n)-1, N \in S PROVE N + 1 \in S
  <2>1. PICK g : Is(g, N)
    BY <1>2
  <2> DEFINE h == [d \in 0..N+1 |-> IF d = N + 1 THEN Up(g[N], d) ELSE g[d]]
  <2>2. ASSUME NEW d \in 0..N+1 PROVE h[d] = IF d = 0 THEN T ELSE Up(h[d-1], d)
    <3>1. CASE d = N + 1
      BY <1>0, <3>1
    <3>2. CASE d \in 0..N
      BY <1>0, <2>1, <3>2
    <3> QED BY <1>0, <3>1, <3>2
  <2>3. Is(h, N + 1)
    BY <2>2
  <2>4. \E f : Is(f, N + 1)
    BY <2>3
  <2> QED BY <1>0, <2>4
<1>3. Depth(n) \in S
  <2> HIDE DEF S
  <2> QED BY <1>0, <1>1, <1>2, InductionTo
<1>4. \E g : Is(g, Depth(n))
  BY <1>3
<1>5. Is(Layers(n, T), Depth(n))
  <2>1. Layers(n, T) = CHOOSE g : Is(g, Depth(n))
    BY DEF Layers, Up
  <2> HIDE DEF Is
  <2> QED BY <1>4, <2>1
<1>6. ASSUME NEW d \in 1..Depth(n)
      PROVE  Layers(n, T)[d] = Up(Layers(n, T)[d-1], d)
  BY <1>0, <1>5
<1>7. Layers(n, T)[0] = T
  BY <1>0, <1>5
<1>8. ASSUME NEW d \in 1..Depth(n)
      PROVE  Layers(n, T)[d] = [j \in 0..Size(n, d)-1 |->
                Branch(Layers(n, T)[d-1][2*j], Layers(n, T)[d-1][2*j + 1])]
  BY <1>6 DEF Up, Size
<1> QED BY <1>7, <1>8

LEMMA NodesLoop ==
    ASSUME NEW n \in 1..MaxHolders, NEW start, NEW siblings, NEW index
    PROVE  /\ Nodes(n, start, siblings, index)[0] = start
           /\ \A d \in 1..Depth(n) :
                Nodes(n, start, siblings, index)[d] =
                    IF Cursor(n, index)[d-1] % 2 = 0
                    THEN Branch(Nodes(n, start, siblings, index)[d-1], siblings[d-1])
                    ELSE Branch(siblings[d-1], Nodes(n, start, siblings, index)[d-1])
<1>0. Depth(n) \in Nat \ {0}
  BY Sizes
<1> DEFINE Up(node, d) == IF Cursor(n, index)[d-1] % 2 = 0
                          THEN Branch(node, siblings[d-1])
                          ELSE Branch(siblings[d-1], node)
           Is(g, N) == g = [d \in 0..N |-> IF d = 0 THEN start ELSE Up(g[d-1], d)]
           S == {N \in Nat : \E g : Is(g, N)}
<1> HIDE DEF Up
<1>1. 0 \in S
  <2>1. Is([d \in 0..0 |-> start], 0)
    OBVIOUS
  <2> QED BY <2>1
<1>2. ASSUME NEW N \in 0..Depth(n)-1, N \in S PROVE N + 1 \in S
  <2>1. PICK g : Is(g, N)
    BY <1>2
  <2> DEFINE h == [d \in 0..N+1 |-> IF d = N + 1 THEN Up(g[N], d) ELSE g[d]]
  <2>2. ASSUME NEW d \in 0..N+1 PROVE h[d] = IF d = 0 THEN start ELSE Up(h[d-1], d)
    <3>1. CASE d = N + 1
      BY <1>0, <3>1
    <3>2. CASE d \in 0..N
      BY <1>0, <2>1, <3>2
    <3> QED BY <1>0, <3>1, <3>2
  <2>3. Is(h, N + 1)
    BY <2>2
  <2>4. \E f : Is(f, N + 1)
    BY <2>3
  <2> QED BY <1>0, <2>4
<1>3. Depth(n) \in S
  <2> HIDE DEF S
  <2> QED BY <1>0, <1>1, <1>2, InductionTo
<1>4. \E g : Is(g, Depth(n))
  BY <1>3
<1>5. Is(Nodes(n, start, siblings, index), Depth(n))
  <2>1. Nodes(n, start, siblings, index) = CHOOSE g : Is(g, Depth(n))
    BY DEF Nodes, Up
  <2> HIDE DEF Is
  <2> QED BY <1>4, <2>1
<1>6. Nodes(n, start, siblings, index)[0] = start
  BY <1>0, <1>5
<1>7. ASSUME NEW d \in 1..Depth(n)
      PROVE  Nodes(n, start, siblings, index)[d]
               = Up(Nodes(n, start, siblings, index)[d-1], d)
  BY <1>0, <1>5
<1> QED BY <1>6, <1>7 DEF Up

-------------------------------------------------------------------------------
(* The cursor stays on its level, and an index past the width goes the same*)
(* way as its low bits. *)
LEMMA CursorIn ==
    ASSUME NEW n \in 1..MaxHolders, NEW p \in 0..Width(n)-1
    PROVE  \A d \in Levels(n) : Cursor(n, p)[d] \in 0..Size(n, d)-1
<1> DEFINE S == {d \in Nat : Cursor(n, p)[d] \in 0..Size(n, d)-1}
<1>1. 0 \in S
  BY CursorLoop, Sizes
<1>2. ASSUME NEW d \in 0..Depth(n)-1, d \in S PROVE d + 1 \in S
  <2>1. d + 1 \in 1..Depth(n) /\ d + 1 \in Levels(n) /\ (d + 1) - 1 = d
    BY Sizes DEF Levels
  <2>2. Cursor(n, p)[d + 1] = Cursor(n, p)[d] \div 2
    BY <2>1, CursorLoop
  <2>3. Size(n, d) = 2 * Size(n, d + 1) /\ Size(n, d + 1) \in Nat
    BY <2>1, Sizes
  <2> QED BY <1>2, <2>1, <2>2, <2>3
<1> HIDE DEF S
<1>3. \A d \in 0..Depth(n) : d \in S
  BY <1>1, <1>2, InductionTo, Sizes
<1> QED BY <1>3 DEF S, Levels

(* Past the width, the cursor is past each level by its size, *)
LEMMA CursorPast ==
    ASSUME NEW n \in 1..MaxHolders, NEW p \in 0..Width(n)-1
    PROVE  \A d \in Levels(n) :
             Cursor(n, p + Width(n))[d] = Cursor(n, p)[d] + Size(n, d)
<1> DEFINE S == {d \in Nat : Cursor(n, p + Width(n))[d] = Cursor(n, p)[d] + Size(n, d)}
<1>1. 0 \in S
  BY CursorLoop, Sizes
<1>2. ASSUME NEW d \in 0..Depth(n)-1, d \in S PROVE d + 1 \in S
  <2>1. d + 1 \in 1..Depth(n) /\ d \in Levels(n) /\ d + 1 \in Levels(n) /\ (d + 1) - 1 = d
    BY Sizes DEF Levels
  <2>2. /\ Cursor(n, p)[d + 1] = Cursor(n, p)[d] \div 2
        /\ Cursor(n, p + Width(n))[d + 1] = Cursor(n, p + Width(n))[d] \div 2
    BY <2>1, CursorLoop
  <2>3. Size(n, d) = 2 * Size(n, d + 1) /\ Size(n, d + 1) \in Nat
    BY <2>1, Sizes
  <2>4. Cursor(n, p)[d] \in Nat
    BY <2>1, CursorIn
  <2> QED BY <1>2, <2>2, <2>3, <2>4
<1> HIDE DEF S
<1>3. \A d \in 0..Depth(n) : d \in S
  BY <1>1, <1>2, InductionTo, Sizes
<1> QED BY <1>3 DEF S, Levels

(* which leaves its low bits: the fold takes the same path. *)
LEMMA FoldPast ==
    ASSUME NEW n \in 1..MaxHolders, NEW p \in 0..Width(n)-1, NEW start, NEW siblings
    PROVE  Fold(n, start, siblings, p + Width(n)) = Fold(n, start, siblings, p)
<1> DEFINE far == Nodes(n, start, siblings, p + Width(n))
           near == Nodes(n, start, siblings, p)
           S == {d \in Nat : far[d] = near[d]}
<1>1. 0 \in S
  BY NodesLoop
<1>2. ASSUME NEW d \in 0..Depth(n)-1, d \in S PROVE d + 1 \in S
  <2>1. d + 1 \in 1..Depth(n) /\ d \in Levels(n) /\ d + 1 \in Levels(n) /\ (d + 1) - 1 = d
    BY Sizes DEF Levels
  <2>2. Cursor(n, p + Width(n))[d] % 2 = Cursor(n, p)[d] % 2
    <3>1. Size(n, d) = 2 * Size(n, d + 1) /\ Size(n, d + 1) \in Nat
      BY <2>1, Sizes
    <3>2. Cursor(n, p)[d] \in Nat
      BY <2>1, CursorIn, Sizes
    <3>3. Cursor(n, p + Width(n))[d] = Cursor(n, p)[d] + Size(n, d)
      BY <2>1, CursorPast
    <3> QED BY <3>1, <3>2, <3>3
  <2>3. /\ far[d + 1] = IF Cursor(n, p + Width(n))[d] % 2 = 0
                        THEN Branch(far[d], siblings[d]) ELSE Branch(siblings[d], far[d])
        /\ near[d + 1] = IF Cursor(n, p)[d] % 2 = 0
                         THEN Branch(near[d], siblings[d]) ELSE Branch(siblings[d], near[d])
    BY <2>1, NodesLoop
  <2> HIDE DEF far, near
  <2> QED BY <1>2, <2>2, <2>3
<1> HIDE DEF S
<1>3. \A d \in 0..Depth(n) : d \in S
  BY <1>1, <1>2, InductionTo, Sizes
<1>4. Depth(n) \in S
  BY <1>3, Sizes
<1> QED BY <1>4 DEF S, Fold

(* What a level says of the one below: a node is the branch over its two   *)
(* children, and a position and its sibling are those two. *)
LEMMA Children ==
    ASSUME NEW n \in 1..MaxHolders, NEW T, NEW p \in 0..Width(n)-1,
           NEW d \in 0..Depth(n)-1
    PROVE  LET c == Cursor(n, p)
               L == Layers(n, T)
           IN  /\ d + 1 \in 1..Depth(n)
               /\ c[d] \in 0..Size(n, d)-1 /\ c[d + 1] \in 0..Size(n, d + 1)-1
               /\ Sibling(c[d]) \in 0..Size(n, d)-1 /\ Sibling(c[d]) # c[d]
               /\ L[d + 1][c[d + 1]] = IF c[d] % 2 = 0
                                       THEN Branch(L[d][c[d]], L[d][Sibling(c[d])])
                                       ELSE Branch(L[d][Sibling(c[d])], L[d][c[d]])
               /\ \A j \in 0..Size(n, d + 1)-1 : j # c[d + 1] =>
                    /\ 2*j \in 0..Size(n, d)-1 \ {c[d]}
                    /\ 2*j + 1 \in 0..Size(n, d)-1 \ {c[d]}
<1> DEFINE c == Cursor(n, p)
           L == Layers(n, T)
<1>1. d + 1 \in 1..Depth(n) /\ d \in Levels(n) /\ d + 1 \in Levels(n) /\ (d + 1) - 1 = d
  BY Sizes DEF Levels
<1>2. Size(n, d) = 2 * Size(n, d + 1) /\ Size(n, d + 1) \in Nat \ {0}
  BY <1>1, Sizes
<1>3. c[d] \in 0..Size(n, d)-1 /\ c[d + 1] \in 0..Size(n, d + 1)-1
  BY <1>1, CursorIn
<1>4. c[d + 1] = c[d] \div 2
  BY <1>1, CursorLoop
<1>5. L[d + 1] = [j \in 0..Size(n, d + 1)-1 |-> Branch(L[d][2*j], L[d][2*j + 1])]
  BY <1>1, LayersLoop
<1> HIDE DEF c, L
<1>6. /\ Sibling(c[d]) \in 0..Size(n, d)-1 /\ Sibling(c[d]) # c[d]
      /\ IF c[d] % 2 = 0 THEN 2 * c[d + 1] = c[d] /\ 2 * c[d + 1] + 1 = Sibling(c[d])
                         ELSE 2 * c[d + 1] = Sibling(c[d]) /\ 2 * c[d + 1] + 1 = c[d]
  BY <1>2, <1>3, <1>4 DEF Sibling
<1>7. L[d + 1][c[d + 1]] = Branch(L[d][2 * c[d + 1]], L[d][2 * c[d + 1] + 1])
  BY <1>3, <1>5
<1>8. ASSUME NEW j \in 0..Size(n, d + 1)-1, j # c[d + 1]
      PROVE  /\ 2*j \in 0..Size(n, d)-1 \ {c[d]}
             /\ 2*j + 1 \in 0..Size(n, d)-1 \ {c[d]}
  BY <1>2, <1>3, <1>4, <1>8
<1>9. L[d + 1][c[d + 1]] = IF c[d] % 2 = 0
                           THEN Branch(L[d][c[d]], L[d][Sibling(c[d])])
                           ELSE Branch(L[d][Sibling(c[d])], L[d][c[d]])
  <2>1. CASE c[d] % 2 = 0
    BY <1>6, <1>7, <2>1
  <2>2. CASE c[d] % 2 # 0
    BY <1>6, <1>7, <2>2
  <2> QED BY <2>1, <2>2
<1> QED BY <1>1, <1>3, <1>6, <1>8, <1>9 DEF c, L

-------------------------------------------------------------------------------
IsTree(n, T) == T = [q \in 0..Width(n)-1 |-> T[q]]
Put(T, p, leaf) == [T EXCEPT ![p] = leaf]

(* A fold of any leaf with a proof from a tree is the root of that tree    *)
(* with the leaf put in: the contract, which sees one path, and the        *)
(* harness, which has all leaves, compute the same root.                   *)
LEMMA FoldReplaces ==
    ASSUME NEW n \in 1..MaxHolders, NEW T, IsTree(n, T),
           NEW p \in 0..Width(n)-1, NEW leaf
    PROVE  Fold(n, leaf, Proof(n, T, p), p) = TreeRoot(n, Put(T, p, leaf))
<1> DEFINE c == Cursor(n, p)
           L == Layers(n, T)
           U == Put(T, p, leaf)
           M == Layers(n, U)
           N == Nodes(n, leaf, Proof(n, T, p), p)
           S == {d \in Nat : /\ N[d] = M[d][c[d]]
                             /\ \A j \in 0..Size(n, d)-1 : j # c[d] => M[d][j] = L[d][j]}
<1>1. 0 \in S
  <2>1. N[0] = leaf /\ M[0] = U /\ L[0] = T /\ c[0] = p /\ Size(n, 0) = Width(n)
    BY NodesLoop, LayersLoop, CursorLoop, Sizes
  <2>2. U[p] = leaf /\ \A j \in 0..Width(n)-1 : j # p => U[j] = T[j]
    BY DEF IsTree, Put
  <2> HIDE DEF N, M, L, c, U
  <2> QED BY <2>1, <2>2
<1> HIDE DEF U
<1>2. ASSUME NEW d \in 0..Depth(n)-1, d \in S PROVE d + 1 \in S
  <2>1. /\ d + 1 \in 1..Depth(n) /\ (d + 1) - 1 = d
        /\ Sibling(c[d]) \in 0..Size(n, d)-1 /\ Sibling(c[d]) # c[d]
        /\ M[d + 1][c[d + 1]] = IF c[d] % 2 = 0
                                THEN Branch(M[d][c[d]], M[d][Sibling(c[d])])
                                ELSE Branch(M[d][Sibling(c[d])], M[d][c[d]])
        /\ \A j \in 0..Size(n, d + 1)-1 : j # c[d + 1] =>
             /\ 2*j \in 0..Size(n, d)-1 \ {c[d]}
             /\ 2*j + 1 \in 0..Size(n, d)-1 \ {c[d]}
    <3>1. c[d] = Cursor(n, p)[d] /\ c[d + 1] = Cursor(n, p)[d + 1] /\ M = Layers(n, U)
      OBVIOUS
    <3>2. d + 1 \in 1..Depth(n) /\ (d + 1) - 1 = d
      BY Sizes
    <3> HIDE DEF c, M
    <3> QED BY <3>1, <3>2, Children
  <2>2. N[d + 1] = IF c[d] % 2 = 0 THEN Branch(N[d], Proof(n, T, p)[d])
                                   ELSE Branch(Proof(n, T, p)[d], N[d])
    BY <2>1, NodesLoop
  <2>3. Proof(n, T, p)[d] = L[d][Sibling(c[d])]
    BY DEF Proof
  <2>4. /\ L[d + 1] = [j \in 0..Size(n, d + 1)-1 |-> Branch(L[d][2*j], L[d][2*j + 1])]
        /\ M[d + 1] = [j \in 0..Size(n, d + 1)-1 |-> Branch(M[d][2*j], M[d][2*j + 1])]
    <3>1. d + 1 \in 1..Depth(n) /\ (d + 1) - 1 = d
      BY Sizes
    <3>2. \A V : Layers(n, V)[d + 1] = [j \in 0..Size(n, d + 1)-1 |->
                    Branch(Layers(n, V)[d][2*j], Layers(n, V)[d][2*j + 1])]
      BY <3>1, LayersLoop
    <3> QED BY <3>2
  <2> HIDE DEF N, M, L, c
  <2>5. N[d + 1] = M[d + 1][c[d + 1]]
    BY <1>2, <2>1, <2>2, <2>3
  <2>6. ASSUME NEW j \in 0..Size(n, d + 1)-1, j # c[d + 1] PROVE M[d + 1][j] = L[d + 1][j]
    <3>1. M[d][2*j] = L[d][2*j] /\ M[d][2*j + 1] = L[d][2*j + 1]
      BY <1>2, <2>1, <2>6
    <3> QED BY <2>4, <3>1
  <2> QED BY <2>5, <2>6
<1> HIDE DEF S
<1>3. \A d \in 0..Depth(n) : d \in S
  BY <1>1, <1>2, InductionTo, Sizes
<1>4. N[Depth(n)] = M[Depth(n)][c[Depth(n)]]
  BY <1>3, Sizes DEF S
<1>5. c[Depth(n)] = 0
  <2>1. Depth(n) \in Levels(n) /\ Size(n, Depth(n)) = 1
    BY Sizes DEF Levels
  <2>2. c[Depth(n)] \in 0..1-1
    BY <2>1, CursorIn
  <2> QED BY <2>2
<1> QED BY <1>4, <1>5 DEF Fold, TreeRoot, U

(* Whatever siblings it is folded with, only the leaf at a position of a   *)
(* tree, with the siblings of that position, folds to the root. *)
LEMMA OnlyLeafFolds ==
    ASSUME NEW n \in 1..MaxHolders, NEW T, NEW p \in 0..Width(n)-1,
           NEW leaf, NEW siblings,
           Fold(n, leaf, siblings, p) = TreeRoot(n, T)
    PROVE  /\ leaf = T[p]
           /\ \A d \in 0..Depth(n)-1 : siblings[d] = Proof(n, T, p)[d]
<1> DEFINE c == Cursor(n, p)
           L == Layers(n, T)
           N == Nodes(n, leaf, siblings, p)
           Same(d) == N[d] = L[d][c[d]]
           S == {e \in Nat : Same(Depth(n) - e)}
<1>0. Depth(n) \in Nat \ {0}
  BY Sizes
<1>1. c[Depth(n)] = 0
  <2>1. Depth(n) \in Levels(n) /\ Size(n, Depth(n)) = 1
    BY Sizes DEF Levels
  <2>2. c[Depth(n)] \in 0..1-1
    BY <2>1, CursorIn
  <2> QED BY <2>2
<1>2. Same(Depth(n))
  BY <1>1 DEF Fold, TreeRoot
<1>3. ASSUME NEW d \in 0..Depth(n)-1, Same(d + 1)
      PROVE  Same(d) /\ siblings[d] = Proof(n, T, p)[d]
  <2>1. /\ d + 1 \in 1..Depth(n) /\ (d + 1) - 1 = d
        /\ L[d + 1][c[d + 1]] = IF c[d] % 2 = 0
                                THEN Branch(L[d][c[d]], L[d][Sibling(c[d])])
                                ELSE Branch(L[d][Sibling(c[d])], L[d][c[d]])
    BY Children
  <2>2. N[d + 1] = IF c[d] % 2 = 0 THEN Branch(N[d], siblings[d])
                                   ELSE Branch(siblings[d], N[d])
    BY <2>1, NodesLoop
  <2>3. Proof(n, T, p)[d] = L[d][Sibling(c[d])]
    BY DEF Proof
  <2> HIDE DEF N, L, c
  <2> QED BY <1>3, <2>1, <2>2, <2>3 DEF Branch
<1> HIDE DEF Same
<1>4. 0 \in S
  BY <1>0, <1>2
<1>5. ASSUME NEW e \in 0..Depth(n)-1, e \in S PROVE e + 1 \in S
  <2>1. /\ Depth(n) - (e + 1) \in 0..Depth(n)-1
        /\ (Depth(n) - (e + 1)) + 1 = Depth(n) - e
    BY <1>0
  <2> QED BY <1>3, <1>5, <2>1
<1>6. \A e \in 0..Depth(n) : e \in S
  <2> HIDE DEF S
  <2> QED BY <1>0, <1>4, <1>5, InductionTo
<1>7. ASSUME NEW d \in 0..Depth(n) PROVE Same(d)
  <2>1. Depth(n) - d \in 0..Depth(n) /\ Depth(n) - (Depth(n) - d) = d
    BY <1>0
  <2> QED BY <1>6, <2>1
<1>8. leaf = T[p]
  <2>1. N[0] = leaf /\ L[0] = T /\ c[0] = p
    BY NodesLoop, LayersLoop, CursorLoop
  <2> QED BY <1>0, <1>7, <2>1 DEF Same
<1>9. ASSUME NEW d \in 0..Depth(n)-1 PROVE siblings[d] = Proof(n, T, p)[d]
  BY <1>0, <1>3, <1>7
<1> QED BY <1>8, <1>9

(* Roots are as different as the trees. *)
LEMMA RootsTellTrees ==
    ASSUME NEW n \in 1..MaxHolders,
           NEW T, IsTree(n, T), NEW U, IsTree(n, U),
           TreeRoot(n, T) = TreeRoot(n, U)
    PROVE  T = U
<1>1. ASSUME NEW p \in 0..Width(n)-1 PROVE T[p] = U[p]
  <2>1. Put(T, p, T[p]) = T
    BY DEF IsTree, Put
  <2>2. Fold(n, T[p], Proof(n, T, p), p) = TreeRoot(n, Put(T, p, T[p]))
    BY FoldReplaces
  <2>3. Fold(n, T[p], Proof(n, T, p), p) = TreeRoot(n, U)
    BY <2>1, <2>2
  <2>4. T[p] = U[p] /\ \A d \in 0..Depth(n)-1 : Proof(n, T, p)[d] = Proof(n, U, p)[d]
    BY <2>3, OnlyLeafFolds
  <2> QED BY <2>4
<1> QED BY <1>1 DEF IsTree

-------------------------------------------------------------------------------
(* The invariant. *)

LEMMA PutIn ==
    ASSUME NEW n \in 1..MaxHolders, NEW T, IsTree(n, T),
           NEW i \in 0..Width(n)-1, NEW leaf
    PROVE  /\ IsTree(n, Put(T, i, leaf))
           /\ Put(T, i, leaf)[i] = leaf
           /\ \A q \in 0..Width(n)-1 : q # i => Put(T, i, leaf)[q] = T[q]
           /\ \A other : Put(Put(T, i, other), i, leaf) = Put(T, i, leaf)
BY DEF IsTree, Put

(* A fold with a proof from the tree last seen gives the current root only *)
(* at an entitlement of the current tree, when no other leaf has changed.  *)
LEMMA FoldsToCurrent ==
    ASSUME TreeInv, NEW p \in 0..Width(holders)-1, NEW leaf,
           Fold(holders, leaf, Proof(holders, seen, p), p) = root
    PROVE  leaves = Put(seen, p, leaf)
<1>1. /\ holders \in 1..MaxHolders /\ IsTree(holders, seen) /\ IsTree(holders, leaves)
      /\ root = TreeRoot(holders, leaves)
  BY DEF TreeInv, TypeOK, RootsAgree, IsTree
<1>2. TreeRoot(holders, Put(seen, p, leaf)) = TreeRoot(holders, leaves)
  BY <1>1, FoldReplaces
<1>3. IsTree(holders, Put(seen, p, leaf))
  BY <1>1, PutIn
<1> QED BY <1>1, <1>2, <1>3, RootsTellTrees

LEMMA TreeInvInit == Init => TreeInv
<1> SUFFICES ASSUME Init PROVE TreeInv
  OBVIOUS
<1>1. leaves = FromHolders(holders) /\ seen = leaves /\ holders \in 1..MaxHolders
  BY DEF Init
<1>2. FromHolders(holders) = [p \in 0..Width(holders)-1 |-> FromHolders(holders)[p]]
  BY DEF FromHolders
<1>3. \A p \in 0..Width(holders)-1 : LeafOK(p, FromHolders(holders)[p])
  BY DEF FromHolders, LeafOK
<1> QED BY <1>1, <1>2, <1>3 DEF Init, TreeInv, TypeOK, RootsAgree

LEMMA TreeInvNext == TreeInv /\ [Next]_vars => TreeInv'
<1> SUFFICES ASSUME TreeInv, [Next]_vars PROVE TreeInv'
  OBVIOUS
<1>1. CASE Observe
  BY <1>1 DEF Observe, TreeInv, TypeOK, RootsAgree, LeafOK
<1>2. ASSUME NEW index \in 0..Width(holders)-1, NEW amount \in 1..2, Claim(index, amount)
      PROVE  TreeInv'
  <2>1. /\ holders' = holders /\ seen' = seen
        /\ leaves' = Put(leaves, index, ClaimedLeaf(index))
        /\ root' = Fold(holders, ClaimedLeaf(index), Proof(holders, seen, index), index)
        /\ index < holders
        /\ Fold(holders, EntitlementLeaf(index, amount),
                Proof(holders, seen, index), index) = root
    BY <1>2 DEF Claim, Accepts, Retire, Put
  <2>2. /\ holders \in 1..MaxHolders
        /\ IsTree(holders, seen) /\ IsTree(holders, leaves)
        /\ \A q \in 0..Width(holders)-1 : LeafOK(q, leaves[q]) /\ LeafOK(q, seen[q])
    BY DEF TreeInv, TypeOK, IsTree
  <2>3. leaves = Put(seen, index, EntitlementLeaf(index, amount))
    BY <2>1, FoldsToCurrent
  <2>4. leaves' = Put(seen, index, ClaimedLeaf(index))
    BY <2>1, <2>2, <2>3, PutIn
  <2>5. root' = TreeRoot(holders, leaves')
    BY <2>1, <2>2, <2>4, FoldReplaces
  <2>6. IsTree(holders, leaves')
    BY <2>1, <2>2, PutIn
  <2>7. \A q \in 0..Width(holders)-1 : LeafOK(q, leaves'[q])
    <3>1. LeafOK(index, ClaimedLeaf(index))
      BY <2>1 DEF LeafOK
    <3> QED BY <2>1, <2>2, <3>1, PutIn
  <2> QED BY <2>1, <2>2, <2>5, <2>6, <2>7 DEF TreeInv, TypeOK, RootsAgree, LeafOK, IsTree
<1>3. CASE UNCHANGED vars
  BY <1>3 DEF vars, TreeInv, TypeOK, RootsAgree, LeafOK
<1> QED BY <1>1, <1>2, <1>3 DEF Next

(* The contract, which sees one path of the tree at a time, and the        *)
(* harness, which keeps all its leaves, agree on the root after any number *)
(* of claims, in a tree of any size.                                       *)
THEOREM TreeInvHolds == Spec => []TreeInv
<1> QED BY TreeInvInit, TreeInvNext, PTL DEF Spec

(* Every unclaimed holder has a proof the contract accepts.                *)
THEOREM UnclaimedProvableHolds == Spec => []UnclaimedProvable
<1>1. TreeInv => UnclaimedProvable
  <2> SUFFICES ASSUME TreeInv, NEW i \in Unclaimed
               PROVE  Fold(holders, EntitlementLeaf(i, Owed(i)),
                           Proof(holders, leaves, i), i) = root
    BY DEF UnclaimedProvable
  <2>1. /\ holders \in 1..MaxHolders
        /\ IsTree(holders, leaves)
        /\ root = TreeRoot(holders, leaves)
    BY DEF TreeInv, TypeOK, RootsAgree, IsTree
  <2>2. i \in 0..Width(holders)-1 /\ leaves[i] = EntitlementLeaf(i, Owed(i))
    <3>1. Width(holders) >= holders /\ Width(holders) \in Nat
      BY <2>1, DepthFits, Sizes DEF Levels
    <3> QED BY <2>1, <3>1 DEF Unclaimed
  <2>3. Put(leaves, i, leaves[i]) = leaves
    BY <2>1, <2>2 DEF IsTree, Put
  <2>4. Fold(holders, leaves[i], Proof(holders, leaves, i), i)
          = TreeRoot(holders, Put(leaves, i, leaves[i]))
    BY <2>1, <2>2, FoldReplaces
  <2> QED BY <2>1, <2>2, <2>3, <2>4
<1> QED BY <1>1, TreeInvHolds, PTL

(* Nothing else folds to the root: not a retired or padded position, not   *)
(* another amount, not a proof taken before somebody else's claim, not an  *)
(* index past the width, which goes the way of its low bits.               *)
THEOREM OnlyCurrentEntitlementFoldsHolds == Spec => []OnlyCurrentEntitlementFolds
<1>1. TreeInv => OnlyCurrentEntitlementFolds
  <2> SUFFICES ASSUME TreeInv, NEW p \in 0..Width(holders)-1, NEW amount \in 1..3,
                      NEW index \in {p, p + Width(holders)},
                      Fold(holders, EntitlementLeaf(index, amount),
                           Proof(holders, seen, p), index) = root
               PROVE  /\ index \in Unclaimed
                      /\ amount = Owed(index)
                      /\ \A q \in DOMAIN leaves \ {index} : seen[q] = leaves[q]
    BY DEF OnlyCurrentEntitlementFolds
  <2>1. /\ holders \in 1..MaxHolders
        /\ IsTree(holders, seen) /\ IsTree(holders, leaves)
        /\ LeafOK(p, leaves[p])
    BY DEF TreeInv, TypeOK, IsTree
  <2>2. Fold(holders, EntitlementLeaf(index, amount), Proof(holders, seen, p), p) = root
    <3>1. \A start, siblings : Fold(holders, start, siblings, p + Width(holders))
                                 = Fold(holders, start, siblings, p)
      BY <2>1, FoldPast
    <3>2. CASE index = p
      BY <3>2
    <3>3. CASE index = p + Width(holders)
      BY <3>1, <3>3
    <3> QED BY <3>2, <3>3
  <2>3. leaves = Put(seen, p, EntitlementLeaf(index, amount))
    BY <2>2, FoldsToCurrent
  <2>4. /\ leaves[p] = EntitlementLeaf(index, amount)
        /\ \A q \in 0..Width(holders)-1 : q # p => leaves[q] = seen[q]
    BY <2>1, <2>3, PutIn
  <2>5. p < holders /\ index = p /\ amount = Owed(p)
    BY <2>1, <2>4 DEF LeafOK, EntitlementLeaf, ClaimedLeaf, PaddingLeaf
  <2>6. index \in Unclaimed
    BY <2>1, <2>4, <2>5, MerkleAssumption DEF Unclaimed
  <2>7. DOMAIN leaves = 0..Width(holders)-1
    BY <2>1 DEF IsTree
  <2> QED BY <2>4, <2>5, <2>6, <2>7
<1> QED BY <1>1, TreeInvHolds, PTL

(* SnapshotChain represents a root by the leaves under it: two trees have  *)
(* the same root only when they are equal, and folding a leaf with a proof *)
(* is replacing that leaf.                                                 *)
THEOREM RootIsLeafVectorHolds == Spec => []RootIsLeafVector
<1>1. TreeInv => RootIsLeafVector
  <2> SUFFICES ASSUME TreeInv PROVE RootIsLeafVector
    OBVIOUS
  <2>1. /\ holders \in 1..MaxHolders
        /\ IsTree(holders, seen) /\ IsTree(holders, leaves)
    BY DEF TreeInv, TypeOK, IsTree
  <2>2. TreeRoot(holders, seen) = TreeRoot(holders, leaves) <=> seen = leaves
    BY <2>1, RootsTellTrees
  <2>3. \A i \in 0..Width(holders)-1 : \A leaf :
           Fold(holders, leaf, Proof(holders, seen, i), i)
             = TreeRoot(holders, Put(seen, i, leaf))
    BY <2>1, FoldReplaces
  <2>4. DOMAIN leaves = 0..Width(holders)-1
    BY <2>1 DEF IsTree
  <2> QED BY <2>2, <2>3, <2>4 DEF RootIsLeafVector, Put
<1> QED BY <1>1, TreeInvHolds, PTL

(* No list of siblings at all, honest or not, folds a leaf to the root of  *)
(* a tree unless the leaf is in the tree at that position.                 *)
THEOREM NoForgedProof ==
    ASSUME NEW n \in 1..MaxHolders, NEW T, NEW p \in 0..Width(n)-1,
           NEW leaf, leaf # T[p], NEW siblings
    PROVE  Fold(n, leaf, siblings, p) # TreeRoot(n, T)
<1>1. \A x, s : Fold(n, x, s, p) = TreeRoot(n, T) => x = T[p]
  BY OnlyLeafFolds
<1> QED BY <1>1
===============================================================================
