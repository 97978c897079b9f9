------------------------- MODULE ConsoleSessionProofs -------------------------
(***************************************************************************)
(* Theorems about ConsoleSession, for any snapshots, texts, and number of  *)
(* broken and stray connections.  That every state shown tells one story   *)
(* is proved for any number of tabs; that a page which says "ready" shows  *)
(* the present is proved for one tab, and is not so for two.               *)
(***************************************************************************)
EXTENDS ConsoleSession, TokenUnitsProofs, SequenceTheorems

(* The sum over the holders is their total, in any order. *)
Amounts(holders, S) == [i \in S |-> holders[i].amount]

LEMMA WorthIsWeight ==
    ASSUME NEW holders, NEW S, IsFiniteSet(S), \A i \in S : holders[i].amount \in Nat
    PROVE  Worth(holders, S) = Weight(S, Amounts(holders, S))
<1> DEFINE w == Amounts(holders, S)
           Is(g) == g = [s \in SUBSET S |->
                IF s = {} THEN 0
                ELSE holders[CHOOSE x \in s : TRUE].amount + g[s \ {CHOOSE x \in s : TRUE}]]
           sum == CHOOSE g : Is(g)
<1>1. \A i \in S : w[i] \in Nat /\ w[i] = holders[i].amount
  BY DEF Amounts
<1>2. Worth(holders, S) = sum[S]
  BY DEF Worth, MapThenSumSet, MapThenFoldSet
<1> HIDE DEF w
<1>3. ASSUME NEW g PROVE Is(g) <=> Adds(g, S, w)
  <2>1. \A s \in SUBSET S : s # {} => w[CHOOSE x \in s : TRUE] = holders[CHOOSE x \in s : TRUE].amount
    BY <1>1
  <2>2. [s \in SUBSET S |-> IF s = {} THEN 0
            ELSE holders[CHOOSE x \in s : TRUE].amount + g[s \ {CHOOSE x \in s : TRUE}]]
        = [s \in SUBSET S |-> IF s = {} THEN 0
            ELSE w[CHOOSE x \in s : TRUE] + g[s \ {CHOOSE x \in s : TRUE}]]
    BY <2>1
  <2> QED BY <2>2 DEF Adds
<1> HIDE DEF Is
<1>4. \E g : Adds(g, S, w)
  BY <1>1, AddsExists
<1>5. Adds(sum, S, w)
  <2>1. \E g : Is(g)
    BY <1>3, <1>4
  <2>2. Is(sum)
    BY <2>1
  <2> QED BY <1>3, <2>2
<1>6. sum[S] = Weight(S, w)
  <2> HIDE DEF sum
  <2> QED BY <1>1, <1>5, AddsIsWeight
<1> QED BY <1>2, <1>6 DEF w

(* What is left in the reserve when the leaves in c are claimed. *)
Owing(s, c) == [i \in DOMAIN Holders[s] |-> IF i \in c THEN 0 ELSE Holders[s][i].amount]
Left(s, c) == Weight(DOMAIN Holders[s], Owing(s, c))

LEMMA HoldersFinite ==
    ASSUME NEW s \in Snapshots
    PROVE  /\ IsFiniteSet(DOMAIN Holders[s])
           /\ 1 \in DOMAIN Holders[s] /\ DOMAIN Holders[s] \subseteq Nat \ {0}
           /\ \A i \in DOMAIN Holders[s] : Holders[s][i].amount \in Nat
<1>1. Len(Holders[s]) \in Nat \ {0} /\ DOMAIN Holders[s] = 1..Len(Holders[s])
  BY ConsoleAssumption
<1>2. 1 \in Int /\ Len(Holders[s]) \in Int
  BY <1>1
<1>3. IsFiniteSet(1..Len(Holders[s]))
  BY <1>2, FS_Interval
<1> QED BY <1>1, <1>3, ConsoleAssumption

LEMMA LeftIs ==
    ASSUME NEW s \in Snapshots, NEW c
    PROVE  /\ Worth(Root(s, c), DOMAIN Root(s, c)) = Left(s, c)
           /\ Left(s, c) \in Nat
<1> DEFINE D == DOMAIN Holders[s]
<1>1. DOMAIN Root(s, c) = D /\ \A i \in D : Root(s, c)[i].amount = Owing(s, c)[i]
  BY DEF Root, Claimed, Owing
<1>2. IsFiniteSet(D) /\ \A i \in D : Owing(s, c)[i] \in Nat
  BY HoldersFinite DEF Owing
<1> HIDE DEF D
<1>3. Worth(Root(s, c), D) = Weight(D, Amounts(Root(s, c), D))
  BY <1>1, <1>2, WorthIsWeight
<1>4. Weight(D, Amounts(Root(s, c), D)) = Weight(D, Owing(s, c))
  <2>1. \A i \in D : Amounts(Root(s, c), D)[i] = Owing(s, c)[i]
    BY <1>1 DEF Amounts
  <2> QED BY <2>1, WeightSame
<1>5. Weight(D, Owing(s, c)) \in Nat
  BY <1>2, UnitsFinite
<1> QED BY <1>1, <1>3, <1>4, <1>5 DEF D, Left

LEMMA TotalIsLeft == ASSUME NEW s \in Snapshots PROVE Total(s) = Left(s, {})
<1> DEFINE D == DOMAIN Holders[s]
<1>1. IsFiniteSet(D) /\ \A i \in D : Holders[s][i].amount \in Nat
  BY HoldersFinite
<1>2. Total(s) = Weight(D, Amounts(Holders[s], D))
  <2> HIDE DEF D
  <2> QED BY <1>1, WorthIsWeight DEF Total, D
<1>3. \A i \in D : Amounts(Holders[s], D)[i] = Owing(s, {})[i]
  BY DEF Amounts, Owing
<1>4. Weight(D, Amounts(Holders[s], D)) = Weight(D, Owing(s, {}))
  <2> HIDE DEF D
  <2> QED BY <1>3, WeightSame
<1> QED BY <1>2, <1>4 DEF Left

LEMMA LeftAfter ==
    ASSUME NEW s \in Snapshots, NEW c, NEW i \in DOMAIN Holders[s] \ c
    PROVE  Left(s, c \cup {i}) = Left(s, c) - Holders[s][i].amount
<1> DEFINE D == DOMAIN Holders[s]
           v == Owing(s, c)
           w == Owing(s, c \cup {i})
<1>1. /\ IsFiniteSet(D) /\ i \in D /\ v[i] = Holders[s][i].amount /\ w[i] = 0
      /\ v[i] \in Nat
      /\ \A x \in D : v[x] \in Nat /\ w[x] \in Nat
      /\ \A x \in D \ {i} : v[x] = w[x]
  BY HoldersFinite DEF Owing
<1> HIDE DEF D, v, w
<1>2. Weight(D \ {i}, v) \in Nat /\ Weight(D, v) = Weight(D \ {i}, v) + v[i]
  BY <1>1, WeightRemove
<1>3. Weight(D \ {i}, w) \in Nat /\ Weight(D, w) = Weight(D \ {i}, w) + w[i]
  BY <1>1, WeightRemove
<1>4. Weight(D \ {i}, v) = Weight(D \ {i}, w)
  BY <1>1, WeightSame
<1>5. Weight(D, w) = Weight(D, v) - v[i]
  BY <1>1, <1>2, <1>3, <1>4
<1> QED BY <1>1, <1>5 DEF Left, D, v, w

-------------------------------------------------------------------------------
(* The lab: its events are a history of it. *)
Roots == {Root(s, c) : s \in Snapshots, c \in SUBSET Indices}
Events == [kind : {"commit", "claim"}, index : Indices \cup {0},
           before : Roots \cup {<<>>}, after : Roots]

ViewOK(v) ==
    /\ v.snap \in Snapshots /\ v.claimed \subseteq DOMAIN Holders[v.snap]
    /\ TellsOneStory(v)

(* The lab, with the number of claims spelt out. *)
LabOK(l) ==
    /\ l = [snap |-> l.snap, claimed |-> l.claimed, reserve |-> l.reserve,
            events |-> l.events]
    /\ l.snap \in Snapshots /\ l.claimed \subseteq DOMAIN Holders[l.snap]
    /\ l.reserve = Left(l.snap, l.claimed)
    /\ l.events \in Seq(Events) /\ Len(l.events) >= 1
    /\ l.events[Len(l.events)].kind = "commit"
    /\ l.events[Len(l.events)].after = Root(l.snap, {})
    /\ l.events[1].after = Root(l.snap, l.claimed)
    /\ \A e \in 1..Len(l.events)-1 :
          /\ l.events[e].kind = "claim"
          /\ l.events[e].before = l.events[e + 1].after
    /\ l.claimed = {l.events[e].index : e \in 1..Len(l.events)-1}
    /\ IsFiniteSet(l.claimed) /\ Cardinality(l.claimed) = Len(l.events) - 1

LEMMA LabShows == ASSUME NEW l, LabOK(l) PROVE ViewOK(View(l)) /\ l.reserve \in Nat
<1> DEFINE v == View(l)
           n == Len(l.events)
<1>1. /\ v.snap = l.snap /\ v.claimed = l.claimed /\ v.remaining = l.reserve
      /\ v.root = Root(l.snap, l.claimed) /\ v.events = l.events
  BY DEF View
<1>2. n \in Nat \ {0}
  BY LenProperties DEF LabOK
<1>3. {e \in 1..n : v.events[e].kind = "claim"} = 1..(n - 1)
  <2>1. \A e \in 1..n : e = n \/ e \in 1..n-1
    BY <1>2
  <2> QED BY <1>1, <1>2, <2>1 DEF LabOK
<1>4. Cardinality(1..(n - 1)) = n - 1
  <2>1. 1 \in Int /\ n - 1 \in Int
    BY <1>2
  <2>2. Cardinality(1..(n-1)) = IF 1 > n - 1 THEN 0 ELSE (n - 1) - 1 + 1
    BY <2>1, FS_Interval
  <2> QED BY <1>2, <2>2
<1>5. v.remaining = Worth(v.root, DOMAIN v.root) /\ l.reserve \in Nat
  BY <1>1, LeftIs DEF LabOK
<1>6. TellsOneStory(v)
  <2> HIDE DEF v
  <2>1. /\ l.events[n].after = Root(l.snap, {}) /\ l.events[1].after = Root(l.snap, l.claimed)
        /\ \A e \in 1..n-1 : l.events[e].before = l.events[e + 1].after
        /\ l.claimed = {l.events[e].index : e \in 1..n-1}
        /\ Cardinality(l.claimed) = n - 1
    BY DEF LabOK
  <2> DEFINE claims == {e \in 1..Len(v.events) : v.events[e].kind = "claim"}
  <2>2. claims = 1..(n - 1) /\ Len(v.events) = n
    BY <1>1, <1>3
  <2> HIDE DEF claims, n
  <2>3. /\ v.events[n].after = Root(v.snap, {}) /\ v.events[1].after = v.root
        /\ \A e \in claims : v.events[e].before = v.events[e + 1].after
        /\ v.claimed = {v.events[e].index : e \in claims}
        /\ Cardinality({v.events[e].index : e \in claims}) = n - 1
    BY <1>1, <2>1, <2>2
  <2>4. Cardinality(claims) = n - 1
    BY <1>4, <2>2
  <2> QED BY <1>5, <2>2, <2>3, <2>4 DEF TellsOneStory, claims
<1> QED BY <1>1, <1>5, <1>6 DEF ViewOK, LabOK

LEMMA OneEvent ==
    ASSUME NEW E, NEW e \in E
    PROVE  <<e>> \in Seq(E) /\ Len(<<e>>) = 1 /\ <<e>>[1] = e
OBVIOUS

LEMMA NewLabOK == ASSUME NEW s \in Snapshots PROVE LabOK(NewLab(s))
<1> DEFINE l == NewLab(s)
           e == [kind |-> "commit", index |-> 0, before |-> <<>>, after |-> Root(s, {})]
<1>1. /\ l = [snap |-> l.snap, claimed |-> l.claimed, reserve |-> l.reserve,
              events |-> l.events]
      /\ l.snap = s /\ l.claimed = {} /\ l.reserve = Total(s) /\ l.events = <<e>>
  BY DEF NewLab
<1>2. e \in Events
  BY DEF Events, Roots
<1>3. /\ e.kind = "commit" /\ e.after = Root(s, {})
  OBVIOUS
<1>4. l.reserve = Left(s, {})
  BY <1>1, TotalIsLeft
<1>5. IsFiniteSet({}) /\ Cardinality({}) = 0
  BY FS_EmptySet
<1> HIDE DEF l, e
<1>6. l.events \in Seq(Events) /\ Len(l.events) = 1 /\ l.events[1] = e
  BY <1>1, <1>2, OneEvent
<1> QED BY <1>1, <1>3, <1>4, <1>5, <1>6 DEF LabOK, l

LEMMA AfterClaimOK ==
    ASSUME NEW l, LabOK(l), NEW i, Claimable(l, i)
    PROVE  LabOK(AfterClaim(l, i))
<1> DEFINE m == AfterClaim(l, i)
           claimed == l.claimed \cup {i}
           ev == [kind |-> "claim", index |-> i, before |-> Root(l.snap, l.claimed),
                  after |-> Root(l.snap, claimed)]
           n == Len(l.events)
<1>1. /\ l.snap \in Snapshots /\ l.claimed \subseteq DOMAIN Holders[l.snap]
      /\ i \in DOMAIN Holders[l.snap] \ l.claimed /\ l.events \in Seq(Events)
      /\ n \in Nat \ {0}
  BY LenProperties DEF LabOK, Claimable
<1>2. /\ m = [snap |-> m.snap, claimed |-> m.claimed, reserve |-> m.reserve,
              events |-> m.events]
      /\ m.snap = l.snap /\ m.claimed = claimed
      /\ m.reserve = l.reserve - Holders[l.snap][i].amount
      /\ m.events = <<ev>> \o l.events
  <2> DEFINE r == l.reserve - Holders[l.snap][i].amount
             evs == <<ev>> \o l.events
  <2>1. m = [l EXCEPT !.claimed = claimed, !.reserve = r, !.events = evs]
    BY DEF AfterClaim
  <2>2. l = [snap |-> l.snap, claimed |-> l.claimed, reserve |-> l.reserve,
             events |-> l.events]
    BY DEF LabOK
  <2> HIDE DEF m, r, evs, claimed
  <2>3. m = [snap |-> l.snap, claimed |-> claimed, reserve |-> r, events |-> evs]
    BY <2>1, <2>2
  <2> QED BY <2>3 DEF r, evs
<1>3. ev \in Events
  <2>1. l.claimed \in SUBSET Indices /\ claimed \in SUBSET Indices /\ i \in Indices
    BY <1>1 DEF Indices
  <2>2. Root(l.snap, l.claimed) \in Roots /\ Root(l.snap, claimed) \in Roots
    <3> HIDE DEF claimed
    <3>1. l.snap \in Snapshots
      BY <1>1
    <3>2. \A c \in SUBSET Indices : \E s \in Snapshots, d \in SUBSET Indices :
             Root(l.snap, c) = Root(s, d)
      BY <3>1
    <3> QED BY <2>1, <3>2 DEF Roots
  <2> QED BY <2>1, <2>2 DEF Events
<1>4. /\ ev.kind = "claim" /\ ev.index = i /\ ev.before = Root(l.snap, l.claimed)
      /\ ev.after = Root(l.snap, claimed)
  OBVIOUS
<1>5. m.reserve = Left(m.snap, claimed)
  <2>1. l.reserve = Left(l.snap, l.claimed)
    BY DEF LabOK
  <2>2. Left(l.snap, claimed) = Left(l.snap, l.claimed) - Holders[l.snap][i].amount
    BY <1>1, LeftAfter
  <2> QED BY <1>2, <2>1, <2>2
<1>6. IsFiniteSet(claimed) /\ Cardinality(claimed) = n
  <2>1. IsFiniteSet(l.claimed) /\ Cardinality(l.claimed) = n - 1 /\ i \notin l.claimed
    BY <1>1 DEF LabOK
  <2>2. IsFiniteSet(claimed) /\ Cardinality(claimed) = Cardinality(l.claimed) + 1
    <3> HIDE DEF n
    <3> QED BY <2>1, FS_AddElement
  <2> QED BY <1>1, <2>1, <2>2
<1> HIDE DEF m, ev, claimed, n
<1>7. /\ m.events \in Seq(Events) /\ Len(m.events) = n + 1
      /\ m.events[1] = ev /\ \A e \in 1..n : m.events[e + 1] = l.events[e]
  <2>1. <<ev>> \in Seq(Events) /\ Len(<<ev>>) = 1 /\ <<ev>>[1] = ev
    BY <1>3, OneEvent
  <2>2. /\ <<ev>> \o l.events \in Seq(Events)
        /\ Len(<<ev>> \o l.events) = Len(<<ev>>) + Len(l.events)
        /\ \A e \in 1..Len(<<ev>>) + Len(l.events) :
              (<<ev>> \o l.events)[e] = IF e <= Len(<<ev>>) THEN <<ev>>[e]
                                        ELSE l.events[e - Len(<<ev>>)]
    BY <1>1, <2>1, ConcatProperties
  <2>3. Len(m.events) = 1 + n /\ \A e \in 1..1 + n :
           m.events[e] = IF e <= 1 THEN ev ELSE l.events[e - 1]
    <3>1. \A e \in 1..1 + n : e <= 1 => e = 1
      BY <1>1
    <3> QED BY <1>2, <2>1, <2>2, <3>1 DEF n
  <2>4. \A e \in 1..n : m.events[e + 1] = l.events[e]
    <3>1. \A e \in 1..n : e + 1 \in 1..1 + n /\ ~(e + 1 <= 1) /\ (e + 1) - 1 = e
      BY <1>1
    <3> QED BY <2>3, <3>1
  <2>5. 1 \in 1..1 + n /\ 1 + n = n + 1
    BY <1>1
  <2>6. m.events \in Seq(Events)
    BY <1>2, <2>2
  <2>7. m.events[1] = ev
    BY <2>3, <2>5
  <2> QED BY <2>3, <2>4, <2>5, <2>6, <2>7
<1>8. /\ l.events[n].kind = "commit" /\ l.events[n].after = Root(l.snap, {})
      /\ l.events[1].after = Root(l.snap, l.claimed)
      /\ \A e \in 1..n-1 :
           l.events[e].kind = "claim" /\ l.events[e].before = l.events[e + 1].after
      /\ l.claimed = {l.events[e].index : e \in 1..n-1}
  BY DEF LabOK, n
<1>9. m.events[n + 1].kind = "commit" /\ m.events[n + 1].after = Root(m.snap, {})
  <2>1. n \in 1..n
    BY <1>1
  <2>2. m.events[n + 1] = l.events[n]
    BY <1>7, <2>1
  <2> QED BY <1>2, <1>8, <2>2
<1>10. ASSUME NEW e \in 1..n
       PROVE  m.events[e].kind = "claim" /\ m.events[e].before = m.events[e + 1].after
  <2>1. CASE e = 1
    BY <1>1, <1>4, <1>7, <1>8, <2>1
  <2>2. CASE e \in 2..n
    <3> DEFINE d == e - 1
    <3>1. d \in 1..n-1 /\ e = d + 1 /\ d + 1 \in 1..n
      BY <1>1, <2>2
    <3> HIDE DEF d
    <3>2. m.events[d + 1] = l.events[d] /\ m.events[(d + 1) + 1] = l.events[d + 1]
      BY <1>1, <1>7, <3>1
    <3> QED BY <1>8, <3>1, <3>2
  <2> QED BY <1>1, <2>1, <2>2
<1>11. claimed = {m.events[e].index : e \in 1..n}
  <2>1. ASSUME NEW x \in claimed PROVE \E e \in 1..n : x = m.events[e].index
    <3>1. CASE x = i
      BY <1>1, <1>4, <1>7, <3>1
    <3>2. CASE x \in l.claimed
      <4>1. PICK d \in 1..n-1 : x = l.events[d].index
        BY <1>8, <3>2
      <4>2. d + 1 \in 1..n /\ m.events[d + 1] = l.events[d]
        BY <1>1, <1>7
      <4> QED BY <4>1, <4>2
    <3> QED BY <3>1, <3>2 DEF claimed
  <2>2. ASSUME NEW e \in 1..n PROVE m.events[e].index \in claimed
    <3>1. CASE e = 1
      BY <1>4, <1>7, <3>1 DEF claimed
    <3>2. CASE e \in 2..n
      <4> DEFINE d == e - 1
      <4>1. d \in 1..n-1 /\ e = d + 1 /\ d \in 1..n
        BY <1>1, <3>2
      <4> HIDE DEF d
      <4>2. m.events[d + 1] = l.events[d]
        BY <1>7, <4>1
      <4> QED BY <1>8, <4>1, <4>2 DEF claimed
    <3> QED BY <1>1, <3>1, <3>2
  <2> QED BY <2>1, <2>2
<1>12. claimed \subseteq DOMAIN Holders[l.snap]
  BY <1>1 DEF claimed
<1>13. Len(m.events) - 1 = n /\ Len(m.events) >= 1
  BY <1>1, <1>7
<1>14. m.events[1].after = Root(m.snap, m.claimed)
  BY <1>2, <1>4, <1>7
<1>15. LabOK(m)
  BY <1>1, <1>2, <1>5, <1>6, <1>7, <1>9, <1>10, <1>11, <1>12, <1>13, <1>14 DEF LabOK
<1> QED BY <1>15 DEF m

-------------------------------------------------------------------------------
(* The invariant: the lab, every answer on its way and every page tell one *)
(* story.  ConsoleInv alone says nothing of the lab and the answers, where *)
(* what a page shows next comes from. *)
Requests == [tab : Tabs \cup {Nobody},
             op : {"state", "snapshot", "reset", "claim", "unreadable"},
             arg : Texts \cup Indices \cup {Nobody}, header : BOOLEAN]

AnswerOK(as) ==
    /\ as = {} \/ \E a : as = {a}
    /\ \A a \in as : \A v \in a.view : ViewOK(v)

PageOK(p) ==
    /\ p \in [data : {p.data}, selected : Indices \cup {0}, editor : Texts,
              conn : {"reading", "ready", "error"},
              phase : {"start", "idle", "post", "load", "recover"}]
    /\ p.data = {} \/ \E v : p.data = {v}
    /\ \A v \in p.data : ViewOK(v)

Answers == answer = [t \in Tabs |-> answer[t]] /\ \A t \in Tabs : AnswerOK(answer[t])
Pages == page = [t \in Tabs |-> page[t]] /\ \A t \in Tabs : PageOK(page[t])

IInv ==
    /\ LabOK(lab) /\ backlog \in Seq(Requests) /\ Answers /\ Pages
    /\ lost \in 0..MaxLost /\ strays \in 0..MaxStrays

LEMMA TypedInRequests ==
    ASSUME NEW t \in Tabs \cup {Nobody}
    PROVE  /\ StateRequest(t) \in Requests
           /\ \A op \in {"snapshot", "reset", "claim", "unreadable"} :
              \A arg \in Texts \cup Indices \cup {Nobody} : \A h \in BOOLEAN :
                 Request(t, op, arg, h) \in Requests
BY DEF Requests, Request, StateRequest

LEMMA InitIInv == Init => IInv
<1> SUFFICES ASSUME Init PROVE IInv
  OBVIOUS
<1>1. LabOK(lab)
  BY NewLabOK, ConsoleAssumption DEF Init
<1>2. backlog \in Seq(Requests)
  <2>1. PICK order \in [1..Cardinality(Tabs) -> Tabs] :
           backlog = [i \in DOMAIN order |-> StateRequest(order[i])]
    BY DEF Init
  <2>2. Cardinality(Tabs) \in Nat
    BY ConsoleAssumption, FS_CardinalityType
  <2>3. \A i \in 1..Cardinality(Tabs) : StateRequest(order[i]) \in Requests
    BY TypedInRequests
  <2>4. backlog \in [1..Cardinality(Tabs) -> Requests]
    BY <2>1, <2>3
  <2> QED BY <2>2, <2>4, SeqDef
<1>3. Answers
  BY DEF Init, Answers, AnswerOK
<1>4. Pages
  <2>1. PageOK(NewPage)
    BY ConsoleAssumption DEF NewPage, PageOK, Texts
  <2> QED BY <2>1 DEF Init, Pages
<1>5. lost \in 0..MaxLost /\ strays \in 0..MaxStrays
  BY ConsoleAssumption DEF Init
<1> QED BY <1>1, <1>2, <1>3, <1>4, <1>5 DEF IInv

LEMMA AnswersKeep ==
    ASSUME IInv, NEW t \in Tabs \cup {Nobody}, NEW ok, NEW view,
           \A v \in view : ViewOK(v), Answer(t, ok, view)
    PROVE  Answers'
<1>1. AnswerOK({[ok |-> ok, view |-> view]})
  BY DEF AnswerOK
<1>2. CASE t = Nobody
  BY <1>2 DEF IInv, Answers, Answer
<1>3. CASE t # Nobody
  <2> DEFINE a == {[ok |-> ok, view |-> view]}
  <2>1. answer' = [answer EXCEPT ![t] = a] /\ t \in Tabs
    BY <1>3 DEF Answer
  <2> HIDE DEF a
  <2> QED BY <1>1, <2>1 DEF IInv, Answers, a
<1> QED BY <1>2, <1>3

(* Emptying an answer, which a page does when it has read it. *)
LEMMA AnswersRead ==
    ASSUME IInv, NEW t \in Tabs, answer' = [answer EXCEPT ![t] = {}]
    PROVE  Answers'
<1>1. AnswerOK({})
  BY DEF AnswerOK
<1> QED BY <1>1 DEF IInv, Answers

(* The ways in which a page changes without being shown a view. *)
LEMMA PageChanges ==
    ASSUME NEW p, PageOK(p)
    PROVE  /\ PageOK([p EXCEPT !.phase = "post"])
           /\ \A s \in Indices \cup {0} : PageOK([p EXCEPT !.selected = s])
           /\ \A e \in Texts : PageOK([p EXCEPT !.editor = e])
           /\ \A f \in {"load", "recover"} :
                PageOK([p EXCEPT !.phase = f, !.conn = "reading"])
           /\ \A e \in Texts :
                PageOK([p EXCEPT !.phase = "idle", !.conn = "error", !.editor = e])
<1> DEFINE R == [data : {p.data}, selected : Indices \cup {0}, editor : Texts,
                 conn : {"reading", "ready", "error"},
                 phase : {"start", "idle", "post", "load", "recover"}]
<1>1. p \in R
  BY DEF PageOK
<1>2. ASSUME NEW q \in R PROVE PageOK(q)
  <2>1. q.data = p.data
    OBVIOUS
  <2> QED BY <2>1 DEF PageOK
<1>3. ASSUME NEW e \in Texts
      PROVE  [p EXCEPT !.phase = "idle", !.conn = "error", !.editor = e] \in R
  BY <1>1
<1>4. ASSUME NEW f \in {"load", "recover"}
      PROVE  [p EXCEPT !.phase = f, !.conn = "reading"] \in R
  BY <1>1
<1>5. /\ [p EXCEPT !.phase = "post"] \in R
      /\ \A s \in Indices \cup {0} : [p EXCEPT !.selected = s] \in R
      /\ \A e \in Texts : [p EXCEPT !.editor = e] \in R
  BY <1>1
<1> HIDE DEF R
<1> QED BY <1>2, <1>3, <1>4, <1>5

LEMMA PagesKeep ==
    ASSUME IInv, NEW t \in Tabs, NEW q, PageOK(q), page' = [page EXCEPT ![t] = q]
    PROVE  Pages'
BY DEF IInv, Pages

LEMMA ServeHead ==
    ASSUME IInv, backlog # <<>>
    PROVE  /\ Head(backlog) \in Requests /\ Tail(backlog) \in Seq(Requests)
           /\ Head(backlog).tab \in Tabs \cup {Nobody}
<1>1. Head(backlog) \in Requests /\ Tail(backlog) \in Seq(Requests)
  BY HeadTailProperties DEF IInv
<1> QED BY <1>1 DEF Requests

(* Whatever the server does with a connection. *)
LEMMA ServeStep ==
    ASSUME IInv, Serve
    PROVE  /\ backlog # <<>> /\ Served
           /\ \/ lab' = lab
              \/ Local /\ \E s \in Snapshots : lab' = NewLab(s)
              \/ Local /\ \E i : Claimable(lab, i) /\ lab' = AfterClaim(lab, i)
           /\ \/ answer' = answer
              \/ \E ok : Answer(Head(backlog).tab, ok, {})
              \/ Answer(Head(backlog).tab, TRUE, {View(lab)}) /\ lab' = lab
BY ConsoleAssumption
   DEF Serve, ServeState, ServeSnapshot, RefuseSnapshot, ServeReset, ServeClaim,
       RefuseClaim, RefuseRequest, Handles, Served

LEMMA ServeIInv == ASSUME IInv, Serve PROVE IInv'
<1>1. backlog # <<>> /\ Served
  BY ServeStep
<1>2. Head(backlog).tab \in Tabs \cup {Nobody} /\ Tail(backlog) \in Seq(Requests)
  BY <1>1, ServeHead
<1>3. LabOK(lab')
  <2>1. \/ lab' = lab \/ \E s \in Snapshots : lab' = NewLab(s)
        \/ \E i : Claimable(lab, i) /\ lab' = AfterClaim(lab, i)
    BY ServeStep
  <2> QED BY <2>1, NewLabOK, AfterClaimOK DEF IInv
<1>4. Answers'
  <2>1. \A v \in {View(lab)} : ViewOK(v)
    BY LabShows DEF IInv
  <2>2. CASE answer' = answer
    BY <2>2 DEF IInv, Answers
  <2>3. ASSUME NEW ok, Answer(Head(backlog).tab, ok, {}) PROVE Answers'
    BY <1>2, <2>3, AnswersKeep
  <2>4. CASE Answer(Head(backlog).tab, TRUE, {View(lab)})
    BY <1>2, <2>1, <2>4, AnswersKeep
  <2> QED BY <2>2, <2>3, <2>4, ServeStep
<1> QED BY <1>1, <1>2, <1>3, <1>4 DEF IInv, Served, Pages

(* What a page sends joins the backlog. *)
LEMMA AppendKeeps ==
    ASSUME IInv, NEW r \in Requests
    PROVE  Append(backlog, r) \in Seq(Requests)
BY DEF IInv

LEMMA PostIInv ==
    ASSUME IInv, NEW t \in Tabs, NEW op \in {"snapshot", "reset", "claim"},
           NEW arg \in Texts \cup Indices \cup {Nobody}, Post(t, op, arg)
    PROVE  IInv'
<1> DEFINE q == [page[t] EXCEPT !.phase = "post"]
<1>1. Request(t, op, arg, TRUE) \in Requests
  BY TypedInRequests
<1>2. backlog' \in Seq(Requests)
  BY <1>1, AppendKeeps DEF Post
<1>3. PageOK(page[t])
  BY DEF IInv, Pages
<1>4. PageOK(q)
  BY <1>3, PageChanges
<1>5. page' = [page EXCEPT ![t] = q]
  BY DEF Post
<1> HIDE DEF q
<1>6. Pages'
  BY <1>4, <1>5, PagesKeep
<1> QED BY <1>2, <1>6 DEF Post, IInv, Answers

LEMMA TypeIInv == ASSUME IInv, NEW t \in Tabs, NEW x \in Typed, Type(t, x) PROVE IInv'
<1> DEFINE q == [page[t] EXCEPT !.editor = x]
<1>1. PageOK(page[t])
  BY DEF IInv, Pages
<1>2. x \in Texts
  BY ConsoleAssumption DEF Texts
<1>3. PageOK(q)
  BY <1>1, <1>2, PageChanges
<1>4. page' = [page EXCEPT ![t] = q]
  BY DEF Type
<1> HIDE DEF q
<1>5. Pages'
  BY <1>3, <1>4, PagesKeep
<1> QED BY <1>5 DEF Type, IInv, Answers

LEMMA SelectIInv ==
    ASSUME IInv, NEW t \in Tabs, NEW i \in Indices, Select(t, i) PROVE IInv'
<1> DEFINE q == [page[t] EXCEPT !.selected = i]
<1>1. PageOK(page[t])
  BY DEF IInv, Pages
<1>2. PageOK(q)
  BY <1>1, PageChanges
<1>3. page' = [page EXCEPT ![t] = q]
  BY DEF Select
<1> HIDE DEF q
<1>4. Pages'
  BY <1>2, <1>3, PagesKeep
<1> QED BY <1>4 DEF Select, IInv, Answers

LEMMA PostAnsweredIInv == ASSUME IInv, NEW t \in Tabs, PostAnswered(t) PROVE IInv'
<1>1. PICK a \in answer[t] :
         page' = [page EXCEPT ![t].phase = IF a.ok THEN "load" ELSE "recover",
                              ![t].conn = "reading"]
  BY DEF PostAnswered
<1> DEFINE q == [page[t] EXCEPT !.phase = IF a.ok THEN "load" ELSE "recover",
                                !.conn = "reading"]
<1>2. PageOK(page[t])
  BY DEF IInv, Pages
<1>3. PageOK(q)
  <2>1. (IF a.ok THEN "load" ELSE "recover") \in {"load", "recover"}
    OBVIOUS
  <2> QED BY <1>2, <2>1, PageChanges
<1>4. page' = [page EXCEPT ![t] = q]
  BY <1>1 DEF IInv, Pages
<1> HIDE DEF q
<1>5. Pages'
  BY <1>3, <1>4, PagesKeep
<1>6. Answers' /\ backlog' \in Seq(Requests)
  <2>1. StateRequest(t) \in Requests
    BY TypedInRequests
  <2> QED BY <2>1, AppendKeeps, AnswersRead DEF PostAnswered
<1> QED BY <1>5, <1>6 DEF PostAnswered, IInv

(* What a page shows of a view is a page. *)
LEMMA ShownOK ==
    ASSUME NEW p, PageOK(p), NEW v, ViewOK(v), NEW sync \in BOOLEAN
    PROVE  PageOK(Shown(p, v, sync))
<1> DEFINE D == DOMAIN Holders[v.snap]
           open == D \ v.claimed
           q == Shown(p, v, sync)
<1>1. v.snap \in Snapshots /\ p.selected \in Indices \cup {0} /\ p.editor \in Texts
  BY DEF ViewOK, PageOK
<1>2. 1 \in D /\ D \subseteq Nat /\ D \subseteq Indices
  BY <1>1, HoldersFinite DEF Indices
<1> HIDE DEF D
<1>3. open # {} => Min(open) \in open
  <2> SUFFICES ASSUME open # {} PROVE Min(open) \in open
    OBVIOUS
  <2>1. open \subseteq Nat
    BY <1>2
  <2> HIDE DEF open
  <2>2. \E m \in open : \A k \in open : m <= k
    BY <2>1, LeastNat
  <2> QED BY <2>2 DEF Min
<1>4. q.selected \in Indices \cup {0}
  <2>1. q.selected = CASE p.selected \in D -> p.selected
                       [] open # {} -> Min(open)
                       [] OTHER -> 1
    BY DEF Shown, D
  <2>2. CASE p.selected \in D /\ open # {}
    BY <1>1, <1>2, <1>3, <2>1, <2>2
  <2>3. CASE p.selected \notin D /\ open # {}
    BY <1>2, <1>3, <2>1, <2>3
  <2>4. CASE open = {}
    BY <1>1, <1>2, <2>1, <2>4
  <2> QED BY <2>2, <2>3, <2>4
<1>5. /\ q = [data |-> q.data, selected |-> q.selected, editor |-> q.editor,
              conn |-> q.conn, phase |-> q.phase]
      /\ q.data = {v} /\ q.editor = IF sync THEN v.snap ELSE p.editor
      /\ q.conn = "ready" /\ q.phase = "idle"
  BY DEF Shown
<1>6. q.editor \in Texts
  <2>1. v.snap \in Texts
    BY <1>1 DEF Texts
  <2> QED BY <1>1, <1>5, <2>1
<1> HIDE DEF q
<1>7. PageOK(q)
  BY <1>4, <1>5, <1>6 DEF PageOK
<1> QED BY <1>7 DEF q

LEMMA StateAnsweredIInv == ASSUME IInv, NEW t \in Tabs, StateAnswered(t) PROVE IInv'
<1>1. \E a \in answer[t] : \E v \in a.view :
         page' = [page EXCEPT ![t] = Shown(@, v, @.phase # "recover")]
  BY DEF StateAnswered
<1>2. PICK a \in answer[t] : \E v \in a.view :
         page' = [page EXCEPT ![t] = Shown(page[t], v, page[t].phase # "recover")]
  BY <1>1
<1>3. PICK v \in a.view :
         page' = [page EXCEPT ![t] = Shown(page[t], v, page[t].phase # "recover")]
  BY <1>2
<1>4. PageOK(page[t]) /\ ViewOK(v)
  BY DEF IInv, Pages, Answers, AnswerOK
<1>5. PageOK(Shown(page[t], v, page[t].phase # "recover"))
  BY <1>4, ShownOK
<1>6. Pages'
  BY <1>3, <1>5, PagesKeep
<1>7. Answers'
  BY AnswersRead DEF StateAnswered
<1> QED BY <1>6, <1>7 DEF StateAnswered, IInv

(* Taking one request out, or its sender. *)
LEMMA RemoveKeeps ==
    ASSUME IInv, NEW i \in DOMAIN backlog
    PROVE  /\ RemoveAt(backlog, i) \in Seq(Requests)
           /\ Len(RemoveAt(backlog, i)) = Len(backlog) - 1
           /\ \A j \in 1..Len(backlog)-1 :
                 RemoveAt(backlog, i)[j] = IF j < i THEN backlog[j] ELSE backlog[j + 1]
<1> DEFINE n == Len(backlog)
           A == SubSeq(backlog, 1, i - 1)
           B == SubSeq(backlog, i + 1, n)
<1>1. backlog \in Seq(Requests) /\ n \in Nat /\ i \in 1..n
      /\ \A j \in 1..n : backlog[j] \in Requests
  BY LenProperties, ElementOfSeq DEF IInv
<1>2. A \in Seq(Requests) /\ Len(A) = i - 1 /\ \A j \in 1..i-1 : A[j] = backlog[j]
  <2>1. 1 \in Int /\ i - 1 \in Int /\ \A j \in 1..i-1 : backlog[j] \in Requests
    BY <1>1
  <2>2. /\ A \in Seq(Requests) /\ Len(A) = (IF 1 <= i - 1 THEN i - 1 - 1 + 1 ELSE 0)
        /\ \A j \in 1..(i - 1) - 1 + 1 : A[j] = backlog[1 + j - 1]
    BY <2>1, SubSeqProperties
  <2>3. Len(A) = i - 1
    BY <1>1, <2>2
  <2>4. \A j \in 1..i-1 : j \in 1..(i - 1) - 1 + 1 /\ 1 + j - 1 = j
    BY <1>1
  <2> QED BY <2>2, <2>3, <2>4
<1>3. B \in Seq(Requests) /\ Len(B) = n - i /\ \A j \in 1..n-i : B[j] = backlog[i + j]
  <2>1. i + 1 \in Int /\ n \in Int /\ \A j \in i + 1..n : backlog[j] \in Requests
    BY <1>1
  <2>2. /\ B \in Seq(Requests) /\ Len(B) = (IF i + 1 <= n THEN n - (i + 1) + 1 ELSE 0)
        /\ \A j \in 1..n - (i + 1) + 1 : B[j] = backlog[(i + 1) + j - 1]
    BY <2>1, SubSeqProperties
  <2>3. Len(B) = n - i
    BY <1>1, <2>2
  <2>4. \A j \in 1..n-i : j \in 1..n - (i + 1) + 1 /\ (i + 1) + j - 1 = i + j
    BY <1>1
  <2> QED BY <2>2, <2>3, <2>4
<1>4. RemoveAt(backlog, i) = A \o B
  BY DEF RemoveAt
<1> HIDE DEF A, B, n
<1>5. /\ A \o B \in Seq(Requests) /\ Len(A \o B) = Len(A) + Len(B)
      /\ \A j \in 1..Len(A) + Len(B) : (A \o B)[j] = IF j <= Len(A) THEN A[j] ELSE B[j - Len(A)]
  BY <1>2, <1>3, ConcatProperties
<1>6. Len(A) + Len(B) = n - 1
  BY <1>1, <1>2, <1>3
<1>7. ASSUME NEW j \in 1..n-1
      PROVE  (A \o B)[j] = IF j < i THEN backlog[j] ELSE backlog[j + 1]
  <2>1. CASE j < i
    <3>1. j \in 1..i-1 /\ j <= Len(A)
      BY <1>1, <1>2, <2>1
    <3> QED BY <1>2, <1>5, <1>6, <2>1, <3>1
  <2>2. CASE ~(j < i)
    <3>1. j - Len(A) \in 1..n-i /\ ~(j <= Len(A)) /\ i + (j - Len(A)) = j + 1
      BY <1>1, <1>2, <2>2
    <3> QED BY <1>3, <1>5, <1>6, <2>2, <3>1
  <2> QED BY <2>1, <2>2
<1> QED BY <1>4, <1>5, <1>6, <1>7 DEF n

LEMMA SenderKeeps ==
    ASSUME IInv, NEW t \in Tabs
    PROVE  /\ WithoutSender(t) \in Seq(Requests)
           /\ Len(WithoutSender(t)) = Len(backlog)
           /\ \A i \in 1..Len(backlog) :
                /\ WithoutSender(t)[i].header = backlog[i].header
                /\ WithoutSender(t)[i].tab = IF backlog[i].tab = t THEN Nobody ELSE backlog[i].tab
<1> DEFINE n == Len(backlog)
<1>1. n \in Nat /\ DOMAIN backlog = 1..n /\ \A i \in 1..n : backlog[i] \in Requests
  BY LenProperties, ElementOfSeq DEF IInv
<1>2. ASSUME NEW i \in 1..n
      PROVE  /\ [backlog[i] EXCEPT !.tab = IF @ = t THEN Nobody ELSE @] \in Requests
             /\ [backlog[i] EXCEPT !.tab = IF @ = t THEN Nobody ELSE @].header = backlog[i].header
             /\ [backlog[i] EXCEPT !.tab = IF @ = t THEN Nobody ELSE @].tab
                  = IF backlog[i].tab = t THEN Nobody ELSE backlog[i].tab
  BY <1>1 DEF Requests
<1>3. WithoutSender(t) \in [1..n -> Requests]
  BY <1>1, <1>2 DEF WithoutSender
<1>4. WithoutSender(t) \in Seq(Requests)
  BY <1>1, <1>3, SeqDef
<1>5. Len(WithoutSender(t)) = n
  BY <1>1, <1>3, <1>4, LenProperties
<1> QED BY <1>1, <1>2, <1>4, <1>5 DEF WithoutSender

LEMMA BreaksIInv == ASSUME IInv, NEW t \in Tabs, ConnectionBreaks(t) PROVE IInv'
<1> DEFINE q == [page[t] EXCEPT !.phase = "idle", !.conn = "error",
                    !.editor = IF page[t].phase = "start" THEN Blank ELSE @]
<1>1. PageOK(page[t])
  BY DEF IInv, Pages
<1>2. PageOK(q)
  <2>1. (IF page[t].phase = "start" THEN Blank ELSE page[t].editor) \in Texts
    BY <1>1, ConsoleAssumption DEF PageOK, Texts
  <2> QED BY <1>1, <2>1, PageChanges
<1>3. page' = [page EXCEPT ![t] = q]
  BY DEF ConnectionBreaks, IInv, Pages
<1> HIDE DEF q
<1>4. Pages'
  BY <1>2, <1>3, PagesKeep
<1>5. Answers'
  BY AnswersRead DEF ConnectionBreaks
<1>6. backlog' \in Seq(Requests)
  BY SenderKeeps, RemoveKeeps DEF ConnectionBreaks, Without
<1>7. lost' \in 0..MaxLost
  BY ConsoleAssumption DEF ConnectionBreaks, IInv
<1> QED BY <1>4, <1>5, <1>6, <1>7 DEF ConnectionBreaks, IInv

LEMMA StrayIInv ==
    ASSUME IInv, NEW op \in {"reset", "unreadable"}, Stray(op) PROVE IInv'
<1>1. Request(Nobody, op, Nobody, FALSE) \in Requests
  BY TypedInRequests
<1>2. backlog' \in Seq(Requests)
  BY <1>1, AppendKeeps DEF Stray
<1>3. strays' \in 0..MaxStrays
  BY ConsoleAssumption DEF Stray, IInv
<1> QED BY <1>2, <1>3 DEF Stray, IInv, Answers, Pages

LEMMA NextIInv == IInv /\ [Next]_vars => IInv'
<1> SUFFICES ASSUME IInv, [Next]_vars PROVE IInv'
  OBVIOUS
<1>1. CASE Serve
  BY <1>1, ServeIInv
<1>2. ASSUME NEW t \in Tabs, PostAnswered(t) \/ StateAnswered(t) \/ ConnectionBreaks(t)
      PROVE  IInv'
  BY <1>2, PostAnsweredIInv, StateAnsweredIInv, BreaksIInv
<1>3. ASSUME NEW t \in Tabs, CommitSnapshot(t) PROVE IInv'
  <2>1. page[t].editor \in Texts
    BY DEF IInv, Pages, PageOK
  <2> QED BY <1>3, <2>1, PostIInv DEF CommitSnapshot
<1>4. ASSUME NEW t \in Tabs, ResetLab(t) PROVE IInv'
  BY <1>4, PostIInv DEF ResetLab
<1>5. ASSUME NEW t \in Tabs, NEW x \in Typed, Type(t, x) PROVE IInv'
  BY <1>5, TypeIInv
<1>6. ASSUME NEW t \in Tabs, NEW i \in Indices, ClickClaim(t, i) PROVE IInv'
  BY <1>6, PostIInv DEF ClickClaim
<1>7. ASSUME NEW t \in Tabs, NEW i \in Indices, Select(t, i) PROVE IInv'
  BY <1>7, SelectIInv
<1>8. ASSUME NEW op \in {"reset", "unreadable"}, Stray(op) PROVE IInv'
  BY <1>8, StrayIInv
<1>9. CASE UNCHANGED vars
  BY <1>9 DEF vars, IInv, Answers, Pages
<1> QED BY <1>1, <1>2, <1>3, <1>4, <1>5, <1>6, <1>7, <1>8, <1>9 DEF Next

(* However the tabs, the strays and the server take turns, the lab, every  *)
(* answer on its way and every page stay what the invariant says of them.  *)
THEOREM Invariant == Spec => []IInv
BY InitIInv, NextIInv, PTL DEF Spec

(* Whatever tabs sent, in whatever order, and whatever was lost: a page    *)
(* waits for at most one answer, and every state it shows tells one story. *)
THEOREM EveryPageTellsOneStory == Spec => []ConsoleInv
<1>1. IInv => ConsoleInv
  <2> SUFFICES ASSUME IInv PROVE ConsoleInv
    OBVIOUS
  <2>1. ASSUME NEW S, S = {} \/ \E x : S = {x} PROVE Cardinality(S) <= 1
    <3>1. CASE S = {}
      BY <3>1, FS_EmptySet
    <3>2. ASSUME NEW x, S = {x} PROVE Cardinality(S) <= 1
      <4>1. Cardinality({x}) = 1
        BY FS_Singleton
      <4> QED BY <3>2, <4>1
    <3> QED BY <2>1, <3>1, <3>2
  <2>2. ASSUME NEW t \in Tabs
        PROVE  /\ Cardinality(answer[t]) <= 1 /\ Cardinality(page[t].data) <= 1
               /\ page[t].selected \in Indices \cup {0}
               /\ page[t].editor \in Texts
               /\ page[t].conn \in {"reading", "ready", "error"}
               /\ page[t].phase \in {"start", "idle", "post", "load", "recover"}
               /\ \A v \in page[t].data : TellsOneStory(v)
    BY <2>1 DEF IInv, Answers, AnswerOK, Pages, PageOK, ViewOK
  <2>3. lab.snap \in Snapshots /\ lab.claimed \subseteq DOMAIN Holders[lab.snap]
        /\ lab.reserve \in Nat
    BY LabShows DEF IInv, LabOK
  <2>4. ASSUME NEW i \in DOMAIN backlog
        PROVE  /\ backlog[i].tab \in Tabs \cup {Nobody}
               /\ backlog[i].op \in {"state", "snapshot", "reset", "claim", "unreadable"}
    <3>1. backlog[i] \in Requests
      BY LenProperties, ElementOfSeq DEF IInv
    <3> QED BY <3>1 DEF Requests
  <2> QED BY <2>2, <2>3, <2>4 DEF IInv, ConsoleInv, TypeOK, PagesTellOneStory
<1> QED BY <1>1, Invariant, PTL

-------------------------------------------------------------------------------
(* One tab.  What it knows follows from the order of the backlog: the last *)
(* request in it that can change the lab is the page's own, so when that   *)
(* is answered, or when a state is asked for, none is left.                *)
OneTab == \E t : Tabs = {t}

Sent(t) == {i \in DOMAIN backlog : backlog[i].tab = t}
Quiet == \A i \in DOMAIN backlog : ~backlog[i].header

Reading(p) == p.phase \in {"start", "load", "recover"}
Ready(p) == p.phase = "idle" /\ p.conn = "ready"

(* At most one exchange is under way. *)
OneExchange(t) ==
    /\ \A i, j \in Sent(t) : i = j
    /\ answer[t] # {} => Sent(t) = {}
    /\ page[t].phase = "idle" => Sent(t) = {} /\ answer[t] = {}

(* What a page will be shown, or is shown, is the present. *)
Current(t) ==
    /\ Reading(page[t]) => Quiet /\ \A a \in answer[t] : a.view \subseteq {View(lab)}
    /\ Ready(page[t]) => Quiet /\ page[t].data = {View(lab)}
    /\ page[t].phase = "post" =>
          /\ answer[t] # {} => Quiet
          /\ \A i \in Sent(t) : \A j \in DOMAIN backlog : j > i => ~backlog[j].header

SoloInv == \A t \in Tabs : OneExchange(t) /\ Current(t)

LEMMA InitSolo == ASSUME OneTab, Init PROVE SoloInv
<1> PICK t : Tabs = {t}
  BY DEF OneTab
<1>1. Cardinality(Tabs) = 1
  BY FS_Singleton
<1>2. PICK order \in [1..1 -> Tabs] :
         backlog = [i \in DOMAIN order |-> StateRequest(order[i])]
  BY <1>1 DEF Init
<1>3. DOMAIN backlog = {1} /\ ~backlog[1].header
  BY <1>2 DEF StateRequest, Request
<1>4. page[t].phase = "start" /\ answer[t] = {}
  BY DEF Init, NewPage
<1> QED BY <1>3, <1>4 DEF SoloInv, OneExchange, Current, Reading, Ready, Sent, Quiet

LEMMA BacklogIs ==
    ASSUME IInv
    PROVE  Len(backlog) \in Nat /\ DOMAIN backlog = 1..Len(backlog)
BY LenProperties DEF IInv

LEMMA TailIs ==
    ASSUME IInv, backlog # <<>>
    PROVE  /\ 1 \in DOMAIN backlog /\ Head(backlog) = backlog[1]
           /\ \A i \in DOMAIN Tail(backlog) :
                i \in Nat /\ i + 1 \in DOMAIN backlog /\ Tail(backlog)[i] = backlog[i + 1]
<1>1. /\ backlog \in Seq(Requests) /\ Len(backlog) \in Nat
      /\ DOMAIN backlog = 1..Len(backlog)
  BY LenProperties DEF IInv
<1>2. Len(backlog) \in Nat \ {0}
  BY <1>1, EmptySeq
<1>3. /\ Tail(backlog) \in Seq(Requests) /\ Len(Tail(backlog)) = Len(backlog) - 1
      /\ \A i \in 1..Len(Tail(backlog)) : Tail(backlog)[i] = backlog[i + 1]
  BY <1>1, HeadTailProperties
<1>4. DOMAIN Tail(backlog) = 1..Len(backlog)-1
  BY <1>3, LenProperties
<1>5. Head(backlog) = backlog[1]
  OBVIOUS
<1> QED BY <1>1, <1>2, <1>3, <1>4, <1>5

LEMMA AppendIs ==
    ASSUME IInv, NEW r
    PROVE  LET n == Len(backlog) + 1
               longer == Append(backlog, r)
           IN  /\ DOMAIN longer = 1..n /\ longer[n] = r
               /\ n \in Nat /\ n \notin DOMAIN backlog
               /\ \A i \in DOMAIN longer : i # n =>
                     i \in DOMAIN backlog /\ i < n /\ longer[i] = backlog[i]
<1>1. Len(backlog) \in Nat /\ DOMAIN backlog = 1..Len(backlog)
  BY BacklogIs
<1>2. /\ DOMAIN Append(backlog, r) = 1..Len(backlog)+1
      /\ Append(backlog, r)[Len(backlog)+1] = r
      /\ \A i \in 1..Len(backlog) : Append(backlog, r)[i] = backlog[i]
  BY <1>1 DEF IInv
<1> QED BY <1>1, <1>2

LEMMA SoloServe == ASSUME OneTab, IInv, SoloInv, Serve PROVE SoloInv'
<1> PICK t : Tabs = {t}
  BY DEF OneTab
<1> DEFINE head == Head(backlog)
<1>1. backlog # <<>> /\ backlog' = Tail(backlog) /\ page' = page
  BY ServeStep DEF Served
<1>2. /\ 1 \in DOMAIN backlog /\ head = backlog[1]
      /\ \A i \in DOMAIN backlog' :
           i \in Nat /\ i + 1 \in DOMAIN backlog /\ backlog'[i] = backlog[i + 1]
  BY <1>1, TailIs
<1>3. head.tab \in {t, Nobody} /\ Nobody # t
  BY <1>1, ServeHead, ConsoleAssumption
<1>4. Quiet => Quiet' /\ lab' = lab
  BY <1>1, <1>2, ServeStep DEF Quiet, Local
<1>5. \/ answer'[t] = answer[t]
      \/ /\ head.tab = t
         /\ \/ \E ok : answer'[t] = {[ok |-> ok, view |-> {}]}
            \/ answer'[t] = {[ok |-> TRUE, view |-> {View(lab)}]} /\ lab' = lab
  BY <1>3, ServeStep DEF Answer, IInv, Answers
<1>6. \A i \in Sent(t)' : i + 1 \in Sent(t) /\ i \in Nat
  BY <1>2 DEF Sent
<1>7. head.tab = t => 1 \in Sent(t)
  BY <1>2 DEF Sent
<1>8. OneExchange(t) /\ Current(t)
  BY DEF SoloInv
<1>9. head.tab = t => Sent(t)' = {}
  <2> SUFFICES ASSUME head.tab = t, NEW i \in Sent(t)' PROVE FALSE
    OBVIOUS
  <2>1. i + 1 \in Sent(t) /\ i \in Nat /\ 1 \in Sent(t)
    BY <1>6, <1>7
  <2>2. i + 1 = 1
    BY <1>8, <2>1 DEF OneExchange
  <2>3. i \in DOMAIN Tail(backlog) /\ i # 0
    <3>1. i \in DOMAIN Tail(backlog)
      BY <1>1 DEF Sent
    <3>2. Tail(backlog) \in Seq(Requests)
      BY <1>1, ServeHead
    <3> QED BY <3>1, <3>2, LenProperties
  <2> QED BY <2>1, <2>2, <2>3
<1>10. Sent(t) = {} => Sent(t)' = {}
  BY <1>6
<1>11. OneExchange(t)'
  <2>1. \A i, j \in Sent(t)' : i = j
    <3> SUFFICES ASSUME NEW i \in Sent(t)', NEW j \in Sent(t)' PROVE i = j
      OBVIOUS
    <3>1. i \in Nat /\ j \in Nat /\ i + 1 = j + 1
      BY <1>6, <1>8 DEF OneExchange
    <3> QED BY <3>1
  <2>2. answer'[t] # {} => Sent(t)' = {}
    BY <1>5, <1>8, <1>9, <1>10 DEF OneExchange
  <2>3. page[t].phase = "idle" => Sent(t)' = {} /\ answer'[t] = {}
    BY <1>5, <1>7, <1>8, <1>10 DEF OneExchange
  <2> QED BY <1>1, <2>1, <2>2, <2>3 DEF OneExchange
<1>12. Current(t)'
  <2>1. Reading(page[t]) => Quiet' /\ \A a \in answer'[t] : a.view \subseteq {View(lab')}
    BY <1>4, <1>5, <1>8 DEF Current
  <2>2. Ready(page[t]) => Quiet' /\ page[t].data = {View(lab')}
    BY <1>4, <1>8 DEF Current
  <2>3. ASSUME page[t].phase = "post"
        PROVE  /\ answer'[t] # {} => Quiet'
               /\ \A i \in Sent(t)' : \A j \in DOMAIN backlog' : j > i => ~backlog'[j].header
    <3>1. \A i \in Sent(t) : \A j \in DOMAIN backlog : j > i => ~backlog[j].header
      BY <1>8, <2>3 DEF Current
    <3>2. head.tab = t => Quiet'
      <4> SUFFICES ASSUME 1 \in Sent(t), NEW j \in DOMAIN backlog' PROVE ~backlog'[j].header
        BY <1>7 DEF Quiet
      <4>1. j + 1 \in DOMAIN backlog /\ j \in Nat /\ backlog'[j] = backlog[j + 1]
        BY <1>2
      <4>2. j # 0
        <5>1. Tail(backlog) \in Seq(Requests) /\ j \in DOMAIN Tail(backlog)
          BY <1>1, ServeHead
        <5> QED BY <5>1, LenProperties
      <4>3. j + 1 > 1
        BY <4>1, <4>2
      <4> QED BY <3>1, <4>1, <4>3
    <3>3. answer[t] # {} => Quiet'
      BY <1>4, <1>8, <2>3 DEF Current
    <3>4. ASSUME NEW i \in Sent(t)', NEW j \in DOMAIN backlog', j > i
          PROVE  ~backlog'[j].header
      <4>1. /\ i + 1 \in Sent(t) /\ j + 1 \in DOMAIN backlog /\ j + 1 > i + 1
            /\ backlog'[j] = backlog[j + 1]
        BY <1>2, <1>6, <3>4
      <4> QED BY <3>1, <4>1
    <3> QED BY <1>5, <3>2, <3>3, <3>4
  <2> QED BY <1>1, <2>1, <2>2, <2>3 DEF Current
<1> QED BY <1>11, <1>12 DEF SoloInv

(* The page sends a request, or something else does. *)
LEMMA SoloAppend ==
    ASSUME IInv, NEW t \in Tabs, NEW r, backlog' = Append(backlog, r)
    PROVE  /\ r.tab # t => /\ Sent(t)' = Sent(t)
                           /\ ~r.header => (Quiet => Quiet')
           /\ r.tab = t /\ Sent(t) = {} =>
                /\ \A i \in Sent(t)' : i = Len(backlog) + 1
                /\ \A i \in Sent(t)' : \A j \in DOMAIN backlog' : ~(j > i)
                /\ ~r.header => (Quiet => Quiet')
           /\ ~r.header => \A i \in Sent(t) : \A j \in DOMAIN backlog' :
                 j > i /\ (\A k \in DOMAIN backlog : k > i => ~backlog[k].header)
                   => ~backlog'[j].header
<1> DEFINE n == Len(backlog) + 1
<1>1. /\ DOMAIN backlog' = 1..n /\ backlog'[n] = r
      /\ n \in Nat /\ n \notin DOMAIN backlog
      /\ \A i \in DOMAIN backlog' : i # n =>
            i \in DOMAIN backlog /\ i < n /\ backlog'[i] = backlog[i]
  BY AppendIs
<1>2. Len(backlog) \in Nat /\ DOMAIN backlog = 1..Len(backlog)
  BY BacklogIs
<1>3. \A i \in DOMAIN backlog : i \in DOMAIN backlog' /\ i # n
  BY <1>1, <1>2
<1> HIDE DEF n
<1>4. ~r.header => (Quiet => Quiet')
  BY <1>1 DEF Quiet
<1>5. r.tab # t => Sent(t)' = Sent(t)
  BY <1>1, <1>3 DEF Sent
<1>6. r.tab = t /\ Sent(t) = {} => \A i \in Sent(t)' : i = n
  BY <1>1 DEF Sent
<1>7. \A j \in DOMAIN backlog' : ~(j > n)
  BY <1>1
<1>8. ASSUME ~r.header, NEW i \in Sent(t), NEW j \in DOMAIN backlog', j > i,
             \A k \in DOMAIN backlog : k > i => ~backlog[k].header
      PROVE  ~backlog'[j].header
  BY <1>1, <1>8
<1> QED BY <1>4, <1>5, <1>6, <1>7, <1>8 DEF n

LEMMA SoloPost ==
    ASSUME OneTab, IInv, SoloInv, NEW t \in Tabs, NEW op, NEW arg, Post(t, op, arg)
    PROVE  SoloInv'
<1> DEFINE r == Request(t, op, arg, TRUE)
<1>1. backlog' = Append(backlog, r) /\ r.tab = t /\ answer' = answer
  BY DEF Post, Request
<1>2. page[t].phase = "idle" /\ OneExchange(t)
  BY DEF Post, Busy, SoloInv
<1>3. page'[t].phase = "post"
  <2>1. PageOK(page[t])
    BY DEF IInv, Pages
  <2>2. page'[t] = [page[t] EXCEPT !.phase = "post"]
    BY DEF Post, IInv, Pages
  <2> QED BY <2>1, <2>2 DEF PageOK
<1>4. Sent(t) = {} /\ answer[t] = {}
  BY <1>2 DEF OneExchange
<1> HIDE DEF r
<1>5. /\ \A i \in Sent(t)' : i = Len(backlog) + 1
      /\ \A i \in Sent(t)' : \A j \in DOMAIN backlog' : ~(j > i)
  BY <1>1, <1>4, SoloAppend
<1>6. OneExchange(t)'
  BY <1>1, <1>3, <1>4, <1>5 DEF OneExchange
<1>7. Current(t)'
  BY <1>1, <1>3, <1>4, <1>5 DEF Current, Reading, Ready
<1> QED BY <1>6, <1>7 DEF SoloInv, OneTab

LEMMA SoloPostAnswered ==
    ASSUME OneTab, IInv, SoloInv, NEW t \in Tabs, PostAnswered(t)
    PROVE  SoloInv'
<1> DEFINE r == StateRequest(t)
<1>1. backlog' = Append(backlog, r) /\ r.tab = t /\ ~r.header /\ lab' = lab
  BY DEF PostAnswered, StateRequest, Request
<1>2. page[t].phase = "post" /\ answer[t] # {} /\ answer'[t] = {}
  BY DEF PostAnswered, IInv, Answers
<1>3. Reading(page'[t])
  <2>1. PageOK(page[t])
    BY DEF IInv, Pages
  <2>2. PICK a \in answer[t] :
           page'[t] = [page[t] EXCEPT !.phase = IF a.ok THEN "load" ELSE "recover",
                                      !.conn = "reading"]
    BY DEF PostAnswered, IInv, Pages
  <2>3. page'[t].phase = IF a.ok THEN "load" ELSE "recover"
    BY <2>1, <2>2 DEF PageOK
  <2> QED BY <2>3 DEF Reading
<1>4. Sent(t) = {} /\ Quiet
  BY <1>2 DEF SoloInv, OneExchange, Current
<1> HIDE DEF r
<1>5. (\A i \in Sent(t)' : i = Len(backlog) + 1) /\ Quiet'
  BY <1>1, <1>4, SoloAppend
<1>6. OneExchange(t)'
  BY <1>2, <1>3, <1>5 DEF OneExchange, Reading
<1>7. Current(t)'
  BY <1>2, <1>3, <1>5 DEF Current, Reading, Ready
<1> QED BY <1>6, <1>7 DEF SoloInv, OneTab

LEMMA SoloStateAnswered ==
    ASSUME OneTab, IInv, SoloInv, NEW t \in Tabs, StateAnswered(t)
    PROVE  SoloInv'
<1>1. \E a \in answer[t] : \E v \in a.view :
         page' = [page EXCEPT ![t] = Shown(@, v, @.phase # "recover")]
  BY DEF StateAnswered
<1>2. PICK a \in answer[t] : \E v \in a.view :
         page' = [page EXCEPT ![t] = Shown(page[t], v, page[t].phase # "recover")]
  BY <1>1
<1>3. PICK v \in a.view :
         page' = [page EXCEPT ![t] = Shown(page[t], v, page[t].phase # "recover")]
  BY <1>2
<1>4. page'[t].data = {v} /\ page'[t].phase = "idle" /\ page'[t].conn = "ready"
  BY <1>3 DEF IInv, Pages, Shown
<1>5. /\ Reading(page[t]) /\ answer'[t] = {} /\ answer[t] # {}
      /\ backlog' = backlog /\ lab' = lab
  BY DEF StateAnswered, Reading, IInv, Answers
<1>6. Sent(t) = {} /\ Quiet /\ v = View(lab)
  BY <1>5 DEF SoloInv, OneExchange, Current
<1>7. Sent(t)' = {} /\ Quiet'
  BY <1>5, <1>6 DEF Sent, Quiet
<1>8. OneExchange(t)'
  BY <1>5, <1>7 DEF OneExchange
<1>9. Current(t)'
  BY <1>4, <1>5, <1>6, <1>7 DEF Current, Reading, Ready
<1> QED BY <1>8, <1>9 DEF SoloInv, OneTab

LEMMA SoloBreaks ==
    ASSUME OneTab, IInv, SoloInv, NEW t \in Tabs, ConnectionBreaks(t)
    PROVE  SoloInv'
<1>1. page'[t].phase = "idle" /\ page'[t].conn = "error"
  <2>1. PageOK(page[t])
    BY DEF IInv, Pages
  <2>2. page'[t] = [page[t] EXCEPT !.phase = "idle", !.conn = "error",
                       !.editor = IF page[t].phase = "start" THEN Blank ELSE @]
    BY DEF ConnectionBreaks, IInv, Pages
  <2> QED BY <2>1, <2>2 DEF PageOK
<1>2. answer'[t] = {}
  BY DEF ConnectionBreaks, IInv, Answers
<1>3. Sent(t)' = {}
  <2>1. CASE backlog' = WithoutSender(t)
    <3>1. Nobody # t
      BY ConsoleAssumption
    <3>2. DOMAIN backlog' = 1..Len(backlog)
      BY <2>1, SenderKeeps, LenProperties
    <3> QED BY <2>1, <3>1, <3>2, SenderKeeps DEF Sent
  <2>2. ASSUME NEW i \in Sent(t), backlog' = RemoveAt(backlog, i) PROVE Sent(t)' = {}
    <3> SUFFICES ASSUME NEW j \in Sent(t)' PROVE FALSE
      OBVIOUS
    <3>1. i \in 1..Len(backlog) /\ DOMAIN backlog = 1..Len(backlog) /\ Len(backlog) \in Nat
      BY BacklogIs DEF Sent
    <3>2. /\ DOMAIN backlog' = 1..Len(backlog)-1
          /\ \A k \in 1..Len(backlog)-1 :
                backlog'[k] = IF k < i THEN backlog[k] ELSE backlog[k + 1]
      BY <2>2, <3>1, RemoveKeeps, LenProperties
    <3>3. j \in 1..Len(backlog)-1 /\ backlog'[j].tab = t
      BY <3>2 DEF Sent
    <3>4. \A k \in Sent(t) : k = i
      BY DEF SoloInv, OneExchange
    <3>5. CASE j < i
      BY <3>1, <3>2, <3>3, <3>4, <3>5 DEF Sent
    <3>6. CASE ~(j < i)
      <4>1. j + 1 \in Sent(t)
        BY <3>1, <3>2, <3>3, <3>6 DEF Sent
      <4> QED BY <3>1, <3>3, <3>4, <3>6, <4>1
    <3> QED BY <3>5, <3>6
  <2> QED BY <2>1, <2>2 DEF ConnectionBreaks, Without, Sent
<1>4. OneExchange(t)'
  BY <1>2, <1>3 DEF OneExchange
<1>5. Current(t)'
  BY <1>1 DEF Current, Reading, Ready
<1> QED BY <1>4, <1>5 DEF SoloInv, OneTab

(* Typing and selecting change neither what is shown nor what is asked.    *)
LEMMA SoloEdits ==
    ASSUME OneTab, IInv, SoloInv, NEW t \in Tabs,
           page'[t].phase = page[t].phase, page'[t].conn = page[t].conn,
           page'[t].data = page[t].data, UNCHANGED <<lab, backlog, answer>>
    PROVE  SoloInv'
<1>1. Sent(t)' = Sent(t) /\ (Quiet <=> Quiet')
  BY DEF Sent, Quiet
<1>2. OneExchange(t)'
  BY <1>1 DEF SoloInv, OneExchange
<1>3. Current(t)'
  BY <1>1 DEF SoloInv, Current, Reading, Ready
<1> QED BY <1>2, <1>3 DEF SoloInv, OneTab

LEMMA SoloStray ==
    ASSUME OneTab, IInv, SoloInv, NEW op, Stray(op)
    PROVE  SoloInv'
<1> PICK t : Tabs = {t}
  BY DEF OneTab
<1> DEFINE r == Request(Nobody, op, Nobody, FALSE)
<1>1. backlog' = Append(backlog, r) /\ r.tab # t /\ ~r.header
  BY ConsoleAssumption DEF Stray, Request
<1>2. lab' = lab /\ answer' = answer /\ page' = page
  BY DEF Stray
<1> HIDE DEF r
<1>3. /\ Sent(t)' = Sent(t) /\ (Quiet => Quiet')
      /\ \A i \in Sent(t) : \A j \in DOMAIN backlog' :
           j > i /\ (\A k \in DOMAIN backlog : k > i => ~backlog[k].header)
             => ~backlog'[j].header
  BY <1>1, SoloAppend
<1>4. OneExchange(t)'
  BY <1>2, <1>3 DEF SoloInv, OneExchange
<1>5. Current(t)'
  BY <1>2, <1>3 DEF SoloInv, Current, Reading, Ready
<1> QED BY <1>4, <1>5 DEF SoloInv

LEMMA SoloNext == OneTab /\ IInv /\ SoloInv /\ [Next]_vars => SoloInv'
<1> SUFFICES ASSUME OneTab, IInv, SoloInv, [Next]_vars PROVE SoloInv'
  OBVIOUS
<1>1. CASE Serve
  BY <1>1, SoloServe
<1>2. ASSUME NEW t \in Tabs, PostAnswered(t) \/ StateAnswered(t) \/ ConnectionBreaks(t)
      PROVE  SoloInv'
  BY <1>2, SoloPostAnswered, SoloStateAnswered, SoloBreaks
<1>3. ASSUME NEW t \in Tabs, NEW i \in Indices,
             CommitSnapshot(t) \/ ResetLab(t) \/ ClickClaim(t, i)
      PROVE  SoloInv'
  BY <1>3, SoloPost DEF CommitSnapshot, ResetLab, ClickClaim
<1>4. ASSUME NEW t \in Tabs, CommitSnapshot(t) \/ ResetLab(t) PROVE SoloInv'
  BY <1>4, SoloPost DEF CommitSnapshot, ResetLab
<1>5. ASSUME NEW t \in Tabs, NEW x \in Typed, Type(t, x) PROVE SoloInv'
  <2>1. PageOK(page[t]) /\ page'[t] = [page[t] EXCEPT !.editor = x]
    BY <1>5 DEF IInv, Pages, Type
  <2>2. page'[t].phase = page[t].phase /\ page'[t].conn = page[t].conn
          /\ page'[t].data = page[t].data
    BY <2>1 DEF PageOK
  <2> QED BY <1>5, <2>2, SoloEdits DEF Type
<1>6. ASSUME NEW t \in Tabs, NEW i \in Indices, Select(t, i) PROVE SoloInv'
  <2>1. PageOK(page[t]) /\ page'[t] = [page[t] EXCEPT !.selected = i]
    BY <1>6 DEF IInv, Pages, Select
  <2>2. page'[t].phase = page[t].phase /\ page'[t].conn = page[t].conn
          /\ page'[t].data = page[t].data
    BY <2>1 DEF PageOK
  <2> QED BY <1>6, <2>2, SoloEdits DEF Select
<1>7. ASSUME NEW op \in {"reset", "unreadable"}, Stray(op) PROVE SoloInv'
  BY <1>7, SoloStray
<1>8. CASE UNCHANGED vars
  <2> PICK t : Tabs = {t}
    BY DEF OneTab
  <2> QED BY <1>8, SoloEdits DEF vars
<1> QED BY <1>1, <1>2, <1>3, <1>4, <1>5, <1>6, <1>7, <1>8 DEF Next

(* The only page open on a server shows the engine's present state when it *)
(* says that it is ready, whatever was refused, lost or late before.       *)
THEOREM AloneShowsCurrent == ASSUME OneTab PROVE Spec => []ReadyShowsCurrent
<1>1. Init => SoloInv
  BY InitSolo
<1>2. IInv /\ SoloInv /\ [Next]_vars => SoloInv'
  BY SoloNext
<1>3. SoloInv => ReadyShowsCurrent
  BY DEF SoloInv, Current, Ready, Busy, ReadyShowsCurrent
<1> QED BY <1>1, <1>2, <1>3, Invariant, PTL DEF Spec
===============================================================================
