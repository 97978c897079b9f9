---------------------------- MODULE ConsoleSession ----------------------------
(***************************************************************************)
(* The local console: the server in deploy/src/bin/snapshot_console.rs,    *)
(* which keeps one lab in memory and answers one connection at a time, and *)
(* the page it serves, deploy/web/snapshot.html, open in one or more tabs. *)
(* A tab sends a mutation, then reads the whole state; in between, and     *)
(* whenever it is idle, what it shows is a copy.                           *)
(*                                                                         *)
(* Abstractions.                                                           *)
(*  - A snapshot source is a model value with its holders; an editor text  *)
(*    is the source it holds, a text the server refuses, or no JSON.       *)
(*  - A root is the vector of its leaves; what it commits to and how a     *)
(*    claim is proved is SnapshotChain's and MerkleTree's business.        *)
(*  - A connection that breaks before it is answered may or may not have   *)
(*    delivered its request; the server cannot tell.                       *)
(***************************************************************************)
EXTENDS Integers, Sequences, FiniteSets, SequencesExt

CONSTANTS
    Tabs,        \* pages open on the server
    Snapshots,   \* sources the server accepts
    Demo,        \* demo_source()
    Holders,     \* [Snapshots -> sequence of [owner, amount]]
    Refused,     \* JSON texts that are no valid snapshot
    NotJson,     \* a text that does not parse
    Typed,       \* bound: the texts users type
    Blank,       \* the "{}" of a page that could not load
    Nobody,      \* the sender of a request no page waits for
    MaxLost,     \* bound: connections that break
    MaxStrays    \* bound: requests that come from no page

ASSUME ConsoleAssumption ==
    /\ IsFiniteSet(Tabs) /\ Nobody \notin Tabs
    /\ Demo \in Snapshots /\ Blank \in Refused /\ NotJson \notin Refused
    /\ \A s \in Snapshots :
        /\ Len(Holders[s]) \in Nat \ {0} /\ DOMAIN Holders[s] = 1..Len(Holders[s])
        /\ \A i \in DOMAIN Holders[s] : Holders[s][i].amount \in Nat
    /\ Typed \subseteq Snapshots \cup Refused \cup {NotJson}
    /\ MaxLost \in Nat /\ MaxStrays \in Nat

Texts == Snapshots \cup Refused \cup {NotJson}
Indices == UNION {DOMAIN Holders[s] : s \in Snapshots}

VARIABLES
    lab,       \* App: the snapshot, its claimed leaves, the reserve, events
    backlog,   \* connections the listener has not handled, in order
    answer,    \* [Tabs -> the response on its way back, at most one]
    page,      \* [Tabs -> what the page keeps and shows]
    lost, strays

vars == <<lab, backlog, answer, page, lost, strays>>

-------------------------------------------------------------------------------
(* The lab behind the server. *)

Worth(holders, S) == MapThenSumSet(LAMBDA i : holders[i].amount, S)
Total(s) == Worth(Holders[s], DOMAIN Holders[s])

Claimed == [owner |-> Nobody, amount |-> 0]
Root(s, claimed) == [i \in DOMAIN Holders[s] |->
                       IF i \in claimed THEN Claimed ELSE Holders[s][i]]

(* A new snapshot starts a lab and a history of its own. *)
NewLab(s) ==
    [snap |-> s, claimed |-> {}, reserve |-> Total(s),
     events |-> <<[kind |-> "commit", index |-> 0, before |-> <<>>,
                   after |-> Root(s, {})]>>]

(* Mutant: a leaf is paid however often it is asked for.                   *)
ClaimableAgain(l, i) == i \in DOMAIN Holders[l.snap]

Claimable(l, i) == i \in DOMAIN Holders[l.snap] /\ i \notin l.claimed

(* App::claim, accepted: the newest event comes first. *)
AfterClaim(l, i) ==
    LET claimed == l.claimed \cup {i} IN
    [l EXCEPT !.claimed = claimed, !.reserve = @ - Holders[l.snap][i].amount,
              !.events = <<[kind |-> "claim", index |-> i,
                            before |-> Root(l.snap, l.claimed),
                            after |-> Root(l.snap, claimed)]>> \o @]

(* App::view, built under the lock: everything a page is told. *)
View(l) == [snap |-> l.snap, claimed |-> l.claimed, remaining |-> l.reserve,
            root |-> Root(l.snap, l.claimed), events |-> l.events]

-------------------------------------------------------------------------------
Request(t, op, arg, header) == [tab |-> t, op |-> op, arg |-> arg, header |-> header]
StateRequest(t) == Request(t, "state", Nobody, FALSE)

(* A page just opened: it is busy reading the state. *)
NewPage == [data |-> {}, selected |-> 0, editor |-> NotJson, conn |-> "reading",
            phase |-> "start"]

Init ==
    /\ lab = NewLab(Demo)
    /\ \E order \in [1..Cardinality(Tabs) -> Tabs] :
        /\ \A t \in Tabs : \E i \in DOMAIN order : order[i] = t
        /\ backlog = [i \in DOMAIN order |-> StateRequest(order[i])]
    /\ answer = [t \in Tabs |-> {}]
    /\ page = [t \in Tabs |-> NewPage]
    /\ lost = 0 /\ strays = 0

-------------------------------------------------------------------------------
(* The server: `handle`, for the connection accepted first. *)

Answer(t, ok, view) ==
    answer' = IF t = Nobody THEN answer
              ELSE [answer EXCEPT ![t] = {[ok |-> ok, view |-> view]}]

Handles(op) == backlog # <<>> /\ Head(backlog).op = op
Served == backlog' = Tail(backlog) /\ UNCHANGED <<page, lost, strays>>

(* post_is_local: a POST needs the header only this page sends. *)
Local == Head(backlog).header

ServeState ==
    /\ Handles("state")
    /\ Answer(Head(backlog).tab, TRUE, {View(lab)})
    /\ Served
    /\ UNCHANGED lab

ServeSnapshot ==
    /\ Handles("snapshot") /\ Local
    /\ Head(backlog).arg \in Snapshots
    /\ lab' = NewLab(Head(backlog).arg)
    /\ Answer(Head(backlog).tab, TRUE, {})
    /\ Served

(* A source that does not parse or validate leaves the lab as it is. *)
RefuseSnapshot ==
    /\ Handles("snapshot") /\ Local
    /\ Head(backlog).arg \notin Snapshots
    /\ Answer(Head(backlog).tab, FALSE, {})
    /\ Served
    /\ UNCHANGED lab

ServeReset ==
    /\ Handles("reset") /\ Local
    /\ lab' = NewLab(Demo)
    /\ Answer(Head(backlog).tab, TRUE, {})
    /\ Served

(* The request names a leaf by its index in whatever snapshot is current.  *)
ServeClaim ==
    /\ Handles("claim") /\ Local
    /\ Claimable(lab, Head(backlog).arg)
    /\ lab' = AfterClaim(lab, Head(backlog).arg)
    /\ Answer(Head(backlog).tab, TRUE, {})
    /\ Served

RefuseClaim ==
    /\ Handles("claim") /\ Local
    /\ ~Claimable(lab, Head(backlog).arg)
    /\ Answer(Head(backlog).tab, FALSE, {})
    /\ Served
    /\ UNCHANGED lab

(* Mutant: a connection that sends no whole request is waited for.         *)
RefuseForbiddenOnly ==
    /\ backlog # <<>>
    /\ Head(backlog).op \in {"snapshot", "reset", "claim"} /\ ~Local
    /\ Served
    /\ UNCHANGED <<lab, answer>>

(* 403 for a foreign POST; 400 for a request that is malformed, too large  *)
(* or not sent within the read timeout. *)
RefuseRequest ==
    /\ backlog # <<>>
    /\ \/ Head(backlog).op \in {"snapshot", "reset", "claim"} /\ ~Local
       \/ Head(backlog).op = "unreadable"
    /\ Served
    /\ UNCHANGED <<lab, answer>>

Serve ==
    \/ ServeState \/ ServeSnapshot \/ RefuseSnapshot \/ ServeReset
    \/ ServeClaim \/ RefuseClaim \/ RefuseRequest

-------------------------------------------------------------------------------
(* The page. *)

Busy(t) == page[t].phase # "idle"

(* post: the page is busy until the whole exchange is over. *)
Post(t, op, arg) ==
    /\ ~Busy(t)
    /\ page' = [page EXCEPT ![t].phase = "post"]
    /\ backlog' = Append(backlog, Request(t, op, arg, TRUE))
    /\ UNCHANGED <<lab, answer, lost, strays>>

(* The editor stays open while an exchange is under way. *)
Type(t, x) ==
    /\ page[t].editor # x
    /\ page' = [page EXCEPT ![t].editor = x]
    /\ UNCHANGED <<lab, backlog, answer, lost, strays>>

Select(t, i) ==
    /\ ~Busy(t)
    /\ \E v \in page[t].data : i \in DOMAIN Holders[v.snap]
    /\ page[t].selected # i
    /\ page' = [page EXCEPT ![t].selected = i]
    /\ UNCHANGED <<lab, backlog, answer, lost, strays>>

(* A text that is no JSON is never sent. *)
CommitSnapshot(t) ==
    /\ page[t].editor # NotJson
    /\ Post(t, "snapshot", page[t].editor)

(* Its button is live for every leaf shown as claimable. *)
ClickClaim(t, i) ==
    /\ \E v \in page[t].data : i \in DOMAIN Holders[v.snap] \ v.claimed
    /\ Post(t, "claim", i)

ResetLab(t) == Post(t, "reset", Nobody)

(* Mutant: after a refusal the page goes on without reading the state.     *)
PostAnsweredNoResync(t) ==
    /\ page[t].phase = "post"
    /\ \E a \in answer[t] :
        /\ page' = [page EXCEPT ![t].phase = IF a.ok THEN "load" ELSE "idle",
                                ![t].conn = IF a.ok THEN "reading" ELSE "ready"]
        /\ backlog' = IF a.ok THEN Append(backlog, StateRequest(t)) ELSE backlog
    /\ answer' = [answer EXCEPT ![t] = {}]
    /\ UNCHANGED <<lab, lost, strays>>

(* The server answered the POST: read the state, keeping the editor's text *)
(* if it refused. *)
PostAnswered(t) ==
    /\ page[t].phase = "post"
    /\ \E a \in answer[t] :
        page' = [page EXCEPT ![t].phase = IF a.ok THEN "load" ELSE "recover",
                             ![t].conn = "reading"]
    /\ answer' = [answer EXCEPT ![t] = {}]
    /\ backlog' = Append(backlog, StateRequest(t))
    /\ UNCHANGED <<lab, lost, strays>>

(* What `render` makes of a view: the selection is kept where it exists.   *)
Shown(p, v, sync) ==
    LET open == DOMAIN Holders[v.snap] \ v.claimed IN
    [data |-> {v},
     selected |-> CASE p.selected \in DOMAIN Holders[v.snap] -> p.selected
                    [] open # {} -> Min(open)
                    [] OTHER -> 1,
     editor |-> IF sync THEN v.snap ELSE p.editor,
     conn |-> "ready", phase |-> "idle"]

StateAnswered(t) ==
    /\ page[t].phase \in {"start", "load", "recover"}
    /\ \E a \in answer[t] : \E v \in a.view :
        page' = [page EXCEPT ![t] = Shown(@, v, @.phase # "recover")]
    /\ answer' = [answer EXCEPT ![t] = {}]
    /\ UNCHANGED <<lab, backlog, lost, strays>>

(* A page's request, if it is still in the backlog, gone from there; and   *)
(* there with nobody waiting for its answer. *)
Without(t) == {RemoveAt(backlog, i) : i \in {j \in DOMAIN backlog : backlog[j].tab = t}}
WithoutSender(t) == [i \in DOMAIN backlog |->
    [backlog[i] EXCEPT !.tab = IF @ = t THEN Nobody ELSE @]]

(* fetch fails: the page says so and keeps showing what it had.  A request *)
(* still in the backlog may have arrived or not. *)
ConnectionBreaks(t) ==
    /\ Busy(t) /\ lost < MaxLost
    /\ page' = [page EXCEPT ![t].phase = "idle", ![t].conn = "error",
                            ![t].editor = IF page[t].phase = "start" THEN Blank ELSE @]
    /\ answer' = [answer EXCEPT ![t] = {}]
    /\ \E rest \in {WithoutSender(t)} \cup Without(t) : backlog' = rest
    /\ lost' = lost + 1
    /\ UNCHANGED <<lab, strays>>

(* Something else connects: another site's form post, or a connection that *)
(* sends no whole request. *)
Stray(op) ==
    /\ strays < MaxStrays
    /\ backlog' = Append(backlog, Request(Nobody, op, Nobody, FALSE))
    /\ strays' = strays + 1
    /\ UNCHANGED <<lab, answer, page, lost>>

-------------------------------------------------------------------------------
Next ==
    \/ Serve
    \/ \E t \in Tabs :
        \/ PostAnswered(t) \/ StateAnswered(t) \/ ConnectionBreaks(t)
        \/ CommitSnapshot(t) \/ ResetLab(t)
        \/ \E x \in Typed : Type(t, x)
        \/ \E i \in Indices : ClickClaim(t, i) \/ Select(t, i)
    \/ \E op \in {"reset", "unreadable"} : Stray(op)

Spec == Init /\ [][Next]_vars

(* The listener goes on to the next connection, since every read of one    *)
(* times out, and a page runs its callbacks.  Nobody has to click.         *)
Fairness ==
    /\ WF_vars(Serve)
    /\ \A t \in Tabs : WF_vars(PostAnswered(t)) /\ WF_vars(StateAnswered(t))

FairSpec == Spec /\ Fairness

-------------------------------------------------------------------------------
(* Properties. *)

TypeOK ==
    /\ lab.snap \in Snapshots /\ lab.claimed \subseteq DOMAIN Holders[lab.snap]
    /\ lab.reserve \in Nat
    /\ \A i \in DOMAIN backlog :
        /\ backlog[i].tab \in Tabs \cup {Nobody}
        /\ backlog[i].op \in {"state", "snapshot", "reset", "claim", "unreadable"}
    /\ \A t \in Tabs :
        /\ Cardinality(answer[t]) <= 1 /\ Cardinality(page[t].data) <= 1
        /\ page[t].selected \in Indices \cup {0}
        /\ page[t].editor \in Texts
        /\ page[t].conn \in {"reading", "ready", "error"}
        /\ page[t].phase \in {"start", "idle", "post", "load", "recover"}
    /\ lost \in 0..MaxLost /\ strays \in 0..MaxStrays

(* Whatever two tabs sent, in whatever order, again after an answer was    *)
(* lost or not: every state a page shows tells one story.  Its events, read*)
(* from the oldest, lead from the commitment of the snapshot shown to the  *)
(* root shown, each from the root the one before it left, every leaf is    *)
(* paid at most once, and what was not paid is still in the reserve.       *)
TellsOneStory(v) ==
    LET n == Len(v.events)
        claims == {e \in 1..n : v.events[e].kind = "claim"}
    IN  /\ claims = 1..(n - 1)
        /\ v.events[n].after = Root(v.snap, {})
        /\ \A e \in claims : v.events[e].before = v.events[e + 1].after
        /\ v.events[1].after = v.root
        /\ Cardinality({v.events[e].index : e \in claims}) = Cardinality(claims)
        /\ v.claimed = {v.events[e].index : e \in claims}
        /\ v.remaining = Worth(v.root, DOMAIN v.root)

PagesTellOneStory ==
    \A t \in Tabs : \A v \in page[t].data : TellsOneStory(v)

(* A page waits for at most one answer, and what it shows tells one story. *)
ConsoleInv == TypeOK /\ PagesTellOneStory

(* The only page open on a server, when it is idle and calls the engine    *)
(* connected, shows the engine's present state: after a refusal, and after *)
(* requests whose answers, or which themselves, were lost or late.         *)
ReadyShowsCurrent ==
    \A t \in Tabs :
        (~Busy(t) /\ page[t].conn = "ready") => page[t].data = {View(lab)}

(* A page becomes usable again after everything it sends, whatever else    *)
(* connects to the server and sends nothing.                               *)
BusyEnds == \A t \in Tabs : Busy(t) ~> ~Busy(t)

(* "The covenant must pay this exact address and amount", says the page    *)
(* over the button (deploy/web/snapshot.html): a claim that is answered    *)
(* with success pays the holder and amount shown.                          *)
ClaimPaysDisplayed ==
    [][\A t \in Tabs : \A v \in page[t].data :
        (ServeClaim /\ Head(backlog).tab = t) =>
            Holders[lab.snap][Head(backlog).arg] = Holders[v.snap][Head(backlog).arg]]_vars
===============================================================================
