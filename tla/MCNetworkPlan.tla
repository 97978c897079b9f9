----------------------------- MODULE MCNetworkPlan -----------------------------
(* Instances of NetworkPlan: a cell is 2, the largest fee 3.                *)
EXTENDS NetworkPlan

Holder(amount, key, scheme) == Token(amount, <<"key", key>>, scheme)

(* An odd amount that can be split, and a holder that is a script. *)
MCSnapshots == {<<Holder(3, "alice", "p2pk"), Holder(2, "bob", "p2sh")>>,
                <<Holder(4, "fixture", "p2pk")>>}

Deposit(n, kas, key) ==
    [at |-> <<"deposit", n>>, kas |-> kas, script |-> Pays(key), covenant |-> NoCovenant,
     confirmed |-> TRUE, coinbase |-> FALSE]

(* Funding that lasts, and cells that must not be used: one young, one in a*)
(* covenant, one at a fixture outpoint and one of a fixture key. *)
MCDeposits ==
    {Deposit(1, 25, "fund"),
     [Deposit(2, 25, "fund") EXCEPT !.confirmed = FALSE],
     [Deposit(3, 25, "fund") EXCEPT !.covenant = CovenantId(<<"elsewhere", 1>>, Pays("fund"))],
     Deposit(4, 25, "fund"), Deposit(5, 25, "fixture")}
MCFixtureAt == {<<"deposit", 4>>}
===============================================================================
