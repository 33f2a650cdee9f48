------------------------------- MODULE MCBots -------------------------------
(* Instances of Bots for TLC: the .cfg files give the bounds.              *)
EXTENDS Bots

(* The market maker with each of the others, as main registers them.       *)
MCParties == {<<"MarketMaker", k>> : k \in Kinds \ {"MarketMaker"}} \cup {<<"Spread", "RandomWalk">>}

(* Each of the bots that have m_max_open_orders, alone.                    *)
Alone == {<<k>> : k \in Kinds \ {"MarketMaker"}}

(* A book around the base price, one far above, one without asks.          *)
MCViews == {<<96, 104>>, <<130, 150>>, <<96, INT64_MAX>>}

(* The ranges of the counters, in the order of the program's.              *)
MCFirstId ==
    [k \in Kinds |-> CASE k = "Spread" -> 10 [] k = "RandomWalk" -> 13 [] k = "MeanReversion" -> 16
                       [] k = "Momentum" -> 19 [] k = "MarketMaker" -> 22]
=============================================================================
