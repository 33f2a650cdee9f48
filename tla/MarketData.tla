----------------------------- MODULE MarketData -----------------------------
(***************************************************************************)
(* How prices get from the simulator to the bots and to the disk: the      *)
(* simulator thread (MarketSimulator), the symbol's snapshot thread        *)
(* (SnapshotThread) and the main thread, which ends the program.  The two  *)
(* threads are started in either order and share the book without a lock;  *)
(* main and the simulator share last_updated_prices under one.             *)
(***************************************************************************)
EXTENDS MarketSimulator

CONSTANT NUM_NODES

ASSUME NodesAssumption == NUM_NODES \in Nat \ {0}

VARIABLES g_running, tpc, current, latest, kept, snap, seen,
    mpc          \* where main is

threadVars == <<tpc, current, latest, kept, snap, seen>>
marketVars == <<simVars, g_running, threadVars, mpc>>

Thread == INSTANCE SnapshotThread

MarketInit ==
    /\ SimulatorInit
    /\ Thread!Init
    /\ g_running = TRUE
    /\ mpc = "trading"

-----------------------------------------------------------------------------
(* The market closes, or a signal arrives.                                 *)
Close ==
    /\ mpc = "trading"
    /\ g_running' = FALSE
    /\ mpc' = "save"
    /\ UNCHANGED <<simVars, threadVars>>

(* The final save, under the same lock as the callback's.                  *)
SaveBegin ==
    /\ mpc = "save"
    /\ lock = "free"
    /\ lock' = "main"
    /\ TruncateFile
    /\ mpc' = "saving"
    /\ UNCHANGED <<vars, spc, pool, running, tickVars, orderVars, lastPrice,
                   g_running, threadVars>>

(* A mutant of SaveEnd: main keeps the lock until the threads are joined.  *)
SaveEndLocked ==
    /\ mpc = "saving"
    /\ WriteFile
    /\ mpc' = "stop"
    /\ UNCHANGED <<vars, spc, pool, running, tickVars, orderVars, lastPrice, lock, opened,
                   g_running, threadVars>>

SaveEnd ==
    /\ mpc = "saving"
    /\ WriteFile
    /\ lock' = "free"
    /\ mpc' = "stop"
    /\ UNCHANGED <<vars, spc, pool, running, tickVars, orderVars, lastPrice, opened,
                   g_running, threadVars>>

(* simulator.stop(), and the join of the snapshot thread.                  *)
StopSimulator ==
    /\ mpc = "stop"
    /\ Stop
    /\ mpc' = "join"
    /\ UNCHANGED <<g_running, threadVars>>

JoinSimulator ==
    /\ mpc = "join"
    /\ ClearRestingOrders
    /\ mpc' = "joinThread"
    /\ UNCHANGED <<g_running, threadVars>>

JoinThread ==
    /\ mpc = "joinThread"
    /\ tpc = "exit"
    /\ mpc' = "done"
    /\ UNCHANGED <<simVars, g_running, threadVars>>

Shutdown == SaveBegin \/ SaveEnd \/ StopSimulator \/ JoinSimulator \/ JoinThread

(* A null pointer or an exception in the simulator ends the whole process. *)
alive == spc # "crashed"

Simulate == alive /\ UNCHANGED <<g_running, threadVars, mpc>> /\ SimulatorStep
Observe  == alive /\ UNCHANGED <<simVars, g_running, mpc>> /\ Thread!ThreadStep

MarketNext == Simulate \/ Observe \/ (alive /\ (Close \/ Shutdown))

(* Each thread is scheduled again and again; when the market closes is not *)
(* assumed.                                                                *)
MarketSpec == MarketInit /\ [][MarketNext]_marketVars

FairMarketSpec ==
    /\ MarketSpec
    /\ WF_marketVars(Simulate) /\ WF_marketVars(Observe) /\ WF_marketVars(alive /\ Shutdown)

-----------------------------------------------------------------------------
(* The simulator is between two ticks.                                     *)
Between == spc = "tick"

(* Four orders in the pool are enough for one symbol, two that rest and    *)
(* two that replace them: between ticks the simulator's book then has one  *)
(* order on each side, the two the simulator holds, at the prices it has   *)
(* noted for them, and it is not crossed, up to the highest price.  The    *)
(* cancels and adds overwrite the best prices that set_market_price has    *)
(* stored; when the tick is over they are the tick's quote all the same.   *)
TwoSidedMarket ==
    (Between /\ pool >= 4) =>
        /\ index = {active.BUY, active.SELL}
        /\ \A s \in {"BUY", "SELL"} : levels[s] = <<resting.price[s]>>
        /\ resting.price.BUY < resting.price.SELL
        /\ best = quote

(* As long as the simulator may touch it, the book refers to no order that *)
(* went back to the pool, by its index or from a slot of a ring.           *)
BookHoldsLiveOrders ==
    spc # "cleared" =>
        index \cup UNION {Queued(level[p]) : p \in DOMAIN level} \subseteq held

(* A program that is killed at any moment and started again begins with    *)
(* the price of the last tick, unless it was killed inside a write, or the *)
(* last write could not open the file; one that fails does no harm to the  *)
(* later ones.  Before the first tick there may be no file, and it begins  *)
(* as this one did.                                                        *)
RestartsAtLastPrice ==
    \/ file = lastPrice
    \/ lock # "free"
    \/ ~opened
    \/ file = NoPrice /\ ticks <= 1

(* Every node is pinned, or the current one: the scan finds none free.     *)
Pinned == kept \cup {current} = Thread!Nodes

(* Whatever the book becomes, the bots come to see it: they are up to date *)
(* again and again, and for good once the walk has come to its bound; if   *)
(* not, every node was pinned by a snapshot of the book before it was      *)
(* filled, or the program ends first.                                      *)
BookReachesBots == []<>(seen = sequence \/ Pinned \/ ~g_running \/ ~alive)

(* A program that begins to shut down ends.                                *)
ShutdownEnds == mpc # "trading" ~> (mpc = "done" \/ ~alive)
=============================================================================
