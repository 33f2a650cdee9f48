--------------------------- MODULE OrderLifecycle ---------------------------
(***************************************************************************)
(* The life of a bot's order, from the queue of the bots to the end of the *)
(* program, and who owns its memory meanwhile (main.cpp): the snapshot     *)
(* thread takes orders from its pool, keeps them in bot_storage and hands  *)
(* raw pointers to the engine (MatchingEngine), whose worker matches them; *)
(* the thread's sweep gives finished orders back; main joins the threads   *)
(* and drains the engine.  An order's memory is its id here, so that an    *)
(* order that is not in storage is memory that belongs to nobody.          *)
(*                                                                         *)
(* No bot sends a cancel, and no order is cancelled here.                  *)
(***************************************************************************)
EXTENDS MatchingEngine

CONSTANT POOL      \* orders in the thread's bot_pool: 100000

VARIABLES
    g_running,
    wpc,        \* the worker: "check", "cycle" or "exit"
    tpc,        \* the snapshot thread: "top", "pop", "sweep" or "exit"
    wanted,     \* orders in the symbol's OrderQueue
    storage,    \* bot_storage
    refused,    \* orders that on_market_order has refused
    mpc,        \* main: "trading", "joinThread", "joinWorker", "drain" or "done"
    alive       \* FALSE once the use of destroyed memory has ended the program

threadVars == <<tpc, wanted, storage, refused>>
lifeVars   == <<allVars, g_running, wpc, threadVars, mpc, alive>>

LifeInit ==
    /\ EngineInit
    /\ g_running = TRUE
    /\ wpc = "check"
    /\ tpc = "top" /\ wanted = 0 /\ storage = {} /\ refused = {}
    /\ mpc = "trading"
    /\ alive = TRUE

-----------------------------------------------------------------------------
(* on_snapshot: the bots fill their queue.                                 *)
OnSnapshot ==
    /\ tpc = "top"
    /\ g_running
    /\ wanted' \in 0 .. Cardinality(Orders) - Len(request)
    /\ tpc' = "pop"
    /\ UNCHANGED <<allVars, g_running, wpc, storage, refused, mpc, alive>>

BotOrders ==
    {r \in [side : {"BUY", "SELL"}, type : Types, price : LimitPrices \cup {0},
            quantity : Quantities] : (r.type = "MARKET") = (r.price = 0)}

(* Pop an order.  The pool may be exhausted, and the order is dropped.     *)
(* Else it is copied, submitted and stored; nobody looks whether the       *)
(* engine's queue has taken it.                                            *)
PopOrder ==
    /\ tpc = "pop"
    /\ wanted > 0
    /\ wanted' = wanted - 1
    /\ IF Cardinality(storage) = POOL THEN UNCHANGED <<allVars, storage, refused>>
       ELSE \E r \in BotOrders :
              /\ SubmitOrder(r.side, r.type, r.price, r.quantity)
              /\ storage' = storage \cup {Len(request')}
              /\ refused' = IF Len(queue') > Len(queue) THEN refused
                            ELSE refused \cup {Len(request')}
    /\ UNCHANGED <<g_running, wpc, tpc, mpc, alive>>

PopNothing ==
    /\ tpc = "pop"
    /\ wanted = 0
    /\ tpc' = "sweep"
    /\ UNCHANGED <<allVars, g_running, wpc, wanted, storage, refused, mpc, alive>>

(* Mutants of KeptStatus: a partial fill counts as finished, or only a     *)
(* complete one does.                                                      *)
NotYetFilled == {"NEW"}
KeptUnlessFilled == {"NEW", "PARTIAL", "REJECTED"}

KeptStatus == {"NEW", "PARTIAL"}

(* "Sweep finished orders": their memory goes back to the pool.            *)
Sweep ==
    /\ tpc = "sweep"
    /\ storage' = {o \in storage : ord[o].status \in KeptStatus}
    /\ tpc' = "top"
    /\ UNCHANGED <<allVars, g_running, wpc, wanted, refused, mpc, alive>>

(* The thread's locals, bot_storage and bot_pool, are destroyed.           *)
ThreadExit ==
    /\ tpc = "top"
    /\ ~g_running
    /\ storage' = {}
    /\ tpc' = "exit"
    /\ UNCHANGED <<allVars, g_running, wpc, wanted, refused, mpc, alive>>

SnapshotThreadStep == OnSnapshot \/ PopOrder \/ PopNothing \/ Sweep \/ ThreadExit

-----------------------------------------------------------------------------
CycleBegin ==
    /\ wpc = "check"
    /\ wpc' = IF g_running THEN "cycle" ELSE "exit"
    /\ UNCHANGED <<allVars, g_running, threadVars, mpc, alive>>

(* run_match_cycle, of the worker and of main's drain.                     *)
Cycling == wpc = "cycle" \/ mpc = "drain"

CycleStep ==
    /\ Cycling
    /\ WorkerStep
    /\ UNCHANGED <<g_running, wpc, threadVars, mpc, alive>>

CycleOver == epc = "wait" /\ queue = << >>

CycleEnd ==
    /\ wpc = "cycle"
    /\ CycleOver
    /\ wpc' = "check"
    /\ UNCHANGED <<allVars, g_running, threadVars, mpc, alive>>

(* Every order belonged to the thread.  Once it is gone, whoever touches   *)
(* one may find it as it was, or end the program.                          *)
UseDestroyed ==
    /\ Cycling
    /\ tpc = "exit"
    /\ ~CycleOver
    /\ alive' = FALSE
    /\ UNCHANGED <<allVars, g_running, wpc, threadVars, mpc>>

WorkerThreadStep == CycleBegin \/ CycleStep \/ CycleEnd \/ UseDestroyed

-----------------------------------------------------------------------------
(* The market closes, or a signal arrives.                                 *)
Close ==
    /\ mpc = "trading"
    /\ g_running' = FALSE
    /\ mpc' = "joinThread"
    /\ UNCHANGED <<allVars, wpc, threadVars, alive>>

JoinThread ==
    /\ mpc = "joinThread"
    /\ tpc = "exit"
    /\ mpc' = "joinWorker"
    /\ UNCHANGED <<allVars, g_running, wpc, threadVars, alive>>

(* A mutant of JoinWorker: no drain behind the joins.                      *)
JoinAndStop ==
    /\ mpc = "joinWorker"
    /\ wpc = "exit"
    /\ mpc' = "done"
    /\ UNCHANGED <<allVars, g_running, wpc, threadVars, alive>>

JoinWorker ==
    /\ mpc = "joinWorker"
    /\ wpc = "exit"
    /\ mpc' = "drain"
    /\ UNCHANGED <<allVars, g_running, wpc, threadVars, alive>>

(* drain() runs a hundred cycles, of which the first does it all.          *)
DrainEnd ==
    /\ mpc = "drain"
    /\ CycleOver
    /\ mpc' = "done"
    /\ UNCHANGED <<allVars, g_running, wpc, threadVars, alive>>

Shutdown == JoinThread \/ JoinWorker \/ DrainEnd

LifeNext == alive /\ (SnapshotThreadStep \/ WorkerThreadStep \/ Close \/ Shutdown)

(* Each thread is scheduled again and again; when the market closes is not *)
(* assumed.                                                                *)
LifeSpec == LifeInit /\ [][LifeNext]_lifeVars

FairLifeSpec ==
    /\ LifeSpec
    /\ WF_lifeVars(alive /\ SnapshotThreadStep) /\ WF_lifeVars(alive /\ WorkerThreadStep)
    /\ WF_lifeVars(alive /\ Shutdown)

-----------------------------------------------------------------------------
(* As long as the snapshot thread runs, every pointer the engine may       *)
(* follow leads to an order in storage: from its queue, from the order it  *)
(* matches, from the index and from the slots of the rings.  An order      *)
(* being rejected is the exception: its status tells the sweep that it is  *)
(* finished before its report is made of it.                               *)
Followed ==
    ToSet(queue) \cup (IF epc \in {"match", "finalize"} THEN {current} ELSE {})
        \cup index \cup UNION {Queued(level[p]) : p \in DOMAIN level}

WorkerSeesLiveOrders == (alive /\ tpc # "exit") => Followed \subseteq storage

(* An order that the sweep keeps is waiting, being processed, or known to  *)
(* the book, where filled makers stay for good; or the engine's queue was  *)
(* full, and it stays for good as well.                                    *)
KeptForAReason ==
    \A o \in storage :
        ord[o].status \in {"NEW", "PARTIAL"} =>
            o \in ToSet(queue) \cup {current} \cup index \cup refused

(* The memory of an order that was filled on arrival or rejected returns   *)
(* to the pool.                                                            *)
FinishedAreSwept ==
    \A o \in Orders : (o \in storage /\ ord[o].status \in {"FILLED", "REJECTED"}) ~> o \notin storage

(* A program that begins to shut down ends, and no order is left behind in *)
(* a queue.                                                                *)
ShutdownEnds ==
    mpc # "trading" ~> ((mpc = "done" /\ wanted = 0 /\ queue = << >>) \/ ~alive)
=============================================================================
