--------------------------- MODULE MarketSimulator ---------------------------
(***************************************************************************)
(* The simulator thread (sim/env/market_sim.cpp) for one symbol, with the  *)
(* book it quotes in, SymbolEngine's m_book, which is an OrderBook, and    *)
(* main.cpp's callback, which saves the price in the market state file.    *)
(* Each call on the book is a step; set_market_price, which stores bid and *)
(* ask one after the other, is two.                                        *)
(*                                                                         *)
(* Orders have the ids 1, 2, ... in the order they are acquired (1000001,  *)
(* ... in the code).  A PooledPtr that is alive is an id in `held'.        *)
(***************************************************************************)
EXTENDS OrderBook

CONSTANTS
    InitialPrices,  \* prices the symbol may start with
    Deltas,         \* steps of the random walk
    Spreads,        \* m_spread_dist: m_min_spread .. m_max_spread
    MinPrice, MaxPrice, MinBid, MaxAsk,   \* 100, 1000000, 1, 999999
    Threshold,      \* a larger move replaces the resting orders: 10
    Offset,         \* distance of the first orders from the price: 10
    Lot,            \* m_resting_quantity
    Pools,          \* capacities of m_order_pool
    MaxTicks        \* bound on the ticks of a run

ASSUME SimulatorAssumption ==
    /\ InitialPrices \subseteq Int /\ Deltas \subseteq Int /\ Spreads \subseteq Nat
    /\ {MinPrice, MaxPrice, MinBid, MaxAsk, Threshold, Offset} \subseteq Int
    /\ Lot \in Nat \ {0} /\ Pools \subseteq Nat
    /\ Quantities = {Lot} /\ Quotes = {}
    /\ MaxTicks \in Nat /\ 1 .. 2 + 2 * MaxTicks \subseteq Orders

VARIABLES
    spc,         \* where the simulator thread is
    pool,        \* capacity of m_order_pool
    running,     \* m_running
    ticks,       \* ticks so far, for the bound
    price,       \* current_prices
    quote,       \* bid and ask of the running tick
    lastUpdate,  \* last_update_price
    active,      \* m_active_orders: the ids of the bid and of the ask
    fresh,       \* the locals bid_order and ask_order
    resting,     \* m_symbol_orders: ids and prices
    lastPrice,   \* last_updated_prices
    lock,        \* who has last_updated_prices_mutex
    file,        \* the price in the market state file, NoPrice if there is none
    opened       \* could the last write_market_state open the file?

NoPrice == -1
None == [BUY |-> 0, SELL |-> 0]

storeVars == <<lastPrice, lock, file, opened>>
orderVars == <<active, fresh, resting>>
tickVars == <<ticks, price, quote, lastUpdate>>
simVars == <<vars, spc, pool, running, tickVars, orderVars, storeVars>>

(* The orders whose PooledPtr is alive.                                    *)
held == {active.BUY, active.SELL, fresh.BUY, fresh.SELL} \ {0}

(* get_initial_price, for the price that read_market_state returned.       *)
SimulatorInit ==
    /\ Init
    /\ spc = "initBid"
    /\ pool \in Pools
    /\ running = TRUE
    /\ ticks = 0
    /\ price \in InitialPrices
    /\ quote = [BUY |-> price - Offset, SELL |-> price + Offset]
    /\ lastUpdate = 0
    /\ active = None
    /\ fresh = None
    /\ resting = [id |-> None, price |-> None]
    /\ lastPrice = price
    /\ lock = "free"
    /\ file = NoPrice
    /\ opened = TRUE

-----------------------------------------------------------------------------
(* A mutant of AddResting: the prices that initialize_resting_orders uses. *)
AddRestingAtOffset(s) ==
    /\ Cardinality(held) < pool
    /\ fresh' = [fresh EXCEPT ![s] = arrived + 1]
    /\ AddOrder(arrived + 1, s, IF s = "BUY" THEN price - Offset ELSE price + Offset, Lot)

(* Acquire an order for side s and put it into the book.                   *)
AddResting(s) ==
    /\ Cardinality(held) < pool
    /\ fresh' = [fresh EXCEPT ![s] = arrived + 1]
    /\ AddOrder(arrived + 1, s, quote[s], Lot)

(* cancel_order; false for an id that is not in the index.                 *)
CancelResting(s) ==
    IF resting.id[s] \in index THEN CancelOrder(resting.id[s]) ELSE UNCHANGED vars

(* A mutant of StoreActive: the metadata keeps the ids of the old orders.  *)
StoreActiveOnly ==
    /\ active' = fresh
    /\ fresh' = None
    /\ UNCHANGED resting

(* The orders are stored; the PooledPtrs they replace go out of scope.     *)
StoreActive ==
    /\ active' = fresh
    /\ fresh' = None
    /\ resting' = [id |-> fresh, price |-> quote]

(* initialize_resting_orders, and the end of update_resting_orders.        *)
Store ==
    /\ spc \in {"initStore", "store"}
    /\ StoreActive
    /\ lastUpdate' = IF spc = "store" THEN price ELSE lastUpdate
    /\ spc' = IF spc = "store" THEN "callback" ELSE "tick"
    /\ UNCHANGED <<vars, pool, running, ticks, price, quote, storeVars>>

(* The first bid.  With the pool exhausted this throws, and nothing on the *)
(* simulator's thread catches.                                             *)
AddFirstBid ==
    /\ spc = "initBid"
    /\ IF Cardinality(held) < pool
       THEN AddResting("BUY") /\ spc' = "initAsk"
       ELSE UNCHANGED <<vars, fresh>> /\ spc' = "crashed"
    /\ UNCHANGED <<pool, running, tickVars, active, resting, storeVars>>

(* The new bid.  With the pool exhausted the update ends here, after both  *)
(* old orders have been cancelled.                                         *)
AddBid ==
    /\ spc = "addBid"
    /\ IF Cardinality(held) < pool
       THEN AddResting("BUY") /\ spc' = "addAsk" /\ UNCHANGED lastUpdate
       ELSE UNCHANGED <<vars, fresh>> /\ spc' = "callback" /\ lastUpdate' = price
    /\ UNCHANGED <<pool, running, ticks, price, quote, active, resting, storeVars>>

(* The new ask.  The check behind acquire looks at the bid, so that with   *)
(* the pool exhausted a null pointer is written through.                   *)
AddAsk ==
    /\ spc \in {"initAsk", "addAsk"}
    /\ IF Cardinality(held) < pool
       THEN AddResting("SELL") /\ spc' = IF spc = "addAsk" THEN "store" ELSE "initStore"
       ELSE UNCHANGED <<vars, fresh>> /\ spc' = "crashed"
    /\ UNCHANGED <<pool, running, tickVars, active, resting, storeVars>>

ClampTo(lo, hi, x) == IF x < lo THEN lo ELSE IF x > hi THEN hi ELSE x

QuoteAt(p, spread) ==
    [BUY  |-> IF p - spread \div 2 < MinBid THEN MinBid ELSE p - spread \div 2,
     SELL |-> IF p + spread \div 2 > MaxAsk THEN MaxAsk ELSE p + spread \div 2]

(* A tick: the price moves, and the bid of the new quote is published ...  *)
Tick(delta, spread) ==
    LET p == ClampTo(MinPrice, MaxPrice, price + delta)
    IN  /\ spc = "tick"
        /\ running
        /\ ticks < MaxTicks
        /\ ticks' = ticks + 1
        /\ price' = p
        /\ quote' = QuoteAt(p, spread)
        /\ best' = [best EXCEPT !.BUY = QuoteAt(p, spread).BUY]
        /\ spc' = "publishAsk"
        /\ UNCHANGED <<ord, arrived, level, levels, index, depth, sequence, fills, pc, inc, before,
                       pool, running, lastUpdate, orderVars, storeVars>>

(* "Only update resting orders when price changes significantly"           *)
Moved == price - lastUpdate > Threshold \/ lastUpdate - price > Threshold

(* ... then the ask; without a significant move, or with the prices that   *)
(* rest already, the resting orders are left alone.                        *)
PublishAsk ==
    /\ spc = "publishAsk"
    /\ best' = [best EXCEPT !.SELL = quote.SELL]
    /\ spc' = IF Moved /\ resting.price # quote THEN "cancelBid" ELSE "callback"
    /\ lastUpdate' = IF Moved /\ resting.price = quote THEN price ELSE lastUpdate
    /\ UNCHANGED <<ord, arrived, level, levels, index, depth, sequence, fills, pc, inc, before,
                   pool, running, ticks, price, quote, orderVars, storeVars>>

(* update_resting_orders cancels both sides before it adds.                *)
CancelBid ==
    /\ spc = "cancelBid"
    /\ CancelResting("BUY")
    /\ spc' = "cancelAsk"
    /\ UNCHANGED <<pool, running, tickVars, orderVars, storeVars>>

CancelAsk ==
    /\ spc = "cancelAsk"
    /\ CancelResting("SELL")
    /\ spc' = "addBid"
    /\ UNCHANGED <<pool, running, tickVars, orderVars, storeVars>>

(* The callback: the mid price into last_updated_prices under the lock,    *)
(* and write_market_state, which truncates the file before it writes, or   *)
(* leaves it as it is when it cannot open it.                              *)
Mid == (quote.BUY + quote.SELL) \div 2

(* A mutant of Callback: the price is noted, and main saves it at the end. *)
CallbackNotes ==
    /\ spc = "callback"
    /\ lock = "free"
    /\ lastPrice' = Mid
    /\ spc' = "tick"
    /\ UNCHANGED <<vars, pool, running, tickVars, orderVars, lock, file, opened>>

TruncateFile ==
    /\ opened' \in BOOLEAN
    /\ file' = IF opened' THEN NoPrice ELSE file

WriteFile == file' = IF opened THEN lastPrice ELSE file

Callback ==
    /\ spc = "callback"
    /\ lock = "free"
    /\ lock' = "simulator"
    /\ lastPrice' = Mid
    /\ TruncateFile
    /\ spc' = "write"
    /\ UNCHANGED <<vars, pool, running, tickVars, orderVars>>

WriteState ==
    /\ spc = "write"
    /\ WriteFile
    /\ lock' = "free"
    /\ spc' = "tick"
    /\ UNCHANGED <<vars, pool, running, tickVars, orderVars, lastPrice, opened>>

(* The loop ends after a tick when m_running is false.                     *)
Leave ==
    /\ spc = "tick"
    /\ ~running
    /\ spc' = "left"
    /\ UNCHANGED <<vars, pool, running, tickVars, orderVars, storeVars>>

SimulatorStep ==
    \/ AddFirstBid \/ AddBid \/ AddAsk \/ Store
    \/ \E d \in Deltas, s \in Spreads : Tick(d, s)
    \/ PublishAsk \/ CancelBid \/ CancelAsk
    \/ Callback \/ WriteState
    \/ Leave

(* stop(): the flag, and after the join clear_resting_orders, which gives  *)
(* every order back to the pool although the book still refers to them.    *)
Stop ==
    /\ running' = FALSE
    /\ UNCHANGED <<vars, spc, pool, tickVars, orderVars, storeVars>>

ClearRestingOrders ==
    /\ spc = "left"
    /\ active' = None
    /\ resting' = [id |-> None, price |-> None]
    /\ spc' = "cleared"
    /\ UNCHANGED <<vars, pool, running, tickVars, fresh, storeVars>>
=============================================================================
