-------------------------- MODULE MarketDataProofs --------------------------
(***************************************************************************)
(* Proofs about MarketData, for every pool, walk, spread, ring size and    *)
(* number of ticks, and whatever main and the snapshot thread do: what the *)
(* simulator's book holds at each of its steps, that it refers to no order *)
(* that went back to the pool, and what a program that is killed finds in  *)
(* the market state file.                                                  *)
(***************************************************************************)
EXTENDS MarketData, FiniteSetTheorems, TLAPS

-----------------------------------------------------------------------------
(* The market state file.                                                  *)

(* Where the simulator is before its first tick, and in the first one as   *)
(* long as it has not come to the callback.                                *)
BeforeTicks == {"initBid", "initAsk", "initStore", "tick"}
InTick == {"publishAsk", "cancelBid", "cancelAsk", "addBid", "addAsk", "store", "callback"}

(* The lock is held by the thread that is inside its save.  Outside of     *)
(* both, the file has the last price if the last save could open it; there *)
(* is none only until the first callback.                                  *)
StoreInv ==
    /\ ticks \in Nat
    /\ lock \in {"free", "simulator", "main"}
    /\ lock = "simulator" <=> spc = "write"
    /\ lock = "main" <=> mpc = "saving"
    /\ lock = "free" /\ opened /\ file # lastPrice =>
          /\ file = NoPrice
          /\ ticks <= 1
          /\ ticks = 1 => spc \in InTick \cup {"crashed"}

-----------------------------------------------------------------------------
(* The book.                                                               *)

(* A level with one order.                                                 *)
OneOrder(o) == PushBack(EmptyLevel, o, Lot)

(* What a book says of its orders.                                         *)
Contents == [index |-> index, level |-> level, levels |-> levels, last |-> arrived, orders |-> ord]

(* A book has an order on each side of B and nothing else: the order w[s]  *)
(* at the price pr[s], alone in its level.                                 *)
Holds(book, B, w, pr) ==
    /\ book.index = {w[s] : s \in B}
    /\ DOMAIN book.level = {pr[s] : s \in B}
    /\ book.levels = [s \in Side |-> IF s \in B THEN <<pr[s]>> ELSE << >>]
    /\ \A s \in B :
          /\ pr[s] \in Int
          /\ w[s] \in 1 .. book.last
          /\ book.orders[w[s]] = NewOrder(s, pr[s], Lot)
          /\ book.level[pr[s]] = OneOrder(w[s])
    /\ B = Side => pr["BUY"] < pr["SELL"]

(* What the book holds at each step of the simulator.  A pool of less than *)
(* four orders may leave it empty from the first replacement on.           *)
Resters(B) ==
    \/ Holds(Contents, B, active, resting.price)
    \/ pool < 4 /\ Holds(Contents, {}, active, resting.price)

(* The steps between which the two orders rest.                            *)
Steady == {"tick", "publishAsk", "cancelBid", "callback", "write", "left"}

(* Step by step: a tick replaces the ask and then the bid, and the book    *)
(* holds what the tick has left of the old quotes and set of the new ones. *)
BookInv ==
    /\ spc \in {"initBid", "addBid"} => Holds(Contents, {}, fresh, quote)
    /\ spc \in {"initAsk", "addAsk"} => Holds(Contents, {"BUY"}, fresh, quote)
    /\ spc = "crashed" => \E B \in {{}, {"BUY"}} : Holds(Contents, B, fresh, quote)
    /\ spc \in {"initStore", "store"} => Holds(Contents, Side, fresh, quote)
    /\ spc = "cancelAsk" => Resters({"SELL"})
    /\ spc \in Steady => Resters(Side)

(* The simulator's variables, and the orders that it has acquired, which   *)
(* are the last to arrive: two per tick, as long as the pool has room.     *)
OnSides(S) == [BUY : S, SELL : S]

SimulatorTypes ==
    /\ spc \in BeforeTicks \cup InTick \cup {"write", "left", "cleared", "crashed"}
    /\ pool \in Nat /\ ticks \in 0 .. MaxTicks /\ price \in Int
    /\ quote \in OnSides(Int) /\ best \in OnSides(Int)
    /\ active \in OnSides(Nat) /\ fresh \in OnSides(Nat)
    /\ DOMAIN ord = Orders /\ pc = "idle"
    /\ resting.id = active

(* The orders are acquired in their order, two per tick at the most.       *)
Acquired ==
    /\ spc \notin {"initAsk", "initStore", "addAsk", "store", "crashed"} => fresh = None
    /\ spc \in {"initAsk", "addAsk", "crashed"} => fresh.SELL = 0
    /\ spc \in {"initBid", "initAsk", "initStore"} => active = None /\ ticks = 0
    /\ arrived \in Nat
    /\ arrived <= 2 + 2 * ticks
    /\ spc = "initBid" => arrived = 0
    /\ spc = "initAsk" => arrived <= 1
    /\ spc \in {"publishAsk", "cancelBid", "cancelAsk", "addBid"} => arrived <= 2 * ticks
    /\ spc = "addAsk" => arrived <= 2 * ticks + 1

(* With four orders in the pool, the best prices are the running tick's.   *)
Published ==
    pool >= 4 =>
        /\ spc \in {"publishAsk"} => best.BUY = quote.BUY
        /\ spc \in {"initStore", "store", "tick", "callback", "write", "left"} => best = quote

(* The inductive invariant of the simulator and its book.                  *)
MarketInv == SimulatorTypes /\ Acquired /\ BookInv /\ Published

(* What the environment promises when it calls add_order, of the order the *)
(* simulator is about to add.                                              *)
AddsWithinLimits ==
    \A s \in Side :
        spc \in (IF s = "BUY" THEN {"initBid", "addBid"} ELSE {"initAsk", "addAsk"}) =>
            RoomAt(s, quote[s]) /\ NonCrossing(s, quote[s])

-----------------------------------------------------------------------------
(* The market state file.                                                  *)

(* Before anything runs, there is no file.                                 *)
LEMMA StoreInit == MarketInit => StoreInv
BY DEF MarketInit, SimulatorInit, StoreInv

(* A step of the simulator changes the lock and the file in the callback   *)
(* and in the write, and counts the ticks.                                 *)
LEMMA StoreSimulate ==
    ASSUME StoreInv, Simulate
    PROVE  StoreInv'
<1> USE DEF StoreInv, InTick, Simulate, storeVars, tickVars, TruncateFile, WriteFile
<1>1. SimulatorStep /\ mpc' = mpc /\ spc # "crashed"
  BY DEF alive
<1>2. CASE AddFirstBid \/ AddBid
  BY <1>1, <1>2 DEF AddFirstBid, AddBid
<1>3. CASE AddAsk
  BY <1>1, <1>3 DEF AddAsk
<1>4. CASE Store
  BY <1>1, <1>4 DEF Store
<1>5. ASSUME NEW d \in Deltas, NEW s \in Spreads, Tick(d, s)
      PROVE  StoreInv'
  BY <1>1, <1>5 DEF Tick
<1>6. CASE PublishAsk
  BY <1>1, <1>6 DEF PublishAsk
<1>7. CASE CancelBid \/ CancelAsk
  BY <1>1, <1>7 DEF CancelBid, CancelAsk
<1>8. CASE Callback
  BY <1>1, <1>8 DEF Callback
<1>9. CASE WriteState
  BY <1>1, <1>9 DEF WriteState
<1>10. CASE Leave
  BY <1>1, <1>10 DEF Leave
<1> QED BY <1>1, <1>2, <1>3, <1>4, <1>5, <1>6, <1>7, <1>8, <1>9, <1>10 DEF SimulatorStep

(* Main takes the lock for its save and gives it back.                     *)
LEMMA StoreMain ==
    ASSUME StoreInv, Close \/ Shutdown
    PROVE  StoreInv'
<1> USE DEF StoreInv, InTick, simVars, storeVars, tickVars, TruncateFile, WriteFile
<1>1. CASE Close
  BY <1>1 DEF Close
<1>2. CASE SaveBegin
  BY <1>2 DEF SaveBegin
<1>3. CASE SaveEnd
  BY <1>3 DEF SaveEnd
<1>4. CASE StopSimulator
  BY <1>4 DEF StopSimulator, Stop
<1>5. CASE JoinSimulator
  BY <1>5 DEF JoinSimulator, ClearRestingOrders
<1>6. CASE JoinThread
  BY <1>6 DEF JoinThread
<1> QED BY <1>1, <1>2, <1>3, <1>4, <1>5, <1>6 DEF Shutdown

(* Every step keeps the invariant of the file.                             *)
LEMMA StoreStep == StoreInv /\ [MarketNext]_marketVars => StoreInv'
<1> SUFFICES ASSUME StoreInv, [MarketNext]_marketVars
             PROVE  StoreInv'
  OBVIOUS
<1>1. CASE Simulate
  BY <1>1, StoreSimulate
<1>2. CASE Close \/ Shutdown
  BY <1>2, StoreMain
<1>3. CASE Observe
  BY <1>3 DEF Observe, StoreInv, simVars, storeVars, tickVars
<1>4. CASE UNCHANGED marketVars
  BY <1>4 DEF marketVars, StoreInv, simVars, storeVars, tickVars
<1> QED BY <1>1, <1>2, <1>3, <1>4 DEF MarketNext

(* A program that is killed finds the price of the last tick in the market *)
(* state file, unless it was killed inside a write or inside its first     *)
(* tick, or the last write could not open the file: the callback and       *)
(* main's save, which truncate the file before they write it, are kept     *)
(* apart by the lock, and a write that fails does no harm to a later one.  *)
THEOREM StateSurvivesKill == MarketSpec => []RestartsAtLastPrice
<1>1. StoreInv => RestartsAtLastPrice
  BY DEF StoreInv, RestartsAtLastPrice
<1> QED BY <1>1, StoreInit, StoreStep, PTL DEF MarketSpec

-----------------------------------------------------------------------------
(* The calls on the book.                                                  *)

(* The two sides.                                                          *)
LEMMA Sides ==
    /\ Side = {"BUY", "SELL"} /\ Opposite("BUY") = "SELL" /\ Opposite("SELL") = "BUY"
    /\ \A s \in Side : Opposite(s) \in Side /\ Opposite(s) # s
BY DEF Side, Opposite

(* A level with one order: one slot, which its cancellation gives free.    *)
LEMMA OneOrderRing ==
    ASSUME NEW o \in Orders
    PROVE  /\ OneOrder(o).size = 1
           /\ Queued(OneOrder(o)) \subseteq {o}
           /\ \A live : empty(RemoveOrder(OneOrder(o), o, Lot, live))
<1> DEFINE L == OneOrder(o)
<1>1. MAX_ORDERS \in Nat /\ MAX_ORDERS > 1 /\ 0 \in Slots /\ Lot # 0 /\ Lot \in Nat
  BY RingAssumption, SimulatorAssumption DEF Slots
<1>2. Slot(0, 0) = 0 /\ Slot(0, 1) = 1
  BY <1>1 DEF Slot
<1>3. L = [buffer |-> [EmptyLevel.buffer EXCEPT ![0] = o], head |-> 0, tail |-> 1,
           size |-> 1, total |-> Lot]
  BY <1>1, <1>2 DEF OneOrder, PushBack, EmptyLevel
<1>4. L.head = 0 /\ L.tail = 1 /\ L.size = 1 /\ L.total = Lot
  BY <1>3
<1>5. L.buffer[0] = o
  BY <1>1, <1>3 DEF EmptyLevel
<1>6. Span(L) = 1
  BY <1>4 DEF Span
<1>7. Queued(L) \subseteq {o}
  BY <1>2, <1>4, <1>5, <1>6 DEF Queued
<1>8. ASSUME NEW live
      PROVE  empty(RemoveOrder(L, o, Lot, live))
  <2> DEFINE M == [L EXCEPT !.total = L.total - Lot]
  <2>1. M = [buffer |-> L.buffer, head |-> 0, tail |-> 1, size |-> 1, total |-> L.total - Lot]
    BY <1>3
  <2>2. M.head = 0 /\ M.tail = 1 /\ M.size = 1 /\ M.buffer[0] = o
    BY <2>1, <1>5
  <2>3. Span(M) = 1
    BY <2>2 DEF Span
  <2> DEFINE rest == live \ {o}
  <2> HIDE DEF M, L, rest
  <2>4. IsDeadRun(M, rest, 1) /\ ~IsDeadRun(M, rest, 0)
    BY <1>2, <2>2, <2>3 DEF IsDeadRun, rest
  <2>5. DeadRun(M, rest) = 1
    <3>1. \A k \in 0 .. Span(M) : IsDeadRun(M, rest, k) <=> k = 1
      BY <2>3, <2>4
    <3> QED BY <3>1, <2>3 DEF DeadRun
  <2>6. Advance(M, rest).size = 0
    BY <2>2, <2>5 DEF Advance
  <2>7. RemoveOrder(L, o, Lot, live) = Advance(M, rest)
    BY <1>4, <1>5 DEF RemoveOrder, Exhausted, HeadOrder, M, rest
  <2> QED BY <2>6, <2>7 DEF empty
<1> QED BY <1>4, <1>7, <1>8

(* A price joins an empty side, and leaves it empty again.                 *)
LEMMA OnePrice ==
    ASSUME NEW s \in Side, NEW p \in Int
    PROVE  /\ InsertLevel(s, << >>, p) = <<p>>
           /\ RemoveLevel(<<p>>, p) = << >>
<1>1. LowerBound(s, << >>, p) = 1
  BY DEF LowerBound
<1>2. InsertLevel(s, << >>, p) = [i \in 1 .. 1 |-> p]
  BY <1>1 DEF InsertLevel
<1>3. RemoveLevel(<<p>>, p) = << >>
  <2>1. p \in ToSet(<<p>>)
    BY DEF ToSet
  <2>2. RemoveLevel(<<p>>, p) \in [1 .. 0 -> Int]
    BY <2>1 DEF RemoveLevel
  <2> QED BY <2>2
<1> QED BY <1>2, <1>3

(* add_order on the side that is empty, with the next id.                  *)
LEMMA AddHolds ==
    ASSUME NEW B \in SUBSET Side, NEW w, NEW pr, Holds(Contents, B, w, pr),
           NEW s \in Side, s \notin B, NEW C, C = B \cup {s}, NEW w2,
           arrived \in Nat, arrived + 1 \in Orders, DOMAIN ord = Orders,
           pr[s] \in Int, AddOrder(arrived + 1, s, pr[s], Lot),
           w2[s] = arrived + 1, \A t \in B : w2[t] = w[t]
    PROVE  /\ Holds(Contents', C, w2, pr)
           /\ arrived' = arrived + 1 /\ pc' = pc /\ DOMAIN ord' = Orders
           /\ best' = BestPrices(levels')
<1> DEFINE o == arrived + 1
           p == pr[s]
           r == NewOrder(s, p, Lot)
<1>1. Lot \in Nat /\ Lot # 0
  BY SimulatorAssumption
<1>2. \A t \in B : t = Opposite(s) /\ t # s
  BY Sides
<1>3. /\ arrived' = o /\ pc' = pc
      /\ ord' = [ord EXCEPT ![o] = r]
      /\ RestOrder(o, r)
      /\ NonCrossing(s, p)
  BY DEF AddOrder, callVars
<1>4. r.price = p /\ r.side = s /\ r.remaining = Lot
  BY DEF NewOrder
<1>5. \A t \in B : ToSet(levels[t]) = {pr[t]}
  BY DEF Holds, Contents, ToSet
<1>6. \A t \in B : pr[t] \in Int /\ Before(s, pr[t], p)
  BY <1>2, <1>3, <1>5 DEF Holds, Contents, NonCrossing
<1>7. p \notin DOMAIN level
  BY <1>6 DEF Holds, Contents, Before
<1>8. levels' = [levels EXCEPT ![s] = InsertLevel(s, levels[s], p)]
  BY <1>3, <1>4, <1>7 DEF RestOrder
<1>9. levels' = [t \in Side |-> IF t \in C THEN <<pr[t]>> ELSE << >>]
  <2>1. levels[s] = << >> /\ InsertLevel(s, levels[s], p) = <<p>>
    BY OnePrice DEF Holds, Contents
  <2> QED BY <1>8, <2>1 DEF Holds, Contents
<1>10. level' = Put(level, p, OneOrder(o)) /\ index' = index \cup {o}
       /\ best' = BestPrices(levels')
  BY <1>3, <1>4, <1>7, <1>8 DEF RestOrder, OneOrder
<1>11. DOMAIN level' = {pr[t] : t \in C} /\ index' = {w2[t] : t \in C}
  BY <1>10 DEF Holds, Contents, Put
<1>12. ASSUME NEW t \in C
       PROVE  /\ pr[t] \in Int
              /\ w2[t] \in 1 .. arrived'
              /\ ord'[w2[t]] = NewOrder(t, pr[t], Lot)
              /\ level'[pr[t]] = OneOrder(w2[t])
  <2>1. CASE t = s
    BY <1>3, <1>10, <2>1 DEF Put
  <2>2. CASE t \in B
    <3>1. w[t] \in 1 .. arrived /\ w[t] # o /\ pr[t] # p /\ pr[t] \in DOMAIN level
      BY <1>6, <2>2 DEF Holds, Contents, Before
    <3>2. ord'[w[t]] = ord[w[t]] /\ level'[pr[t]] = level[pr[t]]
      BY <1>3, <1>10, <3>1 DEF Put
    <3> QED BY <1>3, <2>2, <3>1, <3>2 DEF Holds, Contents
  <2> QED BY <2>1, <2>2
<1>13. C = Side => pr["BUY"] < pr["SELL"]
  BY <1>2, <1>6, Sides DEF Before
<1> QED BY <1>3, <1>9, <1>10, <1>11, <1>12, <1>13 DEF Holds, Contents

(* cancel_order of the order on side s.                                    *)
LEMMA CancelHolds ==
    ASSUME NEW B \in SUBSET Side, NEW w, NEW pr, Holds(Contents, B, w, pr),
           NEW s \in B, arrived \in Nat, 1 .. arrived \subseteq Orders, DOMAIN ord = Orders,
           CancelOrder(w[s])
    PROVE  /\ Holds(Contents', B \ {s}, w, pr)
           /\ arrived' = arrived /\ pc' = pc /\ DOMAIN ord' = Orders
           /\ best' = BestPrices(levels')
<1> DEFINE o == w[s]
           p == pr[s]
           C == B \ {s}
<1>1. /\ o \in Orders /\ o \in 1 .. arrived /\ p \in Int /\ s \in Side
      /\ ord[o] = NewOrder(s, p, Lot) /\ level[p] = OneOrder(o)
  BY DEF Holds, Contents
<1>2. ord[o].price = p /\ ord[o].side = s /\ ord[o].remaining = Lot /\ is_active(o)
  BY <1>1 DEF NewOrder, is_active
<1>3. p \in DOMAIN level
  BY DEF Holds, Contents
<1>4. levels[s] = <<p>>
  BY DEF Holds, Contents
<1>5. empty(RemoveOrder(level[p], o, Lot, Live))
  BY <1>1, OneOrderRing
<1>6. /\ arrived' = arrived /\ pc' = pc
      /\ index' = index \ {o}
      /\ ord' = [ord EXCEPT ![o].status = "CANCELLED"]
      /\ level' = Erase(level, p)
      /\ levels' = [levels EXCEPT ![s] = RemoveLevel(levels[s], p)]
      /\ best' = BestPrices(levels')
  BY <1>2, <1>3, <1>5 DEF CancelOrder, callVars
<1>7. \A t \in C : t \in Side /\ t # s /\ w[t] # o /\ pr[t] # p
  <2> TAKE t \in C
  <2>1. t \in Side /\ t # s /\ B = Side /\ t \in B
    BY <1>1, Sides
  <2>2. ord[w[t]].side = t
    <3>1. ord[w[t]] = NewOrder(t, pr[t], Lot)
      BY <2>1 DEF Holds, Contents
    <3> QED BY <3>1 DEF NewOrder
  <2>3. pr[t] # pr[s]
    BY <2>1, <1>1, Sides DEF Holds, Contents
  <2> QED BY <1>2, <2>1, <2>2, <2>3
<1>8. levels' = [t \in Side |-> IF t \in C THEN <<pr[t]>> ELSE << >>]
  <2>1. RemoveLevel(levels[s], p) = << >>
    BY <1>1, <1>4, OnePrice
  <2> QED BY <1>6, <1>1, <2>1 DEF Holds, Contents
<1>9. DOMAIN level' = {pr[t] : t \in C} /\ index' = {w[t] : t \in C}
  BY <1>6, <1>7 DEF Holds, Contents, Erase
<1>10. ASSUME NEW t \in C
       PROVE  /\ pr[t] \in Int
              /\ w[t] \in 1 .. arrived'
              /\ ord'[w[t]] = NewOrder(t, pr[t], Lot)
              /\ level'[pr[t]] = OneOrder(w[t])
  <2>1. w[t] # o /\ pr[t] # p /\ pr[t] \in DOMAIN level /\ t \in B
    BY <1>7 DEF Holds, Contents
  <2>2. ord'[w[t]] = ord[w[t]] /\ level'[pr[t]] = level[pr[t]]
    BY <1>6, <2>1 DEF Erase
  <2> QED BY <1>6, <2>1, <2>2 DEF Holds, Contents
<1>11. C # Side /\ DOMAIN ord' = Orders
  BY <1>1, <1>6
<1> QED BY <1>6, <1>8, <1>9, <1>10, <1>11 DEF Holds, Contents

(* What is unchanged: the book says the same.                              *)
LEMMA SameContents == UNCHANGED <<index, level, levels, arrived, ord>> => Contents' = Contents
BY DEF Contents

(* An empty book holds nothing for anybody.                                *)
LEMMA HoldsNothing ==
    ASSUME NEW book, NEW w, NEW pr, NEW w2, NEW pr2, Holds(book, {}, w, pr)
    PROVE  Holds(book, {}, w2, pr2)
BY Sides DEF Holds

(* Adding an ask below which the bid rests: the best prices of the book    *)
(* are then the quote.                                                     *)
LEMMA BestOfBoth ==
    ASSUME NEW w, NEW pr, Holds(Contents', Side, w, pr)
    PROVE  BestPrices(levels') = [BUY |-> pr["BUY"], SELL |-> pr["SELL"]]
<1>1. levels'["BUY"] = <<pr["BUY"]>> /\ levels'["SELL"] = <<pr["SELL"]>>
  BY Sides DEF Holds, Contents
<1> QED BY <1>1 DEF BestPrices

(* Fewer than four ids are held while the new ask is still to come.        *)
LEMMA HeldOrders ==
    ASSUME fresh.SELL = 0
    PROVE  Cardinality(held) \in Nat /\ Cardinality(held) < 4
<1> DEFINE A == {active.BUY}
           C == A \cup {active.SELL}
           D == C \cup {fresh.BUY}
<1>1. IsFiniteSet(A) /\ Cardinality(A) = 1
  BY FS_Singleton
<1>2. IsFiniteSet(C) /\ Cardinality(C) \in Nat /\ Cardinality(C) <= 2
  BY <1>1, FS_AddElement
<1>3. IsFiniteSet(D) /\ Cardinality(D) \in Nat /\ Cardinality(D) <= 3
  <2> HIDE DEF C
  <2> QED BY <1>2, FS_AddElement
<1>4. held \subseteq D
  BY DEF held
<1> HIDE DEF D
<1> QED BY <1>3, <1>4, FS_Subset, FS_CardinalityType
-----------------------------------------------------------------------------
(* The simulator's steps.                                                  *)

(* The simulator starts with an empty book.                                *)
LEMMA SimulatorStart == MarketInit => MarketInv
<1> SUFFICES ASSUME MarketInit
             PROVE  MarketInv
  OBVIOUS
<1> USE DEF MarketInit, SimulatorInit, Init
<1>1. SimulatorTypes
  <2>1. MinPrice \in Int /\ Offset \in Int /\ price \in Int /\ pool \in Nat /\ MaxTicks \in Nat
    BY SimulatorAssumption
  <2>2. quote \in OnSides(Int) /\ best \in OnSides(Int)
    BY <2>1, PricesAssumption DEF OnSides
  <2>3. active \in OnSides(Nat) /\ fresh \in OnSides(Nat) /\ resting.id = active
    BY DEF OnSides, None
  <2> QED BY <2>1, <2>2, <2>3 DEF SimulatorTypes, BeforeTicks
<1>2. Acquired
  BY DEF Acquired
<1>3. BookInv
  <2>1. Holds(Contents, {}, fresh, quote)
    BY Sides DEF Holds, Contents
  <2> QED BY <2>1 DEF BookInv, Steady
<1>4. Published
  BY DEF Published
<1> QED BY <1>1, <1>2, <1>3, <1>4 DEF MarketInv

(* There is an order for every id that is acquired.                        *)
LEMMA EnoughOrders ==
    ASSUME MarketInv
    PROVE  /\ 1 .. arrived \subseteq Orders
           /\ spc \in {"initBid", "addBid", "initAsk", "addAsk"} =>
                 arrived + 1 \in Orders /\ arrived + 1 <= 2 + 2 * ticks
<1>1. arrived \in Nat /\ arrived <= 2 + 2 * ticks /\ ticks \in 0 .. MaxTicks
      /\ (spc \in {"initBid", "addBid", "initAsk", "addAsk"} => arrived + 1 <= 2 + 2 * ticks)
  BY SimulatorAssumption DEF MarketInv, SimulatorTypes, Acquired
<1>2. MaxTicks \in Nat /\ 1 .. 2 + 2 * MaxTicks \subseteq Orders
  BY SimulatorAssumption
<1> QED BY <1>1, <1>2

(* The new bid, into the empty book.                                       *)
LEMMA AddBidStep ==
    ASSUME MarketInv, AddFirstBid \/ AddBid
    PROVE  MarketInv'
<1>1. /\ spc \in {"initBid", "addBid"} /\ Holds(Contents, {}, fresh, quote)
      /\ SimulatorTypes /\ Acquired /\ fresh = None /\ pc = "idle"
      /\ arrived \in Nat /\ DOMAIN ord = Orders /\ arrived + 1 \in Orders
      /\ quote.BUY \in Int /\ quote.SELL \in Int
      /\ UNCHANGED <<pool, running, ticks, price, quote, active, resting>>
  BY EnoughOrders DEF MarketInv, SimulatorTypes, Acquired, BookInv, OnSides, AddFirstBid,
     AddBid, tickVars
<1>2. CASE Cardinality(held) < pool
  <2>1. /\ fresh' = [fresh EXCEPT !["BUY"] = arrived + 1]
        /\ AddOrder(arrived + 1, "BUY", quote["BUY"], Lot)
        /\ spc' = IF spc = "addBid" THEN "addAsk" ELSE "initAsk"
    BY <1>2 DEF AddFirstBid, AddBid, AddResting
  <2>2. fresh'["BUY"] = arrived + 1 /\ fresh' \in OnSides(Nat) /\ fresh'.SELL = 0
    BY <1>1, <2>1 DEF None, OnSides
  <2>3. /\ Holds(Contents', {"BUY"}, fresh', quote')
        /\ arrived' = arrived + 1 /\ pc' = pc /\ DOMAIN ord' = Orders
        /\ best' = BestPrices(levels')
    <3>1. {} \in SUBSET Side /\ "BUY" \in Side /\ "BUY" \notin {} /\ {} \cup {"BUY"} = {"BUY"}
      BY Sides
    <3>2. quote' = quote /\ quote["BUY"] \in Int /\ \A t \in {} : fresh'[t] = fresh[t]
      BY <1>1
    <3>3. /\ Holds(Contents', {"BUY"}, fresh', quote)
          /\ arrived' = arrived + 1 /\ pc' = pc /\ DOMAIN ord' = Orders
          /\ best' = BestPrices(levels')
      BY <1>1, <2>1, <2>2, <3>1, <3>2, AddHolds
    <3> QED BY <3>2, <3>3
  <2>4. best' \in OnSides(Int)
    <3>1. levels' = [s \in Side |-> IF s \in {"BUY"} THEN <<quote'[s]>> ELSE << >>]
      BY <2>3 DEF Holds, Contents
    <3>2. levels'["BUY"] = <<quote'["BUY"]>> /\ levels'["SELL"] = << >>
      BY <3>1, Sides
    <3> QED BY <1>1, <2>3, <3>2, PricesAssumption DEF BestPrices, OnSides
  <2>5. SimulatorTypes'
    BY <1>1, <2>1, <2>2, <2>3, <2>4 DEF SimulatorTypes, BeforeTicks, InTick
  <2>6. Acquired'
    BY <1>1, <2>1, <2>2, <2>3, SimulatorAssumption DEF Acquired, SimulatorTypes
  <2>7. BookInv'
    BY <1>1, <2>1, <2>3 DEF BookInv, Steady
  <2>8. Published'
    BY <1>1, <2>1 DEF Published
  <2> QED BY <2>5, <2>6, <2>7, <2>8 DEF MarketInv
<1>3. CASE AddBid /\ ~(Cardinality(held) < pool)
  <2>1. spc' = "callback" /\ UNCHANGED <<vars, fresh>>
    BY <1>3 DEF AddBid
  <2>2. pool < 4
    BY <1>1, <1>3, HeldOrders DEF SimulatorTypes, None
  <2>3. Holds(Contents', {}, active', resting'.price)
    BY <1>1, <2>1, SameContents, HoldsNothing DEF vars, bookVars
  <2>4. SimulatorTypes'
    BY <1>1, <2>1 DEF SimulatorTypes, InTick, vars, bookVars, callVars
  <2>5. Acquired'
    BY <1>1, <2>1 DEF Acquired, vars, SimulatorTypes
  <2>6. BookInv'
    BY <1>1, <2>1, <2>2, <2>3 DEF BookInv, Steady, Resters
  <2>7. Published'
    BY <1>1, <2>1, <2>2 DEF Published, SimulatorTypes
  <2> QED BY <2>4, <2>5, <2>6, <2>7 DEF MarketInv
<1>4. CASE AddFirstBid /\ ~(Cardinality(held) < pool)
  <2>1. spc' = "crashed" /\ UNCHANGED <<vars, fresh>>
    BY <1>4 DEF AddFirstBid
  <2>2. Holds(Contents', {}, fresh', quote')
    BY <1>1, <2>1, SameContents DEF vars, bookVars
  <2>3. SimulatorTypes'
    BY <1>1, <2>1 DEF SimulatorTypes, vars, bookVars, callVars
  <2>4. Acquired'
    BY <1>1, <2>1 DEF Acquired, vars, SimulatorTypes, None
  <2>5. BookInv'
    BY <1>1, <2>1, <2>2 DEF BookInv, Steady
  <2>6. Published'
    BY <2>1 DEF Published
  <2> QED BY <2>3, <2>4, <2>5, <2>6 DEF MarketInv
<1> QED BY <1>2, <1>3, <1>4

(* The new ask, above the bid; or the null pointer.                        *)
LEMMA AddAskStep ==
    ASSUME MarketInv, AddAsk
    PROVE  MarketInv'
<1>1. /\ spc \in {"initAsk", "addAsk"} /\ Holds(Contents, {"BUY"}, fresh, quote)
      /\ SimulatorTypes /\ Acquired /\ fresh.SELL = 0 /\ pc = "idle"
      /\ arrived \in Nat /\ DOMAIN ord = Orders /\ arrived + 1 \in Orders
      /\ quote.BUY \in Int /\ quote.SELL \in Int
      /\ UNCHANGED <<pool, running, ticks, price, quote, lastUpdate, active, resting>>
  BY EnoughOrders DEF MarketInv, SimulatorTypes, Acquired, BookInv, OnSides, AddAsk, tickVars
<1>2. CASE Cardinality(held) < pool
  <2>1. /\ fresh' = [fresh EXCEPT !["SELL"] = arrived + 1]
        /\ AddOrder(arrived + 1, "SELL", quote["SELL"], Lot)
        /\ spc' = IF spc = "addAsk" THEN "store" ELSE "initStore"
    BY <1>2 DEF AddAsk, AddResting
  <2>2. fresh'["SELL"] = arrived + 1 /\ fresh' \in OnSides(Nat) /\ fresh'["BUY"] = fresh["BUY"]
    BY <1>1, <2>1 DEF SimulatorTypes, OnSides
  <2>3. /\ Holds(Contents', Side, fresh', quote')
        /\ arrived' = arrived + 1 /\ pc' = pc /\ DOMAIN ord' = Orders
        /\ best' = BestPrices(levels')
    <3> DEFINE B == {"BUY"}
               C == B \cup {"SELL"}
    <3>1. B \in SUBSET Side /\ "SELL" \in Side /\ "SELL" \notin B
      BY Sides
    <3>2. quote' = quote /\ quote["SELL"] \in Int /\ \A t \in B : fresh'[t] = fresh[t]
      BY <1>1, <2>2
    <3>3. Holds(Contents, B, fresh, quote) /\ AddOrder(arrived + 1, "SELL", quote["SELL"], Lot)
      BY <1>1, <2>1
    <3>4. C = Side
      BY Sides
    <3> HIDE DEF B
    <3>5. /\ Holds(Contents', C, fresh', quote)
          /\ arrived' = arrived + 1 /\ pc' = pc /\ DOMAIN ord' = Orders
          /\ best' = BestPrices(levels')
      BY <1>1, <2>2, <3>1, <3>2, <3>3, AddHolds
    <3> HIDE DEF C
    <3> QED BY <3>2, <3>4, <3>5
  <2>4. best' = quote' /\ best' \in OnSides(Int)
    BY <1>1, <2>3, BestOfBoth DEF SimulatorTypes, OnSides
  <2>5. SimulatorTypes'
    BY <1>1, <2>1, <2>2, <2>3, <2>4 DEF SimulatorTypes, BeforeTicks, InTick
  <2>6. Acquired'
    BY <1>1, <2>1, <2>2, <2>3, SimulatorAssumption DEF Acquired, SimulatorTypes
  <2>7. BookInv'
    BY <1>1, <2>1, <2>3 DEF BookInv, Steady
  <2>8. Published'
    BY <1>1, <2>1, <2>4 DEF Published
  <2> QED BY <2>5, <2>6, <2>7, <2>8 DEF MarketInv
<1>3. CASE ~(Cardinality(held) < pool)
  <2>1. spc' = "crashed" /\ UNCHANGED <<vars, fresh>>
    BY <1>3 DEF AddAsk
  <2>2. Contents' = Contents
    BY <2>1, SameContents DEF vars, bookVars
  <2>3. Holds(Contents', {"BUY"}, fresh', quote')
    BY <1>1, <2>1, <2>2
  <2>4. SimulatorTypes'
    BY <1>1, <2>1 DEF SimulatorTypes, InTick, vars, bookVars, callVars
  <2>5. Acquired'
    BY <1>1, <2>1 DEF Acquired, vars, SimulatorTypes
  <2>6. BookInv'
    BY <1>1, <2>1, <2>3 DEF BookInv, Steady
  <2>7. Published'
    BY <2>1 DEF Published
  <2> QED BY <2>4, <2>5, <2>6, <2>7 DEF MarketInv
<1> QED BY <1>2, <1>3

(* The resting orders are stored.                                          *)
LEMMA StoreKeepsBook ==
    ASSUME MarketInv, Store
    PROVE  MarketInv'
<1>1. /\ spc \in {"initStore", "store"} /\ Holds(Contents, Side, fresh, quote)
      /\ SimulatorTypes /\ Acquired /\ Published
  BY DEF MarketInv, BookInv, Store
<1>2. /\ active' = fresh /\ fresh' = None /\ resting' = [id |-> fresh, price |-> quote]
      /\ spc' = IF spc = "store" THEN "callback" ELSE "tick"
      /\ UNCHANGED <<vars, pool, running, ticks, price, quote>>
  BY DEF Store, StoreActive
<1>3. Contents' = Contents
  BY <1>2, SameContents DEF vars, bookVars
<1>4. Holds(Contents', Side, active', resting'.price)
  <2>1. resting'.price = quote
    BY <1>2
  <2> QED BY <1>1, <1>2, <1>3, <2>1
<1>5. SimulatorTypes'
  <2>1. resting'.id = active' /\ active' \in OnSides(Nat) /\ fresh' \in OnSides(Nat)
    BY <1>1, <1>2 DEF SimulatorTypes, OnSides, None
  <2> QED BY <1>1, <1>2, <2>1 DEF SimulatorTypes, BeforeTicks, InTick, vars, bookVars, callVars
<1>6. Acquired'
  BY <1>1, <1>2 DEF Acquired, SimulatorTypes, vars
<1>7. BookInv'
  BY <1>2, <1>4 DEF BookInv, Steady, Resters
<1>8. Published'
  BY <1>1, <1>2 DEF Published, vars, bookVars
<1> QED BY <1>5, <1>6, <1>7, <1>8 DEF MarketInv

(* A tick or the publication of its quote changes best prices only.        *)
LEMMA QuoteStep ==
    ASSUME MarketInv, PublishAsk \/ \E d \in Deltas, s \in Spreads : Tick(d, s)
    PROVE  MarketInv'
<1>1. /\ spc \in {"tick", "publishAsk"} /\ Resters(Side)
      /\ SimulatorTypes /\ Acquired /\ Published
  BY DEF MarketInv, BookInv, Steady, PublishAsk, Tick
<1>2. /\ spc' \in {"publishAsk", "cancelBid", "callback"}
      /\ UNCHANGED <<ord, arrived, level, levels, index, pc, pool, active, fresh, resting>>
  BY DEF PublishAsk, Tick, orderVars
<1>3. Contents' = Contents
  BY <1>2, SameContents
<1>4. BookInv'
  BY <1>1, <1>2, <1>3 DEF BookInv, Steady, Resters
<1>5. CASE PublishAsk
  <2>1. /\ spc = "publishAsk" /\ best' = [best EXCEPT !["SELL"] = quote.SELL]
        /\ spc' \in {"cancelBid", "callback"} /\ UNCHANGED <<ticks, price, quote>>
    BY <1>5 DEF PublishAsk
  <2>2. best' \in OnSides(Int) /\ best'.SELL = quote.SELL /\ best'.BUY = best.BUY
    BY <1>1, <2>1 DEF SimulatorTypes, OnSides
  <2>3. SimulatorTypes'
    BY <1>1, <1>2, <2>1, <2>2 DEF SimulatorTypes, InTick
  <2>4. Acquired'
    BY <1>1, <1>2, <2>1 DEF Acquired, SimulatorTypes
  <2>5. Published'
    <3>1. best.BUY = quote.BUY => best' = quote
      BY <1>1, <2>2 DEF SimulatorTypes, OnSides
    <3> QED BY <1>1, <1>2, <2>1, <3>1 DEF Published
  <2> QED BY <1>4, <2>3, <2>4, <2>5 DEF MarketInv
<1>6. ASSUME NEW d \in Deltas, NEW s \in Spreads, Tick(d, s)
      PROVE  MarketInv'
  <2> DEFINE p == ClampTo(MinPrice, MaxPrice, price + d)
             q == QuoteAt(p, s)
  <2>1. /\ spc = "tick" /\ ticks < MaxTicks /\ ticks' = ticks + 1
        /\ price' = p /\ quote' = q /\ best' = [best EXCEPT !["BUY"] = q.BUY]
        /\ spc' = "publishAsk"
    BY <1>6 DEF Tick
  <2>2. p \in Int
    BY <1>1, SimulatorAssumption DEF ClampTo, SimulatorTypes
  <2>3. q \in OnSides(Int)
    <3>1. s \div 2 \in Int
      BY SimulatorAssumption
    <3> HIDE DEF p
    <3> QED BY <2>2, <3>1, SimulatorAssumption DEF QuoteAt, OnSides
  <2> HIDE DEF p, q
  <2>4. best' \in OnSides(Int) /\ best'.BUY = quote'.BUY
    BY <1>1, <2>1, <2>3 DEF SimulatorTypes, OnSides
  <2>5. SimulatorTypes'
    BY <1>1, <1>2, <2>1, <2>2, <2>3, <2>4, SimulatorAssumption DEF SimulatorTypes, InTick
  <2>6. Acquired'
    BY <1>1, <1>2, <2>1 DEF Acquired, SimulatorTypes
  <2>7. Published'
    BY <2>1, <2>4 DEF Published
  <2> QED BY <1>4, <2>5, <2>6, <2>7 DEF MarketInv
<1> QED BY <1>5, <1>6

(* The best prices of what the book holds are prices.                      *)
LEMMA BestType ==
    ASSUME NEW B, NEW w, NEW pr, Holds(Contents', B, w, pr)
    PROVE  BestPrices(levels') \in OnSides(Int)
<1>1. \A s \in Side : levels'[s] = << >> \/ (levels'[s] = <<pr[s]>> /\ pr[s] \in Int)
  BY DEF Holds, Contents
<1>2. \A s \in Side : levels'[s] # << >> => levels'[s][1] \in Int
  BY <1>1
<1> QED BY <1>2, Sides, PricesAssumption DEF BestPrices, OnSides

(* The cancellation of the order that rests on side s, if there is one.    *)
LEMMA CancelRestingStep ==
    ASSUME MarketInv, NEW B \in SUBSET Side, NEW s \in B, Resters(B),
           CancelResting(s), UNCHANGED <<active, resting, pool>>
    PROVE  /\ \/ Holds(Contents', B \ {s}, active', resting'.price)
              \/ pool < 4 /\ Holds(Contents', {}, active', resting'.price)
           /\ arrived' = arrived /\ pc' = pc /\ DOMAIN ord' = Orders
           /\ best' \in OnSides(Int)
<1>1. /\ arrived \in Nat /\ 1 .. arrived \subseteq Orders /\ DOMAIN ord = Orders
      /\ resting.id = active /\ best \in OnSides(Int)
  BY EnoughOrders DEF MarketInv, SimulatorTypes, Acquired
<1> DEFINE w == active
           pr == resting.price
<1>2. w' = w /\ pr' = pr
  OBVIOUS
<1> HIDE DEF pr
<1>3. CASE Holds(Contents, B, w, pr)
  <2>1. w[s] \in index
    BY <1>3 DEF Holds, Contents
  <2>2. CancelOrder(w[s])
    BY <1>1, <2>1 DEF CancelResting
  <2>3. /\ Holds(Contents', B \ {s}, w, pr) /\ best' = BestPrices(levels')
        /\ arrived' = arrived /\ pc' = pc /\ DOMAIN ord' = Orders
    BY <1>1, <1>3, <2>2, CancelHolds
  <2>4. best' \in OnSides(Int)
    BY <2>3, BestType
  <2> QED BY <1>2, <2>3, <2>4 DEF pr
<1>4. CASE pool < 4 /\ Holds(Contents, {}, w, pr)
  <2>1. index = {}
    BY <1>4 DEF Holds, Contents
  <2>2. UNCHANGED vars
    BY <2>1 DEF CancelResting
  <2>3. Contents' = Contents
    BY <2>2, SameContents DEF vars, bookVars
  <2>4. Holds(Contents', {}, w', pr')
    BY <1>2, <1>4, <2>3
  <2> QED BY <1>1, <1>4, <2>2, <2>4 DEF vars, bookVars, callVars, pr
<1> QED BY <1>3, <1>4 DEF Resters, pr

(* Both old orders are cancelled.                                          *)
LEMMA CancelStep ==
    ASSUME MarketInv, CancelBid \/ CancelAsk
    PROVE  MarketInv'
<1>1. SimulatorTypes /\ Acquired
  BY DEF MarketInv
<1>2. /\ spc \in {"cancelBid", "cancelAsk"}
      /\ spc' = IF spc = "cancelBid" THEN "cancelAsk" ELSE "addBid"
      /\ CancelResting(IF spc = "cancelBid" THEN "BUY" ELSE "SELL")
      /\ UNCHANGED <<pool, running, ticks, price, quote, active, fresh, resting>>
  BY DEF CancelBid, CancelAsk, tickVars, orderVars
<1>3. /\ spc = "cancelBid" =>
            \/ Holds(Contents', {"SELL"}, active', resting'.price)
            \/ pool < 4 /\ Holds(Contents', {}, active', resting'.price)
      /\ spc = "cancelAsk" => Holds(Contents', {}, active', resting'.price)
      /\ arrived' = arrived /\ pc' = pc /\ DOMAIN ord' = Orders
      /\ best' \in OnSides(Int)
  <2>1. CASE spc = "cancelBid"
    <3>1. Resters(Side) /\ CancelResting("BUY")
      BY <1>2, <2>1 DEF MarketInv, BookInv, Steady
    <3>2. "BUY" \in Side /\ Side \in SUBSET Side
      BY Sides
    <3>3. /\ \/ Holds(Contents', Side \ {"BUY"}, active', resting'.price)
             \/ pool < 4 /\ Holds(Contents', {}, active', resting'.price)
          /\ arrived' = arrived /\ pc' = pc /\ DOMAIN ord' = Orders
          /\ best' \in OnSides(Int)
      BY <1>2, <3>1, <3>2, CancelRestingStep
    <3>4. Side \ {"BUY"} = {"SELL"}
      BY Sides
    <3> QED BY <2>1, <3>3, <3>4
  <2>2. CASE spc = "cancelAsk"
    <3>1. Resters({"SELL"}) /\ CancelResting("SELL")
      BY <1>2, <2>2 DEF MarketInv, BookInv
    <3>2. "SELL" \in {"SELL"} /\ {"SELL"} \in SUBSET Side
      BY Sides
    <3>3. /\ \/ Holds(Contents', {"SELL"} \ {"SELL"}, active', resting'.price)
             \/ pool < 4 /\ Holds(Contents', {}, active', resting'.price)
          /\ arrived' = arrived /\ pc' = pc /\ DOMAIN ord' = Orders
          /\ best' \in OnSides(Int)
      BY <1>2, <3>1, <3>2, CancelRestingStep
    <3>4. {"SELL"} \ {"SELL"} = {}
      OBVIOUS
    <3> QED BY <2>2, <3>3, <3>4
  <2> QED BY <1>2, <2>1, <2>2
<1>4. spc = "cancelAsk" => Holds(Contents', {}, fresh', quote')
  BY <1>3, HoldsNothing
<1>5. SimulatorTypes'
  BY <1>1, <1>2, <1>3 DEF SimulatorTypes, InTick
<1>6. Acquired'
  BY <1>1, <1>2, <1>3 DEF Acquired, SimulatorTypes
<1>7. BookInv'
  BY <1>2, <1>3, <1>4 DEF BookInv, Steady, Resters
<1>8. Published'
  BY <1>2 DEF Published
<1> QED BY <1>5, <1>6, <1>7, <1>8 DEF MarketInv

(* What goes on around the book changes nothing in it: the callback and    *)
(* its write, the end of the loop, and what the other threads do.          *)
LEMMA AroundStep ==
    ASSUME MarketInv,
           UNCHANGED <<vars, pool, ticks, price, quote, fresh>>,
           \/ spc' = spc /\ UNCHANGED <<active, resting>>
           \/ spc \in {"tick", "callback", "write"} /\ spc' \in {"tick", "write", "left"}
              /\ UNCHANGED <<active, resting>>
           \/ spc = "left" /\ spc' = "cleared" /\ active' = None
              /\ resting' = [id |-> None, price |-> None]
    PROVE  MarketInv'
<1>1. Contents' = Contents
  BY SameContents DEF vars, bookVars
<1>2. UNCHANGED <<pc, best, arrived, ord>>
  BY DEF vars, bookVars, callVars
<1>3. CASE UNCHANGED <<active, resting>> /\ spc' = spc
  BY <1>1, <1>2, <1>3 DEF MarketInv, SimulatorTypes, Acquired, BookInv, Published, Resters
<1>4. CASE UNCHANGED <<active, resting>> /\ spc \in {"tick", "callback", "write"}
           /\ spc' \in {"tick", "write", "left"}
  <2>1. SimulatorTypes'
    BY <1>2, <1>4 DEF MarketInv, SimulatorTypes, BeforeTicks
  <2>2. Acquired'
    BY <1>2, <1>4 DEF MarketInv, Acquired, SimulatorTypes
  <2>3. BookInv'
    BY <1>1, <1>4 DEF MarketInv, BookInv, Steady, Resters
  <2>4. Published'
    BY <1>2, <1>4 DEF MarketInv, Published
  <2> QED BY <2>1, <2>2, <2>3, <2>4 DEF MarketInv
<1>5. CASE spc = "left" /\ spc' = "cleared" /\ active' = None
           /\ resting' = [id |-> None, price |-> None]
  <2>1. SimulatorTypes'
    BY <1>2, <1>5 DEF MarketInv, SimulatorTypes, OnSides, None
  <2>2. Acquired' /\ BookInv' /\ Published'
    BY <1>2, <1>5 DEF MarketInv, Acquired, SimulatorTypes, BookInv, Steady, Published
  <2> QED BY <2>1, <2>2 DEF MarketInv
<1> QED BY <1>3, <1>4, <1>5

(* Every step of the program keeps the invariant of the simulator's book.  *)
LEMMA MarketStep == MarketInv /\ [MarketNext]_marketVars => MarketInv'
<1> SUFFICES ASSUME MarketInv, [MarketNext]_marketVars
             PROVE  MarketInv'
  OBVIOUS
<1>1. CASE Simulate
  <2>1. CASE Callback \/ WriteState \/ Leave
    BY <2>1, AroundStep DEF Callback, WriteState, Leave, tickVars, orderVars
  <2> QED BY <1>1, <2>1, AddBidStep, AddAskStep, StoreKeepsBook, QuoteStep, CancelStep
          DEF Simulate, SimulatorStep
<1>2. CASE Close \/ Shutdown
  <2>1. CASE JoinSimulator
    BY <2>1, AroundStep DEF JoinSimulator, ClearRestingOrders, tickVars
  <2>2. CASE Close \/ SaveBegin \/ SaveEnd \/ StopSimulator \/ JoinThread
    BY <2>2, AroundStep DEF Close, SaveBegin, SaveEnd, StopSimulator, Stop, JoinThread,
                            simVars, tickVars, orderVars
  <2> QED BY <1>2, <2>1, <2>2 DEF Shutdown
<1>3. CASE Observe \/ UNCHANGED marketVars
  BY <1>3, AroundStep DEF Observe, marketVars, simVars, tickVars, orderVars
<1> QED BY <1>1, <1>2, <1>3 DEF MarketNext

(* At every step of the simulator its book holds exactly the orders that   *)
(* the simulator has for it.                                               *)
THEOREM MarketInvariance == MarketSpec => []MarketInv
BY SimulatorStart, MarketStep, PTL DEF MarketSpec

(* Between two ticks, with four orders in the pool, there is one order on  *)
(* each side, at the prices that are noted, not crossed, and the best      *)
(* prices that the cancels and adds have overwritten are the tick's quote: *)
(* update_resting_orders, after any number of ticks.                       *)
THEOREM QuotesBothSides == MarketSpec => []TwoSidedMarket
<1>1. MarketInv => TwoSidedMarket
  <2> SUFFICES ASSUME MarketInv, Between, pool >= 4
               PROVE  /\ index = {active.BUY, active.SELL}
                      /\ \A s \in {"BUY", "SELL"} : levels[s] = <<resting.price[s]>>
                      /\ resting.price.BUY < resting.price.SELL
                      /\ best = quote
    BY DEF TwoSidedMarket
  <2>1. Holds(Contents, Side, active, resting.price) /\ best = quote
    BY DEF MarketInv, SimulatorTypes, BookInv, Steady, Resters, Published, Between
  <2> QED BY <2>1, Sides DEF Holds, Contents
<1> QED BY <1>1, MarketInvariance, PTL

(* What the book holds is held, when it is held for its sides.             *)
LEMMA HeldByBook ==
    ASSUME MarketInv, NEW B \in SUBSET Side, NEW w, NEW pr, Holds(Contents, B, w, pr),
           \A s \in B : w[s] \in {active.BUY, active.SELL, fresh.BUY, fresh.SELL}
    PROVE  index \cup UNION {Queued(level[p]) : p \in DOMAIN level} \subseteq held
<1>1. /\ index = {w[s] : s \in B} /\ DOMAIN level = {pr[s] : s \in B}
      /\ \A s \in B : w[s] \in 1 .. arrived /\ level[pr[s]] = OneOrder(w[s])
  BY DEF Holds, Contents
<1>2. \A s \in B : w[s] \in Orders /\ w[s] \in held
  BY <1>1, EnoughOrders DEF held, MarketInv, Acquired
<1>3. \A p \in DOMAIN level : Queued(level[p]) \subseteq held
  <2> TAKE p \in DOMAIN level
  <2>1. PICK s \in B : p = pr[s]
    BY <1>1
  <2>2. Queued(level[p]) \subseteq {w[s]}
    BY <1>1, <1>2, <2>1, OneOrderRing
  <2> QED BY <1>2, <2>2
<1> QED BY <1>1, <1>2, <1>3

(* Until clear_resting_orders, neither the index nor a slot of a ring      *)
(* refers to an order that went back to the pool: both old orders are      *)
(* cancelled before the new ones take the place of their PooledPtrs, also  *)
(* when the pool has no order for the second of them.                      *)
THEOREM NoOrderOutlivesItsPointer == MarketSpec => []BookHoldsLiveOrders
<1>1. MarketInv => BookHoldsLiveOrders
  <2> SUFFICES ASSUME MarketInv, spc # "cleared"
               PROVE  index \cup UNION {Queued(level[p]) : p \in DOMAIN level} \subseteq held
    BY DEF BookHoldsLiveOrders
  <2>1. \A s \in Side : /\ active[s] \in {active.BUY, active.SELL, fresh.BUY, fresh.SELL}
                        /\ fresh[s] \in {active.BUY, active.SELL, fresh.BUY, fresh.SELL}
    BY Sides
  <2>2. \/ \E B \in SUBSET Side : Holds(Contents, B, fresh, quote)
        \/ \E B \in SUBSET Side : Holds(Contents, B, active, resting.price)
    <3>1. {} \in SUBSET Side /\ {"BUY"} \in SUBSET Side /\ {"SELL"} \in SUBSET Side
          /\ Side \in SUBSET Side
      BY Sides
    <3>2. spc \in {"initBid", "addBid", "initAsk", "addAsk", "crashed", "initStore", "store",
                   "cancelAsk"} \cup Steady
      BY DEF MarketInv, SimulatorTypes, BeforeTicks, InTick, Steady
    <3> QED BY <3>1, <3>2 DEF MarketInv, BookInv, Resters
  <2> QED BY <2>1, <2>2, HeldByBook
<1> QED BY <1>1, MarketInvariance, PTL

-----------------------------------------------------------------------------
(* The simulator never asks for what add_order does not promise.           *)

(* The quotes of the program: the first orders rest at a distance from the *)
(* price, and no spread is so narrow that a quote of the walk crosses.     *)
QuotesApart ==
    /\ Offset > 0 /\ MinPrice <= MaxPrice
    /\ \A p \in MinPrice .. MaxPrice, s \in Spreads : QuoteAt(p, s).BUY < QuoteAt(p, s).SELL

(* The bid of the quote is below its ask.                                  *)
Apart == quote.BUY < quote.SELL

(* Every quote is one of the first or one of a tick.                       *)
LEMMA ApartStep ==
    ASSUME QuotesApart, MarketInv, Apart, [MarketNext]_marketVars
    PROVE  Apart'
<1>1. ASSUME NEW d \in Deltas, NEW s \in Spreads, Tick(d, s)
      PROVE  Apart'
  <2> DEFINE p == ClampTo(MinPrice, MaxPrice, price + d)
  <2>1. p \in MinPrice .. MaxPrice
    BY SimulatorAssumption DEF ClampTo, QuotesApart, MarketInv, SimulatorTypes
  <2>2. quote' = QuoteAt(p, s)
    BY <1>1 DEF Tick
  <2> HIDE DEF p
  <2> QED BY <2>1, <2>2 DEF Apart, QuotesApart
<1>2. CASE quote' = quote
  BY <1>2 DEF Apart
<1>3. quote' = quote \/ \E d \in Deltas, s \in Spreads : Tick(d, s)
  <2>1. CASE Simulate
    BY <2>1 DEF Simulate, SimulatorStep, AddFirstBid, AddBid, AddAsk, Store, PublishAsk, CancelBid, CancelAsk,
                Callback, WriteState, Leave, tickVars
  <2>2. CASE Close \/ Shutdown
    BY <2>2 DEF Close, Shutdown, SaveBegin, SaveEnd, StopSimulator, Stop, JoinSimulator,
                ClearRestingOrders, JoinThread, simVars, tickVars
  <2>3. CASE Observe \/ UNCHANGED marketVars
    BY <2>3 DEF Observe, marketVars, simVars, tickVars
  <2> QED BY <2>1, <2>2, <2>3 DEF MarketNext
<1> QED BY <1>1, <1>2, <1>3

(* The preconditions under which the book is modelled, a ring with room    *)
(* and prices that do not cross, hold whenever the simulator adds an       *)
(* order: they never keep the model from a step that the code takes.       *)
THEOREM SimulatorKeepsThePreconditions ==
    ASSUME QuotesApart
    PROVE  MarketSpec => []AddsWithinLimits
<1>1. MarketInit => Apart
  BY SimulatorAssumption DEF MarketInit, SimulatorInit, Apart, QuotesApart
<1>2. MarketInv /\ Apart => AddsWithinLimits
  <2> SUFFICES ASSUME MarketInv, Apart, NEW s \in Side,
                      spc \in (IF s = "BUY" THEN {"initBid", "addBid"} ELSE {"initAsk", "addAsk"})
               PROVE  RoomAt(s, quote[s]) /\ NonCrossing(s, quote[s])
    BY DEF AddsWithinLimits
  <2>1. CASE s = "BUY"
    <3>1. levels["BUY"] = << >> /\ levels["SELL"] = << >>
      BY <2>1, Sides DEF MarketInv, BookInv, Holds, Contents
    <3> QED BY <2>1, <3>1, Sides DEF RoomAt, NonCrossing, ToSet
  <2>2. CASE s = "SELL"
    <3>1. levels["BUY"] = <<quote["BUY"]>> /\ levels["SELL"] = << >>
      BY <2>2, Sides DEF MarketInv, BookInv, Holds, Contents
    <3>2. ToSet(levels["BUY"]) = {quote["BUY"]} /\ ToSet(levels["SELL"]) = {}
      BY <3>1 DEF ToSet
    <3> QED BY <2>2, <3>2, Sides DEF RoomAt, NonCrossing, Before, Apart
  <2> QED BY <2>1, <2>2, Sides
<1>3. MarketInv /\ Apart /\ [MarketNext]_marketVars => Apart'
  BY ApartStep
<1> QED BY <1>1, <1>2, <1>3, MarketInvariance, PTL DEF MarketSpec
=============================================================================
