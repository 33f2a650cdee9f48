# A verification project for the trading engine

This directory holds TLA+ models of the engine in `src/`, the TLC
configurations that check them, and proofs of their central properties that
TLAPS checks. Paths are relative to the repository's root.

## 1. The system

The program (`src/main.cpp`) simulates trading in five symbols. Each symbol has
a `SymbolEngine` with **two** order books: `m_book`, which the market simulator
fills and which the snapshots are taken of, and the book inside its
`MatchingEngine`, where the orders of the bots trade. The bots thus see one book
and trade in the other.

| Thread | Does |
|---|---|
| worker, one per symbol (main.cpp:113) | `run_match_cycle` in a loop: pops orders, checks risk, matches, books positions, sends reports |
| snapshot thread, one per symbol (main.cpp:125) | `update` of the snapshot manager, `get_snapshot`, runs the bots, `release_snapshot`; moves the bots' orders into the engine's queue; sweeps finished orders |
| cancel thread (main.cpp:180) | pops cancels, calls `cancel_order` on the engines' books, with no lock |
| simulator (market_sim.cpp) | quotes and resting orders in every `m_book`, callback that writes the state file |
| main | waits, stops and joins all others, drains the engines |

### Components

| Component | State | Operations | What makes it correct |
|---|---|---|---|
| Price level, `book/price_level` | ring of 128 order pointers, head, tail, size, total quantity | add, remove (lazy), match, advance | FIFO; every resting order is in the window once; size and total agree with the content |
| Order book, `book/order_book` | two sorted vectors of levels, map price to level, index id to place, best prices, depths, sequence | add, match, cancel, set_market_price | never crossed; the structures name the same levels; price-time priority; depth is what can be traded; match returns |
| Snapshots, `book/book_snapshot` | three nodes with reference counts, `m_current` | update, get, release | a held snapshot never changes and is not older than its number; counts are exact; changes get through |
| Matching engine, `matching/` | queue, book, counters | submit, run_match_cycle, cancel | each trade booked for both sides and reported once; rejected orders leave no trace; queued orders are processed |
| Risk manager, `risk/risk_manager` | 256 slots of uint32 counters and a limit, breaker | check_order, breaker; set limit (tests only), update_position (no caller) | a refused order leaves no trace; no buy beyond the limit, which is one on each order |
| Position manager, `risk/position_manager` | per symbol net, P&L, average, totals | update_position, getters | position is bought less sold; P&L and average within their words |
| Execution gateway, `gateway/` | pool of reports, queues of workers | send_order, send_report, receive_report | reports are read before their memory is reused |
| Market simulator, state store, `sim/env` | resting orders from a pool; a file | start, stop, update; read, write | orders outlive their slots in the book; the market stays two-sided; state survives a kill |
| Bots and bot manager, `sim/strategy` | countdowns, counters of ids, windows of prices; queues of orders and cancels | on_snapshot, push, pop | the rate of submissions is bounded; ids are unique |
| main's threads | pools and storage of orders, `g_running` | pop and submit, sweep, joins, drain | the worker follows no pointer to memory that was given back; the program ends |
| Feed handler, ITCH tools | callbacks, counts; chunks of a file | process, route, drain; write messages | framing of messages; reader and writer agree on every field |
| FIX encoder | none | formatting | |

Hard behaviours: lazy deletion in a ring of fixed size; an index whose entries
outlive their levels; unlocked readers against a writer that reuses nodes;
cancels from another thread; orders and reports in pooled memory to which a ring
or a queue may still point; several producers on a queue made for one; unsigned
arithmetic in the risk check; countdowns that limit the bots; messages cut in two
by a chunk; the end of the program with orders in flight.
`PROJECT.json` lists each under "hazards" with its line.

## 2. Modules

| Module | Models | State and actions |
|---|---|---|
| `PriceLevel` | price_level.cpp | No variables: a level is a record of the class's members, each method an operator. `advance`'s loop is the choice of the number of dead slots it drops. |
| `OrderBook` | order_book.cpp, match_order's loop, Order's fields | Variables are the members of `OrderBook`, the `Order` objects and the locals of a running `match`. `AddOrder`, `MatchBegin`, `CancelOrder`, `SetMarketPrice` are calls; `LevelTop`, `LevelDry`, `FillStep`, `LevelDone`, `MatchEnd` are the turns of match's two loops. |
| `LimitOrderBook` | what a book promises | Resting orders, one taker; one trade a step, best price then oldest first. |
| `OrderBookProofs` | | Proofs about `OrderBook`: its containers, then what its rings hold, its counters and the refinement. |
| `BookSnapshot` | book_snapshot.cpp | One action per access to the shared nodes of `update`, `get_snapshot`, `release_snapshot`; the writer's store buffer. |
| `SnapshotRegister` | what the manager promises | An atomic register of snapshots. |
| `BookSnapshotProofs` | | Proofs about `BookSnapshot`. |
| `RiskManager` | risk_manager.cpp | check_order as an operator on the slots, and the breaker. update_position has no caller, so the slots stay as they were made. |
| `PositionManager` | position_manager.cpp | `update_position` as an operator on records, in the widths of the code. |
| `MatchingEngine` | matching_engine.cpp | Extends `OrderBook`, instantiates `RiskManager` and `PositionManager`, and adds the queue, `process_order`'s place and the reports. A rejection is two steps, because the sweep may come between the status and the report. |
| `SnapshotThread` | main.cpp:132-143 | The first half of the thread's loop, one action per call. |
| `MarketSimulator` | market_sim.cpp, main's callback, market_state_store.hpp | Extends `OrderBook` by the simulator thread, one action per call on it; `set_market_price` is two stores. Variables are the members and the locals that outlive a call; `file` is the state file, and a save may fail to open it. |
| `MarketData` | main.cpp:201-250 | Extends `MarketSimulator` by `SnapshotThread`, over one book, and by main's final save, `stop` and joins. |
| `MarketDataProofs` | | Proofs about `MarketSimulator` and `MarketData`. |
| `Bots` | bots.hpp, bot_manager.cpp | One operator per strategy gives the set of its outcomes on a snapshot; `OnSnapshot` is the next bot's turn with its pushes, `PopOrders` the snapshot thread's loop over the queue, `OtherMaker` the market makers of the other symbols on the shared static counter. |
| `BotsProofs` | | Proofs about `Bots`. |
| `OrderLifecycle` | main.cpp:113-177, 223-268 | The second half of the snapshot thread (pop, acquire, submit, sweep), the worker's loop and main's joins and drain; extends `MatchingEngine`. |
| `EngineProofs` | | Proofs about `MatchingEngine` and `OrderLifecycle`. |
| `ExecutionGateway` | execution_gateway.cpp | `send_report` in steps: choice of the worker, acquire, copy, the push as a read of the tail and a store, the count, the release of the slot. |
| `Itch` | the bytes of messages: create_itch.cpp:9-56, the parsers of feed_handler.cpp | No variables; one operator per function. |
| `ItchReplay` | itch_parser.cpp's loop, `FeedHandler::process` | One action per chunk, per message and per way out of the loop. |
| `GatewayProofs` | | Proofs about `ExecutionGateway`. |
| `SetSums` | | Lemmas about sums over finite sets, which the counts above are. |
| `MC...` | | Instances for TLC. |

Where a module departs from the letter of the code:

- Orders are named by ids that grow with arrival. A slot of the ring holds an id;
  what a method reads through the pointer is the set `Live` (status NEW or
  PARTIAL, quantity left). An id is never reused: `OrderLifecycle` and
  `MarketSimulator` say which ids have their memory, and check that nothing else
  is followed.
- `AddOrder` takes only orders that do not cross the book, because add_order's
  caller, the simulator, sends only such; a price of the other side is match's.
- `RingLimit` keeps the rings below their last slot in the passing runs: the code
  does not, and the run `ring_full` drops the limit.
- `BookSnapshot` reads the levels of the book in one step (`CaptureData`): walking
  the vectors while the simulator changes them is a data race.
- Containers are changed at one instant. A cancel from the other thread that
  overlaps `process_order` is a data race on them; cancels come between orders.
- The store buffer in `BookSnapshot` is that of x86: the compilation is for it
  (the program reads the TSC), and a release store is a plain store there.
- Counters of depth are integers, not words: `DepthIsLiveQuantity` shows that
  they do not go below zero, and the quantities of one book stay far below 2^32.
- Signed overflow in PositionManager is undefined in the language; the model lets
  it wrap, which is what the compiler emits. The engine's runs bound the values.
- `Bots` keeps mid prices doubled and compares squared z-scores, so that what the
  code does in doubles is exact; that the two differ by rounding errors is left
  out. Quantities are left out: nothing the bots do depends on them. The vector of
  countdowns is a function from order ids to countdowns: the code only asks how
  many there are, and takes one off each. `recent`, `spikes`, `ids`,
  `sides` and `clash` remember what was sent; no guard reads them.
- A push into a queue that another engine pushes into at the same time loses
  reports in `ExecutionGateway`; a real race might do worse.
- In `ItchReplay` the type of a message of two bytes at the very end of a chunk
  is read past the bytes of the chunk: it is any type.

## 3. Runs

Most of the invariants that the runs check are proved as well (section 5). The runs
show them on small instances, with their mutants: that they can fail.

| Run | Bounds | Why they are enough | Shows |
|---|---|---|---|
| `order_book` | 4 orders, prices 1-2, sizes 1-2, ring of 4 | two levels a side, partial fills of maker and taker, a taker that walks both levels, cancels at head and behind, a price that changes sides | `InSync`, `NotCrossed`, `DepthIsLiveQuantity`, `FillWithinLimit`, `GhostLevelsOnlyByCancel`; implements `LimitOrderBook` |
| `order_book_ring` | 6 orders, one price, sizes 0-1, ring of 4, one quote of the simulator | the cursors wrap around and every slot is used again, with dead slots in all places; order of size 0 | `NoOrderLost`, `LevelCounters`; every call of match returns; implements `LimitOrderBook` also with a wrapped ring |
| `book_snapshot` | 3 nodes, 2 readers, 1 change, fair | as many readers as nodes besides the published one, so that updates are skipped; update may run any number of times, so a node is published, abandoned and published again under a slow reader | `SnapshotStable`, `RefCountsExact`, `HeldNotOlderThanSequence`; implements `SnapshotRegister`; every change is published in the end |
| `matching_engine` | 3 orders, prices 1-2 and market, sizes 1-2, queue of 2, INT64_MAX = 63, fair | an order is dropped by the full queue, a market order sweeps and rests, two buys at different prices are averaged, the breaker and cancels fall in between | `PositionsFlat`, `ReportsCoverTrades`, `MarketSweepsBook`, `AverageIsPaid`; queued orders are processed, and process_order ends |
| `market_data` | 2 ticks of 12 up or down from 999990, pool of 2, 3 or 4 orders, 3 nodes, fair | both ticks replace the orders, at the second the old ones come from an update; the ask is cut off at the highest price; a pool of 2 runs out at the bid, of 3 at the ask; the first turns of the thread come before the book is filled and pin nodes; any save may fail to open the file; the market closes at any point | `TwoSidedMarket`, `BookHoldsLiveOrders`, `RestartsAtLastPrice`; every change reaches the bots (`BookReachesBots`); a shutdown ends |
| `bots` | the market maker with each other kind, and the spread bot with the random walk; 3 views of the book, one without asks; 7 snapshots; 2 open orders, countdowns of 3, 4 and 5, id ranges of 3 | every countdown runs out and starts again, the window of prices is full and slides, a counter of ids leaves its range | `RateLimited`, for limit and market orders of all bots but the market maker, and `IdsDistinct` |
| `order_lifecycle` | 3 orders of 1 to 3 lots, one price, limit of 2, queue of 1, pool of 2, fair | the queue refuses, the pool runs out, the risk check rejects, partial fills and filled makers, the market closes at any point | `RiskCheckBinds`; `WorkerSeesLiveOrders`, `KeptForAReason`; finished orders are swept; a shutdown ends and leaves no order in a queue |
| `execution_gateway` | 2 engines, 3 workers, queues of 2, 2 slots, 5 reports, counter of 8 values | queues fill up, slots are used again while reports are queued, pushes race, the counter passes its largest value, also where 2^32 is no multiple of the workers; workers that do not exist | `ReportIntact`, `ReportsCounted`, `RoundRobin` |
| `itch_replay` | files of up to 3 messages out of 7 of all types; chunks of 35, 36, 47, 69, 70 bytes and of the whole file; queue of 1, pool of 2 | chunks that end with a message, inside its header, and inside its body, with the rest taken for a message; symbols of two and of six letters and one of no engine; ids and prices of several bytes | `InStep`, `NothingLostSilently`; the replay ends |

Three runs show that the code does something else than a comment, a test or the
documentation of the repository says (quotes in `PROJECT.json`, "findings"):

| Run | What happens |
|---|---|
| `ring_full` | With every slot of a ring occupied, head = tail: match never returns. |
| `sell_limit` | The sell limit refuses nothing: a sell larger than the limit is accepted. |
| `active_orders` | A bot has more active orders than it may have: the count drops when a countdown ends, but the order stays in the book. With nothing to trade with, the fourth buy joins three. |

### Fairness

- `FairSpec` of `OrderBook`: weak fairness of `MatchStep`. match runs in one thread
  and blocks on nothing, so its next step is taken in the end.
- `FairSpec` of `BookSnapshot`: the writer calls update in a loop, a call of the book
  that has changed the content goes on to change the sequence number, and each
  reader's call goes on and its snapshot is released. A reader need not call
  get_snapshot again; the store buffer needs no fairness, since the writer's
  fetch_add empties it.
- `FairEngineSpec` of `MatchingEngine`: the worker loops until the program ends. Nothing is
  assumed of submitters, the cancel thread or the breaker.
- `FairMarketSpec` of `MarketData` and `FairLifeSpec` of `OrderLifecycle`: each thread that the module models
  is scheduled again and again; the snapshot thread and the simulator only sleep.
  Main's shutdown goes on once it has begun; that the market closes is not assumed.
- `Spec` of `ItchReplay`: a single thread that blocks on nothing.

Deadlock is checked except where the system really stops: the runs of `OrderBook`
without quotes, when all orders have arrived and none is left to cancel; a program
that has ended (`market_data`, `order_lifecycle`, `itch_replay`); and the bounds on
snapshots and reports (`bots`, `execution_gateway`).

## 4. Where code, comments and expectations part

Besides the three findings, met while modelling:

- *Price of a fill* (price_level.cpp:62). The comment says "Resting order == fill
  price"; the code takes the incoming order's. The report has that price, the
  maker's position its own. `FillWithinLimit` is what is left.
- *Levels without orders* (order_book.cpp:146). A level whose other orders were
  cancelled behind the head stays after the head is filled: a best price that
  nobody quotes. `GhostLevelsOnlyByCancel` shows that it takes a cancel.
- *Cancels* (matching_engine.cpp:109). A cancel between match and the end of
  process_order would be overwritten, and the order alive again. Nothing in src/
  queues cancels yet.
- *Status of makers* (matching_engine.cpp:102). A maker that is filled keeps the
  status NEW, so the sweep never gives its memory back; `KeptForAReason` allows it.
  In the end the pool is exhausted and orders are dropped.
- *Status in reports* (matching_engine.cpp:90). A fill is reported before the
  status is set, so its report says NEW.
- *Position limit* (risk_manager.cpp:69). Nothing calls `RiskManager::update_position`:
  the engine books into the `PositionManager`, and the counters that check_order reads
  stay zero. So the limit is one on each order, and the position may go beyond it.
  The tests disagree with each other: "max 30 shares net" (test_integration.cpp:164),
  "check_position only checks against limit, doesn't track cumulative"
  (test_risk_manager.cpp:115). `RiskCheckBinds` claims no more than the second. If the
  counters were written, a buy that covers a part of a short position would be
  refused, as the unsigned difference is then close to 2^32 (risk_manager.cpp:35).
- *Active orders* (bots.hpp:7). "Each bot can only have 3 active orders at once": the
  countdowns bound submissions, which is all that `RateLimited` says. An order whose
  countdown ends is forgotten, not cancelled (`active_orders`), and the market maker
  (bots.hpp:59-112) has no limit at all: it submits up to two orders at every tenth
  turn of the shared counter, for ever.
- *Restart file* (market_state_store.hpp:64). A save that cannot open the file returns
  without a word, and the old state stays. `RestartsAtLastPrice` is about saves that
  open it.
- *Rejections* (matching_engine.cpp:42). The order is marked before the worker has
  read it for the report; the sweep may free it in between.
- *Snapshots before the book is filled* (main.cpp:140) are not released: each pins
  a node for good, and after three the bots see nothing. `BookReachesBots` has this
  as its exception.
- *The market makers' counter* (bots.hpp:69) is one static for all symbols,
  incremented without a lock on five threads: if they run in step, the maker of
  one symbol gets all the tenth turns. The comment expects one in every ten
  snapshots of each.
- *Books.* The bots see one book of a symbol and trade in the other.
- *Average price* (position_manager.cpp:46) is over all shares ever bought, also
  those sold since; and a market buy is booked at INT64_MAX, whose product
  overflows. `AverageIsPaid` holds while nobody buys at the market.
- *Reports* (execution_gateway.cpp:75) go back to the pool before anybody has
  received them, and queues made for one producer have five.
- *Chunks* (itch_parser.cpp:64). "FeedHandler handles all ITCH parsing
  internally", but a message cut by the end of a chunk is lost, and its second
  half is taken for messages. `NothingLostSilently` is what is left.
- *Ids of create_itch.* Its literal ids start where its counter does, so that a
  file holds the same id twice.
- *Final drain* (main.cpp:266). The orders it would match were destroyed with the
  pools of the snapshot threads (`UseDestroyed`).

## 5. Proofs

The theorems hold for every value of the constants that satisfies the named
assumptions of the modules: any number of orders, prices, readers, changes and
nodes, any ring whose size is a power of two from 2 on (with one slot, head and
tail are always equal and the ring never has an order), any pool and walk of the
simulator. Where sums over all orders or engines occur, these are finite in number.
Each inductive invariant was checked by TLC on instances like those of the runs
before it was proved.

**OrderBook.** `BookTypeCorrect`, `BookInSync`, `BookNotCrossed`. `InSync` is not
inductive: `CancelOrder` looks a level up by the price of an order that may be
gone for long, whatever the side of the level it finds, and removes that level
if it is empty, from the vector of the *order's* side. That this never leaves a
dangling pointer needs the strengthening `IInv`:

- `RingsOK`: the window from head to tail has at most `size` slots;
- `Contents`: every order in a ring has the ring's price, and its side is the
  side whose vector holds the level;
- `NonEmpty`: between calls no level is empty. So a stale cancel finds a level
  that is not empty, and empties it only by dropping its own order from the
  head, which then is of the level's side;
- `CallOK`: what the locals of a running match say about the level it works on.

No assumption about full rings is needed for these three: a ring that overwrites
its orders loses orders but never a level. The proof has one
lemma per action, and lemmas on the operators of `PriceLevel` (`Advance`,
`PushBack`, `RemoveOrder`, `FillFront` keep a level's type and cursors) and on
the sorted vectors (`InsertLevel`, `RemoveLevel`). `FillsWithinLimits` needs as
little: the loop of match only enters levels the taker reaches.

**The rings of OrderBook** (second part of `OrderBookProofs`). `RingsLoseNoOrder`,
`GhostLevelsHoldCancels`, `RingsCount`, `DepthIsTradable` and
`BookIsPriceTimePriority` have one hypothesis, `RingsHaveRoom`: the environment
leaves a slot of every ring free (`RingLimit < MAX_ORDERS`). The code does not see
to that, and without it the theorems are false, as `ring_full` shows. `NoOrderLost`
alone is not inductive; `QInv` adds to `IInv`:

- `Queues`: a ring's window from head to tail is full of orders, all other slots
  are null, the orders get younger from head to tail, and `size` is the window's
  length. This is what lazy deletion preserves: a cancel nulls no slot and `advance`
  nulls what it passes, so the window has no holes.
- `Waiting` and `Held`: what is in a window has quantity left or was cancelled,
  and what has quantity left is in the window of its own price and in the index.
- `CallQueue`: the order of a running match is younger than all in the rings, so
  that it may be put behind them.

As the window is sorted by age and dead orders only leave it at its head, the
order that `match` fills is the oldest live one of the best level: this is the
step of the refinement. A turn of match that fills is a trade of `LimitOrderBook`,
the one that ends it rests or drops the taker, all other turns stutter.

Depth and totals are sums over sets of orders. `MapThenSumSet` computes them by a
recursive function that takes the elements in an order of its own; `SetSums` proves
that the function exists and that the sum does not depend on that order (an element
in or out, or one value changed, changes the sum by as much). With `Counted`, which
says what depth and totals are also in the middle of a match, when a level has lost
what depth still shows, each step is then one addition.

**MatchingEngine** (`EngineProofs`), without `RingsHaveRoom`. `EngineInvariance`
carries `IInv` into the engine, where the worker is interrupted by submitters,
cancels and the breaker: queued orders are as they were submitted (`Untouched`),
and the match that runs is that of the order being processed (`InProcess`).
`MarketOrdersSweep` follows from `EffectivePrice`: a market order crosses every
level, so match leaves its loop with quantity left only if no level is left
(`SweptOut`). `TradesAreReported` rests on `Tallied`: for each side, the volume
traded is the reported total plus what the running match has traded, because a fill
adds the same quantity to one buyer and one seller. `HouseIsFlat` rests on `Flat`:
the fills of the running match are all against the other side and add up to what its
order has traded. Booking the makers one by one therefore moves net by that sum one
way, and booking the taker moves it back; `bought` and `sold` are taken modulo the
word after every addition, which is the same as once at the end (`RemainderOfSum`).
`AverageWithinPrices` says of update_position that its rounding and its conversions
to 64 bits keep the average between the lowest and the highest price paid. `Averaged`
adds to `Flat` and `Tallied` that what the record has bought is what was reported,
and that the average lies between prices of orders that have bought; an order that
trades has the price it was processed at (`Priced`), and the makers of a running
match have traded (`MakersTraded`), so that every price booked is one of those. The
theorem is about runs in which nobody has bought at the market and the shares bought
fit the word (2^32), and assumes that a limit price times the word is at most
`INT64_MAX` (`ProductsFit`). With 2^32 and 2^63 - 1 that is true of prices below
2^31: the simulator's quotes, which the bots follow, are below 2^20, while a replayed
file may hold prices up to 2^32, to which the theorem does not apply. A market buy,
booked at `INT64_MAX`, does not fit, and it is there that the code goes wrong.

`RefusalsLeaveNoTrace` proves `RiskCheckBinds`. It is about what may come between
check_order and the end of process_order, and afterwards: other orders, cancels of
the rejected order, the breaker. `RInv` adds to `EInv`: nobody writes the counters
(`FreshCounters`), from which a buy that passes is within the limit (`BuysLimited`);
a refused order has nothing filled and is in no slot and no fill (`KeptOut`), while
between orders nothing is processed (`Unoccupied`); an order that was
reported neither waits nor is on its way to its report (`Answered`), and a refusal
that was not reported is the one being processed (`Explained`). There is no such
theorem for sells: `sell_limit` refutes it.

**OrderLifecycle** (`EngineProofs`). `SweepSparesLiveOrders`: the
invariant `LInv` says that queue, worker and index refer only to orders in storage
(`Owned`), that a slot of a ring holds nothing outside of the index
(`SlotsIndexed`), and that the index has only orders that the sweep keeps
(`IndexKept`): filled makers among them, whose status stays NEW. So it is the status
that is never set that makes the sweep safe. `SweepKeepsForAReason` is the converse.

**MarketSimulator, MarketData** (`MarketDataProofs`). The simulator's book is known
exactly: `BookInv` says for each step of a tick which of the two quotes rest, each
alone in its level, and what the structures of the book then are. From that follow
`QuotesBothSides` and `NoOrderOutlivesItsPointer`, for any pool; a pool of less than
four orders may leave the book empty. The theorems also show that the book is used
as it is modelled: `SimulatorKeepsThePreconditions` proves that every order added
finds room and does not cross, which are guards of `AddOrder` where the code has no
check. Its hypothesis `QuotesApart` holds of the program: the first quotes are 10
from the price, spreads are 5 to 50 and prices 100 to 1000000, where even an ask that
is cut off at 999999 stays above the bid.
`StateSurvivesKill` follows the lock: whoever holds it is inside its save. It holds
unless the last save could not open the file.

**BookSnapshot.** `TypeCorrect`, `RefCountsCorrect`, `HeldSnapshotsStable`,
`HeldSnapshotsFresh`, `RegisterImplemented`, `SpareNodesSuffice`. The heart of
`IInv` is the handshake of find_free_node and get_snapshot: the node the writer
writes into is neither published nor in the store buffer, and a reader that has
pinned it has yet to load m_current a second time. That load then sees another
node, because only the writer stores m_current, and it is busy with this one. So
no reader gets from "check" to "reading" with the writer's node. The counts are
exact because each reader adds and subtracts its own pin once.
`RegisterImplemented` proves that each step is a step of the abstract register
or leaves its variables alone.

**ExecutionGateway.** `GatewayTypeCorrect`, `QueuedReportsIntact`, for any number of
engines, workers, slots and reports, any counter and any size of the queues, and
also when pushes race. `ReportIntact` speaks of slots that have not been acquired
again, and is not inductive: it says nothing of an engine that is about to write.
`IInv` adds who holds a slot (`SlotsOwned`: from acquire to release one engine, and
not the pool), that it holds its engine's report from the copy to the store
(`CopyKept`), and that no queued report of the slot's present use exists while an
engine is about to copy into it (`EntriesIntact`), so that the write cannot touch a
report that still counts. `ReportsAddUp` says that a push that meets no other in its
queue adds one report to it: until two engines race, an engine between its read of
the tail and its store is alone on its queue and its tail is still the tail
(`Alone`). `WorkersTakeTurns` counts the runs of the counter through a half of its
range, from 0 up or from its smallest value up: in each the workers take turns
(`FairShares` up to the `Arc` of workers that have had one more), and at the end of
each one more report may separate them.

**Bots.** `OrdersAreRateLimited`, `IdsStayDistinct`, for any sets of bots, views of
the book, limits, countdowns, thresholds and number of snapshots. The first bounds
how fast the bots other than the market maker submit, not how many of their orders
are active (`active_orders`). Assumed are that a spike's countdown is no shorter than that of a limit order (1500 and 1000), that
a symbol has at most one bot of a kind and that the kinds' counters start at
different ids (10000 to 50000), as main and bots.hpp have it. `RateLimited` is not
inductive: it relates two orders that were sent, while the code only counts what it
still tracks. `BInv` ties the two together:

- `Remembered`: every submission of the last `MaxOpen` + 1 that is younger than
  `Ttl` is still tracked, with a countdown that covers the rest of its time. If the
  oldest of them were that young when the next order goes out, all of them would be
  tracked under different ids, at least `MaxOpen` (`YoungAreOpen`, a count of a set
  that contains the image of an injection), and `MayOpen` would have said no. A
  spike does not ask `MayOpen`, but goes out only when nothing is tracked, and its
  longer countdown covers `Ttl` too.
- `Cooled`: what is left of the cooldown is at least what the last spike has not
  waited yet, whatever limit orders came in between.
- `Numbered`: every id that was sent lies between the start and the present value
  of some bot's counter. A bot's next id can then only be taken if some counter has
  passed another's start, which is what `IdsDistinct` allows.

The bots of a symbol see a snapshot one after the other; `Seen` is the last
snapshot of each, by which the three parts count time.

**Only model-checked:** all liveness (`MatchReturns`, `ChangesGetThrough`,
`QueuedIsProcessed`, `BookReachesBots`, `FinishedAreSwept`, both `ShutdownEnds`,
`ReplayEnds`), which is out of the prover's reach; `AverageIsPaid` once more shares
were bought than a word counts; `InStep` and `NothingLostSilently` of `ItchReplay`,
since what `Itch` writes and reads is folds over bytes, which the provers cannot
unfold for every length.

## 6. Not modelled

- Data races on containers: the map of queues that the snapshot threads fill
  lazily, the vectors that snapshots walk while the simulator changes them, a
  cancel that overlaps match. They have no defined outcome.
- What a ring finds in memory that was given back and taken again. Without cancels
  it does not come to that (`WorkerSeesLiveOrders`, `BookHoldsLiveOrders`), except
  after the end of the threads.
- The prices in a snapshot: snapshots are compared by sequence number, and `Bots`
  takes any view.
- `RiskManager::update_position`, which nothing calls, and `set_position_limit`, which
  only tests call, before the first order: the limit is a constant.
- A ledger that P&L should agree with; the format of the state file and what is
  read of half a file.
- The FIX encoder (formatting, without state and without a caller), the list of
  orders in create_itch, console output, command line arguments.
- The lock-free library is a submodule outside this repository: its queue is used
  as a bounded FIFO, its pool as a set of slots.

What would come next: a ledger for the position manager; the format of the state
file; `ItchReplay` with the bytes of a message as one value, whose framing could
then be proved.

## 7. Running

    tlc -config MCOrderBook.cfg MCOrderBook
    tlapm OrderBookProofs.tla

Each configuration names the module of its run in `PROJECT.json`. Mutants, plain
operators named in their comments as such, stand beside the definitions they
replace: each is a plausible slip that makes one property fail.
