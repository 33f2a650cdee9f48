--------------------------- MODULE MatchingEngine ---------------------------
(***************************************************************************)
(* The matching engine of one symbol (matching/matching_engine.cpp) with   *)
(* what it calls: the order book (OrderBook), the risk check (RiskManager) *)
(* and position keeping (PositionManager).  Three threads meet here:       *)
(*   - the snapshot thread submits the bots' orders to m_incoming_orders,  *)
(*   - the engine's worker runs run_match_cycle,                           *)
(*   - the cancel thread calls cancel_order on the same book.              *)
(*                                                                         *)
(* The worker's process_order is split where another thread can see a      *)
(* difference.  The cancel thread takes no lock, but nothing in src queues *)
(* cancels yet.  One that overlaps match itself would be a data race on    *)
(* the containers of the book and has no defined outcome, and one between  *)
(* match and the end of process_order loses its status CANCELLED; both are *)
(* left out.                                                               *)
(*                                                                         *)
(* `vars' are the book's variables, `allVars' those and the engine's own.  *)
(***************************************************************************)
EXTENDS OrderBook

CONSTANTS
    WORD, Limit,
    Types,         \* order types that are sent
    LimitPrices,   \* prices they are sent with; market orders are sent with 0
    QUEUE_SIZE     \* orders that fit in m_incoming_orders

(* Orders are sent with any price and leave the risk check with any price  *)
(* or, from the market, with one of the two that EffectivePrice gives.     *)
ASSUME EngineAssumption ==
    /\ LimitPrices \cup {0, INT64_MAX} \subseteq Prices
    /\ WORD \in Nat \ {0} /\ Limit \in 0 .. WORD - 1
    /\ Quantities \subseteq 0 .. WORD - 1

VARIABLES
    position, breaker,
    request,    \* what was submitted, by order id
    queue,      \* m_incoming_orders
    epc,        \* where process_order is
    current,    \* the order it processes
    pos,        \* the PositionManager's record of the symbol
    stats,      \* m_match_count, m_reject_count, m_partial_count
    reports     \* the execution reports handed to the gateway

Symbol == <<65>>

Risk == INSTANCE RiskManager WITH
    Symbols <- {Symbol}, DEFAULT_LIMIT <- Limit

Pos == INSTANCE PositionManager

riskVars   == <<position, breaker>>
engineVars == <<request, queue, epc, current, pos, stats, reports>>
allVars    == <<vars, riskVars, engineVars>>

EngineInit ==
    /\ Init
    /\ Risk!Init
    /\ request = << >>
    /\ queue = << >>
    /\ epc = "wait"
    /\ current = NoOrder
    /\ pos = Pos!NewPosition
    /\ stats = [matched |-> 0, rejected |-> 0, partial |-> 0]
    /\ reports = << >>

-----------------------------------------------------------------------------
(* submit_order: a full queue refuses the order, and no caller looks.      *)
SubmitOrder(side, type, price, quantity) ==
    LET o == Len(request) + 1
    IN  /\ o \in Orders
        /\ request' = Append(request, [side |-> side, type |-> type, price |-> price,
                                       quantity |-> quantity])
        /\ queue' = IF Len(queue) < QUEUE_SIZE THEN Append(queue, o) ELSE queue
        /\ UNCHANGED <<vars, riskVars, epc, current, pos, stats, reports>>

(* A mutant of EffectivePrice: market orders keep the price they came with. *)
SubmittedPrice(r) == r.price

(* The price a market order is given; all other types keep theirs, and are *)
(* LIMIT orders from here on.                                              *)
EffectivePrice(r) ==
    IF r.type # "MARKET" THEN r.price
    ELSE IF r.side = "BUY" THEN INT64_MAX ELSE 0

Report(o, status, quantity, price) ==
    [order |-> o, status |-> status, quantity |-> quantity, price |-> price]

(* A mutant of RejectOrder: the status is only in the report.              *)
RejectUnmarked ==
    LET o == Head(queue)
        r == request[o]
    IN  /\ epc = "wait"
        /\ queue # << >>
        /\ ~Risk!CheckOrder(Symbol, r.side, r.price, r.quantity)
        /\ queue' = Tail(queue)
        /\ ord' = [ord EXCEPT ![o] = NewOrder(r.side, r.price, r.quantity)]
        /\ stats' = [stats EXCEPT !.rejected = @ + 1]
        /\ epc' = "reject" /\ current' = o
        /\ UNCHANGED <<arrived, level, levels, index, best, depth, sequence, fills, pc, inc,
                       before, riskVars, request, pos, reports>>

(* run_match_cycle pops an order; check_risk refuses it.                   *)
RejectOrder ==
    LET o == Head(queue)
        r == request[o]
    IN  /\ epc = "wait"
        /\ queue # << >>
        /\ ~Risk!CheckOrder(Symbol, r.side, r.price, r.quantity)
        /\ queue' = Tail(queue)
        /\ ord' = [ord EXCEPT ![o] = [NewOrder(r.side, r.price, r.quantity)
                                         EXCEPT !.status = "REJECTED"]]
        /\ stats' = [stats EXCEPT !.rejected = @ + 1]
        /\ epc' = "reject" /\ current' = o
        /\ UNCHANGED <<arrived, level, levels, index, best, depth, sequence, fills, pc, inc,
                       before, riskVars, request, pos, reports>>

(* The rejection's report is made of the order, which is marked by now.    *)
SendRejection ==
    /\ epc = "reject"
    /\ reports' = Append(reports, Report(current, "REJECTED", 0, 0))
    /\ epc' = "wait"
    /\ current' = NoOrder
    /\ UNCHANGED <<vars, riskVars, request, queue, pos, stats>>

(* ... or lets it pass: it goes into OrderBook::match.                     *)
ProcessOrder ==
    LET o == Head(queue)
        r == request[o]
    IN  /\ epc = "wait"
        /\ queue # << >>
        /\ Risk!CheckOrder(Symbol, r.side, r.price, r.quantity)
        /\ queue' = Tail(queue)
        /\ epc' = "match"
        /\ current' = o
        /\ MatchBegin(o, r.side, EffectivePrice(r), r.quantity)
        /\ UNCHANGED <<riskVars, request, pos, stats, reports>>

ContinueMatch ==
    /\ epc = "match"
    /\ MatchStep
    /\ UNCHANGED <<riskVars, engineVars>>

(* match returned: positions of the makers, one update per fill at the     *)
(* maker's price; then the report and the position of the order itself,    *)
(* at its own price; then the counters.                                    *)

(* A mutant of MakerPositions: only the incoming order is booked.          *)
NoMakerPositions == pos

MakerPositions ==
    FoldLeft(LAMBDA p, f : Pos!UpdatePosition(p, ord[f.order].side, f.quantity, ord[f.order].price),
             pos, fills)

(* A mutant of SendFill: one report with the last fill's quantity.         *)
SendLastFill(o) ==
    IF fills = << >> THEN reports
    ELSE Append(reports, Report(o, ord[o].status, fills[Len(fills)].quantity, ord[o].price))

SendFill(o) ==
    IF ord[o].filled = 0 THEN reports
    ELSE Append(reports, Report(o, ord[o].status, ord[o].filled, ord[o].price))

BookFills ==
    LET o == current
        filled == ord[o].filled
    IN  /\ epc = "match"
        /\ pc = "idle"
        /\ pos' = Pos!UpdatePosition(MakerPositions, ord[o].side, filled, ord[o].price)
        /\ reports' = SendFill(o)
        /\ stats' = [stats EXCEPT !.matched = @ + Len(fills),
                                  !.partial = IF filled > 0 /\ ord[o].remaining > 0
                                              THEN @ + 1 ELSE @]
        /\ epc' = "finalize"
        /\ UNCHANGED <<vars, riskVars, request, queue, current>>

(* "Finalize order state AFTER matching".                                  *)
FinalStatus(o) ==
    IF ord[o].remaining = 0 THEN "FILLED"
    ELSE IF ord[o].filled > 0 THEN "PARTIAL"
    ELSE "NEW"

FinalizeOrder ==
    /\ epc = "finalize"
    /\ ord' = [ord EXCEPT ![current].status = FinalStatus(current)]
    /\ epc' = "wait"
    /\ current' = NoOrder
    /\ UNCHANGED <<arrived, level, levels, index, best, depth, sequence, fills, pc, inc, before,
                   riskVars, request, queue, pos, stats, reports>>

WorkerStep == RejectOrder \/ SendRejection \/ ProcessOrder \/ ContinueMatch \/ BookFills \/ FinalizeOrder

(* The cancel thread.                                                      *)
CancelBetween(o) ==
    /\ epc = "wait"
    /\ CancelOrder(o)
    /\ UNCHANGED <<riskVars, engineVars>>

(* The breaker may be thrown and reset at any time.                        *)
ToggleBreaker ==
    /\ Risk!ActivateCircuitBreaker \/ Risk!ResetCircuitBreaker
    /\ breaker' # breaker
    /\ UNCHANGED <<vars, engineVars>>

EngineNext ==
    \/ \E s \in {"BUY", "SELL"}, t \in Types, q \in Quantities :
          \E p \in (IF t = "MARKET" THEN {0} ELSE LimitPrices) : SubmitOrder(s, t, p, q)
    \/ WorkerStep
    \/ \E o \in Orders : CancelBetween(o)
    \/ ToggleBreaker

EngineSpec == EngineInit /\ [][EngineNext]_allVars

(* The worker loops over run_match_cycle until the program ends.           *)
FairEngineSpec == EngineSpec /\ WF_allVars(WorkerStep)

-----------------------------------------------------------------------------
(* Every trade is booked for both of its sides: between orders the house's *)
(* position is flat and as much was bought as was sold.                    *)
PositionsFlat == epc = "wait" => pos.net = 0 /\ pos.bought = pos.sold

(* Every trade is reported once: between orders the quantities reported to *)
(* the gateway add up to the volume traded, and the rejections counted are *)
(* the orders that were rejected.                                          *)
ReportsCoverTrades ==
    epc = "wait" =>
        /\ FoldLeft(LAMBDA v, r : v + r.quantity, 0, reports) = FilledOn("BUY")
        /\ stats.rejected = Cardinality({o \in Orders : ord[o].status = "REJECTED"})

(* The orders that the risk check has let pass and that are in the book,   *)
(* or have traded.                                                         *)
Passed == index \cup {o \in Orders : ord[o].filled > 0}

(* Where an order that nothing was to become of can have left a trace.     *)
Traces ==
    Passed \cup {fills[i].order : i \in 1 .. Len(fills)}
           \cup UNION {Queued(level[p]) : p \in DOMAIN level}

Refused(o) == ord[o].status = "REJECTED"

ReportedOnce ==
    \A i, j \in 1 .. Len(reports) : reports[i].order = reports[j].order => i = j

RefusalReported(o) ==
    \E i \in 1 .. Len(reports) : reports[i] = Report(o, "REJECTED", 0, 0)

(* The risk check binds: process_order leaves an order that it has         *)
(* rejected halfway, and whatever was matched and cancelled since, no      *)
(* structure of the book and no fill names it.  It is reported, as         *)
(* rejected and with nothing filled; no order of either fate is reported   *)
(* twice.  No buy beyond the limit gets through, whatever the breaker does *)
(* while it waits.  (The limit is one on each order: the counters that     *)
(* would accumulate are never written.)                                    *)
RiskCheckBinds ==
    /\ \A o \in Orders : Refused(o) => o \notin Traces /\ (o = current \/ RefusalReported(o))
    /\ ReportedOnce
    /\ \A o \in Passed : ord[o].side = "BUY" => ord[o].quantity <= Limit

(* "Check sell limit": no sell beyond the limit gets through.              *)
AcceptedSellsWithinLimit ==
    \A o \in Passed : ord[o].side = "SELL" => ord[o].quantity <= Limit

(* A market order takes all there is: if some of it is left to rest, the   *)
(* other side has no order left to trade with.                             *)
MarketSweepsBook ==
    (epc = "finalize" /\ request[current].type = "MARKET" /\ ord[current].remaining > 0)
        => levels[Opposite(ord[current].side)] = << >>

(* "Average entry price": as long as no market order has bought, the       *)
(* average is a price between the lowest and the highest that was paid.    *)
(* (A market buy is booked at INT64_MAX, and the product overflows.)       *)
Buyers == {o \in Orders : ord[o].side = "BUY" /\ ord[o].filled > 0}

AverageIsPaid ==
    (epc = "wait" /\ \A o \in Buyers : request[o].type = "LIMIT") =>
        IF Buyers = {} THEN pos.avg = 0
        ELSE \E o, p \in Buyers : ord[o].price <= pos.avg /\ pos.avg <= ord[p].price

(* The worker gets through: every order that the queue accepted is taken   *)
(* out and its processing comes to an end, whatever it matches on the way. *)
QueuedIsProcessed == (queue # << >> \/ epc # "wait") ~> (queue = << >> /\ epc = "wait")
=============================================================================
