----------------------------- MODULE OrderBook ------------------------------
(***************************************************************************)
(* The limit order book of one symbol (book/order_book.cpp) over the ring  *)
(* buffers of PriceLevel.  Calls are add_order, match, cancel_order and    *)
(* set_market_price; match is a loop inside a loop, and each turn of       *)
(* either loop is a step here, so that a call that never returns is a      *)
(* behaviour of the model.                                                 *)
(*                                                                         *)
(* Orders arrive in the order of their ids, so that o < p says that o is   *)
(* the older order.                                                        *)
(***************************************************************************)
EXTENDS PriceLevel, Sequences, FiniteSetsExt, SequencesExt

CONSTANTS
    Prices,       \* prices that orders are sent with
    Quantities,   \* quantities that orders are sent with
    Quotes,       \* pairs <<bid, ask>> given to set_market_price
    INT64_MAX,    \* best ask of an empty side, and the price of a market buy
    RingLimit     \* occupied slots per ring that the environment stays below

ASSUME PricesAssumption ==
    /\ Prices \subseteq Nat
    /\ INT64_MAX \in Nat
    /\ \A p \in Prices : p <= INT64_MAX

ASSUME QuantitiesAssumption == Quantities \subseteq Nat

ASSUME QuotesAssumption == Quotes \subseteq Int \X Int

Side == {"BUY", "SELL"}

Status == {"NEW", "PARTIAL", "FILLED", "CANCELLED", "REJECTED"}

Opposite(s) == IF s = "BUY" THEN "SELL" ELSE "BUY"

Order == [side : Side, price : Int, quantity : Nat, filled : Nat,
          remaining : Nat, status : Status]

(* A default-constructed Order, and one that Order::reset() left behind.   *)
BlankOrder == [side |-> "BUY", price |-> 0, quantity |-> 0, filled |-> 0,
               remaining |-> 0, status |-> "NEW"]

NewOrder(s, p, q) == [side |-> s, price |-> p, quantity |-> q, filled |-> 0,
                      remaining |-> q, status |-> "NEW"]

VARIABLES
    ord,       \* the Order objects, by id
    arrived,   \* the last order that was handed to the book
    level,     \* m_price_to_level: a level for each price in its domain
    levels,    \* m_bid_levels and m_ask_levels: their prices, best first
    index,     \* m_order_index: the ids it holds
    best,      \* m_best_bid and m_best_ask
    depth,     \* m_bid_depth and m_ask_depth
    sequence,  \* m_sequence
    fills,     \* the fills of the running or last call of match
    pc,        \* where that call is
    inc,       \* its incoming_order
    before     \* its local `before'

bookVars == <<level, levels, index, best, depth, sequence>>
callVars == <<fills, pc, inc, before>>
vars == <<ord, arrived, bookVars, callVars>>

-----------------------------------------------------------------------------
is_active(o) == ord[o].status \in {"NEW", "PARTIAL"}

Live == {o \in Orders : is_active(o) /\ ord[o].remaining > 0}

(* unordered_map: operator[] and erase.                                    *)
Put(f, k, v) == [x \in DOMAIN f \cup {k} |-> IF x = k THEN v ELSE f[x]]
Erase(f, k)  == [x \in DOMAIN f \ {k} |-> f[x]]

(* The side's sort order: bids high to low, asks low to high.              *)
Before(s, p, q) == IF s = "BUY" THEN p > q ELSE p < q

(* lower_bound: the first place whose price does not sort before p.        *)
LowerBound(s, seq, p) ==
    CHOOSE k \in 1 .. Len(seq) + 1 :
        /\ \A j \in 1 .. k - 1 : Before(s, seq[j], p)
        /\ k = Len(seq) + 1 \/ ~Before(s, seq[k], p)

(* insert_level, on the side's vector.                                     *)
InsertLevel(s, seq, p) ==
    LET k == LowerBound(s, seq, p)
    IN  [i \in 1 .. Len(seq) + 1 |-> IF i < k THEN seq[i] ELSE IF i = k THEN p ELSE seq[i - 1]]

(* A mutant of RemoveLevel: the pointer stays in the vector.               *)
KeepLevel(seq, p) == seq

(* remove_level, on the side's vector: nothing when p is not in it.        *)
RemoveLevel(seq, p) ==
    LET k == CHOOSE k \in 1 .. Len(seq) : seq[k] = p
    IN  IF p \notin ToSet(seq) THEN seq
        ELSE [i \in 1 .. Len(seq) - 1 |-> IF i < k THEN seq[i] ELSE seq[i + 1]]

(* update_best_prices *)
BestPrices(lv) ==
    [BUY  |-> IF lv["BUY"]  # <<>> THEN lv["BUY"][1]  ELSE 0,
     SELL |-> IF lv["SELL"] # <<>> THEN lv["SELL"][1] ELSE INT64_MAX]

(* Find or create the level of order o, append o to it, index it and add   *)
(* its quantity to the depth of its side: what add_order does, and match   *)
(* with the remainder of its incoming order.  find_level ignores the side. *)
RestOrder(o, r) ==
    LET p   == r.price
        s   == r.side
        old == p \in DOMAIN level
        L   == IF old THEN level[p] ELSE EmptyLevel
        lv  == IF old THEN levels
               ELSE [levels EXCEPT ![s] = InsertLevel(s, levels[s], p)]
    IN  /\ level'  = Put(level, p, PushBack(L, o, r.remaining))
        /\ levels' = lv
        /\ index'  = index \cup {o}
        /\ depth'  = [depth EXCEPT ![s] = @ + r.remaining]
        /\ best'   = BestPrices(lv)

-----------------------------------------------------------------------------
Init ==
    /\ ord = [o \in Orders |-> BlankOrder]
    /\ arrived = 0
    /\ level = << >>
    /\ levels = [s \in Side |-> << >>]
    /\ index = {}
    /\ best = [BUY |-> 0, SELL |-> INT64_MAX]
    /\ depth = [s \in Side |-> 0]
    /\ sequence = 0
    /\ fills = << >>
    /\ pc = "idle"
    /\ inc = NoOrder
    /\ before = 0

(* The environment keeps clear of a full ring: with RingLimit = MAX_ORDERS *)
(* - 1 no ring is ever filled to its last slot.  The code has no such      *)
(* check; a larger RingLimit lets the ring fill and overwrite.             *)
RoomAt(s, p) == p \in ToSet(levels[s]) => level[p].size < RingLimit

(* What add_order's callers in this repository do: a positive quantity at  *)
(* a price that does not cross the other side.                             *)
NonCrossing(s, p) == \A q \in ToSet(levels[Opposite(s)]) : Before(s, q, p)

(* add_order *)
AddOrder(o, s, p, q) ==
    /\ pc = "idle"
    /\ o > arrived
    /\ RoomAt(s, p)
    /\ q > 0
    /\ NonCrossing(s, p)
    /\ arrived' = o
    /\ ord' = [ord EXCEPT ![o] = NewOrder(s, p, q)]
    /\ RestOrder(o, NewOrder(s, p, q))
    /\ sequence' = sequence + 1
    /\ UNCHANGED callVars

(* match, up to its loop; it returns at once for an empty order.           *)
MatchBegin(o, s, p, q) ==
    /\ pc = "idle"
    /\ o > arrived
    /\ RoomAt(s, p)
    /\ arrived' = o
    /\ ord' = [ord EXCEPT ![o] = NewOrder(s, p, q)]
    /\ fills' = << >>
    /\ inc' = IF q = 0 THEN NoOrder ELSE o
    /\ pc' = IF q = 0 THEN "idle" ELSE "match"
    /\ UNCHANGED <<bookVars, before>>

(* The condition of match's loop and the two breaks behind it.             *)
Opp == levels[Opposite(ord[inc].side)]

(* Mutants of CanTrade: the comparison the wrong way round, and none.      *)
CanTradeReversed ==
    /\ ord[inc].remaining > 0
    /\ Opp # << >>
    /\ ~Before(ord[inc].side, ord[inc].price, Opp[1])

CanTradeAtAnyPrice == ord[inc].remaining > 0 /\ Opp # << >>

CanTrade ==
    /\ ord[inc].remaining > 0
    /\ Opp # << >>
    /\ ~Before(ord[inc].side, Opp[1], ord[inc].price)

(* One turn of match's loop: pick the best opposite level ...              *)
LevelTop ==
    /\ pc = "match"
    /\ CanTrade
    /\ before' = level[Opp[1]].total
    /\ pc' = "fill"
    /\ UNCHANGED <<ord, arrived, bookVars, fills, inc>>

(* ... in match_order: advance finds nothing, leave the inner loop ...     *)
LevelDry ==
    LET L == Advance(level[Opp[1]], Live)
    IN  /\ pc = "fill"
        /\ Exhausted(L)
        /\ level' = [level EXCEPT ![Opp[1]] = L]
        /\ pc' = "leave"
        /\ UNCHANGED <<ord, arrived, levels, index, best, depth, sequence, fills, inc, before>>

(* ... or fill against the order that advance put at the head ...          *)
FillPrice(taker, maker) == ord[taker].price

(* A mutant of FillQuantity: all that the maker has.                       *)
MakerQuantity(taker, maker) == ord[maker].remaining

FillQuantity(taker, maker) ==
    IF ord[maker].remaining < ord[taker].remaining THEN ord[maker].remaining
    ELSE ord[taker].remaining

Executed(r, q) == [r EXCEPT !.remaining = @ - q, !.filled = @ + q]

FillStep ==
    LET L == Advance(level[Opp[1]], Live)
        m == HeadOrder(L)
        q == FillQuantity(inc, m)
    IN  /\ pc = "fill"
        /\ ~Exhausted(L)
        /\ fills' = Append(fills, [order |-> m, quantity |-> q, price |-> FillPrice(inc, m)])
        /\ ord' = [ord EXCEPT ![m] = Executed(@, q), ![inc] = Executed(@, q)]
        /\ level' = [level EXCEPT ![Opp[1]] = FillFront(L, q, ord[m].remaining - q)]
        /\ pc' = IF ord[inc].remaining = q THEN "leave" ELSE "fill"
        /\ UNCHANGED <<arrived, levels, index, best, depth, sequence, inc, before>>

(* ... and back in match: book the difference, drop the level if empty.    *)
LevelDone ==
    LET s == Opposite(ord[inc].side)
        p == Opp[1]
    IN  /\ pc = "leave"
        /\ depth' = [depth EXCEPT ![s] = @ - (before - level[p].total)]
        /\ IF empty(level[p])
           THEN /\ level' = Erase(level, p)
                /\ levels' = [levels EXCEPT ![s] = Tail(@)]
           ELSE UNCHANGED <<level, levels>>
        /\ pc' = "match"
        /\ UNCHANGED <<ord, arrived, index, best, sequence, fills, inc, before>>

(* The end of match: rest what is left, refresh the best prices.           *)
MatchEnd ==
    /\ pc = "match"
    /\ ~CanTrade
    /\ IF ord[inc].remaining > 0
       THEN RestOrder(inc, ord[inc])
       ELSE /\ best' = BestPrices(levels)
            /\ UNCHANGED <<level, levels, index, depth>>
    /\ sequence' = sequence + 1
    /\ pc' = "idle"
    /\ inc' = NoOrder
    /\ before' = 0
    /\ UNCHANGED <<ord, arrived, fills>>

MatchStep == LevelTop \/ LevelDry \/ FillStep \/ LevelDone \/ MatchEnd

(* cancel_order.  The index holds filled orders too: they are erased from  *)
(* it only here.                                                           *)
CancelOrder(o) ==
    LET p == ord[o].price
        s == ord[o].side
        L == IF is_active(o) THEN RemoveOrder(level[p], o, ord[o].remaining, Live) ELSE level[p]
        lv == IF empty(L) THEN [levels EXCEPT ![s] = RemoveLevel(@, p)] ELSE levels
    IN  /\ pc = "idle"
        /\ o \in index
        /\ index' = index \ {o}
        /\ IF p \notin DOMAIN level
           THEN UNCHANGED <<ord, level, levels, best, depth, sequence>>
           ELSE /\ ord' = [ord EXCEPT ![o].status = "CANCELLED"]
                /\ depth' = [depth EXCEPT ![s] = @ - ord[o].remaining]
                /\ level' = IF empty(L) THEN Erase(level, p) ELSE [level EXCEPT ![p] = L]
                /\ levels' = lv
                /\ best' = BestPrices(lv)
                /\ sequence' = sequence + 1
        /\ UNCHANGED <<arrived, callVars>>

(* set_market_price: the simulator's quote, over whatever the book says.   *)
SetMarketPrice(quote) ==
    /\ pc = "idle"
    /\ best' = [BUY |-> quote[1], SELL |-> quote[2]]
    /\ UNCHANGED <<ord, arrived, level, levels, index, depth, sequence, callVars>>

Next ==
    \/ \E o \in Orders, s \in Side, p \in Prices, q \in Quantities :
          o = arrived + 1 /\ (AddOrder(o, s, p, q) \/ MatchBegin(o, s, p, q))
    \/ MatchStep
    \/ \E o \in Orders : CancelOrder(o)
    \/ \E quote \in Quotes : SetMarketPrice(quote)

Spec == Init /\ [][Next]_vars

(* The thread inside match goes on running: it blocks on nothing.          *)
FairSpec == Spec /\ WF_vars(MatchStep)
-----------------------------------------------------------------------------
(* The sum of the remaining quantities of a set of orders.                 *)
Quantity(S) == MapThenSumSet(LAMBDA o : ord[o].remaining, S)

(* The orders that rest in the book: live, and not the one being matched.  *)
Resting == Live \ (IF pc = "idle" THEN {} ELSE {inc})

(* The members have their types; no quantity is negative.                  *)
TypeOK ==
    /\ ord \in [Orders -> Order]
    /\ arrived \in Nat
    /\ DOMAIN level \subseteq Prices
    /\ level \in [DOMAIN level -> Level]
    /\ levels \in [Side -> Seq(Prices)]
    /\ index \subseteq Orders
    /\ best \in [Side -> Int]
    /\ depth \in [Side -> Int]
    /\ sequence \in Nat
    /\ pc \in {"idle", "match", "fill", "leave"}
    /\ inc \in Orders \cup {NoOrder}
    /\ before \in Int

(* m_bid_levels and m_ask_levels are sorted without repetitions, and the   *)
(* levels they point to are exactly those of m_price_to_level: neither a   *)
(* level that was deleted nor one that no vector reaches.                  *)
Sorted(s) == \A i, j \in 1 .. Len(levels[s]) : i < j => Before(s, levels[s][i], levels[s][j])

InSync ==
    /\ \A s \in Side : Sorted(s)
    /\ DOMAIN level = ToSet(levels["BUY"]) \cup ToSet(levels["SELL"])

(* No bid level at or above an ask level, also in the middle of a match:   *)
(* match never leaves behind a crossed book, and one price has one side.   *)
NotCrossed == \A b \in ToSet(levels["BUY"]), a \in ToSet(levels["SELL"]) : b < a

(* An order that rests with quantity left is in the window of the ring of  *)
(* its own price once, on its own side, and cancel_order can find it.      *)
NoOrderLost ==
    \A o \in Resting :
        LET p == ord[o].price
        IN  /\ p \in ToSet(levels[ord[o].side])
            /\ o \in index
            /\ Cardinality({i \in Slots : level[p].buffer[i] = o}) = 1
            /\ o \in Queued(level[p])

(* The counters the rings keep agree with their content: size with the     *)
(* slots from head to tail, total with the quantity the live orders of the *)
(* level have left, lazily deleted ones not counted.                       *)
LevelCounters ==
    \A p \in DOMAIN level :
        /\ level[p].size = Span(level[p])
        /\ level[p].total = Quantity(Resting \cap Queued(level[p]))

(* Between calls the published depth of a side is the quantity that can be *)
(* traded against on it.                                                   *)
DepthIsLiveQuantity ==
    pc = "idle" =>
        \A s \in Side : depth[s] = Quantity({o \in Resting : ord[o].side = s})

(* The shares that the orders of a side have traded.                       *)
FilledOn(s) == MapThenSumSet(LAMBDA o : ord[o].filled, {o \in Orders : ord[o].side = s})

(* match_order fills at the price of the incoming order, not at the maker's *)
(* as its comment says: what remains true is that no maker trades at a     *)
(* price worse than its own limit.                                         *)
FillWithinLimit ==
    \A i \in 1 .. Len(fills) :
        LET m == ord[fills[i].order]
        IN  ~Before(m.side, fills[i].price, m.price)

(* Between calls, a level stays on its side without anything to trade only *)
(* because of cancels behind the head of its ring: fills leave none behind. *)
GhostLevelsOnlyByCancel ==
    pc = "idle" =>
        \A p \in DOMAIN level : \E o \in Queued(level[p]) :
            o \in Resting \/ ord[o].status = "CANCELLED"

(* Every call of match returns.                                            *)
MatchReturns == pc # "idle" ~> pc = "idle"

-----------------------------------------------------------------------------
(* The book implements the price-time-priority book of LimitOrderBook: its *)
(* resting orders are the live orders in the rings, its taker is the order *)
(* in a running match.                                                     *)
AbstractOrder(o) == [id |-> o, side |-> ord[o].side, price |-> ord[o].price,
                     qty |-> ord[o].remaining]

LOB == INSTANCE LimitOrderBook WITH
    book  <- {AbstractOrder(o) : o \in Resting},
    taker <- IF pc = "idle" THEN {} ELSE {AbstractOrder(inc)},
    last  <- arrived

ImplementsLimitOrderBook == LOB!Spec
=============================================================================
