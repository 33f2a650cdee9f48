---------------------------- MODULE EngineProofs -----------------------------
(***************************************************************************)
(* Proofs about MatchingEngine and OrderLifecycle: the book keeps its      *)
(* invariant inside the engine, market orders sweep it, every trade is     *)
(* reported once, the house's position stays flat, its average price is    *)
(* one that was paid, the sweep gives no order back that the worker may    *)
(* still come to, and an order that the risk check refuses leaves no trace.*)
(* Nothing is assumed of full rings: that they lose orders                 *)
(* (OrderBookProofs, second part) does not touch these.                    *)
(***************************************************************************)
EXTENDS OrderLifecycle, OrderBookProofs

(* An order as it is submitted.                                            *)
Request == [side : Side, type : Types, price : LimitPrices \cup {0}, quantity : Quantities]

(* What the engine's variables hold.                                       *)
EngineTypes ==
    /\ request \in Seq(Request)
    /\ queue \in Seq(Orders)
    /\ epc \in {"wait", "reject", "match", "finalize"}

(* The queue holds orders in the order in which they were submitted; the   *)
(* engine has not touched them, nor any order that is still to come.       *)
Untouched ==
    /\ arrived <= Len(request)
    /\ \A i \in 1 .. Len(queue) : queue[i] > arrived /\ queue[i] <= Len(request)
    /\ \A i, j \in 1 .. Len(queue) : i < j => queue[i] < queue[j]
    /\ \A i \in 1 .. Len(queue) : ord[queue[i]] = BlankOrder
    /\ \A o \in Orders : o > Len(request) => ord[o] = BlankOrder

(* The order that process_order works on: a running match is its match; it *)
(* is the youngest in the book and has the price EffectivePrice gives it.  *)
InProcess ==
    /\ pc # "idle" => epc = "match" /\ inc = current
    /\ epc \in {"match", "finalize"} =>
          /\ current \in Orders /\ current = arrived
          /\ ord[current].side = request[current].side
          /\ ord[current].price = EffectivePrice(request[current])
          /\ ord[current].status = "NEW"
    /\ epc = "reject" =>
          /\ current \in Orders /\ current <= Len(request)
          /\ \A i \in 1 .. Len(queue) : current < queue[i]
          /\ ord[current].status = "REJECTED"

(* A market order that match has let go of: if some of it is left, the     *)
(* other side is empty.                                                    *)
SweptOut ==
    /\ (epc = "match" /\ pc = "idle") \/ epc = "finalize"
    /\ request[current].type = "MARKET"
    /\ ord[current].remaining > 0
    => levels[Opposite(ord[current].side)] = << >>

(* The index holds orders that came to the book, none of them rejected.    *)
Indexed == \A o \in index : o <= arrived /\ ord[o].status # "REJECTED"

(* The inductive invariant of the engine: the book's, and the engine's     *)
(* own.                                                                    *)
EInv == IInv /\ EngineTypes /\ Untouched /\ InProcess /\ SweptOut /\ Indexed

-----------------------------------------------------------------------------
(* The engine changes an order outside of the book: one that has not come  *)
(* to the book, or the status of one that has.                             *)
LEMMA OutsideStep ==
    ASSUME IInv, pc = "idle", NEW o \in Orders, NEW r \in Order,
           ord' = [ord EXCEPT ![o] = r],
           UNCHANGED <<arrived, level, levels, index, best, depth, sequence, pc, inc, before>>,
           o > arrived \/ (r.price = ord[o].price /\ r.side = ord[o].side)
    PROVE  IInv'
<1>1. ord \in [Orders -> Order] /\ ord'[o] = r /\ \A x \in Orders : x # o => ord'[x] = ord[x]
  BY DEF IInv, TypeOK
<1>2. TypeOK'
  BY <1>1 DEF IInv, TypeOK
<1>3. Contents'
  <2> SUFFICES ASSUME NEW p \in DOMAIN level, NEW i \in Slots, level[p].buffer[i] # NoOrder
               PROVE  LET b == level[p].buffer[i]
                      IN  b <= arrived /\ ord'[b].price = p /\ p \in ToSet(levels[ord'[b].side])
    BY DEF Contents
  <2> DEFINE b == level[p].buffer[i]
  <2>1. /\ b \in Orders /\ b \in Nat /\ b <= arrived /\ arrived \in Nat
        /\ ord[b].price = p /\ p \in ToSet(levels[ord[b].side])
    BY SlotContents
  <2> HIDE DEF b
  <2>2. b = o => ord'[b].price = ord[b].price /\ ord'[b].side = ord[b].side
    BY <1>1, <2>1
  <2> QED BY <1>1, <2>1, <2>2 DEF b
<1> QED BY <1>2, <1>3 DEF IInv, RingsOK, InSync, Sorted, NotCrossed, CallOK, NonEmpty

-----------------------------------------------------------------------------
(* An order that is submitted is a Request, and match gets a price of the  *)
(* book for it.                                                            *)
LEMMA RequestFields ==
    ASSUME NEW r \in Request
    PROVE  /\ r.side \in Side /\ r.quantity \in Quantities /\ r.quantity \in Nat
           /\ r.price \in Int /\ EffectivePrice(r) \in Prices
<1>1. /\ r.side \in Side /\ r.quantity \in Quantities /\ r.price \in LimitPrices \cup {0}
  BY DEF Request
<1>2. r.quantity \in Nat /\ r.price \in Prices /\ 0 \in Prices /\ INT64_MAX \in Prices
  BY <1>1, EngineAssumption, QuantitiesAssumption
<1>3. \A x \in Prices : x \in Int
  BY PricesAssumption
<1>4. r.price \in Int
  BY <1>2, <1>3
<1> QED BY <1>1, <1>2, <1>4 DEF EffectivePrice

(* What the invariant says of the order at the front of the queue.         *)
LEMMA FrontOrder ==
    ASSUME EInv, queue # << >>, NEW o, o = Head(queue)
    PROVE  /\ o \in Orders /\ o \in Nat /\ o > arrived /\ arrived \in Nat
           /\ o \in 1 .. Len(request) /\ request[o] \in Request
           /\ ord[o] = BlankOrder
           /\ Tail(queue) \in Seq(Orders) /\ Len(Tail(queue)) = Len(queue) - 1
           /\ \A i \in 1 .. Len(Tail(queue)) :
                 /\ i + 1 \in 1 .. Len(queue) /\ Tail(queue)[i] = queue[i + 1]
                 /\ Tail(queue)[i] > o
<1>1. /\ queue \in Seq(Orders) /\ Len(queue) \in Nat /\ Len(queue) > 0
      /\ o = queue[1] /\ 1 \in 1 .. Len(queue) /\ o \in Orders
  BY DEF EInv, EngineTypes
<1>2. /\ o > arrived /\ o <= Len(request) /\ ord[o] = BlankOrder
  BY <1>1 DEF EInv, Untouched
<1>3. o \in Nat /\ o # 0 /\ arrived \in Nat /\ Len(request) \in Nat
  BY <1>1, OrdersAssumption DEF EInv, IInv, TypeOK, EngineTypes, NoOrder
<1>4. o \in 1 .. Len(request) /\ request[o] \in Request
  BY <1>2, <1>3 DEF EInv, EngineTypes
<1>5. /\ Tail(queue) \in Seq(Orders) /\ Len(Tail(queue)) = Len(queue) - 1
      /\ \A i \in 1 .. Len(Tail(queue)) :
            i + 1 \in 1 .. Len(queue) /\ Tail(queue)[i] = queue[i + 1]
  BY <1>1
<1>6. ASSUME NEW i \in 1 .. Len(Tail(queue)) PROVE Tail(queue)[i] > o
  <2>1. i + 1 \in 1 .. Len(queue) /\ 1 < i + 1 /\ Tail(queue)[i] = queue[i + 1]
    BY <1>1, <1>5
  <2>2. queue[1] < queue[i + 1]
    BY <1>1, <2>1 DEF EInv, Untouched
  <2>3. queue[1] \in Nat /\ queue[i + 1] \in Nat
    BY <1>1, <2>1, OrdersAssumption
  <2> QED BY <1>1, <2>1, <2>2, <2>3
<1>7. \A i \in 1 .. Len(Tail(queue)) :
         /\ i + 1 \in 1 .. Len(queue) /\ Tail(queue)[i] = queue[i + 1]
         /\ Tail(queue)[i] > o
  BY <1>5, <1>6
<1> QED BY <1>1, <1>2, <1>3, <1>4, <1>5, <1>7

(* The engine begins with an empty book and an empty queue.                *)
LEMMA EngineInitInv == EngineInit => EInv
<1> SUFFICES ASSUME EngineInit PROVE EInv
  OBVIOUS
<1>1. /\ IInv /\ request = << >> /\ queue = << >> /\ epc = "wait" /\ pc = "idle" /\ arrived = 0
      /\ index = {} /\ \A o \in Orders : ord[o] = BlankOrder
  BY InitInv DEF EngineInit, Init
<1> QED BY <1>1 DEF EInv, EngineTypes, Untouched, InProcess, SweptOut, Indexed

(* submit_order                                                            *)
LEMMA SubmitOrderStep ==
    ASSUME EInv, NEW s \in Side, NEW t \in Types, NEW p \in LimitPrices \cup {0},
           NEW q \in Quantities, SubmitOrder(s, t, p, q)
    PROVE  EInv'
<1> DEFINE o == Len(request) + 1
           r == [side |-> s, type |-> t, price |-> p, quantity |-> q]
<1>1. /\ o \in Orders /\ request' = Append(request, r)
      /\ queue' = (IF Len(queue) < QUEUE_SIZE THEN Append(queue, o) ELSE queue)
      /\ UNCHANGED vars /\ UNCHANGED <<ord, arrived, levels, index, pc, inc, epc, current>>
  BY DEF SubmitOrder, vars, bookVars, callVars
<1>2. IInv'
  BY <1>1, Stutter DEF EInv
<1>3. r \in Request /\ request \in Seq(Request) /\ queue \in Seq(Orders) /\ arrived \in Nat
  BY DEF Request, EInv, EngineTypes, IInv, TypeOK
<1> HIDE DEF r
<1>4. /\ request' \in Seq(Request) /\ Len(request') = o /\ Len(request) \in Nat
      /\ \A i \in 1 .. Len(request) : request'[i] = request[i]
  BY <1>1, <1>3
<1>5. /\ queue' \in Seq(Orders) /\ Len(queue) \in Nat
      /\ \A i \in 1 .. Len(queue') : i <= Len(queue) => queue'[i] = queue[i]
      /\ \A i \in 1 .. Len(queue') : i > Len(queue) => i = Len(queue) + 1 /\ queue'[i] = o
  BY <1>1, <1>3
<1>6. \A i \in 1 .. Len(queue) : queue[i] \in Nat /\ queue[i] <= Len(request)
  <2>1. \A i \in 1 .. Len(queue) : queue[i] \in Orders
    BY <1>3
  <2> QED BY <2>1, OrdersAssumption DEF EInv, Untouched
<1>7. arrived <= Len(request) /\ ord[o] = BlankOrder
  BY <1>1, <1>3, <1>4 DEF EInv, Untouched
<1> HIDE DEF o
<1>8. Untouched'
  <2>1. arrived' <= Len(request')
    BY <1>1, <1>3, <1>4, <1>7 DEF o
  <2>2. ASSUME NEW i \in 1 .. Len(queue')
        PROVE  /\ queue'[i] > arrived' /\ queue'[i] <= Len(request')
               /\ ord'[queue'[i]] = BlankOrder
    <3>1. CASE i <= Len(queue)
      <4>1. i \in 1 .. Len(queue)
        BY <1>5, <3>1
      <4>2. queue[i] > arrived /\ queue[i] <= Len(request) /\ ord[queue[i]] = BlankOrder
        BY <4>1 DEF EInv, Untouched
      <4> QED BY <1>1, <1>4, <1>5, <1>6, <3>1, <4>1, <4>2 DEF o
    <3>2. CASE i > Len(queue)
      BY <1>1, <1>3, <1>4, <1>5, <1>7, <3>2 DEF o
    <3> QED BY <1>5, <3>1, <3>2
  <2>3. ASSUME NEW i \in 1 .. Len(queue'), NEW j \in 1 .. Len(queue'), i < j
        PROVE  queue'[i] < queue'[j]
    <3>1. i \in 1 .. Len(queue) /\ queue'[i] = queue[i]
      BY <1>5, <2>3
    <3>2. CASE j <= Len(queue)
      <4>1. j \in 1 .. Len(queue) /\ queue'[j] = queue[j]
        BY <1>5, <3>2
      <4> QED BY <2>3, <3>1, <4>1 DEF EInv, Untouched
    <3>3. CASE j > Len(queue)
      <4>1. queue'[j] = o
        BY <1>5, <3>3
      <4> QED BY <1>4, <1>6, <3>1, <4>1 DEF o
    <3> QED BY <1>5, <3>2, <3>3
  <2>4. ASSUME NEW x \in Orders, x > Len(request') PROVE ord'[x] = BlankOrder
    <3>1. x > Len(request)
      BY <1>4, <2>4, OrdersAssumption DEF o
    <3> QED BY <1>1, <3>1 DEF EInv, Untouched
  <2> QED BY <2>1, <2>2, <2>3, <2>4 DEF Untouched
<1>9. epc \in {"match", "finalize"} => current \in 1 .. Len(request) /\ request'[current] = request[current]
  <2>1. epc \in {"match", "finalize"} => current \in Nat /\ current # 0 /\ current <= Len(request)
    BY <1>3, <1>7, OrdersAssumption DEF EInv, InProcess, NoOrder
  <2> QED BY <1>4, <2>1
<1>10. InProcess'
  <2>1. epc = "reject" =>
          /\ current \in Orders /\ current <= Len(request') /\ ord[current].status = "REJECTED"
          /\ \A i \in 1 .. Len(queue') : current < queue'[i]
    <3> SUFFICES ASSUME epc = "reject"
                 PROVE  /\ current \in Orders /\ current <= Len(request')
                        /\ ord[current].status = "REJECTED"
                        /\ \A i \in 1 .. Len(queue') : current < queue'[i]
      OBVIOUS
    <3>1. /\ current \in Orders /\ current <= Len(request) /\ ord[current].status = "REJECTED"
          /\ \A i \in 1 .. Len(queue) : current < queue[i]
      BY DEF EInv, InProcess
    <3>2. current \in Nat
      BY <3>1, OrdersAssumption
    <3>3. ASSUME NEW i \in 1 .. Len(queue') PROVE current < queue'[i]
      <4>1. CASE i <= Len(queue)
        BY <1>5, <3>1, <4>1
      <4>2. CASE i > Len(queue)
        BY <1>4, <1>5, <3>1, <3>2, <4>2 DEF o
      <4> QED BY <1>5, <4>1, <4>2
    <3> QED BY <1>4, <3>1, <3>2, <3>3 DEF o
  <2> QED BY <1>1, <1>9, <2>1 DEF EInv, InProcess
<1>11. SweptOut'
  BY <1>1, <1>9 DEF EInv, SweptOut
<1>12. EngineTypes' /\ Indexed'
  BY <1>1, <1>4, <1>5 DEF EInv, EngineTypes, Indexed
<1> QED BY <1>2, <1>8, <1>10, <1>11, <1>12 DEF EInv

-----------------------------------------------------------------------------
(* A fill takes as much from the maker as from the taker, which are of     *)
(* different sides, and changes nothing else of any order.                 *)
LEMMA FillFacts ==
    ASSUME IInv, FillStep
    PROVE  \E m \in Orders, q \in Nat :
             /\ m \in Live /\ m # inc /\ m <= arrived /\ inc \in Orders /\ inc <= arrived
             /\ ord[m] \in Order /\ ord[inc] \in Order
             /\ ord[m].side = Opposite(ord[inc].side) /\ ord[inc].side \in Side
             /\ fills' = Append(fills, [order |-> m, quantity |-> q, price |-> ord[inc].price])
             /\ ord'[m] = Executed(ord[m], q) /\ ord'[inc] = Executed(ord[inc], q)
             /\ \A x \in Orders : x # m /\ x # inc => ord'[x] = ord[x]
<1> DEFINE p == Opp[1]
           L == Advance(level[p], Live)
           m == HeadOrder(L)
           q == FillQuantity(inc, m)
<1>1. /\ pc = "fill" /\ ~Exhausted(L)
      /\ fills' = Append(fills, [order |-> m, quantity |-> q, price |-> ord[inc].price])
      /\ ord' = [ord EXCEPT ![m] = Executed(@, q), ![inc] = Executed(@, q)]
  BY DEF FillStep, FillPrice
<1>2. /\ inc \in Orders /\ inc <= arrived /\ ord[inc] \in Order /\ ord[inc].side \in Side
      /\ p \in DOMAIN level /\ p \in ToSet(levels[Opposite(ord[inc].side)])
  BY <1>1, MatchedLevel DEF IInv, CallOK, Opp
<1>3. m \in Live /\ \E i \in Slots : m = level[p].buffer[i]
  BY <1>1, <1>2, AdvanceProperties DEF IInv, RingsOK
<1> HIDE DEF m
<1>4. PICK i \in Slots : m = level[p].buffer[i]
  BY <1>3
<1>5. m \in Orders /\ m # NoOrder
  BY <1>3, OrdersAssumption DEF Live
<1>6. /\ m <= arrived /\ ord[m] \in Order /\ ord[m].side \in Side
      /\ p \in ToSet(levels[ord[m].side])
  BY <1>2, <1>4, <1>5, SlotContents
<1>7. ord[m].side = Opposite(ord[inc].side)
  <2>1. p \notin ToSet(levels[ord[inc].side])
    BY <1>2, SidesOfBook
  <2>2. ord[m].side # ord[inc].side
    BY <1>6, <2>1
  <2> QED BY <1>2, <1>6, <2>2 DEF Side, Opposite
<1>8. m # inc
  BY <1>2, <1>7 DEF Side, Opposite
<1>9. q \in Nat
  BY <1>2, <1>6 DEF FillQuantity, Order
<1> HIDE DEF q
<1>10. ord \in [Orders -> Order]
  BY DEF IInv, TypeOK
<1>11. /\ ord'[m] = Executed(ord[m], q) /\ ord'[inc] = Executed(ord[inc], q)
       /\ \A x \in Orders : x # m /\ x # inc => ord'[x] = ord[x]
  BY <1>1, <1>2, <1>5, <1>8, <1>10
<1>12. /\ m \in Live /\ m # inc /\ m <= arrived /\ inc \in Orders /\ inc <= arrived
       /\ ord[m] \in Order /\ ord[inc] \in Order
       /\ ord[m].side = Opposite(ord[inc].side) /\ ord[inc].side \in Side
       /\ fills' = Append(fills, [order |-> m, quantity |-> q, price |-> ord[inc].price])
  BY <1>1, <1>2, <1>3, <1>6, <1>7, <1>8
<1> QED BY <1>5, <1>9, <1>11, <1>12

(* What a step of match leaves alone.                                      *)
LEMMA MatchLeaves ==
    ASSUME IInv, MatchStep
    PROVE  /\ pc # "idle" /\ arrived' = arrived /\ inc \in Orders /\ ord \in [Orders -> Order]
           /\ pc' # "idle" => inc' = inc
           /\ pc' = "idle" => MatchEnd
           /\ \A x \in Orders : /\ ord'[x].side = ord[x].side /\ ord'[x].price = ord[x].price
                                /\ ord'[x].status = ord[x].status
           /\ \A x \in Orders : x > arrived => ord'[x] = ord[x]
<1>1. pc # "idle"
  BY DEF MatchStep, LevelTop, LevelDry, FillStep, LevelDone, MatchEnd
<1>2. inc \in Orders /\ ord \in [Orders -> Order] /\ arrived \in Nat
  BY <1>1 DEF IInv, CallOK, TypeOK
<1>3. CASE LevelTop \/ LevelDry \/ LevelDone \/ MatchEnd
  <2>1. /\ UNCHANGED <<ord, arrived>> /\ (pc' # "idle" => inc' = inc)
        /\ (pc' = "idle" => MatchEnd)
    BY <1>3 DEF LevelTop, LevelDry, LevelDone, MatchEnd
  <2> QED BY <1>1, <1>2, <2>1
<1>4. CASE FillStep
  <2>1. /\ arrived' = arrived /\ inc' = inc /\ pc' # "idle"
    BY <1>4 DEF FillStep
  <2>2. PICK m \in Orders, q \in Nat :
             /\ m # inc /\ m <= arrived /\ inc <= arrived
             /\ ord[m] \in Order /\ ord[inc] \in Order
             /\ ord'[m] = Executed(ord[m], q) /\ ord'[inc] = Executed(ord[inc], q)
             /\ \A x \in Orders : x # m /\ x # inc => ord'[x] = ord[x]
    BY <1>4, FillFacts
  <2>3. ASSUME NEW x \in Orders
        PROVE  /\ ord'[x].side = ord[x].side /\ ord'[x].price = ord[x].price
               /\ ord'[x].status = ord[x].status
    BY <2>2, ExecutedFields
  <2>4. ASSUME NEW x \in Orders, x > arrived PROVE ord'[x] = ord[x]
    <3>1. x # m /\ x # inc
      BY <1>2, <2>2, <2>4, OrdersAssumption
    <3> QED BY <2>2, <3>1
  <2> QED BY <1>1, <1>2, <2>1, <2>3, <2>4
<1> QED BY <1>3, <1>4 DEF MatchStep

(* match lets go of a market order only when the other side is empty.      *)
LEMMA MatchEndSweeps ==
    ASSUME EInv, epc = "match", MatchEnd
    PROVE  LET s == Opposite(ord[current].side)
           IN  request[current].type = "MARKET" /\ ord'[current].remaining > 0
                 => levels'[s] = << >>
<1> SUFFICES ASSUME request[current].type = "MARKET", ord'[current].remaining > 0
             PROVE  levels'[Opposite(ord[current].side)] = << >>
  OBVIOUS
<1>1. /\ pc = "match" /\ inc = current /\ ord' = ord /\ ~CanTrade
      /\ RestOrder(inc, ord[inc])
  BY DEF MatchEnd, EInv, InProcess
<1> DEFINE s == ord[inc].side
           p == ord[inc].price
<1>2. /\ s \in Side /\ Opposite(s) \in Side /\ Opp \in Seq(Prices)
      /\ Opp # << >> => Opp[1] \in Prices
  BY <1>1, MatchedLevel DEF EInv
<1>3. /\ s = request[current].side
      /\ p = EffectivePrice(request[current])
  BY <1>1 DEF EInv, InProcess
<1>4. p = IF s = "BUY" THEN INT64_MAX ELSE 0
  BY <1>3 DEF EffectivePrice
<1>5. Opp # << >> => ~Before(s, Opp[1], p)
  <2>1. Opp # << >> => Opp[1] \in Nat /\ Opp[1] <= INT64_MAX
    BY <1>2, PricesAssumption
  <2>2. INT64_MAX \in Nat
    BY PricesAssumption
  <2> QED BY <1>4, <2>1, <2>2 DEF Before
<1>6. Opp = << >>
  BY <1>1, <1>5 DEF CanTrade
<1>7. levels'[Opposite(s)] = levels[Opposite(s)]
  <2>1. Opposite(s) # s
    BY <1>2 DEF Opposite, Side
  <2>2. \/ levels' = levels
        \/ levels' = [levels EXCEPT ![s] = InsertLevel(s, levels[s], p)]
    BY <1>1 DEF RestOrder
  <2>3. levels \in [Side -> Seq(Prices)]
    BY DEF EInv, IInv, TypeOK
  <2> QED BY <1>2, <2>1, <2>2, <2>3
<1> QED BY <1>1, <1>6, <1>7 DEF Opp

-----------------------------------------------------------------------------
(* A rejected order is an order, of which nothing was filled.              *)
LEMMA RejectedOrder ==
    ASSUME NEW s \in Side, NEW p \in Int, NEW q \in Nat
    PROVE  LET r == [NewOrder(s, p, q) EXCEPT !.status = "REJECTED"]
           IN  r \in Order /\ r.status = "REJECTED" /\ r.filled = 0 /\ r.side \in Side
BY DEF Order, NewOrder, Status

(* check_risk refuses the order at the front: it is marked, and the book   *)
(* does not hear of it.                                                    *)
LEMMA RejectOrderStep ==
    ASSUME EInv, RejectOrder
    PROVE  /\ EInv'
           /\ \E o \in Orders, r \in Order :
                 /\ o > arrived /\ ord[o] = BlankOrder
                 /\ r.filled = 0 /\ r.side \in Side /\ r.status = "REJECTED"
                 /\ ord' = [ord EXCEPT ![o] = r]
<1> DEFINE o == Head(queue)
           r == [NewOrder(request[o].side, request[o].price, request[o].quantity)
                   EXCEPT !.status = "REJECTED"]
<1>1. /\ epc = "wait" /\ queue # << >> /\ queue' = Tail(queue) /\ ord' = [ord EXCEPT ![o] = r]
      /\ epc' = "reject" /\ current' = o /\ request' = request
      /\ UNCHANGED <<arrived, level, levels, index, best, depth, sequence, fills, pc, inc, before>>
  BY DEF RejectOrder
<1>2. /\ o \in Orders /\ o \in Nat /\ o > arrived /\ arrived \in Nat
      /\ o \in 1 .. Len(request) /\ request[o] \in Request
      /\ ord[o] = BlankOrder
      /\ Tail(queue) \in Seq(Orders) /\ Len(Tail(queue)) = Len(queue) - 1
      /\ \A i \in 1 .. Len(Tail(queue)) :
            /\ i + 1 \in 1 .. Len(queue) /\ Tail(queue)[i] = queue[i + 1]
            /\ Tail(queue)[i] > o
  BY <1>1, FrontOrder
<1>3. pc = "idle"
  BY <1>1 DEF EInv, InProcess
<1>4. /\ r \in Order /\ r.status = "REJECTED" /\ r.filled = 0 /\ r.side \in Side
  <2>1. /\ request[o].side \in Side /\ request[o].quantity \in Nat /\ request[o].price \in Int
    BY <1>2, RequestFields
  <2> QED BY <2>1, RejectedOrder
<1> HIDE DEF r
<1>5. IInv'
  BY <1>1, <1>2, <1>3, <1>4, OutsideStep DEF EInv
<1>6. ord'[o] = r /\ \A x \in Orders : x # o => ord'[x] = ord[x]
  BY <1>1, <1>2 DEF EInv, IInv, TypeOK
<1> HIDE DEF o
<1>7. Untouched'
  <2>1. ASSUME NEW i \in 1 .. Len(queue')
        PROVE  queue'[i] > arrived /\ queue'[i] <= Len(request) /\ ord'[queue'[i]] = BlankOrder
    <3>1. /\ i + 1 \in 1 .. Len(queue) /\ queue'[i] = queue[i + 1] /\ queue'[i] > o
      BY <1>1, <1>2
    <3>2. queue[i + 1] \in Orders /\ queue[i + 1] # o
      BY <1>2, <3>1, OrdersAssumption DEF EInv, EngineTypes
    <3> QED BY <1>6, <3>1, <3>2 DEF EInv, Untouched
  <2>2. ASSUME NEW i \in 1 .. Len(queue'), NEW j \in 1 .. Len(queue'), i < j
        PROVE  queue'[i] < queue'[j]
    <3>1. /\ i + 1 \in 1 .. Len(queue) /\ queue'[i] = queue[i + 1]
          /\ j + 1 \in 1 .. Len(queue) /\ queue'[j] = queue[j + 1] /\ i + 1 < j + 1
      BY <1>1, <1>2, <2>2
    <3> QED BY <3>1 DEF EInv, Untouched
  <2>3. ASSUME NEW x \in Orders, x > Len(request) PROVE ord'[x] = BlankOrder
    <3>1. x # o
      BY <1>2, <2>3, OrdersAssumption
    <3> QED BY <1>6, <2>3, <3>1 DEF EInv, Untouched
  <2> QED BY <1>1, <2>1, <2>2, <2>3 DEF EInv, Untouched
<1>8. InProcess'
  BY <1>1, <1>2, <1>3, <1>4, <1>6 DEF InProcess
<1>9. SweptOut'
  BY <1>1 DEF SweptOut
<1>10. EngineTypes'
  BY <1>1, <1>2 DEF EInv, EngineTypes
<1>11. Indexed'
  <2>1. \A x \in index : x \in Orders /\ x \in Nat /\ x # o
    BY <1>2, OrdersAssumption DEF EInv, IInv, TypeOK, Indexed
  <2> QED BY <1>1, <1>6, <2>1 DEF EInv, Indexed
<1>12. EInv'
  BY <1>5, <1>7, <1>8, <1>9, <1>10, <1>11 DEF EInv
<1> QED BY <1>1, <1>2, <1>4, <1>12

(* It passes: the book takes it into match.                                *)
LEMMA ProcessOrderStep ==
    ASSUME EInv, ProcessOrder
    PROVE  /\ EInv'
           /\ \E o \in Orders, s \in Side, p \in Prices, q \in Quantities :
                 o > arrived /\ ord[o] = BlankOrder /\ current' = o /\ MatchBegin(o, s, p, q)
<1> DEFINE o == Head(queue)
           s == request[o].side
           p == EffectivePrice(request[o])
           q == request[o].quantity
<1>1. /\ epc = "wait" /\ queue # << >> /\ queue' = Tail(queue) /\ MatchBegin(o, s, p, q)
      /\ epc' = "match" /\ current' = o /\ request' = request
  BY DEF ProcessOrder
<1>2. /\ o \in Orders /\ o \in Nat /\ o > arrived /\ arrived \in Nat
      /\ o \in 1 .. Len(request) /\ request[o] \in Request
      /\ ord[o] = BlankOrder
      /\ Tail(queue) \in Seq(Orders) /\ Len(Tail(queue)) = Len(queue) - 1
      /\ \A i \in 1 .. Len(Tail(queue)) :
            /\ i + 1 \in 1 .. Len(queue) /\ Tail(queue)[i] = queue[i + 1]
            /\ Tail(queue)[i] > o
  BY <1>1, FrontOrder
<1>3. s \in Side /\ p \in Prices /\ q \in Quantities /\ q \in Nat
  BY <1>2, RequestFields
<1>4. IInv'
  BY <1>1, <1>2, <1>3, MatchBeginStep DEF EInv
<1>5. /\ arrived' = o /\ ord' = [ord EXCEPT ![o] = NewOrder(s, p, q)]
      /\ (pc' # "idle" => inc' = o) /\ (pc' = "idle" => q = 0)
  BY <1>1 DEF MatchBegin
<1>6. ord'[o] = NewOrder(s, p, q) /\ \A x \in Orders : x # o => ord'[x] = ord[x]
  BY <1>2, <1>5 DEF EInv, IInv, TypeOK
<1> HIDE DEF o
<1>7. Untouched'
  <2>1. ASSUME NEW i \in 1 .. Len(queue')
        PROVE  queue'[i] > o /\ queue'[i] <= Len(request) /\ ord'[queue'[i]] = BlankOrder
    <3>1. /\ i + 1 \in 1 .. Len(queue) /\ queue'[i] = queue[i + 1] /\ queue'[i] > o
      BY <1>1, <1>2
    <3>2. queue[i + 1] \in Orders /\ queue[i + 1] # o
      BY <1>2, <3>1, OrdersAssumption DEF EInv, EngineTypes
    <3> QED BY <1>6, <3>1, <3>2 DEF EInv, Untouched
  <2>2. ASSUME NEW i \in 1 .. Len(queue'), NEW j \in 1 .. Len(queue'), i < j
        PROVE  queue'[i] < queue'[j]
    <3>1. /\ i + 1 \in 1 .. Len(queue) /\ queue'[i] = queue[i + 1]
          /\ j + 1 \in 1 .. Len(queue) /\ queue'[j] = queue[j + 1] /\ i + 1 < j + 1
      BY <1>1, <1>2, <2>2
    <3> QED BY <3>1 DEF EInv, Untouched
  <2>3. ASSUME NEW x \in Orders, x > Len(request) PROVE ord'[x] = BlankOrder
    <3>1. x # o
      BY <1>2, <2>3, OrdersAssumption
    <3> QED BY <1>6, <2>3, <3>1 DEF EInv, Untouched
  <2> QED BY <1>1, <1>2, <1>5, <2>1, <2>2, <2>3 DEF Untouched
<1>8. /\ ord'[o].side = s /\ ord'[o].price = p /\ ord'[o].status = "NEW"
      /\ ord'[o].remaining = q
  BY <1>6 DEF NewOrder
<1>9. InProcess'
  BY <1>1, <1>2, <1>5, <1>8 DEF InProcess
<1>10. SweptOut'
  BY <1>1, <1>3, <1>5, <1>8 DEF SweptOut
<1>11. EngineTypes'
  BY <1>1, <1>2 DEF EInv, EngineTypes
<1>12. Indexed'
  <2>1. \A x \in index : x \in Orders /\ x \in Nat /\ x <= arrived /\ x <= o /\ x # o
    BY <1>2, OrdersAssumption DEF EInv, IInv, TypeOK, Indexed
  <2>2. index' = index
    BY <1>1 DEF MatchBegin, bookVars
  <2> QED BY <1>5, <1>6, <2>1, <2>2 DEF EInv, Indexed
<1>13. EInv'
  BY <1>4, <1>7, <1>9, <1>10, <1>11, <1>12 DEF EInv
<1> QED BY <1>1, <1>2, <1>3, <1>13

(* What lies ahead of the book stays as it was when only orders that came  *)
(* to it change.                                                           *)
LEMMA AheadUntouched ==
    ASSUME EInv, UNCHANGED <<arrived, request, queue>>,
           \A x \in Orders : x > arrived => ord'[x] = ord[x]
    PROVE  Untouched'
<1>1. \A i \in 1 .. Len(queue) : queue[i] \in Orders
  BY DEF EInv, EngineTypes
<1>2. ASSUME NEW x \in Orders, x > Len(request) PROVE ord'[x] = BlankOrder
  <2>1. x \in Nat /\ arrived \in Nat /\ Len(request) \in Nat /\ arrived <= Len(request)
    BY OrdersAssumption DEF EInv, IInv, TypeOK, EngineTypes, Untouched
  <2>2. x > arrived
    BY <1>2, <2>1
  <2> QED BY <1>2, <2>2 DEF EInv, Untouched
<1> QED BY <1>1, <1>2 DEF EInv, Untouched

(* The report of the rejection.                                            *)
LEMMA SendRejectionStep ==
    ASSUME EInv, SendRejection PROVE EInv'
<1>1. /\ epc = "reject" /\ epc' = "wait" /\ UNCHANGED vars /\ UNCHANGED <<request, queue>>
      /\ UNCHANGED <<ord, arrived, levels, index, pc, inc>>
  BY DEF SendRejection, vars, bookVars, callVars
<1>2. IInv'
  BY <1>1, Stutter DEF EInv
<1>3. Untouched'
  BY <1>1, AheadUntouched
<1>4. pc = "idle"
  BY <1>1 DEF EInv, InProcess
<1> QED BY <1>1, <1>2, <1>3, <1>4 DEF EInv, EngineTypes, InProcess, SweptOut, Indexed

(* A turn of match.                                                        *)
LEMMA ContinueMatchStep ==
    ASSUME EInv, ContinueMatch PROVE EInv'
<1>1. /\ epc = "match" /\ MatchStep /\ UNCHANGED <<request, queue, epc, current>>
  BY DEF ContinueMatch, engineVars
<1>2. IInv'
  BY <1>1, NextInv DEF EInv, Next
<1>3. /\ pc # "idle" /\ arrived' = arrived /\ inc \in Orders /\ ord \in [Orders -> Order]
      /\ pc' # "idle" => inc' = inc
      /\ pc' = "idle" => MatchEnd
      /\ \A x \in Orders : /\ ord'[x].side = ord[x].side /\ ord'[x].price = ord[x].price
                           /\ ord'[x].status = ord[x].status
      /\ \A x \in Orders : x > arrived => ord'[x] = ord[x]
  BY <1>1, MatchLeaves DEF EInv
<1>4. Untouched'
  BY <1>1, <1>3, AheadUntouched
<1>5. InProcess'
  BY <1>1, <1>3 DEF EInv, InProcess
<1>6. SweptOut'
  <2>1. CASE pc' # "idle"
    BY <1>1, <2>1 DEF SweptOut
  <2>2. CASE pc' = "idle"
    <3>1. current \in Orders /\ ord'[current].side = ord[current].side
      BY <1>1, <1>3 DEF EInv, InProcess
    <3> QED BY <1>1, <1>3, <2>2, <3>1, MatchEndSweeps DEF SweptOut
  <2> QED BY <2>1, <2>2
<1>7. Indexed'
  <2>1. inc <= arrived /\ ord[inc].status # "REJECTED"
    BY <1>1, <1>3 DEF EInv, InProcess, IInv, CallOK
  <2>2. index' \subseteq index \cup {inc}
    BY <1>1 DEF MatchStep, LevelTop, LevelDry, FillStep, LevelDone, MatchEnd, RestOrder, bookVars
  <2>3. index \subseteq Orders
    BY DEF EInv, IInv, TypeOK
  <2> QED BY <1>3, <2>1, <2>2, <2>3 DEF EInv, Indexed
<1> QED BY <1>1, <1>2, <1>4, <1>5, <1>6, <1>7 DEF EInv, EngineTypes

(* What process_order does when match has returned.                        *)
LEMMA BookFillsStep ==
    ASSUME EInv, BookFills PROVE EInv'
<1>1. /\ epc = "match" /\ pc = "idle" /\ epc' = "finalize" /\ UNCHANGED vars
      /\ UNCHANGED <<request, queue, current>>
      /\ UNCHANGED <<ord, arrived, levels, index, pc, inc>>
  BY DEF BookFills, vars, bookVars, callVars
<1>2. IInv'
  BY <1>1, Stutter DEF EInv
<1>3. Untouched'
  BY <1>1, AheadUntouched
<1> QED BY <1>1, <1>2, <1>3 DEF EInv, EngineTypes, InProcess, SweptOut, Indexed

(* A status is changed, and nothing else of any order.                     *)
LEMMA StatusChanged ==
    ASSUME EInv, NEW o \in Orders, NEW st \in Status, ord' = [ord EXCEPT ![o].status = st]
    PROVE  /\ ord[o] \in Order /\ ord' = [ord EXCEPT ![o] = [ord[o] EXCEPT !.status = st]]
           /\ [ord[o] EXCEPT !.status = st] \in Order
           /\ ord'[o].status = st
           /\ \A x \in Orders : x # o => ord'[x] = ord[x]
           /\ \A x \in Orders : /\ ord'[x].side = ord[x].side /\ ord'[x].price = ord[x].price
                                /\ ord'[x].filled = ord[x].filled
                                /\ ord'[x].remaining = ord[x].remaining
<1>1. ord \in [Orders -> Order] /\ ord[o] \in Order
  BY DEF EInv, IInv, TypeOK
<1> DEFINE r == [ord[o] EXCEPT !.status = st]
<1>2. ord' = [ord EXCEPT ![o] = r]
  OBVIOUS
<1>3. /\ r \in Order /\ r.status = st /\ r.side = ord[o].side /\ r.price = ord[o].price
      /\ r.filled = ord[o].filled /\ r.remaining = ord[o].remaining
  BY <1>1 DEF Order
<1> HIDE DEF r
<1>4. ord'[o] = r /\ \A x \in Orders : x # o => ord'[x] = ord[x]
  BY <1>1, <1>2
<1>5. ASSUME NEW x \in Orders
      PROVE  /\ ord'[x].side = ord[x].side /\ ord'[x].price = ord[x].price
             /\ ord'[x].filled = ord[x].filled /\ ord'[x].remaining = ord[x].remaining
  BY <1>3, <1>4
<1> QED BY <1>1, <1>2, <1>3, <1>4, <1>5 DEF r

(* ... and its last: the status.                                           *)
LEMMA FinalizeOrderStep ==
    ASSUME EInv, FinalizeOrder
    PROVE  /\ EInv'
           /\ \E o \in Orders, st \in Status \ {"REJECTED"} :
                 ord[o].status # "REJECTED" /\ ord' = [ord EXCEPT ![o].status = st]
<1> DEFINE o == current
           st == FinalStatus(o)
           r == [ord[o] EXCEPT !.status = st]
<1>1. /\ epc = "finalize" /\ epc' = "wait" /\ ord' = [ord EXCEPT ![o].status = st]
      /\ UNCHANGED <<request, queue, arrived, level, levels, index, best, depth, sequence,
                     fills, pc, inc, before>>
  BY DEF FinalizeOrder
<1>2. o \in Orders /\ o = arrived /\ arrived \in Nat /\ pc = "idle" /\ ord[o].status = "NEW"
  BY <1>1 DEF EInv, InProcess, IInv, TypeOK
<1>3. st \in Status \ {"REJECTED"}
  BY DEF FinalStatus, Status
<1> HIDE DEF o, st
<1>4. /\ ord[o] \in Order /\ ord' = [ord EXCEPT ![o] = r] /\ r \in Order
      /\ \A x \in Orders : x # o => ord'[x] = ord[x]
      /\ r.price = ord[o].price /\ r.side = ord[o].side /\ ord'[o].status = st
  <2>1. /\ ord[o] \in Order /\ ord' = [ord EXCEPT ![o] = r] /\ r \in Order
        /\ \A x \in Orders : x # o => ord'[x] = ord[x]
        /\ ord'[o].status = st
    BY <1>1, <1>2, <1>3, StatusChanged
  <2>2. r.price = ord[o].price /\ r.side = ord[o].side
    BY <2>1 DEF Order
  <2> QED BY <2>1, <2>2
<1> HIDE DEF r
<1>5. IInv'
  BY <1>1, <1>2, <1>4, OutsideStep DEF EInv
<1>6. Untouched'
  <2>1. \A x \in Orders : x > arrived => x # o
    BY <1>2
  <2> QED BY <1>1, <1>4, <2>1, AheadUntouched
<1>7. Indexed'
  <2>1. index \subseteq Orders
    BY DEF EInv, IInv, TypeOK
  <2> QED BY <1>1, <1>3, <1>4, <2>1 DEF EInv, Indexed
<1>8. EInv'
  BY <1>1, <1>2, <1>5, <1>6, <1>7 DEF EInv, EngineTypes, InProcess, SweptOut
<1> QED BY <1>1, <1>2, <1>3, <1>8

(* The cancel thread.                                                      *)
LEMMA CancelBetweenStep ==
    ASSUME EInv, NEW o \in Orders, CancelBetween(o)
    PROVE  /\ EInv'
           /\ \/ ord' = ord
              \/ ord[o].status # "REJECTED" /\ ord' = [ord EXCEPT ![o].status = "CANCELLED"]
<1>1. /\ epc = "wait" /\ CancelOrder(o) /\ UNCHANGED <<request, queue, epc, current>>
  BY DEF CancelBetween, engineVars
<1>2. /\ pc = "idle" /\ pc' = pc /\ arrived' = arrived /\ o \in index /\ index' = index \ {o}
      /\ ord' = ord \/ ord' = [ord EXCEPT ![o].status = "CANCELLED"]
  BY <1>1 DEF CancelOrder, callVars
<1>3. IInv'
  BY <1>1, CancelOrderStep DEF EInv
<1>4. o <= arrived /\ o \in Nat /\ arrived \in Nat /\ ord[o].status # "REJECTED"
  BY <1>2, OrdersAssumption DEF EInv, IInv, TypeOK, Indexed
<1>5. \A x \in Orders : x # o => ord'[x] = ord[x]
  BY <1>2, StatusChanged DEF Status
<1>6. Untouched'
  <2>1. \A x \in Orders : x > arrived => x # o
    BY <1>4
  <2> QED BY <1>1, <1>2, <1>5, <2>1, AheadUntouched
<1>7. Indexed'
  <2>1. \A x \in index' : x \in Orders /\ x \in index /\ x # o
    BY <1>2 DEF EInv, IInv, TypeOK
  <2> QED BY <1>2, <1>5, <2>1 DEF EInv, Indexed
<1>8. EInv'
  BY <1>1, <1>2, <1>3, <1>6, <1>7 DEF EInv, EngineTypes, InProcess, SweptOut
<1> QED BY <1>2, <1>4, <1>8

(* Nothing that the engine and its book keep changes.                      *)
LEMMA EngineStutter ==
    ASSUME EInv, UNCHANGED vars, UNCHANGED engineVars PROVE EInv'
<1>1. /\ UNCHANGED <<ord, arrived, levels, index, pc, inc>>
      /\ UNCHANGED <<request, queue, epc, current>>
  BY DEF vars, bookVars, callVars, engineVars
<1>2. IInv'
  BY Stutter DEF EInv
<1>3. Untouched'
  BY <1>1, AheadUntouched
<1> QED BY <1>1, <1>2, <1>3 DEF EInv, EngineTypes, InProcess, SweptOut, Indexed

-----------------------------------------------------------------------------
(* No step of any of the three threads breaks the invariant.               *)
LEMMA EngineNextInv == EInv /\ [EngineNext]_allVars => EInv'
<1> SUFFICES ASSUME EInv, [EngineNext]_allVars PROVE EInv'
  OBVIOUS
<1>1. CASE \E s \in {"BUY", "SELL"}, t \in Types, q \in Quantities :
              \E p \in (IF t = "MARKET" THEN {0} ELSE LimitPrices) : SubmitOrder(s, t, p, q)
  BY <1>1, SubmitOrderStep DEF Side
<1>2. CASE WorkerStep
  BY <1>2, RejectOrderStep, SendRejectionStep, ProcessOrderStep, ContinueMatchStep, BookFillsStep,
     FinalizeOrderStep DEF WorkerStep
<1>3. CASE \E o \in Orders : CancelBetween(o)
  BY <1>3, CancelBetweenStep
<1>4. CASE ToggleBreaker
  BY <1>4, EngineStutter DEF ToggleBreaker
<1>5. CASE UNCHANGED allVars
  BY <1>5, EngineStutter DEF allVars
<1> QED BY <1>1, <1>2, <1>3, <1>4, <1>5 DEF EngineNext

(* The book keeps its invariant inside the engine, where the worker is in  *)
(* the middle of process_order while other threads submit and cancel, and  *)
(* the engine knows what it works on.                                      *)
THEOREM EngineInvariance == EngineSpec => []EInv
BY EngineInitInv, EngineNextInv, PTL DEF EngineSpec

(* A market order takes all there is on the other side before it rests:    *)
(* EffectivePrice crosses every level there can be.                        *)
THEOREM MarketOrdersSweep == EngineSpec => []MarketSweepsBook
<1>1. EInv => MarketSweepsBook
  BY DEF EInv, SweptOut, MarketSweepsBook
<1> QED BY <1>1, EngineInvariance, PTL

-----------------------------------------------------------------------------
(* The shares that side s has traded, summed up over all orders.           *)
VolumeOf(r, s) == [o \in Orders |-> IF r[o].side = s THEN r[o].filled ELSE 0]

Volume(s) == SumOver(VolumeOf(ord, s), Orders)

(* The quantities of a sequence of reports, or of fills.                   *)
QuantitiesOf(seq) == [i \in 1 .. Len(seq) |-> seq[i].quantity]

TotalOf(seq) == SumOver(QuantitiesOf(seq), 1 .. Len(seq))

(* What the running match has traded and no report tells yet.              *)
Pending == IF epc = "match" THEN ord[current].filled ELSE 0

(* The orders that carry the status REJECTED.                              *)
Rejected == {o \in Orders : ord[o].status = "REJECTED"}

(* A report, as far as the tallies need to know it.                        *)
Quantified == [order : Orders, status : Status, quantity : Nat, price : Int]

(* The reports tell what the orders have traded, except for the match that *)
(* is still running, and the counter of rejections counts rejected orders. *)
Tallied ==
    /\ reports \in Seq(Quantified)
    /\ \A o \in Orders : o > arrived => ord[o].filled = 0
    /\ \A s \in Side : Volume(s) = TotalOf(reports) + Pending
    /\ stats.rejected = Cardinality(Rejected)
    /\ "rejected" \in DOMAIN stats

(* A total of natural numbers is an integer.                               *)
LEMMA TotalType ==
    ASSUME NEW R, NEW seq \in Seq(R), \A r \in R : r.quantity \in Nat
    PROVE  TotalOf(seq) \in Int
<1> DEFINE f == QuantitiesOf(seq)
           D == 1 .. Len(seq)
<1>1. \A i \in D : f[i] \in Int
  BY DEF QuantitiesOf
<1>2. IsFiniteSet(D)
  <2>1. Len(seq) \in Nat
    OBVIOUS
  <2> QED BY <2>1, PlacesFinite
<1> HIDE DEF f, D
<1>3. SumOver(f, D) \in Int
  BY <1>1, <1>2, SumType
<1> QED BY <1>3 DEF TotalOf, f, D

(* One element more at the end of a sequence adds its quantity.            *)
LEMMA TotalAppended ==
    ASSUME NEW R, NEW seq \in Seq(R), \A r \in R : r.quantity \in Nat, NEW e \in R
    PROVE  /\ TotalOf(Append(seq, e)) = TotalOf(seq) + e.quantity
           /\ TotalOf(seq) \in Int
<1> DEFINE n == Len(seq)
           t == Append(seq, e)
           f == QuantitiesOf(t)
           g == QuantitiesOf(seq)
<1>1. /\ n \in Nat /\ Len(t) = n + 1 /\ t[n + 1] = e
      /\ \A i \in 1 .. n : t[i] = seq[i] /\ seq[i] \in R
  OBVIOUS
<1> HIDE DEF t, n
<1> DEFINE D == 1 .. n
           x == n + 1
<1>2. /\ 1 .. n + 1 = D \cup {x} /\ x \notin D /\ IsFiniteSet(D)
  <2>1. IsFiniteSet(D)
    BY <1>1, PlacesFinite
  <2> QED BY <1>1, <2>1
<1>3. /\ f[x] = e.quantity /\ e.quantity \in Int
      /\ \A i \in D : f[i] = g[i] /\ f[i] \in Int /\ g[i] \in Int
  BY <1>1, <1>2 DEF QuantitiesOf, n
<1> HIDE DEF f, g, D, x
<1>4. \A i \in D \cup {x} : f[i] \in Int
  BY <1>3
<1>5. SumOver(f, D \cup {x}) = f[x] + SumOver(f, D)
  BY <1>2, <1>4, SumAdd
<1>6. SumOver(f, D) = SumOver(g, D)
  BY <1>2, <1>3, SumSame
<1>7. SumOver(g, D) \in Int
  BY <1>2, <1>3, SumType
<1>8. SumOver(f, 1 .. n + 1) = SumOver(g, D) + e.quantity
  <2>1. SumOver(f, 1 .. n + 1) = SumOver(f, D \cup {x})
    BY <1>2, Zenon
  <2>2. SumOver(f, D \cup {x}) = SumOver(g, D) + e.quantity
    BY <1>3, <1>5, <1>6, <1>7
  <2> QED BY <2>1, <2>2
<1> QED BY <1>1, <1>7, <1>8 DEF TotalOf, f, g, t, n, D

(* An empty sequence reports nothing.                                      *)
LEMMA TotalEmpty == TotalOf(<< >>) = 0
<1>1. Len(<< >>) = 0 /\ 1 .. 0 = {}
  OBVIOUS
<1> QED BY <1>1, SumEmpty DEF TotalOf

(* The volume depends on what is filled, and on the sides of filled orders. *)
LEMMA VolumeSame ==
    ASSUME IsFiniteSet(Orders), NEW s, NEW r, NEW t,
           \A o \in Orders : /\ t[o].filled = r[o].filled
                             /\ t[o].side = r[o].side \/ r[o].filled = 0
    PROVE  SumOver(VolumeOf(t, s), Orders) = SumOver(VolumeOf(r, s), Orders)
<1>1. \A o \in Orders : VolumeOf(t, s)[o] = VolumeOf(r, s)[o]
  BY DEF VolumeOf
<1> QED BY <1>1, SumSame

(* A fill adds its quantity to the volume of both sides.                   *)
LEMMA FillVolume ==
    ASSUME IsFiniteSet(Orders), IInv, FillStep, NEW s \in Side, NEW q \in Nat, NEW m \in Orders,
           m # inc, inc \in Orders, ord[m] \in Order, ord[inc] \in Order,
           ord[m].side = Opposite(ord[inc].side),
           ord'[m] = Executed(ord[m], q), ord'[inc] = Executed(ord[inc], q),
           \A x \in Orders : x # m /\ x # inc => ord'[x] = ord[x]
    PROVE  SumOver(VolumeOf(ord', s), Orders) = SumOver(VolumeOf(ord, s), Orders) + q
<1> DEFINE f == VolumeOf(ord, s)
           g == VolumeOf(ord', s)
<1>1. /\ ord'[m].side = ord[m].side /\ ord'[m].filled = ord[m].filled + q
      /\ ord'[inc].side = ord[inc].side /\ ord'[inc].filled = ord[inc].filled + q
      /\ ord[m].filled \in Nat /\ ord[inc].filled \in Nat /\ ord[inc].side \in Side
  BY ExecutedFields DEF Order
<1>2. ord \in [Orders -> Order]
  BY DEF IInv, TypeOK
<1>3. \A x \in Orders : f[x] \in Int
  BY <1>2 DEF VolumeOf, Order
<1>4. ASSUME NEW x \in Orders, x # m, x # inc PROVE g[x] = f[x]
  BY <1>4 DEF VolumeOf
<1>5. \A x \in Orders : g[x] \in Int
  <2>1. g[m] \in Int /\ g[inc] \in Int
    BY <1>1 DEF VolumeOf
  <2> QED BY <1>3, <1>4, <2>1
<1>6. CASE ord[inc].side = s
  <2>1. g[inc] = f[inc] + q /\ g[m] = f[m]
    BY <1>1, <1>6 DEF VolumeOf, Opposite, Side
  <2>2. \A y \in Orders \ {inc} : g[y] = f[y]
    BY <1>4, <2>1
  <2> HIDE DEF f, g
  <2>3. SumOver(g, Orders) = SumOver(f, Orders) + q
    BY <1>3, <1>5, <2>1, <2>2, SumShift
  <2> QED BY <2>3 DEF f, g
<1>7. CASE ord[inc].side # s
  <2>1. g[m] = f[m] + q /\ g[inc] = f[inc]
    BY <1>1, <1>7 DEF VolumeOf, Opposite, Side
  <2>2. \A y \in Orders \ {m} : g[y] = f[y]
    BY <1>4, <2>1
  <2> HIDE DEF f, g
  <2>3. SumOver(g, Orders) = SumOver(f, Orders) + q
    BY <1>3, <1>5, <2>1, <2>2, SumShift
  <2> QED BY <2>3 DEF f, g
<1> QED BY <1>6, <1>7

-----------------------------------------------------------------------------
(* Nothing is traded, reported or rejected, and no order is marked.        *)
LEMMA TallyKept ==
    ASSUME IsFiniteSet(Orders), EInv, Tallied, UNCHANGED <<reports, stats>>,
           arrived' \in Nat, arrived' >= arrived, Pending' = Pending,
           \A o \in Orders : /\ ord'[o].filled = ord[o].filled
                             /\ ord'[o].side = ord[o].side \/ ord[o].filled = 0
                             /\ ord'[o].status = "REJECTED" <=> ord[o].status = "REJECTED"
    PROVE  Tallied'
<1>1. ASSUME NEW s \in Side PROVE Volume(s)' = Volume(s)
  BY VolumeSame DEF Volume
<1>2. Rejected' = Rejected
  BY DEF Rejected
<1>3. ASSUME NEW o \in Orders, o > arrived' PROVE ord'[o].filled = 0
  <2>1. o \in Nat /\ arrived \in Nat
    BY OrdersAssumption DEF EInv, IInv, TypeOK
  <2>2. o > arrived
    BY <1>3, <2>1
  <2> QED BY <2>2 DEF Tallied
<1>4. TotalOf(reports)' = TotalOf(reports)
  OBVIOUS
<1> QED BY <1>1, <1>2, <1>3, <1>4 DEF Tallied

(* At the start nothing is filled.                                         *)
LEMMA InitTally ==
    ASSUME IsFiniteSet(Orders), EngineInit PROVE Tallied
<1>1. /\ reports = << >> /\ epc = "wait" /\ stats = [matched |-> 0, rejected |-> 0, partial |-> 0]
      /\ \A o \in Orders : ord[o] = BlankOrder
  BY DEF EngineInit, Init
<1>2. TotalOf(reports) = 0 /\ Pending = 0
  BY <1>1, TotalEmpty DEF Pending
<1>3. ASSUME NEW s \in Side PROVE Volume(s) = 0
  <2>1. \A o \in Orders : VolumeOf(ord, s)[o] = 0
    BY <1>1 DEF VolumeOf, BlankOrder
  <2>2. SumOver(VolumeOf(ord, s), {}) = SumOver(VolumeOf(ord, s), Orders)
    BY <2>1, SumSubset
  <2> QED BY <2>2, SumEmpty DEF Volume
<1>4. Rejected = {}
  BY <1>1 DEF Rejected, BlankOrder
<1> QED BY <1>1, <1>2, <1>3, <1>4, FS_EmptySet DEF Tallied, BlankOrder

(* A turn of match: what it fills is pending.                              *)
LEMMA ContinueMatchTally ==
    ASSUME IsFiniteSet(Orders), EInv, Tallied, ContinueMatch PROVE Tallied'
<1>1. /\ epc = "match" /\ MatchStep /\ UNCHANGED <<epc, current, reports, stats>>
  BY DEF ContinueMatch, engineVars
<1>2. /\ pc # "idle" /\ arrived' = arrived /\ inc = current /\ arrived \in Nat
      /\ \A x \in Orders : ord'[x].side = ord[x].side /\ ord'[x].status = ord[x].status
  BY <1>1, MatchLeaves DEF EInv, InProcess, IInv, TypeOK
<1>3. CASE FillStep
  <2>1. PICK m \in Orders, q \in Nat :
             /\ m # inc /\ m <= arrived /\ inc \in Orders /\ inc <= arrived
             /\ ord[m] \in Order /\ ord[inc] \in Order
             /\ ord[m].side = Opposite(ord[inc].side) /\ ord[inc].side \in Side
             /\ ord'[m] = Executed(ord[m], q) /\ ord'[inc] = Executed(ord[inc], q)
             /\ \A x \in Orders : x # m /\ x # inc => ord'[x] = ord[x]
    BY <1>3, FillFacts DEF EInv
  <2>2. ASSUME NEW s \in Side PROVE Volume(s)' = Volume(s) + q
    BY <1>3, <2>1, FillVolume DEF Volume, EInv
  <2>3. Pending' = Pending + q
    BY <1>1, <1>2, <2>1, ExecutedFields DEF Pending
  <2>4. ASSUME NEW o \in Orders, o > arrived' PROVE ord'[o].filled = 0
    <3>1. o # m /\ o # inc /\ o > arrived
      BY <1>2, <2>1, <2>4, OrdersAssumption
    <3> QED BY <2>1, <3>1 DEF Tallied
  <2>5. Rejected' = Rejected
    BY <1>2 DEF Rejected
  <2>6. Pending \in Nat
    BY <1>1, <1>2, <2>1 DEF Pending, Order
  <2>7. TotalOf(reports)' = TotalOf(reports) /\ TotalOf(reports) \in Int
    <3>1. \A r \in Quantified : r.quantity \in Nat
      BY DEF Quantified
    <3>2. TotalOf(reports) \in Int
      BY <3>1, TotalType DEF Tallied
    <3> QED BY <1>1, <3>2
  <2>8. \A s \in Side : Volume(s)' = TotalOf(reports)' + Pending'
    BY <2>2, <2>3, <2>6, <2>7 DEF Tallied
  <2> QED BY <1>1, <2>4, <2>5, <2>8 DEF Tallied
<1>4. CASE LevelTop \/ LevelDry \/ LevelDone \/ MatchEnd
  <2>1. ord' = ord
    BY <1>4 DEF LevelTop, LevelDry, LevelDone, MatchEnd
  <2>2. Pending' = Pending
    BY <1>1, <2>1 DEF Pending
  <2> QED BY <1>1, <1>2, <2>1, <2>2, TallyKept
<1> QED BY <1>1, <1>3, <1>4 DEF MatchStep

(* The report of what was filled.                                          *)
LEMMA BookFillsTally ==
    ASSUME IsFiniteSet(Orders), EInv, Tallied, BookFills PROVE Tallied'
<1>1. /\ epc = "match" /\ epc' = "finalize" /\ reports' = SendFill(current)
      /\ UNCHANGED <<ord, arrived>> /\ stats'.rejected = stats.rejected
      /\ "rejected" \in DOMAIN stats'
  BY DEF BookFills, Tallied, vars
<1>2. current \in Orders /\ ord[current] \in Order
  BY <1>1 DEF EInv, InProcess, IInv, TypeOK
<1> DEFINE e == Report(current, ord[current].status, ord[current].filled, ord[current].price)
<1>3. e \in Quantified /\ e.quantity = ord[current].filled /\ ord[current].filled \in Nat
  BY <1>2 DEF Quantified, Report, Order
<1>4. \A r \in Quantified : r.quantity \in Nat
  BY DEF Quantified
<1>5. reports \in Seq(Quantified)
  BY DEF Tallied
<1> HIDE DEF e
<1>6. /\ TotalOf(Append(reports, e)) = TotalOf(reports) + e.quantity /\ TotalOf(reports) \in Int
      /\ Append(reports, e) \in Seq(Quantified)
  BY <1>3, <1>4, <1>5, TotalAppended
<1>7. reports' = IF ord[current].filled = 0 THEN reports ELSE Append(reports, e)
  BY <1>1 DEF SendFill, e
<1>8. TotalOf(reports') = TotalOf(reports) + Pending /\ reports' \in Seq(Quantified)
  BY <1>1, <1>3, <1>5, <1>6, <1>7 DEF Pending
<1>9. Pending' = 0
  BY <1>1 DEF Pending
<1>10. ASSUME NEW s \in Side PROVE Volume(s)' = Volume(s)
  BY <1>1 DEF Volume
<1>11. Rejected' = Rejected
  BY <1>1 DEF Rejected
<1>12. Pending \in Nat
  BY <1>1, <1>3 DEF Pending
<1>13. \A s \in Side : Volume(s)' = TotalOf(reports)' + Pending'
  BY <1>6, <1>8, <1>9, <1>10, <1>12 DEF Tallied
<1> QED BY <1>1, <1>8, <1>11, <1>13 DEF Tallied

(* A rejection is reported without a quantity.                             *)
LEMMA SendRejectionTally ==
    ASSUME IsFiniteSet(Orders), EInv, Tallied, SendRejection PROVE Tallied'
<1>1. /\ epc = "reject" /\ epc' = "wait"
      /\ reports' = Append(reports, Report(current, "REJECTED", 0, 0))
      /\ UNCHANGED <<ord, arrived, stats>>
  BY DEF SendRejection, vars
<1> DEFINE e == Report(current, "REJECTED", 0, 0)
<1>2. e \in Quantified /\ e.quantity = 0
  BY <1>1 DEF EInv, InProcess, Quantified, Report, Status
<1>3. \A r \in Quantified : r.quantity \in Nat
  BY DEF Quantified
<1>4. reports \in Seq(Quantified)
  BY DEF Tallied
<1> HIDE DEF e
<1>5. /\ TotalOf(Append(reports, e)) = TotalOf(reports) + e.quantity /\ TotalOf(reports) \in Int
      /\ Append(reports, e) \in Seq(Quantified)
  BY <1>2, <1>3, <1>4, TotalAppended
<1>6. TotalOf(reports') = TotalOf(reports) /\ reports' \in Seq(Quantified)
  BY <1>1, <1>2, <1>5 DEF e
<1>7. Pending' = Pending
  BY <1>1 DEF Pending
<1>8. ASSUME NEW s \in Side PROVE Volume(s)' = Volume(s)
  BY <1>1 DEF Volume
<1>9. Rejected' = Rejected
  BY <1>1 DEF Rejected
<1> QED BY <1>1, <1>6, <1>7, <1>8, <1>9 DEF Tallied

(* A rejected order is counted when it is marked.                          *)
LEMMA RejectOrderTally ==
    ASSUME IsFiniteSet(Orders), EInv, Tallied, RejectOrder PROVE Tallied'
<1>1. /\ epc = "wait" /\ epc' = "reject" /\ UNCHANGED <<arrived, reports>>
      /\ stats' = [stats EXCEPT !.rejected = @ + 1]
  BY DEF RejectOrder
<1>2. PICK o \in Orders, r \in Order :
         /\ o > arrived /\ ord[o] = BlankOrder
         /\ r.filled = 0 /\ r.side \in Side /\ r.status = "REJECTED"
         /\ ord' = [ord EXCEPT ![o] = r]
  BY RejectOrderStep
<1>3. ord'[o] = r /\ \A x \in Orders : x # o => ord'[x] = ord[x]
  BY <1>2 DEF EInv, IInv, TypeOK
<1>4. \A x \in Orders : /\ ord'[x].filled = ord[x].filled
                        /\ ord'[x].side = ord[x].side \/ ord[x].filled = 0
  BY <1>2, <1>3 DEF BlankOrder
<1>5. ASSUME NEW s \in Side PROVE Volume(s)' = Volume(s)
  BY <1>4, VolumeSame DEF Volume
<1>6. Rejected' = Rejected \cup {o} /\ o \notin Rejected /\ IsFiniteSet(Rejected)
  <2>1. IsFiniteSet(Rejected)
    BY FS_Subset DEF Rejected
  <2>2. o \notin Rejected
    BY <1>2 DEF Rejected, BlankOrder
  <2>3. Rejected' = Rejected \cup {o}
    BY <1>2, <1>3 DEF Rejected
  <2> QED BY <2>1, <2>2, <2>3
<1>7. Cardinality(Rejected') = Cardinality(Rejected) + 1
  BY <1>6, FS_AddElement
<1>8. /\ stats'.rejected = stats.rejected + 1
      /\ "rejected" \in DOMAIN stats'
  BY <1>1 DEF Tallied
<1>9. Pending' = Pending
  BY <1>1 DEF Pending
<1> QED BY <1>1, <1>4, <1>5, <1>7, <1>8, <1>9 DEF Tallied

-----------------------------------------------------------------------------
(* No step of any thread makes the tallies differ.                         *)
LEMMA NextTally ==
    ASSUME IsFiniteSet(Orders), EInv, Tallied, [EngineNext]_allVars PROVE Tallied'
<1>1. arrived \in Nat /\ ord \in [Orders -> Order]
  BY DEF EInv, IInv, TypeOK
<1>2. CASE UNCHANGED <<ord, arrived, reports, stats, epc, current>>
  <2>1. Pending' = Pending
    BY <1>2 DEF Pending
  <2> QED BY <1>1, <1>2, <2>1, TallyKept
<1>3. CASE RejectOrder
  BY <1>3, RejectOrderTally
<1>4. CASE SendRejection
  BY <1>4, SendRejectionTally
<1>5. CASE ProcessOrder
  <2>1. PICK o \in Orders, s \in Side, p \in Prices, q \in Quantities :
               o > arrived /\ ord[o] = BlankOrder /\ current' = o /\ MatchBegin(o, s, p, q)
    BY <1>5, ProcessOrderStep
  <2>2. /\ epc = "wait" /\ UNCHANGED <<reports, stats>> /\ epc' = "match"
        /\ ord' = [ord EXCEPT ![o] = NewOrder(s, p, q)] /\ arrived' = o
    BY <1>5, <2>1 DEF ProcessOrder, MatchBegin
  <2>3. ord'[o] = NewOrder(s, p, q) /\ \A x \in Orders : x # o => ord'[x] = ord[x]
    BY <1>1, <2>2
  <2>4. /\ ord'[o].filled = 0 /\ ord[o].filled = 0
        /\ ord'[o].status # "REJECTED" /\ ord[o].status # "REJECTED"
    BY <2>1, <2>3 DEF NewOrder, BlankOrder
  <2>5. Pending' = Pending
    BY <2>1, <2>2, <2>4 DEF Pending
  <2>6. arrived' \in Nat /\ arrived' >= arrived
    BY <1>1, <2>1, <2>2, OrdersAssumption
  <2> QED BY <2>2, <2>3, <2>4, <2>5, <2>6, TallyKept
<1>6. CASE ContinueMatch
  BY <1>6, ContinueMatchTally
<1>7. CASE BookFills
  BY <1>7, BookFillsTally
<1>8. CASE FinalizeOrder
  <2>1. /\ epc = "finalize" /\ epc' = "wait" /\ UNCHANGED <<arrived, reports, stats>>
    BY <1>8 DEF FinalizeOrder
  <2>2. PICK o \in Orders, st \in Status \ {"REJECTED"} :
           ord[o].status # "REJECTED" /\ ord' = [ord EXCEPT ![o].status = st]
    BY <1>8, FinalizeOrderStep
  <2>3. /\ ord'[o].status = st /\ \A x \in Orders : x # o => ord'[x] = ord[x]
        /\ \A x \in Orders : ord'[x].side = ord[x].side /\ ord'[x].filled = ord[x].filled
    BY <2>2, StatusChanged
  <2>4. Pending' = Pending
    BY <2>1 DEF Pending
  <2> QED BY <1>1, <2>1, <2>2, <2>3, <2>4, TallyKept
<1>9. CASE \E o \in Orders : CancelBetween(o)
  <2>1. PICK o \in Orders : CancelBetween(o)
    BY <1>9
  <2>2. epc = "wait" /\ UNCHANGED <<epc, current, reports, stats, arrived>>
    BY <2>1 DEF CancelBetween, engineVars, CancelOrder
  <2>3. \/ ord' = ord
        \/ ord[o].status # "REJECTED" /\ ord' = [ord EXCEPT ![o].status = "CANCELLED"]
    BY <2>1, CancelBetweenStep
  <2>4. Pending' = Pending
    BY <2>2 DEF Pending
  <2>5. CASE ord' = ord
    BY <1>1, <2>2, <2>4, <2>5, TallyKept
  <2>6. CASE ord[o].status # "REJECTED" /\ ord' = [ord EXCEPT ![o].status = "CANCELLED"]
    <3>1. /\ ord'[o].status = "CANCELLED" /\ \A x \in Orders : x # o => ord'[x] = ord[x]
          /\ \A x \in Orders : ord'[x].side = ord[x].side /\ ord'[x].filled = ord[x].filled
      BY <2>6, StatusChanged DEF Status
    <3> QED BY <1>1, <2>2, <2>4, <2>6, <3>1, TallyKept
  <2> QED BY <2>3, <2>5, <2>6
<1>10. CASE \E s \in {"BUY", "SELL"}, t \in Types, q \in Quantities :
              \E p \in (IF t = "MARKET" THEN {0} ELSE LimitPrices) : SubmitOrder(s, t, p, q)
  BY <1>2, <1>10 DEF SubmitOrder, vars
<1>11. CASE ToggleBreaker
  BY <1>2, <1>11 DEF ToggleBreaker, vars, engineVars
<1>12. CASE UNCHANGED allVars
  BY <1>2, <1>12 DEF allVars, vars, engineVars
<1> QED BY <1>3, <1>4, <1>5, <1>6, <1>7, <1>8, <1>9, <1>10, <1>11, <1>12 DEF EngineNext, WorkerStep

(* Reports, counters and trades agree after every step.                    *)
THEOREM TallyInvariance == ASSUME IsFiniteSet(Orders) PROVE EngineSpec => [](EInv /\ Tallied)
<1>1. EngineInit => EInv /\ Tallied
  BY EngineInitInv, InitTally
<1>2. EInv /\ Tallied /\ [EngineNext]_allVars => (EInv /\ Tallied)'
  BY EngineNextInv, NextTally
<1> QED BY <1>1, <1>2, PTL DEF EngineSpec

(* The volume of a side, as the property sums it.                          *)
FilledTable(s, g) ==
    g = [t \in SUBSET {o \in Orders : ord[o].side = s} |->
            IF t = {} THEN 0 ELSE ord[Pick(t)].filled + g[t \ {Pick(t)}]]

(* FilledOn sums over the orders of the side, Volume over all.             *)
LEMMA FilledIsVolume ==
    ASSUME IsFiniteSet(Orders), TypeOK, NEW s PROVE FilledOn(s) = Volume(s)
<1> DEFINE S == {o \in Orders : ord[o].side = s}
           f == VolumeOf(ord, s)
<1>1. \A t \in SUBSET S : t # {} => f[Pick(t)] = ord[Pick(t)].filled
  <2> SUFFICES ASSUME NEW t \in SUBSET S, t # {} PROVE Pick(t) \in S
    BY DEF VolumeOf
  <2> QED BY PickProperties
<1>2. IsFiniteSet(S) /\ S \subseteq Orders
  BY FS_Subset
<1>3. \A o \in Orders : f[o] \in Int /\ (o \notin S => f[o] = 0)
  BY DEF VolumeOf, TypeOK, Order
<1> HIDE DEF f
<1>4. \A g : FilledTable(s, g) <=> IsSumTable(f, S, g)
  <2>1. ASSUME NEW g
        PROVE  [t \in SUBSET S |-> IF t = {} THEN 0 ELSE ord[Pick(t)].filled + g[t \ {Pick(t)}]]
               = [t \in SUBSET S |-> IF t = {} THEN 0 ELSE f[Pick(t)] + g[t \ {Pick(t)}]]
    BY <1>1
  <2> QED BY <2>1 DEF FilledTable, IsSumTable
<1>5. \E g : FilledTable(s, g)
  BY <1>2, <1>4, TableExists
<1>6. \E g : FilledTable(s, g) /\ FilledOn(s) = g[S]
  BY <1>5 DEF FilledOn, MapThenSumSet, MapThenFoldSet, FilledTable, Pick
<1>7. FilledOn(s) = SumOver(f, S)
  BY <1>2, <1>4, <1>6, SumIsTable
<1>8. SumOver(f, S) = SumOver(f, Orders)
  BY <1>2, <1>3, SumSubset
<1> QED BY <1>7, <1>8 DEF Volume, f

(* What FoldLeft adds up is the total.                                     *)
LEMMA FoldIsTotal ==
    ASSUME NEW seq \in Seq(Quantified)
    PROVE  FoldLeft(LAMBDA v, r : v + r.quantity, 0, seq) = TotalOf(seq)
<1> DEFINE n == Len(seq)
           f == QuantitiesOf(seq)
           Table(h) == h = [s \in SUBSET DOMAIN seq |->
                               IF s = {} THEN 0 ELSE h[s \ {Max(s)}] + seq[Max(s)].quantity]
<1>1. n \in Nat /\ DOMAIN seq = 1 .. n /\ \A i \in 1 .. n : seq[i] \in Quantified
  OBVIOUS
<1>2. \A i \in 1 .. n : f[i] = seq[i].quantity /\ f[i] \in Int
  BY <1>1 DEF QuantitiesOf, Quantified
<1> HIDE DEF n, f
<1>3. \A h : Table(h) <=> IsFoldedSum(f, n, h)
  <2>1. ASSUME NEW t \in SUBSET (1 .. n), t # {}
        PROVE  seq[Max(t)].quantity = f[Max(t)]
    <3>1. Max(t) \in 1 .. n
      BY <1>1, <2>1, MaxProperties
    <3> QED BY <1>2, <3>1
  <2>2. ASSUME NEW h
        PROVE  [s \in SUBSET (1 .. n) |-> IF s = {} THEN 0 ELSE h[s \ {Max(s)}] + seq[Max(s)].quantity]
               = [s \in SUBSET (1 .. n) |-> IF s = {} THEN 0 ELSE h[s \ {Max(s)}] + f[Max(s)]]
    BY <2>1
  <2> QED BY <1>1, <2>2 DEF IsFoldedSum
<1>4. \E h : Table(h)
  BY <1>1, <1>2, <1>3, FoldedSumExists
<1>5. \E h : Table(h) /\ FoldLeft(LAMBDA v, r : v + r.quantity, 0, seq) = h[DOMAIN seq]
  BY <1>4 DEF FoldLeft, MapThenFoldSet
<1> HIDE DEF Table
<1>6. PICK h : Table(h) /\ FoldLeft(LAMBDA v, r : v + r.quantity, 0, seq) = h[1 .. n]
  BY <1>1, <1>5
<1>7. h[1 .. n] = SumOver(f, 1 .. n)
  <2>1. IsFoldedSum(f, n, h) /\ 1 .. n \in SUBSET (1 .. n) /\ n \in Nat
    BY <1>1, <1>3, <1>6
  <2>2. \A i \in 1 .. n : f[i] \in Int
    BY <1>2
  <2> QED BY <2>1, <2>2, FoldedSum
<1> QED BY <1>6, <1>7 DEF TotalOf, f, n

(* Between orders, the quantities reported to the gateway add up to the    *)
(* volume traded, and the rejections counted are the orders rejected.      *)
THEOREM TradesAreReported ==
    ASSUME IsFiniteSet(Orders) PROVE EngineSpec => []ReportsCoverTrades
<1>1. EInv /\ Tallied => ReportsCoverTrades
  <2> SUFFICES ASSUME EInv, Tallied, epc = "wait"
               PROVE  /\ FoldLeft(LAMBDA v, r : v + r.quantity, 0, reports) = FilledOn("BUY")
                      /\ stats.rejected = Cardinality({o \in Orders : ord[o].status = "REJECTED"})
    BY DEF ReportsCoverTrades
  <2>1. reports \in Seq(Quantified) /\ Volume("BUY") = TotalOf(reports) + 0
    BY DEF Tallied, Pending, Side
  <2>2. FoldLeft(LAMBDA v, r : v + r.quantity, 0, reports) = TotalOf(reports)
    BY <2>1, FoldIsTotal
  <2>3. FilledOn("BUY") = Volume("BUY")
    BY FilledIsVolume DEF EInv, IInv
  <2>4. TotalOf(reports) \in Int
    <3>1. \A r \in Quantified : r.quantity \in Nat
      BY DEF Quantified
    <3> QED BY <2>1, <3>1, TotalType
  <2>5. Volume("BUY") = TotalOf(reports)
    BY <2>1, <2>4
  <2>6. stats.rejected = Cardinality({o \in Orders : ord[o].status = "REJECTED"})
    BY DEF Tallied, Rejected
  <2> QED BY <2>2, <2>3, <2>5, <2>6
<1> QED BY <1>1, TallyInvariance, PTL

-----------------------------------------------------------------------------
(* Remainders: what is taken modulo n first is as good.                    *)
LEMMA Quotient ==
    ASSUME NEW a \in Int, NEW n \in Nat \ {0}
    PROVE  (a \div n) \in Int /\ a = (a \div n) * n + (a % n) /\ (a % n) \in 0 .. n - 1
OBVIOUS

(* ... and it is determined by the equation.                               *)
LEMMA RemainderIs ==
    ASSUME NEW a \in Int, NEW k \in Int, NEW n \in Nat \ {0}, NEW r \in 0 .. n - 1, a = k * n + r
    PROVE  (a % n) = r
OBVIOUS

(* A sum may be taken modulo n before the next number is added.            *)
LEMMA RemainderOfSum ==
    ASSUME NEW a \in Int, NEW q \in Int, NEW n \in Nat \ {0}
    PROVE  (((a % n) + q) % n) = ((a + q) % n)
<1> DEFINE r == a % n
           k == a \div n
           b == r + q
           u == b % n
           j == b \div n
           c == a + q
           i == k + j
<1>1. k \in Int /\ a = k * n + r /\ r \in 0 .. n - 1
  BY Quotient
<1>2. b \in Int
  BY <1>1
<1>3. j \in Int /\ b = j * n + u /\ u \in 0 .. n - 1
  <2> HIDE DEF b
  <2> QED BY <1>2, Quotient
<1> HIDE DEF r, k, u, j
<1>4. c = i * n + u /\ c \in Int /\ i \in Int
  BY <1>1, <1>3
<1> HIDE DEF c, i
<1>5. (c % n) = u
  BY <1>3, <1>4, RemainderIs
<1> QED BY <1>5 DEF c, u, r

(* The record of a symbol's position.                                      *)
Positions == [net : Int, pnl : Int, avg : Int, bought : 0 .. WORD - 1, sold : 0 .. WORD - 1]

(* Bought and sold, seen from side t.                                      *)
Own(p, t)    == IF t = "BUY" THEN p.bought ELSE p.sold
Other(p, t)  == IF t = "BUY" THEN p.sold ELSE p.bought
Signed(t, q) == IF t = "BUY" THEN q ELSE 0 - q

(* The arithmetic of 64 bit words yields integers.                         *)
LEMMA WordArithmetic ==
    ASSUME NEW x \in Int PROVE Pos!Int64(x) \in Int /\ Pos!UInt64(x) \in Int
<1> DEFINE n == 2 * (INT64_MAX + 1)
           y == x + INT64_MAX + 1
<1>1. n \in Nat \ {0} /\ y \in Int /\ INT64_MAX \in Int
  BY PricesAssumption
<1> HIDE DEF n, y
<1>2. (x % n) \in Int /\ (y % n) \in Int
  BY <1>1
<1> QED BY <1>1, <1>2 DEF Pos!Int64, Pos!UInt64, Pos!TwoTo64, n, y

(* The average entry price is a number.                                    *)
LEMMA AverageType ==
    ASSUME NEW p \in Positions, NEW q \in Nat \ {0}, NEW price \in Int
    PROVE  Pos!AverageEntry(p, q, price) \in Int
<1> DEFINE a == p.avg * p.bought
           b == price * q
           c == Pos!UInt64(a) + Pos!UInt64(b)
           d == p.bought + q
           e == Pos!UInt64(c)
<1>1. p.avg \in Int /\ p.bought \in Nat
  BY EngineAssumption DEF Positions
<1>2. a \in Int /\ b \in Int /\ d \in Nat \ {0}
  BY <1>1
<1> HIDE DEF a, b
<1>3. c \in Int
  BY <1>2, WordArithmetic
<1> HIDE DEF c
<1>4. e \in Int
  BY <1>3, WordArithmetic
<1> HIDE DEF d, e
<1>5. (e \div d) \in Int
  BY <1>2, <1>4, Quotient
<1>6. Pos!Int64(e \div d) \in Int
  BY <1>5, WordArithmetic
<1> QED BY <1>6 DEF Pos!AverageEntry, a, b, c, d, e

(* update_position moves the net position and the total of one side.       *)
LEMMA UpdateEffect ==
    ASSUME NEW p \in Positions, NEW t \in Side, NEW q \in Nat, NEW price \in Int
    PROVE  LET u == Pos!UpdatePosition(p, t, q, price)
           IN  /\ u \in Positions
               /\ u.net = p.net + Signed(t, q)
               /\ Own(u, t) = ((Own(p, t) + q) % WORD)
               /\ Other(u, t) = Other(p, t)
<1> DEFINE u == Pos!UpdatePosition(p, t, q, price)
           W == WORD
<1>1. /\ W \in Nat \ {0} /\ p.net \in Int /\ p.pnl \in Int /\ p.avg \in Int
      /\ p.bought \in 0 .. W - 1 /\ p.sold \in 0 .. W - 1
  BY EngineAssumption DEF Positions
<1>2. CASE q = 0
  <2>1. u = p
    BY <1>2 DEF Pos!UpdatePosition
  <2>2. Own(p, t) \in 0 .. W - 1 /\ Own(p, t) = 0 * W + Own(p, t) /\ Own(p, t) \in Int
    BY <1>1 DEF Own
  <2>3. (Own(p, t) % W) = Own(p, t)
    BY <1>1, <2>2, RemainderIs
  <2> QED BY <1>1, <1>2, <2>1, <2>2, <2>3 DEF Signed
<1>3. CASE q # 0 /\ t = "BUY"
  <2> DEFINE avg == Pos!AverageEntry(p, q, price)
             b == p.bought + q
             c == b % W
  <2>1. avg \in Int /\ b \in Int
    BY <1>1, <1>3, AverageType
  <2>2. c \in 0 .. W - 1
    <3> HIDE DEF b
    <3> QED BY <1>1, <2>1, Quotient
  <2>3. u = [p EXCEPT !.net = @ + q, !.avg = avg, !.bought = c]
    BY <1>3 DEF Pos!UpdatePosition
  <2> HIDE DEF avg, c, u
  <2>4. u = [net |-> p.net + q, pnl |-> p.pnl, avg |-> avg, bought |-> c, sold |-> p.sold]
    BY <2>3 DEF Positions
  <2>5. u \in Positions
    BY <1>1, <2>1, <2>2, <2>4 DEF Positions
  <2>6. u.net = p.net + q /\ u.bought = c /\ u.sold = p.sold
    BY <2>4
  <2> QED BY <1>3, <2>5, <2>6 DEF Own, Other, Signed, c, u
<1>4. CASE q # 0 /\ t = "SELL"
  <2> DEFINE x == p.pnl + (price - p.avg) * q
             pnl == Pos!Int64(x)
             b == p.sold + q
             c == b % W
  <2>1. x \in Int /\ b \in Int
    BY <1>1
  <2>2. c \in 0 .. W - 1
    <3> HIDE DEF b
    <3> QED BY <1>1, <2>1, Quotient
  <2>3. u = [p EXCEPT !.net = @ - q, !.pnl = pnl, !.sold = c]
    BY <1>4 DEF Pos!UpdatePosition
  <2> HIDE DEF x
  <2>4. pnl \in Int
    BY <2>1, WordArithmetic
  <2> HIDE DEF pnl, c, u
  <2>5. u = [net |-> p.net - q, pnl |-> pnl, avg |-> p.avg, bought |-> p.bought, sold |-> c]
    BY <2>3 DEF Positions
  <2>6. u \in Positions
    BY <1>1, <2>2, <2>4, <2>5 DEF Positions
  <2>7. u.net = p.net - q /\ u.sold = c /\ u.bought = p.bought
    BY <2>5
  <2>8. p.net - q = p.net + (0 - q)
    BY <1>1
  <2> QED BY <1>4, <2>6, <2>7, <2>8 DEF Own, Other, Signed, c, u
<1> QED BY <1>2, <1>3, <1>4 DEF Side

-----------------------------------------------------------------------------
(* A fill against a maker.                                                 *)
MakerFill == [order : Orders, quantity : Nat, price : Int]

(* The house is flat, and the fills of a running match are against the     *)
(* other side and add up to what its order has traded.                     *)
Flat ==
    /\ pos \in Positions /\ pos.net = 0 /\ pos.bought = pos.sold
    /\ fills \in Seq(MakerFill)
    /\ epc = "match" =>
          /\ \A i \in 1 .. Len(fills) : ord[fills[i].order].side = Opposite(ord[current].side)
          /\ TotalOf(fills) = ord[current].filled

(* The table of MakerPositions: the position after each set of fills.      *)
IsPositionTable(h) ==
    h = [s \in SUBSET (DOMAIN fills) |->
            IF s = {} THEN pos
            ELSE Pos!UpdatePosition(h[s \ {Max(s)}], ord[fills[Max(s)].order].side,
                                    fills[Max(s)].quantity, ord[fills[Max(s)].order].price)]

(* What the fill at place i says of its maker.                             *)
LEMMA FillAt ==
    ASSUME EInv, Flat, NEW i \in 1 .. Len(fills)
    PROVE  /\ ord[fills[i].order].side \in Side /\ fills[i].quantity \in Nat
           /\ ord[fills[i].order].price \in Int
<1>1. fills[i] \in MakerFill
  BY DEF Flat
<1>2. fills[i].order \in Orders /\ fills[i].quantity \in Nat
  BY <1>1 DEF MakerFill
<1>3. ord[fills[i].order] \in Order
  BY <1>2 DEF EInv, IInv, TypeOK
<1> QED BY <1>2, <1>3 DEF Order

(* MakerPositions is the entry of such a table for all fills.              *)
LEMMA PositionTable ==
    ASSUME EInv, Flat
    PROVE  \E h : /\ IsPositionTable(h) /\ MakerPositions = h[1 .. Len(fills)]
                  /\ DOMAIN fills = 1 .. Len(fills) /\ Len(fills) \in Nat
<1> DEFINE n == Len(fills)
           Upd(p, i) == Pos!UpdatePosition(p, ord[fills[i].order].side, fills[i].quantity,
                                           ord[fills[i].order].price)
           F == [z \in Positions \X (1 .. n) |-> Upd(z[1], z[2])]
<1>1. n \in Nat /\ DOMAIN fills = 1 .. n /\ pos \in Positions
  BY DEF Flat
<1>2. ASSUME NEW p \in Positions, NEW i \in 1 .. n PROVE Upd(p, i) \in Positions
  BY FillAt, UpdateEffect
<1> HIDE DEF Upd, n
<1>3. F \in [Positions \X (1 .. n) -> Positions]
  BY <1>2
<1>4. \A p \in Positions, i \in 1 .. n : F[<<p, i>>] = Upd(p, i)
  OBVIOUS
<1> HIDE DEF F
<1>5. PICK g : IsFoldTable(F, pos, 1 .. n, g)
  BY <1>1, FoldTableExists
<1>6. ASSUME NEW t \in SUBSET (1 .. n) PROVE g[t] \in Positions
  BY <1>1, <1>3, <1>5, FoldTableTyped
<1>7. ASSUME NEW s \in SUBSET (1 .. n), s # {}
      PROVE  F[<<g[s \ {Max(s)}], Max(s)>>] = Upd(g[s \ {Max(s)}], Max(s))
  <2>1. Max(s) \in 1 .. n /\ s \ {Max(s)} \in SUBSET (1 .. n)
    BY <1>1, <1>7, MaxProperties
  <2> QED BY <1>4, <1>6, <2>1
<1>8. g = [s \in SUBSET (1 .. n) |-> IF s = {} THEN pos ELSE Upd(g[s \ {Max(s)}], Max(s))]
  BY <1>5, <1>7 DEF IsFoldTable
<1>9. IsPositionTable(g)
  BY <1>1, <1>8 DEF IsPositionTable, Upd
<1>10. \E h : IsPositionTable(h) /\ MakerPositions = h[DOMAIN fills]
  BY <1>9 DEF MakerPositions, FoldLeft, MapThenFoldSet, IsPositionTable
<1> QED BY <1>1, <1>10 DEF n

(* The position after the first k fills against makers of side t.          *)
LEMMA AfterFills ==
    ASSUME EInv, Flat, NEW t \in Side,
           \A i \in 1 .. Len(fills) : ord[fills[i].order].side = t,
           NEW h, IsPositionTable(h), NEW k \in 0 .. Len(fills)
    PROVE  /\ h[1 .. k] \in Positions
           /\ SumOver(QuantitiesOf(fills), 1 .. k) \in Nat
           /\ h[1 .. k].net = Signed(t, SumOver(QuantitiesOf(fills), 1 .. k))
           /\ Own(h[1 .. k], t) = ((pos.bought + SumOver(QuantitiesOf(fills), 1 .. k)) % WORD)
           /\ Other(h[1 .. k], t) = pos.bought
<1> DEFINE n == Len(fills)
           f == QuantitiesOf(fills)
           S(j) == SumOver(f, 1 .. j)
           P(j) == /\ h[1 .. j] \in Positions /\ S(j) \in Nat
                   /\ h[1 .. j].net = Signed(t, S(j))
                   /\ Own(h[1 .. j], t) = ((pos.bought + S(j)) % WORD)
                   /\ Other(h[1 .. j], t) = pos.bought
           C == {j \in 0 .. n : ~P(j)}
<1>1. /\ n \in Nat /\ DOMAIN fills = 1 .. n /\ pos \in Positions /\ pos.net = 0
      /\ pos.bought = pos.sold /\ pos.bought \in 0 .. WORD - 1 /\ WORD \in Nat \ {0}
  BY EngineAssumption DEF Flat, Positions
<1>2. \A i \in 1 .. n : f[i] = fills[i].quantity /\ f[i] \in Nat
  BY FillAt DEF QuantitiesOf
<1> HIDE DEF f, n
<1>3. P(0)
  <2>1. 1 .. 0 = {}
    OBVIOUS
  <2>2. S(0) = 0
    BY <2>1, SumEmpty
  <2>3. h[1 .. 0] = pos
    BY <2>1 DEF IsPositionTable
  <2>4. ((pos.bought + 0) % WORD) = pos.bought
    <3> DEFINE b == pos.bought
    <3>1. b = 0 * WORD + b /\ b \in Int /\ b + 0 = b /\ b \in 0 .. WORD - 1
      BY <1>1
    <3> HIDE DEF b
    <3>2. (b % WORD) = b
      BY <1>1, <3>1, RemainderIs
    <3> QED BY <3>1, <3>2 DEF b
  <2> HIDE DEF S
  <2> QED BY <1>1, <2>2, <2>3, <2>4 DEF Signed, Own, Other
<1>4. ASSUME NEW j \in 1 .. n, P(j - 1) PROVE P(j)
  <2> DEFINE p == h[1 .. j - 1]
             q == fills[j].quantity
             price == ord[fills[j].order].price
             a == S(j - 1)
  <2>1. j \in Nat \ {0} /\ 1 .. j \in SUBSET (1 .. n) /\ 1 .. j # {} /\ j \in 1 .. j
    <3>1. j \in Nat /\ 1 <= j /\ j <= n
      BY <1>1
    <3>2. \A i \in 1 .. j : i \in 1 .. n
      BY <1>1, <3>1
    <3>3. j \in 1 .. j
      BY <3>1
    <3> QED BY <3>1, <3>2, <3>3
  <2>2. Max(1 .. j) = j /\ (1 .. j) \ {j} = 1 .. j - 1
    BY <2>1, MaxOfPlaces
  <2>3. h[1 .. j] = Pos!UpdatePosition(p, t, q, price)
    <3>1. h[1 .. j] = Pos!UpdatePosition(h[(1 .. j) \ {Max(1 .. j)}], ord[fills[Max(1 .. j)].order].side,
                         fills[Max(1 .. j)].quantity, ord[fills[Max(1 .. j)].order].price)
      BY <1>1, <2>1 DEF IsPositionTable
    <3>2. ord[fills[j].order].side = t
      BY DEF n
    <3> QED BY <2>2, <3>1, <3>2
  <2>4. p \in Positions /\ q \in Nat /\ price \in Int /\ a \in Nat
    BY <1>4, FillAt DEF n
  <2>5. S(j) = q + a
    <3>1. IsFiniteSet(1 .. j) /\ j \in 1 .. j
      BY <1>1, <2>1, PlacesFinite
    <3>2. \A i \in 1 .. j : f[i] \in Int
      BY <1>2, <2>1
    <3>3. SumOver(f, 1 .. j) = f[j] + SumOver(f, (1 .. j) \ {j})
      BY <3>1, <3>2, SumTakeOut
    <3> QED BY <1>2, <2>2, <3>3
  <2>6. /\ h[1 .. j] \in Positions
        /\ h[1 .. j].net = p.net + Signed(t, q)
        /\ Own(h[1 .. j], t) = ((Own(p, t) + q) % WORD)
        /\ Other(h[1 .. j], t) = Other(p, t)
    <3> DEFINE u == Pos!UpdatePosition(p, t, q, price)
    <3>1. h[1 .. j] = u
      BY <2>3
    <3> HIDE DEF p, q, price
    <3>2. /\ u \in Positions /\ u.net = p.net + Signed(t, q)
          /\ Own(u, t) = ((Own(p, t) + q) % WORD) /\ Other(u, t) = Other(p, t)
      BY <2>4, UpdateEffect
    <3> HIDE DEF u
    <3> QED BY <3>1, <3>2
  <2>7. /\ p.net = Signed(t, a) /\ Own(p, t) = ((pos.bought + a) % WORD)
        /\ Other(p, t) = pos.bought
    BY <1>4
  <2> HIDE DEF p, q, price, a, S
  <2>8. S(j) \in Nat /\ h[1 .. j].net = Signed(t, S(j))
    BY <2>4, <2>5, <2>6, <2>7 DEF Signed
  <2>9. Own(h[1 .. j], t) = ((pos.bought + S(j)) % WORD)
    <3> DEFINE b == pos.bought + a
    <3>1. b \in Int /\ q \in Int
      BY <1>1, <2>4
    <3> HIDE DEF b
    <3>2. (((b % WORD) + q) % WORD) = ((b + q) % WORD)
      BY <1>1, <3>1, RemainderOfSum
    <3>3. b + q = pos.bought + S(j)
      BY <1>1, <2>4, <2>5 DEF b
    <3> QED BY <2>6, <2>7, <3>2, <3>3 DEF b
  <2> QED BY <2>6, <2>7, <2>8, <2>9
<1> HIDE DEF P
<1>5. C = {}
  <2> SUFFICES ASSUME C # {} PROVE FALSE
    OBVIOUS
  <2>1. C \subseteq Nat
    BY <1>1
  <2>2. PICK j \in C : \A i \in C : j <= i
    BY <2>1, LeastNatural
  <2>3. j \in 0 .. n /\ ~P(j)
    BY <2>2
  <2>4. j # 0
    BY <1>3, <2>3
  <2>5. j - 1 \in 0 .. n /\ j \in 1 .. n /\ ~(j <= j - 1)
    BY <1>1, <2>3, <2>4
  <2>6. P(j - 1)
    BY <2>2, <2>5
  <2> QED BY <1>4, <2>3, <2>5, <2>6
<1>6. P(k)
  BY <1>5 DEF n
<1> QED BY <1>6 DEF P, f

(* What the order itself is booked with undoes what its makers were.       *)
LEMMA BookFillsFlat ==
    ASSUME EInv, Flat, BookFills PROVE Flat'
<1> DEFINE u == ord[current].side
           t == Opposite(u)
           n == Len(fills)
           S == SumOver(QuantitiesOf(fills), 1 .. n)
           x == MakerPositions
           price == ord[current].price
<1>1. /\ epc = "match" /\ epc' = "finalize" /\ fills' = fills
      /\ pos' = Pos!UpdatePosition(x, u, ord[current].filled, price)
  BY DEF BookFills, vars, callVars
<1>2. ord[current] \in Order
  BY <1>1 DEF EInv, InProcess, IInv, TypeOK
<1>3. u \in Side /\ t \in Side /\ price \in Int
  BY <1>2 DEF Order, Opposite, Side
<1>4. /\ \A i \in 1 .. n : ord[fills[i].order].side = t
      /\ S = ord[current].filled
  BY <1>1 DEF Flat, TotalOf
<1>5. PICK h : IsPositionTable(h) /\ x = h[1 .. n] /\ n \in Nat
  BY PositionTable
<1> HIDE DEF x
<1>6. n \in 0 .. Len(fills)
  BY <1>5
<1> HIDE DEF t
<1>7. /\ x \in Positions /\ S \in Nat /\ x.net = Signed(t, S)
      /\ Own(x, t) = ((pos.bought + S) % WORD)
      /\ Other(x, t) = pos.bought
  BY <1>3, <1>4, <1>5, <1>6, AfterFills
<1> HIDE DEF S
<1>8. pos' = Pos!UpdatePosition(x, u, S, price)
  BY <1>1, <1>4
<1> HIDE DEF u, price
<1>9. /\ pos' \in Positions /\ pos'.net = x.net + Signed(u, S)
      /\ Own(pos', u) = ((Own(x, u) + S) % WORD)
      /\ Other(pos', u) = Other(x, u)
  <2> DEFINE y == Pos!UpdatePosition(x, u, S, price)
  <2>1. /\ y \in Positions /\ y.net = x.net + Signed(u, S)
        /\ Own(y, u) = ((Own(x, u) + S) % WORD)
        /\ Other(y, u) = Other(x, u)
    BY <1>3, <1>7, UpdateEffect
  <2>2. pos' = y
    BY <1>8
  <2> HIDE DEF y
  <2> QED BY <2>1, <2>2
<1>10. Own(x, u) = Other(x, t) /\ Other(x, u) = Own(x, t)
  BY <1>3 DEF t, Opposite, Side, Own, Other
<1>11. Signed(t, S) + Signed(u, S) = 0
  BY <1>3, <1>7 DEF t, Opposite, Side, Signed
<1>12. pos'.net = 0
  BY <1>7, <1>9, <1>11
<1>13. Own(pos', u) = Other(pos', u)
  BY <1>7, <1>9, <1>10
<1>14. pos'.bought = pos'.sold
  BY <1>3, <1>13 DEF Own, Other, Side
<1> QED BY <1>1, <1>9, <1>12, <1>14 DEF Flat

(* A fill of match is one more against the other side.                     *)
LEMMA FillStepFlat ==
    ASSUME EInv, Flat, ContinueMatch, FillStep PROVE Flat'
<1>1. /\ epc = "match" /\ UNCHANGED <<epc, current, pos>>
  BY DEF ContinueMatch, engineVars
<1>2. PICK m \in Orders, q \in Nat :
         /\ m # inc /\ inc \in Orders
         /\ ord[m] \in Order /\ ord[inc] \in Order
         /\ ord[m].side = Opposite(ord[inc].side)
         /\ fills' = Append(fills, [order |-> m, quantity |-> q, price |-> ord[inc].price])
         /\ ord'[m] = Executed(ord[m], q) /\ ord'[inc] = Executed(ord[inc], q)
         /\ \A x \in Orders : x # m /\ x # inc => ord'[x] = ord[x]
  BY FillFacts DEF EInv
<1>3. inc = current
  BY DEF FillStep, EInv, InProcess
<1> DEFINE e == [order |-> m, quantity |-> q, price |-> ord[inc].price]
<1>4. e \in MakerFill /\ e.quantity = q /\ e.order = m
  BY <1>2 DEF MakerFill, Order
<1>5. \A r \in MakerFill : r.quantity \in Nat
  BY DEF MakerFill
<1>6. fills \in Seq(MakerFill)
  BY DEF Flat
<1>7. fills' = Append(fills, e)
  BY <1>2
<1> HIDE DEF e
<1>8. /\ TotalOf(fills') = TotalOf(fills) + q
      /\ fills' \in Seq(MakerFill) /\ Len(fills') = Len(fills) + 1 /\ Len(fills) \in Nat
      /\ fills'[Len(fills) + 1] = e
      /\ \A i \in 1 .. Len(fills) : fills'[i] = fills[i] /\ fills[i] \in MakerFill
  <2>1. TotalOf(Append(fills, e)) = TotalOf(fills) + e.quantity
    BY <1>4, <1>5, <1>6, TotalAppended
  <2>2. /\ Append(fills, e) \in Seq(MakerFill) /\ Len(Append(fills, e)) = Len(fills) + 1
        /\ Len(fills) \in Nat /\ Append(fills, e)[Len(fills) + 1] = e
        /\ \A i \in 1 .. Len(fills) : Append(fills, e)[i] = fills[i] /\ fills[i] \in MakerFill
    BY <1>4, <1>6
  <2> QED BY <1>4, <1>7, <2>1, <2>2
<1>9. \A x \in Orders : ord'[x].side = ord[x].side
  BY <1>2, ExecutedFields
<1>10. ASSUME NEW i \in 1 .. Len(fills')
       PROVE  ord'[fills'[i].order].side = Opposite(ord'[current].side)
  <2>1. CASE i \in 1 .. Len(fills)
    <3>1. fills'[i] = fills[i] /\ fills[i].order \in Orders
      BY <1>8, <2>1 DEF MakerFill
    <3>2. ord[fills[i].order].side = Opposite(ord[current].side)
      BY <1>1, <2>1 DEF Flat
    <3> QED BY <1>2, <1>3, <1>9, <3>1, <3>2
  <2>2. CASE i = Len(fills) + 1
    BY <1>2, <1>3, <1>4, <1>8, <1>9, <2>2
  <2> QED BY <1>8, <2>1, <2>2
<1>11. TotalOf(fills') = ord'[current].filled
  BY <1>1, <1>2, <1>3, <1>8, ExecutedFields DEF Flat
<1> QED BY <1>1, <1>8, <1>10, <1>11 DEF Flat

(* All other steps leave the position and the fills of a running match.    *)
LEMMA FlatKept ==
    ASSUME EInv, Flat, UNCHANGED <<pos, fills>>,
           epc' = "match" => /\ epc = "match" /\ current' = current
                             /\ ord'[current].filled = ord[current].filled
                             /\ \A x \in Orders : ord'[x].side = ord[x].side
    PROVE  Flat'
<1>1. TotalOf(fills)' = TotalOf(fills)
  OBVIOUS
<1>2. \A i \in 1 .. Len(fills) : fills[i].order \in Orders
  <2>1. \A i \in 1 .. Len(fills) : fills[i] \in MakerFill
    BY DEF Flat
  <2> QED BY <2>1 DEF MakerFill
<1>3. epc = "match" => current \in Orders
  BY DEF EInv, InProcess
<1> QED BY <1>1, <1>2, <1>3 DEF Flat

(* The house starts flat.                                                  *)
LEMMA InitFlat == EngineInit => Flat
<1> SUFFICES ASSUME EngineInit PROVE Flat
  OBVIOUS
<1>1. /\ pos = [net |-> 0, pnl |-> 0, avg |-> 0, bought |-> 0, sold |-> 0]
      /\ fills = << >> /\ epc = "wait"
  BY DEF EngineInit, Init, Pos!NewPosition
<1>2. 0 \in 0 .. WORD - 1
  BY EngineAssumption
<1>3. pos \in Positions /\ pos.net = 0 /\ pos.bought = pos.sold
  BY <1>1, <1>2 DEF Positions
<1> QED BY <1>1, <1>3 DEF Flat

-----------------------------------------------------------------------------
(* No step of any thread leaves the house with a position.                 *)
LEMMA NextFlat == EInv /\ Flat /\ [EngineNext]_allVars => Flat'
<1> SUFFICES ASSUME EInv, Flat, [EngineNext]_allVars PROVE Flat'
  OBVIOUS
<1>1. CASE UNCHANGED <<ord, fills, pos, epc, current>>
  BY <1>1, FlatKept
<1>2. CASE RejectOrder \/ SendRejection \/ FinalizeOrder
  <2>1. UNCHANGED <<pos, fills>> /\ epc' # "match"
    BY <1>2 DEF RejectOrder, SendRejection, FinalizeOrder, vars, callVars
  <2> QED BY <2>1, FlatKept
<1>3. CASE ProcessOrder
  <2>1. PICK o \in Orders, s \in Side, p \in Prices, q \in Quantities :
               current' = o /\ MatchBegin(o, s, p, q)
    BY <1>3, ProcessOrderStep
  <2>2. pos' = pos /\ fills' = << >> /\ ord' = [ord EXCEPT ![o] = NewOrder(s, p, q)]
    BY <1>3, <2>1 DEF ProcessOrder, MatchBegin
  <2>3. ord'[o].filled = 0
    BY <2>2 DEF EInv, IInv, TypeOK, NewOrder
  <2>4. TotalOf(fills') = 0
    BY <2>2, TotalEmpty
  <2>5. Len(fills') = 0 /\ fills' \in Seq(MakerFill)
    BY <2>2
  <2> QED BY <2>1, <2>2, <2>3, <2>4, <2>5 DEF Flat
<1>4. CASE ContinueMatch
  <2>1. CASE FillStep
    BY <1>4, <2>1, FillStepFlat
  <2>2. CASE LevelTop \/ LevelDry \/ LevelDone \/ MatchEnd
    <3>1. UNCHANGED <<ord, fills>>
      BY <2>2 DEF LevelTop, LevelDry, LevelDone, MatchEnd
    <3>2. UNCHANGED <<pos, epc, current>>
      BY <1>4 DEF ContinueMatch, engineVars
    <3> QED BY <3>1, <3>2, FlatKept
  <2> QED BY <1>4, <2>1, <2>2 DEF ContinueMatch, MatchStep
<1>5. CASE BookFills
  BY <1>5, BookFillsFlat
<1>6. CASE \E o \in Orders : CancelBetween(o)
  <2>1. epc = "wait" /\ UNCHANGED <<epc, pos, fills>>
    BY <1>6 DEF CancelBetween, CancelOrder, engineVars, callVars
  <2> QED BY <2>1, FlatKept
<1>7. CASE \E s \in {"BUY", "SELL"}, t \in Types, q \in Quantities :
              \E p \in (IF t = "MARKET" THEN {0} ELSE LimitPrices) : SubmitOrder(s, t, p, q)
  BY <1>1, <1>7 DEF SubmitOrder, vars, callVars
<1>8. CASE ToggleBreaker
  BY <1>1, <1>8 DEF ToggleBreaker, vars, callVars, engineVars
<1>9. CASE UNCHANGED allVars
  BY <1>1, <1>9 DEF allVars, vars, callVars, engineVars
<1> QED BY <1>2, <1>3, <1>4, <1>5, <1>6, <1>7, <1>8, <1>9 DEF EngineNext, WorkerStep

(* Every trade is booked for its maker and for the order that took it:     *)
(* the house holds nothing, and has bought as much as it has sold, also    *)
(* when the 32 bit totals have wrapped.                                    *)
THEOREM HouseIsFlat == EngineSpec => []PositionsFlat
<1>1. EngineInit => EInv /\ Flat
  BY EngineInitInv, InitFlat
<1>2. EInv /\ Flat /\ [EngineNext]_allVars => (EInv /\ Flat)'
  BY EngineNextInv, NextFlat
<1>3. EInv /\ Flat => PositionsFlat
  BY DEF Flat, PositionsFlat
<1> QED BY <1>1, <1>2, <1>3, PTL DEF EngineSpec

-----------------------------------------------------------------------------
(* The average price.                                                      *)

(* Products keep the order of their factors.                               *)
LEMMA TimesMonotone ==
    ASSUME NEW a \in Int, NEW b \in Int, NEW c \in Nat, a <= b
    PROVE  a * c <= b * c
OBVIOUS

(* Products distribute over sums.                                          *)
LEMMA Distribute ==
    ASSUME NEW a \in Int, NEW b \in Int, NEW c \in Int
    PROVE  a * (b + c) = a * b + a * c
OBVIOUS

(* The weighted sum of two numbers lies between multiples of bounds.       *)
LEMMA WeightedSum ==
    ASSUME NEW lo \in Int, NEW hi \in Int, NEW x \in lo .. hi, NEW y \in lo .. hi,
           NEW m \in Nat, NEW n \in Nat
    PROVE  lo * (m + n) <= x * m + y * n /\ x * m + y * n <= hi * (m + n)
<1>1. lo * m <= x * m /\ x * m <= hi * m
  BY TimesMonotone
<1>2. lo * n <= y * n /\ y * n <= hi * n
  BY TimesMonotone
<1>3. lo * (m + n) = lo * m + lo * n /\ hi * (m + n) = hi * m + hi * n
  BY Distribute
<1> DEFINE a == lo * m
           b == lo * n
           c == x * m
           d == y * n
           e == hi * m
           f == hi * n
<1>4. a \in Int /\ b \in Int /\ c \in Int /\ d \in Int /\ e \in Int /\ f \in Int
  OBVIOUS
<1>5. a <= c /\ c <= e /\ b <= d /\ d <= f
  BY <1>1, <1>2
<1> HIDE DEF a, b, c, d, e, f
<1>6. a + b <= c + d /\ c + d <= e + f
  BY <1>4, <1>5
<1> QED BY <1>3, <1>6 DEF a, b, c, d, e, f

(* ... and so does the quotient between the bounds.                        *)
LEMMA QuotientBetween ==
    ASSUME NEW lo \in Int, NEW hi \in Int, NEW a \in Int, NEW n \in Nat \ {0},
           lo * n <= a, a <= hi * n
    PROVE  (a \div n) \in lo .. hi
<1> DEFINE k == a \div n
           r == a % n
<1>1. k \in Int /\ a = k * n + r /\ r \in 0 .. n - 1
  OBVIOUS
<1> HIDE DEF k, r
<1>2. ~(k < lo)
  <2> SUFFICES ASSUME k < lo PROVE FALSE
    OBVIOUS
  <2>1. k + 1 <= lo /\ k + 1 \in Int
    BY <1>1
  <2>2. (k + 1) * n <= lo * n
    BY <2>1, TimesMonotone
  <2>3. (k + 1) * n = k * n + n
    BY <1>1
  <2> DEFINE u == k * n
             v == lo * n
  <2>4. u \in Int /\ v \in Int /\ u + n <= v /\ v <= a /\ a = u + r
    BY <1>1, <2>2, <2>3
  <2> HIDE DEF u, v
  <2> QED BY <1>1, <2>4
<1>3. ~(k > hi)
  <2> SUFFICES ASSUME k > hi PROVE FALSE
    OBVIOUS
  <2>1. hi + 1 <= k /\ hi + 1 \in Int
    BY <1>1
  <2>2. (hi + 1) * n <= k * n
    BY <1>1, <2>1, TimesMonotone
  <2>3. (hi + 1) * n = hi * n + n
    OBVIOUS
  <2> DEFINE u == k * n
             v == hi * n
  <2>4. u \in Int /\ v \in Int /\ v + n <= u /\ a <= v /\ a = u + r
    BY <1>1, <2>2, <2>3
  <2> HIDE DEF u, v
  <2> QED BY <1>1, <2>4
<1>4. k \in lo .. hi
  BY <1>1, <1>2, <1>3
<1> QED BY <1>4 DEF k
-----------------------------------------------------------------------------
(* The prices at which the house has bought.                               *)
PricesPaid == {ord[o].price : o \in Buyers}

(* The average of a position that has bought at the prices in P.           *)
Bracketed(P, p) ==
    IF p.bought = 0 THEN p.avg = 0
    ELSE \E lo, hi \in P : lo <= p.avg /\ p.avg <= hi

(* An order that can trade or has traded has the price it was processed at.*)
Priced ==
    \A o \in Orders : o \in Live \/ ord[o].filled > 0 =>
        o <= Len(request) /\ ord[o].price = EffectivePrice(request[o])

(* Makers count as buyers as soon as they are filled.                      *)
MakersTraded ==
    epc = "match" =>
        \A i \in 1 .. Len(fills) : fills[i].quantity > 0 => ord[fills[i].order].filled > 0

(* Up to now nobody has bought at the market, and the shares bought fit a  *)
(* word.                                                                   *)
Computable == Volume("BUY") < WORD /\ \A o \in Buyers : request[o].type = "LIMIT"

Averaged ==
    /\ Priced
    /\ MakersTraded
    /\ Computable => pos.bought = TotalOf(reports) /\ Bracketed(PricesPaid, pos)

(* What the arithmetic of the average needs: a limit price times any count *)
(* of shares fits a word of 64 bits.                                       *)
ProductsFit == \A p \in LimitPrices : p * WORD <= INT64_MAX

(* The same of any set of prices.                                          *)
Fit(P) == P \subseteq Nat /\ \A x \in P : x * WORD <= INT64_MAX

(* Numbers that fit are not changed by the arithmetic of words.            *)
LEMMA WordIdentity ==
    ASSUME NEW x \in 0 .. INT64_MAX PROVE Pos!Int64(x) = x /\ Pos!UInt64(x) = x
<1> DEFINE M == INT64_MAX
           n == 2 * (M + 1)
           y == x + M + 1
<1>1. /\ M \in Nat /\ n \in Nat \ {0} /\ x \in 0 .. n - 1 /\ y \in 0 .. n - 1 /\ n \in Int
      /\ x \in Int /\ y \in Int /\ x = 0 * n + x /\ y = 0 * n + y
  BY PricesAssumption
<1> HIDE DEF n
<1>2. (x % n) = x
  BY <1>1, RemainderIs
<1>3. (y % n) = y
  <2> HIDE DEF y
  <2> QED BY <1>1, RemainderIs
<1> QED BY <1>1, <1>2, <1>3 DEF Pos!Int64, Pos!UInt64, Pos!TwoTo64, n

(* A weighted average of prices whose products fit lies between them.      *)
LEMMA AverageBetween ==
    ASSUME NEW lo \in Nat, NEW hi \in Nat, NEW p \in Positions, p.avg \in lo .. hi, p.bought > 0,
           NEW price \in lo .. hi, NEW q \in Nat \ {0}, p.bought + q < WORD, hi * WORD <= INT64_MAX
    PROVE  Pos!AverageEntry(p, q, price) \in lo .. hi
<1> DEFINE B == p.bought
           a == p.avg * B
           b == price * q
           d == B + q
           c == a + b
           k == c \div d
<1>1. /\ WORD \in Nat \ {0} /\ B \in Nat /\ B \in Nat \ {0} /\ p.avg \in Nat /\ price \in Nat /\ q \in Nat
      /\ INT64_MAX \in Nat
  BY EngineAssumption, PricesAssumption DEF Positions
<1>2. a \in Nat /\ b \in Nat
  BY <1>1
<1>3. lo * d <= c /\ c <= hi * d
  BY <1>1, WeightedSum
<1>4. hi * d <= hi * WORD
  <2>1. d \in Int /\ WORD \in Int /\ d <= WORD /\ hi \in Nat
    BY <1>1
  <2> HIDE DEF d
  <2>2. d * hi <= WORD * hi
    BY <2>1, TimesMonotone
  <2>3. d * hi = hi * d /\ WORD * hi = hi * WORD
    BY <2>1
  <2> QED BY <2>2, <2>3
<1>5. d \in Nat \ {0} /\ c \in Nat
  BY <1>1, <1>2
<1> HIDE DEF a, b, d
<1>6. hi * d \in Int /\ hi * WORD \in Int
  BY <1>1, <1>5
<1>7. a \in 0 .. INT64_MAX /\ b \in 0 .. INT64_MAX /\ c \in 0 .. INT64_MAX
  <2>1. c <= INT64_MAX
    <3> DEFINE u == hi * d
               v == hi * WORD
    <3>1. c <= u /\ u <= v /\ v <= INT64_MAX /\ u \in Int /\ v \in Int /\ c \in Int
      BY <1>3, <1>4, <1>5, <1>6
    <3> HIDE DEF u, v, c
    <3> QED BY <1>1, <3>1
  <2> QED BY <1>1, <1>2, <2>1
<1> HIDE DEF c
<1>8. k \in lo .. hi
  BY <1>3, <1>5, <1>7, QuotientBetween
<1>9. hi <= INT64_MAX
  <2>1. 1 * hi <= WORD * hi
    BY <1>1, TimesMonotone
  <2>2. 1 * hi = hi /\ WORD * hi = hi * WORD
    BY <1>1
  <2> DEFINE v == hi * WORD
  <2>3. hi <= v /\ v <= INT64_MAX /\ v \in Int
    BY <1>6, <2>1, <2>2
  <2> HIDE DEF v
  <2> QED BY <1>1, <2>3
<1> HIDE DEF k
<1>10. k \in 0 .. INT64_MAX
  BY <1>1, <1>8, <1>9
<1>11. Pos!UInt64(a) = a /\ Pos!UInt64(b) = b /\ Pos!UInt64(a + b) = c
  <2>1. Pos!UInt64(c) = c
    BY <1>7, WordIdentity
  <2> QED BY <1>7, <2>1, WordIdentity DEF c
<1>12. Pos!AverageEntry(p, q, price) = Pos!Int64(k)
  <2>1. B # 0
    BY <1>1
  <2> QED BY <1>11, <2>1 DEF Pos!AverageEntry, a, b, d, k
<1>13. Pos!Int64(k) = k
  BY <1>10, WordIdentity
<1> QED BY <1>8, <1>12, <1>13

(* update_position keeps the average between prices that were paid.        *)
LEMMA UpdateBracketed ==
    ASSUME NEW P, Fit(P), NEW p \in Positions, Bracketed(P, p),
           NEW t \in Side, NEW q \in Nat, NEW price \in Int,
           t = "BUY" => p.bought + q < WORD /\ (q > 0 => price \in P)
    PROVE  LET u == Pos!UpdatePosition(p, t, q, price)
           IN  /\ Bracketed(P, u)
               /\ u.bought = IF t = "BUY" THEN p.bought + q ELSE p.bought
<1> DEFINE u == Pos!UpdatePosition(p, t, q, price)
<1>1. /\ WORD \in Nat \ {0} /\ p.bought \in 0 .. WORD - 1
  BY EngineAssumption DEF Positions
<1>2. CASE q = 0
  <2>1. u = p
    BY <1>2 DEF Pos!UpdatePosition
  <2> QED BY <1>1, <1>2, <2>1
<1>3. CASE q # 0 /\ t = "SELL"
  <2>1. u.bought = p.bought /\ u.avg = p.avg
    BY <1>3 DEF Pos!UpdatePosition, Positions
  <2> QED BY <1>3, <2>1 DEF Bracketed
<1>4. CASE q # 0 /\ t = "BUY"
  <2> DEFINE avg == Pos!AverageEntry(p, q, price)
             b == p.bought + q
  <2>1. b \in 1 .. WORD - 1 /\ b \in Int /\ price \in P
    BY <1>1, <1>4 DEF Fit
  <2>2. (b % WORD) = b
    <3>1. b = 0 * WORD + b /\ b \in 0 .. WORD - 1
      BY <1>1, <2>1
    <3> HIDE DEF b
    <3> QED BY <1>1, <2>1, <3>1, RemainderIs
  <2>3. u = [p EXCEPT !.net = @ + q, !.avg = avg, !.bought = (b % WORD)]
    BY <1>4 DEF Pos!UpdatePosition
  <2> HIDE DEF avg, b, u
  <2>4. u.bought = b /\ u.avg = avg
    BY <2>2, <2>3 DEF Positions
  <2>5. \E lo, hi \in P : lo <= avg /\ avg <= hi
    <3>1. CASE p.bought = 0
      <4>1. avg = price
        BY <3>1 DEF avg, Pos!AverageEntry
      <4>2. price <= avg /\ avg <= price
        BY <2>1, <4>1
      <4> QED BY <2>1, <4>2
    <3>2. CASE p.bought # 0
      <4>1. PICK x, y \in P : x <= p.avg /\ p.avg <= y
        BY <3>2 DEF Bracketed
      <4> DEFINE lo == IF x <= price THEN x ELSE price
                 hi == IF y <= price THEN price ELSE y
      <4>2. lo \in P /\ hi \in P /\ lo \in Nat /\ hi \in Nat /\ price \in Nat
        BY <2>1, <4>1 DEF Fit
      <4>3. p.avg \in lo .. hi /\ price \in lo .. hi
        <5>1. p.avg \in Int /\ x \in Nat /\ y \in Nat
          BY <4>1 DEF Fit, Positions
        <5> QED BY <4>1, <4>2, <5>1
      <4> HIDE DEF lo, hi
      <4>4. hi * WORD <= INT64_MAX
        BY <4>2 DEF Fit
      <4>5. p.bought > 0 /\ q \in Nat \ {0} /\ p.bought + q < WORD
        BY <1>1, <1>4, <3>2
      <4>6. avg \in lo .. hi
        BY <4>2, <4>3, <4>4, <4>5, AverageBetween DEF avg
      <4>7. lo <= avg /\ avg <= hi
        BY <4>2, <4>6
      <4> QED BY <4>2, <4>7
    <3> QED BY <3>1, <3>2
  <2>6. u.bought # 0
    BY <2>1, <2>4
  <2> QED BY <1>4, <2>4, <2>5, <2>6 DEF Bracketed, b, u
<1> QED BY <1>2, <1>3, <1>4 DEF Side

-----------------------------------------------------------------------------
(* The position after the first k fills against makers of side t.          *)
LEMMA FillsBracketed ==
    ASSUME EInv, Flat, NEW t \in Side,
           \A i \in 1 .. Len(fills) : ord[fills[i].order].side = t,
           NEW h, IsPositionTable(h),
           NEW P, Fit(P), Bracketed(P, pos),
           t = "BUY" => /\ pos.bought + SumOver(QuantitiesOf(fills), 1 .. Len(fills)) < WORD
                        /\ \A i \in 1 .. Len(fills) :
                              fills[i].quantity > 0 => ord[fills[i].order].price \in P
    PROVE  LET x == h[1 .. Len(fills)]
           IN  /\ Bracketed(P, x)
               /\ x.bought = IF t = "BUY"
                             THEN pos.bought + SumOver(QuantitiesOf(fills), 1 .. Len(fills))
                             ELSE pos.bought
<1> DEFINE n == Len(fills)
           f == QuantitiesOf(fills)
           S(j) == SumOver(f, 1 .. j)
           P1(j) == t = "BUY" => pos.bought + S(j) < WORD
           Q(j) == /\ Bracketed(P, h[1 .. j])
                   /\ h[1 .. j].bought = IF t = "BUY" THEN pos.bought + S(j) ELSE pos.bought
           C == {j \in 0 .. n : ~(P1(j) => Q(j))}
<1>1. /\ n \in Nat /\ DOMAIN fills = 1 .. n /\ pos \in Positions /\ pos.bought \in Nat
      /\ WORD \in Nat \ {0}
  BY EngineAssumption DEF Flat, Positions
<1>2. \A i \in 1 .. n : f[i] = fills[i].quantity /\ f[i] \in Nat
  BY FillAt DEF QuantitiesOf
<1>3. \A j \in 0 .. n : h[1 .. j] \in Positions /\ S(j) \in Nat
  BY AfterFills
<1> HIDE DEF f, n
<1>4. Q(0)
  <2>1. 1 .. 0 = {}
    OBVIOUS
  <2>2. S(0) = 0
    BY <2>1, SumEmpty
  <2>3. h[1 .. 0] = pos
    BY <2>1 DEF IsPositionTable
  <2> HIDE DEF S
  <2> QED BY <1>1, <2>2, <2>3
<1>5. ASSUME NEW j \in 1 .. n, P1(j - 1) => Q(j - 1), P1(j) PROVE Q(j)
  <2> DEFINE p == h[1 .. j - 1]
             q == fills[j].quantity
             price == ord[fills[j].order].price
             a == S(j - 1)
  <2>0. j - 1 \in 0 .. n
    BY <1>1
  <2>1. j \in Nat \ {0} /\ 1 .. j \in SUBSET (1 .. n) /\ 1 .. j # {} /\ j \in 1 .. j
    <3>1. j \in Nat /\ 1 <= j /\ j <= n
      BY <1>1
    <3>2. \A i \in 1 .. j : i \in 1 .. n
      BY <1>1, <3>1
    <3>3. j \in 1 .. j
      BY <3>1
    <3> QED BY <3>1, <3>2, <3>3
  <2>2. Max(1 .. j) = j /\ (1 .. j) \ {j} = 1 .. j - 1
    BY <2>1, MaxOfPlaces
  <2>3. h[1 .. j] = Pos!UpdatePosition(p, t, q, price)
    <3>1. h[1 .. j] = Pos!UpdatePosition(h[(1 .. j) \ {Max(1 .. j)}], ord[fills[Max(1 .. j)].order].side,
                         fills[Max(1 .. j)].quantity, ord[fills[Max(1 .. j)].order].price)
      BY <1>1, <2>1 DEF IsPositionTable
    <3>2. ord[fills[j].order].side = t
      BY DEF n
    <3> QED BY <2>2, <3>1, <3>2
  <2>4. p \in Positions /\ q \in Nat /\ price \in Int /\ a \in Nat
    BY <1>3, <2>0, FillAt DEF n
  <2>5. S(j) = q + a
    <3>1. IsFiniteSet(1 .. j) /\ j \in 1 .. j
      BY <1>1, <2>1, PlacesFinite
    <3>2. \A i \in 1 .. j : f[i] \in Int
      BY <1>2, <2>1
    <3>3. SumOver(f, 1 .. j) = f[j] + SumOver(f, (1 .. j) \ {j})
      BY <3>1, <3>2, SumTakeOut
    <3> QED BY <1>2, <2>2, <3>3
  <2>6. t = "BUY" /\ q > 0 => price \in P
    BY DEF n
  <2> HIDE DEF p, q, price, a, S
  <2>7. P1(j - 1)
    BY <1>1, <1>5, <2>4, <2>5 DEF a
  <2>8. Bracketed(P, p) /\ p.bought = IF t = "BUY" THEN pos.bought + a ELSE pos.bought
    BY <1>5, <2>7 DEF p, a
  <2>9. t = "BUY" => p.bought + q < WORD /\ (q > 0 => price \in P)
    BY <1>1, <1>5, <2>4, <2>5, <2>6, <2>8
  <2> DEFINE u == Pos!UpdatePosition(p, t, q, price)
  <2>10. /\ Bracketed(P, u)
         /\ u.bought = IF t = "BUY" THEN p.bought + q ELSE p.bought
    BY <2>4, <2>8, <2>9, UpdateBracketed
  <2>11. u = h[1 .. j]
    BY <2>3
  <2> HIDE DEF u
  <2> QED BY <1>1, <2>4, <2>5, <2>8, <2>10, <2>11
<1> HIDE DEF P1, Q
<1>6. C = {}
  <2> SUFFICES ASSUME C # {} PROVE FALSE
    OBVIOUS
  <2>1. C \subseteq Nat
    BY <1>1
  <2>2. PICK j \in C : \A i \in C : j <= i
    BY <2>1, LeastNatural
  <2>3. j \in 0 .. n /\ P1(j) /\ ~Q(j)
    BY <2>2
  <2>4. j # 0
    BY <1>4, <2>3
  <2>5. j - 1 \in 0 .. n /\ j \in 1 .. n /\ ~(j <= j - 1)
    BY <1>1, <2>3, <2>4
  <2>6. P1(j - 1) => Q(j - 1)
    BY <2>2, <2>5
  <2> QED BY <1>5, <2>3, <2>5, <2>6
<1>7. n \in 0 .. n /\ (P1(n) => Q(n))
  <2>1. n \in 0 .. n
    BY <1>1
  <2> QED BY <1>6, <2>1
<1>8. P1(n)
  BY DEF P1, f, n
<1>9. Q(n)
  BY <1>7, <1>8
<1> QED BY <1>9 DEF Q, f, n

(* The house has bought at limit prices, if nobody bought at the market.   *)
LEMMA PaidPrices ==
    ASSUME EInv, Priced, ProductsFit, \A o \in Buyers : request[o].type = "LIMIT"
    PROVE  Fit(PricesPaid)
<1>1. ASSUME NEW o \in Buyers PROVE ord[o].price \in LimitPrices \cup {0}
  <2>1. o \in Orders /\ o \in Nat \ {0} /\ ord[o].filled > 0
    BY OrdersAssumption DEF Buyers, NoOrder
  <2>2. o <= Len(request) /\ ord[o].price = EffectivePrice(request[o])
    BY <2>1 DEF Priced
  <2>3. request \in Seq(Request)
    BY DEF EInv, EngineTypes
  <2>4. request[o] \in Request
    BY <2>1, <2>2, <2>3
  <2>5. ord[o].price = request[o].price
    BY <1>1, <2>2 DEF EffectivePrice
  <2> QED BY <2>4, <2>5 DEF Request
<1>2. LimitPrices \subseteq Nat
  BY EngineAssumption, PricesAssumption
<1>3. \A x \in PricesPaid : x \in LimitPrices \/ x = 0
  BY <1>1 DEF PricesPaid
<1>4. 0 * WORD <= INT64_MAX
  BY EngineAssumption, PricesAssumption
<1>5. ASSUME NEW x \in PricesPaid PROVE x \in Nat /\ x * WORD <= INT64_MAX
  <2>1. CASE x \in LimitPrices
    BY <1>2, <2>1 DEF ProductsFit
  <2>2. CASE x = 0
    BY <1>4, <2>2
  <2> QED BY <1>3, <2>1, <2>2
<1> QED BY <1>5 DEF Fit

-----------------------------------------------------------------------------
(* More buyers and more prices leave an average where it is.               *)
LEMMA AveragedKept ==
    ASSUME Averaged, pos' = pos, TotalOf(reports') = TotalOf(reports), Priced', MakersTraded',
           Volume("BUY") \in Int, Volume("BUY")' \in Int, Volume("BUY")' >= Volume("BUY"),
           \A o \in Orders : ord[o].filled > 0 =>
              /\ ord'[o].filled > 0 /\ ord'[o].side = ord[o].side /\ ord'[o].price = ord[o].price
              /\ request'[o] = request[o]
    PROVE  Averaged'
<1>1. \A o \in Buyers : /\ o \in Buyers' /\ ord'[o].price = ord[o].price
                        /\ request'[o] = request[o]
  BY DEF Buyers
<1>2. PricesPaid \subseteq PricesPaid'
  BY <1>1 DEF PricesPaid
<1>3. Computable' => Computable
  <2>1. WORD \in Int
    BY EngineAssumption
  <2>2. Volume("BUY")' < WORD => Volume("BUY") < WORD
    BY <2>1
  <2> QED BY <1>1, <2>2 DEF Computable
<1>4. ASSUME Bracketed(PricesPaid, pos) PROVE Bracketed(PricesPaid', pos')
  BY <1>2, <1>4 DEF Bracketed
<1>5. TotalOf(reports)' = TotalOf(reports)
  OBVIOUS
<1>6. Computable' => pos'.bought = TotalOf(reports)' /\ Bracketed(PricesPaid, pos)'
  BY <1>3, <1>4, <1>5 DEF Averaged
<1> QED BY <1>6 DEF Averaged

(* What was bought is a number, and an order that has bought is part of it.*)
LEMMA VolumeParts ==
    ASSUME IsFiniteSet(Orders), EInv
    PROVE  /\ Volume("BUY") \in Nat
           /\ \A o \in Buyers : ord[o].filled <= Volume("BUY") /\ ord[o].filled \in Nat /\ ord[o].filled > 0
           /\ Buyers = {} => Volume("BUY") = 0
<1> DEFINE f == VolumeOf(ord, "BUY")
<1>1. \A o \in Orders : ord[o].filled \in Nat
  BY DEF EInv, IInv, TypeOK, Order
<1>2. \A o \in Orders : f[o] = IF ord[o].side = "BUY" THEN ord[o].filled ELSE 0
  BY DEF VolumeOf
<1>3. \A o \in Orders : f[o] \in Nat
  BY <1>1, <1>2
<1>4. Volume("BUY") = SumOver(f, Orders)
  BY DEF Volume
<1> HIDE DEF f
<1>5. SumOver(f, Orders) \in Nat /\ \A o \in Orders : f[o] <= SumOver(f, Orders)
  BY <1>3, SumNatural
<1>6. ASSUME Buyers = {} PROVE SumOver(f, Orders) = 0
  <2>1. \A o \in Orders : f[o] = 0
    BY <1>1, <1>2, <1>6 DEF Buyers
  <2>2. {} \subseteq Orders /\ \A o \in Orders : f[o] \in Int
    BY <1>3
  <2>3. SumOver(f, {}) = SumOver(f, Orders)
    BY <2>1, <2>2, SumSubset
  <2> QED BY <2>3, SumEmpty
<1> QED BY <1>1, <1>2, <1>4, <1>5, <1>6 DEF Buyers

(* A step that trades nothing and books nothing: an order that becomes     *)
(* alive has the price that the engine gives it.                           *)
LEMMA AveragedQuiet ==
    ASSUME IsFiniteSet(Orders), EInv, EInv', Flat, Averaged, pos' = pos, TotalOf(reports') = TotalOf(reports),
           epc' = "match" => fills' = << >> \/ (epc = "match" /\ fills' = fills),
           \A o \in Orders : o <= Len(request) => o <= Len(request') /\ request'[o] = request[o],
           \A o \in Orders :
              /\ ord'[o].filled = ord[o].filled
              /\ ord[o].filled > 0 => ord'[o].side = ord[o].side /\ ord'[o].price = ord[o].price
              /\ o \in Live' => \/ o \in Live /\ ord'[o].price = ord[o].price
                                \/ o <= Len(request) /\ ord'[o].price = EffectivePrice(request[o])
    PROVE  Averaged'
<1>1. Priced'
  <2> SUFFICES ASSUME NEW o \in Orders, o \in Live' \/ ord'[o].filled > 0
               PROVE  o <= Len(request') /\ ord'[o].price = EffectivePrice(request'[o])
    BY DEF Priced
  <2>1. o <= Len(request) /\ ord'[o].price = EffectivePrice(request[o])
    BY DEF Averaged, Priced
  <2> QED BY <2>1
<1>2. MakersTraded'
  <2> SUFFICES ASSUME epc' = "match", NEW i \in 1 .. Len(fills'), fills'[i].quantity > 0
               PROVE  ord'[fills'[i].order].filled > 0
    BY DEF MakersTraded
  <2>1. fills' # << >>
    OBVIOUS
  <2>2. epc = "match" /\ fills' = fills
    BY <2>1
  <2>3. ord[fills[i].order].filled > 0
    BY <2>2 DEF Averaged, MakersTraded
  <2>4. fills[i].order \in Orders
    <3>1. fills[i] \in MakerFill
      BY <2>2 DEF Flat
    <3> QED BY <3>1 DEF MakerFill
  <2> QED BY <2>2, <2>3, <2>4
<1>3. Volume("BUY") \in Int /\ Volume("BUY")' \in Int /\ Volume("BUY")' >= Volume("BUY")
  <2>1. Volume("BUY")' = Volume("BUY")
    <3>0. \A o \in Orders : ord[o].filled \in Nat
      BY DEF EInv, IInv, TypeOK, Order
    <3>1. \A o \in Orders : /\ ord'[o].filled = ord[o].filled
                            /\ ord'[o].side = ord[o].side \/ ord[o].filled = 0
      BY <3>0
    <3> QED BY <3>1, VolumeSame DEF Volume
  <2>2. Volume("BUY") \in Int
    BY VolumeParts
  <2> QED BY <2>1, <2>2
<1>4. \A o \in Orders : ord[o].filled > 0 =>
         /\ ord'[o].filled > 0 /\ ord'[o].side = ord[o].side /\ ord'[o].price = ord[o].price
         /\ request'[o] = request[o]
  BY DEF Averaged, Priced
<1> QED BY <1>1, <1>2, <1>3, <1>4, AveragedKept

(* A fill makes a buyer and a seller.                                      *)
LEMMA FillStepAveraged ==
    ASSUME IsFiniteSet(Orders), EInv, EInv', Flat, Averaged, ContinueMatch, FillStep
    PROVE  Averaged'
<1>0. pc # "idle" /\ epc = "match" /\ UNCHANGED <<epc, current, pos, request, reports>>
  BY DEF ContinueMatch, engineVars, FillStep
<1>1. epc = "match" /\ UNCHANGED <<epc, current, pos, request, reports>> /\ inc = current
  BY <1>0 DEF EInv, InProcess
<1>2. PICK m \in Orders, q \in Nat :
         /\ m \in Live /\ m # inc /\ inc \in Orders
         /\ ord[m] \in Order /\ ord[inc] \in Order
         /\ ord[m].side = Opposite(ord[inc].side) /\ ord[inc].side \in Side
         /\ fills' = Append(fills, [order |-> m, quantity |-> q, price |-> ord[inc].price])
         /\ ord'[m] = Executed(ord[m], q) /\ ord'[inc] = Executed(ord[inc], q)
         /\ \A x \in Orders : x # m /\ x # inc => ord'[x] = ord[x]
  BY FillFacts DEF EInv
<1>3. /\ ord'[m].filled = ord[m].filled + q /\ ord'[inc].filled = ord[inc].filled + q
      /\ ord[m].filled \in Nat /\ ord[inc].filled \in Nat
      /\ \A x \in Orders : ord'[x].side = ord[x].side /\ ord'[x].price = ord[x].price
  <2>1. /\ ord'[m].filled = ord[m].filled + q /\ ord'[inc].filled = ord[inc].filled + q
        /\ ord'[m].side = ord[m].side /\ ord'[inc].side = ord[inc].side
        /\ ord'[m].price = ord[m].price /\ ord'[inc].price = ord[inc].price
    BY <1>2, ExecutedFields
  <2>2. ord[m].filled \in Nat /\ ord[inc].filled \in Nat
    BY <1>2 DEF Order
  <2>3. ASSUME NEW x \in Orders
        PROVE  ord'[x].side = ord[x].side /\ ord'[x].price = ord[x].price
    BY <1>2, <2>1
  <2> QED BY <2>1, <2>2, <2>3
<1>4. \A x \in Orders : ord[x].filled > 0 => ord'[x].filled > 0
  BY <1>2, <1>3
<1>5. Priced'
  <2> SUFFICES ASSUME NEW o \in Orders, o \in Live' \/ ord'[o].filled > 0
               PROVE  o <= Len(request) /\ ord'[o].price = EffectivePrice(request[o])
    BY <1>1 DEF Priced
  <2>1. CASE o = inc
    <3>1. /\ current \in Orders /\ current = arrived /\ arrived <= Len(request)
          /\ ord[current].price = EffectivePrice(request[current])
      BY <1>1 DEF EInv, InProcess, Untouched
    <3> QED BY <1>1, <1>3, <2>1, <3>1
  <2>2. CASE o = m
    BY <1>2, <1>3, <2>2 DEF Averaged, Priced
  <2>3. CASE o # m /\ o # inc
    <3>1. ord'[o] = ord[o]
      BY <1>2, <2>3
    <3>2. o \in Live \/ ord[o].filled > 0
      BY <3>1 DEF Live, is_active
    <3> QED BY <3>1, <3>2 DEF Averaged, Priced
  <2> QED BY <2>1, <2>2, <2>3
<1> DEFINE e == [order |-> m, quantity |-> q, price |-> ord[inc].price]
<1>6. /\ fills \in Seq(MakerFill) /\ e \in MakerFill /\ fills' = Append(fills, e)
      /\ e.order = m /\ e.quantity = q
  BY <1>2 DEF Flat, MakerFill, Order
<1> HIDE DEF e
<1>7. MakersTraded'
  <2> SUFFICES ASSUME NEW i \in 1 .. Len(fills'), fills'[i].quantity > 0
               PROVE  ord'[fills'[i].order].filled > 0
    BY DEF MakersTraded
  <2>1. /\ Len(fills') = Len(fills) + 1 /\ Len(fills) \in Nat /\ fills'[Len(fills) + 1] = e
        /\ \A k \in 1 .. Len(fills) : fills'[k] = fills[k] /\ fills[k] \in MakerFill
    BY <1>6
  <2>2. CASE i \in 1 .. Len(fills)
    <3>1. fills'[i] = fills[i] /\ fills[i].order \in Orders
      BY <2>1, <2>2 DEF MakerFill
    <3>2. ord[fills[i].order].filled > 0
      BY <1>1, <2>2, <3>1 DEF Averaged, MakersTraded
    <3> QED BY <1>4, <3>1, <3>2
  <2>3. CASE i \notin 1 .. Len(fills)
    <3>1. i = Len(fills) + 1
      BY <2>1, <2>3
    <3>2. fills'[i].order = m /\ q > 0
      BY <1>6, <2>1, <3>1
    <3> QED BY <1>3, <3>2
  <2> QED BY <2>2, <2>3
<1>8. Volume("BUY") \in Int /\ Volume("BUY")' \in Int /\ Volume("BUY")' >= Volume("BUY")
  <2>1. Volume("BUY")' = Volume("BUY") + q
    BY <1>2, FillVolume DEF Volume, EInv, Side
  <2>2. Volume("BUY") \in Int
    BY VolumeParts
  <2> QED BY <2>1, <2>2
<1>9. \A o \in Orders : ord[o].filled > 0 =>
         /\ ord'[o].filled > 0 /\ ord'[o].side = ord[o].side /\ ord'[o].price = ord[o].price
         /\ request'[o] = request[o]
  BY <1>1, <1>3, <1>4
<1>10. TotalOf(reports') = TotalOf(reports) /\ pos' = pos
  BY <1>1
<1> QED BY <1>5, <1>7, <1>8, <1>9, <1>10, AveragedKept

(* What a match has traded is booked at the prices of the buyers.          *)
LEMMA BookFillsAveraged ==
    ASSUME IsFiniteSet(Orders), ProductsFit, EInv, Flat, Tallied, Tallied', Averaged, BookFills
    PROVE  Averaged'
<1> DEFINE u == ord[current].side
           t == Opposite(u)
           n == Len(fills)
           S == SumOver(QuantitiesOf(fills), 1 .. n)
           x == MakerPositions
           price == ord[current].price
           P == PricesPaid
<1>1. /\ epc = "match" /\ epc' = "finalize" /\ UNCHANGED <<ord, request>>
      /\ pos' = Pos!UpdatePosition(x, u, ord[current].filled, price)
  BY DEF BookFills, vars
<1>2. current \in Orders /\ ord[current] \in Order
  BY <1>1 DEF EInv, InProcess, IInv, TypeOK
<1>3. u \in Side /\ t \in Side /\ price \in Int
  BY <1>2 DEF Order, Opposite, Side
<1>4. /\ \A i \in 1 .. n : ord[fills[i].order].side = t
      /\ S = ord[current].filled /\ S \in Nat
  BY <1>1, <1>2 DEF Flat, TotalOf, Order
<1>5. PICK h : IsPositionTable(h) /\ x = h[1 .. n] /\ n \in Nat
  BY PositionTable
<1> HIDE DEF x
<1>6. Priced' /\ MakersTraded'
  <2>1. Live' = Live
    BY <1>1 DEF Live, is_active
  <2>2. Priced'
    BY <1>1, <2>1 DEF Averaged, Priced
  <2> QED BY <1>1, <2>2 DEF MakersTraded
<1>7. Volume("BUY") = TotalOf(reports) + S /\ Volume("BUY") = TotalOf(reports')
  <2>1. "BUY" \in Side
    BY DEF Side
  <2>2. Volume("BUY") = TotalOf(reports) + Pending /\ Pending = S
    BY <1>1, <1>4, <2>1 DEF Tallied, Pending
  <2>3. Volume("BUY")' = TotalOf(reports') + 0
    BY <1>1, <2>1 DEF Tallied, Pending
  <2>4. Volume("BUY")' = Volume("BUY")
    BY <1>1 DEF Volume
  <2>5. TotalOf(reports') \in Int
    <3>1. \A r \in Quantified : r.quantity \in Nat
      BY DEF Quantified
    <3>2. reports' \in Seq(Quantified)
      BY DEF Tallied
    <3> QED BY <3>1, <3>2, TotalType
  <2> QED BY <2>2, <2>3, <2>4, <2>5
<1>8. SUFFICES ASSUME Computable
               PROVE  pos'.bought = TotalOf(reports') /\ Bracketed(P, pos')
  <2>1. P' = P /\ Computable' = Computable
    BY <1>1 DEF PricesPaid, Computable, Buyers, Volume
  <2>2. Computable' => pos'.bought = TotalOf(reports)' /\ Bracketed(PricesPaid, pos)'
    BY <2>1, <1>8
  <2> QED BY <1>6, <2>2 DEF Averaged
<1>9. /\ pos.bought = TotalOf(reports) /\ Bracketed(P, pos) /\ Fit(P)
      /\ pos.bought + S < WORD /\ pos.bought \in Nat
  <2>1. Fit(P)
    BY <1>8, PaidPrices DEF Averaged, Computable
  <2>2. pos.bought = TotalOf(reports) /\ Bracketed(P, pos) /\ Volume("BUY") < WORD
    BY <1>8 DEF Averaged, Computable
  <2>3. pos.bought \in Nat
    BY EngineAssumption DEF Flat, Positions
  <2> QED BY <1>7, <2>1, <2>2, <2>3
<1>10. \A i \in 1 .. n : t = "BUY" /\ fills[i].quantity > 0 => ord[fills[i].order].price \in P
  <2> SUFFICES ASSUME NEW i \in 1 .. n, t = "BUY", fills[i].quantity > 0
               PROVE  ord[fills[i].order].price \in P
    OBVIOUS
  <2>1. fills[i].order \in Orders
    <3>1. fills[i] \in MakerFill
      BY DEF Flat
    <3> QED BY <3>1 DEF MakerFill
  <2>2. ord[fills[i].order].filled > 0
    BY <1>1 DEF Averaged, MakersTraded
  <2>3. ord[fills[i].order].side = "BUY"
    BY <1>4
  <2> QED BY <2>1, <2>2, <2>3 DEF PricesPaid, Buyers
<1>11. u = "BUY" /\ S > 0 => price \in P
  BY <1>2, <1>4 DEF PricesPaid, Buyers
<1>12. t = "BUY" <=> u = "SELL"
  BY <1>3 DEF Opposite, Side
<1> HIDE DEF u, t, price, P
<1>13. /\ x \in Positions
  <2>1. n \in 0 .. Len(fills)
    BY <1>5
  <2> QED BY <1>3, <1>4, <1>5, <2>1, AfterFills
<1>14. /\ Bracketed(P, x)
       /\ x.bought = IF t = "BUY" THEN pos.bought + S ELSE pos.bought
  <2> HIDE DEF x
  <2>1. t = "BUY" => /\ pos.bought + S < WORD
                     /\ \A i \in 1 .. n : fills[i].quantity > 0 => ord[fills[i].order].price \in P
    BY <1>9, <1>10
  <2>2. /\ Bracketed(P, h[1 .. n])
        /\ h[1 .. n].bought = IF t = "BUY" THEN pos.bought + S ELSE pos.bought
    BY <1>3, <1>4, <1>5, <1>9, <2>1, FillsBracketed
  <2> QED BY <1>5, <2>2
<1> HIDE DEF S
<1> DEFINE y == Pos!UpdatePosition(x, u, S, price)
<1>15. u = "BUY" => x.bought + S < WORD /\ (S > 0 => price \in P)
  BY <1>9, <1>11, <1>12, <1>14
<1>16. /\ Bracketed(P, y)
       /\ y.bought = IF u = "BUY" THEN x.bought + S ELSE x.bought
  BY <1>3, <1>4, <1>9, <1>13, <1>14, <1>15, UpdateBracketed
<1>17. pos' = y
  BY <1>1, <1>4 DEF u, price
<1> HIDE DEF y
<1>18. y.bought = pos.bought + S
  BY <1>3, <1>12, <1>14, <1>16 DEF Side
<1> QED BY <1>7, <1>9, <1>16, <1>17, <1>18

(* Nothing is bought at the start.                                         *)
LEMMA InitAveraged ==
    ASSUME EngineInit PROVE Averaged
<1>1. /\ reports = << >> /\ epc = "wait" /\ pos.bought = 0 /\ pos.avg = 0
      /\ \A o \in Orders : ord[o] = BlankOrder
  BY DEF EngineInit, Init, Pos!NewPosition
<1>2. TotalOf(reports) = 0
  BY <1>1, TotalEmpty
<1>3. \A o \in Orders : o \notin Live /\ ~(ord[o].filled > 0)
  BY <1>1 DEF Live, BlankOrder
<1>4. Priced /\ MakersTraded
  BY <1>1, <1>3 DEF Priced, MakersTraded
<1> QED BY <1>1, <1>2, <1>4 DEF Averaged, Bracketed

(* No step of any thread moves the average away from the prices paid.      *)
LEMMA NextAveraged ==
    ASSUME IsFiniteSet(Orders), ProductsFit, EInv, EInv', Flat, Tallied, Tallied', Averaged,
           [EngineNext]_allVars
    PROVE  Averaged'
<1>1. \A x \in Orders : ord[x] \in Order /\ x \in Nat /\ x # 0
  BY OrdersAssumption DEF EInv, IInv, TypeOK, NoOrder
<1>2. CASE /\ UNCHANGED <<ord, pos>> /\ TotalOf(reports') = TotalOf(reports)
           /\ epc' = "match" => epc = "match" /\ fills' = fills
           /\ \A o \in Orders : o <= Len(request) => o <= Len(request') /\ request'[o] = request[o]
  <2>1. Live' = Live
    BY <1>2 DEF Live, is_active
  <2> QED BY <1>2, <2>1, AveragedQuiet
<1>3. CASE /\ UNCHANGED <<pos, reports, request>> /\ epc' # "match"
           /\ \A x \in Orders :
                 /\ ord'[x].filled = ord[x].filled
                 /\ ord[x].filled > 0 => ord'[x].side = ord[x].side /\ ord'[x].price = ord[x].price
                 /\ x \in Live' => \/ x \in Live /\ ord'[x].price = ord[x].price
                                   \/ x <= Len(request) /\ ord'[x].price = EffectivePrice(request[x])
  BY <1>3, AveragedQuiet
<1>4. CASE \E s \in {"BUY", "SELL"}, t \in Types, q \in Quantities :
             \E p \in (IF t = "MARKET" THEN {0} ELSE LimitPrices) : SubmitOrder(s, t, p, q)
  <2>1. PICK r : request' = Append(request, r)
    BY <1>4 DEF SubmitOrder
  <2>2. UNCHANGED <<ord, pos, reports, epc, fills>>
    BY <1>4 DEF SubmitOrder, vars, callVars
  <2>3. request \in Seq(Request)
    BY DEF EInv, EngineTypes
  <2>4. \A o \in Orders : o <= Len(request) => o <= Len(request') /\ request'[o] = request[o]
    BY <1>1, <2>1, <2>3
  <2> QED BY <1>2, <2>2, <2>4
<1>5. CASE RejectOrder
  <2>1. UNCHANGED <<pos, reports, request>> /\ epc' # "match"
    BY <1>5 DEF RejectOrder
  <2>2. PICK o \in Orders, r \in Order :
           /\ ord[o] = BlankOrder /\ r.filled = 0 /\ r.status = "REJECTED"
           /\ ord' = [ord EXCEPT ![o] = r]
    BY <1>5, RejectOrderStep
  <2>3. ord'[o] = r /\ \A x \in Orders : x # o => ord'[x] = ord[x]
    BY <2>2 DEF EInv, IInv, TypeOK
  <2>4. ord[o].filled = 0 /\ o \notin Live'
    BY <2>2, <2>3 DEF BlankOrder, Live, is_active
  <2>5. \A x \in Orders : x # o => (x \in Live' <=> x \in Live)
    BY <2>3 DEF Live, is_active
  <2> QED BY <1>3, <2>1, <2>2, <2>3, <2>4, <2>5
<1>6. CASE SendRejection
  <2>1. /\ epc = "reject" /\ epc' = "wait" /\ UNCHANGED <<ord, pos, request>>
        /\ reports' = Append(reports, Report(current, "REJECTED", 0, 0))
    BY <1>6 DEF SendRejection, vars
  <2> DEFINE e == Report(current, "REJECTED", 0, 0)
  <2>2. e \in Quantified /\ e.quantity = 0
    BY <2>1 DEF EInv, InProcess, Quantified, Report, Status
  <2>3. \A r \in Quantified : r.quantity \in Nat
    BY DEF Quantified
  <2>4. reports \in Seq(Quantified) /\ reports' = Append(reports, e)
    BY <2>1 DEF Tallied
  <2> HIDE DEF e
  <2>5. TotalOf(Append(reports, e)) = TotalOf(reports) + e.quantity /\ TotalOf(reports) \in Int
    BY <2>2, <2>3, <2>4, TotalAppended
  <2>6. TotalOf(reports') = TotalOf(reports)
    BY <2>2, <2>4, <2>5
  <2> QED BY <1>2, <2>1, <2>6
<1>7. CASE ProcessOrder
  <2> DEFINE o == Head(queue)
             r == request[o]
  <2>1. /\ queue # << >> /\ UNCHANGED <<pos, reports, request>> /\ fills' = << >>
        /\ ord' = [ord EXCEPT ![o] = NewOrder(r.side, EffectivePrice(r), r.quantity)]
    BY <1>7 DEF ProcessOrder, MatchBegin
  <2> HIDE DEF o
  <2>2. o \in Orders /\ o <= Len(request) /\ ord[o] = BlankOrder
    BY <2>1, FrontOrder DEF o
  <2>3. /\ ord'[o].filled = 0 /\ ord'[o].price = EffectivePrice(request[o]) /\ ord[o].filled = 0
        /\ \A x \in Orders : x # o => ord'[x] = ord[x]
    BY <2>1, <2>2 DEF EInv, IInv, TypeOK, NewOrder, BlankOrder
  <2>4. \A x \in Orders : x # o => (x \in Live' <=> x \in Live)
    BY <2>3 DEF Live, is_active
  <2>5. \A x \in Orders :
           /\ ord'[x].filled = ord[x].filled
           /\ ord[x].filled > 0 => ord'[x].side = ord[x].side /\ ord'[x].price = ord[x].price
           /\ x \in Live' => \/ x \in Live /\ ord'[x].price = ord[x].price
                             \/ x <= Len(request) /\ ord'[x].price = EffectivePrice(request[x])
    BY <2>2, <2>3, <2>4
  <2> QED BY <2>1, <2>5, AveragedQuiet
<1>8. CASE ContinueMatch
  <2>1. CASE FillStep
    BY <1>8, <2>1, FillStepAveraged
  <2>2. CASE LevelTop \/ LevelDry \/ LevelDone \/ MatchEnd
    <3>1. UNCHANGED <<ord, fills>>
      BY <2>2 DEF LevelTop, LevelDry, LevelDone, MatchEnd
    <3>2. UNCHANGED <<pos, epc, reports, request>>
      BY <1>8 DEF ContinueMatch, engineVars
    <3> QED BY <1>2, <3>1, <3>2
  <2> QED BY <1>8, <2>1, <2>2 DEF ContinueMatch, MatchStep
<1>9. CASE BookFills
  BY <1>9, BookFillsAveraged
<1>10. CASE FinalizeOrder
  <2>1. /\ epc = "finalize" /\ epc' = "wait" /\ UNCHANGED <<pos, reports, request>>
        /\ ord' = [ord EXCEPT ![current].status = FinalStatus(current)]
    BY <1>10 DEF FinalizeOrder
  <2>2. /\ current \in Orders /\ current <= Len(request)
        /\ ord[current].price = EffectivePrice(request[current])
    BY <2>1 DEF EInv, InProcess, Untouched
  <2>3. FinalStatus(current) \in Status
    BY DEF FinalStatus, Status
  <2>4. /\ \A x \in Orders : x # current => ord'[x] = ord[x]
        /\ \A x \in Orders : /\ ord'[x].side = ord[x].side /\ ord'[x].price = ord[x].price
                             /\ ord'[x].filled = ord[x].filled
    BY <2>1, <2>2, <2>3, StatusChanged
  <2>5. \A x \in Orders : x # current => (x \in Live' <=> x \in Live)
    BY <2>4 DEF Live, is_active
  <2> QED BY <1>3, <2>1, <2>2, <2>4, <2>5
<1>11. CASE \E o \in Orders : CancelBetween(o)
  <2>1. PICK o \in Orders : CancelBetween(o)
    BY <1>11
  <2>2. epc' = "wait" /\ UNCHANGED <<pos, reports, request>>
    BY <2>1 DEF CancelBetween, engineVars
  <2>3. \/ ord' = ord
        \/ ord' = [ord EXCEPT ![o].status = "CANCELLED"]
    BY <2>1, CancelBetweenStep
  <2>4. CASE ord' = ord
    BY <1>2, <2>2, <2>4
  <2>5. CASE ord' = [ord EXCEPT ![o].status = "CANCELLED"]
    <3>1. /\ \A x \in Orders : x # o => ord'[x] = ord[x]
          /\ ord'[o].status = "CANCELLED"
          /\ \A x \in Orders : /\ ord'[x].side = ord[x].side /\ ord'[x].price = ord[x].price
                               /\ ord'[x].filled = ord[x].filled
      BY <2>5, StatusChanged DEF Status
    <3>2. \A x \in Orders : x \in Live' => x \in Live
      BY <3>1 DEF Live, is_active
    <3> QED BY <1>3, <2>2, <3>1, <3>2
  <2> QED BY <2>3, <2>4, <2>5
<1>12. CASE ToggleBreaker
  BY <1>2, <1>12 DEF ToggleBreaker, vars, callVars, engineVars
<1>13. CASE UNCHANGED allVars
  BY <1>2, <1>13 DEF allVars, vars, callVars, engineVars
<1> QED BY <1>4, <1>5, <1>6, <1>7, <1>8, <1>9, <1>10, <1>11, <1>12, <1>13 DEF EngineNext, WorkerStep

(* As long as no market order has bought and the shares bought fit their   *)
(* word, the average entry price is a price between the lowest and the     *)
(* highest that was paid: rounding does not take it out of them.           *)
THEOREM AverageWithinPrices ==
    ASSUME IsFiniteSet(Orders), ProductsFit
    PROVE  EngineSpec => [](FilledOn("BUY") < WORD => AverageIsPaid)
<1> DEFINE I == EInv /\ Flat /\ Tallied /\ Averaged
<1>1. EngineInit => I
  BY EngineInitInv, InitFlat, InitTally, InitAveraged
<1>2. I /\ [EngineNext]_allVars => I'
  BY EngineNextInv, NextFlat, NextTally, NextAveraged
<1>3. I => (FilledOn("BUY") < WORD => AverageIsPaid)
  <2> SUFFICES ASSUME EInv, Flat, Tallied, Averaged, FilledOn("BUY") < WORD, epc = "wait",
                      \A o \in Buyers : request[o].type = "LIMIT"
               PROVE  IF Buyers = {} THEN pos.avg = 0
                      ELSE \E o, p \in Buyers : ord[o].price <= pos.avg /\ pos.avg <= ord[p].price
    BY DEF AverageIsPaid
  <2>1. FilledOn("BUY") = Volume("BUY")
    BY FilledIsVolume DEF EInv, IInv
  <2>2. pos.bought = TotalOf(reports) /\ Bracketed(PricesPaid, pos)
    BY <2>1 DEF Averaged, Computable
  <2>3. Volume("BUY") = TotalOf(reports) + 0 /\ TotalOf(reports) \in Int
    <3>1. \A r \in Quantified : r.quantity \in Nat
      BY DEF Quantified
    <3>2. reports \in Seq(Quantified) /\ Volume("BUY") = TotalOf(reports) + 0
      BY DEF Tallied, Pending, Side
    <3> QED BY <3>1, <3>2, TotalType
  <2>4. pos.bought = 0 <=> Buyers = {}
    <3>1. /\ Volume("BUY") \in Nat
          /\ \A o \in Buyers : ord[o].filled <= Volume("BUY") /\ ord[o].filled \in Nat /\ ord[o].filled > 0
          /\ Buyers = {} => Volume("BUY") = 0
      BY VolumeParts
    <3>2. pos.bought = Volume("BUY")
      BY <2>2, <2>3
    <3>3. ASSUME NEW o \in Buyers PROVE Volume("BUY") # 0
      BY <3>1
    <3> QED BY <3>1, <3>2, <3>3
  <2>5. CASE Buyers = {}
    BY <2>2, <2>4, <2>5 DEF Bracketed
  <2>6. CASE Buyers # {}
    BY <2>2, <2>4, <2>6 DEF Bracketed, PricesPaid
  <2> QED BY <2>5, <2>6
<1> QED BY <1>1, <1>2, <1>3, PTL DEF EngineSpec

-----------------------------------------------------------------------------
(* The life of an order.                                                   *)

(* Without cancels the index only grows: it has every order that a slot    *)
(* holds, and each of them has a status that the sweep keeps, although its *)
(* quantity may be gone.                                                   *)
SlotsIndexed == \A p \in DOMAIN level : \A i \in Slots : level[p].buffer[i] \in index \cup {NoOrder}

IndexKept == \A o \in index : ord[o].status \in KeptStatus

(* The order that is processed is in the index as soon as match has let go *)
(* of it with a remainder, and not before.                                 *)
RestsIfLeft ==
    epc \in {"match", "finalize"} =>
        (current \in index <=> pc = "idle" /\ ord[current].remaining > 0)

(* What the queue, the worker and the index refer to is in storage.        *)
InHand == ToSet(queue) \cup (IF epc \in {"match", "finalize"} THEN {current} ELSE {}) \cup index

Owned ==
    /\ storage \subseteq Orders
    /\ tpc # "exit" => InHand \subseteq storage

(* Between orders there is no order that is processed.                     *)
Unoccupied == epc = "wait" => current = NoOrder

(* The inductive invariant of an order's life, on top of EInv.             *)
LInv == SlotsIndexed /\ IndexKept /\ RestsIfLeft /\ Owned /\ Unoccupied /\ KeptForAReason

(* Before anything is submitted, nothing refers to an order.               *)
LEMMA LifeInitInv == LifeInit => EInv /\ LInv
<1> SUFFICES ASSUME LifeInit PROVE EInv /\ LInv
  OBVIOUS
<1>1. EInv
  BY EngineInitInv DEF LifeInit
<1>2. /\ level = << >> /\ index = {} /\ queue = << >> /\ epc = "wait" /\ current = NoOrder
      /\ storage = {}
  BY DEF LifeInit, EngineInit, Init
<1>3. ToSet(queue) = {}
  BY <1>2 DEF ToSet
<1>4. DOMAIN level = {}
  BY <1>2
<1> QED BY <1>1, <1>2, <1>3, <1>4
        DEF LInv, SlotsIndexed, IndexKept, RestsIfLeft, Owned, InHand, Unoccupied, KeptForAReason

(* What a step of match leaves in a slot: nothing, what it held, or an     *)
(* order that the step has put into the index.                             *)
LEMMA MatchSlots ==
    ASSUME IInv, MatchStep, NEW p \in DOMAIN level', NEW i \in Slots
    PROVE  \/ level'[p].buffer[i] \in index' \cup {NoOrder}
           \/ p \in DOMAIN level /\ level'[p].buffer[i] = level[p].buffer[i]
<1> DEFINE top == Opp[1]
           L == Advance(level[top], Live)
<1>1. ASSUME pc = "fill"
      PROVE  /\ top \in DOMAIN level /\ RingOK(L)
             /\ \A k \in Slots : L.buffer[k] \in {level[top].buffer[k], NoOrder}
  <2>1. top \in DOMAIN level
    BY <1>1, MatchedLevel DEF IInv, CallOK
  <2> QED BY <2>1, AdvanceProperties DEF IInv, RingsOK
<1>2. CASE LevelTop
  BY <1>2 DEF LevelTop, bookVars
<1>3. CASE LevelDry
  <2>1. pc = "fill" /\ level' = [level EXCEPT ![top] = L]
    BY <1>3 DEF LevelDry
  <2> HIDE DEF L
  <2> QED BY <1>1, <2>1
<1>4. CASE FillStep
  <2> DEFINE m == HeadOrder(L)
             q == FillQuantity(inc, m)
             left == ord[m].remaining - q
             F == FillFront(L, q, left)
  <2>1. /\ pc = "fill" /\ ~Exhausted(L) /\ level' = [level EXCEPT ![top] = F]
    BY <1>4 DEF FillStep
  <2>2. m \in Live /\ inc \in Orders /\ ord \in [Orders -> Order]
    BY <1>1, <2>1, AdvanceProperties DEF IInv, CallOK, RingsOK, TypeOK
  <2>3. ord[m].remaining \in Nat /\ ord[inc].remaining \in Nat
    BY <2>2 DEF Live, Order
  <2> HIDE DEF m, L
  <2>4. q \in Nat /\ left \in Nat
    BY <2>3 DEF FillQuantity
  <2> HIDE DEF q, left
  <2>5. \A k \in Slots : F.buffer[k] \in {L.buffer[k], NoOrder}
    BY <1>1, <2>1, <2>4, FillFrontProperties
  <2> HIDE DEF F
  <2> QED BY <1>1, <2>1, <2>5
<1>5. CASE LevelDone
  BY <1>5 DEF LevelDone, Erase
<1>6. CASE MatchEnd /\ ord[inc].remaining > 0
  <2> DEFINE r == ord[inc]
             K == IF r.price \in DOMAIN level THEN level[r.price] ELSE EmptyLevel
             P == PushBack(K, inc, r.remaining)
  <2>1. level' = Put(level, r.price, P) /\ index' = index \cup {inc}
    BY <1>6 DEF MatchEnd, RestOrder
  <2>2. inc \in Orders /\ r.remaining \in Nat
    BY <1>6, MatchedLevel DEF MatchEnd, Order
  <2>3. /\ RingOK(K)
        /\ \A k \in Slots : K.buffer[k] = NoOrder
                              \/ (r.price \in DOMAIN level /\ K.buffer[k] = level[r.price].buffer[k])
    <3>1. RingOK(EmptyLevel)
      BY RingSize DEF EmptyLevel, Level, Slots, RingOK, Span
    <3> QED BY <3>1 DEF IInv, RingsOK, EmptyLevel
  <2> HIDE DEF K
  <2>4. \A k \in Slots : P.buffer[k] \in {K.buffer[k], inc}
    BY <1>6, <2>2, <2>3, PushBackProperties
  <2> HIDE DEF P
  <2> QED BY <2>1, <2>3, <2>4 DEF Put
<1>7. CASE MatchEnd /\ ~(ord[inc].remaining > 0)
  BY <1>7 DEF MatchEnd
<1> QED BY <1>2, <1>3, <1>4, <1>5, <1>6, <1>7 DEF MatchStep

(* A turn of match keeps what is known of the index.                       *)
LEMMA MatchLife ==
    ASSUME EInv, LInv, ContinueMatch, UNCHANGED <<tpc, storage, refused>>
    PROVE  LInv'
<1>1. /\ epc = "match" /\ MatchStep /\ UNCHANGED <<request, queue, epc, current>>
  BY DEF ContinueMatch, engineVars
<1>2. /\ pc # "idle" /\ inc = current /\ current \in Orders
      /\ pc' = "idle" => MatchEnd
      /\ \A x \in Orders : ord'[x].status = ord[x].status
      /\ ord[current].status = "NEW"
  BY <1>1, MatchLeaves DEF EInv, InProcess
<1>3. /\ pc' # "idle" => index' = index
      /\ pc' = "idle" => /\ ord' = ord
                         /\ index' = IF ord[current].remaining > 0 THEN index \cup {current} ELSE index
  <2>1. CASE MatchEnd
    BY <1>2, <2>1 DEF MatchEnd, RestOrder
  <2>2. CASE LevelTop \/ LevelDry \/ FillStep \/ LevelDone
    BY <2>2 DEF LevelTop, LevelDry, FillStep, LevelDone, bookVars
  <2> QED BY <1>1, <2>1, <2>2 DEF MatchStep
<1>4. index \subseteq index' /\ index' \subseteq index \cup {current}
  BY <1>3
<1>5. /\ index \subseteq Orders /\ storage \subseteq Orders
      /\ storage' = storage /\ tpc' = tpc /\ refused' = refused
  BY DEF EInv, IInv, TypeOK, LInv, Owned
<1>6. SlotsIndexed'
  <2> SUFFICES ASSUME NEW p \in DOMAIN level', NEW i \in Slots
               PROVE  level'[p].buffer[i] \in index' \cup {NoOrder}
    BY DEF SlotsIndexed
  <2>1. \/ level'[p].buffer[i] \in index' \cup {NoOrder}
        \/ p \in DOMAIN level /\ level'[p].buffer[i] = level[p].buffer[i]
    BY <1>1, MatchSlots DEF EInv
  <2> QED BY <1>4, <2>1 DEF LInv, SlotsIndexed
<1>7. IndexKept'
  BY <1>2, <1>4, <1>5 DEF LInv, IndexKept, KeptStatus
<1>8. RestsIfLeft'
  BY <1>1, <1>2, <1>3 DEF LInv, RestsIfLeft
<1>9. Owned' /\ Unoccupied'
  BY <1>1, <1>4, <1>5 DEF LInv, Owned, InHand, Unoccupied
<1>10. KeptForAReason'
  BY <1>1, <1>2, <1>4, <1>5 DEF LInv, KeptForAReason
<1> QED BY <1>6, <1>7, <1>8, <1>9, <1>10 DEF LInv

(* The members of a sequence are what stands at its places.                *)
LEMMA MembersAre ==
    ASSUME NEW S, NEW seq \in Seq(S)
    PROVE  ToSet(seq) = {seq[i] : i \in 1 .. Len(seq)}
<1>1. DOMAIN seq = 1 .. Len(seq)
  OBVIOUS
<1> QED BY <1>1, Zenon DEF ToSet

(* A queue and what is left of it, or becomes of it.                       *)
LEMMA QueueSets ==
    ASSUME NEW seq \in Seq(Orders)
    PROVE  /\ seq # << >> => ToSet(seq) = {Head(seq)} \cup ToSet(Tail(seq))
           /\ \A o \in Orders : ToSet(Append(seq, o)) = ToSet(seq) \cup {o}
<1>1. ASSUME seq # << >> PROVE ToSet(seq) = {Head(seq)} \cup ToSet(Tail(seq))
  <2>1. /\ Len(seq) \in Nat /\ Len(seq) > 0 /\ Head(seq) = seq[1] /\ Tail(seq) \in Seq(Orders)
        /\ Len(Tail(seq)) = Len(seq) - 1
        /\ \A i \in 1 .. Len(Tail(seq)) : i + 1 \in 1 .. Len(seq) /\ Tail(seq)[i] = seq[i + 1]
    BY <1>1
  <2>2. ToSet(seq) = {seq[i] : i \in 1 .. Len(seq)}
    BY MembersAre, Zenon
  <2>3. ToSet(Tail(seq)) = {Tail(seq)[i] : i \in 1 .. Len(Tail(seq))}
    BY <2>1, MembersAre, Zenon
  <2>4. \A x \in ToSet(seq) : x = Head(seq) \/ x \in ToSet(Tail(seq))
    <3> TAKE x \in ToSet(seq)
    <3>1. PICK i \in 1 .. Len(seq) : x = seq[i]
      BY <2>2
    <3>2. CASE i = 1
      BY <2>1, <3>1, <3>2
    <3>3. CASE i # 1
      <4>1. i - 1 \in 1 .. Len(Tail(seq)) /\ Tail(seq)[i - 1] = seq[i]
        BY <2>1, <3>1, <3>3
      <4> QED BY <2>3, <3>1, <4>1
    <3> QED BY <3>2, <3>3
  <2>5. Head(seq) \in ToSet(seq) /\ \A x \in ToSet(Tail(seq)) : x \in ToSet(seq)
    <3>1. Head(seq) \in ToSet(seq)
      BY <2>1, <2>2
    <3>2. \A i \in 1 .. Len(Tail(seq)) : Tail(seq)[i] \in ToSet(seq)
      BY <2>1, <2>2
    <3> QED BY <2>3, <3>1, <3>2
  <2> QED BY <2>4, <2>5
<1>2. ASSUME NEW o \in Orders PROVE ToSet(Append(seq, o)) = ToSet(seq) \cup {o}
  <2>1. /\ Len(seq) \in Nat /\ Len(Append(seq, o)) = Len(seq) + 1
        /\ Append(seq, o)[Len(seq) + 1] = o
        /\ \A i \in 1 .. Len(seq) : Append(seq, o)[i] = seq[i]
    OBVIOUS
  <2>2. ToSet(Append(seq, o)) = {Append(seq, o)[i] : i \in 1 .. Len(Append(seq, o))}
    <3>1. Append(seq, o) \in Seq(Orders)
      OBVIOUS
    <3> QED BY <3>1, MembersAre, Zenon
  <2>3. ToSet(seq) = {seq[i] : i \in 1 .. Len(seq)}
    BY MembersAre, Zenon
  <2> QED BY <2>1, <2>2, <2>3
<1> QED BY <1>1, <1>2

(* What waits in the queue is as it was submitted.                         *)
LEMMA QueuedBlank ==
    ASSUME EInv
    PROVE  \A o \in ToSet(queue) : o \in Orders /\ o > arrived /\ ord[o].status = "NEW"
<1>1. ToSet(queue) = {queue[i] : i \in 1 .. Len(queue)}
  BY MembersAre, Zenon DEF EInv, EngineTypes
<1>2. \A i \in 1 .. Len(queue) : queue[i] \in Orders /\ queue[i] > arrived /\ ord[queue[i]] = BlankOrder
  BY DEF EInv, EngineTypes, Untouched
<1>3. BlankOrder.status = "NEW"
  BY DEF BlankOrder
<1> QED BY <1>1, <1>2, <1>3

(* The order at the front is popped, to be rejected or to be matched.      *)
LEMMA PopLife ==
    ASSUME EInv, LInv, RejectOrder \/ ProcessOrder, UNCHANGED <<tpc, storage, refused>>
    PROVE  LInv'
<1> DEFINE o == Head(queue)
<1>1. /\ epc = "wait" /\ queue # << >> /\ queue' = Tail(queue) /\ current' = o
      /\ epc' \in {"reject", "match"} /\ UNCHANGED <<level, index>>
  BY DEF RejectOrder, ProcessOrder, MatchBegin, bookVars
<1>2. o \in Orders /\ o \in Nat /\ o > arrived /\ arrived \in Nat
  BY <1>1, FrontOrder
<1>3. ToSet(queue) = {o} \cup ToSet(queue')
  BY <1>1, QueueSets DEF EInv, EngineTypes
<1> HIDE DEF o
<1>4. /\ \A x \in Orders : x # o => ord'[x] = ord[x]
      /\ epc' = "reject" => ord'[o].status = "REJECTED" /\ pc' = "idle"
      /\ epc' = "match" => ord'[o].remaining \in Nat /\ (pc' = "idle" => ord'[o].remaining = 0)
  <2>1. CASE RejectOrder
    <3>1. PICK x \in Orders, r \in Order :
             /\ x > arrived /\ r.status = "REJECTED" /\ ord' = [ord EXCEPT ![x] = r]
      BY <2>1, RejectOrderStep
    <3>2. epc' = "reject" /\ pc = "idle" /\ pc' = "idle"
      BY <1>1, <2>1 DEF RejectOrder, EInv, InProcess
    <3>3. ord' = [ord EXCEPT ![o] = [NewOrder(request[o].side, request[o].price,
                                              request[o].quantity) EXCEPT !.status = "REJECTED"]]
      BY <2>1 DEF RejectOrder, o
    <3>4. ord \in [Orders -> Order]
      BY DEF EInv, IInv, TypeOK
    <3>5. ord'[o] = [NewOrder(request[o].side, request[o].price, request[o].quantity)
                       EXCEPT !.status = "REJECTED"]
      BY <1>2, <3>3, <3>4
    <3>6. ord'[o].status = "REJECTED"
      BY <3>5 DEF NewOrder
    <3> QED BY <1>2, <3>2, <3>3, <3>4, <3>6
  <2>2. CASE ProcessOrder
    <3>1. PICK x \in Orders, s \in Side, p \in Prices, q \in Quantities :
             current' = x /\ MatchBegin(x, s, p, q)
      BY <2>2, ProcessOrderStep
    <3>2. /\ x = o /\ ord' = [ord EXCEPT ![o] = NewOrder(s, p, q)]
          /\ pc' = IF q = 0 THEN "idle" ELSE "match"
      BY <1>1, <3>1 DEF MatchBegin
    <3>3. ord \in [Orders -> Order] /\ q \in Nat /\ NewOrder(s, p, q).remaining = q
      BY QuantitiesAssumption DEF EInv, IInv, TypeOK, NewOrder
    <3>4. epc' = "match"
      BY <2>2 DEF ProcessOrder
    <3> QED BY <1>2, <3>2, <3>3, <3>4
  <2> QED BY <2>1, <2>2
<1>5. /\ index \subseteq Orders /\ storage \subseteq Orders /\ storage' = storage
      /\ tpc' = tpc /\ refused' = refused /\ current \notin Orders
  BY <1>1, OrdersAssumption DEF EInv, IInv, TypeOK, LInv, Owned, Unoccupied, NoOrder
<1>6. o \notin index
  BY <1>2, <1>5, OrdersAssumption DEF EInv, Indexed
<1>7. SlotsIndexed'
  BY <1>1 DEF LInv, SlotsIndexed
<1>8. IndexKept'
  BY <1>1, <1>4, <1>5, <1>6 DEF LInv, IndexKept
<1>9. RestsIfLeft'
  BY <1>1, <1>4, <1>6 DEF RestsIfLeft
<1>10. Owned' /\ Unoccupied'
  BY <1>1, <1>3, <1>5 DEF LInv, Owned, InHand, Unoccupied
<1>11. KeptForAReason'
  <2> SUFFICES ASSUME NEW x \in storage', ord'[x].status \in {"NEW", "PARTIAL"}
               PROVE  x \in ToSet(queue') \cup {current'} \cup index' \cup refused'
    BY DEF KeptForAReason
  <2>1. CASE x = o
    BY <1>1, <2>1
  <2>2. CASE x # o
    <3>1. x \in storage /\ x \in Orders /\ ord'[x] = ord[x] /\ ord[x].status \in {"NEW", "PARTIAL"}
      BY <1>4, <1>5, <2>2
    <3>2. x \in ToSet(queue) \cup {current} \cup index \cup refused
      BY <3>1 DEF LInv, KeptForAReason
    <3>3. x # current
      BY <1>5, <3>1
    <3> QED BY <1>1, <1>3, <1>5, <2>2, <3>2, <3>3
  <2> QED BY <2>1, <2>2
<1> QED BY <1>7, <1>8, <1>9, <1>10, <1>11 DEF LInv

(* The report of a rejection; the order has nobody's attention any more.   *)
LEMMA SendRejectionLife ==
    ASSUME EInv, LInv, SendRejection, UNCHANGED <<tpc, storage, refused>>
    PROVE  LInv'
<1>1. /\ epc = "reject" /\ epc' = "wait" /\ current' = NoOrder
      /\ UNCHANGED <<ord, level, index, queue>>
  BY DEF SendRejection, vars, bookVars
<1>2. ord[current].status = "REJECTED"
  BY <1>1 DEF EInv, InProcess
<1>3. KeptForAReason'
  BY <1>1, <1>2 DEF LInv, KeptForAReason
<1> QED BY <1>1, <1>3 DEF LInv, SlotsIndexed, IndexKept, RestsIfLeft, Owned, InHand, Unoccupied

(* The positions and the report of a match.                                *)
LEMMA BookFillsLife ==
    ASSUME EInv, LInv, BookFills, UNCHANGED <<tpc, storage, refused>>
    PROVE  LInv'
<1>1. /\ epc = "match" /\ epc' = "finalize" /\ UNCHANGED <<ord, level, index, queue, pc, current>>
  BY DEF BookFills, vars, bookVars, callVars
<1> QED BY <1>1 DEF LInv, SlotsIndexed, IndexKept, RestsIfLeft, Owned, InHand, Unoccupied, KeptForAReason

(* The order's own status: what is left of it rests, and is kept.          *)
LEMMA FinalizeLife ==
    ASSUME EInv, LInv, FinalizeOrder, UNCHANGED <<tpc, storage, refused>>
    PROVE  LInv'
<1>1. /\ epc = "finalize" /\ epc' = "wait" /\ current' = NoOrder
      /\ ord' = [ord EXCEPT ![current].status = FinalStatus(current)]
      /\ UNCHANGED <<level, index, queue, pc>>
  BY DEF FinalizeOrder
<1>2. /\ current \in Orders /\ pc = "idle" /\ ord[current] \in Order
      /\ FinalStatus(current) \in Status
  BY <1>1 DEF EInv, IInv, TypeOK, InProcess, FinalStatus, Status
<1>3. /\ ord'[current].status = FinalStatus(current)
      /\ \A x \in Orders : x # current => ord'[x] = ord[x]
  BY <1>1, <1>2, StatusChanged
<1>4. FinalStatus(current) \in KeptStatus <=> current \in index
  <2>1. ord[current].remaining \in Nat
    BY <1>2 DEF Order
  <2>2. current \in index <=> ord[current].remaining > 0
    BY <1>1, <1>2 DEF LInv, RestsIfLeft
  <2> QED BY <2>1, <2>2 DEF FinalStatus, KeptStatus
<1>5. index \subseteq Orders /\ storage \subseteq Orders
  BY DEF EInv, IInv, TypeOK, LInv, Owned
<1>6. IndexKept'
  BY <1>1, <1>3, <1>4, <1>5 DEF LInv, IndexKept
<1>7. KeptForAReason'
  <2> SUFFICES ASSUME NEW x \in storage', ord'[x].status \in {"NEW", "PARTIAL"}
               PROVE  x \in ToSet(queue') \cup {current'} \cup index' \cup refused'
    BY DEF KeptForAReason
  <2>1. CASE x = current
    BY <1>1, <1>3, <1>4, <2>1 DEF KeptStatus
  <2>2. CASE x # current
    <3>1. x \in storage /\ ord[x].status \in {"NEW", "PARTIAL"}
      BY <1>3, <1>5, <2>2
    <3> QED BY <1>1, <2>2, <3>1 DEF LInv, KeptForAReason
  <2> QED BY <2>1, <2>2
<1> QED BY <1>1, <1>6, <1>7 DEF LInv, SlotsIndexed, RestsIfLeft, Owned, InHand, Unoccupied

(* An order is submitted and stored; the queue takes it or is full.        *)
LEMMA PopOrderLife ==
    ASSUME EInv, LInv, PopOrder
    PROVE  EInv' /\ LInv'
<1>1. tpc' = tpc
  BY DEF PopOrder
<1>2. CASE UNCHANGED <<allVars, storage, refused>>
  <2>1. UNCHANGED vars /\ UNCHANGED engineVars
    BY <1>2 DEF allVars
  <2>2. UNCHANGED <<ord, level, index, queue, pc, epc, current>>
    BY <2>1 DEF vars, bookVars, callVars, engineVars
  <2> QED BY <1>1, <1>2, <2>1, <2>2, EngineStutter
          DEF LInv, SlotsIndexed, IndexKept, RestsIfLeft, Owned, InHand, Unoccupied, KeptForAReason
<1>3. ASSUME NEW r \in BotOrders,
             SubmitOrder(r.side, r.type, r.price, r.quantity),
             storage' = storage \cup {Len(request')},
             refused' = IF Len(queue') > Len(queue) THEN refused
                        ELSE refused \cup {Len(request')}
      PROVE  EInv' /\ LInv'
  <2>1. /\ r.side \in Side /\ r.type \in Types /\ r.price \in LimitPrices \cup {0}
        /\ r.quantity \in Quantities
    BY DEF BotOrders, Side
  <2>2. EInv'
    BY <1>3, <2>1, SubmitOrderStep
  <2> DEFINE o == Len(request) + 1
  <2>3. /\ o \in Orders /\ Len(request') = o
        /\ queue' = (IF Len(queue) < QUEUE_SIZE THEN Append(queue, o) ELSE queue)
        /\ UNCHANGED <<ord, level, index, pc, epc, current>>
    <3>1. request' = Append(request, [side |-> r.side, type |-> r.type, price |-> r.price,
                                      quantity |-> r.quantity])
      BY <1>3 DEF SubmitOrder
    <3>2. request \in Seq(Request) /\ request' \in Seq(Request)
      BY <2>2 DEF EInv, EngineTypes
    <3>3. Len(request') = Len(request) + 1
      BY <3>1, <3>2
    <3> QED BY <1>3, <3>3 DEF SubmitOrder, vars, bookVars, callVars
  <2>4. queue \in Seq(Orders)
    BY DEF EInv, EngineTypes
  <2> HIDE DEF o
  <2>5. \/ ToSet(queue') = ToSet(queue) \cup {o}
        \/ ToSet(queue') = ToSet(queue) /\ o \in refused'
    <3>1. CASE Len(queue) < QUEUE_SIZE
      BY <2>3, <2>4, <3>1, QueueSets
    <3>2. CASE ~(Len(queue) < QUEUE_SIZE)
      <4>1. queue' = queue /\ Len(queue) \in Nat
        BY <2>3, <2>4, <3>2
      <4>2. ~(Len(queue') > Len(queue))
        BY <4>1
      <4> QED BY <1>3, <2>3, <4>1, <4>2
    <3> QED BY <3>1, <3>2
  <2>6. storage' = storage \cup {o} /\ refused \subseteq refused'
    BY <1>3, <2>3
  <2>7. Owned'
    BY <1>1, <2>3, <2>5, <2>6 DEF LInv, Owned, InHand
  <2>8. KeptForAReason'
    BY <2>3, <2>5, <2>6 DEF LInv, KeptForAReason
  <2> QED BY <2>2, <2>3, <2>7, <2>8
          DEF LInv, SlotsIndexed, IndexKept, RestsIfLeft, Unoccupied
<1> QED BY <1>2, <1>3 DEF PopOrder

(* The sweep takes no order from the queue, the worker or the index, and   *)
(* none at all from the rest of what is known.                             *)
LEMMA SweepLife ==
    ASSUME EInv, LInv, Sweep
    PROVE  LInv'
<1>1. /\ storage' = {o \in storage : ord[o].status \in KeptStatus} /\ refused' = refused
      /\ tpc = "sweep" /\ UNCHANGED <<ord, level, index, queue, pc, epc, current>>
  BY DEF Sweep, allVars, vars, bookVars, callVars, engineVars
<1>2. \A o \in InHand : o \in storage /\ ord[o].status \in KeptStatus
  <2>1. \A o \in ToSet(queue) : ord[o].status \in KeptStatus
    BY QueuedBlank DEF KeptStatus
  <2>2. epc \in {"match", "finalize"} => ord[current].status \in KeptStatus
    BY DEF EInv, InProcess, KeptStatus
  <2> QED BY <1>1, <2>1, <2>2 DEF LInv, Owned, InHand, IndexKept
<1>3. InHand' = InHand
  BY <1>1 DEF InHand
<1>4. Owned'
  BY <1>1, <1>2, <1>3 DEF LInv, Owned
<1> QED BY <1>1, <1>4 DEF LInv, SlotsIndexed, IndexKept, RestsIfLeft, Unoccupied, KeptForAReason

(* What the threads do apart from orders.                                  *)
LEMMA QuietLife ==
    ASSUME EInv, LInv, UNCHANGED allVars, refused' = refused,
           \/ UNCHANGED <<tpc, storage>>
           \/ storage' = storage /\ tpc # "exit"
           \/ storage' = {} /\ tpc' = "exit"
    PROVE  EInv' /\ LInv'
<1>1. UNCHANGED vars /\ UNCHANGED engineVars
  BY DEF allVars
<1>2. UNCHANGED <<ord, level, index, queue, pc, epc, current>>
  BY <1>1 DEF vars, bookVars, callVars, engineVars
<1>3. EInv'
  BY <1>1, EngineStutter
<1>4. Owned' /\ KeptForAReason'
  BY <1>2 DEF LInv, Owned, InHand, KeptForAReason
<1> QED BY <1>2, <1>3, <1>4 DEF LInv, SlotsIndexed, IndexKept, RestsIfLeft, Unoccupied

-----------------------------------------------------------------------------
(* No step of the three threads breaks the invariant.                      *)
LEMMA LifeNextInv == EInv /\ LInv /\ [LifeNext]_lifeVars => EInv' /\ LInv'
<1> SUFFICES ASSUME EInv, LInv, [LifeNext]_lifeVars PROVE EInv' /\ LInv'
  OBVIOUS
<1>1. CASE PopOrder
  BY <1>1, PopOrderLife
<1>2. CASE Sweep
  <2>1. UNCHANGED vars /\ UNCHANGED engineVars
    BY <1>2 DEF Sweep, allVars
  <2> QED BY <1>2, <2>1, SweepLife, EngineStutter
<1>3. CASE CycleStep
  <2>1. WorkerStep /\ UNCHANGED <<tpc, storage, refused>>
    BY <1>3 DEF CycleStep, threadVars
  <2>2. EInv'
    BY <2>1, EngineNextInv DEF EngineNext
  <2> QED BY <2>1, <2>2, PopLife, SendRejectionLife, MatchLife, BookFillsLife, FinalizeLife DEF WorkerStep
<1>4. CASE OnSnapshot \/ PopNothing \/ ThreadExit
  BY <1>4, QuietLife DEF OnSnapshot, PopNothing, ThreadExit
<1>5. CASE CycleBegin \/ CycleEnd \/ UseDestroyed \/ Close \/ Shutdown \/ UNCHANGED lifeVars
  BY <1>5, QuietLife DEF CycleBegin, CycleEnd, UseDestroyed, Close, Shutdown, JoinThread, JoinWorker,
                         DrainEnd, threadVars, lifeVars
<1> QED BY <1>1, <1>2, <1>3, <1>4, <1>5 DEF LifeNext, SnapshotThreadStep, WorkerThreadStep

(* The engine keeps its invariant under the snapshot thread, the worker    *)
(* and main, and every order it may reach is in the thread's storage.      *)
THEOREM LifeInvariance == LifeSpec => [](EInv /\ LInv)
BY LifeInitInv, LifeNextInv, PTL DEF LifeSpec

(* As long as the snapshot thread runs, no pointer that the engine may     *)
(* follow, not even one in a slot of a ring, leads to an order that the    *)
(* sweep has given back.                                                   *)
THEOREM SweepSparesLiveOrders == LifeSpec => []WorkerSeesLiveOrders
<1>1. EInv /\ LInv => WorkerSeesLiveOrders
  <2> SUFFICES ASSUME EInv, LInv, tpc # "exit" PROVE Followed \subseteq storage
    BY DEF WorkerSeesLiveOrders
  <2>1. InHand \subseteq storage
    BY DEF LInv, Owned
  <2>2. \A p \in DOMAIN level : Queued(level[p]) \subseteq index
    <3> SUFFICES ASSUME NEW p \in DOMAIN level, NEW x \in Queued(level[p]) PROVE x \in index
      OBVIOUS
    <3>1. level[p].head \in Slots /\ Span(level[p]) \in 0 .. MAX_ORDERS - 1 /\ MAX_ORDERS \in Nat
      BY RingParts, RingSize DEF EInv, IInv, RingsOK
    <3>2. PICK k \in 0 .. Span(level[p]) - 1 : x = level[p].buffer[Slot(level[p].head, k)] /\ x # NoOrder
      BY DEF Queued
    <3>3. k \in 0 .. MAX_ORDERS
      BY <3>1, <3>2
    <3>4. Slot(level[p].head, k) \in Slots
      BY <3>1, <3>3, SlotType
    <3> QED BY <3>2, <3>4 DEF LInv, SlotsIndexed
  <2> QED BY <2>1, <2>2 DEF Followed, InHand
<1> QED BY <1>1, LifeInvariance, PTL

(* The sweep keeps no order without a reason: one that it keeps is on its  *)
(* way, known to the book, or was refused by a full queue, and the last    *)
(* two never end.                                                          *)
THEOREM SweepKeepsForAReason == LifeSpec => []KeptForAReason
<1>1. LInv => KeptForAReason
  BY DEF LInv
<1> QED BY <1>1, LifeInvariance, PTL

-----------------------------------------------------------------------------
(* What the risk check refuses.                                            *)

(* Nobody writes the counters of the risk manager.                         *)
FreshCounters == position = [k \in Risk!Slots |-> Risk!FreshSlot]

(* An order that was refused has nothing filled and is in no slot and in   *)
(* no fill.                                                                *)
KeptOut ==
    /\ \A o \in Orders : Refused(o) => ord[o].filled = 0
    /\ \A p \in DOMAIN level : \A i \in Slots :
          level[p].buffer[i] # NoOrder => ~Refused(level[p].buffer[i])
    /\ fills \in Seq(MakerFill)
    /\ \A i \in 1 .. Len(fills) : fills[i].order <= arrived /\ ~Refused(fills[i].order)

(* All other buys are within the limit, those included that are to come.   *)
BuysLimited == \A o \in Orders : ord[o].side = "BUY" /\ ~Refused(o) => ord[o].quantity <= Limit

(* What was reported is done with: it neither waits nor is it on its way   *)
(* to its report.                                                          *)
Answered ==
    /\ reports \in Seq(Quantified)
    /\ \A i \in 1 .. Len(reports) :
          /\ reports[i].order <= Len(request)
          /\ \A j \in 1 .. Len(queue) : reports[i].order # queue[j]
          /\ epc \in {"reject", "match"} => reports[i].order # current
    /\ ReportedOnce

(* A refusal that was not reported is the one being processed.             *)
Explained == \A o \in Orders : Refused(o) => o = current \/ RefusalReported(o)

(* The inductive invariant of refusals, on top of EInv.                    *)
RInv == FreshCounters /\ KeptOut /\ BuysLimited /\ Answered /\ Explained /\ Unoccupied

(* With fresh counters, check_position compares the order's own quantity.  *)
LEMMA CheckedBuy ==
    ASSUME FreshCounters, NEW p, NEW q \in Quantities, Risk!CheckOrder(Symbol, "BUY", p, q)
    PROVE  q <= Limit
<1> DEFINE k == Risk!HashSymbol(Symbol)
<1>1. k \in Risk!Slots
  BY DEF Risk!Slots
<1>2. position[k] = [long |-> 0, short |-> 0, limit |-> Limit]
  BY <1>1 DEF FreshCounters, Risk!FreshSlot
<1>3. Risk!CheckPosition(position[k], "BUY", q)
  BY DEF Risk!CheckOrder
<1> HIDE DEF k
<1>4. Risk!Minus(Risk!Plus(0, q), 0) <= Limit
  BY <1>2, <1>3 DEF Risk!CheckPosition
<1>5. q \in 0 .. WORD - 1 /\ q \in Int /\ WORD \in Nat \ {0}
  BY EngineAssumption
<1>6. (q % WORD) = q
  BY <1>5, RemainderIs
<1>7. 0 + q = q /\ q - 0 = q
  BY <1>5
<1>8. Risk!Minus(Risk!Plus(0, q), 0) = q
  BY <1>6, <1>7 DEF Risk!Minus, Risk!Plus
<1> QED BY <1>4, <1>8

(* What a cancel leaves in a slot.                                         *)
LEMMA CancelSlots ==
    ASSUME IInv, NEW o \in Orders, CancelOrder(o), NEW p \in DOMAIN level', NEW i \in Slots
    PROVE  p \in DOMAIN level /\ level'[p].buffer[i] \in {level[p].buffer[i], NoOrder}
<1> DEFINE q == ord[o].price
           L == IF is_active(o) THEN RemoveOrder(level[q], o, ord[o].remaining, Live) ELSE level[q]
<1>1. \/ level' = level
      \/ q \in DOMAIN level /\ level' = Erase(level, q)
      \/ q \in DOMAIN level /\ level' = [level EXCEPT ![q] = L]
  BY DEF CancelOrder
<1>2. CASE level' = level
  BY <1>2
<1>3. CASE q \in DOMAIN level /\ level' = Erase(level, q)
  BY <1>3 DEF Erase
<1>4. CASE q \in DOMAIN level /\ level' = [level EXCEPT ![q] = L]
  <2>1. RingOK(level[q]) /\ ord[o].remaining \in Nat
    BY <1>4 DEF IInv, RingsOK, TypeOK, Order
  <2>2. L.buffer[i] \in {level[q].buffer[i], NoOrder}
    BY <2>1, RemoveOrderProperties
  <2> HIDE DEF L
  <2> QED BY <1>4, <2>2
<1> QED BY <1>1, <1>2, <1>3, <1>4

(* A step that refuses nothing, puts nothing refused into the index or the *)
(* fills, and fills slots from the index only.                             *)
LEMMA OrdersKept ==
    ASSUME EInv, KeptOut, BuysLimited,
           \A x \in Orders : /\ ord'[x].side = ord[x].side /\ ord'[x].quantity = ord[x].quantity
                             /\ ord'[x].status = "REJECTED" <=> ord[x].status = "REJECTED"
                             /\ ord[x].status = "REJECTED" => ord'[x].filled = ord[x].filled,
           \A p \in DOMAIN level' : \A i \in Slots :
              \/ level'[p].buffer[i] \in index' \cup {NoOrder}
              \/ p \in DOMAIN level /\ level'[p].buffer[i] = level[p].buffer[i],
           \A x \in index' : x \in Orders /\ ord[x].status # "REJECTED",
           fills' \in Seq(MakerFill),
           \A i \in 1 .. Len(fills') : /\ fills'[i].order \in Orders /\ fills'[i].order <= arrived'
                                       /\ ord[fills'[i].order].status # "REJECTED"
    PROVE  KeptOut' /\ BuysLimited'
<1>1. ASSUME NEW x \in Orders, ord'[x].status = "REJECTED" PROVE ord'[x].filled = 0
  BY <1>1 DEF KeptOut, Refused
<1>2. ASSUME NEW p \in DOMAIN level', NEW i \in Slots, level'[p].buffer[i] # NoOrder
      PROVE  ord'[level'[p].buffer[i]].status # "REJECTED"
  <2> DEFINE b == level'[p].buffer[i]
  <2>1. b \in Orders /\ ord[b].status # "REJECTED"
    <3>1. CASE b \in index'
      BY <3>1
    <3>2. CASE p \in DOMAIN level /\ b = level[p].buffer[i]
      <4>1. b \in Orders
        BY <1>2, <3>2, SlotContents DEF EInv
      <4> QED BY <1>2, <3>2, <4>1 DEF KeptOut, Refused
    <3> QED BY <1>2, <3>1, <3>2
  <2> QED BY <2>1
<1>3. KeptOut'
  BY <1>1, <1>2 DEF KeptOut, Refused
<1>4. BuysLimited'
  BY DEF BuysLimited, Refused
<1> QED BY <1>3, <1>4

(* The fills name orders that came to the book.                            *)
LEMMA FillOrders ==
    ASSUME EInv, KeptOut, NEW i \in 1 .. Len(fills)
    PROVE  /\ fills[i].order \in Orders /\ fills[i].order <= arrived
           /\ ord[fills[i].order].status # "REJECTED"
<1>1. fills[i] \in MakerFill
  BY DEF KeptOut
<1> QED BY <1>1 DEF KeptOut, MakerFill, Refused

(* The reports name orders.                                                *)
LEMMA ReportedOrders ==
    ASSUME Answered, NEW i \in 1 .. Len(reports)
    PROVE  reports[i].order \in Orders /\ reports[i].order \in Nat
<1>1. reports[i] \in Quantified
  BY DEF Answered
<1>2. reports[i].order \in Orders
  BY <1>1 DEF Quantified
<1> QED BY <1>2, OrdersAssumption

(* Nothing is reported, and only the front of the queue comes into work.   *)
LEMMA AnswersKept ==
    ASSUME EInv, Answered, Explained, reports' = reports,
           Len(request') \in Nat, Len(request') >= Len(request),
           \A j \in 1 .. Len(queue') : \/ queue'[j] > Len(request)
                                       \/ \E k \in 1 .. Len(queue) : queue'[j] = queue[k],
           epc' \in {"reject", "match"} =>
              \/ epc \in {"reject", "match"} /\ current' = current
              \/ \E k \in 1 .. Len(queue) : current' = queue[k],
           \A x \in Orders : ord'[x].status = "REJECTED" =>
              x = current' \/ (ord[x].status = "REJECTED" /\ x # current)
    PROVE  Answered' /\ Explained'
<1>1. reports \in Seq(Quantified) /\ Len(request) \in Nat
  BY DEF Answered, EInv, EngineTypes
<1>2. ASSUME NEW i \in 1 .. Len(reports)
      PROVE  /\ reports[i].order <= Len(request')
             /\ \A j \in 1 .. Len(queue') : reports[i].order # queue'[j]
             /\ epc' \in {"reject", "match"} => reports[i].order # current'
  <2>1. reports[i].order \in Orders /\ reports[i].order \in Nat
    BY ReportedOrders
  <2>2. /\ reports[i].order <= Len(request)
        /\ \A j \in 1 .. Len(queue) : reports[i].order # queue[j]
        /\ epc \in {"reject", "match"} => reports[i].order # current
    BY DEF Answered
  <2>3. reports[i].order <= Len(request')
    BY <1>1, <2>1, <2>2
  <2>4. ASSUME NEW j \in 1 .. Len(queue') PROVE reports[i].order # queue'[j]
    <3>1. CASE queue'[j] > Len(request)
      BY <1>1, <2>1, <2>2, <3>1
    <3>2. CASE \E k \in 1 .. Len(queue) : queue'[j] = queue[k]
      BY <2>2, <3>2
    <3> QED BY <3>1, <3>2
  <2> QED BY <2>2, <2>3, <2>4
<1>3. Answered'
  BY <1>1, <1>2 DEF Answered, ReportedOnce
<1>4. Explained'
  BY DEF Explained, Refused, RefusalReported
<1> QED BY <1>3, <1>4

(* The order in work gets its report, which is its only one.               *)
LEMMA AnswerSent ==
    ASSUME EInv, Answered, epc \in {"reject", "match"}, UNCHANGED <<request, queue>>,
           epc' \notin {"reject", "match"},
           NEW e \in Quantified, e.order = current, reports' = Append(reports, e)
    PROVE  /\ Answered'
           /\ Len(reports') = Len(reports) + 1 /\ Len(reports) \in Nat /\ reports'[Len(reports) + 1] = e
           /\ \A i \in 1 .. Len(reports) : reports'[i] = reports[i]
<1>1. reports \in Seq(Quantified)
  BY DEF Answered
<1>2. /\ Len(reports') = Len(reports) + 1 /\ Len(reports) \in Nat /\ reports'[Len(reports) + 1] = e
      /\ \A i \in 1 .. Len(reports) : reports'[i] = reports[i]
      /\ reports' \in Seq(Quantified)
  BY <1>1
<1>3. current \in Orders /\ current \in Nat /\ current <= Len(request)
      /\ \A j \in 1 .. Len(queue) : current # queue[j]
  <2>1. current \in Orders /\ current \in Nat /\ \A j \in 1 .. Len(queue) : queue[j] \in Nat
    <3>1. queue \in Seq(Orders) /\ current \in Orders
      BY DEF EInv, EngineTypes, InProcess
    <3>2. \A j \in 1 .. Len(queue) : queue[j] \in Orders
      BY <3>1
    <3> QED BY <3>1, <3>2, OrdersAssumption
  <2>2. CASE epc = "reject"
    BY <2>1, <2>2 DEF EInv, InProcess
  <2>3. CASE epc = "match"
    <3>1. current = arrived
      BY <2>3 DEF EInv, InProcess
    <3> QED BY <2>1, <3>1 DEF EInv, Untouched
  <2> QED BY <2>1, <2>2, <2>3
<1>4. ASSUME NEW i \in 1 .. Len(reports')
      PROVE  /\ reports'[i].order <= Len(request')
             /\ \A j \in 1 .. Len(queue') : reports'[i].order # queue'[j]
  <2>1. CASE i \in 1 .. Len(reports)
    BY <1>2, <2>1 DEF Answered
  <2>2. CASE i = Len(reports) + 1
    BY <1>2, <1>3, <2>2
  <2> QED BY <1>2, <2>1, <2>2
<1>5. ReportedOnce'
  <2>1. \A i \in 1 .. Len(reports) : reports[i].order # current
    BY DEF Answered
  <2>2. \A i \in 1 .. Len(reports') : i \in 1 .. Len(reports) \/ i = Len(reports) + 1
    BY <1>2
  <2> QED BY <1>2, <2>1, <2>2 DEF Answered, ReportedOnce
<1> QED BY <1>2, <1>4, <1>5 DEF Answered

(* The order at the front is refused.                                      *)
LEMMA RejectOrderRefuses ==
    ASSUME EInv, RInv, RejectOrder PROVE RInv'
<1> DEFINE o == Head(queue)
<1>1. /\ epc = "wait" /\ epc' = "reject" /\ queue # << >> /\ queue' = Tail(queue) /\ current' = o
      /\ UNCHANGED <<arrived, level, index, fills, position, request, reports>>
      /\ ord' = [ord EXCEPT ![o] = [NewOrder(request[o].side, request[o].price,
                                             request[o].quantity) EXCEPT !.status = "REJECTED"]]
  BY DEF RejectOrder, riskVars
<1>2. /\ o \in Orders /\ o \in Nat /\ o > arrived /\ arrived \in Nat
      /\ Tail(queue) \in Seq(Orders) /\ Len(Tail(queue)) = Len(queue) - 1
      /\ \A i \in 1 .. Len(Tail(queue)) :
            i + 1 \in 1 .. Len(queue) /\ Tail(queue)[i] = queue[i + 1]
  BY <1>1, FrontOrder
<1>3. o = queue[1] /\ 1 \in 1 .. Len(queue) /\ Len(request) \in Nat
  BY <1>1 DEF EInv, EngineTypes
<1> HIDE DEF o
<1>4. /\ ord'[o].status = "REJECTED" /\ ord'[o].filled = 0
      /\ \A x \in Orders : x # o => ord'[x] = ord[x]
  BY <1>1, <1>2 DEF EInv, IInv, TypeOK, NewOrder
<1>5. KeptOut'
  <2>1. ASSUME NEW p \in DOMAIN level, NEW i \in Slots, level[p].buffer[i] # NoOrder
        PROVE  ord'[level[p].buffer[i]].status # "REJECTED"
    <3>1. level[p].buffer[i] \in Orders /\ level[p].buffer[i] \in Nat /\ level[p].buffer[i] <= arrived
      BY <2>1, SlotContents DEF EInv
    <3>2. level[p].buffer[i] # o
      BY <1>2, <3>1
    <3> QED BY <1>4, <2>1, <3>1, <3>2 DEF RInv, KeptOut, Refused
  <2>2. ASSUME NEW i \in 1 .. Len(fills)
        PROVE  fills[i].order <= arrived /\ ord'[fills[i].order].status # "REJECTED"
    <3>1. /\ fills[i].order \in Orders /\ fills[i].order <= arrived
          /\ ord[fills[i].order].status # "REJECTED"
      BY FillOrders DEF RInv
    <3>2. fills[i].order # o
      BY <1>2, <3>1
    <3> QED BY <1>4, <3>1, <3>2
  <2> QED BY <1>1, <1>4, <2>1, <2>2 DEF RInv, KeptOut, Refused
<1>6. BuysLimited'
  BY <1>4 DEF RInv, BuysLimited, Refused
<1>7. Answered' /\ Explained'
  <2>1. \A x \in Orders : ord'[x].status = "REJECTED" =>
           x = current' \/ (ord[x].status = "REJECTED" /\ x # current)
    BY <1>1, <1>4, OrdersAssumption DEF RInv, Unoccupied, NoOrder
  <2>2. \A j \in 1 .. Len(queue') : \E k \in 1 .. Len(queue) : queue'[j] = queue[k]
    BY <1>1, <1>2
  <2>3. \E k \in 1 .. Len(queue) : current' = queue[k]
    BY <1>1, <1>3
  <2>4. Len(request') \in Nat /\ Len(request') >= Len(request) /\ reports' = reports
    BY <1>1, <1>3
  <2> QED BY <2>1, <2>2, <2>3, <2>4, AnswersKept DEF RInv
<1> QED BY <1>1, <1>5, <1>6, <1>7 DEF RInv, FreshCounters, Unoccupied

(* The order at the front passes the check: a buy is within the limit.     *)
LEMMA ProcessOrderRefuses ==
    ASSUME EInv, RInv, ProcessOrder PROVE RInv'
<1> DEFINE o == Head(queue)
           r == request[o]
<1>1. /\ epc = "wait" /\ epc' = "match" /\ queue # << >> /\ queue' = Tail(queue) /\ current' = o
      /\ Risk!CheckOrder(Symbol, r.side, r.price, r.quantity)
      /\ arrived' = o /\ fills' = << >>
      /\ UNCHANGED <<level, position, request, reports>>
      /\ ord' = [ord EXCEPT ![o] = NewOrder(r.side, EffectivePrice(r), r.quantity)]
  BY DEF ProcessOrder, MatchBegin, bookVars, riskVars
<1>2. /\ o \in Orders /\ r \in Request
      /\ Tail(queue) \in Seq(Orders) /\ Len(Tail(queue)) = Len(queue) - 1
      /\ \A i \in 1 .. Len(Tail(queue)) :
            i + 1 \in 1 .. Len(queue) /\ Tail(queue)[i] = queue[i + 1]
  BY <1>1, FrontOrder
<1>3. o = queue[1] /\ 1 \in 1 .. Len(queue) /\ Len(request) \in Nat
  BY <1>1 DEF EInv, EngineTypes
<1>4. r.quantity \in Quantities /\ (r.side = "BUY" => r.quantity <= Limit)
  BY <1>1, <1>2, CheckedBuy, RequestFields DEF RInv
<1> HIDE DEF o, r
<1>5. /\ ord'[o].status = "NEW" /\ ord'[o].side = r.side /\ ord'[o].quantity = r.quantity
      /\ \A x \in Orders : x # o => ord'[x] = ord[x]
  BY <1>1, <1>2 DEF EInv, IInv, TypeOK, NewOrder
<1>6. KeptOut'
  <2>1. ASSUME NEW p \in DOMAIN level, NEW i \in Slots, level[p].buffer[i] # NoOrder
        PROVE  ord'[level[p].buffer[i]].status # "REJECTED"
    <3>1. level[p].buffer[i] \in Orders
      BY <2>1, SlotContents DEF EInv
    <3> QED BY <1>5, <2>1, <3>1 DEF RInv, KeptOut, Refused
  <2>2. fills' \in Seq(MakerFill) /\ Len(fills') = 0
    BY <1>1
  <2> QED BY <1>1, <1>5, <2>1, <2>2 DEF RInv, KeptOut, Refused
<1>7. BuysLimited'
  BY <1>4, <1>5 DEF RInv, BuysLimited, Refused
<1>8. Answered' /\ Explained'
  <2>1. \A x \in Orders : ord'[x].status = "REJECTED" =>
           x = current' \/ (ord[x].status = "REJECTED" /\ x # current)
    BY <1>1, <1>5, OrdersAssumption DEF RInv, Unoccupied, NoOrder
  <2>2. \A j \in 1 .. Len(queue') : \E k \in 1 .. Len(queue) : queue'[j] = queue[k]
    BY <1>1, <1>2
  <2>3. \E k \in 1 .. Len(queue) : current' = queue[k]
    BY <1>1, <1>3
  <2>4. Len(request') \in Nat /\ Len(request') >= Len(request) /\ reports' = reports
    BY <1>1, <1>3
  <2> QED BY <2>1, <2>2, <2>3, <2>4, AnswersKept DEF RInv
<1> QED BY <1>1, <1>6, <1>7, <1>8 DEF RInv, FreshCounters, Unoccupied

(* The invariant of orders, when the book and all orders stay as they are. *)
LEMMA OrdersSame ==
    ASSUME EInv, KeptOut, BuysLimited, UNCHANGED <<ord, arrived, level, fills>>
    PROVE  KeptOut' /\ BuysLimited'
BY DEF KeptOut, BuysLimited, Refused

(* The report of a rejection.                                              *)
LEMMA SendRejectionRefuses ==
    ASSUME EInv, RInv, SendRejection PROVE RInv'
<1> DEFINE e == Report(current, "REJECTED", 0, 0)
<1>1. /\ epc = "reject" /\ epc' = "wait" /\ current' = NoOrder /\ reports' = Append(reports, e)
      /\ UNCHANGED <<ord, arrived, level, fills, position, request, queue>>
  BY DEF SendRejection, vars, bookVars, callVars, riskVars
<1>2. e \in Quantified /\ e.order = current
  BY <1>1 DEF EInv, InProcess, Quantified, Report, Status
<1> HIDE DEF e
<1>3. /\ Answered'
      /\ Len(reports') = Len(reports) + 1 /\ Len(reports) \in Nat /\ reports'[Len(reports) + 1] = e
      /\ \A i \in 1 .. Len(reports) : reports'[i] = reports[i]
  BY <1>1, <1>2, AnswerSent DEF RInv
<1>4. Explained'
  <2> SUFFICES ASSUME NEW x \in Orders, ord[x].status = "REJECTED"
               PROVE  \E i \in 1 .. Len(reports') : reports'[i] = Report(x, "REJECTED", 0, 0)
    BY <1>1 DEF Explained, Refused, RefusalReported
  <2>1. CASE x = current
    BY <1>3, <2>1 DEF e
  <2>2. CASE x # current
    <3>1. PICK i \in 1 .. Len(reports) : reports[i] = Report(x, "REJECTED", 0, 0)
      BY <2>2 DEF RInv, Explained, Refused, RefusalReported
    <3> QED BY <1>3, <3>1
  <2> QED BY <2>1, <2>2
<1>5. KeptOut' /\ BuysLimited'
  BY <1>1, OrdersSame DEF RInv
<1> QED BY <1>1, <1>3, <1>4, <1>5 DEF RInv, FreshCounters, Unoccupied

(* The report of what was filled, if anything was.                         *)
LEMMA BookFillsRefuses ==
    ASSUME EInv, RInv, BookFills PROVE RInv'
<1> DEFINE e == Report(current, ord[current].status, ord[current].filled, ord[current].price)
<1>1. /\ epc = "match" /\ epc' = "finalize" /\ current' = current
      /\ reports' = IF ord[current].filled = 0 THEN reports ELSE Append(reports, e)
      /\ UNCHANGED <<ord, arrived, level, fills, position, request, queue>>
  BY DEF BookFills, SendFill, vars, bookVars, callVars, riskVars
<1>2. /\ current \in Orders /\ ord[current] \in Order /\ ord[current].status = "NEW"
      /\ Len(request) \in Nat
  BY <1>1 DEF EInv, EngineTypes, InProcess, IInv, TypeOK
<1>3. e \in Quantified /\ e.order = current
  BY <1>2 DEF Quantified, Report, Order
<1> HIDE DEF e
<1>4. CASE reports' = Append(reports, e)
  <2>1. /\ Answered'
        /\ Len(reports') = Len(reports) + 1 /\ Len(reports) \in Nat
        /\ \A i \in 1 .. Len(reports) : reports'[i] = reports[i]
    BY <1>1, <1>3, <1>4, AnswerSent DEF RInv
  <2>2. Explained'
    BY <1>1, <2>1 DEF RInv, Explained, Refused, RefusalReported
  <2> QED BY <1>1, <2>1, <2>2, OrdersSame DEF RInv, FreshCounters, Unoccupied
<1>5. CASE reports' = reports
  <2>1. Answered' /\ Explained'
    BY <1>1, <1>2, <1>5 DEF RInv, Answered, ReportedOnce, Explained, Refused, RefusalReported
  <2> QED BY <1>1, <2>1, OrdersSame DEF RInv, FreshCounters, Unoccupied
<1> QED BY <1>1, <1>4, <1>5

(* A turn of match.                                                        *)
LEMMA ContinueMatchRefuses ==
    ASSUME EInv, RInv, ContinueMatch PROVE RInv'
<1>1. /\ epc = "match" /\ MatchStep
      /\ UNCHANGED <<position, request, queue, epc, current, reports>>
  BY DEF ContinueMatch, engineVars, riskVars
<1>2. /\ arrived' = arrived /\ inc = current /\ current \in Orders /\ ord[current].status = "NEW"
      /\ inc <= arrived /\ ord \in [Orders -> Order]
      /\ \A x \in Orders : ord'[x].side = ord[x].side /\ ord'[x].status = ord[x].status
  BY <1>1, MatchLeaves, MatchedLevel DEF EInv, InProcess
<1>3. /\ \A x \in Orders : /\ ord'[x].quantity = ord[x].quantity
                           /\ ord[x].status = "REJECTED" => ord'[x].filled = ord[x].filled
      /\ fills' \in Seq(MakerFill)
      /\ \A i \in 1 .. Len(fills') : /\ fills'[i].order \in Orders /\ fills'[i].order <= arrived
                                     /\ ord[fills'[i].order].status # "REJECTED"
  <2>1. fills \in Seq(MakerFill)
    BY DEF RInv, KeptOut
  <2>2. \A i \in 1 .. Len(fills) : /\ fills[i].order \in Orders /\ fills[i].order <= arrived
                                   /\ ord[fills[i].order].status # "REJECTED"
    BY FillOrders DEF RInv
  <2>3. CASE FillStep
    <3>1. PICK m \in Orders, q \in Nat :
             /\ m \in Live /\ m <= arrived /\ ord[m] \in Order /\ ord[inc] \in Order
             /\ fills' = Append(fills, [order |-> m, quantity |-> q, price |-> ord[inc].price])
             /\ ord'[m] = Executed(ord[m], q) /\ ord'[inc] = Executed(ord[inc], q)
             /\ \A x \in Orders : x # m /\ x # inc => ord'[x] = ord[x]
      BY <2>3, FillFacts DEF EInv
    <3>2. ord[m].status # "REJECTED"
      BY <3>1 DEF Live, is_active
    <3>3. \A x \in Orders : /\ ord'[x].quantity = ord[x].quantity
                            /\ ord[x].status = "REJECTED" => ord'[x] = ord[x]
      <4>1. \A x \in {m, inc} : ord'[x].quantity = ord[x].quantity
        BY <3>1 DEF Executed, Order
      <4>2. ord[inc].status # "REJECTED"
        BY <1>2
      <4> QED BY <3>1, <3>2, <4>1, <4>2
    <3> DEFINE e == [order |-> m, quantity |-> q, price |-> ord[inc].price]
    <3>4. e \in MakerFill /\ e.order = m
      BY <3>1 DEF MakerFill, Order
    <3> HIDE DEF e
    <3>5. /\ fills' \in Seq(MakerFill) /\ Len(fills') = Len(fills) + 1 /\ Len(fills) \in Nat
          /\ fills'[Len(fills) + 1] = e
          /\ \A i \in 1 .. Len(fills) : fills'[i] = fills[i]
      BY <2>1, <3>1, <3>4 DEF e
    <3>6. ASSUME NEW i \in 1 .. Len(fills')
          PROVE  /\ fills'[i].order \in Orders /\ fills'[i].order <= arrived
                 /\ ord[fills'[i].order].status # "REJECTED"
      <4>1. CASE i \in 1 .. Len(fills)
        BY <2>2, <3>5, <4>1
      <4>2. CASE i = Len(fills) + 1
        BY <3>1, <3>2, <3>4, <3>5, <4>2
      <4> QED BY <3>5, <4>1, <4>2
    <3> QED BY <3>3, <3>5, <3>6
  <2>4. CASE LevelTop \/ LevelDry \/ LevelDone \/ MatchEnd
    <3>1. UNCHANGED <<ord, fills>>
      BY <2>4 DEF LevelTop, LevelDry, LevelDone, MatchEnd
    <3> QED BY <2>1, <2>2, <3>1
  <2> QED BY <1>1, <2>3, <2>4 DEF MatchStep
<1>4. \A x \in index' : x \in Orders /\ ord[x].status # "REJECTED"
  <2>1. index' \subseteq index \cup {inc}
    BY <1>1 DEF MatchStep, LevelTop, LevelDry, FillStep, LevelDone, MatchEnd, RestOrder, bookVars
  <2> QED BY <1>2, <2>1 DEF EInv, IInv, TypeOK, Indexed
<1>5. ASSUME NEW p \in DOMAIN level', NEW i \in Slots
      PROVE  \/ level'[p].buffer[i] \in index' \cup {NoOrder}
             \/ p \in DOMAIN level /\ level'[p].buffer[i] = level[p].buffer[i]
  BY <1>1, MatchSlots DEF EInv
<1>6. KeptOut' /\ BuysLimited'
  BY <1>2, <1>3, <1>4, <1>5, OrdersKept DEF RInv
<1>7. Answered'
  BY <1>1 DEF RInv, Answered, ReportedOnce
<1>8. Explained'
  BY <1>1, <1>2 DEF RInv, Explained, Refused, RefusalReported
<1> QED BY <1>1, <1>6, <1>7, <1>8 DEF RInv, FreshCounters, Unoccupied

(* An order that was not refused gets another status.                      *)
LEMMA StatusRefuses ==
    ASSUME EInv, RInv, NEW o \in Orders, NEW st \in Status \ {"REJECTED"},
           ord[o].status # "REJECTED", ord' = [ord EXCEPT ![o].status = st],
           UNCHANGED <<arrived, fills, position, request, queue, reports>>,
           epc' = "wait", current' = NoOrder,
           epc = "finalize" => ord[current].status # "REJECTED",
           index' \subseteq index,
           \A p \in DOMAIN level' : \A i \in Slots :
              \/ level'[p].buffer[i] = NoOrder
              \/ p \in DOMAIN level /\ level'[p].buffer[i] = level[p].buffer[i],
           epc \in {"wait", "finalize"}
    PROVE  RInv'
<1>1. /\ ord'[o].status = st /\ \A x \in Orders : x # o => ord'[x] = ord[x]
      /\ \A x \in Orders : ord'[x].side = ord[x].side /\ ord'[x].filled = ord[x].filled
  BY StatusChanged
<1>2. ASSUME NEW x \in Orders PROVE ord'[x].quantity = ord[x].quantity
  BY DEF EInv, IInv, TypeOK
<1>3. \A x \in index' : x \in Orders /\ ord[x].status # "REJECTED"
  BY DEF EInv, IInv, TypeOK, Indexed
<1>4. /\ fills' \in Seq(MakerFill)
      /\ \A i \in 1 .. Len(fills') : /\ fills'[i].order \in Orders /\ fills'[i].order <= arrived'
                                     /\ ord[fills'[i].order].status # "REJECTED"
  BY FillOrders DEF RInv, KeptOut
<1>5. KeptOut' /\ BuysLimited'
  BY <1>1, <1>2, <1>3, <1>4, OrdersKept DEF RInv
<1>6. Len(request) \in Nat
  BY DEF EInv, EngineTypes
<1>7. \A x \in Orders : ord'[x].status = "REJECTED" => ord[x].status = "REJECTED" /\ x # current
  <2>1. \A x \in Orders : ord'[x].status = "REJECTED" => ord[x].status = "REJECTED" /\ x # o
    BY <1>1
  <2> QED BY <2>1, OrdersAssumption DEF RInv, Unoccupied, NoOrder
<1>8. Answered' /\ Explained'
  BY <1>6, <1>7, AnswersKept DEF RInv
<1> QED BY <1>5, <1>8 DEF RInv, FreshCounters, Unoccupied

(* The order's final status.                                               *)
LEMMA FinalizeRefuses ==
    ASSUME EInv, RInv, FinalizeOrder PROVE RInv'
<1>1. /\ epc = "finalize" /\ epc' = "wait" /\ current' = NoOrder
      /\ ord' = [ord EXCEPT ![current].status = FinalStatus(current)]
      /\ UNCHANGED <<arrived, level, index, fills, position, request, queue, reports>>
  BY DEF FinalizeOrder, riskVars
<1>2. current \in Orders /\ ord[current].status = "NEW"
  BY <1>1 DEF EInv, InProcess
<1>3. FinalStatus(current) \in Status \ {"REJECTED"}
  BY DEF FinalStatus, Status
<1> QED BY <1>1, <1>2, <1>3, StatusRefuses

(* A cancel between two orders.                                            *)
LEMMA CancelRefuses ==
    ASSUME EInv, RInv, NEW o \in Orders, CancelBetween(o) PROVE RInv'
<1>1. /\ epc = "wait" /\ CancelOrder(o)
      /\ UNCHANGED <<position, request, queue, epc, current, reports>>
  BY DEF CancelBetween, engineVars, riskVars
<1>2. /\ UNCHANGED <<arrived, fills>> /\ index' = index \ {o} /\ o \in index
      /\ \/ ord' = ord
         \/ ord' = [ord EXCEPT ![o].status = "CANCELLED"]
  BY <1>1 DEF CancelOrder, callVars
<1>3. ord[o].status # "REJECTED" /\ current = NoOrder
  BY <1>1, <1>2 DEF EInv, Indexed, RInv, Unoccupied
<1>4. ASSUME NEW p \in DOMAIN level', NEW i \in Slots
      PROVE  p \in DOMAIN level /\ level'[p].buffer[i] \in {level[p].buffer[i], NoOrder}
  BY <1>1, CancelSlots DEF EInv
<1>5. CASE ord' = [ord EXCEPT ![o].status = "CANCELLED"]
  <2>1. "CANCELLED" \in Status \ {"REJECTED"}
    BY DEF Status
  <2> QED BY <1>1, <1>2, <1>3, <1>4, <1>5, <2>1, StatusRefuses
<1>6. CASE ord' = ord
  <2>1. \A x \in index' : x \in Orders /\ ord[x].status # "REJECTED"
    BY <1>2 DEF EInv, IInv, TypeOK, Indexed
  <2>2. /\ fills' \in Seq(MakerFill)
        /\ \A i \in 1 .. Len(fills') : /\ fills'[i].order \in Orders /\ fills'[i].order <= arrived'
                                       /\ ord[fills'[i].order].status # "REJECTED"
    BY <1>2, FillOrders DEF RInv, KeptOut
  <2>3. KeptOut' /\ BuysLimited'
    BY <1>4, <1>6, <2>1, <2>2, OrdersKept DEF RInv
  <2>4. Answered' /\ Explained'
    BY <1>1, <1>6 DEF RInv, Answered, ReportedOnce, Explained, Refused, RefusalReported
  <2> QED BY <1>1, <2>3, <2>4 DEF RInv, FreshCounters, Unoccupied
<1> QED BY <1>2, <1>5, <1>6

(* An order is submitted.                                                  *)
LEMMA SubmitRefuses ==
    ASSUME EInv, RInv, NEW s, NEW t, NEW p, NEW q, SubmitOrder(s, t, p, q), EInv'
    PROVE  RInv'
<1> DEFINE o == Len(request) + 1
<1>1. /\ request' = Append(request, [side |-> s, type |-> t, price |-> p, quantity |-> q])
      /\ queue' = (IF Len(queue) < QUEUE_SIZE THEN Append(queue, o) ELSE queue)
      /\ UNCHANGED <<ord, arrived, level, fills, position, epc, current, reports>>
  BY DEF SubmitOrder, vars, bookVars, callVars, riskVars
<1>2. /\ request \in Seq(Request) /\ request' \in Seq(Request) /\ queue \in Seq(Orders)
  BY DEF EInv, EngineTypes
<1>3. Len(request') \in Nat /\ Len(request) \in Nat /\ Len(request') = o
  BY <1>1, <1>2
<1>4. \A j \in 1 .. Len(queue') : \/ queue'[j] > Len(request)
                                  \/ \E k \in 1 .. Len(queue) : queue'[j] = queue[k]
  <2>1. CASE queue' = queue
    BY <2>1
  <2>2. CASE queue' = Append(queue, o)
    <3>1. /\ Len(queue') = Len(queue) + 1 /\ Len(queue) \in Nat /\ queue'[Len(queue) + 1] = o
          /\ \A j \in 1 .. Len(queue) : queue'[j] = queue[j]
      BY <1>2, <2>2
    <3>2. o > Len(request)
      BY <1>3
    <3> HIDE DEF o
    <3>3. \A j \in 1 .. Len(queue') : j \in 1 .. Len(queue) \/ j = Len(queue) + 1
      BY <3>1
    <3> QED BY <3>1, <3>2, <3>3
  <2> QED BY <1>1, <2>1, <2>2
<1>5. Len(request') >= Len(request)
  BY <1>3
<1> HIDE DEF o
<1>6. Answered'
  <2>1. ASSUME NEW i \in 1 .. Len(reports)
        PROVE  /\ reports[i].order <= Len(request')
               /\ \A j \in 1 .. Len(queue') : reports[i].order # queue'[j]
    <3>1. reports[i].order \in Nat
      BY ReportedOrders DEF RInv
    <3>2. reports[i].order <= Len(request) /\ \A j \in 1 .. Len(queue) : reports[i].order # queue[j]
      BY DEF RInv, Answered
    <3> QED BY <1>3, <1>4, <1>5, <3>1, <3>2
  <2> QED BY <1>1, <2>1 DEF RInv, Answered, ReportedOnce
<1>7. Explained'
  BY <1>1 DEF RInv, Explained, Refused, RefusalReported
<1> QED BY <1>1, <1>6, <1>7, OrdersSame DEF RInv, FreshCounters, Unoccupied

(* Nothing changes but the breaker.                                        *)
LEMMA QuietRefuses ==
    ASSUME EInv, RInv, UNCHANGED vars, UNCHANGED engineVars, position' = position
    PROVE  RInv'
<1>1. UNCHANGED <<ord, arrived, level, fills, request, queue, epc, current, reports>>
  BY DEF vars, bookVars, callVars, engineVars
<1>2. Answered' /\ Explained'
  BY <1>1 DEF RInv, Answered, ReportedOnce, Explained, Refused, RefusalReported
<1> QED BY <1>1, <1>2, OrdersSame DEF RInv, FreshCounters, Unoccupied

(* At the start nothing is refused.                                        *)
LEMMA InitRefuses == EngineInit => RInv
<1> SUFFICES ASSUME EngineInit PROVE RInv
  OBVIOUS
<1>1. /\ position = [k \in Risk!Slots |-> Risk!FreshSlot] /\ level = << >> /\ fills = << >>
      /\ reports = << >> /\ current = NoOrder /\ \A o \in Orders : ord[o] = BlankOrder
  BY DEF EngineInit, Init, Risk!Init
<1>2. Limit \in Nat
  BY EngineAssumption
<1>3. DOMAIN level = {} /\ Len(fills) = 0 /\ fills \in Seq(MakerFill)
      /\ Len(reports) = 0 /\ reports \in Seq(Quantified)
  BY <1>1
<1>4. KeptOut /\ BuysLimited
  BY <1>1, <1>2, <1>3 DEF KeptOut, BuysLimited, Refused, BlankOrder
<1>5. Answered /\ Explained
  BY <1>1, <1>3 DEF Answered, ReportedOnce, Explained, Refused, BlankOrder
<1> QED BY <1>1, <1>4, <1>5 DEF RInv, FreshCounters, Unoccupied

(* No step of any thread gives a refused order a trace.                    *)
LEMMA NextRefuses == EInv /\ RInv /\ [EngineNext]_allVars => RInv'
<1> SUFFICES ASSUME EInv, RInv, [EngineNext]_allVars PROVE RInv'
  OBVIOUS
<1>1. CASE \E s \in {"BUY", "SELL"}, t \in Types, q \in Quantities :
              \E p \in (IF t = "MARKET" THEN {0} ELSE LimitPrices) : SubmitOrder(s, t, p, q)
  BY <1>1, EngineNextInv, SubmitRefuses
<1>2. CASE WorkerStep
  BY <1>2, RejectOrderRefuses, SendRejectionRefuses, ProcessOrderRefuses, ContinueMatchRefuses,
     BookFillsRefuses, FinalizeRefuses DEF WorkerStep
<1>3. CASE \E o \in Orders : CancelBetween(o)
  BY <1>3, CancelRefuses
<1>4. CASE ToggleBreaker
  <2>1. position' = position
    BY <1>4 DEF ToggleBreaker, Risk!ActivateCircuitBreaker, Risk!ResetCircuitBreaker
  <2> QED BY <1>4, <2>1, QuietRefuses DEF ToggleBreaker
<1>5. CASE UNCHANGED allVars
  BY <1>5, QuietRefuses DEF allVars, riskVars
<1> QED BY <1>1, <1>2, <1>3, <1>4, <1>5 DEF EngineNext

(* The risk check binds, whatever is matched and cancelled and however the *)
(* breaker is thrown: an order it has rejected stays out of the book and   *)
(* of all fills and is reported as rejected, no order is reported twice,   *)
(* and no buy larger than the limit comes into the book or trades.         *)
THEOREM RefusalsLeaveNoTrace == EngineSpec => []RiskCheckBinds
<1>1. EngineInit => EInv /\ RInv
  BY EngineInitInv, InitRefuses
<1>2. EInv /\ RInv /\ [EngineNext]_allVars => (EInv /\ RInv)'
  BY EngineNextInv, NextRefuses
<1>3. EInv /\ RInv => RiskCheckBinds
  <2> SUFFICES ASSUME EInv, RInv PROVE RiskCheckBinds
    OBVIOUS
  <2>1. ASSUME NEW o \in Passed PROVE o \in Orders /\ ~Refused(o)
    BY DEF Passed, EInv, IInv, TypeOK, Indexed, RInv, KeptOut, Refused
  <2>2. ASSUME NEW i \in 1 .. Len(fills) PROVE ~Refused(fills[i].order)
    BY DEF RInv, KeptOut
  <2>3. ASSUME NEW p \in DOMAIN level, NEW o \in Queued(level[p]) PROVE ~Refused(o)
    <3>1. level[p].head \in Slots /\ Span(level[p]) \in 0 .. MAX_ORDERS - 1 /\ MAX_ORDERS \in Nat
      BY RingParts, RingSize DEF EInv, IInv, RingsOK
    <3>2. PICK k \in 0 .. Span(level[p]) - 1 : o = level[p].buffer[Slot(level[p].head, k)] /\ o # NoOrder
      BY DEF Queued
    <3>3. k \in 0 .. MAX_ORDERS
      BY <3>1, <3>2
    <3>4. Slot(level[p].head, k) \in Slots
      BY <3>1, <3>3, SlotType
    <3> QED BY <3>2, <3>4 DEF RInv, KeptOut
  <2>4. \A o \in Traces : ~Refused(o)
    BY <2>1, <2>2, <2>3 DEF Traces
  <2> QED BY <2>1, <2>4 DEF RInv, BuysLimited, Answered, Explained, RiskCheckBinds
<1> QED BY <1>1, <1>2, <1>3, PTL DEF EngineSpec
=============================================================================
