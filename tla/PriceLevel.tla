----------------------------- MODULE PriceLevel -----------------------------
(***************************************************************************)
(* One price level of the book (book/price_level.cpp): a ring buffer of    *)
(* MAX_ORDERS slots that holds the resting orders of one price in arrival  *)
(* order.  The level is a value, a record of the class's members; each     *)
(* method is an operator from a level to the level it leaves behind.       *)
(*                                                                         *)
(* Orders are named by their ids.  What a method reads of an order (is it  *)
(* active, has it quantity left) is the argument `live', the set of orders *)
(* with status NEW or PARTIAL and remaining_quantity > 0.                  *)
(***************************************************************************)
EXTENDS Integers, FiniteSets

CONSTANTS
    MAX_ORDERS,   \* slots of the ring
    Orders        \* ids of the orders, in order of arrival

NoOrder == 0      \* nullptr in a slot

ASSUME RingAssumption ==
    /\ MAX_ORDERS \in Nat /\ MAX_ORDERS > 1
    /\ \E k \in 1 .. MAX_ORDERS : MAX_ORDERS = 2 ^ k

ASSUME OrdersAssumption == Orders \subseteq Nat \ {NoOrder}

Slots == 0 .. MAX_ORDERS - 1

Level == [buffer : [Slots -> Orders \cup {NoOrder}],
          head   : Slots,
          tail   : Slots,
          size   : Nat,
          total  : Int]

(* The constructor: all slots null, both cursors at 0.                     *)
EmptyLevel == [buffer |-> [i \in Slots |-> NoOrder],
               head |-> 0, tail |-> 0, size |-> 0, total |-> 0]

(* `(i + k) & MASK': the slot k places after slot i, for k <= MAX_ORDERS.  *)
Slot(i, k) == IF i + k < MAX_ORDERS THEN i + k ELSE i + k - MAX_ORDERS

(* The number of slots from head up to tail.  A ring filled to the last    *)
(* slot has head = tail, and so span 0: the class cannot tell it from an   *)
(* empty one by its cursors.                                               *)
Span(L) == IF L.head <= L.tail THEN L.tail - L.head ELSE L.tail + MAX_ORDERS - L.head

(* The orders in the window from head to tail, oldest first.               *)
Queued(L) == {L.buffer[Slot(L.head, k)] : k \in 0 .. Span(L) - 1} \ {NoOrder}

empty(L) == L.size = 0

-----------------------------------------------------------------------------
(* advance(): drop dead slots at the head until the head is live or the    *)
(* window is exhausted.  DeadRun is the number of slots the loop drops.    *)
IsDeadRun(L, live, k) ==
    /\ \A j \in 0 .. k - 1 : L.buffer[Slot(L.head, j)] \notin live
    /\ k = Span(L) \/ L.buffer[Slot(L.head, k)] \in live

DeadRun(L, live) == CHOOSE k \in 0 .. Span(L) : IsDeadRun(L, live, k)

(* A mutant of Advance: the counter is not decremented.                    *)
AdvanceKeepsSize(L, live) ==
    LET k       == DeadRun(L, live)
        dropped == {Slot(L.head, j) : j \in 0 .. k - 1}
    IN  [L EXCEPT !.buffer = [i \in Slots |-> IF i \in dropped THEN NoOrder ELSE @[i]],
                  !.head = Slot(L.head, k)]

Advance(L, live) ==
    LET k       == DeadRun(L, live)
        dropped == {Slot(L.head, j) : j \in 0 .. k - 1}
    IN  [buffer |-> [i \in Slots |-> IF i \in dropped THEN NoOrder ELSE L.buffer[i]],
         head   |-> Slot(L.head, k),
         tail   |-> L.tail,
         size   |-> L.size - k,
         total  |-> L.total]

(* head() == tail(): nothing left to match against.                        *)
Exhausted(L) == L.head = L.tail

(* A mutant of HeadOrder: last in, first out.                              *)
NewestOrder(L) == L.buffer[Slot(L.tail, MAX_ORDERS - 1)]

HeadOrder(L) == L.buffer[L.head]

(* A mutant of PushBack: the tail stays where it is.                       *)
PushBackSameTail(L, o, remaining) ==
    IF remaining = 0 THEN L
    ELSE [L EXCEPT !.buffer[L.tail] = o, !.size = @ + 1, !.total = @ + remaining]

(* add_order(): the slot at tail is overwritten whatever it holds.         *)
PushBack(L, o, remaining) ==
    IF remaining = 0 THEN L
    ELSE [buffer |-> [L.buffer EXCEPT ![L.tail] = o],
          head   |-> L.head,
          tail   |-> Slot(L.tail, 1),
          size   |-> L.size + 1,
          total  |-> L.total + remaining]

(* remove_order() on an order whose status is still active: the quantity   *)
(* leaves the total at once, the slot stays until it comes to the head.    *)
(* `live' is taken before the call.                                        *)
RemoveOrder(L, o, remaining, live) ==
    LET M == [L EXCEPT !.total = L.total - remaining]
    IN  IF ~Exhausted(L) /\ HeadOrder(L) = o THEN Advance(M, live \ {o}) ELSE M

(* A mutant of FillFront: the total is not reduced.                        *)
FillFrontKeepsTotal(L, quantity, left) ==
    IF left > 0 THEN L
    ELSE [L EXCEPT !.buffer[L.head] = NoOrder, !.head = Slot(L.head, 1), !.size = @ - 1]

(* A mutant of FillFront: a filled order keeps its slot.                   *)
FillFrontKeepsSlot(L, quantity, left) == [L EXCEPT !.total = L.total - quantity]

(* The fill of `quantity' against the head, of which `left' remains: the   *)
(* body of match_order()'s loop after advance().                           *)
FillFront(L, quantity, left) ==
    LET M == [L EXCEPT !.total = L.total - quantity]
    IN  IF left > 0 THEN M
        ELSE [M EXCEPT !.buffer[L.head] = NoOrder,
                       !.head = Slot(L.head, 1),
                       !.size = L.size - 1]
=============================================================================
